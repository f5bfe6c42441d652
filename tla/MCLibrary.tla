------------------------------- MODULE MCLibrary -------------------------------
(* Every memory of four bytes of three values, and every call of string.h   *)
(* on it.  Every text of up to four characters over eight, with numbers of  *)
(* five bits; "x" is a digit, too, but of no base that is asked for.        *)
(* Formats of up to two pieces, each with its argument and with what it     *)
(* should print written down here, in buffers from none to large enough,    *)
(* with ints of four bits and pointers of eight.                            *)
EXTENDS Library, Integers, Sequences, TLC, SequencesExt

MCByte == 0 .. 2

-------------------------------------------------------------------------------
Chars == {" ", "+", "-", "x", "0", "1", "3", "9"}

MCTexts == UNION {[1 .. n -> Chars] : n \in 0 .. 4}

MCBases == {0, 2, 8, 10, 16}

MCValueOf == ("0" :> 0) @@ ("1" :> 1) @@ ("3" :> 3) @@ ("9" :> 9) @@ ("x" :> 33)

-------------------------------------------------------------------------------
StringArg(txt)    == [kind |-> "string", text |-> txt, value |-> 0]
CharArg(c)        == [kind |-> "int", text |-> << c >>, value |-> 0]
IntArg(value)     == [kind |-> "int", text |-> << >>, value |-> value]
PointerArg(value) == [kind |-> "pointer", text |-> << >>, value |-> value]

Piece(format, args, printed) == [fmt |-> format, args |-> args, printed |-> printed]

Itself(format) == Piece(format, << >>, format)

Pieces ==
  { << Itself(<< "b" >>) >>,
    << Piece(<< "%", "%" >>, << >>, << "%" >>) >>,
    << Piece(<< "%", "s" >>, << StringArg(<< "a", "b" >>) >>, << "a", "b" >>) >>,
    << Piece(<< "%", "s" >>, << StringArg(<< "NULL" >>) >>, << "(", "n", "u", "l", "l", ")" >>) >>,
    << Piece(<< "%", "c" >>, << CharArg("k") >>, << "k" >>) >>,
    << Piece(<< "%", "d" >>, << IntArg(-8) >>, << "-", "8" >>) >>,
    << Piece(<< "%", "i" >>, << IntArg(0) >>, << "0" >>) >>,
    << Piece(<< "%", "u" >>, << IntArg(-2) >>, << "1", "4" >>) >>,
    << Piece(<< "%", "x" >>, << IntArg(-5) >>, << "b" >>) >>,
    << Piece(<< "%", "X" >>, << IntArg(-5) >>, << "B" >>) >>,
    << Piece(<< "%", "p" >>, << PointerArg(250) >>, << "0", "x", "f", "a" >>) >>,
    << Itself(<< "%", "." >>), Itself(<< "*" >>), Itself(<< "s" >>) >> }

Printed == {<< >>} \union Pieces \union {p \o q : p, q \in Pieces} \union
           {p \o << Itself(<< "%" >>) >> : p \in Pieces}

(* What the first n pieces have of something, one behind the other.         *)
Upto(print, n, Part(_)) == FlattenSeq([m \in 1 .. n |-> Part(print[m])])

Format(print, n) == Upto(print, n, LAMBDA p : p.fmt)
Args(print, n)   == Upto(print, n, LAMBDA p : p.args)
Whole(print, n)  == Upto(print, n, LAMBDA p : p.printed)

MCCases ==
  { [ fmt |-> Format(print, Len(print)), args |-> Args(print, Len(print)),
      printed |-> Whole(print, Len(print)),
      places |-> [ n \in 1 .. Len(print) + 1 |->
        [ fmt |-> Len(Format(print, n - 1)) + 1, a |-> Len(Args(print, n - 1)) + 1,
          pos |-> Len(Whole(print, n - 1)) ] ],
      size |-> size ] : print \in Printed, size \in {0, 1, 2, 3, 5, 13} }
===============================================================================
