--------------------------------- MODULE Printf ---------------------------------
(***************************************************************************)
(* vsnprintf of the artifacts' library, src/libc/libc.c:192-342: the       *)
(* format is read once, each directive takes the next argument, and the    *)
(* text goes to a buffer that may be too small for it.                     *)
(*                                                                         *)
(* Texts are sequences of characters; numbers have the width of IntLimit   *)
(* = 2^w, pointers of PointerLimit.  The number of characters is assumed   *)
(* to fit the int that is returned (libc.c:328-330).                       *)
(***************************************************************************)
EXTENDS Integers, Sequences, SequencesExt

CONSTANTS
  Cases,          (* [fmt, args, size] and what should be printed, places   *)
  BufferRoom,     (* bytes of memory from the buffer's first one on         *)
  IntLimit, PointerLimit

RoomAssumption ==
  BufferRoom \in Nat /\ \A case \in Cases : case.size \in Nat /\ case.size < BufferRoom

(* What goes through "..." is [kind, text, value]: a pointer to a text, or  *)
(* a number, which for a character is written as that.                      *)
NULL == << "NULL" >>

Unwritten == "unwritten"

VARIABLES
  case,       (* the call                                                   *)
  fmt, a,     (* where it is in the format, and the next argument           *)
  str, pos,   (* the buffer                                                *)
  result, pc

vars == << case, fmt, a, str, pos, result, pc >>

Init ==
  /\ case \in Cases
  /\ fmt = 1 /\ a = 1 /\ pos = 0 /\ result = 0
  /\ str = [p \in 0 .. BufferRoom - 1 |-> Unwritten]
  /\ pc = "format"

CountAll(text) == pos + Len(text)

(* sb_putc for each character of a text: kept in front of the last byte.    *)
Put(text) ==
  /\ str' = [p \in DOMAIN str |->
       IF p \in pos .. pos + Len(text) - 1 /\ p + 1 < case.size THEN text[p - pos + 1] ELSE str[p]]
  /\ pos' = CountAll(text)

(* utoa_rev: the digits from the last to the first.                         *)
utoa_rev(value, base, map) ==
  LET digits[v \in Nat] == IF v = 0 THEN << >> ELSE << map[(v % base) + 1] >> \o digits[v \div base]
  IN  IF value = 0 THEN << map[1] >> ELSE digits[value]

low == << "0", "1", "2", "3", "4", "5", "6", "7", "8", "9", "a", "b", "c", "d", "e", "f" >>
up  == << "0", "1", "2", "3", "4", "5", "6", "7", "8", "9", "A", "B", "C", "D", "E", "F" >>

Number(value, base, map) == Reverse(utoa_rev(value, base, map))

(* Through long long, where the smallest int has its opposite.              *)
Decimal(v) ==
  IF v < 0 THEN << "-" >> \o Number(0 - v, 10, low) ELSE Number(v, 10, low)

Unsigned(v) == v % IntLimit

Text(directive, arg) ==
  CASE directive = "s" -> IF arg.text = NULL THEN << "(", "n", "u", "l", "l", ")" >> ELSE arg.text
    [] directive = "c" -> arg.text
    [] directive \in {"d", "i"} -> Decimal(arg.value)
    [] directive = "u" -> Number(Unsigned(arg.value), 10, low)
    [] directive = "x" -> Number(Unsigned(arg.value), 16, low)
    [] directive = "X" -> Number(Unsigned(arg.value), 16, up)
    [] directive = "p" -> << "0", "x" >> \o Number(arg.value % PointerLimit, 16, low)

KindOf(directive) ==
  CASE directive = "s" -> "string" [] directive = "p" -> "pointer" [] OTHER -> "int"

Supported == {"s", "c", "d", "i", "u", "x", "X", "p"}

(* What a piece of a format asks for, by itself: the text of an argument of *)
(* its kind, one "%", or itself where it is no directive that is known.     *)
Asks(piece) ==
  \/ \E directive \in Supported :
       /\ piece.fmt = << "%", directive >>
       /\ Len(piece.args) = 1 /\ piece.args[1].kind = KindOf(directive)
       /\ piece.printed = Text(directive, piece.args[1])
  \/ piece.fmt = << "%", "%" >> /\ piece.args = << >> /\ piece.printed = << "%" >>
  \/ /\ piece.printed = piece.fmt /\ piece.args = << >>
     /\ \/ Len(piece.fmt) = 1 /\ piece.fmt[1] # "%"
        \/ Len(piece.fmt) = 2 /\ piece.fmt[1] = "%" /\ piece.fmt[2] \notin Supported \union {"%"}
        \/ piece.fmt = << "%" >> /\ piece.last

(* The pieces begin at the places.                                          *)
Piece(call, n) ==
  LET here == call.places[n]  next == call.places[n + 1]
  IN  [ fmt |-> SubSeq(call.fmt, here.fmt, next.fmt - 1),
        args |-> SubSeq(call.args, here.a, next.a - 1),
        printed |-> SubSeq(call.printed, here.pos + 1, next.pos),
        last |-> n + 1 = Len(call.places) ]

Place == [fmt : Nat \ {0}, a : Nat \ {0}, pos : Nat]

(* From the beginning to the end of the format, its arguments and its text. *)
PlacesInOrder(call) ==
  /\ call.places \in Seq(Place) /\ call.places # << >>
  /\ call.places[1] = [fmt |-> 1, a |-> 1, pos |-> 0]
  /\ call.places[Len(call.places)] =
       [fmt |-> Len(call.fmt) + 1, a |-> Len(call.args) + 1, pos |-> Len(call.printed)]
  /\ \A n \in 1 .. Len(call.places) - 1 :
       LET here == call.places[n]  next == call.places[n + 1] IN
       /\ here.fmt < next.fmt /\ next.fmt <= Len(call.fmt) + 1
       /\ here.a <= next.a /\ next.a <= Len(call.args) + 1
       /\ here.pos <= next.pos /\ next.pos <= Len(call.printed)

Argument == [kind : STRING, text : Seq(STRING), value : Int]

(* A call has the arguments that its format asks for, and what should be    *)
(* printed is what its pieces ask for.                                      *)
CasesAssumption ==
  \A call \in Cases :
    /\ call.fmt \in Seq(STRING \ {"NUL"}) /\ call.args \in Seq(Argument) /\ call.printed \in Seq(STRING)
    /\ PlacesInOrder(call)
    /\ \A n \in 1 .. Len(call.places) - 1 : Asks(Piece(call, n))

-------------------------------------------------------------------------------
Reading == pc = "format" /\ fmt <= Len(case.fmt)

(* What is behind the "%", if anything is.                                  *)
Specifier == IF fmt < Len(case.fmt) THEN case.fmt[fmt + 1] ELSE "NUL"

Literal ==
  /\ Reading /\ case.fmt[fmt] # "%"
  /\ Put(<< case.fmt[fmt] >>) /\ fmt' = fmt + 1
  /\ UNCHANGED << case, a, result, pc >>

Percent ==
  /\ Reading /\ case.fmt[fmt] = "%" /\ Specifier = "%"
  /\ Put(<< "%" >>) /\ fmt' = fmt + 2
  /\ UNCHANGED << case, a, result, pc >>

Directive ==
  /\ Reading /\ case.fmt[fmt] = "%" /\ Specifier \in Supported
  /\ IF a <= Len(case.args) /\ case.args[a].kind = KindOf(Specifier)
     THEN Put(Text(Specifier, case.args[a])) /\ fmt' = fmt + 2 /\ UNCHANGED pc
     ELSE pc' = "undefined" /\ UNCHANGED << str, pos, fmt >>   \* va_arg
  /\ a' = a + 1
  /\ UNCHANGED << case, result >>

ArgumentKept == a

BehindUnknown == IF Specifier = "NUL" THEN fmt + 1 ELSE fmt + 2

(* A directive that is not known is text, and takes no argument.            *)
Unknown ==
  /\ Reading /\ case.fmt[fmt] = "%" /\ Specifier \notin Supported \union {"%"}
  /\ Put(IF Specifier = "NUL" THEN << "%" >> ELSE << "%", Specifier >>)
  /\ fmt' = BehindUnknown /\ a' = ArgumentKept
  /\ UNCHANGED << case, result, pc >>

Terminator == IF pos < case.size THEN pos ELSE case.size - 1

Finish ==
  /\ pc = "format" /\ fmt > Len(case.fmt)
  /\ IF case.size > 0 THEN str' = [str EXCEPT ![Terminator] = "NUL"] ELSE UNCHANGED str
  /\ result' = pos /\ pc' = "returned"
  /\ UNCHANGED << case, fmt, a, pos >>

Next == Literal \/ Percent \/ Directive \/ Unknown \/ Finish

Spec == Init /\ [][Next]_vars
-------------------------------------------------------------------------------
TypeOK ==
  /\ fmt \in 1 .. Len(case.fmt) + 1 /\ a \in 1 .. Len(case.args) + 1
  /\ DOMAIN str = 0 .. BufferRoom - 1 /\ pos \in Nat /\ result \in Nat
  /\ pc \in {"format", "returned"}

(* Whatever the size: nothing behind it is written, and the text that is    *)
(* there ends with a zero (libc.c:16-17).                                   *)
StaysInTheBuffer ==
  /\ \A p \in DOMAIN str : p >= case.size => str[p] = Unwritten
  /\ pc = "returned" /\ case.size > 0 =>
       \E p \in 0 .. case.size - 1 :
         str[p] = "NUL" /\ \A q \in DOMAIN str : q > p => str[q] = Unwritten

(* The buffer holds the text that should be printed, as far as it fits: in  *)
(* front of the zero is a prefix of it, and all of it if there is room.     *)
PrintsWhatFits ==
  pc = "returned" /\ case.size > 0 =>
    LET fits == IF Len(case.printed) < case.size THEN Len(case.printed) ELSE case.size - 1
    IN  /\ \A p \in 0 .. fits - 1 : str[p] = case.printed[p + 1]
        /\ str[fits] = "NUL"

(* The number of characters that the whole text has is returned for every   *)
(* size, 0 included (libc.c:14-16): the combiner takes its next path from   *)
(* it (format.c:922).                                                       *)
ReturnsTheWholeLength == pc = "returned" => result = Len(case.printed)

(* Directives and arguments stay in step, with unknown directives between   *)
(* them: no argument is read as another type.                               *)
ArgumentsInStep ==
  /\ pc # "undefined"
  /\ pc = "returned" => a = Len(case.args) + 1
===============================================================================
