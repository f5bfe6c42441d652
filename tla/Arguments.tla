------------------------------- MODULE Arguments -------------------------------
(***************************************************************************)
(* How a program's arguments reach a loaded artifact: barf_load_file joins *)
(* them with blanks in one block (src/barf/barf.c:296-310), the entry of   *)
(* the artifact takes block and length, and parse_input splits them again: *)
(* the one of src/barf/parse_args.h:6-45 puts the path first, the one of   *)
(* examples/wa.c:28-59 does not.                                           *)
(*                                                                         *)
(* Neither loop looks at the sizes of its blocks: what is written behind   *)
(* one of them is undefined, and nothing is said of what follows.          *)
(*                                                                         *)
(* A text is a sequence of characters, Blank among them.  Positions count  *)
(* from 0, as in the code.                                                 *)
(***************************************************************************)
EXTENDS Integers, Sequences

CONSTANTS
  PerArg,     (* bytes of the joined text for each argument, 50             *)
  ArgCap,     (* pointers in "args", 50                                     *)
  TextCap     (* bytes in "text", 2500                                      *)

SizesAssumption == PerArg \in Nat \ {0} /\ ArgCap \in Nat \ {0} /\ TextCap \in Nat \ {0}

Blank == " "

VARIABLES
  argv,                (* behind "--"                                       *)
  path,                (* of the artifact                                   *)
  artifact,            (* whose parse_input it is                           *)
  pc, i,               (* which loop, and the argument joined next          *)
  arg_data,            (* the joined text; its length is arg_data_len       *)
  start_head, head,    (* of parse_input                                    *)
  args, text_len,      (* the arguments found, the bytes they take          *)
  overrun              (* the loop that has written behind a block, if any  *)

vars == << argv, path, artifact, pc, i, arg_data, start_head, head, args, text_len, overrun >>

Init ==
  /\ artifact \in {"barf", "wa"}
  /\ pc = "join" /\ i = 1 /\ arg_data = << >>
  /\ start_head = 0 /\ head = 0 /\ args = << >> /\ text_len = 0 /\ overrun = "none"

size == Len(arg_data)

(* Not in front of the first one; and in front of an empty one, too.        *)
Separator == IF size # 0 THEN << Blank >> ELSE << >>

Joined == arg_data \o Separator \o argv[i]

(* The block has so many bytes for each argument, blanks in between are not *)
(* counted.                                                                 *)
JoinedFits == Len(Joined) <= PerArg * Len(argv)

JoinArgument ==
  /\ pc = "join" /\ i <= Len(argv) /\ JoinedFits
  /\ arg_data' = Joined
  /\ i' = i + 1
  /\ UNCHANGED << argv, path, artifact, pc, start_head, head, args, text_len >>

HasRoom(arg) == Len(args) < ArgCap /\ text_len + Len(arg) + 1 <= TextCap

AddArgument(arg) == args' = Append(args, arg) /\ text_len' = text_len + Len(arg) + 1

(* The entry is called: the path is the first argument, or is none.         *)
EnterArtifact ==
  /\ pc = "join" /\ i > Len(argv) /\ artifact = "barf" /\ HasRoom(path)
  /\ pc' = "split"
  /\ AddArgument(path)
  /\ UNCHANGED << argv, path, artifact, i, arg_data, start_head, head >>

EnterExample ==
  /\ pc = "join" /\ i > Len(argv) /\ artifact = "wa"
  /\ pc' = "split"
  /\ UNCHANGED << argv, path, artifact, i, arg_data, start_head, head, args, text_len >>

IsLast == head + 1 = size

(* Slip: the argument ends in front of the last character. *)
EndsBeforeLast == head

(* At the last character the argument ends behind it, even if it is a blank. *)
Ends == IF IsLast THEN head + 1 ELSE head

PassCharacter ==
  /\ pc = "split" /\ head < size
  /\ arg_data[head + 1] # Blank /\ ~ IsLast
  /\ head' = head + 1
  /\ UNCHANGED << argv, path, artifact, pc, i, arg_data, start_head, args, text_len >>

Cut == SubSeq(arg_data, start_head + 1, Ends)

EndArgument ==
  /\ pc = "split" /\ head < size
  /\ arg_data[head + 1] = Blank \/ IsLast
  /\ Ends > start_head => HasRoom(Cut)
  /\ IF Ends > start_head THEN AddArgument(Cut)
     ELSE UNCHANGED << args, text_len >>
  /\ start_head' = Ends + 1
  /\ head' = Ends + 1
  /\ UNCHANGED << argv, path, artifact, pc, i, arg_data >>

Finish ==
  /\ pc = "split" /\ head >= size
  /\ pc' = "done"
  /\ UNCHANGED << argv, path, artifact, i, arg_data, start_head, head, args, text_len >>

(* The loop of both.                                                        *)
Split == PassCharacter \/ EndArgument \/ Finish

InsideBlocks == UNCHANGED overrun /\ (JoinArgument \/ EnterArtifact \/ EnterExample \/ Split)

(* What does not fit is written all the same.                               *)
OverrunJoin ==
  /\ pc = "join" /\ i <= Len(argv) /\ ~ JoinedFits
  /\ overrun' = "join"

OverrunPath ==
  /\ pc = "join" /\ i > Len(argv) /\ artifact = "barf" /\ ~ HasRoom(path)
  /\ overrun' = "split"

OverrunSplit ==
  /\ pc = "split" /\ head < size
  /\ arg_data[head + 1] = Blank \/ IsLast
  /\ Ends > start_head /\ ~ HasRoom(Cut)
  /\ overrun' = "split"

Overrun ==
  /\ OverrunJoin \/ OverrunPath \/ OverrunSplit
  /\ UNCHANGED << argv, path, artifact, pc, i, arg_data, start_head, head, args, text_len >>

Next == overrun = "none" /\ (InsideBlocks \/ Overrun)

Spec == Init /\ [][Next]_vars
-------------------------------------------------------------------------------
(* The bytes that the first n of a list of texts take, each with its zero.  *)
BytesUpto(list) ==
  LET upto[n \in 0 .. Len(list)] == IF n = 0 THEN 0 ELSE upto[n - 1] + Len(list[n]) + 1
  IN  upto

Bytes(list) == BytesUpto(list)[Len(list)]

TypeOK ==
  /\ overrun \in {"none", "join", "split"}
  /\ pc \in {"join", "split", "done"} /\ i \in 1 .. Len(argv) + 1
  /\ start_head \in 0 .. size + 1 /\ head \in start_head .. size + 1
  /\ text_len = Bytes(args)

IsWord(arg) == arg # << >> /\ \A c \in DOMAIN arg : arg[c] # Blank

InFrontOfArguments == IF artifact = "barf" THEN << path >> ELSE << >>

(* Words that stay in the blocks arrive as they were given, behind the path *)
(* (README.md:26-30), although neither their number nor their lengths are   *)
(* handed over.                                                             *)
WordsArrive ==
  pc = "done" /\ (\A n \in DOMAIN argv : IsWord(argv[n])) => args = InFrontOfArguments \o argv

(* What an artifact gets never is empty, and a blank is in it only at the   *)
(* very end of the last argument (parse_args.h:25-28): other blanks cut.    *)
OnlyLastKeepsBlank ==
  \A n \in Len(InFrontOfArguments) + 1 .. Len(args) :
    /\ args[n] # << >>
    /\ \A c \in DOMAIN args[n] :
         args[n][c] = Blank => n = Len(args) /\ c = Len(args[n]) /\ head >= size

(* The characters that are no blanks, of a text up to n and of a list of    *)
(* texts up to the n-th.                                                    *)
InkUpto(text) ==
  LET upto[n \in 0 .. Len(text)] ==
        IF n = 0 THEN << >>
        ELSE IF text[n] = Blank THEN upto[n - 1] ELSE Append(upto[n - 1], text[n])
  IN  upto

Ink(text) == InkUpto(text)[Len(text)]

InksUpto(list) ==
  LET upto[n \in 0 .. Len(list)] == IF n = 0 THEN << >> ELSE upto[n - 1] \o Ink(list[n])
  IN  upto

Inks(list) == InksUpto(list)[Len(list)]

(* No character is lost or made up: the arguments without the blanks are    *)
(* the path and the text without the blanks.                                *)
NothingLost ==
  pc = "done" => Inks(args) = Inks(InFrontOfArguments) \o Inks(argv)

(* The block of 50 bytes for each argument (barf.c:299) is written over only *)
(* by arguments one of which has 50 bytes or more.                          *)
JoinFits ==
  /\ size <= PerArg * Len(argv)
  /\ (\A n \in DOMAIN argv : Len(argv[n]) < PerArg) => overrun # "join"

(* The blocks of parse_input (parse_args.h:8-9) are not written over by 49  *)
(* words next to the path that together, with a zero each, fit the text.    *)
SplitFits ==
  /\ Len(args) <= ArgCap /\ text_len <= TextCap
  /\ /\ Len(argv) < ArgCap /\ \A n \in DOMAIN argv : IsWord(argv[n])
     /\ Len(path) + 1 + Bytes(argv) <= TextCap
     => overrun # "split"

-------------------------------------------------------------------------------
(* A claim of the repository that the code does not keep.                   *)

(* README.md:27, "barf app.ba -- Here is data", and main.c:68, "barf        *)
(* file.ba -- [args...]  Load and run file with arguments": nothing is said *)
(* of how many they may be, or how long.                                    *)
AnyArgumentsFit == overrun = "none"
===============================================================================
