-------------------------------- MODULE Library --------------------------------
(***************************************************************************)
(* The library that artifacts are linked with, src/libc/libc.c:25-342: one *)
(* call of a function of string.h, of strtoul or of vsnprintf.  None of    *)
(* them calls another or keeps anything between two calls.                 *)
(*                                                                         *)
(* The variables of what is not called are Unused.                         *)
(***************************************************************************)
CONSTANTS Size, Byte,                                  (* of Strings         *)
          Texts, Bases, ValueOf, Limit,                (* of Strtoul         *)
          Cases, BufferRoom, IntLimit, PointerLimit    (* of Printf          *)

VARIABLES
  called,                                       (* the file it is part of    *)
  memory, before, call, i, result, pc,
  text, base, s, negative, number, any, endptr, answer, digits, number_pc,
  case, fmt, a, str, pos, length, print_pc

S == INSTANCE Strings
N == INSTANCE Strtoul WITH result <- number, pc <- number_pc
P == INSTANCE Printf WITH result <- length, pc <- print_pc

string_vars == << memory, before, call, i, result, pc >>
number_vars == << text, base, s, negative, number, any, endptr, answer, digits, number_pc >>
print_vars  == << case, fmt, a, str, pos, length, print_pc >>
library_vars == << called, string_vars, number_vars, print_vars >>

ASSUME MemoryAssumption == S!SizeAssumption /\ S!ByteAssumption
ASSUME NumberAssumption == N!LimitAssumption /\ N!TextAssumption
ASSUME PrintAssumption == P!RoomAssumption /\ P!CasesAssumption

Unused == 0

StringsUnused ==
  /\ memory = Unused /\ before = Unused /\ call = Unused
  /\ i = Unused /\ result = Unused /\ pc = "unused"

NumberUnused ==
  /\ text = Unused /\ base = Unused /\ s = Unused /\ negative = Unused /\ number = Unused
  /\ any = Unused /\ endptr = Unused /\ answer = Unused /\ digits = Unused /\ number_pc = "unused"

PrintUnused ==
  /\ case = Unused /\ fmt = Unused /\ a = Unused /\ str = Unused
  /\ pos = Unused /\ length = Unused /\ print_pc = "unused"

LibraryInit ==
  \/ called = "string.h" /\ S!Init /\ NumberUnused /\ PrintUnused
  \/ called = "strtoul" /\ N!Init /\ StringsUnused /\ PrintUnused
  \/ called = "vsnprintf" /\ P!Init /\ StringsUnused /\ NumberUnused

CallString == called = "string.h" /\ S!Next /\ UNCHANGED << called, number_vars, print_vars >>

CallStrtoul == called = "strtoul" /\ N!Next /\ UNCHANGED << called, string_vars, print_vars >>

CallPrintf == called = "vsnprintf" /\ P!Next /\ UNCHANGED << called, string_vars, number_vars >>

LibraryNext == CallString \/ CallStrtoul \/ CallPrintf

(* A function that was called goes on.                                      *)
LibrarySpec == LibraryInit /\ [][LibraryNext]_library_vars /\ WF_library_vars(LibraryNext)

-------------------------------------------------------------------------------
(* strcmp and strncmp order strings by their first difference, whatever is  *)
(* behind their ends or behind n bytes; strchr finds the first of the bytes,*)
(* never one behind the end; a copy whose target does not begin inside its  *)
(* source holds what the source held, and nothing else is written, but for  *)
(* a zero behind a string (libc.c:25-108).                                  *)
StringsAnswer == S!TypeOK /\ S!ComparesInOrder /\ S!FindsInString /\ S!CopiesWhatWas

(* What is returned is the number the digits make, or without a "-" the     *)
(* largest there is, however many digits follow; what endptr says was read  *)
(* is a number as a whole; given a base other than 0 and 16 an "x" is never *)
(* passed over but as a digit (libc.c:135-187).                             *)
NumbersAnswer ==
  N!TypeOK /\ N!SaturatesAtTheLimit /\ N!EndIsBehindDigits /\ N!PrefixOnlyWhereAllowed

(* Whatever the size: nothing behind it is written and what is there ends   *)
(* with a zero, holds the text as far as it fits, with directives and       *)
(* arguments in step, and the whole length is returned (libc.c:14-17,       *)
(* 196-331).                                                                *)
PrintsAnswer ==
  P!TypeOK /\ P!StaysInTheBuffer /\ P!PrintsWhatFits /\ P!ReturnsTheWholeLength /\ P!ArgumentsInStep

(* Every function answers as above; where that is less than the C standard  *)
(* asks of it is in the claims below.                                       *)
CallsAnswer ==
  /\ called = "string.h" => StringsAnswer
  /\ called = "strtoul" => NumbersAnswer
  /\ called = "vsnprintf" => PrintsAnswer

(* Every call returns: of string.h with strings that end or with n bytes of *)
(* memory, which is how format.c:552 compares what is no string; of strtoul *)
(* at the end of the text at the latest; of vsnprintf with the arguments    *)
(* that its format asks for.                                                *)
EveryCallReturns ==
  /\ (called = "string.h" /\ S!Sound) ~> (pc = "returned")
  /\ (called = "strtoul") ~> (number_pc = "returned")
  /\ (called = "vsnprintf") ~> (print_pc = "returned")

-------------------------------------------------------------------------------
(* The claims of Strings and Strtoul that the code does not keep.           *)
StrcpyEndsItsCopy == called = "string.h" => S!StrcpyEndsItsCopy
ZeroIsANumber == called = "strtoul" => N!ZeroIsANumber
TooLargeIsTheLargest == called = "strtoul" => N!TooLargeIsTheLargest
===============================================================================
