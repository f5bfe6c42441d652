-------------------------------- MODULE Strings --------------------------------
(***************************************************************************)
(* The functions of string.h that artifacts are linked with, src/libc/     *)
(* libc.c:25-108: one call over a small memory, byte by byte, so that      *)
(* regions may overlap and strings may not end.                            *)
(*                                                                         *)
(* The memory has the addresses 0 .. Size - 1; bytes are small numbers, 0  *)
(* ends a string.  An access behind the memory ends the program.           *)
(***************************************************************************)
EXTENDS Integers

CONSTANTS Size, Byte

SizeAssumption == Size \in Nat \ {0}
ByteAssumption == Byte \subseteq Nat /\ 0 \in Byte

Address == 0 .. Size - 1

(* The calls; "a" is the first pointer, "b" the second.                     *)
Calls ==
  [name : {"strlen"}, a : Address] \union
  [name : {"strchr"}, a : Address, c : Byte] \union
  [name : {"strcpy", "strcmp"}, a : Address, b : Address] \union
  [name : {"strncmp"}, a : Address, b : Address, n : 0 .. Size] \union
  {copy \in [name : {"memcpy"}, a : Address, b : Address, n : 0 .. Size] :
     copy.a + copy.n <= Size /\ copy.b + copy.n <= Size} \union
  {set \in [name : {"memset"}, a : Address, c : Byte, n : 0 .. Size] : set.a + set.n <= Size}

VARIABLES
  memory,    (* Address -> Byte                                             *)
  before,    (* the memory when the call began (history)                    *)
  call, i,   (* the call, and the counter of its loop                       *)
  result,    (* a number, for strchr an address, -1 for NULL                *)
  pc

vars == << memory, before, call, i, result, pc >>

NULL == -1

Init ==
  /\ memory \in [Address -> Byte] /\ before = memory
  /\ call \in Calls
  /\ i = 0 /\ result = 0 /\ pc = "loop"

-------------------------------------------------------------------------------
Is(names) == pc = "loop" /\ call.name \in names

At(p) == memory[p + i]

Inside(p) == p + i \in Address

Continue == i' = i + 1 /\ UNCHANGED << before, call, result, pc >>

Return(value) ==
  pc' = "returned" /\ result' = value /\ UNCHANGED << memory, before, call, i >>

strlen ==
  /\ Is({"strlen"}) /\ Inside(call.a)
  /\ \/ At(call.a) # 0 /\ Continue /\ UNCHANGED memory
     \/ At(call.a) = 0 /\ Return(i)

(* The zero itself can be looked for.                                       *)
Found == At(call.a) = call.c

strchr ==
  /\ Is({"strchr"}) /\ Inside(call.a)
  /\ \/ Found /\ Return(call.a + i)
     \/ ~ Found /\ At(call.a) # 0 /\ Continue /\ UNCHANGED memory
     \/ ~ Found /\ At(call.a) = 0 /\ Return(NULL)

(* The zero is not copied.                                                  *)
strcpy ==
  /\ Is({"strcpy"}) /\ Inside(call.b)
  /\ \/ /\ At(call.b) # 0 /\ Inside(call.a)
        /\ memory' = [memory EXCEPT ![call.a + i] = At(call.b)] /\ Continue
     \/ At(call.b) = 0 /\ Return(call.a)

Same == At(call.a) # 0 /\ At(call.a) = At(call.b)

Difference == At(call.a) - At(call.b)

strcmp ==
  /\ Is({"strcmp"}) /\ Inside(call.a) /\ Inside(call.b)
  /\ \/ Same /\ Continue /\ UNCHANGED memory
     \/ ~ Same /\ Return(Difference)

(* Slip: the bound is looked at behind the byte. *)
BoundedLate == i > call.n

Bounded == i = call.n

strncmp ==
  /\ Is({"strncmp"})
  /\ \/ Bounded /\ Return(0)
     \/ /\ ~ Bounded /\ Inside(call.a) /\ Inside(call.b)
        /\ \/ Same /\ Continue /\ UNCHANGED memory
           \/ ~ Same /\ Return(Difference)

Copied == [memory EXCEPT ![call.a + i] = At(call.b)]

memcpy ==
  /\ Is({"memcpy"})
  /\ \/ i = call.n /\ Return(call.a)
     \/ i < call.n /\ memory' = Copied /\ Continue

memset ==
  /\ Is({"memset"})
  /\ \/ i = call.n /\ Return(call.a)
     \/ i < call.n /\ memory' = [memory EXCEPT ![call.a + i] = call.c] /\ Continue

Next == strlen \/ strchr \/ strcpy \/ strcmp \/ strncmp \/ memcpy \/ memset

Spec == Init /\ [][Next]_vars
-------------------------------------------------------------------------------
TypeOK ==
  /\ memory \in [Address -> Byte] /\ i \in 0 .. Size
  /\ result \in {NULL} \union Address \union {x - y : x, y \in Byte}
  /\ pc \in {"loop", "returned"}

Returned(names) == pc = "returned" /\ call.name \in names

IsString(p) == \E q \in Address : p <= q /\ before[q] = 0

Length(p) ==
  (CHOOSE q \in Address : p <= q /\ before[q] = 0 /\ \A r \in p .. q - 1 : before[r] # 0) - p

(* The strings at p and q first differ within n bytes, with p's smaller.    *)
Less(p, q, n) ==
  \E k \in 0 .. n - 1 :
    /\ p + k \in Address /\ q + k \in Address /\ before[p + k] < before[q + k]
    /\ \A j \in 0 .. k - 1 : before[p + j] = before[q + j] /\ before[p + j] # 0

(* strcmp and strncmp order strings by their first difference, whatever is  *)
(* behind their ends or behind n bytes: an order, so that exchanging the    *)
(* strings exchanges the sign.                                              *)
ComparesInOrder ==
  Returned({"strcmp", "strncmp"}) =>
    LET n == IF call.name = "strcmp" THEN Size ELSE call.n
    IN  /\ result < 0 <=> Less(call.a, call.b, n)
        /\ result > 0 <=> Less(call.b, call.a, n)

(* strchr finds the first of the bytes, the end of the string included, and *)
(* never one behind the end; what it finds at the end is where strlen ends. *)
FindsInString ==
  /\ Returned({"strlen"}) => IsString(call.a) /\ result = Length(call.a)
  /\ Returned({"strchr"}) =>
       LET places == {q \in Address : call.a <= q /\ before[q] = call.c
                                     /\ \A r \in call.a .. q - 1 : before[r] \notin {0, call.c}}
       IN  IF places = {} THEN result = NULL ELSE result \in places

Written == IF call.name = "strcpy" THEN Length(call.b) ELSE call.n

(* A copy whose target does not begin inside the source behind its first    *)
(* byte holds what the source held, also where both overlap (libc.c:73-83), *)
(* and nothing else is written, but for the zero that may end a string.     *)
CopiesWhatWas ==
  /\ Returned({"memcpy", "strcpy"}) /\ call.a \notin call.b + 1 .. call.b + Written =>
       \A k \in 0 .. Written - 1 : memory[call.a + k] = before[call.b + k]
  /\ Returned({"memset"}) => \A k \in 0 .. call.n - 1 : memory[call.a + k] = call.c
  /\ Returned({"memcpy", "memset", "strcpy"}) =>
       \A p \in Address \ (call.a .. call.a + Written - 1) :
         memory[p] = before[p] \/ (call.name = "strcpy" /\ p = call.a + Written /\ memory[p] = 0)

(* What a call asks for: strings that end, or n bytes of memory.  That      *)
(* strncmp needs no end within n bytes is how format.c:552 compares what is *)
(* no string.                                                               *)
Sound ==
  CASE call.name \in {"strlen", "strchr"} -> IsString(call.a)
    [] call.name = "strcmp" -> IsString(call.a) /\ IsString(call.b)
    [] call.name = "strcpy" ->
         /\ IsString(call.b) /\ call.a + Length(call.b) <= Size
         /\ call.a \notin call.b + 1 .. call.b + Length(call.b)
    [] call.name = "strncmp" ->
         /\ IsString(call.a) \/ call.a + call.n <= Size
         /\ IsString(call.b) \/ call.b + call.n <= Size
    [] OTHER -> TRUE

-------------------------------------------------------------------------------
(* A claim of the repository that the code does not keep.                   *)

(* libc.c:3-7, "Minimal standalone libc implementations": the target of a   *)
(* strcpy is then a string, the same as the source.  Its loop stops at the  *)
(* zero without writing it (libc.c:37-40).                                  *)
StrcpyEndsItsCopy == Returned({"strcpy"}) /\ Sound /\ Inside(call.a) => At(call.a) = 0
===============================================================================
