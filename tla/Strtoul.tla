-------------------------------- MODULE Strtoul --------------------------------
(***************************************************************************)
(* strtoul of the artifacts' library, src/libc/libc.c:113-187, character   *)
(* by character, with unsigned numbers below Limit, which is ULONG_MAX + 1.*)
(*                                                                         *)
(* A text is a sequence of characters without its final zero; positions    *)
(* count from 0.  ValueOf gives the digits their values; other characters  *)
(* are blanks, signs, "x" and anything else.                               *)
(***************************************************************************)
EXTENDS Integers, Sequences

CONSTANTS
  Texts, Bases,   (* what may be asked                                      *)
  ValueOf,        (* function from the characters that are digits           *)
  Limit

LimitAssumption == Limit \in Nat /\ Limit > 1
(* The code counts with no base below 2, and the zero is no digit.          *)
TextAssumption ==
  /\ \A txt \in Texts : txt \in Seq(STRING)
  /\ Bases \subseteq Nat \ {1}
  /\ "NUL" \notin DOMAIN ValueOf /\ \A c \in DOMAIN ValueOf : ValueOf[c] \in Nat

ULONG_MAX == Limit - 1

VARIABLES
  text, base,          (* nptr and base as given; base as found             *)
  s, negative,
  result, any,         (* any = -1: it did not fit                          *)
  endptr, answer,
  digits,              (* position of the first digit (history)             *)
  pc

vars == << text, base, s, negative, result, any, endptr, answer, digits, pc >>

Init ==
  /\ text \in Texts /\ base \in Bases
  /\ s = 0 /\ negative = FALSE /\ result = 0 /\ any = 0
  /\ endptr = 0 /\ answer = 0 /\ digits = 0
  /\ pc = "blanks"

-------------------------------------------------------------------------------
(* The character at a position; the zero, behind the text.                  *)
Char(p) == IF p < Len(text) THEN text[p + 1] ELSE "NUL"

PassBlank ==
  /\ pc = "blanks" /\ Char(s) = " "
  /\ s' = s + 1
  /\ UNCHANGED << text, base, negative, result, any, endptr, answer, digits, pc >>

PassSign ==
  /\ pc = "blanks" /\ Char(s) # " "
  /\ negative' = (Char(s) = "-")
  /\ s' = IF Char(s) \in {"+", "-"} THEN s + 1 ELSE s
  /\ pc' = "base"
  /\ UNCHANGED << text, base, result, any, endptr, answer, digits >>

HexPrefix == Char(s) = "0" /\ Char(s + 1) = "x"

BaseFound ==
  IF base # 0 THEN base
  ELSE IF HexPrefix THEN 16
  ELSE IF Char(s) = "0" THEN 8
  ELSE 10

(* The zero in front of an octal number is passed, too.                     *)
Prefix ==
  IF base \in {0, 16} /\ HexPrefix THEN 2
  ELSE IF base = 0 /\ Char(s) = "0" THEN 1 ELSE 0

DetectBase ==
  /\ pc = "base"
  /\ base' = BaseFound
  /\ s' = s + Prefix /\ digits' = s'
  /\ pc' = "digits"
  /\ UNCHANGED << text, negative, result, any, endptr, answer >>

IsDigitOf(p) == Char(p) \in DOMAIN ValueOf /\ ValueOf[Char(p)] < base

IsDigit == IsDigitOf(s)

cutoff == ULONG_MAX \div base
cutlim == ULONG_MAX % base

(* Slip: the last digit is not looked at. *)
TooLargeByCutoff == result > cutoff

TooLarge == result > cutoff \/ (result = cutoff /\ ValueOf[Char(s)] > cutlim)

TakeDigit ==
  /\ pc = "digits" /\ IsDigit
  /\ IF TooLarge THEN result' = ULONG_MAX /\ any' = -1
     ELSE result' = (result * base + ValueOf[Char(s)]) % Limit /\ any' = 1
  /\ s' = s + 1
  /\ UNCHANGED << text, base, negative, endptr, answer, digits, pc >>

End == IF any # 0 THEN s ELSE 0

Answer == IF negative THEN (0 - result) % Limit ELSE result

Return ==
  /\ pc = "digits" /\ ~ IsDigit
  /\ endptr' = End /\ answer' = Answer
  /\ pc' = "returned"
  /\ UNCHANGED << text, base, s, negative, result, any, digits >>

Next == PassBlank \/ PassSign \/ DetectBase \/ TakeDigit \/ Return

Spec == Init /\ [][Next]_vars
-------------------------------------------------------------------------------
TypeOK ==
  /\ text \in Texts /\ base \in Bases \union {8, 10, 16}
  /\ s \in 0 .. Len(text) /\ endptr \in 0 .. Len(text)
  /\ result \in 0 .. ULONG_MAX /\ answer \in 0 .. ULONG_MAX /\ any \in {-1, 0, 1}

Digit(c) == IF c \in DOMAIN ValueOf THEN ValueOf[c] ELSE 0

(* What the first n digits are worth, without a bound.                      *)
Worth[n \in 0 .. Len(text) - digits] ==
  IF n = 0 THEN 0 ELSE Worth[n - 1] * base + Digit(Char(digits + n - 1))

Value == Worth[s - digits]

(* What is returned is the number the digits make, a negative one modulo    *)
(* ULONG_MAX + 1, or, without a "-", the largest there is, however many     *)
(* digits follow the one it became too large with (libc.c:153-187).         *)
SaturatesAtTheLimit ==
  pc = "returned" =>
    /\ Value <= ULONG_MAX => answer = IF negative THEN (0 - Value) % Limit ELSE Value
    /\ Value > ULONG_MAX /\ ~ negative => answer = ULONG_MAX

(* The zero in front of the digits was taken for a prefix.                  *)
ZeroPassed == digits > 0 /\ Char(digits - 1) \in {"0", "x"}

(* What endptr says was read is a number as a whole: all the digits there   *)
(* are behind blanks, a sign and a prefix, or else nothing.  Where only the *)
(* prefix is there, the number is 0.                                        *)
EndIsBehindDigits ==
  pc = "returned" =>
    IF IsDigitOf(digits)
    THEN /\ endptr > digits
         /\ \A p \in digits .. endptr - 1 : IsDigitOf(p)
         /\ ~ IsDigitOf(endptr)
    ELSE answer = 0 /\ (~ ZeroPassed => endptr = 0)

(* Given a base other than 0 and 16, an "x" is never passed over but as a   *)
(* digit of that base, so "0x1" is the number 0 and ends at the "x".        *)
PrefixOnlyWhereAllowed ==
  pc = "returned" /\ (\E p \in 0 .. endptr - 1 : Char(p) = "x" /\ ~ IsDigitOf(p)) => base = 16

-------------------------------------------------------------------------------
(* Claims of the repository that the code does not keep: libc.c:3-7,        *)
(* "Minimal standalone libc implementations".                               *)

(* The "0" of "0", "09" and "0xg" is a number, and endptr is behind it; the *)
(* code takes it for a prefix without digits and says that there is no      *)
(* number (libc.c:135-145, 181).                                            *)
ZeroIsANumber ==
  pc = "returned" /\ ~ IsDigitOf(digits) /\ ZeroPassed =>
    endptr = IF Char(digits - 1) = "x" THEN digits - 1 ELSE digits

(* A number that is too large is answered with ULONG_MAX, a negative one,   *)
(* too; the code negates ULONG_MAX and answers 1 (libc.c:183-184).          *)
TooLargeIsTheLargest == pc = "returned" /\ Value > ULONG_MAX => answer = ULONG_MAX
===============================================================================
