--------------------------- MODULE ConvertersProofs ---------------------------
(***************************************************************************)
(* Proofs about the converters, for every set of object files: about       *)
(* barf_convert_from_coff, about barf_convert_from_elf, and about the room *)
(* both have for what they write.  The sums and the places in the file are *)
(* defined by recursion; what they are is proved first, by induction from  *)
(* the least natural number.                                               *)
(***************************************************************************)
EXTENDS Converters, FiniteSetTheorems, WellFoundedInduction, TLAPS

(* Every non-empty set of naturals has a least element. *)
LEMMA LeastNatural ==
  ASSUME NEW T, T \subseteq Nat, T # {}
  PROVE  \E x \in T : \A y \in T : x <= y
<1> DEFINE R == {p \in Nat \X Nat : p[1] < p[2]}
<1>1. IsWellFoundedOn(R, Nat)
  BY NatLessThanWellFounded DEF OpToRel
<1>2. ASSUME NEW a \in Nat, NEW b \in Nat, a < b
      PROVE  <<a, b>> \in R
  BY <1>2
<1> HIDE DEF R
<1>3. PICK x \in T : \A y \in T : ~ (<<y, x>> \in R)
  BY <1>1, WFMin
<1>4. ASSUME NEW y \in T
      PROVE  x <= y
  <2>1. x \in Nat /\ y \in Nat
    OBVIOUS
  <2>2. <<y, x>> \notin R
    BY <1>3
  <2>3. QED
    BY <2>1, <2>2, <1>2
<1>5. QED
  BY <1>4

(* A set that has 0 and with each number the next has all of them.          *)
LEMMA Induction ==
  ASSUME NEW T, 0 \in T, \A n \in Nat : n \in T => n + 1 \in T
  PROVE  Nat \subseteq T
<1> SUFFICES ASSUME Nat \ T # {} PROVE FALSE
  OBVIOUS
<1>1. PICK x \in Nat \ T : \A y \in Nat \ T : x <= y
  BY LeastNatural
<1>2. x - 1 \in Nat /\ x - 1 \notin Nat \ T
  BY <1>1
<1>3. QED
  BY <1>1, <1>2

(* What the recursion of SumFunctionOnSet asks of a function at a set.      *)
Taken(s) == CHOOSE x \in s : TRUE

IsSumAt(fun, sum, s) == sum[s] = IF s = {} THEN 0 ELSE fun[Taken(s)] + sum[s \ {Taken(s)}]

AreSums(fun, all, sum) ==
  sum = [s \in SUBSET all |-> IF s = {} THEN 0 ELSE fun[Taken(s)] + sum[s \ {Taken(s)}]]

LEMMA TakenIsIn ==
  ASSUME NEW s, s # {}
  PROVE  Taken(s) \in s
BY DEF Taken

LEMMA Smaller ==
  ASSUME NEW s, IsFiniteSet(s), NEW x \in s
  PROVE  /\ IsFiniteSet(s \ {x}) /\ Cardinality(s) \in Nat \ {0}
         /\ Cardinality(s \ {x}) = Cardinality(s) - 1
<1>1. Cardinality(s) \in Nat /\ Cardinality(s) # 0
  BY FS_CardinalityType, FS_EmptySet
<1>2. QED
  BY <1>1, FS_RemoveElement

LEMMA SumsExist ==
  ASSUME NEW fun, NEW all, IsFiniteSet(all)
  PROVE  \E sum : AreSums(fun, all, sum)
<1> DEFINE Upto(n, sum) ==
             /\ sum = [s \in SUBSET all |-> sum[s]]
             /\ \A s \in SUBSET all : Cardinality(s) <= n => IsSumAt(fun, sum, s)
           T == {n \in Nat : \E sum : Upto(n, sum)}
<1>0. \A s \in SUBSET all : IsFiniteSet(s) /\ Cardinality(s) \in Nat
                            /\ Cardinality(s) <= Cardinality(all)
  BY FS_Subset, FS_CardinalityType
<1>1. 0 \in T
  <2> DEFINE none == [s \in SUBSET all |-> 0]
  <2>1. ASSUME NEW s \in SUBSET all, Cardinality(s) <= 0
        PROVE  IsSumAt(fun, none, s)
    <3>1. s = {}
      BY <1>0, <2>1, FS_EmptySet
    <3>2. QED
      BY <3>1 DEF IsSumAt
  <2>2. Upto(0, none)
    BY <2>1
  <2> HIDE DEF none
  <2>3. QED
    BY <2>2
<1>2. ASSUME NEW n \in Nat, n \in T
      PROVE  n + 1 \in T
  <2>1. PICK sum : Upto(n, sum)
    BY <1>2
  <2> DEFINE further == [s \in SUBSET all |->
               IF Cardinality(s) <= n THEN sum[s]
               ELSE IF s = {} THEN 0 ELSE fun[Taken(s)] + sum[s \ {Taken(s)}]]
  <2>2. ASSUME NEW s \in SUBSET all, Cardinality(s) <= n + 1
        PROVE  IsSumAt(fun, further, s)
    <3>1. CASE s = {}
      <4>1. Cardinality(s) <= n
        BY <3>1, FS_EmptySet
      <4>2. IsSumAt(fun, sum, s)
        BY <2>1, <4>1
      <4>3. further[s] = sum[s]
        BY <4>1
      <4>4. QED
        BY <3>1, <4>2, <4>3 DEF IsSumAt
    <3>2. CASE s # {}
      <4> DEFINE t == s \ {Taken(s)}
      <4>1. t \in SUBSET all /\ Cardinality(t) = Cardinality(s) - 1 /\ Cardinality(s) \in Nat
        BY <1>0, <3>2, TakenIsIn, Smaller
      <4>2. further[t] = sum[t]
        BY <2>2, <4>1
      <4>3. further[s] = fun[Taken(s)] + sum[t]
        <5>1. CASE Cardinality(s) <= n
          BY <2>1, <3>2, <5>1 DEF IsSumAt
        <5>2. CASE ~ Cardinality(s) <= n
          BY <3>2, <5>2
        <5>3. QED
          BY <5>1, <5>2
      <4>4. QED
        BY <3>2, <4>2, <4>3 DEF IsSumAt
    <3>3. QED
      BY <3>1, <3>2
  <2>3. further = [s \in SUBSET all |-> further[s]]
    OBVIOUS
  <2> HIDE DEF further
  <2>4. Upto(n + 1, further)
    BY <2>2, <2>3
  <2> HIDE DEF Upto
  <2>5. QED
    BY <2>4
<1>3. Cardinality(all) \in T
  <2> HIDE DEF T
  <2>1. Nat \subseteq T
    BY <1>1, <1>2, Induction
  <2>2. QED
    BY <2>1, FS_CardinalityType
<1>4. PICK sum : Upto(Cardinality(all), sum)
  BY <1>3
<1>5. \A s \in SUBSET all : IsSumAt(fun, sum, s)
  BY <1>0, <1>4
<1>6. AreSums(fun, all, sum)
  BY <1>4, <1>5 DEF AreSums, IsSumAt
<1>7. QED
  BY <1>6

LEMMA SumsAt ==
  ASSUME NEW fun, NEW all, NEW sum, AreSums(fun, all, sum), NEW s \in SUBSET all
  PROVE  /\ s = {} => sum[s] = 0
         /\ s # {} => sum[s] = fun[Taken(s)] + sum[s \ {Taken(s)}]
BY DEF AreSums

(* A sum does not depend on the set that is summed up besides.              *)
LEMMA SumsAgree ==
  ASSUME NEW fun, NEW all, NEW some \in SUBSET all, IsFiniteSet(all),
         NEW sum, AreSums(fun, all, sum), NEW other, AreSums(fun, some, other)
  PROVE  \A s \in SUBSET some : sum[s] = other[s]
<1> DEFINE T == {n \in Nat : \A s \in SUBSET some : Cardinality(s) = n => sum[s] = other[s]}
<1>0. \A s \in SUBSET some : s \in SUBSET all /\ IsFiniteSet(s) /\ Cardinality(s) \in Nat
  BY FS_Subset, FS_CardinalityType
<1>1. 0 \in T
  <2>1. ASSUME NEW s \in SUBSET some, Cardinality(s) = 0
        PROVE  sum[s] = other[s]
    <3>1. s = {}
      BY <1>0, <2>1, FS_EmptySet
    <3>2. QED
      BY <3>1, SumsAt
  <2>2. QED
    BY <2>1
<1>2. ASSUME NEW n \in Nat, n \in T
      PROVE  n + 1 \in T
  <2>1. ASSUME NEW s \in SUBSET some, Cardinality(s) = n + 1
        PROVE  sum[s] = other[s]
    <3>1. s # {}
      BY <2>1, FS_EmptySet
    <3> DEFINE t == s \ {Taken(s)}
    <3>2. t \in SUBSET some /\ Cardinality(t) = n
      BY <1>0, <2>1, <3>1, TakenIsIn, Smaller
    <3>3. sum[t] = other[t]
      BY <1>2, <3>2
    <3>4. sum[s] = fun[Taken(s)] + sum[t]
      BY <1>0, <3>1, SumsAt
    <3>5. other[s] = fun[Taken(s)] + other[t]
      BY <3>1, SumsAt
    <3>6. QED
      BY <3>3, <3>4, <3>5
  <2>2. QED
    BY <2>1
<1>3. Nat \subseteq T
  <2> HIDE DEF T
  <2>1. QED
    BY <1>1, <1>2, Induction
<1>4. QED
  BY <1>0, <1>3

LEMMA SumOfSums ==
  ASSUME NEW fun, NEW all, IsFiniteSet(all), NEW sum, AreSums(fun, all, sum),
         NEW s \in SUBSET all
  PROVE  SumFunctionOnSet(fun, s) = sum[s]
<1>1. SumFunctionOnSet(fun, s) = (CHOOSE other : AreSums(fun, s, other))[s]
  BY DEF SumFunctionOnSet, FoldFunctionOnSet, MapThenFoldSet, AreSums, Taken
<1>2. IsFiniteSet(s)
  BY FS_Subset
<1>3. AreSums(fun, s, CHOOSE other : AreSums(fun, s, other))
  BY <1>2, SumsExist
<1> HIDE DEF AreSums
<1>4. QED
  BY <1>1, <1>3, SumsAgree

(* A sum can be taken one element after the other, in whatever order.       *)
LEMMA SumWithout ==
  ASSUME NEW fun, NEW all, IsFiniteSet(all), \A x \in all : fun[x] \in Nat
  PROVE  /\ SumFunctionOnSet(fun, all) \in Nat
         /\ all = {} => SumFunctionOnSet(fun, all) = 0
         /\ \A x \in all :
              SumFunctionOnSet(fun, all) = fun[x] + SumFunctionOnSet(fun, all \ {x})
<1>1. PICK sum : AreSums(fun, all, sum)
  BY SumsExist
<1> DEFINE Good(s) == \A x \in s : sum[s] = fun[x] + sum[s \ {x}]
           Natural == {n \in Nat : \A s \in SUBSET all : Cardinality(s) = n => sum[s] \in Nat}
           T == {n \in Nat : \A s \in SUBSET all : Cardinality(s) = n => Good(s)}
<1>2. \A s \in SUBSET all : IsFiniteSet(s) /\ Cardinality(s) \in Nat
  BY FS_Subset, FS_CardinalityType
<1>3. /\ sum[{}] = 0
      /\ \A s \in SUBSET all : s # {} => sum[s] = fun[Taken(s)] + sum[s \ {Taken(s)}]
  BY <1>1 DEF AreSums
<1>4. \A s \in SUBSET all : Cardinality(s) = 0 => s = {}
  BY <1>2, FS_EmptySet
<1>5. ASSUME NEW s \in SUBSET all, NEW x \in s
      PROVE  /\ s \ {x} \in SUBSET all /\ Cardinality(s \ {x}) = Cardinality(s) - 1
             /\ Taken(s) \in s
  BY <1>2, Smaller, TakenIsIn
<1>6. \A s \in SUBSET all : sum[s] \in Nat
  <2>1. 0 \in Natural
    <3>1. ASSUME NEW s \in SUBSET all, Cardinality(s) = 0
          PROVE  sum[s] \in Nat
      <4>1. s = {}
        BY <1>4, <3>1
      <4>2. QED
        BY <1>3, <4>1
    <3>2. QED
      BY <3>1
  <2>2. ASSUME NEW n \in Nat, n \in Natural
        PROVE  n + 1 \in Natural
    <3>1. ASSUME NEW s \in SUBSET all, Cardinality(s) = n + 1
          PROVE  sum[s] \in Nat
      <4>1. s # {}
        BY <3>1, FS_EmptySet
      <4>2. Taken(s) \in s /\ s \ {Taken(s)} \in SUBSET all /\ Cardinality(s \ {Taken(s)}) = n
        BY <1>5, <3>1, <4>1, TakenIsIn
      <4>3. sum[s \ {Taken(s)}] \in Nat /\ fun[Taken(s)] \in Nat
        BY <2>2, <4>2
      <4>4. sum[s] = fun[Taken(s)] + sum[s \ {Taken(s)}]
        BY <1>3, <4>1
      <4>5. QED
        BY <4>3, <4>4
    <3>2. QED
      BY <3>1
  <2>3. Nat \subseteq Natural
    <3> HIDE DEF Natural
    <3>1. QED
      BY <2>1, <2>2, Induction
  <2>4. QED
    BY <1>2, <2>3
<1>7. 0 \in T
  BY <1>4
<1>8. ASSUME NEW n \in Nat, n \in T
      PROVE  n + 1 \in T
  <2>1. ASSUME NEW s \in SUBSET all, Cardinality(s) = n + 1, NEW x \in s
        PROVE  sum[s] = fun[x] + sum[s \ {x}]
    <3> DEFINE c == Taken(s)
    <3>1. c \in s /\ sum[s] = fun[c] + sum[s \ {c}]
      BY <1>3, <1>5
    <3>2. \A y \in s : s \ {y} \in SUBSET all /\ Cardinality(s \ {y}) = n
      BY <1>5, <2>1
    <3>3. \A y \in s : Good(s \ {y})
      BY <1>8, <3>2
    <3> HIDE DEF c
    <3>4. CASE x = c
      BY <3>1, <3>4
    <3>5. CASE x # c
      <4>1. sum[s \ {c}] = fun[x] + sum[(s \ {c}) \ {x}]
        BY <3>1, <3>3, <3>5
      <4>2. sum[s \ {x}] = fun[c] + sum[(s \ {x}) \ {c}]
        BY <3>1, <3>3, <3>5
      <4>3. (s \ {c}) \ {x} = (s \ {x}) \ {c} /\ (s \ {x}) \ {c} \in SUBSET all
        OBVIOUS
      <4>4. fun[c] \in Nat /\ fun[x] \in Nat /\ sum[(s \ {x}) \ {c}] \in Nat
        BY <1>6, <3>1, <4>3
      <4>5. sum[(s \ {c}) \ {x}] = sum[(s \ {x}) \ {c}]
        BY <4>3
      <4> HIDE DEF Good
      <4>6. QED
        BY <3>1, <4>1, <4>2, <4>4, <4>5
    <3>6. QED
      BY <3>4, <3>5
  <2>2. QED
    BY <2>1
<1>9. Nat \subseteq T
  <2> HIDE DEF T
  <2>1. QED
    BY <1>7, <1>8, Induction
<1>10. \A s \in SUBSET all : Good(s)
  BY <1>2, <1>9
<1>11. SumFunctionOnSet(fun, all) = sum[all]
  BY <1>1, SumOfSums
<1>12. \A x \in all : SumFunctionOnSet(fun, all \ {x}) = sum[all \ {x}]
  BY <1>1, SumOfSums
<1>13. SumFunctionOnSet(fun, all) \in Nat
  BY <1>6, <1>11
<1>14. all = {} => SumFunctionOnSet(fun, all) = 0
  BY <1>3, <1>11
<1>15. ASSUME NEW x \in all
       PROVE  SumFunctionOnSet(fun, all) = fun[x] + SumFunctionOnSet(fun, all \ {x})
  <2>1. sum[all] = fun[x] + sum[all \ {x}]
    BY <1>10
  <2>2. QED
    BY <1>11, <1>12, <2>1
<1>16. QED
  BY <1>13, <1>14, <1>15

(* More is not less. *)
LEMMA SumMonotone ==
  ASSUME NEW fun, NEW all, IsFiniteSet(all), \A x \in all : fun[x] \in Nat,
         NEW some \in SUBSET all
  PROVE  SumFunctionOnSet(fun, some) <= SumFunctionOnSet(fun, all)
<1> DEFINE total(s) == SumFunctionOnSet(fun, s)
           T == {n \in Nat : \A t \in SUBSET all : Cardinality(t) = n =>
                               \A s \in SUBSET t : total(s) <= total(t)}
<1>1. ASSUME NEW s \in SUBSET all
      PROVE  total(s) \in Nat /\ \A x \in s : total(s) = fun[x] + total(s \ {x})
  <2>1. IsFiniteSet(s) /\ \A x \in s : fun[x] \in Nat
    BY FS_Subset
  <2> HIDE DEF total
  <2>2. total(s) \in Nat
    BY <2>1, SumWithout DEF total
  <2>3. \A x \in s : total(s) = fun[x] + total(s \ {x})
    BY <2>1, SumWithout DEF total
  <2>4. QED
    BY <2>2, <2>3
<1>2. \A t \in SUBSET all : IsFiniteSet(t) /\ Cardinality(t) \in Nat
  BY FS_Subset, FS_CardinalityType
<1> HIDE DEF total
<1>3. 0 \in T
  <2>1. ASSUME NEW t \in SUBSET all, Cardinality(t) = 0, NEW s \in SUBSET t
        PROVE  total(s) <= total(t)
    <3>1. t = {}
      BY <1>2, <2>1, FS_EmptySet
    <3>2. s = t
      BY <3>1
    <3>3. QED
      BY <1>1, <3>2
  <2>2. QED
    BY <2>1
<1>4. ASSUME NEW n \in Nat, n \in T
      PROVE  n + 1 \in T
  <2>1. ASSUME NEW t \in SUBSET all, Cardinality(t) = n + 1, NEW s \in SUBSET t
        PROVE  total(s) <= total(t)
    <3>1. CASE s = t
      BY <1>1, <3>1
    <3>2. CASE s # t
      <4>1. PICK x \in t : x \notin s
        BY <3>2
      <4>2. t \ {x} \in SUBSET all /\ Cardinality(t \ {x}) = n /\ s \in SUBSET (t \ {x})
        BY <1>2, <2>1, <4>1, Smaller
      <4>3. total(s) <= total(t \ {x})
        BY <1>4, <4>2
      <4>4. total(t) = fun[x] + total(t \ {x}) /\ fun[x] \in Nat
        BY <1>1
      <4>5. total(t \ {x}) \in Nat /\ total(s) \in Nat
        BY <1>1, <4>2
      <4>6. QED
        BY <4>3, <4>4, <4>5
    <3>3. QED
      BY <3>1, <3>2
  <2>2. QED
    BY <2>1
<1>5. Nat \subseteq T
  <2> HIDE DEF T
  <2>1. QED
    BY <1>3, <1>4, Induction
<1>6. total(some) <= total(all)
  BY <1>2, <1>5
<1>7. QED
  BY <1>6 DEF total

-------------------------------------------------------------------------------

(* The sections the first loop has been through.                            *)
Passed(s) ==
  \/ pc = "sections" /\ s < i
  \/ pc \in {"symbols", "relocations", "write", "converted"}

IsConverted(section, header) ==
  section = [Converted(header) EXCEPT !.relocation_count = section.relocation_count]

(* The numbers of sections that are not left out are those of the artifact, *)
(* in the same order, and differ only behind one that was left out.         *)
SectionsMapped ==
  /\ pc = "read" => sections = << >> /\ \A s \in DOMAIN coff.sections : section_infos[s] = None
  /\ pc = "sections" =>
       Len(sections) < i /\ (Len(sections) = i - 1 \/ \E t \in LeavesOut : t < i)
  /\ \A s \in DOMAIN coff.sections :
       section_infos[s] # None =>
         /\ ~ LeftOut(coff.sections[s]) /\ section_infos[s] <= s
         /\ section_infos[s] = s \/ \E t \in LeavesOut : t < s
         /\ pc = "sections" => s < i
         /\ IsConverted(sections[section_infos[s]], coff.sections[s])
  /\ \A s \in DOMAIN coff.sections :
       Passed(s) /\ ~ LeftOut(coff.sections[s]) => section_infos[s] # None
  /\ \A s, t \in DOMAIN coff.sections :
       s < t /\ section_infos[s] # None /\ section_infos[t] # None =>
         section_infos[s] < section_infos[t]
  /\ \A k \in DOMAIN sections : \E s \in DOMAIN coff.sections : section_infos[s] = k

ConvertedSymbol ==
  [ type : {"external", "local", "global"}, name : DOMAIN NameSize, offset : Nat,
    section_index : Nat ]

IsSymbolOf(symbol, record) ==
  /\ symbol.name = record.Name /\ symbol.offset = record.Value
  /\ symbol.section_index = IF record.SectionNumber = 0 THEN None
                            ELSE section_infos[record.SectionNumber]

BehindLeftOut(r) == \E q \in 1 .. r - 1 : IsSymbol(q) /\ OfLeftOut(coff.symbols[q])

(* The second loop is at a symbol, or behind one of a section left out.     *)
SymbolsMapped ==
  /\ symbols \in Seq(ConvertedSymbol)
  /\ pc \in {"read", "sections"} => \A r \in DOMAIN coff.symbols : symbol_infos[r] = Skipped
  /\ \A r \in DOMAIN coff.symbols :
       Carried(r) => IsSymbolOf(symbols[symbol_infos[r]], coff.symbols[r])
  /\ \A r \in DOMAIN coff.symbols :
       pc = "symbols" /\ r = i => IsSymbol(r) \/ BehindLeftOut(r)
  /\ AuxiliaryOnlyBehindLeftOut

RelocationsStored ==
  /\ pc \in {"read", "sections", "symbols"} =>
       /\ \A s \in DOMAIN coff.sections : relocations[s] = << >>
       /\ \A k \in DOMAIN sections : sections[k].relocation_count = 0
  /\ \A s \in DOMAIN coff.sections :
       relocations[s] # << >> =>
         relocations[s] = Allocated(s) /\ section_infos[s] # None /\ ~ NamesLeftOut(s)
  /\ \A s \in DOMAIN coff.sections :
       section_infos[s] # None
       /\ ((pc = "relocations" /\ s < i) \/ pc \in {"write", "converted"}) =>
         /\ relocations[s] = Allocated(s)
         /\ sections[section_infos[s]].relocation_count = Count(s)

ListsWritten ==
  /\ pc = "converted" => written = [k \in DOMAIN sections |-> Listed(k)]
  /\ pc # "converted" => written = << >>

CoffInv == TypeOK /\ SectionsMapped /\ SymbolsMapped /\ RelocationsStored /\ ListsWritten

-------------------------------------------------------------------------------
(* Each alignment of a header is a power of two, or 0 without one.          *)
LEMMA AlignmentIsPositive ==
  ASSUME NEW bits \in 0 .. 15
  PROVE  Alignment(bits) \in Nat /\ (bits > 0 => Alignment(bits) > 0)
<1>0. CASE bits = 0  BY <1>0 DEF Alignment
<1>1. CASE bits = 1  BY <1>1, 2 ^ 0 = 1 DEF Alignment
<1>2. CASE bits = 2  BY <1>2, 2 ^ 1 = 2 DEF Alignment
<1>3. CASE bits = 3  BY <1>3, 2 ^ 2 = 4 DEF Alignment
<1>4. CASE bits = 4  BY <1>4, 2 ^ 3 = 8 DEF Alignment
<1>5. CASE bits = 5  BY <1>5, 2 ^ 4 = 16 DEF Alignment
<1>6. CASE bits = 6  BY <1>6, 2 ^ 5 = 32 DEF Alignment
<1>7. CASE bits = 7  BY <1>7, 2 ^ 6 = 64 DEF Alignment
<1>8. CASE bits = 8  BY <1>8, 2 ^ 7 = 128 DEF Alignment
<1>9. CASE bits = 9  BY <1>9, 2 ^ 8 = 256 DEF Alignment
<1>10. CASE bits = 10  BY <1>10, 2 ^ 9 = 512 DEF Alignment
<1>11. CASE bits = 11  BY <1>11, 2 ^ 10 = 1024 DEF Alignment
<1>12. CASE bits = 12  BY <1>12, 2 ^ 11 = 2048 DEF Alignment
<1>13. CASE bits = 13  BY <1>13, 2 ^ 12 = 4096 DEF Alignment
<1>14. CASE bits = 14  BY <1>14, 2 ^ 13 = 8192 DEF Alignment
<1>15. CASE bits = 15  BY <1>15, 2 ^ 14 = 16384 DEF Alignment
<1>16. QED
  BY <1>0, <1>1, <1>2, <1>3, <1>4, <1>5, <1>6, <1>7, <1>8, <1>9, <1>10, <1>11, <1>12, <1>13,
     <1>14, <1>15

(* A section of an artifact comes from each header.                         *)
LEMMA ConvertedIsSection ==
  ASSUME NEW header \in Section_Header
  PROVE  Converted(header) \in ConvertedSection
<1>1. Flags(header.Characteristics) \subseteq SectionFlag
  BY DEF Flags, SectionFlag
<1>2. Alignment(header.align) \in Nat
  BY AlignmentIsPositive DEF Section_Header
<1>3. QED
  BY <1>1, <1>2 DEF Converted, ConvertedSection, Section_Header

(* What the model says of a given file.                                     *)
LEMMA FileFacts ==
  ASSUME coff \in COFF_File
  PROVE  /\ coff.sections \in Seq(Section_Header) /\ coff.symbols \in Seq(Symbol_Record)
         /\ Len(coff.sections) \in Nat /\ DOMAIN coff.sections = 1 .. Len(coff.sections)
         /\ Len(coff.symbols) \in Nat /\ DOMAIN coff.symbols = 1 .. Len(coff.symbols)
         /\ \A r \in DOMAIN coff.symbols :
              /\ coff.symbols[r] \in Symbol_Record
              /\ coff.symbols[r].SectionNumber > 0 =>
                   coff.symbols[r].SectionNumber \in DOMAIN coff.sections
         /\ \A s \in DOMAIN coff.sections :
              /\ coff.sections[s] \in Section_Header
              /\ \A r \in DOMAIN coff.sections[s].relocations :
                   /\ coff.sections[s].relocations[r] \in COFF_Relocation
                   /\ coff.sections[s].relocations[r].SymbolTableIndex \in DOMAIN coff.symbols
<1>1. /\ coff.sections \in Seq(Section_Header) /\ coff.symbols \in Seq(Symbol_Record)
      /\ NumbersExist(coff)
  BY DEF COFF_File
<1>2. ASSUME NEW s \in DOMAIN coff.sections
      PROVE  /\ coff.sections[s] \in Section_Header
             /\ coff.sections[s].relocations \in Seq(COFF_Relocation)
  <2>1. coff.sections[s] \in Section_Header
    BY <1>1
  <2>2. QED
    BY <2>1 DEF Section_Header
<1>3. QED
  BY <1>1, <1>2 DEF NumbersExist

-------------------------------------------------------------------------------
(* A list has as many relocations kept as it has at most.                   *)
LEMMA CountFacts ==
  ASSUME coff \in COFF_File, NEW s \in DOMAIN coff.sections
  PROVE  /\ Len(coff.sections[s].relocations) \in Nat
         /\ DOMAIN coff.sections[s].relocations = 1 .. Len(coff.sections[s].relocations)
         /\ IsFiniteSet(KeptAt(s)) /\ KeptAt(s) \subseteq DOMAIN coff.sections[s].relocations
         /\ Count(s) \in 0 .. Len(coff.sections[s].relocations)
<1> DEFINE list == coff.sections[s].relocations
<1>1. list \in Seq(COFF_Relocation)
  BY FileFacts DEF Section_Header
<1>2. Len(list) \in Nat /\ DOMAIN list = 1 .. Len(list)
  BY <1>1
<1>3. KeptAt(s) \subseteq 1 .. Len(list)
  BY <1>2 DEF KeptAt
<1>4. IsFiniteSet(1 .. Len(list)) /\ Cardinality(1 .. Len(list)) = Len(list)
  <2>1. 1 \in Int /\ Len(list) \in Int
    BY <1>2
  <2>2. QED
    BY <1>2, <2>1, FS_Interval
<1>5. IsFiniteSet(KeptAt(s)) /\ Cardinality(KeptAt(s)) <= Len(list)
  BY <1>3, <1>4, FS_Subset
<1>6. Cardinality(KeptAt(s)) \in Nat
  BY <1>5, FS_CardinalityType
<1>7. QED
  BY <1>2, <1>3, <1>5, <1>6 DEF Count

(* Two relocations that are kept have two places, among the first Count(s). *)
LEMMA PlacesDiffer ==
  ASSUME coff \in COFF_File, NEW s \in DOMAIN coff.sections,
         NEW r \in KeptAt(s), NEW q \in KeptAt(s), r < q
  PROVE  PlaceOf(s, r) < PlaceOf(s, q)
<1> DEFINE front(p) == {x \in KeptAt(s) : x <= p}
<1>1. KeptAt(s) \subseteq Nat /\ IsFiniteSet(KeptAt(s))
  BY CountFacts
<1>2. front(r) \subseteq front(q) /\ q \in front(q) /\ q \notin front(r)
  BY <1>1
<1>3. IsFiniteSet(front(q)) /\ IsFiniteSet(front(r))
  BY <1>1, FS_Subset
<1>4. Cardinality(front(r)) <= Cardinality(front(q) \ {q})
  <2>1. front(r) \subseteq front(q) \ {q}
    BY <1>2
  <2>2. IsFiniteSet(front(q) \ {q})
    BY <1>3, FS_Subset
  <2>3. QED
    BY <2>1, <2>2, FS_Subset
<1>5. Cardinality(front(q) \ {q}) = Cardinality(front(q)) - 1
  BY <1>2, <1>3, FS_RemoveElement
<1>6. Cardinality(front(r)) \in Nat /\ Cardinality(front(q)) \in Nat
  BY <1>3, FS_CardinalityType
<1>7. QED
  BY <1>4, <1>5, <1>6 DEF PlaceOf

(* The relocation in the place of one that is kept is that one.             *)
LEMMA KeptInPlace ==
  ASSUME coff \in COFF_File, NEW s \in DOMAIN coff.sections, NEW r \in KeptAt(s)
  PROVE  /\ PlaceOf(s, r) \in 1 .. Count(s)
         /\ Kept(s)[PlaceOf(s, r)] = coff.sections[s].relocations[r]
<1>1. KeptAt(s) \subseteq Nat /\ IsFiniteSet(KeptAt(s)) /\ Count(s) \in Nat
  BY CountFacts
<1>2. PlaceOf(s, r) \in 1 .. Count(s)
  <2> DEFINE front == {x \in KeptAt(s) : x <= r}
  <2>1. front \subseteq KeptAt(s) /\ {r} \subseteq front
    BY <1>1
  <2>2. IsFiniteSet(front) /\ Cardinality(front) <= Cardinality(KeptAt(s))
    BY <1>1, <2>1, FS_Subset
  <2>3. Cardinality({r}) <= Cardinality(front) /\ Cardinality({r}) = 1
    BY <2>1, <2>2, FS_Subset, FS_Singleton
  <2>4. Cardinality(front) \in Nat
    BY <2>2, FS_CardinalityType
  <2>5. QED
    BY <1>1, <2>2, <2>3, <2>4 DEF PlaceOf, Count
<1>3. \A q \in KeptAt(s) : PlaceOf(s, q) = PlaceOf(s, r) => q = r
  <2> SUFFICES ASSUME NEW q \in KeptAt(s), q # r
               PROVE  PlaceOf(s, q) # PlaceOf(s, r)
    OBVIOUS
  <2>1. q < r \/ r < q
    BY <1>1
  <2>2. PlaceOf(s, r) \in Nat
    BY <1>1, <1>2
  <2>3. PlaceOf(s, q) \in Int
    <3>1. IsFiniteSet({x \in KeptAt(s) : x <= q})
      BY <1>1, FS_Subset
    <3>2. QED
      BY <3>1, FS_CardinalityType DEF PlaceOf
  <2>4. QED
    BY <2>1, <2>2, <2>3, PlacesDiffer
<1>4. (CHOOSE q \in KeptAt(s) : PlaceOf(s, q) = PlaceOf(s, r)) = r
  BY <1>3
<1>5. QED
  BY <1>2, <1>4 DEF Kept, Count
-------------------------------------------------------------------------------
(* What depends on the file alone stays.                                    *)
LEMMA SameFile ==
  ASSUME coff' = coff
  PROVE  /\ LeavesOut' = LeavesOut
         /\ \A r : (IsSymbol(r)' <=> IsSymbol(r)) /\ (BehindLeftOut(r)' <=> BehindLeftOut(r))
         /\ \A s : KeptAt(s)' = KeptAt(s) /\ Count(s)' = Count(s) /\ Kept(s)' = Kept(s)
<1>1. \A r : IsSymbol(r)' <=> IsSymbol(r)
  BY DEF IsSymbol, HasAllSymbols, Behind
<1>2. \A r : BehindLeftOut(r)' <=> BehindLeftOut(r)
  BY <1>1 DEF BehindLeftOut, OfLeftOut
<1>3. \A s : KeptAt(s)' = KeptAt(s)
  BY DEF KeptAt
<1>4. \A s : Count(s)' = Count(s)
  BY <1>3 DEF Count
<1>5. \A s, r : PlaceOf(s, r)' = PlaceOf(s, r)
  BY <1>3 DEF PlaceOf
<1>6. ASSUME NEW s
      PROVE  Kept(s)' = Kept(s)
  BY <1>3, <1>5 DEF Kept, PlaceOf, KeptAt
<1>7. QED
  BY <1>1, <1>2, <1>3, <1>4, <1>6 DEF LeavesOut

(* The lists of relocations depend on the numbers of symbols besides.       *)
LEMMA SameNumbers ==
  ASSUME coff' = coff, symbol_infos' = symbol_infos
  PROVE  \A s : Allocated(s)' = Allocated(s) /\ (NamesLeftOut(s)' <=> NamesLeftOut(s))
BY SameFile DEF Allocated, Renumbered, SymbolIndex, NamesLeftOut

(* The function, or the process, may end anywhere.                          *)
LEMMA EndStep ==
  ASSUME CoffInv, pc # "converted", NEW how \in {"refused", "crashed"}, End(how)
  PROVE  CoffInv'
<1>1. /\ pc' = how /\ i' = 1
      /\ UNCHANGED << coff, output_opens, target, sections, symbols, string_size, section_infos,
                      symbol_infos, relocations, written >>
  BY DEF End, Goto, given, object
<1>2. TypeOK'
  <2>1. i' \in Nat /\ i' > 0 /\ pc' \in Terminal
    BY <1>1 DEF Terminal
  <2>2. UNCHANGED << coff, output_opens, target, sections, string_size, section_infos, symbols,
                     symbol_infos, relocations, written >>
    BY <1>1
  <2>3. QED
    BY <2>1, <2>2 DEF CoffInv, TypeOK
<1>3. SectionsMapped'
  BY <1>1, SameFile DEF CoffInv, SectionsMapped, Passed
<1>4. SymbolsMapped'
  BY <1>1, SameFile
  DEF CoffInv, SymbolsMapped, AuxiliaryOnlyBehindLeftOut, BehindLeftOut, IsSymbolOf, Carried
<1>5. RelocationsStored'
  BY <1>1, SameNumbers DEF CoffInv, RelocationsStored
<1>6. ListsWritten'
  BY <1>1 DEF CoffInv, ListsWritten
<1>7. QED
  BY <1>2, <1>3, <1>4, <1>5, <1>6 DEF CoffInv

(* Reading the file.                                                        *)
LEMMA ReadStep ==
  ASSUME CoffInv, Read
  PROVE  CoffInv'
<1>1. CASE End("crashed") \/ End("refused")
  BY <1>1, EndStep DEF Read
<1>2. CASE ~ (End("crashed") \/ End("refused"))
  <2>1. /\ pc = "read" /\ pc' = "sections" /\ i' = 1 /\ IsCoff
        /\ target' = MachineTarget[coff.Machine]
        /\ UNCHANGED << coff, output_opens, sections, symbols, string_size, section_infos,
                        symbol_infos, relocations, written >>
    BY <1>2 DEF Read, Goto, given
  <2>2. TypeOK'
    <3>1. coff.Machine \in DOMAIN MachineTarget
      BY <2>1 DEF CoffInv, TypeOK, COFF_File, IsCoff
    <3>2. target' \in Targets
      BY <2>1, <3>1 DEF Targets
    <3>3. i' \in Nat /\ i' > 0
      BY <2>1
    <3>4. UNCHANGED << coff, output_opens, sections, symbols, string_size, section_infos,
                       symbol_infos, relocations, written >>
      BY <2>1
    <3>5. QED
      BY <2>1, <3>2, <3>3, <3>4 DEF CoffInv, TypeOK
  <2>3. SectionsMapped'
    <3>1. sections' = << >> /\ \A s \in DOMAIN coff'.sections : section_infos'[s] = None
      BY <2>1 DEF CoffInv, SectionsMapped
    <3>2. Len(sections') < i' /\ Len(sections') = i' - 1 /\ \A k \in DOMAIN sections' : FALSE
      BY <2>1, <3>1
    <3>3. \A s \in DOMAIN coff'.sections : ~ Passed(s)'
      <4>1. coff \in COFF_File
        BY DEF CoffInv, TypeOK
      <4>2. DOMAIN coff.sections \subseteq Nat \ {0}
        BY <4>1, FileFacts
      <4>3. QED
        BY <2>1, <4>2 DEF Passed
    <3>4. QED
      BY <2>1, <3>1, <3>2, <3>3 DEF SectionsMapped
  <2>4. SymbolsMapped'
    BY <2>1, SameFile
    DEF CoffInv, SymbolsMapped, AuxiliaryOnlyBehindLeftOut, BehindLeftOut, IsSymbolOf, Carried
  <2>5. RelocationsStored'
    BY <2>1, SameNumbers DEF CoffInv, RelocationsStored
  <2>6. ListsWritten'
    BY <2>1 DEF CoffInv, ListsWritten
  <2>7. QED
    BY <2>2, <2>3, <2>4, <2>5, <2>6 DEF CoffInv
<1>3. QED
  BY <1>1, <1>2

(* What the invariant says of the variables one by one.                     *)
LEMMA Types ==
  ASSUME CoffInv
  PROVE  /\ coff \in COFF_File /\ i \in Nat /\ i > 0
         /\ sections \in Seq(ConvertedSection) /\ symbols \in Seq(ConvertedSymbol)
         /\ Len(sections) \in Nat /\ DOMAIN sections = 1 .. Len(sections)
         /\ Len(symbols) \in Nat /\ DOMAIN symbols = 1 .. Len(symbols)
         /\ section_infos \in [DOMAIN coff.sections -> 0 .. Len(sections)]
         /\ symbol_infos \in [DOMAIN coff.symbols -> {Skipped} \union 0 .. Len(symbols)]
         /\ DOMAIN relocations = DOMAIN coff.sections
<1>1. sections \in Seq(ConvertedSection) /\ symbols \in Seq(ConvertedSymbol)
  BY DEF CoffInv, TypeOK, SymbolsMapped
<1>2. /\ Len(sections) \in Nat /\ DOMAIN sections = 1 .. Len(sections)
      /\ Len(symbols) \in Nat /\ DOMAIN symbols = 1 .. Len(symbols)
  BY <1>1
<1>3. /\ coff \in COFF_File /\ i \in Nat /\ i > 0
      /\ section_infos \in [DOMAIN coff.sections -> 0 .. Len(sections)]
      /\ symbol_infos \in [DOMAIN coff.symbols -> {Skipped} \union 0 .. Len(symbols)]
      /\ DOMAIN relocations = DOMAIN coff.sections
  BY DEF CoffInv, TypeOK
<1>4. QED
  BY <1>1, <1>2, <1>3

(* A section is converted or left out.                                      *)
LEMMA SectionStep ==
  ASSUME CoffInv, ConvertSection
  PROVE  CoffInv'
<1> DEFINE header == coff.sections[i]
<1>1. /\ pc = "sections" /\ pc' = "sections" /\ i \in DOMAIN coff.sections /\ i' = i + 1
      /\ UNCHANGED << coff, output_opens, target, symbols, string_size, symbol_infos, relocations,
                      written >>
  BY DEF ConvertSection, given
<1>2. /\ coff \in COFF_File /\ i \in Nat /\ i > 0 /\ DOMAIN coff.sections \subseteq Nat \ {0}
      /\ sections \in Seq(ConvertedSection) /\ Len(sections) \in Nat
      /\ DOMAIN sections = 1 .. Len(sections)
      /\ section_infos \in [DOMAIN coff.sections -> 0 .. Len(sections)]
  BY Types, FileFacts
<1>3. /\ LeavesOut' = LeavesOut
      /\ \A t \in DOMAIN coff.sections : LeftOut(coff.sections[t]) => t \in LeavesOut
  BY <1>1, SameFile DEF LeavesOut
<1>4. SymbolsMapped'
  <2>1. \A r \in DOMAIN coff.symbols : symbol_infos[r] = Skipped
    BY <1>1 DEF CoffInv, SymbolsMapped
  <2>2. AuxiliaryOnlyBehindLeftOut'
    BY <1>1, <2>1 DEF AuxiliaryOnlyBehindLeftOut, Carried
  <2>3. QED
    BY <1>1, <2>1, <2>2 DEF CoffInv, SymbolsMapped, Carried
<1>5. /\ \A s \in DOMAIN coff.sections : relocations[s] = << >>
      /\ \A k \in DOMAIN sections : sections[k].relocation_count = 0
  BY <1>1 DEF CoffInv, RelocationsStored
<1>6. ListsWritten' /\ written = << >>
  BY <1>1 DEF CoffInv, ListsWritten
<1>7. CASE LeftOut(header)
  <2>1. UNCHANGED << sections, section_infos >>
    BY <1>7 DEF ConvertSection
  <2>2. TypeOK'
    <3>1. i' \in Nat /\ i' > 0
      BY <1>1, <1>2
    <3>2. pc' = pc
      BY <1>1
    <3>3. QED
      BY <1>1, <2>1, <3>1, <3>2 DEF CoffInv, TypeOK
  <2>3. SectionsMapped'
    <3>1. i \in LeavesOut /\ section_infos[i] = None
      BY <1>1, <1>2, <1>3, <1>7 DEF CoffInv, SectionsMapped
    <3>2. QED
      BY <1>1, <1>2, <1>3, <1>7, <2>1, <3>1 DEF CoffInv, SectionsMapped, Passed
  <2>4. RelocationsStored'
    BY <1>1, <1>5, <2>1 DEF RelocationsStored
  <2>5. QED
    BY <1>4, <1>6, <2>2, <2>3, <2>4 DEF CoffInv
<1>8. CASE ~ LeftOut(header)
  <2>1. /\ sections' = Append(sections, Converted(header))
        /\ section_infos' = [section_infos EXCEPT ![i] = Len(sections) + 1]
    BY <1>8 DEF ConvertSection, MapSection
  <2>2. Converted(header) \in ConvertedSection /\ Converted(header).relocation_count = 0
    <3>1. header \in Section_Header
      BY <1>1, <1>2, FileFacts
    <3>2. QED
      BY <3>1, ConvertedIsSection DEF Converted
  <2>3. /\ sections' \in Seq(ConvertedSection) /\ Len(sections') = Len(sections) + 1
        /\ DOMAIN sections' = 1 .. Len(sections) + 1
        /\ \A k \in DOMAIN sections : sections'[k] = sections[k]
        /\ sections'[Len(sections) + 1] = Converted(header)
    BY <1>2, <2>1, <2>2
  <2>4. /\ section_infos' \in [DOMAIN coff.sections -> 0 .. Len(sections) + 1]
        /\ section_infos'[i] = Len(sections) + 1
        /\ \A s \in DOMAIN coff.sections \ {i} : section_infos'[s] = section_infos[s]
    BY <1>1, <1>2, <2>1
  <2>5. TypeOK'
    <3>1. i' \in Nat /\ i' > 0
      BY <1>1, <1>2
    <3>2. pc' = pc /\ written' = << >>
      BY <1>1, <1>6
    <3>3. section_infos' \in [DOMAIN coff'.sections -> 0 .. Len(sections')]
      BY <1>1, <2>3, <2>4
    <3>4. QED
      BY <1>1, <2>3, <3>1, <3>2, <3>3 DEF CoffInv, TypeOK
  <2>6. SectionsMapped'
    <3>1. \A s \in DOMAIN coff.sections : s >= i => section_infos[s] = None
      BY <1>1, <1>2 DEF CoffInv, SectionsMapped
    <3>2. /\ Len(sections') < i' /\ (Len(sections') = i' - 1 \/ \E t \in LeavesOut : t < i')
          /\ Len(sections) + 1 <= i /\ (Len(sections) + 1 = i \/ \E t \in LeavesOut : t < i)
      <4>1. Len(sections) < i /\ (Len(sections) = i - 1 \/ \E t \in LeavesOut : t < i)
        BY <1>1 DEF CoffInv, SectionsMapped
      <4>2. LeavesOut \subseteq Nat
        BY <1>2 DEF LeavesOut
      <4>3. QED
        BY <1>1, <1>2, <2>3, <4>1, <4>2
    <3>3. ASSUME NEW s \in DOMAIN coff.sections, section_infos'[s] # None
          PROVE  /\ ~ LeftOut(coff.sections[s]) /\ section_infos'[s] <= s /\ s < i'
                 /\ section_infos'[s] = s \/ \E t \in LeavesOut : t < s
                 /\ IsConverted(sections'[section_infos'[s]], coff.sections[s])
      <4>1. CASE s = i
        <5>1. IsConverted(Converted(header), header)
          BY DEF IsConverted, Converted
        <5>2. QED
          BY <1>1, <1>2, <1>8, <2>3, <2>4, <3>2, <4>1, <5>1
      <4>2. CASE s # i
        <5>1. section_infos[s] # None /\ section_infos'[s] = section_infos[s]
          BY <2>4, <3>3, <4>2
        <5>2. section_infos[s] \in DOMAIN sections
          BY <1>2, <5>1 DEF None
        <5>3. QED
          BY <1>1, <1>2, <2>3, <5>1, <5>2 DEF CoffInv, SectionsMapped
      <4>3. QED
        BY <4>1, <4>2
    <3>4. ASSUME NEW s \in DOMAIN coff.sections, Passed(s)', ~ LeftOut(coff.sections[s])
          PROVE  section_infos'[s] # None
      <4>1. s = i \/ Passed(s)
        BY <1>1, <1>2, <3>4 DEF Passed
      <4>2. QED
        BY <1>2, <2>4, <3>4, <4>1 DEF CoffInv, SectionsMapped, None
    <3>5. ASSUME NEW s \in DOMAIN coff.sections, NEW t \in DOMAIN coff.sections, s < t,
                 section_infos'[s] # None, section_infos'[t] # None
          PROVE  section_infos'[s] < section_infos'[t]
      <4>1. s # i
        BY <1>2, <2>4, <3>1, <3>5
      <4>2. section_infos'[s] = section_infos[s] /\ section_infos[s] <= Len(sections)
        BY <1>2, <2>4, <4>1
      <4>3. QED
        BY <1>2, <2>4, <3>5, <4>1, <4>2 DEF CoffInv, SectionsMapped
    <3>6. ASSUME NEW k \in DOMAIN sections'
          PROVE  \E s \in DOMAIN coff.sections : section_infos'[s] = k
      <4>1. CASE k = Len(sections) + 1
        BY <1>1, <2>4, <4>1
      <4>2. CASE k \in DOMAIN sections
        <5>1. PICK s \in DOMAIN coff.sections : section_infos[s] = k
          BY <4>2 DEF CoffInv, SectionsMapped
        <5>2. s # i
          BY <1>1, <1>2, <3>1, <4>2, <5>1 DEF None
        <5>3. QED
          BY <2>4, <5>1, <5>2
      <4>3. QED
        BY <1>2, <2>3, <4>1, <4>2
    <3>7. QED
      BY <1>1, <1>3, <3>2, <3>3, <3>4, <3>5, <3>6 DEF SectionsMapped
  <2>7. RelocationsStored'
    <3>1. \A k \in DOMAIN sections' : sections'[k].relocation_count = 0
      <4>1. \A k \in DOMAIN sections : sections[k].relocation_count = 0
        BY <1>1, <1>5
      <4>2. QED
        BY <1>2, <2>2, <2>3, <4>1
    <3>2. pc' = "sections" /\ \A s \in DOMAIN coff'.sections : relocations'[s] = << >>
      BY <1>1, <1>5
    <3>3. QED
      BY <3>1, <3>2 DEF RelocationsStored
  <2>8. QED
    BY <1>4, <1>6, <2>5, <2>6, <2>7 DEF CoffInv
<1>9. QED
  BY <1>7, <1>8

(* The first record is a symbol, and so is what is behind one.              *)
LEMMA SymbolsFollow ==
  ASSUME NEW r \in DOMAIN coff.symbols
  PROVE  /\ IsSymbol(1) \/ 1 \notin DOMAIN coff.symbols
         /\ IsSymbol(r) /\ Behind(r) \in DOMAIN coff.symbols => IsSymbol(Behind(r))
BY DEF IsSymbol, HasAllSymbols

(* What is behind a record the loop was right to be at is one as well.      *)
LEMMA BehindIsReached ==
  ASSUME coff \in COFF_File, NEW r \in DOMAIN coff.symbols, IsSymbol(r) \/ BehindLeftOut(r),
         Behind(r) \in DOMAIN coff.symbols
  PROVE  IsSymbol(Behind(r)) \/ BehindLeftOut(Behind(r))
<1>1. CASE IsSymbol(r)
  BY <1>1, SymbolsFollow
<1>2. CASE BehindLeftOut(r)
  <2>1. r \in Nat /\ r < Behind(r) /\ Behind(r) \in Nat
    <3>1. r \in Nat /\ coff.symbols[r] \in Symbol_Record
      BY FileFacts
    <3>2. coff.symbols[r].NumberOfAuxSymbols \in Nat
      BY <3>1 DEF Symbol_Record
    <3>3. QED
      BY <3>1, <3>2 DEF Behind
  <2>2. QED
    BY <1>2, <2>1 DEF BehindLeftOut
<1>3. QED
  BY <1>1, <1>2

(* From one loop to the next.                                               *)
LEMMA ProceedStep ==
  ASSUME CoffInv,
         \/ Proceed("sections", Len(coff.sections), "symbols")
         \/ Proceed("symbols", Len(coff.symbols), "relocations")
         \/ Proceed("relocations", Len(coff.sections), "write")
  PROVE  CoffInv'
<1>1. /\ pc' # "converted" /\ pc # "converted" /\ pc # "read" /\ i' = 1
      /\ pc' \in {"symbols", "relocations", "write"}
      /\ UNCHANGED << coff, output_opens, target, sections, symbols, string_size, section_infos,
                      symbol_infos, relocations, written >>
  BY DEF Proceed, Goto, given, object
<1>2. /\ coff \in COFF_File /\ i \in Nat
      /\ DOMAIN coff.sections = 1 .. Len(coff.sections) /\ Len(coff.sections) \in Nat
      /\ DOMAIN coff.symbols \subseteq Nat \ {0}
  BY Types, FileFacts
<1>3. TypeOK'
  <2>1. i' \in Nat /\ i' > 0
    BY <1>1
  <2>2. UNCHANGED << coff, output_opens, target, sections, symbols, string_size, section_infos,
                     symbol_infos, relocations, written >>
    BY <1>1
  <2>3. QED
    BY <1>1, <2>1, <2>2 DEF CoffInv, TypeOK
<1>4. SectionsMapped'
  <2>1. \A s \in DOMAIN coff.sections : Passed(s)
    BY <1>2 DEF Proceed, Passed
  <2>2. LeavesOut' = LeavesOut
    BY <1>1, SameFile
  <2>3. pc' # "read" /\ pc' # "sections"
    BY <1>1
  <2>4. QED
    BY <1>1, <2>1, <2>2, <2>3 DEF CoffInv, SectionsMapped
<1>5. SymbolsMapped'
  <2>1. \A r \in DOMAIN coff.symbols :
          (pc' = "symbols" /\ r = i') => IsSymbol(r)
    BY <1>1, SymbolsFollow
  <2>2. QED
    BY <1>1, <2>1, SameFile
    DEF CoffInv, SymbolsMapped, AuxiliaryOnlyBehindLeftOut, BehindLeftOut, IsSymbolOf, Carried
<1>6. RelocationsStored'
  <2>1. \A s \in DOMAIN coff.sections :
          pc' = "write" => pc = "relocations" /\ s < i
    BY <1>2 DEF Proceed, Goto
  <2>2. \A s \in DOMAIN coff.sections : ~ (pc' = "relocations" /\ s < i')
    BY <1>1, <1>2
  <2>3. pc' = "symbols" => pc = "sections"
    BY DEF Proceed, Goto
  <2>4. \A s : Count(s)' = Count(s)
    BY <1>1, SameFile
  <2>5. QED
    BY <1>1, <2>1, <2>2, <2>3, <2>4, SameNumbers DEF CoffInv, RelocationsStored
<1>7. ListsWritten'
  BY <1>1 DEF CoffInv, ListsWritten
<1>8. QED
  BY <1>3, <1>4, <1>5, <1>6, <1>7 DEF CoffInv

(* A record is passed over, dropped, or becomes a symbol.                   *)
LEMMA SymbolStep ==
  ASSUME CoffInv, ConvertSymbol
  PROVE  CoffInv'
<1>1. /\ pc = "symbols" /\ pc' = "symbols" /\ i \in DOMAIN coff.symbols
      /\ UNCHANGED << coff, output_opens, target, sections, section_infos, relocations, written >>
  BY DEF ConvertSymbol, PassOver, DropSymbol, LeaveOut, AddSymbol, AddSymbolOf, given, object
<1>2. /\ coff \in COFF_File /\ i \in Nat /\ i > 0
      /\ Record \in Symbol_Record
      /\ Record.SectionNumber > 0 => Record.SectionNumber \in DOMAIN coff.sections
  BY <1>1, Types, FileFacts DEF Record
<1>3. /\ Record.NumberOfAuxSymbols \in Nat /\ Record.SectionNumber \in Int
      /\ Record.Name \in DOMAIN NameSize /\ Record.Value \in Nat
  BY <1>2 DEF Symbol_Record
<1>4. symbols \in Seq(ConvertedSymbol) /\ Len(symbols) \in Nat
      /\ DOMAIN symbols = 1 .. Len(symbols)
      /\ symbol_infos \in [DOMAIN coff.symbols -> {Skipped} \union 0 .. Len(symbols)]
      /\ section_infos \in [DOMAIN coff.sections -> 0 .. Len(sections)] /\ Len(sections) \in Nat
  BY Types
<1>5. SectionsMapped'
  BY <1>1, SameFile DEF CoffInv, SectionsMapped, Passed
<1>6. /\ \A s \in DOMAIN coff.sections : relocations[s] = << >>
      /\ RelocationsStored'
  BY <1>1 DEF CoffInv, RelocationsStored
<1>7. ListsWritten'
  BY <1>1 DEF CoffInv, ListsWritten
<1>8. IsSymbol(i) \/ BehindLeftOut(i)
  BY <1>1 DEF CoffInv, SymbolsMapped
<1>9. i' \in DOMAIN coff.symbols => IsSymbol(i') \/ BehindLeftOut(i')
  <2>1. CASE i' = Behind(i)
    BY <1>1, <1>2, <1>8, <2>1, BehindIsReached
  <2>2. CASE i' # Behind(i)
    <3>1. Record.SectionNumber > 0 /\ SectionOf(Record) = None /\ i' = i + 1
      BY <2>2
      DEF ConvertSymbol, PassOver, DropSymbol, LeaveOut, AddSymbol, AddSymbolOf, Behind, Record
    <3>2. LeftOut(coff.sections[Record.SectionNumber])
      BY <1>1, <1>2, <3>1 DEF CoffInv, SectionsMapped, Passed, SectionOf
    <3>3. OfLeftOut(coff.symbols[i])
      BY <3>1, <3>2 DEF OfLeftOut, Record
    <3>4. QED
      BY <1>2, <1>8, <3>1, <3>3 DEF BehindLeftOut
  <2>3. QED
    BY <2>1, <2>2
<1>10. \A r \in DOMAIN coff.symbols :
         pc' = "symbols" /\ r = i' => IsSymbol(r)' \/ BehindLeftOut(r)'
  BY <1>1, <1>9, SameFile
<1>11. i' \in Nat /\ i' > 0
  BY <1>2, <1>3 DEF ConvertSymbol, PassOver, DropSymbol, LeaveOut, AddSymbol, AddSymbolOf
<1>12. CASE PassOver \/ DropSymbol
  <2>1. /\ UNCHANGED << symbols, string_size >>
        /\ symbol_infos' = [symbol_infos EXCEPT ![i] = None]
    BY <1>12 DEF PassOver, DropSymbol, LeaveOut
  <2>2. /\ symbol_infos' \in [DOMAIN coff.symbols -> {Skipped} \union 0 .. Len(symbols)]
        /\ \A r \in DOMAIN coff.symbols :
             Carried(r)' => Carried(r) /\ symbol_infos'[r] = symbol_infos[r]
    BY <1>1, <1>4, <2>1 DEF Carried, None
  <2>3. TypeOK'
    BY <1>1, <1>11, <2>1, <2>2 DEF CoffInv, TypeOK
  <2>4. SymbolsMapped'
    <3>1. AuxiliaryOnlyBehindLeftOut'
      BY <1>1, <2>2, SameFile
      DEF CoffInv, SymbolsMapped, AuxiliaryOnlyBehindLeftOut, BehindLeftOut
    <3>2. QED
      BY <1>1, <1>10, <2>1, <2>2, <3>1 DEF CoffInv, SymbolsMapped, IsSymbolOf
  <2>5. QED
    BY <1>5, <1>6, <1>7, <2>3, <2>4 DEF CoffInv
<1>13. CASE AddSymbol
  <2> DEFINE symbol ==
        [ type |-> Type(Record), name |-> Record.Name, offset |-> Record.Value,
          section_index |-> IF Record.SectionNumber = 0 THEN None ELSE SectionOf(Record) ]
  <2>1. /\ symbols' = Append(symbols, symbol)
        /\ symbol_infos' = [symbol_infos EXCEPT ![i] = Len(symbols) + 1]
        /\ string_size' = string_size + StringSize(Record.Name)
        /\ Record.SectionNumber = 0 \/ Record.SectionNumber > 0
    BY <1>13 DEF AddSymbol, AddSymbolOf
  <2>2. symbol \in ConvertedSymbol /\ IsSymbolOf(symbol, Record)
    <3>1. Record.SectionNumber > 0 => SectionOf(Record) \in Nat
      BY <1>2, <1>4 DEF SectionOf
    <3>2. QED
      BY <1>3, <2>1, <3>1 DEF ConvertedSymbol, IsSymbolOf, Type, None, SectionOf
  <2> HIDE DEF symbol
  <2>3. /\ symbols' \in Seq(ConvertedSymbol) /\ Len(symbols') = Len(symbols) + 1
        /\ \A k \in DOMAIN symbols : symbols'[k] = symbols[k]
        /\ symbols'[Len(symbols) + 1] = symbol
    BY <1>4, <2>1, <2>2
  <2>4. /\ symbol_infos' \in [DOMAIN coff.symbols -> {Skipped} \union 0 .. Len(symbols) + 1]
        /\ symbol_infos'[i] = Len(symbols) + 1
        /\ \A r \in DOMAIN coff.symbols \ {i} : symbol_infos'[r] = symbol_infos[r]
    BY <1>1, <1>4, <2>1
  <2>5. TypeOK'
    <3>1. string_size' \in Nat
      <4>1. StringSize(Record.Name) \in Nat
        BY <1>3, NameSizeAssumption DEF StringSize
      <4>2. string_size \in Nat
        BY DEF CoffInv, TypeOK
      <4>3. QED
        BY <2>1, <4>1, <4>2
    <3>2. symbol_infos' \in [DOMAIN coff'.symbols -> {Skipped} \union 0 .. Len(symbols')]
      BY <1>1, <2>3, <2>4
    <3>3. QED
      BY <1>1, <1>11, <3>1, <3>2 DEF CoffInv, TypeOK
  <2>6. SymbolsMapped'
    <3>1. ASSUME NEW r \in DOMAIN coff.symbols, Carried(r)'
          PROVE  IsSymbolOf(symbols'[symbol_infos'[r]], coff.symbols[r])
      <4>1. CASE r = i
        BY <2>2, <2>3, <2>4, <4>1 DEF Record
      <4>2. CASE r # i
        <5>1. Carried(r) /\ symbol_infos'[r] = symbol_infos[r]
          BY <2>4, <3>1, <4>2 DEF Carried
        <5>2. symbol_infos[r] \in DOMAIN symbols
          BY <1>4, <5>1 DEF Carried, None
        <5>3. QED
          BY <2>3, <5>1, <5>2 DEF CoffInv, SymbolsMapped
      <4>3. QED
        BY <4>1, <4>2
    <3>2. AuxiliaryOnlyBehindLeftOut'
      <4>1. \A r \in DOMAIN coff.symbols :
              Carried(r)' => IsSymbol(r) \/ BehindLeftOut(r)
        BY <1>8, <2>4
        DEF CoffInv, SymbolsMapped, AuxiliaryOnlyBehindLeftOut, BehindLeftOut, Carried
      <4>2. QED
        BY <1>1, <4>1, SameFile DEF AuxiliaryOnlyBehindLeftOut, BehindLeftOut
    <3>3. QED
      BY <1>1, <1>10, <2>3, <3>1, <3>2 DEF SymbolsMapped, IsSymbolOf
  <2>7. QED
    BY <1>5, <1>6, <1>7, <2>5, <2>6 DEF CoffInv
<1>14. QED
  BY <1>12, <1>13 DEF ConvertSymbol

(* The relocations of a section are stored, or it has no section to go to.  *)
LEMMA RelocationStep ==
  ASSUME CoffInv, ConvertRelocations
  PROVE  CoffInv'
<1>1. CASE End("crashed")
  <2>1. pc # "converted"
    BY DEF ConvertRelocations
  <2>2. QED
    BY <1>1, <2>1, EndStep
<1>2. CASE ~ End("crashed")
  <2>1. /\ pc = "relocations" /\ pc' = "relocations" /\ i \in DOMAIN coff.sections /\ i' = i + 1
        /\ UNCHANGED << coff, output_opens, target, symbols, string_size, section_infos,
                        symbol_infos, written >>
    BY <1>2 DEF ConvertRelocations, given, object
  <2>2. /\ coff \in COFF_File /\ i \in Nat /\ DOMAIN coff.sections \subseteq Nat \ {0}
        /\ sections \in Seq(ConvertedSection) /\ DOMAIN sections = 1 .. Len(sections)
        /\ section_infos \in [DOMAIN coff.sections -> 0 .. Len(sections)] /\ Len(sections) \in Nat
        /\ DOMAIN relocations = DOMAIN coff.sections
    BY Types, FileFacts
  <2>3. i' \in Nat /\ i' > 0
    BY <2>1, <2>2
  <2>4. SymbolsMapped'
    BY <2>1, SameFile
    DEF CoffInv, SymbolsMapped, AuxiliaryOnlyBehindLeftOut, BehindLeftOut, IsSymbolOf, Carried
  <2>5. ListsWritten' /\ written' = << >>
    BY <2>1 DEF CoffInv, ListsWritten
  <2>6. LeavesOut' = LeavesOut /\ \A s : Count(s)' = Count(s)
    BY <2>1, SameFile
  <2>7. CASE section_infos[i] = None
    <3>1. UNCHANGED << sections, relocations >>
      BY <1>2, <2>7 DEF ConvertRelocations, object
    <3>2. TypeOK'
      BY <2>1, <2>3, <3>1 DEF CoffInv, TypeOK
    <3>3. SectionsMapped'
      BY <2>1, <2>6, <3>1 DEF CoffInv, SectionsMapped, Passed
    <3>4. RelocationsStored'
      <4>1. \A s \in DOMAIN coff.sections : section_infos[s] # None /\ s < i' => s < i
        BY <2>1, <2>2, <2>7
      <4>2. QED
        BY <2>1, <2>6, <3>1, <4>1, SameNumbers DEF CoffInv, RelocationsStored
    <3>5. QED
      BY <2>4, <2>5, <3>2, <3>3, <3>4 DEF CoffInv
  <2>8. CASE section_infos[i] # None
    <3> DEFINE k == section_infos[i]
    <3>1. /\ ~ NamesLeftOut(i)
          /\ relocations' = [relocations EXCEPT ![i] = Allocated(i)]
          /\ sections' = [sections EXCEPT ![k].relocation_count = Count(i)]
      BY <1>2, <2>8 DEF ConvertRelocations
    <3>2. k \in DOMAIN sections /\ Count(i) \in Nat
      BY <2>1, <2>2, <2>8, CountFacts DEF None
    <3>3. /\ sections' \in Seq(ConvertedSection) /\ Len(sections') = Len(sections)
          /\ DOMAIN sections' = DOMAIN sections
          /\ sections'[k] = [sections[k] EXCEPT !.relocation_count = Count(i)]
          /\ \A l \in DOMAIN sections \ {k} : sections'[l] = sections[l]
      <4>1. sections[k] \in ConvertedSection
        BY <2>2, <3>2
      <4>2. [sections[k] EXCEPT !.relocation_count = Count(i)] \in ConvertedSection
        BY <3>2, <4>1 DEF ConvertedSection
      <4>3. sections' = [sections EXCEPT ![k] = [sections[k] EXCEPT !.relocation_count = Count(i)]]
        BY <3>1
      <4> HIDE DEF k
      <4>4. QED
        BY <2>2, <3>2, <4>2, <4>3
    <3>4. /\ DOMAIN relocations' = DOMAIN coff.sections /\ relocations'[i] = Allocated(i)
          /\ \A s \in DOMAIN coff.sections \ {i} : relocations'[s] = relocations[s]
      BY <2>1, <2>2, <3>1
    <3>5. \A s \in DOMAIN coff.sections :
            section_infos[s] # None =>
              /\ section_infos[s] \in DOMAIN sections
              /\ s # i => section_infos[s] # k
      BY <2>1, <2>2, <2>8 DEF CoffInv, SectionsMapped, None
    <3>6. TypeOK'
      BY <2>1, <2>3, <2>5, <3>3, <3>4 DEF CoffInv, TypeOK
    <3>7. SectionsMapped'
      <4>1. ASSUME NEW l \in DOMAIN sections, NEW header, IsConverted(sections[l], header)
            PROVE  IsConverted(sections'[l], header)
        <5>1. CASE l # k
          BY <3>3, <4>1, <5>1
        <5>2. CASE l = k
          <6>1. [sections[k] EXCEPT !.relocation_count = Count(i)]
                  = [Converted(header) EXCEPT !.relocation_count = Count(i)]
            BY <4>1, <5>2 DEF IsConverted, Converted
          <6>2. sections'[k].relocation_count = Count(i)
            BY <3>3, <6>1 DEF Converted
          <6>3. QED
            BY <3>3, <5>2, <6>1, <6>2 DEF IsConverted
        <5>3. QED
          BY <5>1, <5>2
      <4>2. \A s \in DOMAIN coff.sections :
              section_infos[s] # None =>
                IsConverted(sections'[section_infos[s]], coff.sections[s])
        BY <3>5, <4>1 DEF CoffInv, SectionsMapped
      <4>3. \A s : Passed(s)' <=> Passed(s)
        BY <2>1 DEF Passed
      <4>4. pc' # "read" /\ pc' # "sections"
        BY <2>1
      <4>5. QED
        BY <2>1, <2>6, <3>3, <4>2, <4>3, <4>4 DEF CoffInv, SectionsMapped
    <3>8. RelocationsStored'
      <4>1. Count(i) = sections'[k].relocation_count
        <5>1. sections[k] \in ConvertedSection
          BY <2>2, <3>2
        <5>2. QED
          BY <3>3, <5>1 DEF ConvertedSection
      <4>2. \A s \in DOMAIN coff.sections :
              /\ Allocated(s)' = Allocated(s) /\ (NamesLeftOut(s)' <=> NamesLeftOut(s))
              /\ Count(s)' = Count(s)
        BY <2>1, <2>6, SameNumbers
      <4>3. ASSUME NEW s \in DOMAIN coff.sections, section_infos[s] # None, s < i'
            PROVE  /\ relocations'[s] = Allocated(s)
                   /\ sections'[section_infos[s]].relocation_count = Count(s)
        <5>1. CASE s = i
          BY <3>4, <4>1, <5>1
        <5>2. CASE s # i
          <6>1. s < i
            BY <2>1, <2>2, <4>3, <5>2
          <6>2. QED
            BY <2>1, <3>3, <3>4, <3>5, <4>3, <5>2, <6>1 DEF CoffInv, RelocationsStored
        <5>3. QED
          BY <5>1, <5>2
      <4>4. \A s \in DOMAIN coff.sections :
              relocations'[s] # << >> =>
                relocations'[s] = Allocated(s) /\ section_infos[s] # None /\ ~ NamesLeftOut(s)
        BY <2>8, <3>1, <3>4 DEF CoffInv, RelocationsStored
      <4>5. QED
        BY <2>1, <4>2, <4>3, <4>4 DEF RelocationsStored
    <3>9. QED
      BY <2>4, <2>5, <3>6, <3>7, <3>8 DEF CoffInv
  <2>9. QED
    BY <2>7, <2>8
<1>3. QED
  BY <1>1, <1>2

(* The file is written, or the process ends.                                *)
LEMMA WriteStep ==
  ASSUME CoffInv, Write
  PROVE  CoffInv'
<1>1. CASE End("crashed")
  BY <1>1, EndStep DEF Write
<1>2. CASE ~ End("crashed")
  <2>1. /\ pc = "write" /\ pc' = "converted" /\ i' = 1
        /\ written' = [k \in DOMAIN sections |-> Listed(k)]
        /\ UNCHANGED << coff, output_opens, target, sections, symbols, string_size, section_infos,
                        symbol_infos, relocations >>
    BY <1>2 DEF Write, Goto, given, object
  <2>2. TypeOK'
    <3>1. i' \in Nat /\ i' > 0 /\ pc' \in Terminal /\ DOMAIN written' = DOMAIN sections'
      BY <2>1 DEF Terminal
    <3>2. UNCHANGED << coff, output_opens, target, sections, symbols, string_size, section_infos,
                       symbol_infos, relocations >>
      BY <2>1
    <3>3. QED
      BY <3>1, <3>2 DEF CoffInv, TypeOK
  <2>3. SectionsMapped'
    BY <2>1, SameFile DEF CoffInv, SectionsMapped, Passed
  <2>4. SymbolsMapped'
    BY <2>1, SameFile
    DEF CoffInv, SymbolsMapped, AuxiliaryOnlyBehindLeftOut, BehindLeftOut, IsSymbolOf, Carried
  <2>5. RelocationsStored'
    BY <2>1, SameFile, SameNumbers DEF CoffInv, RelocationsStored
  <2>6. ListsWritten'
    BY <2>1 DEF ListsWritten, Listed
  <2>7. QED
    BY <2>2, <2>3, <2>4, <2>5, <2>6 DEF CoffInv
<1>3. QED
  BY <1>1, <1>2

LEMMA CoffStep ==
  ASSUME CoffInv, Next
  PROVE  CoffInv'
BY ReadStep, SectionStep, ProceedStep, SymbolStep, RelocationStep, WriteStep DEF Next

(* A conversion begins with a file and nothing else.                        *)
LEMMA CoffStarts ==
  ASSUME ConvertersInit
  PROVE  CoffInv
<1>1. coff \in COFF_File
  BY ViewsAssumption DEF ConvertersInit
<1>2. /\ output_opens \in BOOLEAN /\ pc = "read" /\ i = 1 /\ target = ""
      /\ sections = << >> /\ symbols = << >> /\ string_size = 0 /\ written = << >>
      /\ section_infos = [s \in DOMAIN coff.sections |-> None]
      /\ symbol_infos = [r \in DOMAIN coff.symbols |-> Skipped]
      /\ relocations = [s \in DOMAIN coff.sections |-> << >>]
  BY DEF ConvertersInit, Init
<1>3. sections \in Seq(ConvertedSection) /\ symbols \in Seq(ConvertedSymbol)
      /\ Len(sections) = 0 /\ Len(symbols) = 0 /\ \A k \in DOMAIN sections : FALSE
  <2>1. sections = << >> /\ symbols = << >>
    BY <1>2
  <2>2. QED
    BY <2>1
<1>4. /\ \A s \in DOMAIN coff.sections : section_infos[s] = None /\ relocations[s] = << >>
      /\ \A r \in DOMAIN coff.symbols : symbol_infos[r] = Skipped
  BY <1>2
<1>5. TypeOK
  <2>1. section_infos \in [DOMAIN coff.sections -> 0 .. Len(sections)]
    <3>1. section_infos = [s \in DOMAIN coff.sections |-> None]
      BY <1>2, Zenon
    <3>2. None \in 0 .. Len(sections)
      BY <1>3 DEF None
    <3>3. QED
      BY <3>1, <3>2
  <2>2. symbol_infos \in [DOMAIN coff.symbols -> {Skipped} \union 0 .. Len(symbols)]
    <3>1. symbol_infos = [r \in DOMAIN coff.symbols |-> Skipped]
      BY <1>2, Zenon
    <3>2. QED
      BY <3>1
  <2>3. i \in Nat /\ i > 0
    <3>1. i = 1
      BY <1>2, Zenon
    <3>2. QED
      BY <3>1
  <2>4. string_size \in Nat
    BY <1>2
  <2>5. DOMAIN relocations = DOMAIN coff.sections
    BY <1>2
  <2>6. target \in Targets \union {""}
    BY <1>2
  <2>7. QED
    BY <1>1, <1>2, <1>3, <2>1, <2>2, <2>3, <2>4, <2>5, <2>6 DEF TypeOK
<1>6. SectionsMapped
  <2>1. \A s \in DOMAIN coff.sections : ~ Passed(s)
    BY <1>2 DEF Passed
  <2>2. QED
    BY <1>2, <1>3, <1>4, <2>1 DEF SectionsMapped
<1>7. SymbolsMapped
  <2>1. pc = "read"
    BY <1>2
  <2>2. QED
    BY <1>3, <1>4, <2>1 DEF SymbolsMapped, AuxiliaryOnlyBehindLeftOut, Carried
<1>8. RelocationsStored
  <2>1. pc = "read"
    BY <1>2
  <2>2. QED
    BY <1>3, <1>4, <2>1 DEF RelocationsStored
<1>9. ListsWritten
  BY <1>2 DEF ListsWritten
<1>10. QED
  BY <1>5, <1>6, <1>7, <1>8, <1>9 DEF CoffInv

(* What the first converter has built stays when nothing touches it, and    *)
(* the second one does not.                                                 *)
LEMMA CoffStays ==
  ASSUME CoffInv,
         UNCHANGED << coff, output_opens, pc, i, target, sections, symbols, string_size,
                      section_infos, symbol_infos, relocations, written >>
  PROVE  CoffInv'
<1>1. TypeOK'
  BY DEF CoffInv, TypeOK
<1>2. SectionsMapped'
  BY SameFile DEF CoffInv, SectionsMapped, Passed
<1>3. SymbolsMapped'
  BY SameFile
  DEF CoffInv, SymbolsMapped, AuxiliaryOnlyBehindLeftOut, BehindLeftOut, IsSymbolOf, Carried
<1>4. RelocationsStored'
  BY SameFile, SameNumbers DEF CoffInv, RelocationsStored
<1>5. ListsWritten'
  BY DEF CoffInv, ListsWritten, Listed
<1>6. QED
  BY <1>1, <1>2, <1>3, <1>4, <1>5 DEF CoffInv

LEMMA CoffAside ==
  ASSUME CoffInv, ConvertFromElf
  PROVE  CoffInv'
<1>1. UNCHANGED << coff, output_opens, pc, i, target, sections, symbols, string_size,
                   section_infos, symbol_infos, relocations, written >>
  BY DEF ConvertFromElf, object, E!Next, E!Read, E!End, E!given, E!ConvertSection,
         E!SearchSection, E!FindSymbols, E!ConvertSymbol, E!AddSymbol, E!ConvertRelocations,
         E!Write
<1>2. QED
  BY <1>1, CoffStays

LEMMA CoffInvariant == ConvertersSpec => []CoffInv
<1>1. ConvertersInit => CoffInv
  BY CoffStarts
<1>2. CoffInv /\ [ConvertersNext]_<< vars, elf_vars >> => CoffInv'
  <2> SUFFICES ASSUME CoffInv, [ConvertersNext]_<< vars, elf_vars >>
               PROVE  CoffInv'
    OBVIOUS
  <2>1. CASE ConvertFromCoff
    BY <2>1, CoffStep DEF ConvertFromCoff
  <2>2. CASE ConvertFromElf
    BY <2>2, CoffAside
  <2>3. CASE UNCHANGED << vars, elf_vars >>
    <3>1. UNCHANGED << coff, output_opens, pc, i, target, sections, symbols, string_size,
                       section_infos, symbol_infos, relocations, written >>
      BY <2>3 DEF vars, given, object
    <3>2. QED
      BY <3>1, CoffStays
  <2>4. QED
    BY <2>1, <2>2, <2>3 DEF ConvertersNext
<1>3. QED
  BY <1>1, <1>2, PTL DEF ConvertersSpec

-------------------------------------------------------------------------------
(* As long as nothing is left out in front, a list is found by the number   *)
(* it is stored under.                                                      *)
LEMMA FrontKept ==
  ASSUME CoffInv
  PROVE  SectionsInFrontKeepRelocations
<1> SUFFICES ASSUME pc = "converted", NEW s \in DOMAIN coff.sections, \A t \in LeavesOut : t > s
             PROVE  written[section_infos[s]] = Renumbered(Kept(s))
  BY DEF SectionsInFrontKeepRelocations
<1>1. /\ coff \in COFF_File /\ s \in Nat /\ LeavesOut \subseteq Nat
      /\ section_infos \in [DOMAIN coff.sections -> 0 .. Len(sections)]
      /\ DOMAIN sections = 1 .. Len(sections) /\ Len(sections) \in Nat
  BY Types, FileFacts DEF LeavesOut
<1>2. section_infos[s] = s /\ section_infos[s] # None
  <2>1. ~ LeftOut(coff.sections[s])
    BY <1>1 DEF LeavesOut
  <2>2. section_infos[s] # None
    BY <2>1 DEF CoffInv, SectionsMapped, Passed
  <2>3. \A t \in LeavesOut : ~ (t < s)
    BY <1>1
  <2>4. QED
    BY <2>2, <2>3 DEF CoffInv, SectionsMapped
<1>3. /\ s \in DOMAIN sections /\ relocations[s] = Allocated(s)
      /\ sections[s].relocation_count = Count(s)
  <2>1. s \in DOMAIN sections
    BY <1>1, <1>2 DEF None
  <2>2. QED
    BY <1>2, <2>1 DEF CoffInv, RelocationsStored
<1>4. written[s] = Listed(s)
  BY <1>3 DEF CoffInv, ListsWritten
<1>5. /\ 1 .. Count(s) \subseteq DOMAIN coff.sections[s].relocations
      /\ DOMAIN Kept(s) = 1 .. Count(s)
  <2>1. Count(s) \in 0 .. Len(coff.sections[s].relocations)
        /\ DOMAIN coff.sections[s].relocations = 1 .. Len(coff.sections[s].relocations)
        /\ Len(coff.sections[s].relocations) \in Nat
    BY <1>1, CountFacts
  <2>2. QED
    BY <2>1 DEF Kept, Count
<1>6. \A r \in 1 .. Count(s) :
        r \in DOMAIN relocations[s] /\ relocations[s][r] = Renumbered(Kept(s))[r]
  BY <1>3, <1>5 DEF Allocated
<1>7. Listed(s) = [r \in 1 .. Count(s) |-> Renumbered(Kept(s))[r]]
  BY <1>3, <1>6 DEF Listed
<1>8. Renumbered(Kept(s)) = [r \in 1 .. Count(s) |-> Renumbered(Kept(s))[r]]
  BY <1>5 DEF Renumbered
<1>9. QED
  BY <1>2, <1>4, <1>7, <1>8

-------------------------------------------------------------------------------
(* A symbol that lies behind another lies behind its auxiliary records:     *)
(* the symbols of which that is true are a set that has all symbols.        *)
LEMMA SymbolsApart ==
  ASSUME coff \in COFF_File, NEW r \in DOMAIN coff.symbols, NEW q \in DOMAIN coff.symbols,
         IsSymbol(r), IsSymbol(q), r < q
  PROVE  Behind(r) <= q
<1> DEFINE records == DOMAIN coff.symbols
           all == {p \in records : IsSymbol(p)}
           apart == {p \in all : \A o \in all : o < p => Behind(o) <= p}
<1>1. /\ records \subseteq Nat \ {0}
      /\ \A p \in records : Behind(p) \in Nat /\ p < Behind(p)
  <2>1. records \subseteq Nat \ {0} /\ \A p \in records : coff.symbols[p] \in Symbol_Record
    BY FileFacts
  <2>2. \A p \in records : coff.symbols[p].NumberOfAuxSymbols \in Nat
    BY <2>1 DEF Symbol_Record
  <2>3. QED
    BY <2>1, <2>2 DEF Behind
<1>2. 1 \in records => 1 \in all
  BY SymbolsFollow
<1>3. \A p \in all : Behind(p) \in records => Behind(p) \in all
  BY SymbolsFollow
<1>4. \A set \in SUBSET records : HasAllSymbols(set) => all \subseteq set
  BY DEF IsSymbol
<1> HIDE DEF all
<1>5. ASSUME NEW p \in apart, Behind(p) \in records
      PROVE  Behind(p) \in apart
  <2> DEFINE outside == {o \in all : ~ (p < o /\ o < Behind(p))}
  <2>1. all \subseteq records
    BY DEF all
  <2>2. HasAllSymbols(outside)
    <3>1. 1 \in records => 1 \in outside
      BY <1>1, <1>2, <2>1
    <3>2. ASSUME NEW o \in outside, Behind(o) \in records
          PROVE  Behind(o) \in outside
      BY <1>1, <1>3, <2>1, <3>2
    <3>3. QED
      BY <3>1, <3>2 DEF HasAllSymbols
  <2>3. all \subseteq outside
    BY <1>4, <2>1, <2>2
  <2>4. \A o \in all : o < Behind(p) => Behind(o) <= Behind(p)
    BY <1>1, <2>1, <2>3
  <2>5. QED
    BY <1>3, <1>5, <2>4
<1>6. HasAllSymbols(apart)
  <2>1. 1 \in records => 1 \in apart
    <3>1. all \subseteq records
      BY DEF all
    <3>2. QED
      BY <1>1, <1>2, <3>1
  <2>2. QED
    BY <1>5, <2>1 DEF HasAllSymbols
<1>7. apart \subseteq records
  BY DEF all
<1>8. r \in all /\ q \in apart
  BY <1>4, <1>6, <1>7 DEF all
<1>9. QED
  BY <1>8

IsVisited(r) ==
  /\ symbol_infos[r] # Skipped
  /\ coff.symbols[r].SectionNumber >= 0 /\ ~ OfLeftOut(coff.symbols[r]) => symbol_infos[r] # None

IsAuxiliary(r) ==
  \E q \in DOMAIN coff.symbols :
    IsSymbol(q) /\ OfLeftOut(coff.symbols[q]) /\ q < r /\ r < Behind(q)

(* The second loop has ended, or has been through the record.               *)
Reached(r) ==
  \/ pc = "symbols" /\ r < i
  \/ pc \in {"relocations", "write"}
  \/ \E s \in DOMAIN relocations : relocations[s] # << >>

(* The second loop skips no symbol, if no auxiliary record makes it do so.  *)
NoneSkipped ==
  AuxiliariesAskForNone =>
    /\ \A r \in DOMAIN coff.symbols : pc = "symbols" /\ r = i => IsSymbol(r) \/ IsAuxiliary(r)
    /\ \A r \in DOMAIN coff.symbols : IsSymbol(r) /\ Reached(r) => IsVisited(r)

(* The loop over the symbols goes from one to the next, through the         *)
(* auxiliary records only of those that are left out.                       *)
LEMMA VisitedStep ==
  ASSUME CoffInv, NoneSkipped, ConvertSymbol, AuxiliariesAskForNone
  PROVE  /\ \A r \in DOMAIN coff.symbols : r = i' => IsSymbol(r) \/ IsAuxiliary(r)
         /\ \A r \in DOMAIN coff.symbols : IsSymbol(r) /\ r < i' => IsVisited(r)'
<1>1. /\ pc = "symbols" /\ i \in DOMAIN coff.symbols /\ coff' = coff
  BY DEF ConvertSymbol, PassOver, DropSymbol, LeaveOut, AddSymbol, AddSymbolOf, given, object
<1>2. /\ coff \in COFF_File /\ i \in Nat /\ DOMAIN coff.symbols \subseteq Nat
      /\ Record = coff.symbols[i] /\ Record \in Symbol_Record
      /\ Record.SectionNumber > 0 => Record.SectionNumber \in DOMAIN coff.sections
      /\ symbol_infos \in [DOMAIN coff.symbols -> {Skipped} \union 0 .. Len(symbols)]
      /\ Len(symbols) \in Nat
  BY <1>1, Types, FileFacts DEF Record
<1>3. Record.NumberOfAuxSymbols \in Nat /\ Record.SectionNumber \in Int
  BY <1>2 DEF Symbol_Record
<1>4. IsSymbol(i) \/ IsAuxiliary(i)
  BY <1>1 DEF NoneSkipped
<1>5. \A r \in DOMAIN coff.symbols : IsSymbol(r) /\ r < i => IsVisited(r)'
  <2>1. \A r \in DOMAIN coff.symbols : IsSymbol(r) /\ r < i => IsVisited(r)
    BY <1>1 DEF NoneSkipped, Reached
  <2>2. \A r \in DOMAIN coff.symbols : r < i => symbol_infos'[r] = symbol_infos[r]
    BY <1>1, <1>2
    DEF ConvertSymbol, PassOver, DropSymbol, LeaveOut, AddSymbol, AddSymbolOf, object
  <2>3. QED
    BY <1>1, <2>1, <2>2 DEF IsVisited, OfLeftOut
<1>6. ASSUME NEW r \in DOMAIN coff.symbols, r = i
      PROVE  IsVisited(r)'
  <2>1. CASE PassOver
    BY <1>1, <1>2, <1>3, <1>6, <2>1 DEF PassOver, LeaveOut, IsVisited, None, Skipped
  <2>2. CASE DropSymbol
    <3>1. LeftOut(coff.sections[Record.SectionNumber])
      BY <1>1, <1>2, <2>2 DEF DropSymbol, CoffInv, SectionsMapped, Passed, SectionOf
    <3>2. OfLeftOut(Record)
      BY <2>2, <3>1 DEF DropSymbol, OfLeftOut
    <3>3. QED
      BY <1>1, <1>2, <1>6, <2>2, <3>2 DEF DropSymbol, LeaveOut, IsVisited, OfLeftOut, None, Skipped
  <2>3. CASE AddSymbol
    BY <1>1, <1>2, <1>6, <2>3 DEF AddSymbol, AddSymbolOf, IsVisited, None, Skipped
  <2>4. QED
    BY <2>1, <2>2, <2>3 DEF ConvertSymbol
<1>7. Behind(i) = i + 1 + Record.NumberOfAuxSymbols /\ Behind(i) \in Nat
  BY <1>2, <1>3 DEF Behind
<1>8. i' = Behind(i) \/ (i' = i + 1 /\ DropSymbol)
  BY <1>7 DEF ConvertSymbol, PassOver, DropSymbol, LeaveOut, AddSymbol, AddSymbolOf
<1>9. CASE IsSymbol(i)
  <2>1. ASSUME NEW r \in DOMAIN coff.symbols, IsSymbol(r), r < i'
        PROVE  IsVisited(r)'
    <3>1. i < r => Behind(i) <= r
      BY <1>1, <1>2, <1>9, <2>1, SymbolsApart
    <3>2. r <= i
      BY <1>2, <1>3, <1>7, <1>8, <2>1, <3>1
    <3>3. QED
      BY <1>2, <1>5, <1>6, <2>1, <3>2
  <2>2. ASSUME NEW r \in DOMAIN coff.symbols, r = i'
        PROVE  IsSymbol(r) \/ IsAuxiliary(r)
    <3>1. CASE r = Behind(i)
      BY <1>1, <1>9, <3>1, SymbolsFollow
    <3>2. CASE r # Behind(i)
      <4>1. DropSymbol /\ r = i + 1 /\ i < r /\ r < Behind(i)
        BY <1>2, <1>3, <1>7, <1>8, <2>2, <3>2
      <4>2. LeftOut(coff.sections[Record.SectionNumber])
        BY <1>1, <1>2, <4>1 DEF DropSymbol, CoffInv, SectionsMapped, Passed, SectionOf
      <4>3. OfLeftOut(coff.symbols[i])
        BY <1>2, <4>1, <4>2 DEF DropSymbol, OfLeftOut
      <4>4. QED
        BY <1>1, <1>9, <4>1, <4>3 DEF IsAuxiliary
    <3>3. QED
      BY <3>1, <3>2
  <2>3. QED
    BY <2>1, <2>2
<1>10. CASE ~ IsSymbol(i)
  <2>1. PICK q \in DOMAIN coff.symbols :
          IsSymbol(q) /\ OfLeftOut(coff.symbols[q]) /\ q < i /\ i < Behind(q)
    BY <1>4, <1>10 DEF IsAuxiliary
  <2>2. Behind(q) \in Nat
    <3>1. coff.symbols[q] \in Symbol_Record
      BY <1>2, FileFacts
    <3>2. QED
      BY <1>2, <3>1 DEF Behind, Symbol_Record
  <2>3. Record.NumberOfAuxSymbols = 0
    <3>1. i \in (q + 1 .. Behind(q) - 1) \intersect DOMAIN coff.symbols
      BY <1>1, <1>2, <2>1, <2>2
    <3>2. QED
      BY <1>2, <2>1, <3>1 DEF AuxiliariesAskForNone
  <2>4. i' = i + 1
    BY <1>2, <1>7, <1>8, <2>3
  <2>5. ASSUME NEW r \in DOMAIN coff.symbols, IsSymbol(r), r < i'
        PROVE  IsVisited(r)'
    BY <1>2, <1>5, <1>6, <2>4, <2>5
  <2>6. ASSUME NEW r \in DOMAIN coff.symbols, r = i'
        PROVE  IsSymbol(r) \/ IsAuxiliary(r)
    <3>1. CASE r = Behind(q)
      BY <2>1, <3>1, SymbolsFollow
    <3>2. CASE r # Behind(q)
      <4>1. q < r /\ r < Behind(q)
        BY <1>2, <2>1, <2>2, <2>4, <2>6, <3>2
      <4>2. QED
        BY <2>1, <4>1 DEF IsAuxiliary
    <3>3. QED
      BY <3>1, <3>2
  <2>7. QED
    BY <2>5, <2>6
<1>11. QED
  BY <1>9, <1>10

(* What a file is like stays.                                               *)
LEMMA SameAuxiliaries ==
  ASSUME coff' = coff
  PROVE  /\ AuxiliariesAskForNone' <=> AuxiliariesAskForNone
         /\ \A r : IsAuxiliary(r)' <=> IsAuxiliary(r)
<1>1. \A r : IsAuxiliary(r)' <=> IsAuxiliary(r)
  BY SameFile DEF IsAuxiliary, OfLeftOut, Behind
<1>2. AuxiliariesAskForNone' <=> AuxiliariesAskForNone
  BY SameFile DEF AuxiliariesAskForNone, OfLeftOut, Behind
<1>3. QED
  BY <1>1, <1>2

LEMMA NoRelocationsYet ==
  ASSUME CoffInv, pc \in {"read", "sections", "symbols"}, NEW s \in DOMAIN relocations
  PROVE  relocations[s] = << >>
BY DEF CoffInv, TypeOK, RelocationsStored

LEMMA NoneSkippedStep ==
  ASSUME CoffInv, NoneSkipped, Next
  PROVE  NoneSkipped'
<1>1. coff' = coff
  BY DEF Next, Read, ConvertSection, Proceed, ConvertSymbol, PassOver, DropSymbol, LeaveOut,
         AddSymbol, AddSymbolOf, ConvertRelocations, Write, End, given
<1> SUFFICES ASSUME AuxiliariesAskForNone
             PROVE  /\ \A r \in DOMAIN coff.symbols :
                         pc' = "symbols" /\ r = i' => IsSymbol(r) \/ IsAuxiliary(r)
                    /\ \A r \in DOMAIN coff.symbols :
                         IsSymbol(r) /\ Reached(r)' => IsVisited(r)'
  BY <1>1, SameFile, SameAuxiliaries DEF NoneSkipped
<1>2. /\ coff \in COFF_File /\ i \in Nat /\ DOMAIN coff.symbols = 1 .. Len(coff.symbols)
      /\ Len(coff.symbols) \in Nat
  BY Types, FileFacts
<1>3. CASE Read \/ ConvertSection
  <2>1. pc \in {"read", "sections"} /\ relocations' = relocations
    BY <1>3 DEF Read, ConvertSection, End, object
  <2>2. pc' \notin {"symbols", "relocations", "write"}
    BY <1>3 DEF Read, ConvertSection, End, Goto
  <2>3. \A s \in DOMAIN relocations' : relocations'[s] = << >>
    BY <2>1, NoRelocationsYet
  <2>4. QED
    BY <2>2, <2>3 DEF Reached
<1>4. CASE Proceed("sections", Len(coff.sections), "symbols")
  <2>1. pc = "sections" /\ pc' = "symbols" /\ i' = 1 /\ relocations' = relocations
    BY <1>4 DEF Proceed, Goto, object
  <2>2. \A r \in DOMAIN coff.symbols : ~ (r < i')
    BY <1>2, <2>1
  <2>3. \A s \in DOMAIN relocations' : relocations'[s] = << >>
    BY <2>1, NoRelocationsYet
  <2>4. \A r \in DOMAIN coff.symbols : ~ Reached(r)'
    BY <2>1, <2>2, <2>3 DEF Reached
  <2>5. \A r \in DOMAIN coff.symbols : r = i' => IsSymbol(r)
    BY <2>1, SymbolsFollow
  <2>6. QED
    BY <2>4, <2>5
<1>5. CASE ConvertSymbol
  <2>1. pc = "symbols" /\ pc' = "symbols" /\ relocations' = relocations
    BY <1>5 DEF ConvertSymbol, PassOver, DropSymbol, LeaveOut, AddSymbol, AddSymbolOf
  <2>2. \A s \in DOMAIN relocations' : relocations'[s] = << >>
    BY <2>1, NoRelocationsYet
  <2>3. \A r \in DOMAIN coff.symbols : Reached(r)' => r < i'
    BY <2>1, <2>2 DEF Reached
  <2>4. QED
    BY <1>5, <2>3, VisitedStep
<1>6. ASSUME symbol_infos' = symbol_infos, pc' # "symbols",
             \A r \in DOMAIN coff.symbols : Reached(r)
      PROVE  /\ \A r \in DOMAIN coff.symbols :
                  pc' = "symbols" /\ r = i' => IsSymbol(r) \/ IsAuxiliary(r)
             /\ \A r \in DOMAIN coff.symbols :
                  IsSymbol(r) /\ Reached(r)' => IsVisited(r)'
  BY <1>1, <1>6 DEF NoneSkipped, IsVisited, OfLeftOut
<1>7. CASE Proceed("symbols", Len(coff.symbols), "relocations")
  <2>1. /\ pc = "symbols" /\ pc' = "relocations" /\ symbol_infos' = symbol_infos
        /\ \A r \in DOMAIN coff.symbols : r < i
    BY <1>2, <1>7 DEF Proceed, Goto, object
  <2>2. QED
    BY <1>6, <2>1 DEF Reached
<1>8. CASE ConvertRelocations \/ Proceed("relocations", Len(coff.sections), "write") \/ Write
  <2>1. pc \in {"relocations", "write"} /\ symbol_infos' = symbol_infos
    BY <1>8 DEF ConvertRelocations, Proceed, Write, End, object
  <2>2. pc' # "symbols"
    BY <1>8 DEF ConvertRelocations, Proceed, Write, End, Goto
  <2>3. QED
    BY <1>6, <2>1, <2>2 DEF Reached
<1>9. QED
  BY <1>3, <1>4, <1>5, <1>7, <1>8 DEF Next

LEMMA NoneSkippedInvariant == ConvertersSpec => []NoneSkipped
<1>1. ConvertersInit => NoneSkipped
  <2> SUFFICES ASSUME ConvertersInit
               PROVE  NoneSkipped
    OBVIOUS
  <2>1. pc = "read" /\ relocations = [s \in DOMAIN coff.sections |-> << >>]
    BY DEF ConvertersInit, Init
  <2>2. QED
    BY <2>1 DEF NoneSkipped, Reached
<1>2. CoffInv /\ NoneSkipped /\ [ConvertersNext]_<< vars, elf_vars >> => NoneSkipped'
  <2> SUFFICES ASSUME CoffInv, NoneSkipped, [ConvertersNext]_<< vars, elf_vars >>
               PROVE  NoneSkipped'
    OBVIOUS
  <2>1. ASSUME UNCHANGED << coff, pc, i, symbol_infos, relocations >>
        PROVE  NoneSkipped'
    BY <2>1, SameFile, SameAuxiliaries DEF NoneSkipped, Reached, IsVisited, OfLeftOut
  <2>2. CASE ConvertFromCoff
    BY <2>2, NoneSkippedStep DEF ConvertFromCoff
  <2>3. CASE ConvertFromElf
    BY <2>1, <2>3 DEF ConvertFromElf, object
  <2>4. CASE UNCHANGED << vars, elf_vars >>
    BY <2>1, <2>4 DEF vars, given, object
  <2>5. QED
    BY <2>2, <2>3, <2>4 DEF ConvertersNext
<1>3. QED
  BY <1>1, <1>2, CoffInvariant, PTL DEF ConvertersSpec

-------------------------------------------------------------------------------
(* A relocation in memory names what its record names.                      *)
LEMMA SymbolsKept ==
  ASSUME CoffInv, NoneSkipped
  PROVE  RelocationsKeepTheirSymbols
<1> SUFFICES ASSUME AuxiliariesAskForNone, NEW s \in DOMAIN relocations, NEW r \in KeptAt(s),
                    relocations[s] # << >>,
                    IsSymbol(coff.sections[s].relocations[r].SymbolTableIndex)
             PROVE  /\ relocations[s][PlaceOf(s, r)].symbol_index \in DOMAIN symbols
                    /\ IsSymbolOf(symbols[relocations[s][PlaceOf(s, r)].symbol_index],
                         coff.symbols[coff.sections[s].relocations[r].SymbolTableIndex])
                    /\ relocations[s][PlaceOf(s, r)].offset
                         = coff.sections[s].relocations[r].VirtualAddress
  BY DEF RelocationsKeepTheirSymbols, IsSymbolOf
<1> DEFINE relocation == coff.sections[s].relocations[r]
           index == relocation.SymbolTableIndex
           place == PlaceOf(s, r)
<1>1. /\ coff \in COFF_File /\ s \in DOMAIN coff.sections
      /\ symbol_infos \in [DOMAIN coff.symbols -> {Skipped} \union 0 .. Len(symbols)]
      /\ DOMAIN symbols = 1 .. Len(symbols) /\ Len(symbols) \in Nat
  BY Types
<1>2. r \in DOMAIN coff.sections[s].relocations /\ index \in DOMAIN coff.symbols
  BY <1>1, CountFacts, FileFacts
<1>3. relocations[s] = Allocated(s) /\ symbol_infos[index] \notin {None, Skipped}
  <2>1. relocations[s] = Allocated(s) /\ symbol_infos[index] # None
    BY <1>1, <1>2 DEF CoffInv, RelocationsStored, NamesLeftOut
  <2>2. IsVisited(index)
    BY <1>2 DEF NoneSkipped, Reached
  <2>3. QED
    BY <2>1, <2>2 DEF IsVisited
<1>4. /\ place \in DOMAIN Kept(s) /\ place \in DOMAIN coff.sections[s].relocations
      /\ Kept(s)[place] = relocation
  <2>1. place \in 1 .. Count(s) /\ Kept(s)[place] = relocation
    BY <1>1, KeptInPlace
  <2>2. Count(s) \in 0 .. Len(coff.sections[s].relocations)
        /\ DOMAIN coff.sections[s].relocations = 1 .. Len(coff.sections[s].relocations)
        /\ Len(coff.sections[s].relocations) \in Nat
    BY <1>1, CountFacts
  <2>3. DOMAIN Kept(s) = 1 .. Count(s)
    BY DEF Kept, Count
  <2>4. QED
    BY <2>1, <2>2, <2>3
<1>5. relocations[s][place] = [symbol_index |-> symbol_infos[index],
                               offset |-> relocation.VirtualAddress]
  BY <1>3, <1>4 DEF Allocated, Renumbered, SymbolIndex
<1>6. symbol_infos[index] \in DOMAIN symbols
  BY <1>1, <1>2, <1>3 DEF None
<1>7. IsSymbolOf(symbols[symbol_infos[index]], coff.symbols[index])
  BY <1>2, <1>3 DEF CoffInv, SymbolsMapped, Carried
<1>8. /\ relocations[s][place].symbol_index = symbol_infos[index]
      /\ relocations[s][place].offset = relocation.VirtualAddress
  BY <1>5
<1>9. QED
  BY <1>6, <1>7, <1>8, Zenon

(* Whatever sections and symbols of a COFF file are left out, the           *)
(* relocations that are carried over name the same symbols at the same      *)
(* places, the sections in front of all that is left out keep their own     *)
(* relocations, and a record is taken for a symbol that is none only behind *)
(* a symbol left out (format.c:397-441).                                    *)
THEOREM References == ConvertersSpec => []ReferencesSurvive
<1>1. CoffInv /\ NoneSkipped => ReferencesSurvive
  BY SymbolsKept, FrontKept DEF ReferencesSurvive, CoffInv, SymbolsMapped
<1>2. QED
  BY <1>1, CoffInvariant, NoneSkippedInvariant, PTL

-------------------------------------------------------------------------------
(* No relocation of an ordinary file names a symbol that was left out.      *)
LEMMA OrdinaryRelocation ==
  ASSUME CoffInv, NoneSkipped, Ordinary, pc = "relocations", NEW s \in DOMAIN coff.sections
  PROVE  ~ NamesLeftOut(s)
<1> SUFFICES ASSUME NEW r \in DOMAIN coff.sections[s].relocations
             PROVE  symbol_infos[coff.sections[s].relocations[r].SymbolTableIndex] # None
  BY DEF NamesLeftOut
<1> DEFINE index == coff.sections[s].relocations[r].SymbolTableIndex
<1>1. index \in DOMAIN coff.symbols
  BY Types, FileFacts
<1>2. /\ IsSymbol(index) /\ coff.symbols[index].SectionNumber >= 0
      /\ ~ OfLeftOut(coff.symbols[index])
  BY DEF Ordinary
<1>3. IsVisited(index)
  BY <1>1, <1>2 DEF NoneSkipped, Reached, Ordinary
<1>4. QED
  BY <1>2, <1>3 DEF IsVisited

(* Nothing in what is written of an ordinary file ends the process.         *)
LEMMA OrdinaryWrite ==
  ASSUME CoffInv, Ordinary, pc = "write", NEW k \in DOMAIN sections
  PROVE  /\ sections[k].alignment # 0 /\ ~ ReadsBeyond(sections[k], coff.size)
         /\ ~ (relocations[k] = << >> /\ sections[k].relocation_count > 0)
<1>1. PICK s \in DOMAIN coff.sections : section_infos[s] = k
  BY DEF CoffInv, SectionsMapped
<1>2. coff \in COFF_File /\ k # None /\ k \in Nat /\ DOMAIN coff.sections \subseteq Nat
  BY Types, FileFacts DEF None
<1>3. /\ ~ LeftOut(coff.sections[s]) /\ IsConverted(sections[k], coff.sections[s])
      /\ k = s \/ \E t \in LeavesOut : t < s
      /\ relocations[s] = Allocated(s) /\ sections[k].relocation_count = Count(s)
  BY <1>1, <1>2 DEF CoffInv, SectionsMapped, RelocationsStored
<1>4. s \notin LeavesOut
  BY <1>3 DEF LeavesOut
<1>5. sections[k].alignment # 0
  <2>1. coff.sections[s].align \in 1 .. 15
    <3>1. coff.sections[s] \in Section_Header
      BY <1>2, FileFacts
    <3>2. coff.sections[s].align \in 0 .. 15
      BY <3>1 DEF Section_Header
    <3>3. coff.sections[s].align > 0
      BY <1>4 DEF Ordinary
    <3>4. QED
      BY <3>2, <3>3
  <2>2. Alignment(coff.sections[s].align) > 0 /\ Alignment(coff.sections[s].align) \in Nat
    BY <2>1, AlignmentIsPositive
  <2>3. sections[k].alignment = Alignment(coff.sections[s].align)
    BY <1>3 DEF IsConverted, Converted
  <2>4. QED
    BY <2>2, <2>3
<1>6. ~ ReadsBeyond(sections[k], coff.size)
  <2>1. ~ ReadsBeyond(Converted(coff.sections[s]), coff.size)
    BY <1>4 DEF Ordinary
  <2>2. /\ sections[k].data_offset = Converted(coff.sections[s]).data_offset
        /\ sections[k].data_size = Converted(coff.sections[s]).data_size
    BY <1>3 DEF IsConverted, Converted
  <2>3. QED
    BY <2>1, <2>2 DEF ReadsBeyond
<1>7. /\ Len(coff.sections[s].relocations) \in Nat
      /\ DOMAIN coff.sections[s].relocations = 1 .. Len(coff.sections[s].relocations)
      /\ Count(s) \in 0 .. Len(coff.sections[s].relocations)
  BY <1>2, CountFacts
<1>8. coff.sections[s].relocations = << >> => Count(s) = 0
  BY <1>7
<1>9. CASE k = s
  <2>1. relocations[k] = << >> => DOMAIN coff.sections[s].relocations = {}
    <3>1. DOMAIN Allocated(s) = DOMAIN coff.sections[s].relocations
      BY DEF Allocated
    <3>2. QED
      BY <1>3, <1>9, <3>1
  <2>2. relocations[k] = << >> => Count(s) = 0
    BY <1>7, <2>1
  <2>3. QED
    BY <1>3, <1>5, <1>6, <2>2
<1>10. CASE k # s
  <2>1. coff.sections[s].relocations = << >>
    BY <1>2, <1>3, <1>10 DEF Ordinary, LeavesOut
  <2>2. QED
    BY <1>3, <1>5, <1>6, <1>8, <2>1
<1>11. QED
  BY <1>9, <1>10

LEMMA SameKind ==
  ASSUME coff' = coff, output_opens' = output_opens
  PROVE  (IsCoff /\ coff.reads = "whole" /\ output_opens /\ Ordinary)'
           <=> (IsCoff /\ coff.reads = "whole" /\ output_opens /\ Ordinary)
<1>1. Ordinary' <=> Ordinary
  BY SameFile, SameAuxiliaries DEF Ordinary, OfLeftOut
<1>2. IsCoff' <=> IsCoff
  BY DEF IsCoff
<1>3. QED
  BY <1>1, <1>2

(* An ordinary file is neither refused nor the end of the process.          *)
LEMMA OrdinaryStep ==
  ASSUME CoffInv, NoneSkipped, OrdinaryFilesConvert, Next
  PROVE  OrdinaryFilesConvert'
<1>1. coff' = coff /\ output_opens' = output_opens
  BY DEF Next, Read, ConvertSection, Proceed, ConvertSymbol, PassOver, DropSymbol, LeaveOut,
         AddSymbol, AddSymbolOf, ConvertRelocations, Write, End, given
<1> SUFFICES ASSUME IsCoff, coff.reads = "whole", output_opens, Ordinary
             PROVE  pc' \notin {"refused", "crashed"}
  BY <1>1, SameKind DEF OrdinaryFilesConvert
<1>2. CASE Read
  <2>1. coff.reads # "missing"
    OBVIOUS
  <2>2. pc' = "sections"
    BY <1>2, <2>1 DEF Read, Goto
  <2>3. QED
    BY <2>2
<1>3. CASE ConvertSection \/ ConvertSymbol
  BY <1>3 DEF ConvertSection, ConvertSymbol, PassOver, DropSymbol, LeaveOut, AddSymbol, AddSymbolOf
<1>4. CASE \/ Proceed("sections", Len(coff.sections), "symbols")
           \/ Proceed("symbols", Len(coff.symbols), "relocations")
           \/ Proceed("relocations", Len(coff.sections), "write")
  BY <1>4 DEF Proceed, Goto
<1>5. CASE ConvertRelocations
  <2>1. pc = "relocations" /\ pc' = "relocations"
    BY <1>5, OrdinaryRelocation DEF ConvertRelocations
  <2>2. QED
    BY <2>1
<1>6. CASE Write
  <2>1. pc = "write"
    BY <1>6 DEF Write
  <2>2. ~ WriteFaults /\ \A k \in DOMAIN sections : ~ ReadsBeyond(sections[k], coff.size)
    BY <2>1, OrdinaryWrite DEF WriteFaults
  <2>3. pc' = "converted"
    BY <1>6, <2>2 DEF Write, Goto
  <2>4. QED
    BY <2>3
<1>7. QED
  BY <1>2, <1>3, <1>4, <1>5, <1>6 DEF Next

LEMMA OrdinaryConverts == ConvertersSpec => []OrdinaryFilesConvert
<1>1. ConvertersInit => OrdinaryFilesConvert
  BY DEF ConvertersInit, Init, OrdinaryFilesConvert
<1>2. CoffInv /\ NoneSkipped /\ OrdinaryFilesConvert /\ [ConvertersNext]_<< vars, elf_vars >>
        => OrdinaryFilesConvert'
  <2> SUFFICES ASSUME CoffInv, NoneSkipped, OrdinaryFilesConvert,
                      [ConvertersNext]_<< vars, elf_vars >>
               PROVE  OrdinaryFilesConvert'
    OBVIOUS
  <2>1. ASSUME UNCHANGED << coff, output_opens, pc >>
        PROVE  OrdinaryFilesConvert'
    BY <2>1, SameKind DEF OrdinaryFilesConvert
  <2>2. CASE ConvertFromCoff
    BY <2>2, OrdinaryStep DEF ConvertFromCoff
  <2>3. CASE ConvertFromElf
    BY <2>1, <2>3 DEF ConvertFromElf, E!Next, E!Read, E!End, E!given, E!ConvertSection,
           E!SearchSection, E!FindSymbols, E!ConvertSymbol, E!AddSymbol,
           E!ConvertRelocations, E!Write
  <2>4. CASE UNCHANGED << vars, elf_vars >>
    BY <2>1, <2>4 DEF vars, given
  <2>5. QED
    BY <2>2, <2>3, <2>4 DEF ConvertersNext
<1>3. QED
  BY <1>1, <1>2, CoffInvariant, NoneSkippedInvariant, PTL DEF ConvertersSpec

-------------------------------------------------------------------------------
(* The second converter: what is said of the first in SectionsMapped, but   *)
(* for the order, and of each symbol its section.                           *)
AllConverted ==
  \A s \in DOMAIN elf.sections : ~ E!LeftOut(elf.sections[s]) => elf_section_infos[s] # None

ElfSections ==
  /\ elf_pc = "read" =>
       elf_sections = << >> /\ \A s \in DOMAIN elf.sections : elf_section_infos[s] = None
  /\ \A s \in DOMAIN elf.sections :
       elf_section_infos[s] # None =>
         /\ ~ E!LeftOut(elf.sections[s])
         /\ elf_pc = "sections" => s < elf_i
         /\ elf_sections[elf_section_infos[s]] = E!Converted(elf.sections[s])
  /\ \A s \in DOMAIN elf.sections :
       elf_pc = "sections" /\ s < elf_i /\ ~ E!LeftOut(elf.sections[s]) =>
         elf_section_infos[s] # None
  /\ \A s, t \in DOMAIN elf.sections :
       elf_section_infos[s] # None /\ elf_section_infos[s] = elf_section_infos[t] => s = t
  /\ \A k \in DOMAIN elf_sections : \E s \in DOMAIN elf.sections : elf_section_infos[s] = k

ElfSymbol ==
  [ type : {"global", "local"}, name : Nat, offset : Nat, section_index : Nat ]

ElfSymbols ==
  /\ elf_symbols \in Seq(ElfSymbol) /\ Len(elf_symbols) <= Len(elf.symbols)
  /\ elf_pc \in {"read", "sections"} => elf_symbols = << >>
  /\ elf_pc = "symbols" => Len(elf_symbols) = elf_i - 1
  /\ elf_pc \in {"symbols", "write", "converted"} \/ elf_symbols # << >> => AllConverted
  /\ \A r \in DOMAIN elf_symbols :
       elf.symbols[r].st_shndx \notin E!Reserved =>
         elf_symbols[r].section_index = elf_section_infos[elf.symbols[r].st_shndx]

ElfInv == E!TypeOK /\ ElfSections /\ ElfSymbols

(* An alignment has 16 bits; none of a file that can be converted is 0.     *)
LEMMA ElfAlignment ==
  ASSUME NEW header \in E!Elf64_Shdr
  PROVE  /\ E!Alignment(header) \in Nat
         /\ header.sh_addralign \in 1 .. 2 ^ 15 => E!Alignment(header) > 0
<1>1. header.sh_addralign \in Nat
  BY DEF E!Elf64_Shdr
<1>2. \A n \in Nat : n % 2 ^ 16 \in Nat
  OBVIOUS
<1>3. \A n \in 1 .. 2 ^ 15 : n % 2 ^ 16 > 0
  OBVIOUS
<1>4. QED
  BY <1>1, <1>2, <1>3 DEF E!Alignment

LEMMA ElfSectionIsSection ==
  ASSUME NEW header \in E!Elf64_Shdr
  PROVE  E!Converted(header) \in E!ConvertedSection
<1>1. E!Flags(header) \subseteq E!SectionFlag
  BY DEF E!Flags, E!SectionFlag
<1>2. E!Alignment(header) \in Nat
  BY ElfAlignment
<1>3. header.sh_size \in Nat /\ header.sh_offset \in Nat
  BY DEF E!Elf64_Shdr
<1>4. QED
  BY <1>1, <1>2, <1>3 DEF E!Converted, E!ConvertedSection

(* What the model says of a given file, and of the variables.               *)
LEMMA ElfFacts ==
  ASSUME elf \in E!ELF_File
  PROVE  /\ elf.sections \in Seq(E!Elf64_Shdr) /\ elf.symbols \in Seq(E!Elf64_Sym)
         /\ Len(elf.sections) \in Nat /\ DOMAIN elf.sections = 1 .. Len(elf.sections)
         /\ Len(elf.symbols) \in Nat /\ DOMAIN elf.symbols = 1 .. Len(elf.symbols)
         /\ \A s \in DOMAIN elf.sections : elf.sections[s] \in E!Elf64_Shdr
         /\ \A r \in DOMAIN elf.symbols :
              /\ elf.symbols[r] \in E!Elf64_Sym
              /\ elf.symbols[r].st_shndx \in DOMAIN elf.sections \union E!Reserved
<1>1. elf.sections \in Seq(E!Elf64_Shdr) /\ elf.symbols \in Seq(E!Elf64_Sym)
  BY DEF E!ELF_File
<1>2. \A r \in DOMAIN elf.symbols :
        elf.symbols[r].st_shndx \in DOMAIN elf.sections \union E!Reserved
  BY DEF E!ELF_File
<1>3. QED
  BY <1>1, <1>2

LEMMA ElfTypes ==
  ASSUME ElfInv
  PROVE  /\ elf \in E!ELF_File /\ elf_i \in Nat /\ elf_i > 0 /\ elf_string_size \in Nat
         /\ estimated \in Nat
         /\ elf_sections \in Seq(E!ConvertedSection) /\ Len(elf_sections) \in Nat
         /\ DOMAIN elf_sections = 1 .. Len(elf_sections)
         /\ elf_symbols \in Seq(ElfSymbol) /\ Len(elf_symbols) \in Nat
         /\ DOMAIN elf_symbols = 1 .. Len(elf_symbols)
         /\ elf_section_infos \in [DOMAIN elf.sections -> 0 .. Len(elf_sections)]
<1>1. elf_sections \in Seq(E!ConvertedSection) /\ elf_symbols \in Seq(ElfSymbol)
  BY DEF ElfInv, E!TypeOK, ElfSymbols
<1>2. elf \in E!ELF_File /\ elf_i \in Nat /\ elf_i > 0 /\ elf_string_size \in Nat
      /\ estimated \in Nat
      /\ elf_section_infos \in [DOMAIN elf.sections -> 0 .. Len(elf_sections)]
  BY DEF ElfInv, E!TypeOK
<1>3. QED
  BY <1>1, <1>2

-------------------------------------------------------------------------------
(* The function, or the process, may end anywhere.                          *)
LEMMA ElfEndStep ==
  ASSUME ElfInv, NEW how \in Terminal, E!End(how), how = "converted" => elf_pc = "write"
  PROVE  ElfInv'
<1>1. /\ elf_pc' = how /\ elf_i' = 1
      /\ UNCHANGED << elf, output_opens, elf_target, elf_sections, elf_symbols, elf_string_size,
                      elf_section_infos, estimated >>
  BY DEF E!End, E!Goto, E!given, E!object
<1>2. how \in {"converted", "refused", "crashed"}
  BY DEF Terminal
<1>3. E!TypeOK'
  <2>1. elf_i' \in Nat /\ elf_i' > 0 /\ elf_pc' \in E!Terminal
    BY <1>1, <1>2 DEF E!Terminal
  <2>2. UNCHANGED << elf, output_opens, elf_target, elf_sections, elf_symbols, elf_string_size,
                     elf_section_infos, estimated >>
    BY <1>1
  <2>3. QED
    BY <2>1, <2>2 DEF ElfInv, E!TypeOK
<1>4. ElfSections'
  BY <1>1, <1>2 DEF ElfInv, ElfSections
<1>5. ElfSymbols'
  BY <1>1, <1>2 DEF ElfInv, ElfSymbols, AllConverted
<1>6. QED
  BY <1>3, <1>4, <1>5 DEF ElfInv

(* Reading the file.                                                        *)
LEMMA ElfReadStep ==
  ASSUME ElfInv, E!Read
  PROVE  ElfInv'
<1>1. CASE E!End("crashed") \/ E!End("refused")
  BY <1>1, ElfEndStep DEF Terminal
<1>2. CASE ~ (E!End("crashed") \/ E!End("refused"))
  <2>1. /\ elf_pc = "read" /\ elf_pc' = "sections" /\ elf_i' = 1
        /\ UNCHANGED << elf, output_opens, elf_sections, elf_symbols, elf_string_size,
                        elf_section_infos, estimated >>
    BY <1>2 DEF E!Read, E!Goto, E!given
  <2>2. elf_target' \in E!Targets \union {"unknown"}
    BY <1>2 DEF E!Read, E!Targets
  <2>3. /\ elf_i' \in Nat /\ elf_i' > 0
        /\ \A s \in DOMAIN elf.sections : ~ (s < elf_i') /\ elf_section_infos[s] = None
    <3>1. DOMAIN elf.sections \subseteq Nat \ {0}
      BY ElfTypes, ElfFacts
    <3>2. \A s \in DOMAIN elf.sections : elf_section_infos[s] = None
      BY <2>1 DEF ElfInv, ElfSections
    <3>3. QED
      BY <2>1, <3>1, <3>2
  <2>4. UNCHANGED << elf, output_opens, elf_sections, elf_symbols, elf_string_size,
                     elf_section_infos, estimated >>
    BY <2>1
  <2>5. E!TypeOK'
    BY <2>1, <2>2, <2>3, <2>4 DEF ElfInv, E!TypeOK
  <2>6. ElfSections'
    BY <2>1, <2>3, <2>4 DEF ElfInv, ElfSections
  <2>7. ElfSymbols'
    <3>1. elf_pc' = "sections" /\ elf_symbols = << >>
      BY <2>1 DEF ElfInv, ElfSymbols
    <3>2. QED
      BY <2>4, <3>1 DEF ElfInv, ElfSymbols
  <2>8. QED
    BY <2>5, <2>6, <2>7 DEF ElfInv
<1>3. QED
  BY <1>1, <1>2

(* A section is converted, left out, or the end.                            *)
LEMMA ElfSectionStep ==
  ASSUME ElfInv, E!ConvertSection
  PROVE  ElfInv'
<1> DEFINE header == elf.sections[elf_i]
<1>1. CASE E!SearchSection
  BY <1>1, ElfEndStep DEF E!SearchSection, Terminal
<1>2. CASE ~ E!SearchSection
  <2>1. /\ elf_pc = "sections" /\ elf_pc' = "sections" /\ elf_i \in DOMAIN elf.sections
        /\ elf_i' = elf_i + 1 /\ estimated' = estimated + E!Strings(header)
        /\ UNCHANGED << elf, output_opens, elf_target, elf_symbols, elf_string_size >>
    BY <1>2 DEF E!ConvertSection, E!given
  <2>2. /\ elf_i \in Nat /\ elf_i > 0 /\ DOMAIN elf.sections \subseteq Nat
        /\ estimated \in Nat /\ header \in E!Elf64_Shdr
        /\ elf_sections \in Seq(E!ConvertedSection) /\ Len(elf_sections) \in Nat
        /\ DOMAIN elf_sections = 1 .. Len(elf_sections)
        /\ elf_section_infos \in [DOMAIN elf.sections -> 0 .. Len(elf_sections)]
    <3>1. elf \in E!ELF_File
      BY ElfTypes
    <3>2. header \in E!Elf64_Shdr
      BY <2>1, <3>1, ElfFacts
    <3>3. DOMAIN elf.sections \subseteq Nat
      BY <3>1, ElfFacts
    <3>4. QED
      BY <3>2, <3>3, ElfTypes
  <2>3. elf_i' \in Nat /\ elf_i' > 0 /\ estimated' \in Nat
    <3>1. header.sh_size \in Nat
      BY <2>2 DEF E!Elf64_Shdr
    <3>2. QED
      BY <2>1, <2>2, <3>1 DEF E!Strings
  <2>4. ElfSymbols'
    <3>1. elf_symbols = << >> /\ \A r \in DOMAIN elf_symbols : FALSE
      <4>1. elf_symbols = << >>
        BY <2>1 DEF ElfInv, ElfSymbols
      <4>2. QED
        BY <4>1
    <3>2. QED
      BY <2>1, <3>1 DEF ElfInv, ElfSymbols
  <2>5. CASE E!LeftOut(header)
    <3>1. UNCHANGED << elf_sections, elf_section_infos >>
      BY <1>2, <2>5 DEF E!ConvertSection
    <3>2. E!TypeOK'
      BY <2>1, <2>3, <3>1 DEF ElfInv, E!TypeOK
    <3>3. ElfSections'
      BY <2>1, <2>2, <2>5, <3>1 DEF ElfInv, ElfSections
    <3>4. QED
      BY <2>4, <3>2, <3>3 DEF ElfInv
  <2>6. CASE ~ E!LeftOut(header)
    <3>1. /\ elf_sections' = Append(elf_sections, E!Converted(header))
          /\ elf_section_infos' = [elf_section_infos EXCEPT ![elf_i] = Len(elf_sections) + 1]
      BY <1>2, <2>6 DEF E!ConvertSection, E!MapSection
    <3>2. /\ elf_sections' \in Seq(E!ConvertedSection)
          /\ Len(elf_sections') = Len(elf_sections) + 1
          /\ DOMAIN elf_sections' = 1 .. Len(elf_sections) + 1
          /\ \A k \in DOMAIN elf_sections : elf_sections'[k] = elf_sections[k]
          /\ elf_sections'[Len(elf_sections) + 1] = E!Converted(header)
      BY <2>2, <3>1, ElfSectionIsSection
    <3>3. /\ elf_section_infos' \in [DOMAIN elf.sections -> 0 .. Len(elf_sections) + 1]
          /\ elf_section_infos'[elf_i] = Len(elf_sections) + 1
          /\ \A s \in DOMAIN elf.sections \ {elf_i} :
               elf_section_infos'[s] = elf_section_infos[s]
      BY <2>1, <2>2, <3>1
    <3>4. E!TypeOK'
      <4>1. elf_section_infos' \in [DOMAIN elf'.sections -> 0 .. Len(elf_sections')]
        BY <2>1, <3>2, <3>3
      <4>2. elf_sections' \in Seq(E!ConvertedSection)
        BY <3>2
      <4>3. elf_pc' = elf_pc /\ UNCHANGED << elf, output_opens, elf_target, elf_string_size >>
        BY <2>1
      <4>4. \A r \in DOMAIN elf_symbols' : FALSE
        <5>1. elf_symbols' = << >>
          BY <2>1 DEF ElfInv, ElfSymbols
        <5>2. QED
          BY <5>1
      <4>5. QED
        BY <2>3, <4>1, <4>2, <4>3, <4>4 DEF ElfInv, E!TypeOK
    <3>5. ElfSections'
      <4>1. elf_section_infos[elf_i] = None
        BY <2>1, <2>2 DEF ElfInv, ElfSections
      <4>2. ASSUME NEW s \in DOMAIN elf.sections, elf_section_infos'[s] # None
            PROVE  /\ ~ E!LeftOut(elf.sections[s]) /\ s < elf_i'
                   /\ elf_sections'[elf_section_infos'[s]] = E!Converted(elf.sections[s])
        <5>1. CASE s = elf_i
          BY <2>1, <2>2, <2>6, <3>2, <3>3, <5>1
        <5>2. CASE s # elf_i
          <6>1. elf_section_infos[s] # None /\ elf_section_infos'[s] = elf_section_infos[s]
            BY <3>3, <4>2, <5>2
          <6>2. elf_section_infos[s] \in DOMAIN elf_sections
            BY <2>2, <6>1 DEF None
          <6>3. QED
            BY <2>1, <2>2, <3>2, <6>1, <6>2 DEF ElfInv, ElfSections
        <5>3. QED
          BY <5>1, <5>2
      <4>3. ASSUME NEW s \in DOMAIN elf.sections, s < elf_i', ~ E!LeftOut(elf.sections[s])
            PROVE  elf_section_infos'[s] # None
        <5>1. CASE s = elf_i
          BY <2>2, <3>3, <5>1 DEF None
        <5>2. CASE s # elf_i
          <6>1. s < elf_i
            BY <2>1, <2>2, <4>3, <5>2
          <6>2. elf_section_infos[s] # None
            BY <2>1, <4>3, <6>1 DEF ElfInv, ElfSections
          <6>3. QED
            BY <3>3, <5>2, <6>2
        <5>3. QED
          BY <5>1, <5>2
      <4>4. ASSUME NEW s \in DOMAIN elf.sections, NEW t \in DOMAIN elf.sections,
                   elf_section_infos'[s] # None, elf_section_infos'[s] = elf_section_infos'[t]
            PROVE  s = t
        <5>1. \A u \in DOMAIN elf.sections \ {elf_i} :
                elf_section_infos'[u] # Len(elf_sections) + 1
          BY <2>2, <3>3
        <5>2. QED
          BY <2>1, <3>3, <4>4, <5>1 DEF ElfInv, ElfSections
      <4>5. ASSUME NEW k \in DOMAIN elf_sections'
            PROVE  \E s \in DOMAIN elf.sections : elf_section_infos'[s] = k
        <5>1. CASE k = Len(elf_sections) + 1
          BY <2>1, <3>3, <5>1
        <5>2. CASE k \in DOMAIN elf_sections
          <6>1. PICK s \in DOMAIN elf.sections : elf_section_infos[s] = k
            BY <5>2 DEF ElfInv, ElfSections
          <6>2. s # elf_i
            BY <2>2, <4>1, <5>2, <6>1 DEF None
          <6>3. QED
            BY <3>3, <6>1, <6>2
        <5>3. QED
          BY <2>2, <3>2, <5>1, <5>2
      <4>6. QED
        BY <2>1, <4>2, <4>3, <4>4, <4>5 DEF ElfSections
    <3>6. QED
      BY <2>4, <3>4, <3>5 DEF ElfInv
  <2>7. QED
    BY <2>5, <2>6
<1>3. QED
  BY <1>1, <1>2

(* The loop over the symbols begins, if there are any, and ends.            *)
LEMMA ElfProceedStep ==
  ASSUME ElfInv, E!FindSymbols \/ E!ConvertRelocations
  PROVE  ElfInv'
<1>1. CASE E!End("crashed") /\ E!FindSymbols
  BY <1>1, ElfEndStep DEF Terminal
<1>2. CASE ~ (E!End("crashed") /\ E!FindSymbols)
  <2>1. /\ elf_i' = 1
        /\ \/ elf_pc = "sections" /\ elf_pc' = "symbols" /\ elf_i > Len(elf.sections)
           \/ elf_pc = "symbols" /\ elf_pc' = "write"
        /\ UNCHANGED << elf, output_opens, elf_target, elf_sections, elf_symbols,
                        elf_string_size, elf_section_infos, estimated >>
    BY <1>2 DEF E!FindSymbols, E!ConvertRelocations, E!Goto, E!given, E!object
  <2>2. elf_i \in Nat /\ Len(elf.sections) \in Nat
        /\ DOMAIN elf.sections = 1 .. Len(elf.sections)
    BY ElfTypes, ElfFacts
  <2>3. UNCHANGED << elf, output_opens, elf_target, elf_sections, elf_symbols, elf_string_size,
                     elf_section_infos, estimated >>
    BY <2>1
  <2>4. elf_pc' \in {"symbols", "write"}
    BY <2>1
  <2>5. E!TypeOK'
    <3>1. elf_i' \in Nat /\ elf_i' > 0
      BY <2>1
    <3>2. QED
      BY <2>3, <2>4, <3>1 DEF ElfInv, E!TypeOK
  <2>6. ElfSections'
    BY <2>3, <2>4 DEF ElfInv, ElfSections
  <2>7. AllConverted
    <3>1. CASE elf_pc = "sections"
      BY <2>1, <2>2, <3>1 DEF ElfInv, ElfSections, AllConverted
    <3>2. CASE elf_pc = "symbols"
      BY <3>2 DEF ElfInv, ElfSymbols
    <3>3. QED
      BY <2>1, <3>1, <3>2
  <2>8. elf_pc' = "symbols" => Len(elf_symbols) = elf_i' - 1
    <3>1. elf_pc = "sections" => Len(elf_symbols) = 0
      <4>1. elf_pc = "sections" => elf_symbols = << >>
        BY DEF ElfInv, ElfSymbols
      <4>2. QED
        BY <4>1
    <3>2. QED
      BY <2>1, <3>1
  <2>9. ElfSymbols'
    BY <2>3, <2>4, <2>7, <2>8 DEF ElfInv, ElfSymbols, AllConverted
  <2>10. QED
    BY <2>5, <2>6, <2>9 DEF ElfInv
<1>3. QED
  BY <1>1, <1>2

(* A symbol is added, with the number of its section.                       *)
LEMMA ElfSymbolStep ==
  ASSUME ElfInv, E!ConvertSymbol
  PROVE  ElfInv'
<1> DEFINE symbol == elf.symbols[elf_i]
<1>1. CASE E!End("crashed")
  BY <1>1, ElfEndStep DEF Terminal
<1>2. CASE ~ E!End("crashed")
  <2>1. PICK index :
          /\ E!AddSymbol(index)
          /\ \/ symbol.st_shndx \notin E!Reserved /\ index = elf_section_infos[symbol.st_shndx]
             \/ symbol.st_shndx \in E!Reserved /\ index \in Stray
    BY <1>2 DEF E!ConvertSymbol, E!Symbol
  <2> DEFINE new ==
        [ type |-> E!Type(symbol), name |-> symbol.st_name, offset |-> symbol.st_value,
          section_index |-> index ]
  <2>2. /\ elf_pc = "symbols" /\ elf_pc' = "symbols" /\ elf_i \in DOMAIN elf.symbols
        /\ elf_i' = elf_i + 1 /\ elf_symbols' = Append(elf_symbols, new)
        /\ elf_string_size' = elf_string_size + symbol.length
        /\ UNCHANGED << elf, output_opens, elf_target, elf_sections, elf_section_infos,
                        estimated >>
    BY <2>1 DEF E!ConvertSymbol, E!AddSymbol, E!Symbol, E!StringSize, E!given
  <2>3. /\ elf_i \in Nat /\ elf_i > 0 /\ elf_string_size \in Nat /\ symbol \in E!Elf64_Sym
        /\ Len(elf.symbols) \in Nat /\ DOMAIN elf.symbols = 1 .. Len(elf.symbols)
        /\ symbol.st_shndx \in DOMAIN elf.sections \union E!Reserved
        /\ elf_symbols \in Seq(ElfSymbol) /\ Len(elf_symbols) \in Nat
        /\ DOMAIN elf_symbols = 1 .. Len(elf_symbols)
        /\ elf_section_infos \in [DOMAIN elf.sections -> 0 .. Len(elf_sections)]
        /\ Len(elf_sections) \in Nat
    BY <2>2, ElfTypes, ElfFacts
  <2>4. symbol.st_name \in Nat /\ symbol.st_value \in Nat /\ symbol.length \in Nat
    <3>1. symbol \in E!Elf64_Sym
      BY <2>3
    <3>2. QED
      BY <3>1 DEF E!Elf64_Sym
  <2>5. index \in 0 .. Len(elf_sections) \union Stray /\ index \in Nat
    <3>1. Stray \subseteq Nat
      BY StrayAssumption DEF E!StrayAssumption
    <3>2. CASE symbol.st_shndx \notin E!Reserved
      <4>1. index = elf_section_infos[symbol.st_shndx] /\ symbol.st_shndx \in DOMAIN elf.sections
        BY <2>1, <2>3, <3>2
      <4>2. index \in 0 .. Len(elf_sections)
        BY <2>3, <4>1
      <4>3. QED
        BY <2>3, <4>2
    <3>3. CASE symbol.st_shndx \in E!Reserved
      BY <2>1, <3>1, <3>3
    <3>4. QED
      BY <3>2, <3>3
  <2>6. new \in ElfSymbol
    BY <2>4, <2>5 DEF ElfSymbol, E!Type
  <2> HIDE DEF new
  <2>7. /\ elf_symbols' \in Seq(ElfSymbol) /\ Len(elf_symbols') = Len(elf_symbols) + 1
        /\ DOMAIN elf_symbols' = 1 .. Len(elf_symbols) + 1
        /\ \A r \in DOMAIN elf_symbols : elf_symbols'[r] = elf_symbols[r]
        /\ elf_symbols'[Len(elf_symbols) + 1] = new
    BY <2>2, <2>3, <2>6
  <2>8. new.section_index = index
    BY DEF new
  <2>9. UNCHANGED << elf, output_opens, elf_target, elf_sections, elf_section_infos, estimated >>
        /\ elf_pc' = elf_pc
    BY <2>2
  <2>10. elf_i' \in Nat /\ elf_i' > 0 /\ elf_string_size' \in Nat
    <3>1. elf_i \in Nat /\ elf_i > 0 /\ elf_string_size \in Nat
      BY <2>3
    <3>2. elf_i' = elf_i + 1 /\ elf_string_size' = elf_string_size + symbol.length
      BY <2>2
    <3>3. QED
      BY <2>4, <3>1, <3>2
  <2>11. E!TypeOK'
    <3>1. \A r \in DOMAIN elf_symbols' :
            elf_symbols'[r].section_index \in 0 .. Len(elf_sections) \union Stray
      <4>1. \A r \in DOMAIN elf_symbols :
              elf_symbols[r].section_index \in 0 .. Len(elf_sections) \union Stray
        BY DEF ElfInv, E!TypeOK
      <4>2. QED
        BY <2>3, <2>5, <2>7, <2>8, <4>1
    <3>2. QED
      BY <2>9, <2>10, <3>1 DEF ElfInv, E!TypeOK
  <2>12. ElfSections'
    BY <2>2, <2>9 DEF ElfInv, ElfSections
  <2>13. ElfSymbols'
    <3>1. AllConverted /\ Len(elf_symbols) = elf_i - 1
      BY <2>2 DEF ElfInv, ElfSymbols
    <3>2. Len(elf_symbols') = elf_i' - 1 /\ Len(elf_symbols') <= Len(elf.symbols)
      BY <2>2, <2>3, <2>7, <3>1
    <3>3. AllConverted'
      BY <2>9, <3>1 DEF AllConverted
    <3>4. ASSUME NEW r \in DOMAIN elf_symbols', elf.symbols[r].st_shndx \notin E!Reserved
          PROVE  elf_symbols'[r].section_index = elf_section_infos[elf.symbols[r].st_shndx]
      <4>1. CASE r = elf_i
        BY <2>1, <2>3, <2>7, <2>8, <3>1, <3>4, <4>1
      <4>2. CASE r # elf_i
        <5>1. r \in DOMAIN elf_symbols
          BY <2>3, <2>7, <3>1, <4>2
        <5>2. QED
          BY <2>7, <3>4, <5>1 DEF ElfInv, ElfSymbols
      <4>3. QED
        BY <4>1, <4>2
    <3>5. QED
      BY <2>2, <2>7, <2>9, <3>2, <3>3, <3>4 DEF ElfSymbols
  <2>14. QED
    BY <2>11, <2>12, <2>13 DEF ElfInv
<1>3. QED
  BY <1>1, <1>2

LEMMA ElfStep ==
  ASSUME ElfInv, E!Next
  PROVE  ElfInv'
<1>1. CASE E!Write
  <2>1. elf_pc = "write" /\ (E!End("converted") \/ E!End("crashed"))
    BY <1>1 DEF E!Write
  <2>2. QED
    BY <2>1, ElfEndStep DEF Terminal
<1>2. QED
  BY <1>1, ElfReadStep, ElfSectionStep, ElfProceedStep, ElfSymbolStep DEF E!Next

LEMMA ElfStays ==
  ASSUME ElfInv,
         UNCHANGED << elf, output_opens, elf_pc, elf_i, elf_target, elf_sections, elf_symbols,
                      elf_string_size, elf_section_infos, estimated >>
  PROVE  ElfInv'
<1>1. E!TypeOK'
  BY DEF ElfInv, E!TypeOK
<1>2. ElfSections'
  BY DEF ElfInv, ElfSections
<1>3. ElfSymbols'
  BY DEF ElfInv, ElfSymbols, AllConverted
<1>4. QED
  BY <1>1, <1>2, <1>3 DEF ElfInv

LEMMA ElfStarts ==
  ASSUME ConvertersInit
  PROVE  ElfInv
<1>1. elf \in E!ELF_File
  BY ViewsAssumption DEF ConvertersInit
<1>2. /\ output_opens \in BOOLEAN /\ elf_pc = "read" /\ elf_i = 1 /\ elf_target = ""
      /\ elf_sections = << >> /\ elf_symbols = << >> /\ elf_string_size = 0 /\ estimated = 0
      /\ elf_section_infos = [s \in DOMAIN elf.sections |-> None]
  BY DEF ConvertersInit, E!Init, None, E!None
<1>3. /\ elf_sections \in Seq(E!ConvertedSection) /\ elf_symbols \in Seq(ElfSymbol)
      /\ Len(elf_sections) = 0 /\ Len(elf_symbols) = 0
      /\ \A k \in DOMAIN elf_sections : FALSE
      /\ \A k \in DOMAIN elf_symbols : FALSE
  <2>1. elf_sections = << >> /\ elf_symbols = << >>
    BY <1>2
  <2>2. QED
    BY <2>1
<1>4. \A s \in DOMAIN elf.sections : elf_section_infos[s] = None
  BY <1>2
<1>5. E!TypeOK
  <2>1. elf_section_infos \in [DOMAIN elf.sections -> 0 .. Len(elf_sections)]
    <3>1. elf_section_infos = [s \in DOMAIN elf.sections |-> None]
      BY <1>2, Zenon
    <3>2. None \in 0 .. Len(elf_sections)
      BY <1>3 DEF None
    <3>3. QED
      BY <3>1, <3>2
  <2>2. elf_i \in Nat /\ elf_i > 0
    <3>1. elf_i = 1
      BY <1>2, Zenon
    <3>2. QED
      BY <3>1
  <2>3. elf_string_size \in Nat /\ estimated \in Nat
    <3>1. elf_string_size = 0 /\ estimated = 0
      BY <1>2, Zenon
    <3>2. QED
      BY <3>1
  <2>4. elf_target \in E!Targets \union {"", "unknown"}
    BY <1>2
  <2>5. elf_pc = "read" /\ output_opens \in BOOLEAN
    BY <1>2
  <2>6. QED
    BY <1>1, <1>3, <2>1, <2>2, <2>3, <2>4, <2>5 DEF E!TypeOK
<1>6. ElfSections
  <2>1. elf_pc = "read" /\ elf_sections = << >>
    BY <1>2
  <2>2. QED
    BY <1>3, <1>4, <2>1 DEF ElfSections
<1>7. ElfSymbols
  <2>1. elf_pc = "read" /\ elf_symbols = << >> /\ Len(elf.symbols) \in Nat
    BY <1>1, <1>2, ElfFacts
  <2>2. QED
    BY <1>3, <2>1 DEF ElfSymbols
<1>8. QED
  BY <1>5, <1>6, <1>7 DEF ElfInv

LEMMA ElfInvariant == ConvertersSpec => []ElfInv
<1>1. ElfInv /\ [ConvertersNext]_<< vars, elf_vars >> => ElfInv'
  <2> SUFFICES ASSUME ElfInv, [ConvertersNext]_<< vars, elf_vars >>
               PROVE  ElfInv'
    OBVIOUS
  <2>1. CASE ConvertFromCoff
    <3>1. output_opens' = output_opens
      BY <2>1 DEF ConvertFromCoff, Next, Read, ConvertSection, Proceed, ConvertSymbol, PassOver,
             DropSymbol, LeaveOut, AddSymbol, AddSymbolOf, ConvertRelocations, Write, End, given
    <3>2. QED
      BY <2>1, <3>1, ElfStays DEF ConvertFromCoff, elf_vars
  <2>2. CASE ConvertFromElf
    BY <2>2, ElfStep DEF ConvertFromElf
  <2>3. CASE UNCHANGED << vars, elf_vars >>
    BY <2>3, ElfStays DEF vars, given, elf_vars
  <2>4. QED
    BY <2>1, <2>2, <2>3 DEF ConvertersNext
<1>2. QED
  BY <1>1, ElfStarts, PTL DEF ConvertersSpec
-------------------------------------------------------------------------------
(* Every variable keeps its type, in the one converter and in the other.    *)
THEOREM ConvertedTypes == ConvertersSpec => [](TypeOK /\ E!TypeOK)
<1>1. CoffInv => TypeOK
  BY DEF CoffInv
<1>2. ElfInv => E!TypeOK
  BY DEF ElfInv
<1>3. QED
  BY <1>1, <1>2, CoffInvariant, ElfInvariant, PTL

(* A section is to be mapped unless it is a note or not allocated.          *)
LEMMA ElfIgnored ==
  ASSUME NEW header \in E!Elf64_Shdr
  PROVE  /\ E!Converted(header).data_size = header.sh_size
         /\ E!Converted(header).data_offset = header.sh_offset
         /\ E!Converted(header).alignment = E!Alignment(header)
         /\ E!BARF_FLAG_IGNORE \in E!Converted(header).flags <=>
              header.sh_type = E!SHT_NOTE \/ E!SHF_ALLOC \notin header.sh_flags
<1>1. /\ E!Converted(header).data_size = header.sh_size
      /\ E!Converted(header).data_offset = header.sh_offset
      /\ E!Converted(header).alignment = E!Alignment(header)
      /\ E!Converted(header).flags = E!Flags(header)
  BY DEF E!Converted
<1>2. E!BARF_FLAG_IGNORE \in E!Flags(header) <=>
        header.sh_type = E!SHT_NOTE \/ E!SHF_ALLOC \notin header.sh_flags
  BY DEF E!Flags, E!BARF_FLAG_IGNORE, E!BARF_FLAG_ZEROED, E!BARF_FLAG_WRITE, E!BARF_FLAG_EXEC
<1>3. QED
  BY <1>1, <1>2

(* The section of each symbol is that of the file.                          *)
LEMMA ElfSymbolsStay ==
  ASSUME ElfInv
  PROVE  E!SymbolsKeepTheirSections
<1> DEFINE shndx(r) == elf.symbols[r].st_shndx
<1> SUFFICES ASSUME NEW r \in DOMAIN elf_symbols,
                    shndx(r) \notin E!Reserved, ~ E!LeftOut(elf.sections[shndx(r)])
             PROVE  /\ elf_symbols[r].section_index \in DOMAIN elf_sections
                    /\ elf_sections[elf_symbols[r].section_index].data_size
                         = elf.sections[shndx(r)].sh_size
                    /\ elf_sections[elf_symbols[r].section_index].data_offset
                         = elf.sections[shndx(r)].sh_offset
  BY DEF E!SymbolsKeepTheirSections
<1>1. r \in DOMAIN elf.symbols
  <2>1. Len(elf_symbols) <= Len(elf.symbols)
    BY DEF ElfInv, ElfSymbols
  <2>2. QED
    BY <2>1, ElfTypes, ElfFacts
<1>2. shndx(r) \in DOMAIN elf.sections /\ elf.sections[shndx(r)] \in E!Elf64_Shdr
  BY <1>1, ElfTypes, ElfFacts
<1>3. AllConverted
  <2>1. elf_symbols # << >>
    OBVIOUS
  <2>2. QED
    BY <2>1 DEF ElfInv, ElfSymbols
<1>4. elf_section_infos[shndx(r)] # None
      /\ elf_symbols[r].section_index = elf_section_infos[shndx(r)]
  BY <1>2, <1>3 DEF AllConverted, ElfInv, ElfSymbols
<1>5. elf_section_infos[shndx(r)] \in DOMAIN elf_sections
  BY <1>2, <1>4, ElfTypes DEF None
<1>6. elf_sections[elf_section_infos[shndx(r)]] = E!Converted(elf.sections[shndx(r)])
  BY <1>2, <1>4 DEF ElfInv, ElfSections
<1>7. QED
  BY <1>2, <1>4, <1>5, <1>6, ElfIgnored

(* The sections to be mapped are the file's allocated ones.                 *)
LEMMA ElfMapped ==
  ASSUME ElfInv
  PROVE  E!MappedIsAllocated
<1> DEFINE Allocates(s) ==
      /\ elf.sections[s].sh_type \in {E!SHT_PROGBITS, E!SHT_NOBITS}
      /\ E!SHF_ALLOC \in elf.sections[s].sh_flags
      /\ elf.sections[s].sh_size > 0 /\ elf.sections[s].name_length <= E!MaxNameLength
    allocated == {s \in DOMAIN elf.sections : Allocates(s)}
    mapped == {k \in DOMAIN elf_sections : E!BARF_FLAG_IGNORE \notin elf_sections[k].flags}
<1> SUFFICES ASSUME elf_pc \in {"symbols", "write", "converted"}
             PROVE  /\ {elf_section_infos[s] : s \in allocated} = mapped
                    /\ \A s, t \in allocated :
                         elf_section_infos[s] = elf_section_infos[t] => s = t
                    /\ \A s \in allocated :
                         /\ elf_sections[elf_section_infos[s]].data_size = elf.sections[s].sh_size
                         /\ elf_sections[elf_section_infos[s]].data_offset
                              = elf.sections[s].sh_offset
  BY DEF E!MappedIsAllocated
<1>1. AllConverted
  BY DEF ElfInv, ElfSymbols
<1>2. ASSUME NEW s \in DOMAIN elf.sections
      PROVE  Allocates(s) <=>
               /\ ~ E!LeftOut(elf.sections[s])
               /\ E!BARF_FLAG_IGNORE \notin E!Converted(elf.sections[s]).flags
  <2>1. elf.sections[s] \in E!Elf64_Shdr
    BY ElfTypes, ElfFacts
  <2>2. elf.sections[s].sh_size \in Nat /\ elf.sections[s].name_length \in Nat
    BY <2>1 DEF E!Elf64_Shdr
  <2>3. QED
    BY <2>1, <2>2, ElfIgnored
       DEF E!LeftOut, E!MaxNameLength, E!SHT_NOTE, E!SHT_PROGBITS, E!SHT_NOBITS
<1> HIDE DEF Allocates
<1>3. ASSUME NEW s \in DOMAIN elf.sections, elf_section_infos[s] # None
      PROVE  /\ ~ E!LeftOut(elf.sections[s]) /\ elf_section_infos[s] \in DOMAIN elf_sections
             /\ elf_sections[elf_section_infos[s]] = E!Converted(elf.sections[s])
  <2>1. elf_section_infos[s] \in DOMAIN elf_sections
    BY <1>3, ElfTypes DEF None
  <2>2. QED
    BY <1>3, <2>1 DEF ElfInv, ElfSections
<1>4. \A s \in allocated : s \in DOMAIN elf.sections /\ elf_section_infos[s] # None
  BY <1>1, <1>2 DEF AllConverted
<1>5. ASSUME NEW s \in allocated
      PROVE  elf_section_infos[s] \in mapped
  BY <1>2, <1>3, <1>4
<1>6. ASSUME NEW k \in mapped
      PROVE  \E s \in allocated : elf_section_infos[s] = k
  <2>1. PICK s \in DOMAIN elf.sections : elf_section_infos[s] = k
    BY DEF ElfInv, ElfSections
  <2>2. k # None
    BY ElfTypes DEF None
  <2>3. s \in allocated
    BY <1>2, <1>3, <2>1, <2>2
  <2>4. QED
    BY <2>1, <2>3
<1>7. \A s, t \in allocated : elf_section_infos[s] = elf_section_infos[t] => s = t
  BY <1>4 DEF ElfInv, ElfSections
<1>8. ASSUME NEW s \in allocated
      PROVE  /\ elf_sections[elf_section_infos[s]].data_size = elf.sections[s].sh_size
             /\ elf_sections[elf_section_infos[s]].data_offset = elf.sections[s].sh_offset
  <2>1. s \in DOMAIN elf.sections /\ elf.sections[s] \in E!Elf64_Shdr
    BY ElfTypes, ElfFacts
  <2>2. elf_sections[elf_section_infos[s]] = E!Converted(elf.sections[s])
    BY <1>3, <1>4
  <2>3. QED
    BY <2>1, <2>2, ElfIgnored
<1>9. QED
  BY <1>5, <1>6, <1>7, <1>8

(* However many sections of an ELF file are left out, its symbols stay in   *)
(* theirs, and what will be mapped is what the file wants mapped            *)
(* (format.c:594-633, 743).                                                 *)
THEOREM Sections == ConvertersSpec => []SectionsSurvive
<1>1. ElfInv => SectionsSurvive
  BY ElfSymbolsStay, ElfMapped DEF SectionsSurvive
<1>2. QED
  BY <1>1, ElfInvariant, PTL

-------------------------------------------------------------------------------
(* Nothing stops the conversion of a file that can be converted.            *)
LEMMA ElfWriteConverts ==
  ASSUME ElfInv, E!Write, output_opens, E!Convertible
  PROVE  elf_pc' = "converted"
<1>1. ASSUME NEW k \in DOMAIN elf_sections
      PROVE  elf_sections[k].alignment # 0 /\ ~ E!ReadsBeyond(elf_sections[k], elf.size)
  <2>1. PICK s \in DOMAIN elf.sections : elf_section_infos[s] = k
    BY DEF ElfInv, ElfSections
  <2>2. k # None
    BY ElfTypes DEF None
  <2>3. ~ E!LeftOut(elf.sections[s]) /\ elf_sections[k] = E!Converted(elf.sections[s])
    BY <2>1, <2>2 DEF ElfInv, ElfSections
  <2>4. /\ elf.sections[s].sh_addralign \in 1 .. 2 ^ 15
        /\ ~ E!ReadsBeyond(E!Converted(elf.sections[s]), elf.size)
    BY <2>3 DEF E!Convertible
  <2>5. elf.sections[s] \in E!Elf64_Shdr
    BY ElfTypes, ElfFacts
  <2>6. E!Alignment(elf.sections[s]) \in Nat /\ E!Alignment(elf.sections[s]) > 0
    BY <2>4, <2>5, ElfAlignment
  <2>7. elf_sections[k].alignment = E!Alignment(elf.sections[s])
    BY <2>3, <2>5, ElfIgnored
  <2>8. QED
    BY <2>3, <2>4, <2>6, <2>7
<1>2. QED
  BY <1>1 DEF E!Write, E!End, E!Goto

LEMMA ElfSameFile ==
  ASSUME elf' = elf, output_opens' = output_opens
  PROVE  /\ E!IsElf' <=> E!IsElf
         /\ E!Convertible' <=> E!Convertible
<1>1. E!HasSymbolTable' <=> E!HasSymbolTable
  BY DEF E!HasSymbolTable
<1>2. QED
  BY <1>1 DEF E!IsElf, E!Convertible

LEMMA ElfConvertStep ==
  ASSUME ElfInv, E!ConvertibleFilesConvert, E!Next
  PROVE  E!ConvertibleFilesConvert'
<1>1. elf' = elf /\ output_opens' = output_opens
  BY DEF E!Next, E!Read, E!End, E!given, E!ConvertSection, E!SearchSection, E!FindSymbols,
         E!ConvertSymbol, E!AddSymbol, E!ConvertRelocations, E!Write
<1> SUFFICES ASSUME E!IsElf, elf.reads = "whole", output_opens, E!Convertible
             PROVE  elf_pc' \notin {"refused", "crashed"}
  BY <1>1, ElfSameFile DEF E!ConvertibleFilesConvert
<1>2. CASE E!Read
  <2>1. elf.reads # "missing"
    OBVIOUS
  <2>2. elf_pc' = "sections"
    BY <1>2, <2>1 DEF E!Read, E!Goto
  <2>3. QED
    BY <2>2
<1>3. CASE E!ConvertSection
  <2>1. elf.sections[elf_i].sh_type \notin E!RelocationTable
    BY <1>3 DEF E!ConvertSection, E!Convertible
  <2>2. elf_pc = "sections" /\ elf_pc' = elf_pc
    BY <1>3, <2>1 DEF E!ConvertSection, E!SearchSection
  <2>3. QED
    BY <2>2
<1>4. CASE E!FindSymbols
  <2>1. elf_pc' = "symbols"
    BY <1>4 DEF E!FindSymbols, E!Convertible, E!Goto
  <2>2. QED
    BY <2>1
<1>5. CASE E!ConvertSymbol
  <2>1. elf.symbols[elf_i].st_shndx \notin E!Reserved
    BY <1>5 DEF E!ConvertSymbol, E!Convertible
  <2>2. elf_pc = "symbols" /\ elf_pc' = elf_pc
    BY <1>5, <2>1 DEF E!ConvertSymbol, E!Symbol, E!AddSymbol
  <2>3. QED
    BY <2>2
<1>6. CASE E!ConvertRelocations
  <2>1. elf_pc' = "write"
    BY <1>6 DEF E!ConvertRelocations, E!Goto
  <2>2. QED
    BY <2>1
<1>7. CASE E!Write
  <2>1. elf_pc' = "converted"
    BY <1>7, ElfWriteConverts
  <2>2. QED
    BY <2>1
<1>8. QED
  BY <1>2, <1>3, <1>4, <1>5, <1>6, <1>7 DEF E!Next

LEMMA ElfConverts == ConvertersSpec => []E!ConvertibleFilesConvert
<1>1. ConvertersInit => E!ConvertibleFilesConvert
  BY DEF ConvertersInit, E!Init, E!ConvertibleFilesConvert
<1>2. ElfInv /\ E!ConvertibleFilesConvert /\ [ConvertersNext]_<< vars, elf_vars >>
        => E!ConvertibleFilesConvert'
  <2> SUFFICES ASSUME ElfInv, E!ConvertibleFilesConvert, [ConvertersNext]_<< vars, elf_vars >>
               PROVE  E!ConvertibleFilesConvert'
    OBVIOUS
  <2>1. ASSUME UNCHANGED << elf, output_opens, elf_pc >>
        PROVE  E!ConvertibleFilesConvert'
    BY <2>1, ElfSameFile DEF E!ConvertibleFilesConvert
  <2>2. CASE ConvertFromCoff
    <3>1. output_opens' = output_opens
      BY <2>2 DEF ConvertFromCoff, Next, Read, ConvertSection, Proceed, ConvertSymbol, PassOver,
             DropSymbol, LeaveOut, AddSymbol, AddSymbolOf, ConvertRelocations, Write, End, given
    <3>2. QED
      BY <2>1, <2>2, <3>1 DEF ConvertFromCoff, elf_vars
  <2>3. CASE ConvertFromElf
    BY <2>3, ElfConvertStep DEF ConvertFromElf
  <2>4. CASE UNCHANGED << vars, elf_vars >>
    BY <2>1, <2>4 DEF vars, given, elf_vars
  <2>5. QED
    BY <2>2, <2>3, <2>4 DEF ConvertersNext
<1>3. QED
  BY <1>1, <1>2, ElfInvariant, PTL DEF ConvertersSpec

(* The object files that need nothing the converters lack are converted     *)
(* (format.c:926-934).                                                      *)
THEOREM Converting == ConvertersSpec => []ConvertibleFilesConvert
<1>1. OrdinaryFilesConvert /\ E!ConvertibleFilesConvert => ConvertibleFilesConvert
  BY DEF ConvertibleFilesConvert
<1>2. QED
  BY <1>1, OrdinaryConverts, ElfConverts, PTL
-------------------------------------------------------------------------------
(* The strings of the records in front of the n-th are at most their long   *)
(* names and nine bytes for each of them, for an n the second loop has      *)
(* reached.                                                                 *)
LongBefore(n) == {r \in LongNames : r < n}

StringsCounted ==
  \E n \in 1 .. Len(coff.symbols) + 1 :
    /\ pc \in {"read", "sections"} => n = 1
    /\ pc = "symbols" => n <= i
    /\ string_size <= SizeOfNames(LongBefore(n)) + 9 * (n - 1)

(* What is converted has been aligned.                                      *)
ConvertedIsAligned ==
  pc = "converted" => \A k \in DOMAIN sections : sections[k].alignment # 0

CoffFits == StringsCounted /\ ConvertedIsAligned

(* The sum of long names grows by the name of each.                         *)
LEMMA NamesSummed ==
  ASSUME coff \in COFF_File
  PROVE  /\ SizeOfNames(LongNames) \in Nat
         /\ \A n \in Nat : /\ SizeOfNames(LongBefore(n)) \in Nat
                           /\ SizeOfNames(LongBefore(n)) <= SizeOfNames(LongNames)
         /\ \A n, m \in Nat :
              n <= m => SizeOfNames(LongBefore(n)) <= SizeOfNames(LongBefore(m))
         /\ \A n \in LongNames :
              SizeOfNames(LongBefore(n + 1))
                = NameSize[coff.symbols[n].Name] + SizeOfNames(LongBefore(n))
<1> DEFINE size == [r \in DOMAIN coff.symbols |-> NameSize[coff.symbols[r].Name]]
<1>1. /\ Len(coff.symbols) \in Nat /\ DOMAIN coff.symbols = 1 .. Len(coff.symbols)
      /\ \A r \in DOMAIN coff.symbols : coff.symbols[r] \in Symbol_Record
  BY FileFacts
<1>2. IsFiniteSet(DOMAIN coff.symbols)
  BY <1>1, FS_Interval
<1>3. LongNames \subseteq DOMAIN coff.symbols /\ LongNames \subseteq Nat
  BY <1>1 DEF LongNames
<1>4. ASSUME NEW all \in SUBSET LongNames
      PROVE  IsFiniteSet(all) /\ \A r \in all : size[r] \in Nat
  <2>1. IsFiniteSet(all)
    BY <1>2, <1>3, FS_Subset
  <2>2. \A r \in all : size[r] \in Nat
    BY <1>1, <1>3, NameSizeAssumption DEF Symbol_Record
  <2>3. QED
    BY <2>1, <2>2
<1>5. \A all : SizeOfNames(all) = SumFunctionOnSet(size, all)
  BY DEF SizeOfNames
<1> HIDE DEF size
<1>6. ASSUME NEW all \in SUBSET LongNames
      PROVE  SizeOfNames(all) \in Nat
  BY <1>4, <1>5, SumWithout
<1>7. ASSUME NEW all \in SUBSET LongNames, NEW some \in SUBSET all
      PROVE  SizeOfNames(some) <= SizeOfNames(all)
  BY <1>4, <1>5, SumMonotone
<1>8. \A n : LongBefore(n) \in SUBSET LongNames
  BY DEF LongBefore
<1>9. ASSUME NEW n \in Nat, NEW m \in Nat, n <= m
      PROVE  SizeOfNames(LongBefore(n)) <= SizeOfNames(LongBefore(m))
  <2>1. LongBefore(n) \in SUBSET LongBefore(m)
    BY <1>3, <1>9 DEF LongBefore
  <2>2. QED
    BY <1>7, <1>8, <2>1
<1>10. ASSUME NEW n \in LongNames
       PROVE  SizeOfNames(LongBefore(n + 1))
                = NameSize[coff.symbols[n].Name] + SizeOfNames(LongBefore(n))
  <2> DEFINE all == LongBefore(n + 1)
  <2>1. n \in all /\ all \ {n} = LongBefore(n)
    BY <1>3 DEF LongBefore
  <2>2. all \in SUBSET LongNames
    BY <1>8
  <2> HIDE DEF all
  <2>3. IsFiniteSet(all) /\ \A r \in all : size[r] \in Nat
    BY <1>4, <2>2
  <2>4. SumFunctionOnSet(size, all) = size[n] + SumFunctionOnSet(size, all \ {n})
    BY <2>1, <2>3, SumWithout
  <2>5. size[n] = NameSize[coff.symbols[n].Name]
    BY <1>3 DEF size
  <2>6. QED
    BY <1>5, <2>1, <2>4, <2>5 DEF all
<1>11. QED
  BY <1>6, <1>7, <1>8, <1>9, <1>10

LEMMA StringSizeTyped ==
  ASSUME CoffInv
  PROVE  string_size \in Nat
<1>1. TypeOK
  BY DEF CoffInv
<1>2. QED
  BY <1>1, Zenon DEF TypeOK

(* A symbol has nine bytes for a short name, or its long name's own.        *)
LEMMA StringsStep ==
  ASSUME CoffInv, StringsCounted, ConvertSymbol
  PROVE  StringsCounted'
<1>1. PICK n \in 1 .. Len(coff.symbols) + 1 :
        n <= i /\ string_size <= SizeOfNames(LongBefore(n)) + 9 * (n - 1)
  BY DEF StringsCounted, ConvertSymbol
<1>2. /\ pc = "symbols" /\ pc' = "symbols" /\ i \in DOMAIN coff.symbols /\ coff' = coff
      /\ i' = i + 1 \/ i' = i + 1 + Record.NumberOfAuxSymbols
  BY DEF ConvertSymbol, PassOver, DropSymbol, LeaveOut, AddSymbol, AddSymbolOf, given
<1>3. /\ coff \in COFF_File /\ i \in Nat /\ string_size \in Nat /\ Record \in Symbol_Record
      /\ Len(coff.symbols) \in Nat /\ DOMAIN coff.symbols = 1 .. Len(coff.symbols)
  BY <1>2, Types, StringSizeTyped, FileFacts DEF Record
<1>4. i' \in Nat /\ i' >= i + 1
  <2>1. Record.NumberOfAuxSymbols \in Nat
    BY <1>3 DEF Symbol_Record
  <2> HIDE DEF Record
  <2>2. QED
    BY <1>2, <1>3, <2>1
<1>5. \A m : SizeOfNames(LongBefore(m))' = SizeOfNames(LongBefore(m))
  BY <1>2 DEF SizeOfNames, LongBefore, LongNames
<1>6. CASE string_size' = string_size
  <2>1. n <= i' /\ n \in 1 .. Len(coff'.symbols) + 1
    BY <1>1, <1>2, <1>3, <1>4
  <2>2. string_size' <= SizeOfNames(LongBefore(n))' + 9 * (n - 1)
    BY <1>1, <1>5, <1>6
  <2>3. QED
    BY <1>2, <2>1, <2>2 DEF StringsCounted
<1>7. CASE string_size' = string_size + NameSize[Record.Name]
  <2> DEFINE before == SizeOfNames(LongBefore(i))
             with == SizeOfNames(LongBefore(i + 1))
             size == NameSize[Record.Name]
  <2>1. before \in Nat /\ with \in Nat /\ before <= with
    <3>1. /\ \A m \in Nat : SizeOfNames(LongBefore(m)) \in Nat
          /\ \A m, q \in Nat :
               m <= q => SizeOfNames(LongBefore(m)) <= SizeOfNames(LongBefore(q))
      BY <1>3, NamesSummed
    <3>2. i \in Nat /\ i + 1 \in Nat /\ i <= i + 1
      BY <1>3
    <3>3. QED
      BY <3>1, <3>2
  <2>2. size \in Nat
    BY <1>3, NameSizeAssumption DEF Symbol_Record
  <2>3. with = size + before \/ size <= 9
    <3>1. CASE i \in LongNames
      BY <1>3, <3>1, NamesSummed DEF Record
    <3>2. CASE i \notin LongNames
      BY <1>2, <2>2, <3>2 DEF LongNames, Record
    <3>3. QED
      BY <3>1, <3>2
  <2>4. string_size <= before + 9 * (i - 1)
    <3>1. SizeOfNames(LongBefore(n)) <= before /\ SizeOfNames(LongBefore(n)) \in Nat
      BY <1>1, <1>3, NamesSummed
    <3> HIDE DEF before
    <3>2. QED
      BY <1>1, <1>3, <2>1, <3>1
  <2>5. string_size' = string_size + size
    BY <1>7
  <2> HIDE DEF before, with, size
  <2>6. string_size' <= with + 9 * ((i + 1) - 1)
    BY <1>3, <2>1, <2>2, <2>3, <2>4, <2>5
  <2>7. PICK m \in 1 .. Len(coff.symbols) + 1 : m = i + 1
    BY <1>2, <1>3
  <2>8. string_size' <= SizeOfNames(LongBefore(m))' + 9 * (m - 1)
    BY <1>5, <2>6, <2>7 DEF with
  <2>9. QED
    BY <1>2, <1>4, <2>7, <2>8 DEF StringsCounted
<1>8. QED
  BY <1>6, <1>7 DEF ConvertSymbol, PassOver, DropSymbol, LeaveOut, AddSymbol, AddSymbolOf,
                    StringSize

(* Other steps count no string; what they end in does not say how far the   *)
(* second loop got.                                                         *)
LEMMA StringsStay ==
  ASSUME StringsCounted, UNCHANGED << coff, string_size >>,
         \/ pc' = pc /\ i' = i
         \/ pc \in {"read", "sections"} /\ (pc' = "symbols" => i' = 1)
         \/ pc' \notin {"read", "sections", "symbols"}
  PROVE  StringsCounted'
<1>1. \A m : SizeOfNames(LongBefore(m))' = SizeOfNames(LongBefore(m))
  BY DEF SizeOfNames, LongBefore, LongNames
<1>2. PICK n \in 1 .. Len(coff.symbols) + 1 :
         /\ pc \in {"read", "sections"} => n = 1
         /\ pc = "symbols" => n <= i
         /\ string_size <= SizeOfNames(LongBefore(n)) + 9 * (n - 1)
  BY DEF StringsCounted
<1>3. /\ pc' \in {"read", "sections"} => n = 1
      /\ pc' = "symbols" => n <= i'
  BY <1>2
<1>4. QED
  BY <1>1, <1>2, <1>3 DEF StringsCounted

(* A file whose sections are not aligned is not written.                    *)
LEMMA CoffFitsStep ==
  ASSUME CoffInv, CoffFits, Next
  PROVE  CoffFits'
<1>1. coff' = coff
  BY DEF Next, Read, ConvertSection, Proceed, ConvertSymbol, PassOver, DropSymbol, LeaveOut,
         AddSymbol, AddSymbolOf, ConvertRelocations, Write, End, given
<1>2. StringsCounted'
  <2>1. CASE Read \/ ConvertSection
    <3>1. /\ pc \in {"read", "sections"} /\ string_size' = string_size
          /\ pc' \in {"refused", "crashed", "sections"}
      BY <2>1 DEF Read, ConvertSection, End, Goto, object
    <3>2. QED
      BY <1>1, <3>1, StringsStay DEF CoffFits
  <2>2. CASE Proceed("sections", Len(coff.sections), "symbols")
    <3>1. pc = "sections" /\ string_size' = string_size /\ i' = 1
      BY <2>2 DEF Proceed, Goto, object
    <3>2. QED
      BY <1>1, <3>1, StringsStay DEF CoffFits
  <2>3. CASE ConvertSymbol
    BY <2>3, StringsStep DEF CoffFits
  <2>4. CASE \/ Proceed("symbols", Len(coff.symbols), "relocations") \/ ConvertRelocations
             \/ Proceed("relocations", Len(coff.sections), "write") \/ Write
    <3>1. string_size' = string_size
      BY <2>4 DEF Proceed, ConvertRelocations, Write, End, object
    <3>2. pc' \notin {"read", "sections", "symbols"}
      BY <2>4 DEF Proceed, ConvertRelocations, Write, End, Goto
    <3>3. QED
      BY <1>1, <3>1, <3>2, StringsStay DEF CoffFits
  <2>5. QED
    BY <2>1, <2>2, <2>3, <2>4 DEF Next
<1>3. ConvertedIsAligned'
  <2>1. CASE pc' = "converted"
    <3>1. sections' = sections /\ ~ WriteFaults
      BY <2>1 DEF Next, Read, ConvertSection, Proceed, ConvertSymbol, PassOver, DropSymbol,
                  LeaveOut, AddSymbol, AddSymbolOf, ConvertRelocations, Write, End, Goto, object
    <3>2. QED
      BY <3>1 DEF ConvertedIsAligned, WriteFaults
  <2>2. CASE pc' # "converted"
    BY <2>2 DEF ConvertedIsAligned
  <2>3. QED
    BY <2>1, <2>2
<1>4. QED
  BY <1>2, <1>3 DEF CoffFits

LEMMA CoffFitsInvariant == ConvertersSpec => []CoffFits
<1>1. ConvertersInit => CoffFits
  <2> SUFFICES ASSUME ConvertersInit
               PROVE  CoffFits
    OBVIOUS
  <2>1. coff \in COFF_File /\ pc = "read" /\ string_size = 0
    BY ViewsAssumption DEF ConvertersInit, Init
  <2>2. SizeOfNames(LongBefore(1)) \in Nat /\ Len(coff.symbols) \in Nat
    BY <2>1, NamesSummed, FileFacts
  <2>3. 1 \in 1 .. Len(coff.symbols) + 1
        /\ string_size <= SizeOfNames(LongBefore(1)) + 9 * (1 - 1)
    BY <2>1, <2>2
  <2>4. QED
    BY <2>1, <2>3 DEF CoffFits, StringsCounted, ConvertedIsAligned
<1>2. CoffInv /\ CoffFits /\ [ConvertersNext]_<< vars, elf_vars >> => CoffFits'
  <2> SUFFICES ASSUME CoffInv, CoffFits, [ConvertersNext]_<< vars, elf_vars >>
               PROVE  CoffFits'
    OBVIOUS
  <2>1. ASSUME UNCHANGED << coff, pc, i, sections, string_size >>
        PROVE  CoffFits'
    BY <2>1, StringsStay DEF CoffFits, ConvertedIsAligned
  <2>2. CASE ConvertFromCoff
    BY <2>2, CoffFitsStep DEF ConvertFromCoff
  <2>3. CASE ConvertFromElf
    BY <2>1, <2>3 DEF ConvertFromElf, object
  <2>4. CASE UNCHANGED << vars, elf_vars >>
    BY <2>1, <2>4 DEF vars, given, object
  <2>5. QED
    BY <2>2, <2>3, <2>4 DEF ConvertersNext
<1>3. QED
  BY <1>1, <1>2, CoffInvariant, PTL DEF ConvertersSpec

(* In front of the last record there are all long names and all records.    *)
LEMMA StringsFit ==
  ASSUME CoffInv, StringsCounted
  PROVE  StringsFitUnlessShared
<1>1. PICK n \in 1 .. Len(coff.symbols) + 1 :
        string_size <= SizeOfNames(LongBefore(n)) + 9 * (n - 1)
  BY DEF StringsCounted
<1>2. coff \in COFF_File /\ string_size \in Nat /\ Len(coff.symbols) \in Nat
      /\ coff.string_table \in Nat
  <2>1. coff \in COFF_File
    BY Types
  <2>2. coff.string_table \in Nat
    BY <2>1 DEF COFF_File
  <2>3. QED
    BY <2>1, <2>2, StringSizeTyped, FileFacts
<1>3. /\ SizeOfNames(LongBefore(n)) \in Nat /\ SizeOfNames(LongNames) \in Nat
      /\ SizeOfNames(LongBefore(n)) <= SizeOfNames(LongNames)
  BY <1>2, NamesSummed
<1>4. QED
  BY <1>1, <1>2, <1>3 DEF StringsFitUnlessShared

-------------------------------------------------------------------------------
(* Padding moves an offset up, to one that is aligned.                      *)
LEMMA AlignToAligns ==
  ASSUME NEW offset \in Nat, NEW alignment \in Nat \ {0}
  PROVE  /\ AlignTo(alignment, offset) \in Nat /\ AlignTo(alignment, offset) >= offset
         /\ AlignTo(alignment, offset) % alignment = 0
<1> DEFINE q == offset \div alignment
           r == offset % alignment
<1>1. offset = alignment * q + r /\ r \in 0 .. alignment - 1 /\ q \in Nat
  OBVIOUS
<1>2. AlignTo(alignment, offset) = offset + ((alignment - r) % alignment)
  BY DEF AlignTo
<1>3. \A n \in Nat : (n * alignment) % alignment = 0
  OBVIOUS
<1> HIDE DEF q, r
<1>4. CASE r = 0
  <2>1. (alignment - r) % alignment = 0
    BY <1>4
  <2>2. AlignTo(alignment, offset) = offset /\ offset = q * alignment
    BY <1>1, <1>2, <1>4, <2>1
  <2>3. (q * alignment) % alignment = 0
    BY <1>1, <1>3
  <2>4. offset % alignment = 0
    BY <2>2, <2>3
  <2>5. QED
    BY <2>2, <2>4
<1>5. CASE r # 0
  <2>1. (alignment - r) % alignment = alignment - r
    BY <1>1, <1>5
  <2>2. AlignTo(alignment, offset) = offset + (alignment - r)
        /\ offset + (alignment - r) = (q + 1) * alignment
    BY <1>1, <1>2, <2>1
  <2>3. (q + 1) * alignment \in Nat /\ ((q + 1) * alignment) % alignment = 0
    BY <1>1, <1>3
  <2>4. QED
    BY <1>1, <2>2, <2>3
<1>6. QED
  BY <1>4, <1>5


(* What the loop that writes adds for a section, and where it begins.       *)
PlaceAfter(section, before) ==
  LET data == AlignTo(section.alignment, before.next)
      behind == AlignTo(8, data + section.data_size)
  IN  [ data |-> data, relocations |-> behind,
        next |-> behind + SizeOfRelocation * section.relocation_count ]

FirstPlace(first) == [data |-> first, relocations |-> first, next |-> first]

(* What the recursion of Places asks of a function up to n.                 *)
ArePlaces(list, first, n, place) ==
  place = [k \in 0 .. n |->
             IF k = 0 THEN FirstPlace(first) ELSE PlaceAfter(list[k], place[k - 1])]

LEMMA PlacesExist ==
  ASSUME NEW list, NEW first
  PROVE  \A n \in Nat : \E place : ArePlaces(list, first, n, place)
<1> DEFINE T == {n \in Nat : \E place : ArePlaces(list, first, n, place)}
<1>1. 0 \in T
  <2>1. ArePlaces(list, first, 0, [k \in 0 .. 0 |-> FirstPlace(first)])
    BY DEF ArePlaces
  <2>2. QED
    BY <2>1
<1>2. ASSUME NEW n \in Nat, n \in T
      PROVE  n + 1 \in T
  <2>1. PICK place : ArePlaces(list, first, n, place)
    BY <1>2
  <2> DEFINE further ==
        [k \in 0 .. n + 1 |-> IF k \in 0 .. n THEN place[k] ELSE PlaceAfter(list[k], place[k - 1])]
  <2>2. further = [k \in 0 .. n + 1 |->
             IF k = 0 THEN FirstPlace(first) ELSE PlaceAfter(list[k], further[k - 1])]
    <3>1. ASSUME NEW k \in 0 .. n + 1
          PROVE  further[k] = IF k = 0 THEN FirstPlace(first)
                              ELSE PlaceAfter(list[k], further[k - 1])
      BY <2>1 DEF ArePlaces
    <3>2. QED
      BY <3>1
  <2> HIDE DEF further
  <2>3. ArePlaces(list, first, n + 1, further)
    BY <2>2 DEF ArePlaces
  <2>4. QED
    BY <2>3
<1>3. QED
  BY <1>1, <1>2, Induction

LEMMA PlacesFollow ==
  ASSUME NEW list, NEW first, Len(list) \in Nat
  PROVE  /\ Places(list, first)[0] = FirstPlace(first)
         /\ \A k \in 1 .. Len(list) :
              Places(list, first)[k] = PlaceAfter(list[k], Places(list, first)[k - 1])
<1>1. Places(list, first) = CHOOSE place : ArePlaces(list, first, Len(list), place)
  BY DEF Places, ArePlaces, FirstPlace, PlaceAfter
<1>2. ArePlaces(list, first, Len(list), Places(list, first))
  BY <1>1, PlacesExist
<1>3. QED
  BY <1>2 DEF ArePlaces

(* Nothing in the file written overlaps, and every section is aligned.      *)
LEMMA PlacesSeparate ==
  ASSUME CoffInv, ConvertedIsAligned
  PROVE  ExtentsSeparate
<1> SUFFICES ASSUME pc = "converted"
             PROVE  \A k \in DOMAIN sections :
                      LET place == Places(sections, TablesEnd) IN
                      /\ place[k].data % sections[k].alignment = 0
                      /\ place[k].data >= (IF k = 1 THEN TablesEnd ELSE place[k - 1].next)
                      /\ place[k].relocations >= place[k].data + sections[k].data_size
                      /\ place[k].relocations % 8 = 0
  BY DEF ExtentsSeparate
<1> DEFINE place == Places(sections, TablesEnd)
<1>1. /\ Len(sections) \in Nat /\ DOMAIN sections = 1 .. Len(sections)
      /\ Len(symbols) \in Nat /\ string_size \in Nat
  BY Types, StringSizeTyped
<1>2. TablesEnd \in Nat
  BY <1>1 DEF TablesEnd, TableEnd, SizeOfHeader, SizeOfSection, SizeOfSymbol
<1>3. ASSUME NEW k \in DOMAIN sections
      PROVE  /\ sections[k].alignment \in Nat \ {0} /\ sections[k].data_size \in Nat
             /\ sections[k].relocation_count \in Nat
  <2>1. sections[k] \in ConvertedSection
    BY Types
  <2>2. sections[k].alignment # 0
    BY DEF ConvertedIsAligned
  <2>3. QED
    BY <2>1, <2>2 DEF ConvertedSection
<1>4. /\ place[0] = FirstPlace(TablesEnd)
      /\ \A k \in 1 .. Len(sections) : place[k] = PlaceAfter(sections[k], place[k - 1])
  BY <1>1, PlacesFollow
<1> HIDE DEF place
<1>5. ASSUME NEW k \in DOMAIN sections, place[k - 1].next \in Nat
      PROVE  /\ place[k].next \in Nat
             /\ place[k].data >= place[k - 1].next
             /\ place[k].data % sections[k].alignment = 0
             /\ place[k].relocations >= place[k].data + sections[k].data_size
             /\ place[k].relocations % 8 = 0
  <2> DEFINE data == AlignTo(sections[k].alignment, place[k - 1].next)
             relocs == AlignTo(8, data + sections[k].data_size)
  <2>1. /\ place[k].data = data /\ place[k].relocations = relocs
        /\ place[k].next = relocs + SizeOfRelocation * sections[k].relocation_count
    <3>1. place[k] = PlaceAfter(sections[k], place[k - 1])
      BY <1>1, <1>4
    <3> HIDE DEF data, relocs
    <3>2. QED
      BY <3>1 DEF PlaceAfter, data, relocs
  <2>2. data \in Nat /\ data >= place[k - 1].next /\ data % sections[k].alignment = 0
    BY <1>3, <1>5, AlignToAligns
  <2> HIDE DEF data
  <2>3. data + sections[k].data_size \in Nat
    BY <1>3, <2>2
  <2>4. relocs \in Nat /\ relocs >= data + sections[k].data_size /\ relocs % 8 = 0
    BY <2>3, AlignToAligns
  <2> HIDE DEF relocs
  <2>5. QED
    BY <1>3, <2>1, <2>2, <2>4 DEF SizeOfRelocation
<1> DEFINE T == {n \in Nat : n <= Len(sections) => place[n].next \in Nat}
<1>6. 0 \in T
  BY <1>2, <1>4 DEF FirstPlace
<1>7. ASSUME NEW n \in Nat, n \in T
      PROVE  n + 1 \in T
  <2>1. CASE n + 1 <= Len(sections)
    <3>1. n + 1 \in DOMAIN sections /\ (n + 1) - 1 = n /\ place[n].next \in Nat
      BY <1>1, <1>7, <2>1
    <3>2. place[n + 1].next \in Nat
      BY <1>5, <3>1
    <3>3. QED
      BY <3>2
  <2>2. QED
    BY <2>1
<1>8. \A n \in 0 .. Len(sections) : place[n].next \in Nat
  <2> HIDE DEF T
  <2>1. Nat \subseteq T
    BY <1>6, <1>7, Induction
  <2>2. QED
    BY <1>1, <2>1 DEF T
<1>9. ASSUME NEW k \in DOMAIN sections
      PROVE  /\ place[k].data % sections[k].alignment = 0
             /\ place[k].data >= (IF k = 1 THEN TablesEnd ELSE place[k - 1].next)
             /\ place[k].relocations >= place[k].data + sections[k].data_size
             /\ place[k].relocations % 8 = 0
  <2>1. place[k - 1].next \in Nat
    BY <1>1, <1>8
  <2>2. k = 1 => place[k - 1].next = TablesEnd
    BY <1>4 DEF FirstPlace
  <2>3. QED
    BY <1>5, <2>1, <2>2
<1>10. QED
  BY <1>9 DEF place
-------------------------------------------------------------------------------
(* What the first loop adds up are the string tables it has been through;   *)
(* a name that is copied has its own bytes of the string table.             *)
TablesBefore(n) == {s \in E!Tables : s < n}

TablesAdded ==
  /\ elf_pc = "read" => estimated = 0
  /\ elf_pc = "sections" => estimated = E!SizeOf(TablesBefore(elf_i))
  /\ elf_pc \in {"symbols", "write"} => estimated = E!SizeOf(E!Tables)

NamesOwnBytes ==
  /\ E!NamesApart /\ E!NamesOnce
  /\ \A r \in DOMAIN elf.symbols : E!Unnamed(elf.symbols[r]) => elf.symbols[r].length = 1

BytesOf(r) == elf.symbols[r].st_name .. elf.symbols[r].st_name + elf.symbols[r].length - 1

Named(n)   == {r \in DOMAIN elf.symbols : r <= n /\ ~ E!Unnamed(elf.symbols[r])}
Unnamed(n) == {r \in DOMAIN elf.symbols : r <= n /\ E!Unnamed(elf.symbols[r])}

NameBytes(n) == UNION {BytesOf(r) : r \in Named(n)}

IsCopied(n, size) ==
  IsFiniteSet(NameBytes(n)) /\ size = Cardinality(NameBytes(n)) + Cardinality(Unnamed(n))

NamesCopied == NamesOwnBytes => IsCopied(Len(elf_symbols), elf_string_size)

ElfFits == TablesAdded /\ NamesCopied

(* The tables' sizes can be added one after the other.                      *)
LEMMA TablesSummed ==
  ASSUME elf \in E!ELF_File
  PROVE  /\ E!SizeOf({}) = 0
         /\ \A all \in SUBSET E!Tables : E!SizeOf(all) \in Nat
         /\ \A all \in SUBSET E!Tables : \A s \in all :
              E!SizeOf(all) = elf.sections[s].sh_size + E!SizeOf(all \ {s})
<1> DEFINE size == [s \in DOMAIN elf.sections |-> elf.sections[s].sh_size]
<1>1. /\ Len(elf.sections) \in Nat /\ DOMAIN elf.sections = 1 .. Len(elf.sections)
      /\ \A s \in DOMAIN elf.sections : elf.sections[s] \in E!Elf64_Shdr
  BY ElfFacts
<1>2. IsFiniteSet(DOMAIN elf.sections) /\ E!Tables \subseteq DOMAIN elf.sections
  BY <1>1, FS_Interval DEF E!Tables
<1>3. \A s \in DOMAIN elf.sections : size[s] = elf.sections[s].sh_size /\ size[s] \in Nat
  BY <1>1 DEF E!Elf64_Shdr
<1>4. \A all : E!SizeOf(all) = SumFunctionOnSet(size, all)
  BY DEF E!SizeOf, E!SumFunctionOnSet, E!FoldFunctionOnSet, E!MapThenFoldSet,
         SumFunctionOnSet, FoldFunctionOnSet, MapThenFoldSet
<1> HIDE DEF size
<1>5. ASSUME NEW all \in SUBSET E!Tables
      PROVE  /\ E!SizeOf(all) \in Nat
             /\ \A s \in all : E!SizeOf(all) = elf.sections[s].sh_size + E!SizeOf(all \ {s})
             /\ all = {} => E!SizeOf(all) = 0
  <2>1. IsFiniteSet(all) /\ \A s \in all : size[s] \in Nat
    BY <1>2, <1>3, FS_Subset
  <2>2. /\ SumFunctionOnSet(size, all) \in Nat
        /\ all = {} => SumFunctionOnSet(size, all) = 0
        /\ \A s \in all :
             SumFunctionOnSet(size, all) = size[s] + SumFunctionOnSet(size, all \ {s})
    BY <2>1, SumWithout
  <2>3. \A s \in all : size[s] = elf.sections[s].sh_size
    BY <1>2, <1>3
  <2>4. QED
    BY <1>4, <2>2, <2>3
<1>6. QED
  BY <1>5

(* One more symbol: its bytes are those of no other.                        *)
LEMMA NameCopied ==
  ASSUME elf \in E!ELF_File, NamesOwnBytes, NEW n \in DOMAIN elf.symbols, NEW size \in Nat,
         IsCopied(n - 1, size)
  PROVE  IsCopied(n, size + elf.symbols[n].length)
<1> DEFINE symbol == elf.symbols[n]
<1>1. /\ Len(elf.symbols) \in Nat /\ DOMAIN elf.symbols = 1 .. Len(elf.symbols)
      /\ \A r \in DOMAIN elf.symbols :
           elf.symbols[r].st_name \in Nat /\ elf.symbols[r].length \in Nat \ {0}
  BY ElfFacts DEF E!Elf64_Sym
<1>2. \A m : IsFiniteSet(Unnamed(m))
  <2>1. IsFiniteSet(1 .. Len(elf.symbols))
    <3>1. 1 \in Int /\ Len(elf.symbols) \in Int
      BY <1>1
    <3>2. QED
      BY <3>1, FS_Interval
  <2>2. \A m : Unnamed(m) \subseteq DOMAIN elf.symbols
    BY DEF Unnamed
  <2>3. QED
    BY <1>1, <2>1, <2>2, FS_Subset
<1>3. Cardinality(Unnamed(n - 1)) \in Nat /\ Cardinality(NameBytes(n - 1)) \in Nat
      /\ IsFiniteSet(NameBytes(n - 1))
      /\ size = Cardinality(NameBytes(n - 1)) + Cardinality(Unnamed(n - 1))
  BY <1>2, FS_CardinalityType DEF IsCopied
<1>4. CASE E!Unnamed(symbol)
  <2>1. Named(n) = Named(n - 1)
    BY <1>1, <1>4 DEF Named
  <2>2. NameBytes(n) = NameBytes(n - 1)
    BY <2>1 DEF NameBytes
  <2>3. Unnamed(n) = Unnamed(n - 1) \union {n} /\ n \notin Unnamed(n - 1)
    BY <1>1, <1>4 DEF Unnamed
  <2>4. Cardinality(Unnamed(n)) = Cardinality(Unnamed(n - 1)) + 1
    BY <1>2, <2>3, FS_AddElement
  <2>5. symbol.length = 1
    BY <1>4 DEF NamesOwnBytes
  <2>6. QED
    BY <1>3, <2>2, <2>4, <2>5 DEF IsCopied
<1>5. CASE ~ E!Unnamed(symbol)
  <2>1. Named(n) = Named(n - 1) \union {n}
    BY <1>1, <1>5 DEF Named
  <2>2. NameBytes(n) = NameBytes(n - 1) \union BytesOf(n)
    BY <2>1 DEF NameBytes
  <2>3. Unnamed(n) = Unnamed(n - 1)
    BY <1>1, <1>5 DEF Unnamed
  <2>4. IsFiniteSet(BytesOf(n)) /\ Cardinality(BytesOf(n)) = symbol.length
    <3>1. symbol.st_name \in Nat /\ symbol.length \in Nat \ {0}
      BY <1>1
    <3> DEFINE first == symbol.st_name
               last == symbol.st_name + symbol.length - 1
    <3>2. first \in Int /\ last \in Int /\ first <= last /\ last - first + 1 = symbol.length
      BY <3>1
    <3> HIDE DEF first, last
    <3>3. IsFiniteSet(first .. last) /\ Cardinality(first .. last) = symbol.length
      BY <3>2, FS_Interval
    <3>4. QED
      BY <3>3 DEF BytesOf, first, last
  <2>5. NameBytes(n - 1) \intersect BytesOf(n) = {}
    <3> SUFFICES ASSUME NEW r \in Named(n - 1), NEW p \in BytesOf(r), p \in BytesOf(n)
                 PROVE  FALSE
      BY DEF NameBytes
    <3>1. r \in DOMAIN elf.symbols /\ r # n /\ ~ E!Unnamed(elf.symbols[r])
      BY <1>1 DEF Named
    <3>2. elf.symbols[r].st_name # symbol.st_name
      BY <3>1 DEF NamesOwnBytes, E!NamesOnce
    <3>3. /\ elf.symbols[r].st_name < symbol.st_name =>
               elf.symbols[r].st_name + elf.symbols[r].length <= symbol.st_name
          /\ symbol.st_name < elf.symbols[r].st_name =>
               symbol.st_name + symbol.length <= elf.symbols[r].st_name
      BY <1>5, <3>1 DEF NamesOwnBytes, E!NamesApart
    <3>4. /\ elf.symbols[r].st_name \in Nat /\ elf.symbols[r].length \in Nat
          /\ symbol.st_name \in Nat /\ symbol.length \in Nat
      BY <1>1, <3>1
    <3>5. /\ p \in Int /\ elf.symbols[r].st_name <= p
          /\ p <= elf.symbols[r].st_name + elf.symbols[r].length - 1
          /\ symbol.st_name <= p /\ p <= symbol.st_name + symbol.length - 1
      BY <3>4 DEF BytesOf
    <3> HIDE DEF symbol
    <3>6. QED
      BY <3>2, <3>3, <3>4, <3>5
  <2>6. /\ IsFiniteSet(NameBytes(n))
        /\ Cardinality(NameBytes(n)) = Cardinality(NameBytes(n - 1)) + symbol.length
    <3>1. Cardinality({}) = 0
      BY FS_EmptySet
    <3>2. IsFiniteSet(NameBytes(n - 1) \union BytesOf(n))
          /\ Cardinality(NameBytes(n - 1) \union BytesOf(n))
               = Cardinality(NameBytes(n - 1)) + Cardinality(BytesOf(n)) - Cardinality({})
      BY <1>3, <2>4, <2>5, FS_Union
    <3>3. symbol.length \in Nat
      BY <1>1
    <3>4. QED
      BY <1>3, <2>2, <2>4, <3>1, <3>2, <3>3
  <2>7. symbol.length \in Nat
    BY <1>1
  <2> HIDE DEF symbol
  <2>8. QED
    BY <1>3, <2>3, <2>6, <2>7 DEF IsCopied, symbol
<1>6. QED
  BY <1>4, <1>5

LEMMA ElfSameBytes ==
  ASSUME elf' = elf
  PROVE  /\ E!Tables' = E!Tables
         /\ \A all : E!SizeOf(all)' = E!SizeOf(all)
         /\ \A n : TablesBefore(n)' = TablesBefore(n)
         /\ NamesOwnBytes' <=> NamesOwnBytes
         /\ \A n, size : IsCopied(n, size)' <=> IsCopied(n, size)
<1>1. E!Tables' = E!Tables
  BY DEF E!Tables
<1>2. \A all : E!SizeOf(all)' = E!SizeOf(all)
  BY DEF E!SizeOf
<1>3. \A n : TablesBefore(n)' = TablesBefore(n)
  BY <1>1 DEF TablesBefore
<1>4. NamesOwnBytes' <=> NamesOwnBytes
  BY DEF NamesOwnBytes, E!NamesApart, E!NamesOnce, E!Unnamed
<1>5. \A n, size : IsCopied(n, size)' <=> IsCopied(n, size)
  BY DEF IsCopied, NameBytes, BytesOf, Named, Unnamed, E!Unnamed
<1>6. QED
  BY <1>1, <1>2, <1>3, <1>4, <1>5

(* The first loop adds a table's size when it comes to it, the second a     *)
(* symbol's bytes.                                                          *)
LEMMA ElfFitsStep ==
  ASSUME ElfInv, ElfFits, E!Next
  PROVE  ElfFits'
<1>1. elf' = elf
  BY DEF E!Next, E!Read, E!End, E!given, E!ConvertSection, E!SearchSection, E!FindSymbols,
         E!ConvertSymbol, E!AddSymbol, E!ConvertRelocations, E!Write
<1>2. /\ elf \in E!ELF_File /\ elf_i \in Nat /\ elf_string_size \in Nat /\ estimated \in Nat
      /\ Len(elf.sections) \in Nat /\ DOMAIN elf.sections = 1 .. Len(elf.sections)
      /\ elf_symbols \in Seq(ElfSymbol) /\ Len(elf_symbols) \in Nat
  BY ElfTypes, ElfFacts
<1>3. CASE E!ConvertSection /\ ~ E!SearchSection
  <2> DEFINE header == elf.sections[elf_i]
  <2>1. /\ elf_pc = "sections" /\ elf_pc' = "sections" /\ elf_i \in DOMAIN elf.sections
        /\ elf_i' = elf_i + 1 /\ estimated' = estimated + E!Strings(header)
        /\ UNCHANGED << elf_symbols, elf_string_size >>
    BY <1>3 DEF E!ConvertSection
  <2>2. PICK n \in Nat : n = elf_i
    BY <1>2
  <2>3. estimated = E!SizeOf(TablesBefore(n))
    BY <2>1, <2>2 DEF ElfFits, TablesAdded
  <2>4. estimated' = E!SizeOf(TablesBefore(n + 1))
    <3>1. /\ TablesBefore(n + 1) \in SUBSET E!Tables
          /\ \A s \in E!Tables : s < n + 1 <=> s < n \/ s = n
      BY <1>2 DEF TablesBefore, E!Tables
    <3>2. CASE n \in E!Tables
      <4>1. n \in TablesBefore(n + 1) /\ TablesBefore(n + 1) \ {n} = TablesBefore(n)
        <5>1. n \in TablesBefore(n + 1) /\ n \notin TablesBefore(n)
          BY <3>2 DEF TablesBefore
        <5>2. ASSUME NEW s
              PROVE  s \in TablesBefore(n + 1) <=> s = n \/ s \in TablesBefore(n)
          BY <3>1, <3>2 DEF TablesBefore
        <5>3. QED
          BY <5>1, <5>2
      <4>2. E!SizeOf(TablesBefore(n + 1)) = elf.sections[n].sh_size + E!SizeOf(TablesBefore(n))
        BY <1>2, <3>1, <4>1, TablesSummed
      <4>3. E!Strings(header) = elf.sections[n].sh_size
        BY <2>2, <3>2 DEF E!Strings, E!Tables
      <4>4. elf.sections[n].sh_size \in Nat
        BY <1>2, <2>1, <2>2, ElfFacts DEF E!Elf64_Shdr
      <4> HIDE DEF header
      <4>5. QED
        BY <1>2, <2>1, <2>3, <4>2, <4>3, <4>4
    <3>3. CASE n \notin E!Tables
      <4>1. TablesBefore(n + 1) = TablesBefore(n)
        BY <3>1, <3>3 DEF TablesBefore
      <4>2. E!Strings(header) = 0
        BY <2>1, <2>2, <3>3 DEF E!Strings, E!Tables
      <4> HIDE DEF header
      <4>3. QED
        BY <1>2, <2>1, <2>3, <4>1, <4>2
    <3>4. QED
      BY <3>2, <3>3
  <2>5. TablesAdded'
    <3>1. PICK m \in Nat : m = n + 1
      OBVIOUS
    <3>2. elf_i' = m /\ estimated' = E!SizeOf(TablesBefore(m))'
      BY <1>1, <2>1, <2>2, <2>4, <3>1, ElfSameBytes
    <3>3. QED
      BY <2>1, <3>2 DEF TablesAdded
  <2>6. NamesCopied'
    BY <1>1, <2>1, ElfSameBytes DEF ElfFits, NamesCopied
  <2>7. QED
    BY <2>5, <2>6 DEF ElfFits
<1>4. CASE E!ConvertSymbol /\ ~ E!End("crashed")
  <2>1. /\ elf_pc = "symbols" /\ elf_pc' = "symbols" /\ elf_i \in DOMAIN elf.symbols
        /\ estimated' = estimated
        /\ elf_string_size' = elf_string_size + elf.symbols[elf_i].length
        /\ \E symbol : elf_symbols' = Append(elf_symbols, symbol)
    BY <1>4 DEF E!ConvertSymbol, E!AddSymbol, E!Symbol, E!StringSize
  <2>2. Len(elf_symbols') = elf_i /\ Len(elf_symbols) = elf_i - 1
    <3>1. Len(elf_symbols) = elf_i - 1
      BY <2>1 DEF ElfInv, ElfSymbols
    <3>2. Len(elf_symbols') = Len(elf_symbols) + 1
      BY <1>2, <2>1
    <3>3. QED
      BY <1>2, <3>1, <3>2
  <2>3. PICK n \in DOMAIN elf.symbols : n = elf_i
    BY <2>1
  <2>4. NamesCopied'
    <3> SUFFICES ASSUME NamesOwnBytes
                 PROVE  IsCopied(Len(elf_symbols), elf_string_size)'
      BY <1>1, ElfSameBytes DEF NamesCopied
    <3>1. IsCopied(n - 1, elf_string_size)
      BY <2>2, <2>3 DEF ElfFits, NamesCopied
    <3>2. IsCopied(n, elf_string_size + elf.symbols[n].length)
      BY <1>2, <3>1, NameCopied
    <3>3. PICK size : size = elf_string_size + elf.symbols[n].length
      OBVIOUS
    <3>4. IsCopied(n, size)'
      BY <1>1, <3>2, <3>3, ElfSameBytes
    <3>5. Len(elf_symbols)' = n /\ elf_string_size' = size
      BY <2>1, <2>2, <2>3, <3>3
    <3>6. QED
      BY <3>4, <3>5
  <2>5. TablesAdded'
    BY <1>1, <2>1, ElfSameBytes DEF ElfFits, TablesAdded
  <2>6. QED
    BY <2>4, <2>5 DEF ElfFits
<1>5. CASE ~ (E!ConvertSection /\ ~ E!SearchSection) /\ ~ (E!ConvertSymbol /\ ~ E!End("crashed"))
  <2>1. UNCHANGED << elf_symbols, elf_string_size, estimated >>
    BY <1>5 DEF E!Next, E!Read, E!End, E!object, E!ConvertSection, E!SearchSection,
                E!FindSymbols, E!ConvertSymbol, E!ConvertRelocations, E!Write
  <2>2. \/ elf_pc' \in {"refused", "crashed", "converted"}
        \/ elf_pc = "read" /\ elf_pc' = "sections" /\ elf_i' = 1
        \/ elf_pc = "sections" /\ elf_pc' = "symbols" /\ elf_i > Len(elf.sections)
        \/ elf_pc = "symbols" /\ elf_pc' = "write"
    BY <1>5 DEF E!Next, E!Read, E!End, E!Goto, E!ConvertSection, E!SearchSection,
                E!FindSymbols, E!ConvertSymbol, E!ConvertRelocations, E!Write
  <2>3. NamesCopied'
    BY <1>1, <2>1, ElfSameBytes DEF ElfFits, NamesCopied
  <2>4. TablesBefore(1) = {}
    BY <1>2 DEF TablesBefore, E!Tables
  <2>5. elf_i > Len(elf.sections) => TablesBefore(elf_i) = E!Tables
    BY <1>2 DEF TablesBefore, E!Tables
  <2>6. TablesAdded'
    <3>1. CASE elf_pc' \in {"refused", "crashed", "converted"}
      BY <3>1 DEF TablesAdded
    <3>2. CASE elf_pc = "read" /\ elf_pc' = "sections" /\ elf_i' = 1
      <4>1. estimated' = 0
        BY <2>1, <3>2 DEF ElfFits, TablesAdded
      <4>2. E!SizeOf(TablesBefore(1))' = 0
        BY <1>1, <1>2, <2>4, ElfSameBytes, TablesSummed
      <4>3. QED
        BY <3>2, <4>1, <4>2 DEF TablesAdded
    <3>3. CASE elf_pc = "sections" /\ elf_pc' = "symbols" /\ elf_i > Len(elf.sections)
      <4>1. estimated' = E!SizeOf(E!Tables)
        BY <2>1, <2>5, <3>3 DEF ElfFits, TablesAdded
      <4>2. E!SizeOf(E!Tables)' = E!SizeOf(E!Tables)
        BY <1>1, ElfSameBytes DEF E!SizeOf
      <4>3. QED
        BY <3>3, <4>1, <4>2 DEF TablesAdded
    <3>4. CASE elf_pc = "symbols" /\ elf_pc' = "write"
      <4>1. estimated' = E!SizeOf(E!Tables)
        BY <2>1, <3>4 DEF ElfFits, TablesAdded
      <4>2. E!SizeOf(E!Tables)' = E!SizeOf(E!Tables)
        BY <1>1, ElfSameBytes DEF E!SizeOf
      <4>3. QED
        BY <3>4, <4>1, <4>2 DEF TablesAdded
    <3>5. QED
      BY <2>2, <3>1, <3>2, <3>3, <3>4
  <2>7. QED
    BY <2>3, <2>6 DEF ElfFits
<1>6. QED
  BY <1>3, <1>4, <1>5

LEMMA ElfFitsInvariant == ConvertersSpec => []ElfFits
<1>1. ConvertersInit => ElfFits
  <2> SUFFICES ASSUME ConvertersInit
               PROVE  ElfFits
    OBVIOUS
  <2>1. /\ elf \in E!ELF_File /\ elf_pc = "read" /\ elf_symbols = << >>
        /\ elf_string_size = 0 /\ estimated = 0
    BY ViewsAssumption DEF ConvertersInit, E!Init
  <2>2. Named(0) = {} /\ Unnamed(0) = {}
    <3>1. \A r \in DOMAIN elf.symbols : ~ (r <= 0)
      BY <2>1, ElfFacts
    <3>2. QED
      BY <3>1 DEF Named, Unnamed
  <2>3. NameBytes(0) = {}
    BY <2>2 DEF NameBytes
  <2>4. IsFiniteSet({}) /\ Cardinality({}) = 0
    BY FS_EmptySet
  <2>5. IsCopied(0, 0)
    BY <2>2, <2>3, <2>4 DEF IsCopied
  <2>6. Len(elf_symbols) = 0
    BY <2>1
  <2>7. NamesCopied
    BY <2>1, <2>5, <2>6 DEF NamesCopied
  <2>8. QED
    BY <2>1, <2>7 DEF ElfFits, TablesAdded
<1>2. ElfInv /\ ElfFits /\ [ConvertersNext]_<< vars, elf_vars >> => ElfFits'
  <2> SUFFICES ASSUME ElfInv, ElfFits, [ConvertersNext]_<< vars, elf_vars >>
               PROVE  ElfFits'
    OBVIOUS
  <2>1. ASSUME UNCHANGED elf_vars
        PROVE  ElfFits'
    <3>1. UNCHANGED << elf, elf_pc, elf_i, elf_symbols, elf_string_size, estimated >>
      BY <2>1 DEF elf_vars
    <3>2. TablesAdded'
      BY <3>1, ElfSameBytes DEF ElfFits, TablesAdded, TablesBefore, E!SizeOf
    <3>3. NamesCopied'
      BY <3>1, ElfSameBytes DEF ElfFits, NamesCopied
    <3>4. QED
      BY <3>2, <3>3 DEF ElfFits
  <2>2. CASE ConvertFromCoff
    BY <2>1, <2>2 DEF ConvertFromCoff
  <2>3. CASE ConvertFromElf
    BY <2>3, ElfFitsStep DEF ConvertFromElf
  <2>4. CASE UNCHANGED << vars, elf_vars >>
    BY <2>1, <2>4
  <2>5. QED
    BY <2>2, <2>3, <2>4 DEF ConvertersNext
<1>3. QED
  BY <1>1, <1>2, ElfInvariant, PTL DEF ConvertersSpec

(* The names' bytes are some of the table behind its first one.             *)
LEMMA ElfStringsFit ==
  ASSUME ElfInv, ElfFits
  PROVE  E!StringsFitUnlessShared
<1> DEFINE unnamed == {r \in DOMAIN elf.symbols : E!Unnamed(elf.symbols[r])}
           others(table) == E!SizeOf(E!Tables \ {table})
           size(table) == elf.sections[table].sh_size
           Roomy(table) ==
             /\ \A r \in DOMAIN elf.symbols :
                  /\ elf.symbols[r].st_name + elf.symbols[r].length <= size(table)
                  /\ E!Unnamed(elf.symbols[r]) => elf.symbols[r].length = 1
             /\ Cardinality(unnamed) <= 1 + others(table)
<1> SUFFICES ASSUME E!NamesApart /\ E!NamesOnce /\ \E table \in E!Tables : Roomy(table),
                    elf_pc \in {"symbols", "write"}
             PROVE  elf_string_size <= estimated
  <2>1. \A s : E!Cardinality(s) = Cardinality(s)
    BY DEF E!Cardinality, Cardinality
  <2> HIDE DEF size, others
  <2>2. QED
    BY <2>1, Zenon DEF E!StringsFitUnlessShared, size, others
<1>0. PICK table \in E!Tables : Roomy(table)
  OBVIOUS
<1>1. /\ elf \in E!ELF_File /\ elf_string_size \in Nat /\ Len(elf_symbols) \in Nat
      /\ DOMAIN elf.symbols = 1 .. Len(elf.symbols) /\ Len(elf.symbols) \in Nat
      /\ Len(elf_symbols) <= Len(elf.symbols)
  BY ElfTypes, ElfFacts DEF ElfInv, ElfSymbols
<1>2. estimated = size(table) + others(table) /\ others(table) \in Nat /\ size(table) \in Nat
  <2>1. estimated = E!SizeOf(E!Tables)
    BY DEF ElfFits, TablesAdded
  <2>2. E!SizeOf(E!Tables) = size(table) + others(table) /\ others(table) \in Nat
    BY <1>1, TablesSummed
  <2>3. size(table) \in Nat
    BY <1>1, ElfFacts DEF E!Tables, E!Elf64_Shdr
  <2>4. QED
    BY <2>1, <2>2, <2>3
<1> DEFINE n == Len(elf_symbols)
<1>3. /\ IsFiniteSet(NameBytes(n))
      /\ elf_string_size = Cardinality(NameBytes(n)) + Cardinality(Unnamed(n))
  BY <1>0 DEF ElfFits, NamesCopied, NamesOwnBytes, IsCopied
<1>4. Cardinality(Unnamed(n)) <= Cardinality(unnamed) /\ Cardinality(unnamed) \in Nat
      /\ Cardinality(Unnamed(n)) \in Nat
  <2>1. IsFiniteSet(1 .. Len(elf.symbols))
    <3>1. 1 \in Int /\ Len(elf.symbols) \in Int
      BY <1>1
    <3>2. QED
      BY <3>1, FS_Interval
  <2>2. IsFiniteSet(unnamed)
    BY <1>1, <2>1, FS_Subset
  <2>3. Unnamed(n) \subseteq unnamed
    BY DEF Unnamed
  <2>4. QED
    BY <2>2, <2>3, FS_Subset, FS_CardinalityType
<1>5. CASE n = 0
  <2>1. Named(n) = {} /\ Unnamed(n) = {}
    <3>1. \A r \in DOMAIN elf.symbols : ~ (r <= 0)
      BY <1>1
    <3>2. QED
      BY <1>5, <3>1 DEF Named, Unnamed
  <2>2. NameBytes(n) = {}
    BY <2>1 DEF NameBytes
  <2>3. elf_string_size = 0
    BY <1>3, <2>1, <2>2, FS_EmptySet
  <2>4. QED
    BY <1>2, <2>3
<1>6. CASE n # 0
  <2>1. \A r \in DOMAIN elf.symbols :
          elf.symbols[r].st_name \in Nat /\ elf.symbols[r].length \in Nat \ {0}
    BY <1>1, ElfFacts DEF E!Elf64_Sym
  <2>2. size(table) >= 1
    <3>1. 1 \in DOMAIN elf.symbols
      BY <1>1, <1>6
    <3>2. elf.symbols[1].st_name + elf.symbols[1].length <= size(table)
      BY <1>0, <3>1
    <3> HIDE DEF size
    <3>3. QED
      BY <1>2, <2>1, <3>1, <3>2
  <2>3. NameBytes(n) \subseteq 1 .. size(table) - 1
    <3> SUFFICES ASSUME NEW r \in Named(n), NEW p \in BytesOf(r)
                 PROVE  p \in 1 .. size(table) - 1
      BY DEF NameBytes
    <3>1. r \in DOMAIN elf.symbols /\ elf.symbols[r].st_name # 0
      BY DEF Named, E!Unnamed
    <3>2. /\ elf.symbols[r].st_name \in Nat /\ elf.symbols[r].length \in Nat
          /\ elf.symbols[r].st_name + elf.symbols[r].length <= size(table)
      BY <1>0, <2>1, <3>1
    <3> DEFINE name == elf.symbols[r].st_name
               length == elf.symbols[r].length
    <3>3. p \in Int /\ name <= p /\ p <= name + length - 1
      BY <3>2 DEF BytesOf
    <3>4. name \in Nat /\ length \in Nat /\ name # 0 /\ name + length <= size(table)
      BY <3>1, <3>2
    <3> HIDE DEF size, name, length
    <3>5. QED
      BY <1>2, <3>3, <3>4
  <2>4. Cardinality(NameBytes(n)) <= size(table) - 1 /\ Cardinality(NameBytes(n)) \in Nat
    <3> HIDE DEF size
    <3>1. 1 \in Int /\ size(table) - 1 \in Int
      BY <1>2
    <3>2. /\ IsFiniteSet(1 .. size(table) - 1)
          /\ Cardinality(1 .. size(table) - 1)
               = IF 1 > size(table) - 1 THEN 0 ELSE (size(table) - 1) - 1 + 1
      BY <3>1, FS_Interval
    <3>3. Cardinality(NameBytes(n)) <= Cardinality(1 .. size(table) - 1)
      BY <2>3, <3>2, FS_Subset
    <3>4. Cardinality(NameBytes(n)) \in Nat
      BY <1>3, FS_CardinalityType
    <3>5. QED
      BY <1>2, <2>2, <3>2, <3>3, <3>4
  <2> HIDE DEF size, others, unnamed, n
  <2>5. Cardinality(unnamed) <= 1 + others(table)
    BY <1>0 DEF others, unnamed
  <2>6. QED
    BY <1>2, <1>3, <1>4, <2>4, <2>5
<1>7. QED
  BY <1>5, <1>6

(* Whatever was left out, what is written has room: the strings of COFF     *)
(* symbols in the file's string table and nine bytes for each record, those *)
(* of ELF symbols in the string tables, as long as names share no bytes;    *)
(* the data and relocations of a section in what the sections in front of   *)
(* it leave of the file (format.c:476-516, 636, 748).                       *)
THEOREM Fits == ConvertersSpec => []WhatIsWrittenFits
<1>1. CoffInv /\ CoffFits /\ ElfInv /\ ElfFits => WhatIsWrittenFits
  <2> SUFFICES ASSUME CoffInv, CoffFits, ElfInv, ElfFits
               PROVE  WhatIsWrittenFits
    OBVIOUS
  <2>1. TypeOK /\ E!TypeOK
    BY DEF CoffInv, ElfInv
  <2>2. StringsFitUnlessShared /\ ExtentsSeparate
    BY StringsFit, PlacesSeparate DEF CoffFits
  <2>3. E!StringsFitUnlessShared
    BY ElfStringsFit
  <2>4. QED
    BY <2>1, <2>2, <2>3 DEF WhatIsWrittenFits
<1>2. QED
  BY <1>1, CoffInvariant, CoffFitsInvariant, ElfInvariant, ElfFitsInvariant, PTL
===============================================================================
