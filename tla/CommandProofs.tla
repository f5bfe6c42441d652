----------------------------- MODULE CommandProofs -----------------------------
(***************************************************************************)
(* Proofs about Command, for every command line and whatever files there   *)
(* are: the call that is made is the one that is meant, each input is      *)
(* combined as its own artifact, and the arguments arrive.                 *)
(***************************************************************************)
EXTENDS Command, FiniteSetTheorems, SequenceTheorems, TLAPS

-------------------------------------------------------------------------------
(* Every non-empty set of naturals has a least element. *)
LEMMA LeastNatural ==
  ASSUME NEW T, T \subseteq Nat, T # {}
  PROVE  \E x \in T : \A y \in T : x <= y
<1> DEFINE R == {p \in Nat \X Nat : p[1] < p[2]}
<1>1. IsWellFoundedOn(R, Nat)
  BY NatLessThanWellFounded DEF OpToRel
<1>2. ASSUME NEW a \in Nat, NEW b \in Nat, a < b
      PROVE  <<a, b>> \in R
  BY <1>2
<1> HIDE DEF R
<1>3. PICK x \in T : \A y \in T : ~ (<<y, x>> \in R)
  BY <1>1, WFMin
<1>4. ASSUME NEW y \in T
      PROVE  x <= y
  <2>1. x \in Nat /\ y \in Nat
    OBVIOUS
  <2>2. <<y, x>> \notin R
    BY <1>3
  <2>3. QED
    BY <2>1, <2>2, <1>2
<1>5. QED
  BY <1>4

(* A set that has 0 and with each number the next has all of them.          *)
LEMMA Induction ==
  ASSUME NEW T, 0 \in T, \A n \in Nat : n \in T => n + 1 \in T
  PROVE  Nat \subseteq T
<1> SUFFICES ASSUME Nat \ T # {} PROVE FALSE
  OBVIOUS
<1>1. PICK x \in Nat \ T : \A y \in Nat \ T : x <= y
  BY LeastNatural
<1>2. x - 1 \in Nat /\ x - 1 \notin Nat \ T
  BY <1>1
<1>3. QED
  BY <1>1, <1>2

(* What the recursion along a sequence of n elements asks of a function.    *)
Recurs(f, n, base, next) ==
  f[0] = base /\ \A k \in 1 .. n : f[k] = next[<< f[k - 1], k >>]

LEMMA RecursionExists ==
  ASSUME NEW S, NEW n \in Nat, NEW base \in S, NEW next \in [S \X (1 .. n) -> S]
  PROVE  \E f \in [0 .. n -> S] : Recurs(f, n, base, next)
<1> DEFINE Upto(m) == \E f \in [0 .. n -> S] : f[0] = base
                        /\ \A k \in 1 .. n : k <= m => f[k] = next[<< f[k - 1], k >>]
           T == {m \in Nat : Upto(m)}
<1>1. 0 \in T
  <2> DEFINE f == [k \in 0 .. n |-> base]
  <2>1. f \in [0 .. n -> S] /\ f[0] = base
    OBVIOUS
  <2>2. \A k \in 1 .. n : k <= 0 => f[k] = next[<< f[k - 1], k >>]
    OBVIOUS
  <2> HIDE DEF f
  <2>3. QED
    BY <2>1, <2>2
<1>2. ASSUME NEW m \in Nat, m \in T
      PROVE  m + 1 \in T
  <2>1. PICK f \in [0 .. n -> S] :
          f[0] = base /\ \A k \in 1 .. n : k <= m => f[k] = next[<< f[k - 1], k >>]
    BY <1>2
  <2>2. CASE m + 1 \notin 1 .. n
    <3>1. \A k \in 1 .. n : k <= m + 1 => f[k] = next[<< f[k - 1], k >>]
      BY <2>1, <2>2
    <3>2. QED
      BY <2>1, <3>1
  <2>3. CASE m + 1 \in 1 .. n
    <3> DEFINE g == [f EXCEPT ![m + 1] = next[<< f[m], m + 1 >>]]
    <3>1. m \in 0 .. n /\ << f[m], m + 1 >> \in S \X (1 .. n)
      BY <2>1, <2>3
    <3>2. g \in [0 .. n -> S]
      BY <2>1, <3>1
    <3>3. \A k \in 0 .. n : g[k] = IF k = m + 1 THEN next[<< f[m], m + 1 >>] ELSE f[k]
      BY <2>1
    <3> HIDE DEF g
    <3>4. ASSUME NEW k \in 1 .. n, k <= m + 1
          PROVE  g[k] = next[<< g[k - 1], k >>]
      <4>1. k - 1 \in 0 .. n /\ k \in 0 .. n /\ g[k - 1] = f[k - 1]
        BY <3>3, <3>4
      <4>2. CASE k = m + 1
        BY <3>3, <4>1, <4>2
      <4>3. CASE k <= m
        BY <2>1, <3>3, <4>1, <4>3
      <4>4. QED
        BY <3>4, <4>2, <4>3
    <3>5. g[0] = base
      BY <2>1, <3>3
    <3>6. QED
      BY <3>2, <3>4, <3>5
  <2>4. QED
    BY <2>2, <2>3
<1>3. n \in T
  <2> HIDE DEF T
  <2>1. QED
    BY <1>1, <1>2, Induction
<1>4. QED
  BY <1>3 DEF Recurs

-------------------------------------------------------------------------------
(* What "-o" in front of an argument means.                                 *)
LEMMA OutputFiles ==
  ASSUME NEW S, argv \in Seq(S)
  PROVE  \A p \in 1 .. Len(argv) :
           IsOutputFile[p] <=> p > 1 /\ argv[p - 1] = "-o" /\ ~ IsOutputFile[p - 1]
<1> DEFINE n == Len(argv)
           next == [bp \in BOOLEAN \X (1 .. n) |-> bp[2] > 1 /\ argv[bp[2] - 1] = "-o" /\ ~ bp[1]]
           Is(is) == is = [p \in 1 .. Len(argv) |-> p > 1 /\ argv[p - 1] = "-o" /\ ~ is[p - 1]]
<1>1. n \in Nat
  OBVIOUS
<1>2. PICK f \in [0 .. n -> BOOLEAN] : Recurs(f, n, FALSE, next)
  <2>1. next \in [BOOLEAN \X (1 .. n) -> BOOLEAN]
    OBVIOUS
  <2> HIDE DEF next
  <2>2. QED
    BY <1>1, <2>1, RecursionExists
<1>3. Is([p \in 1 .. n |-> f[p]])
  <2> DEFINE is == [p \in 1 .. n |-> f[p]]
  <2>1. ASSUME NEW p \in 1 .. n
        PROVE  f[p] = (p > 1 /\ argv[p - 1] = "-o" /\ ~ is[p - 1])
    <3>1. p - 1 \in 0 .. n /\ f[p - 1] \in BOOLEAN
      BY <1>1
    <3>2. f[p] = next[<< f[p - 1], p >>]
      BY <1>2 DEF Recurs
    <3>3. << f[p - 1], p >> \in BOOLEAN \X (1 .. n)
      BY <3>1
    <3>4. f[p] = (p > 1 /\ argv[p - 1] = "-o" /\ ~ f[p - 1])
      BY <3>2, <3>3
    <3>5. p > 1 => is[p - 1] = f[p - 1]
      BY <1>1
    <3>6. QED
      BY <3>4, <3>5
  <2>2. QED
    BY <2>1
<1>4. IsOutputFile = CHOOSE is : Is(is)
  BY DEF IsOutputFile
<1>5. Is(IsOutputFile)
  BY <1>3, <1>4
<1>6. QED
  BY <1>5

-------------------------------------------------------------------------------
(* The files named so far are those in front of the argument the loop is    *)
(* at, each in the place of its rank.                                       *)
NamedBefore(p) == {q \in NamedAt : q < p}

FilesSoFar ==
  /\ input_files \in Seq(DOMAIN Spelling) /\ Len(input_files) <= MaxFiles
  /\ Len(input_files) = Cardinality(NamedBefore(argi))
  /\ \A p \in NamedBefore(argi) : input_files[Rank(p)] = argv[p]

(* The loop is at an argument that is no output file, and not behind the    *)
(* "--" that ends the options unless it has stopped there.                  *)
AtArgument ==
  /\ user_arg_index = None =>
       /\ argi \in DOMAIN argv => ~ IsOutputFile[argi]
       /\ \A e \in Ends : argi <= e
  /\ user_arg_index # None =>
       /\ argi = user_arg_index /\ user_arg_index - 1 \in Ends
       /\ \A e \in Ends : user_arg_index - 1 <= e

Made == {"none", "help", "version", "failure", "abort", "barf_dump",
         "barf_combine_to_artifact", "barf_load_file"}

CommandLineInv ==
  /\ argv \in Seq(DOMAIN Spelling) /\ argi \in 1 .. Len(argv) + 1
  /\ user_arg_index \in {None} \union 2 .. Len(argv) + 1
  /\ FilesSoFar /\ AtArgument
  /\ call.name \in Made /\ (call.name = "none" => call = Nothing)
  /\ call.name = "barf_combine_to_artifact" => call.files = input_files
  /\ call.name = "barf_load_file" => call.args \in Seq(DOMAIN Spelling)
  /\ CombinesWhatIsNamed /\ ArgumentsAreKept

LEMMA ArgumentFacts ==
  ASSUME argv \in Seq(DOMAIN Spelling)
  PROVE  /\ Len(argv) \in Nat /\ DOMAIN argv = 1 .. Len(argv)
         /\ argv \in Seq(STRING)
         /\ \A p \in 1 .. Len(argv) : argv[p] \in DOMAIN Spelling
         /\ Ends \subseteq 1 .. Len(argv)
         /\ NamedAt \subseteq 1 .. Len(argv) /\ IsFiniteSet(NamedAt)
         /\ \A p : NamedBefore(p) \subseteq NamedAt /\ IsFiniteSet(NamedBefore(p))
         /\ \A p : Cardinality(NamedBefore(p)) \in Nat
<1>1. Len(argv) \in Nat /\ DOMAIN argv = 1 .. Len(argv)
  OBVIOUS
<1>2. argv \in Seq(STRING) /\ \A p \in 1 .. Len(argv) : argv[p] \in DOMAIN Spelling
  <2>1. \A p \in 1 .. Len(argv) : argv[p] \in DOMAIN Spelling /\ argv[p] \in STRING
    BY <1>1, ScenesAssumption
  <2>2. argv \in [1 .. Len(argv) -> STRING]
    BY <1>1, <2>1
  <2>3. QED
    BY <1>1, <2>1, <2>2, SeqDef
<1>3. NamedAt \subseteq 1 .. Len(argv) /\ Ends \subseteq 1 .. Len(argv)
  BY <1>1 DEF NamedAt, Ends
<1>4. IsFiniteSet(NamedAt)
  <2>1. IsFiniteSet(1 .. Len(argv))
    <3>1. 1 \in Int /\ Len(argv) \in Int
      BY <1>1
    <3>2. QED
      BY <3>1, FS_Interval
  <2>2. QED
    BY <1>3, <2>1, FS_Subset
<1>5. \A p : NamedBefore(p) \subseteq NamedAt
  BY DEF NamedBefore
<1>6. \A p : IsFiniteSet(NamedBefore(p)) /\ Cardinality(NamedBefore(p)) \in Nat
  BY <1>4, <1>5, FS_Subset, FS_CardinalityType
<1>7. QED
  BY <1>1, <1>2, <1>3, <1>4, <1>5, <1>6

(* The rank of a named file is one more than how many are named before it.  *)
LEMMA RankIsNext ==
  ASSUME argv \in Seq(DOMAIN Spelling), NEW p \in NamedAt
  PROVE  /\ Rank(p) = Cardinality(NamedBefore(p)) + 1
         /\ Rank(p) = Cardinality(NamedBefore(p + 1))
<1>1. p \in Nat /\ \A q \in NamedAt : q \in Nat
  BY ArgumentFacts
<1>2. {q \in NamedAt : q <= p} = NamedBefore(p) \union {p} /\ p \notin NamedBefore(p)
  <2>1. \A q \in NamedAt : q <= p <=> q < p \/ q = p
    BY <1>1
  <2>2. ~ p < p
    BY <1>1
  <2>3. QED
    BY <2>1, <2>2 DEF NamedBefore
<1>3. {q \in NamedAt : q <= p} = NamedBefore(p + 1)
  <2>1. \A q \in NamedAt : q <= p <=> q < p + 1
    BY <1>1
  <2>2. QED
    BY <2>1 DEF NamedBefore
<1>4. QED
  BY <1>2, <1>3, ArgumentFacts, FS_AddElement DEF Rank

(* No file is named in between, so none is named more up to there.          *)
LEMMA NothingNamed ==
  ASSUME argv \in Seq(DOMAIN Spelling), NEW p \in Nat, NEW q \in Nat, p <= q,
         \A r \in NamedAt : ~ (p <= r /\ r < q)
  PROVE  NamedBefore(q) = NamedBefore(p)
<1>1. \A r \in NamedAt : r \in Nat
  BY ArgumentFacts
<1>2. QED
  BY <1>1 DEF NamedBefore

(* Ranks are in the places of the files that are named before.              *)
LEMMA RankOfEarlier ==
  ASSUME argv \in Seq(DOMAIN Spelling), NEW p \in Nat, NEW q \in NamedBefore(p)
  PROVE  Rank(q) \in 1 .. Cardinality(NamedBefore(p))
<1>1. q \in NamedAt /\ q \in Nat /\ q < p
  BY ArgumentFacts DEF NamedBefore
<1>2. NamedBefore(q + 1) \subseteq NamedBefore(p)
  <2>1. \A r \in NamedAt : r < q + 1 => r < p
    BY <1>1, ArgumentFacts
  <2>2. QED
    BY <2>1 DEF NamedBefore
<1>3. Cardinality(NamedBefore(q + 1)) <= Cardinality(NamedBefore(p))
  BY <1>2, ArgumentFacts, FS_Subset
<1>4. Rank(q) = Cardinality(NamedBefore(q)) + 1 /\ Rank(q) = Cardinality(NamedBefore(q + 1))
  BY <1>1, RankIsNext
<1>5. QED
  BY <1>3, <1>4, ArgumentFacts

(* A step that is not a file nor the end of the options leaves the files    *)
(* named so far; p is where the loop goes on.                               *)
LEMMA FilesStay ==
  ASSUME CommandLineInv, NEW p \in Nat, argi <= p, argv' = argv, input_files' = input_files,
         argi' = p, \A r \in NamedAt : ~ (argi <= r /\ r < p)
  PROVE  FilesSoFar'
<1>1. argv \in Seq(DOMAIN Spelling) /\ argi \in Nat
  BY ArgumentFacts DEF CommandLineInv
<1>2. NamedBefore(p) = NamedBefore(argi)
  BY <1>1, NothingNamed
<1>3. NamedAt' = NamedAt /\ NamedBefore(argi)' = NamedBefore(p)
  BY DEF NamedBefore, NamedAt, InFront, Ends, IsOutputFile
<1>4. \A q : Rank(q)' = Rank(q)
  BY <1>3 DEF Rank
<1>5. QED
  BY <1>2, <1>3, <1>4 DEF FilesSoFar, CommandLineInv

LEMMA FilesStayHere ==
  ASSUME CommandLineInv, argv' = argv, input_files' = input_files, argi' = argi
  PROVE  FilesSoFar' /\ (UNCHANGED user_arg_index => AtArgument')
<1>1. argv \in Seq(DOMAIN Spelling) /\ argi \in Nat
  BY ArgumentFacts DEF CommandLineInv
<1>2. /\ NamedBefore(argi)' = NamedBefore(argi) /\ Ends' = Ends /\ IsOutputFile' = IsOutputFile
      /\ \A q : Rank(q)' = Rank(q)
  BY DEF NamedBefore, NamedAt, InFront, Ends, IsOutputFile, Rank
<1>3. FilesSoFar'
  BY <1>2 DEF FilesSoFar, CommandLineInv
<1>4. UNCHANGED user_arg_index => AtArgument'
  BY <1>2 DEF AtArgument, CommandLineInv
<1>5. QED
  BY <1>3, <1>4

(* What the loop keeps when it goes on at p.                                *)
LEMMA LoopGoesOn ==
  ASSUME CommandLineInv, Parsing, NEW p \in 1 .. Len(argv) + 1, argv' = argv, argi' = p,
         user_arg_index' = user_arg_index, argi < p,
         p \in DOMAIN argv => ~ IsOutputFile[p],
         \A e \in Ends : ~ (argi <= e /\ e < p)
  PROVE  AtArgument' /\ argv' \in Seq(DOMAIN Spelling) /\ argi' \in 1 .. Len(argv') + 1
<1>1. user_arg_index = None
  BY DEF Parsing, Left
<1>2. argv \in Seq(DOMAIN Spelling) /\ argi \in Nat /\ \A e \in Ends : e \in Nat /\ argi <= e
  BY <1>1, ArgumentFacts DEF CommandLineInv, AtArgument
<1>3. \A e \in Ends : p <= e
  BY <1>2
<1>4. Ends' = Ends /\ IsOutputFile' = IsOutputFile
  BY DEF Ends, IsOutputFile
<1>5. QED
  BY <1>1, <1>2, <1>3, <1>4 DEF AtArgument

(* A call that neither combines nor loads is as it should be.               *)
LEMMA OtherCalls ==
  ASSUME call'.name \in {"none", "failure", "abort", "help", "version", "barf_dump"}
  PROVE  /\ call'.name \in Made
         /\ (call.name = "barf_combine_to_artifact" => call.files = input_files)'
         /\ (call.name = "barf_load_file" => call.args \in Seq(DOMAIN Spelling))'
         /\ CombinesWhatIsNamed' /\ ArgumentsAreKept'
<1>1. call'.name # "barf_combine_to_artifact" /\ call'.name # "barf_load_file"
  OBVIOUS
<1>2. QED
  BY <1>1 DEF Made, CombinesWhatIsNamed, ArgumentsAreKept

LEMMA SetOptionKeeps ==
  ASSUME CommandLineInv, SetOption
  PROVE  CommandLineInv'
<1>1. /\ argv \in Seq(DOMAIN Spelling) /\ Parsing /\ argi \in 1 .. Len(argv) /\ Len(argv) \in Nat
      /\ argv[argi] \notin {"-o", "--"} /\ argv[argi] \in Option
  BY ArgumentFacts DEF CommandLineInv, SetOption, Parsing, Help, CombineOption, Option
<1>2. argi + 1 \in DOMAIN argv => ~ IsOutputFile[argi + 1]
  BY <1>1, OutputFiles
<1>3. \A e \in Ends : ~ (argi <= e /\ e < argi + 1)
  BY <1>1, ArgumentFacts DEF Ends
<1>4. \A r \in NamedAt : ~ (argi <= r /\ r < argi + 1)
  BY <1>1, ArgumentFacts DEF NamedAt
<1>5. AtArgument' /\ argv' \in Seq(DOMAIN Spelling) /\ argi' \in 1 .. Len(argv') + 1
  BY <1>1, <1>2, <1>3, LoopGoesOn DEF SetOption
<1>6. FilesSoFar'
  BY <1>1, <1>4, FilesStay DEF SetOption
<1>7. call' = Nothing /\ call'.name = "none"
  BY <1>1 DEF SetOption, Parsing, Nothing
<1>8. QED
  BY <1>5, <1>6, <1>7, OtherCalls DEF CommandLineInv, SetOption

LEMMA EndOptionsKeeps ==
  ASSUME CommandLineInv, EndOptions
  PROVE  CommandLineInv'
<1>1. /\ argv \in Seq(DOMAIN Spelling) /\ Parsing /\ argi \in 1 .. Len(argv) /\ Len(argv) \in Nat
      /\ argv[argi] = "--" /\ user_arg_index = None /\ DOMAIN argv = 1 .. Len(argv)
  BY ArgumentFacts DEF CommandLineInv, EndOptions, Parsing, Left
<1>2. argi \in Ends /\ \A e \in Ends : argi <= e
  BY <1>1 DEF CommandLineInv, AtArgument, Ends
<1>3. \A r \in NamedAt : ~ (argi <= r /\ r < argi + 1)
  BY <1>1, <1>2, ArgumentFacts DEF NamedAt, InFront
<1>4. FilesSoFar'
  BY <1>1, <1>3, FilesStay DEF EndOptions
<1>5. AtArgument' /\ user_arg_index' \in {None} \union 2 .. Len(argv') + 1
  <2>1. Ends' = Ends /\ user_arg_index' = argi + 1 /\ argi' = argi + 1 /\ argv' = argv
    BY DEF EndOptions, FirstUserArg, Ends, IsOutputFile
  <2>2. user_arg_index' - 1 = argi /\ user_arg_index' # None
    BY <1>1, <2>1 DEF None
  <2>3. QED
    BY <1>1, <1>2, <2>1, <2>2 DEF AtArgument
<1>6. call' = Nothing /\ call'.name = "none"
  BY <1>1 DEF EndOptions, Parsing, Nothing
<1>7. QED
  BY <1>1, <1>4, <1>5, <1>6, OtherCalls DEF CommandLineInv, EndOptions

LEMMA SetOutputKeeps ==
  ASSUME CommandLineInv, SetOutput
  PROVE  CommandLineInv'
<1>1. /\ argv \in Seq(DOMAIN Spelling) /\ Parsing /\ argi \in 1 .. Len(argv) /\ Len(argv) \in Nat
      /\ argv[argi] = "-o" /\ user_arg_index = None /\ DOMAIN argv = 1 .. Len(argv)
      /\ ~ IsOutputFile[argi]
  <2>1. argv \in Seq(DOMAIN Spelling) /\ argi \in 1 .. Len(argv) + 1 /\ AtArgument
    BY DEF CommandLineInv
  <2>2. Parsing /\ argv[argi] = "-o"
    BY DEF SetOutput
  <2>3. Len(argv) \in Nat /\ DOMAIN argv = 1 .. Len(argv)
    BY <2>1
  <2>4. argi \in 1 .. Len(argv) /\ user_arg_index = None
    BY <2>1, <2>2, <2>3 DEF Parsing, Left
  <2>5. QED
    BY <2>1, <2>2, <2>3, <2>4 DEF AtArgument
<1>2. CASE argi = Len(argv) \/ output_file # NULL
  <2>1. call' = Failure /\ call'.name = "failure" /\ argi' = argi
    BY <1>2 DEF SetOutput, Failure
  <2>2. FilesSoFar' /\ AtArgument'
    BY <2>1, FilesStayHere DEF SetOutput
  <2>3. QED
    BY <1>1, <2>1, <2>2, OtherCalls DEF CommandLineInv, SetOutput
<1>3. CASE ~ (argi = Len(argv) \/ output_file # NULL)
  <2>1. call' = Nothing /\ call'.name = "none" /\ argi' = argi + 2
    <3>1. call' = call /\ argi' = argi + 2
      BY <1>3 DEF SetOutput, BehindOutput
    <3>2. call = Nothing /\ Nothing.name = "none"
      BY <1>1 DEF Parsing, Nothing
    <3>3. QED
      BY <3>1, <3>2
  <2>2. argi + 1 \in 1 .. Len(argv) /\ IsOutputFile[argi + 1]
    <3>1. argi \in 1 .. Len(argv) /\ Len(argv) \in Nat /\ argi # Len(argv)
      BY <1>1, <1>3
    <3>2. argi + 1 \in 1 .. Len(argv) /\ argi + 1 > 1 /\ argi + 1 - 1 = argi
      BY <3>1
    <3>3. QED
      BY <1>1, <3>2, OutputFiles
  <2>3. argi + 2 \in DOMAIN argv => ~ IsOutputFile[argi + 2]
    <3>1. argi + 2 \in 1 .. Len(argv) =>
            (IsOutputFile[argi + 2] => ~ IsOutputFile[argi + 2 - 1])
      BY <1>1, OutputFiles
    <3>2. argi + 2 - 1 = argi + 1
      BY <1>1
    <3>3. QED
      BY <1>1, <2>2, <3>1, <3>2
  <2>4. \A r \in Nat : argi <= r /\ r < argi + 2 => r = argi \/ r = argi + 1
    BY <1>1
  <2>5. \A e \in Ends : ~ (argi <= e /\ e < argi + 2)
    BY <1>1, <2>2, <2>4, ArgumentFacts DEF Ends
  <2>6. \A r \in NamedAt : ~ (argi <= r /\ r < argi + 2)
    BY <1>1, <2>2, <2>4, ArgumentFacts DEF NamedAt, Option
  <2>7. argi + 2 \in 1 .. Len(argv) + 1
    BY <1>1, <2>2
  <2>8. /\ argv' = argv /\ input_files' = input_files /\ user_arg_index' = user_arg_index
        /\ Parsing /\ argi + 2 \in Nat /\ argi < argi + 2 /\ argi <= argi + 2
    <3>1. argi \in Nat
      BY <1>1
    <3>2. argi + 2 \in Nat /\ argi < argi + 2 /\ argi <= argi + 2
      BY <3>1
    <3>3. QED
      BY <1>1, <3>2 DEF SetOutput
  <2>9. AtArgument' /\ argv' \in Seq(DOMAIN Spelling) /\ argi' \in 1 .. Len(argv') + 1
    BY <2>1, <2>3, <2>5, <2>7, <2>8, LoopGoesOn
  <2>10. FilesSoFar'
    BY <2>1, <2>6, <2>8, FilesStay
  <2>11. user_arg_index' \in {None} \union 2 .. Len(argv') + 1
    BY <1>1, <2>8
  <2>12. /\ call'.name \in Made /\ CombinesWhatIsNamed' /\ ArgumentsAreKept'
         /\ (call.name = "barf_combine_to_artifact" => call.files = input_files)'
         /\ (call.name = "barf_load_file" => call.args \in Seq(DOMAIN Spelling))'
    BY <2>1, OtherCalls
  <2>13. QED
    BY <2>1, <2>9, <2>10, <2>11, <2>12 DEF CommandLineInv
<1>4. QED
  BY <1>2, <1>3

LEMMA AddFileKeeps ==
  ASSUME CommandLineInv, AddFile
  PROVE  CommandLineInv'
<1>1. /\ argv \in Seq(DOMAIN Spelling) /\ Parsing /\ argi \in 1 .. Len(argv) /\ Len(argv) \in Nat
      /\ argv[argi] \notin Option /\ user_arg_index = None /\ DOMAIN argv = 1 .. Len(argv)
      /\ ~ IsOutputFile[argi] /\ argv[argi] # "-o" /\ argv[argi] # "--"
      /\ argv[argi] \in DOMAIN Spelling
  BY ArgumentFacts DEF CommandLineInv, AddFile, Parsing, Left, AtArgument, Option
<1>2. CASE ~ HasRoom
  <2>1. call' = Abort /\ call'.name = "abort" /\ argi' = argi /\ input_files' = input_files
    BY <1>2 DEF AddFile, Abort
  <2>2. FilesSoFar' /\ AtArgument'
    BY <2>1, FilesStayHere DEF AddFile
  <2>3. QED
    BY <1>1, <2>1, <2>2, OtherCalls DEF CommandLineInv, AddFile
<1>3. CASE HasRoom
  <2>1. /\ call' = Nothing /\ call'.name = "none" /\ argi' = argi + 1 /\ argv' = argv
        /\ input_files' = Append(input_files, argv[argi])
    BY <1>1, <1>3 DEF AddFile, Parsing, Nothing
  <2>2. argi + 1 \in DOMAIN argv => ~ IsOutputFile[argi + 1]
    BY <1>1, OutputFiles
  <2>3. \A e \in Ends : ~ (argi <= e /\ e < argi + 1)
    BY <1>1, ArgumentFacts DEF Ends
  <2>4. AtArgument' /\ argv' \in Seq(DOMAIN Spelling) /\ argi' \in 1 .. Len(argv') + 1
    BY <1>1, <2>1, <2>2, <2>3, LoopGoesOn DEF AddFile
  <2>5. argi \in NamedAt
    <3>1. \A e \in Ends : argi <= e /\ e # argi /\ e \in Nat
      BY <1>1, ArgumentFacts DEF CommandLineInv, AtArgument, Ends
    <3>2. InFront(argi)
      BY <1>1, <3>1 DEF InFront
    <3>3. QED
      BY <1>1, <3>2 DEF NamedAt
  <2>6. Rank(argi) = Len(input_files) + 1 /\ Rank(argi) = Cardinality(NamedBefore(argi + 1))
    BY <1>1, <2>5, RankIsNext DEF CommandLineInv, FilesSoFar
  <2>7. NamedBefore(argi + 1) = NamedBefore(argi) \union {argi}
    <3>1. \A q \in NamedAt : q < argi + 1 <=> q < argi \/ q = argi
      BY <1>1, ArgumentFacts
    <3>2. QED
      BY <2>5, <3>1 DEF NamedBefore
  <2>8. ASSUME NEW q \in NamedBefore(argi + 1)
        PROVE  Append(input_files, argv[argi])[Rank(q)] = argv[q]
    <3>1. input_files \in Seq(DOMAIN Spelling)
      BY DEF CommandLineInv, FilesSoFar
    <3>2. CASE q = argi
      BY <1>1, <2>6, <3>1, <3>2
    <3>3. CASE q \in NamedBefore(argi)
      <4>1. Rank(q) \in 1 .. Len(input_files) /\ input_files[Rank(q)] = argv[q]
        BY <1>1, <3>3, RankOfEarlier DEF CommandLineInv, FilesSoFar
      <4>2. QED
        BY <1>1, <3>1, <4>1
    <3>4. QED
      BY <2>7, <3>2, <3>3
  <2>9. NamedBefore(argi)' = NamedBefore(argi + 1) /\ \A q : Rank(q)' = Rank(q)
    BY <2>1 DEF NamedBefore, NamedAt, InFront, Ends, IsOutputFile, Rank
  <2>10. FilesSoFar'
    <3>1. /\ input_files' \in Seq(DOMAIN Spelling) /\ Len(input_files') = Len(input_files) + 1
          /\ Len(input_files') <= MaxFiles
      BY <1>1, <1>3, <2>1, FilesAssumption DEF CommandLineInv, FilesSoFar, HasRoom
    <3>2. \A q \in NamedBefore(argi)' : input_files'[Rank(q)'] = argv'[q]
      BY <2>1, <2>8, <2>9
    <3>3. QED
      BY <2>6, <2>9, <3>1, <3>2 DEF FilesSoFar
  <2>11. QED
    BY <2>1, <2>4, <2>10, OtherCalls DEF CommandLineInv, AddFile
<1>4. QED
  BY <1>2, <1>3

LEMMA DispatchKeeps ==
  ASSUME CommandLineInv, Dispatch
  PROVE  CommandLineInv'
<1>1. /\ argv \in Seq(DOMAIN Spelling) /\ argi \in 1 .. Len(argv) + 1 /\ Len(argv) \in Nat
      /\ call = Nothing /\ call' = Dispatched
      /\ user_arg_index \in {None} \union 2 .. Len(argv) + 1
      /\ UNCHANGED << argv, argi, options, output_file, user_arg_index, input_files >>
  BY ArgumentFacts DEF CommandLineInv, Dispatch
<1>2. FilesSoFar' /\ AtArgument'
  BY <1>1, FilesStayHere
<1>3. CASE call'.name \in {"none", "failure", "abort", "help", "version", "barf_dump"}
  <2>1. call'.name # "none"
    BY <1>1 DEF Dispatched, HelpText, Version, Dump, Combine, Load
  <2>2. QED
    BY <1>1, <1>2, <1>3, <2>1, OtherCalls DEF CommandLineInv
<1>4. ASSUME call'.name \notin {"none", "failure", "abort", "help", "version", "barf_dump"}
      PROVE  /\ ~ print_help /\ ~ print_version
             /\ call' = Combine(input_files, output_file) \/ call' = Load(FirstFile, UserArgs)
  BY <1>1, <1>4 DEF Dispatched, HelpText, Version, Dump
<1>5. ASSUME ~ print_help, ~ print_version
      PROVE  user_arg_index = None => argi = Len(argv) + 1 /\ Ends = {}
  <2>1. SUFFICES ASSUME user_arg_index = None
                 PROVE  argi = Len(argv) + 1 /\ Ends = {}
    OBVIOUS
  <2>2. argi = Len(argv) + 1
    BY <1>1, <1>5, <2>1 DEF Dispatch, Parsing, Left
  <2>3. \A e \in Ends : argi <= e /\ e <= Len(argv) /\ e \in Nat
    BY <1>1, <2>1, ArgumentFacts DEF CommandLineInv, AtArgument
  <2>4. QED
    BY <1>1, <2>2, <2>3
<1>6. CASE call' = Combine(input_files, output_file) /\ ~ print_help /\ ~ print_version
  <2>1. call'.name = "barf_combine_to_artifact" /\ call'.files = input_files
    BY <1>6 DEF Combine
  <2>2. NamedBefore(argi) = NamedAt
    <3>1. ASSUME NEW q \in NamedAt
          PROVE  q < argi
      <4>1. q \in 1 .. Len(argv) /\ \A e \in Ends : q < e
        BY <1>1, ArgumentFacts DEF NamedAt, InFront
      <4>2. CASE user_arg_index = None
        BY <1>1, <1>5, <1>6, <4>1, <4>2
      <4>3. CASE user_arg_index # None
        <5>1. user_arg_index - 1 \in Ends /\ argi = user_arg_index
          BY <4>3 DEF CommandLineInv, AtArgument
        <5>2. q < user_arg_index - 1
          BY <4>1, <5>1
        <5>3. QED
          BY <1>1, <4>1, <4>3, <5>1, <5>2
      <4>4. QED
        BY <4>2, <4>3
    <3>2. QED
      BY <3>1 DEF NamedBefore
  <2>3. NamedAt' = NamedAt /\ \A q : Rank(q)' = Rank(q)
    BY <1>1 DEF NamedAt, InFront, Ends, IsOutputFile, Rank
  <2>4. CombinesWhatIsNamed'
    BY <1>1, <2>1, <2>2, <2>3 DEF CombinesWhatIsNamed, CommandLineInv, FilesSoFar
  <2>5. ArgumentsAreKept'
    BY <2>1 DEF ArgumentsAreKept
  <2>6. QED
    BY <1>1, <1>2, <2>1, <2>4, <2>5 DEF CommandLineInv, Made
<1>7. CASE call' = Load(FirstFile, UserArgs) /\ ~ print_help /\ ~ print_version
  <2>1. call'.name = "barf_load_file" /\ call'.args = UserArgs
    BY <1>7 DEF Load
  <2>2. UserArgs \in Seq(DOMAIN Spelling)
    <3>1. CASE user_arg_index = None
      BY <3>1 DEF UserArgs
    <3>2. CASE user_arg_index # None
      BY <1>1, <3>2, SubSeqProperties DEF UserArgs
    <3>3. QED
      BY <3>1, <3>2
  <2>3. Ends' = Ends
    BY <1>1 DEF Ends, IsOutputFile
  <2>4. ArgumentsAreKept'
    <3>1. CASE user_arg_index = None
      BY <1>1, <1>5, <1>7, <2>1, <2>3, <3>1 DEF ArgumentsAreKept, UserArgs
    <3>2. CASE user_arg_index # None
      <4>1. user_arg_index - 1 \in Ends /\ \A e \in Ends : user_arg_index - 1 <= e
        BY <3>2 DEF CommandLineInv, AtArgument
      <4>2. \A e \in Ends : e \in Nat
        BY <1>1, ArgumentFacts
      <4> DEFINE e == CHOOSE e \in Ends : \A d \in Ends : e <= d
      <4>3. e \in Ends /\ \A d \in Ends : e <= d
        BY <4>1
      <4>4. e = user_arg_index - 1 /\ e + 1 = user_arg_index
        <5> HIDE DEF e
        <5>1. e <= user_arg_index - 1 /\ user_arg_index - 1 <= e /\ e \in Nat
          BY <4>1, <4>2, <4>3
        <5>2. QED
          BY <1>1, <3>2, <5>1
      <4>5. call'.args = SubSeq(argv, e + 1, Len(argv))
        BY <2>1, <3>2, <4>4 DEF UserArgs
      <4>6. QED
        BY <1>1, <2>3, <4>1, <4>5 DEF ArgumentsAreKept
    <3>3. QED
      BY <3>1, <3>2
  <2>5. CombinesWhatIsNamed'
    BY <2>1 DEF CombinesWhatIsNamed
  <2>6. QED
    BY <1>1, <1>2, <2>1, <2>2, <2>4, <2>5 DEF CommandLineInv, Made
<1>8. QED
  BY <1>3, <1>4, <1>6, <1>7

LEMMA CommandLineStarts ==
  ASSUME CommandInit
  PROVE  CommandLineInv
<1>1. PICK scene \in Scenes : argv = scene.argv
  BY DEF CommandInit
<1>2. argv \in Seq(DOMAIN Spelling) /\ Len(argv) \in Nat /\ DOMAIN argv = 1 .. Len(argv)
  BY <1>1, ScenesAssumption
<1>3. Init
  BY DEF CommandInit
<1>4. NamedBefore(argi) = {}
  <2>1. \A q \in NamedAt : q \in 1 .. Len(argv)
    BY <1>2, ArgumentFacts
  <2>2. QED
    BY <1>2, <1>3, <2>1 DEF Init, NamedBefore
<1>5. FilesSoFar
  BY <1>3, <1>4, FS_EmptySet, FilesAssumption DEF Init, FilesSoFar
<1>6. AtArgument
  <2>1. \A e \in Ends : 1 <= e
    BY <1>2, ArgumentFacts
  <2>2. 1 \in DOMAIN argv => ~ IsOutputFile[1]
    BY <1>2, OutputFiles
  <2>3. QED
    BY <1>3, <2>1, <2>2 DEF Init, AtArgument
<1>7. call.name = "none"
  BY <1>3 DEF Init, Nothing
<1>8. QED
  BY <1>2, <1>3, <1>5, <1>6, <1>7
  DEF Init, CommandLineInv, Made, CombinesWhatIsNamed, ArgumentsAreKept

LEMMA CommandLineKept ==
  ASSUME CommandLineInv, [CommandNext]_<< vars, disk, convert_vars, join_vars >>
  PROVE  CommandLineInv'
<1>1. CASE Next
  BY <1>1, SetOptionKeeps, EndOptionsKeeps, SetOutputKeeps, AddFileKeeps, DispatchKeeps DEF Next
<1>2. CASE UNCHANGED vars
  <2>1. FilesSoFar' /\ AtArgument'
    BY <1>2, FilesStayHere DEF vars
  <2>2. /\ argv' = argv /\ call' = call /\ Ends' = Ends /\ NamedAt' = NamedAt
        /\ \A q : Rank(q)' = Rank(q)
    BY <1>2 DEF vars, NamedAt, InFront, Ends, IsOutputFile, Rank
  <2>3. CombinesWhatIsNamed' /\ ArgumentsAreKept'
    BY <2>2 DEF CommandLineInv, CombinesWhatIsNamed, ArgumentsAreKept
  <2>4. QED
    BY <1>2, <2>1, <2>3 DEF vars, CommandLineInv
<1>3. QED
  BY <1>1, <1>2 DEF CommandNext, ReadCommandLine, ConvertInputs, PassArguments

(* The call that is made is the one the words ask for (main.c:37-79): all   *)
(* files named in front of "--" are combined, in their order and with       *)
(* neither options nor the output in between, and a loaded artifact gets    *)
(* exactly what follows the first "--".                                     *)
THEOREM Calls == CommandSpec => []CallsWhatIsMeant
<1>1. CommandLineInv => CallsWhatIsMeant
  BY ArgumentFacts DEF CommandLineInv, FilesSoFar, CallsWhatIsMeant, TypeOK
<1>2. QED
  BY <1>1, CommandLineStarts, CommandLineKept, PTL DEF CommandSpec

-------------------------------------------------------------------------------
(* A non-empty set of numbers up to n has a greatest element.               *)
LEMMA GreatestUpto ==
  ASSUME NEW n \in Nat, NEW T, T \subseteq 1 .. n, T # {}
  PROVE  \E x \in T : \A y \in T : y <= x
<1> DEFINE U == {n - x : x \in T}
<1>1. U \subseteq Nat /\ U # {}
  <2>1. \A x \in T : x \in Nat /\ n - x \in Nat
    OBVIOUS
  <2>2. \A u \in U : u \in Nat
    BY <2>1
  <2>3. PICK x \in T : TRUE
    OBVIOUS
  <2>4. n - x \in U
    BY <2>3
  <2>5. QED
    BY <2>2, <2>4
<1>2. PICK u \in U : \A v \in U : u <= v
  BY <1>1, LeastNatural
<1>3. PICK x \in T : u = n - x
  BY <1>2
<1>4. \A y \in T : n - x <= n - y
  BY <1>2, <1>3
<1>5. \A y \in T : y <= x
  BY <1>3, <1>4
<1>6. QED
  BY <1>5

LEMMA ThreeWords ==
  ASSUME NEW S, NEW a \in S, NEW b \in S, NEW c \in S
  PROVE  << a, b, c >> \in Seq(S) /\ Len(<< a, b, c >>) = 3
OBVIOUS

Text == STRING \union {"~", ".", "ba", " "}

LEMMA StringsAreText == Seq(STRING) \subseteq Seq(Text)
<1>1. ASSUME NEW s \in Seq(STRING)
      PROVE  s \in Seq(Text)
  <2>1. Len(s) \in Nat /\ s \in [1 .. Len(s) -> STRING]
    OBVIOUS
  <2>2. STRING \subseteq Text
    BY DEF Text
  <2>3. s \in [1 .. Len(s) -> Text]
    BY <2>1, <2>2
  <2>4. QED
    BY <2>1, <2>3, SeqDef
<1>2. QED
  BY <1>1

LEMMA PathFacts ==
  ASSUME NEW path \in Seq(STRING)
  PROVE  /\ C!Dot(path) \in Nat
         /\ C!ConvertedPath(path) \in Seq(Text) /\ C!TextOf(path) \in Nat
         /\ C!Marks(path) = C!TextOf(path)
         /\ C!Stems(path) # {} =>
              \E stem \in Seq(STRING) :
                C!Stems(path) = {stem} /\ C!ConvertedPath(path) = C!Marked(stem)
<1> DEFINE dots == {d \in 2 .. Len(path) : path[d] = "."}
           last == {d \in 2 .. Len(path) :
                      path[d] = "." /\ \A e \in d + 1 .. Len(path) : path[e] # "."}
           dot == C!Dot(path)
           stem == SubSeq(path, 1, dot - 1)
<1>1. Len(path) \in Nat
  OBVIOUS
<1>2. dot = IF dots = {} THEN 1 ELSE CHOOSE d \in dots : \A e \in dots : e <= d
  BY DEF C!Dot
<1>3. C!Stems(path) = {SubSeq(path, 1, d - 1) : d \in last}
  BY DEF C!Stems
<1>4. C!Suffix \in Seq(Text) /\ Len(C!Suffix) = 3
  <2>1. "~" \in Text /\ "." \in Text /\ "ba" \in Text
    BY DEF Text
  <2>2. /\ << "~", ".", "ba" >> \in Seq(Text) /\ Len(<< "~", ".", "ba" >>) = 3
    BY <2>1, ThreeWords
  <2>3. QED
    BY <2>2 DEF C!Suffix
<1>5. ASSUME dots = {}
      PROVE  dot = 1 /\ last = {}
  BY <1>2, <1>5
<1>6. ASSUME dots # {}
      PROVE  dot \in 2 .. Len(path) /\ last = {dot}
  <2>1. \E d \in dots : \A e \in dots : e <= d
    <3>1. dots \subseteq 1 .. Len(path)
      BY <1>1
    <3> HIDE DEF dots
    <3>2. QED
      BY <1>1, <1>6, <3>1, GreatestUpto
  <2>2. dot \in dots /\ \A e \in dots : e <= dot
    <3> HIDE DEF dots, dot
    <3>1. QED
      BY <1>2, <1>6, <2>1
  <2>3. dot \in last
    <3>1. dot \in Nat /\ dot \in 2 .. Len(path) /\ path[dot] = "."
      BY <2>2, <1>1
    <3>2. ASSUME NEW e \in dot + 1 .. Len(path)
          PROVE  path[e] # "."
      <4>1. e \in 2 .. Len(path) /\ ~ e <= dot
        BY <1>1, <3>1
      <4>2. QED
        BY <2>2, <4>1
    <3>3. QED
      BY <3>1, <3>2
  <2>4. ASSUME NEW d \in last
        PROVE  d = dot
    <3>1. d \in dots /\ d <= dot /\ d \in Nat /\ dot \in Nat
      BY <1>1, <2>2
    <3>2. ~ dot \in d + 1 .. Len(path)
      BY <2>2, <2>4
    <3>3. dot \in 2 .. Len(path)
      BY <2>2
    <3>4. QED
      BY <1>1, <3>1, <3>2, <3>3
  <2>5. QED
    BY <2>2, <2>3, <2>4
<1> HIDE DEF dots, last, dot
<1>7. dot \in Nat /\ dot >= 1 /\ dot <= Len(path) + 1
  BY <1>1, <1>5, <1>6
<1>8. stem \in Seq(STRING) /\ Len(stem) = dot - 1
  <2>1. 1 \in 1 .. Len(path) + 1 /\ dot - 1 \in 1 - 1 .. Len(path)
    BY <1>1, <1>7
  <2>2. QED
    BY <1>7, <2>1, SubSeqProperties
<1>9. /\ C!ConvertedPath(path) = stem \o C!Suffix /\ C!ConvertedPath(path) \in Seq(Text)
      /\ Len(C!ConvertedPath(path)) = dot - 1 + 3
  <2>1. C!ConvertedPath(path) = stem \o C!Suffix
    BY DEF C!ConvertedPath, dot
  <2> HIDE DEF stem
  <2>2. QED
    <3>1. /\ C!Suffix \in Seq(Text) /\ Len(C!Suffix) = 3 /\ Len(stem) = dot - 1
          /\ stem \in Seq(Text)
      BY <1>4, <1>8, StringsAreText
    <3>2. /\ stem \o C!Suffix \in Seq(Text)
          /\ Len(stem \o C!Suffix) = Len(stem) + Len(C!Suffix)
      BY <3>1, ConcatProperties
    <3>3. QED
      BY <2>1, <3>1, <3>2
<1>10. C!TextOf(path) = dot + 3
  BY <1>7, <1>9 DEF C!TextOf
<1>11. CASE dots = {}
  <2>1. C!Stems(path) = {}
    BY <1>3, <1>5, <1>11
  <2>2. C!Marks(path) = 4
    BY <2>1 DEF C!Marks
  <2>3. QED
    BY <1>5, <1>7, <1>9, <1>10, <1>11, <2>1, <2>2 DEF dot
<1>12. CASE dots # {}
  <2>1. C!Stems(path) = {stem}
    BY <1>3, <1>6, <1>12
  <2> HIDE DEF stem
  <2>2. dot - 1 \in 1 .. Len(path)
    BY <1>1, <1>6, <1>12
  <2> DEFINE P(length) == \E t \in C!Stems(path) : Len(t) = length
  <2>3. P(dot - 1) /\ \A length \in 1 .. Len(path) : P(length) => length = dot - 1
    BY <1>8, <2>1
  <2>4. (CHOOSE length \in 1 .. Len(path) : P(length)) = dot - 1
    <3> HIDE DEF P
    <3>1. QED
      BY <2>2, <2>3
  <2>5. C!Marks(path) = 4 + (dot - 1)
    BY <2>1, <2>4 DEF C!Marks
  <2>6. C!ConvertedPath(path) = C!Marked(stem)
    BY <1>9 DEF C!Marked, C!Suffix
  <2>7. QED
    BY <1>7, <1>8, <1>9, <1>10, <2>1, <2>5, <2>6 DEF dot
<1>13. QED
  BY <1>11, <1>12

(* Different paths in front of the last dot are marked differently.         *)
LEMMA MarkedDiffer ==
  ASSUME NEW s \in Seq(STRING), NEW t \in Seq(STRING), C!Marked(s) = C!Marked(t)
  PROVE  s = t
<1> DEFINE suffix == << "~", ".", "ba" >>
<1>1. s \o suffix = t \o suffix /\ suffix \in Seq(Text)
  <2>1. "~" \in Text /\ "." \in Text /\ "ba" \in Text
    BY DEF Text
  <2>2. suffix \in Seq(Text)
    BY <2>1, ThreeWords
  <2>3. s \o suffix = t \o suffix
    BY DEF C!Marked
  <2>4. QED
    BY <2>2, <2>3
<1> HIDE DEF suffix
<1>2. /\ Len(s) \in Nat /\ Len(t) \in Nat /\ Len(suffix) \in Nat
      /\ s \in Seq(Text) /\ t \in Seq(Text)
      /\ Len(s \o suffix) = Len(s) + Len(suffix) /\ Len(t \o suffix) = Len(t) + Len(suffix)
  BY <1>1, StringsAreText, ConcatProperties
<1>3. Len(s) = Len(t)
  BY <1>1, <1>2
<1>4. ASSUME NEW k \in 1 .. Len(s)
      PROVE  s[k] = t[k]
  <2>1. (s \o suffix)[k] = s[k] /\ (t \o suffix)[k] = t[k]
    BY <1>1, <1>2, <1>3
  <2>2. QED
    BY <1>1, <2>1
<1>5. QED
  BY <1>3, <1>4, SeqEqual

(* The sum over a sequence of paths that MarksUpto is.                      *)
SumOfMarks(paths) ==
  LET upto[n \in 0 .. Len(paths)] == IF n = 0 THEN 0 ELSE upto[n - 1] + C!Marks(paths[n])
  IN  upto

LEMMA MarksAdd ==
  ASSUME NEW paths \in Seq(Seq(STRING))
  PROVE  /\ SumOfMarks(paths)[0] = 0
         /\ \A n \in 0 .. Len(paths) : SumOfMarks(paths)[n] \in Nat
         /\ \A n \in 1 .. Len(paths) :
              SumOfMarks(paths)[n] = SumOfMarks(paths)[n - 1] + C!TextOf(paths[n])
<1> DEFINE n == Len(paths)
           next == [vk \in Nat \X (1 .. n) |-> vk[1] + C!Marks(paths[vk[2]])]
           Is(upto) == upto = [k \in 0 .. Len(paths) |->
                                 IF k = 0 THEN 0 ELSE upto[k - 1] + C!Marks(paths[k])]
<1>1. n \in Nat /\ \A k \in 1 .. n : paths[k] \in Seq(STRING)
  OBVIOUS
<1>2. \A k \in 1 .. n : C!Marks(paths[k]) \in Nat /\ C!Marks(paths[k]) = C!TextOf(paths[k])
  BY <1>1, PathFacts
<1>3. PICK f \in [0 .. n -> Nat] : Recurs(f, n, 0, next)
  <2>1. next \in [Nat \X (1 .. n) -> Nat]
    BY <1>2
  <2> HIDE DEF next
  <2>2. QED
    BY <1>1, <2>1, RecursionExists
<1>4. Is(f)
  <2>1. ASSUME NEW k \in 0 .. n
        PROVE  f[k] = IF k = 0 THEN 0 ELSE f[k - 1] + C!Marks(paths[k])
    <3>1. CASE k = 0
      BY <1>3, <3>1 DEF Recurs
    <3>2. CASE k # 0
      <4>1. k \in 1 .. n /\ k - 1 \in 0 .. n
        BY <1>1, <3>2
      <4>2. f[k] = next[<< f[k - 1], k >>] /\ f[k - 1] \in Nat
        BY <1>3, <4>1 DEF Recurs
      <4>3. QED
        BY <3>2, <4>1, <4>2
    <3>3. QED
      BY <3>1, <3>2
  <2>2. QED
    BY <2>1
<1>5. SumOfMarks(paths) = CHOOSE upto : Is(upto)
  BY DEF SumOfMarks
<1>6. Is(SumOfMarks(paths))
  BY <1>4, <1>5
<1>7. \A g : Is(g) => g[0] = 0 /\ \A k \in 1 .. n : g[k] = g[k - 1] + C!TextOf(paths[k])
  <2> SUFFICES ASSUME NEW g, Is(g)
               PROVE  g[0] = 0 /\ \A k \in 1 .. n : g[k] = g[k - 1] + C!TextOf(paths[k])
    OBVIOUS
  <2>1. \A k \in 0 .. n : g[k] = IF k = 0 THEN 0 ELSE g[k - 1] + C!Marks(paths[k])
    OBVIOUS
  <2> HIDE DEF Is
  <2>2. g[0] = 0
    BY <1>1, <2>1
  <2>3. ASSUME NEW k \in 1 .. n
        PROVE  g[k] = g[k - 1] + C!TextOf(paths[k])
    <3>1. k \in 0 .. n /\ k # 0
      BY <1>1
    <3>2. QED
      BY <1>2, <2>1, <3>1
  <2>4. QED
    BY <2>2, <2>3
<1>8. \A g : Is(g) => \A k \in 0 .. n : g[k] \in Nat
  <2> SUFFICES ASSUME NEW g, Is(g)
               PROVE  \A k \in 0 .. n : g[k] \in Nat
    OBVIOUS
  <2> DEFINE T == {k \in Nat : k <= n => g[k] \in Nat}
  <2>1. 0 \in T
    BY <1>7
  <2>2. ASSUME NEW k \in Nat, k \in T
        PROVE  k + 1 \in T
    <3>1. k + 1 <= n => g[k + 1] = g[k] + C!TextOf(paths[k + 1]) /\ C!TextOf(paths[k + 1]) \in Nat
      <4>1. k + 1 <= n => k + 1 \in 1 .. n /\ k + 1 - 1 = k
        BY <1>1
      <4> HIDE DEF Is
      <4>2. QED
        BY <1>2, <1>7, <4>1
    <3>2. k + 1 <= n => g[k] \in Nat
      BY <1>1, <2>2
    <3> HIDE DEF Is
    <3>3. QED
      BY <3>1, <3>2
  <2>3. Nat \subseteq T
    <3> HIDE DEF T
    <3>1. QED
      BY <2>1, <2>2, Induction
  <2>4. QED
    BY <1>1, <2>3
<1> HIDE DEF Is
<1>9. QED
  BY <1>6, <1>7, <1>8

LEMMA MarksGrow ==
  ASSUME NEW paths \in Seq(Seq(STRING)), NEW m \in 0 .. Len(paths)
  PROVE  SumOfMarks(paths)[m] <= SumOfMarks(paths)[Len(paths)]
<1> DEFINE n == Len(paths)
           sum == SumOfMarks(paths)
           T == {k \in Nat : m + k <= n => sum[m] <= sum[m + k]}
<1>1. n \in Nat /\ m \in Nat /\ m <= n
  OBVIOUS
<1>2. \A k \in 0 .. n : sum[k] \in Nat
  BY MarksAdd
<1>3. 0 \in T
  BY <1>1, <1>2
<1>4. ASSUME NEW k \in Nat, k \in T
      PROVE  k + 1 \in T
  <2>1. SUFFICES ASSUME m + (k + 1) <= n
                 PROVE  sum[m] <= sum[m + (k + 1)]
    OBVIOUS
  <2>2. /\ m + k \in 0 .. n /\ m + (k + 1) \in 1 .. n /\ m + (k + 1) - 1 = m + k
        /\ m \in 0 .. n
    BY <1>1, <2>1
  <2>3. sum[m] <= sum[m + k]
    BY <1>1, <1>4, <2>2
  <2>4. paths[m + (k + 1)] \in Seq(STRING)
    BY <2>2
  <2>5. /\ sum[m + (k + 1)] = sum[m + k] + C!TextOf(paths[m + (k + 1)])
        /\ C!TextOf(paths[m + (k + 1)]) \in Nat
    BY <2>2, <2>4, MarksAdd, PathFacts
  <2>6. sum[m] \in Nat /\ sum[m + k] \in Nat
    BY <1>2, <2>2
  <2> HIDE DEF sum
  <2>7. QED
    BY <2>3, <2>5, <2>6
<1>5. n - m \in T
  <2>1. n - m \in Nat
    BY <1>1
  <2> HIDE DEF T
  <2>2. QED
    BY <1>3, <1>4, <2>1, Induction
<1>6. m + (n - m) = n
  BY <1>1
<1>7. QED
  BY <1>1, <1>5, <1>6

-------------------------------------------------------------------------------
(* The paths that a combining call hands over. *)
Inputs == IF Combining THEN Spelled(call.files) ELSE << >>

SoundFiles == \A p \in DOMAIN disk : \E format \in C!Format : disk[p] = C!File(format, p)

(* What the loop has made of the inputs so far, if they are apart and fit.  *)
ArtifactsSoFar ==
  \A n \in 1 .. convert_i - 1 :
    /\ Inputs[n] \in DOMAIN disk
    /\ IF C!IsObject(Inputs[n])
       THEN /\ ba_paths[n] = C!ConvertedPath(Inputs[n]) /\ ba_paths[n] \in DOMAIN files
            /\ files[ba_paths[n]] = C!File("artifact", Inputs[n])
       ELSE ba_paths[n] = Inputs[n]

(* A sequence of whatever there is, and what appending to it does.          *)
IsSequence(s) == \E S : s \in Seq(S)

LEMMA EmptySequence == IsSequence(<< >>)
<1>1. << >> \in Seq({})
  OBVIOUS
<1>2. QED
  BY <1>1 DEF IsSequence

LEMMA Appended ==
  ASSUME NEW s, IsSequence(s), NEW e
  PROVE  /\ IsSequence(Append(s, e))
         /\ Len(Append(s, e)) = Len(s) + 1 /\ Append(s, e)[Len(s) + 1] = e
         /\ \A n \in 1 .. Len(s) : Append(s, e)[n] = s[n]
<1>1. PICK S : s \in Seq(S)
  BY DEF IsSequence
<1> DEFINE T == S \union {e}
<1>2. Len(s) \in Nat /\ s \in [1 .. Len(s) -> S]
  BY <1>1
<1>3. s \in [1 .. Len(s) -> T] /\ e \in T
  BY <1>2
<1>4. s \in Seq(T)
  BY <1>2, <1>3, SeqDef
<1> HIDE DEF T
<1>5. Append(s, e) \in Seq(T)
  BY <1>3, <1>4
<1>6. /\ Len(Append(s, e)) = Len(s) + 1 /\ Append(s, e)[Len(s) + 1] = e
      /\ \A n \in 1 .. Len(s) : Append(s, e)[n] = s[n]
  BY <1>3, <1>4
<1>7. QED
  BY <1>5, <1>6 DEF IsSequence

(* While nothing is combined the loop has not begun.                        *)
ConvertInv ==
  /\ SoundFiles /\ (~ Combining => C!Init)
  /\ C!TypeOK /\ IsSequence(ba_paths)
  /\ ba_path_text_len = SumOfMarks(Inputs)[convert_i - 1]
  /\ C!PathsFitTheBlock /\ C!InputsAreKept
  /\ C!Apart /\ C!TextFits => ArtifactsSoFar
  /\ convert_pc = "crashed" =>
       convert_i <= Len(Inputs) /\ Inputs[convert_i] \notin DOMAIN disk

LEMMA SpelledPaths ==
  ASSUME NEW words \in Seq(DOMAIN Spelling)
  PROVE  Spelled(words) \in Seq(Seq(STRING))
<1> DEFINE n == Len(words)
<1>1. n \in Nat /\ DOMAIN words = 1 .. n /\ \A k \in 1 .. n : words[k] \in DOMAIN Spelling
  OBVIOUS
<1>2. Spelled(words) = [k \in 1 .. n |-> Spelling[words[k]]]
  BY <1>1 DEF Spelled
<1>3. \A k \in 1 .. n : Spelling[words[k]] \in Seq(STRING)
  BY <1>1, ScenesAssumption
<1> HIDE DEF n
<1>4. [k \in 1 .. n |-> Spelling[words[k]]] \in [1 .. n -> Seq(STRING)]
  BY <1>3
<1>5. [k \in 1 .. n |-> Spelling[words[k]]] \in Seq(Seq(STRING))
  BY <1>1, <1>4, SeqDef
<1>6. QED
  BY <1>2, <1>5

LEMMA InputPaths ==
  ASSUME CommandLineInv
  PROVE  Inputs \in Seq(Seq(STRING))
<1>1. Combining => call.files \in Seq(DOMAIN Spelling)
  BY DEF CommandLineInv, FilesSoFar, Combining
<1>2. CASE Combining
  BY <1>1, <1>2, SpelledPaths DEF Inputs
<1>3. CASE ~ Combining
  BY <1>3 DEF Inputs
<1>4. QED
  BY <1>2, <1>3

(* The definitions of the loop, said of the inputs.                         *)
LEMMA LoopWords ==
  ASSUME Inputs \in Seq(Seq(STRING))
  PROVE  /\ Len(Inputs) \in Nat /\ DOMAIN Inputs = 1 .. Len(Inputs)
         /\ \A n \in 1 .. Len(Inputs) : Inputs[n] \in Seq(STRING)
         /\ C!TextFits <=> SumOfMarks(Inputs)[Len(Inputs)] <= Cap
         /\ C!Named = {Inputs[n] : n \in 1 .. Len(Inputs)}
         /\ C!Done <=> convert_i > Len(Inputs)
<1>1. /\ Len(Inputs) \in Nat /\ DOMAIN Inputs = 1 .. Len(Inputs)
      /\ \A n \in 1 .. Len(Inputs) : Inputs[n] \in Seq(STRING)
  OBVIOUS
<1>2. C!TextFits <=> SumOfMarks(Inputs)[Len(Inputs)] <= Cap
  BY DEF C!TextFits, C!MarksUpto, SumOfMarks, Inputs
<1>3. C!Named = {Inputs[n] : n \in DOMAIN Inputs}
  BY DEF C!Named, Inputs
<1>4. C!Done <=> convert_i > Len(Inputs)
  BY DEF C!Done, Inputs
<1>5. QED
  BY <1>1, <1>2, <1>3, <1>4

(* Object files have paths of their own, and so have their artifacts.       *)
LEMMA ApartFacts ==
  ASSUME Inputs \in Seq(Seq(STRING)), C!Apart,
         NEW m \in 1 .. Len(Inputs), C!IsObject(Inputs[m])
  PROVE  /\ C!ConvertedPath(Inputs[m]) \notin C!Named
         /\ \A n \in 1 .. Len(Inputs) :
              m # n /\ C!IsObject(Inputs[n]) =>
                C!ConvertedPath(Inputs[m]) # C!ConvertedPath(Inputs[n])
<1>1. \A n \in 1 .. Len(Inputs) :
        /\ Inputs[n] \in Seq(STRING)
        /\ C!IsObject(Inputs[n]) =>
             /\ C!Stems(Inputs[n]) # {}
             /\ {C!Marked(stem) : stem \in C!Stems(Inputs[n])} \cap C!Named = {}
  BY LoopWords DEF C!Apart, Inputs
<1>2. \A n \in 1 .. Len(Inputs) :
        m # n /\ C!IsObject(Inputs[n]) => C!Stems(Inputs[m]) # C!Stems(Inputs[n])
  BY LoopWords DEF C!Apart, Inputs
<1>3. PICK s \in Seq(STRING) :
        C!Stems(Inputs[m]) = {s} /\ C!ConvertedPath(Inputs[m]) = C!Marked(s)
  BY <1>1, PathFacts
<1>4. C!ConvertedPath(Inputs[m]) \notin C!Named
  BY <1>1, <1>3
<1>5. ASSUME NEW n \in 1 .. Len(Inputs), m # n, C!IsObject(Inputs[n]),
             C!ConvertedPath(Inputs[m]) = C!ConvertedPath(Inputs[n])
      PROVE  FALSE
  <2>1. PICK t \in Seq(STRING) :
          C!Stems(Inputs[n]) = {t} /\ C!ConvertedPath(Inputs[n]) = C!Marked(t)
    BY <1>1, <1>5, PathFacts
  <2>2. s = t
    BY <1>3, <1>5, <2>1, MarkedDiffer
  <2>3. QED
    BY <1>2, <1>3, <1>5, <2>1, <2>2
<1>6. QED
  BY <1>4, <1>5

(* The same paths and files are the same inputs.                            *)
LEMMA InputsStay ==
  ASSUME call' = call, disk' = disk
  PROVE  /\ Inputs' = Inputs /\ (Combining' <=> Combining)
         /\ (C!Apart' <=> C!Apart) /\ (C!TextFits' <=> C!TextFits) /\ C!Named' = C!Named
         /\ \A path : C!IsObject(path)' <=> C!IsObject(path)
<1>1. Inputs' = Inputs /\ (Combining' <=> Combining)
  BY DEF Inputs, Combining, Spelled
<1>2. \A path : C!IsObject(path)' <=> C!IsObject(path)
  BY DEF C!IsObject
<1>3. C!Named' = C!Named
  BY DEF C!Named, Combining, Spelled
<1>4. C!Apart' <=> C!Apart
  <2> DEFINE A(paths, names) ==
               \A m, n \in DOMAIN paths :
                 /\ m # n => paths[m] # paths[n]
                 /\ C!IsObject(paths[m]) =>
                      /\ C!Stems(paths[m]) # {}
                      /\ {C!Marked(stem) : stem \in C!Stems(paths[m])} \cap names = {}
                      /\ m # n /\ C!IsObject(paths[n]) => C!Stems(paths[m]) # C!Stems(paths[n])
  <2>1. C!Apart <=> A(Inputs, C!Named)
    BY DEF C!Apart, Inputs
  <2>2. C!Apart' <=> A(Inputs, C!Named)'
    BY DEF C!Apart, Inputs
  <2>3. A(Inputs, C!Named)' <=> A(Inputs, C!Named)
    BY <1>1, <1>2, <1>3
  <2> HIDE DEF A
  <2>4. QED
    BY <2>1, <2>2, <2>3
<1>5. C!TextFits' <=> C!TextFits
  BY DEF C!TextFits, C!MarksUpto, Combining, Spelled
<1>6. QED
  BY <1>1, <1>2, <1>3, <1>4, <1>5

(* What one step of the loop does.                                          *)
LEMMA LoopStep ==
  ASSUME ConvertInv, Inputs \in Seq(Seq(STRING)), UNCHANGED << vars, disk >>, C!ConvertInput
  PROVE  /\ convert_i \in 1 .. Len(Inputs) /\ Inputs' = Inputs /\ (Combining' <=> Combining)
         /\ (C!Apart' <=> C!Apart) /\ (C!TextFits' <=> C!TextFits) /\ C!Named' = C!Named
         /\ \A path : C!IsObject(path)' <=> C!IsObject(path)
         /\ Inputs[convert_i] \in DOMAIN files
         /\ convert_pc = "inputs" /\ convert_pc' = "inputs"
         /\ convert_i' = convert_i + 1 /\ Len(ba_paths') = convert_i
         /\ IsSequence(ba_paths')
         /\ \A n \in 1 .. convert_i - 1 : ba_paths'[n] = ba_paths[n]
         /\ ba_paths'[convert_i] = IF C!IsConverted(Inputs[convert_i])
                                   THEN C!Printed(Inputs[convert_i]) ELSE Inputs[convert_i]
         /\ ba_path_text_len' = ba_path_text_len + C!TextOf(Inputs[convert_i])
         /\ overflow' = (overflow \/ C!Rest < 0)
         /\ files' = IF C!IsConverted(Inputs[convert_i])
                     THEN C!Converted(Inputs[convert_i], C!Printed(Inputs[convert_i])) ELSE files
<1>1. /\ convert_i \in 1 .. Len(Inputs) + 1 /\ Len(ba_paths) = convert_i - 1
      /\ Len(Inputs) \in Nat
  BY LoopWords DEF ConvertInv, C!TypeOK, Inputs
<1>2. /\ convert_i <= Len(Inputs) /\ convert_i' = convert_i + 1
      /\ Inputs[convert_i] \in DOMAIN files
      /\ convert_pc = "inputs" /\ convert_pc' = "inputs"
      /\ ba_path_text_len' = ba_path_text_len + C!TextOf(Inputs[convert_i])
      /\ overflow' = (overflow \/ C!Rest < 0)
      /\ files' = IF C!IsConverted(Inputs[convert_i])
                  THEN C!Converted(Inputs[convert_i], C!Printed(Inputs[convert_i])) ELSE files
  BY DEF C!ConvertInput, Inputs
<1> DEFINE e == IF C!IsConverted(Inputs[convert_i])
                THEN C!Printed(Inputs[convert_i]) ELSE Inputs[convert_i]
<1>3. ba_paths' = Append(ba_paths, e)
  BY DEF C!ConvertInput, Inputs
<1> HIDE DEF e
<1>4. /\ IsSequence(ba_paths')
      /\ Len(ba_paths') = Len(ba_paths) + 1 /\ ba_paths'[Len(ba_paths) + 1] = e
      /\ \A n \in 1 .. Len(ba_paths) : ba_paths'[n] = ba_paths[n]
  <2>1. IsSequence(ba_paths)
    BY DEF ConvertInv
  <2>2. QED
    BY <1>3, <2>1, Appended
<1>5. Len(ba_paths) + 1 = convert_i /\ convert_i \in 1 .. Len(Inputs)
  BY <1>1, <1>2
<1>6. /\ Inputs' = Inputs /\ (Combining' <=> Combining)
      /\ (C!Apart' <=> C!Apart) /\ (C!TextFits' <=> C!TextFits) /\ C!Named' = C!Named
      /\ \A path : C!IsObject(path)' <=> C!IsObject(path)
  BY InputsStay DEF vars
<1>7. /\ Len(ba_paths') = convert_i /\ ba_paths'[convert_i] = e
      /\ \A n \in 1 .. convert_i - 1 : ba_paths'[n] = ba_paths[n]
  <2>1. Len(ba_paths) = convert_i - 1
    BY <1>1
  <2>2. QED
    BY <1>4, <1>5, <2>1
<1>8. QED
  BY <1>2, <1>4, <1>5, <1>6, <1>7 DEF e

LEMMA LoopTypes ==
  ASSUME ConvertInv, Inputs \in Seq(Seq(STRING)), UNCHANGED << vars, disk >>, C!ConvertInput
  PROVE  /\ C!TypeOK' /\ ba_path_text_len' = SumOfMarks(Inputs')[convert_i' - 1]
         /\ (~ Combining => C!Init)'
<1>1. /\ convert_i \in 1 .. Len(Inputs) /\ Len(Inputs) \in Nat /\ Inputs' = Inputs
      /\ Inputs[convert_i] \in Seq(STRING) /\ convert_i' = convert_i + 1
  BY LoopStep, LoopWords
<1>2. /\ ba_path_text_len = SumOfMarks(Inputs)[convert_i - 1] /\ ba_path_text_len \in Nat
      /\ overflow \in BOOLEAN /\ DOMAIN disk \subseteq DOMAIN files
      /\ \A p \in DOMAIN files : files[p].format \in C!Format
  BY DEF ConvertInv, C!TypeOK
<1>3. /\ C!TextOf(Inputs[convert_i]) \in Nat
      /\ SumOfMarks(Inputs)[convert_i] =
           SumOfMarks(Inputs)[convert_i - 1] + C!TextOf(Inputs[convert_i])
  BY <1>1, PathFacts, MarksAdd
<1>4. /\ ba_path_text_len' \in Nat
      /\ ba_path_text_len' = SumOfMarks(Inputs')[convert_i' - 1]
  <2>1. convert_i' - 1 = convert_i
    BY <1>1
  <2>2. ba_path_text_len' = ba_path_text_len + C!TextOf(Inputs[convert_i])
    BY LoopStep
  <2>3. QED
    BY <1>1, <1>2, <1>3, <2>1, <2>2
<1>5. /\ DOMAIN disk' \subseteq DOMAIN files'
      /\ \A p \in DOMAIN files' : files'[p].format \in C!Format
  <2>1. CASE C!IsConverted(Inputs[convert_i])
    <3> DEFINE path == C!Printed(Inputs[convert_i])
    <3>1. files' = [p \in DOMAIN files \union {path} |->
                     IF p = path THEN C!File("artifact", files[Inputs[convert_i]].origin)
                     ELSE files[p]]
      BY <2>1, LoopStep DEF C!Converted
    <3>2. C!File("artifact", files[Inputs[convert_i]].origin).format \in C!Format
      BY DEF C!File, C!Format
    <3> HIDE DEF path
    <3>3. DOMAIN files' = DOMAIN files \union {path} /\ disk' = disk
      BY <3>1
    <3>4. \A p \in DOMAIN files' : files'[p].format \in C!Format
      BY <1>2, <3>1, <3>2
    <3>5. QED
      BY <1>2, <3>3, <3>4
  <2>2. CASE ~ C!IsConverted(Inputs[convert_i])
    <3>1. files' = files /\ disk' = disk
      BY <2>2, LoopStep
    <3>2. QED
      BY <1>2, <3>1
  <2>3. QED
    BY <2>1, <2>2
<1>6. convert_i' \in 1 .. Len(Inputs') + 1 /\ Len(ba_paths') = convert_i' - 1
  <2>1. Len(ba_paths') = convert_i
    BY LoopStep
  <2>2. QED
    BY <1>1, <2>1
<1>7. overflow' \in BOOLEAN
  BY <1>2, LoopStep
<1>8. C!TypeOK'
  <2>1. convert_pc' \in {"inputs", "crashed"}
    BY LoopStep
  <2>2. QED
    BY <1>4, <1>5, <1>6, <1>7, <2>1 DEF C!TypeOK, Inputs, C!Format
<1>9. Combining
  <2>1. Inputs # << >>
    BY <1>1
  <2>2. QED
    BY <2>1 DEF Inputs
<1>10. Combining'
  BY <1>9, LoopStep
<1>11. QED
  BY <1>4, <1>8, <1>10

(* As long as all paths fit, each is printed in full.                       *)
LEMMA LoopFits ==
  ASSUME ConvertInv, Inputs \in Seq(Seq(STRING)), UNCHANGED << vars, disk >>, C!ConvertInput,
         C!TextFits
  PROVE  /\ C!Printed(Inputs[convert_i]) = C!ConvertedPath(Inputs[convert_i])
         /\ ~ overflow' /\ ba_path_text_len' <= Cap
<1>1. /\ convert_i \in 1 .. Len(Inputs) /\ Len(Inputs) \in Nat
      /\ Inputs[convert_i] \in Seq(STRING)
      /\ SumOfMarks(Inputs)[Len(Inputs)] <= Cap
  BY LoopStep, LoopWords
<1>2. /\ ba_path_text_len = SumOfMarks(Inputs)[convert_i - 1] /\ ba_path_text_len \in Nat
      /\ ~ overflow
  BY DEF ConvertInv, C!TypeOK, C!PathsFitTheBlock
<1>3. /\ C!TextOf(Inputs[convert_i]) \in Nat
      /\ SumOfMarks(Inputs)[convert_i] = ba_path_text_len + C!TextOf(Inputs[convert_i])
  BY <1>1, <1>2, PathFacts, MarksAdd
<1>4. SumOfMarks(Inputs)[convert_i] <= SumOfMarks(Inputs)[Len(Inputs)]
  <2>1. convert_i \in 0 .. Len(Inputs)
    BY <1>1
  <2>2. QED
    BY <2>1, MarksGrow
<1>5. SumOfMarks(Inputs)[Len(Inputs)] \in Nat /\ Cap \in Nat
  <2>1. Len(Inputs) \in 0 .. Len(Inputs)
    BY <1>1
  <2>2. QED
    BY <2>1, MarksAdd, SizesAssumption DEF C!CapAssumption
<1>6. ba_path_text_len + C!TextOf(Inputs[convert_i]) <= Cap
  BY <1>1, <1>2, <1>3, <1>4, <1>5
<1>7. C!TextOf(Inputs[convert_i]) <= C!Rest /\ ~ C!Rest < 0
  BY <1>2, <1>3, <1>5, <1>6 DEF C!Rest
<1>8. C!Printed(Inputs[convert_i]) = C!ConvertedPath(Inputs[convert_i])
  BY <1>7 DEF C!Printed
<1>9. ~ overflow' /\ ba_path_text_len' <= Cap
  BY <1>2, <1>6, <1>7, LoopStep
<1>10. QED
  BY <1>8, <1>9

LEMMA LoopKeepsPaths ==
  ASSUME ConvertInv, Inputs \in Seq(Seq(STRING)), UNCHANGED << vars, disk >>, C!ConvertInput
  PROVE  C!PathsFitTheBlock'
<1>1. /\ (C!TextFits' <=> C!TextFits) /\ Inputs' = Inputs /\ convert_i \in 1 .. Len(Inputs)
      /\ Len(ba_paths') = convert_i /\ IsSequence(ba_paths')
      /\ \A n \in 1 .. convert_i - 1 : ba_paths'[n] = ba_paths[n]
      /\ ba_paths'[convert_i] \in {Inputs[convert_i], C!Printed(Inputs[convert_i])}
  BY LoopStep
<1>2. SUFFICES ASSUME C!TextFits
               PROVE  /\ ~ overflow' /\ ba_path_text_len' <= Cap
                      /\ \A n \in DOMAIN ba_paths' :
                           ba_paths'[n] \in {Inputs'[n], C!ConvertedPath(Inputs'[n])}
  BY <1>1 DEF C!PathsFitTheBlock, Inputs
<1>3. /\ C!Printed(Inputs[convert_i]) = C!ConvertedPath(Inputs[convert_i])
      /\ ~ overflow' /\ ba_path_text_len' <= Cap
  BY <1>2, LoopFits
<1>4. \A n \in DOMAIN ba_paths : ba_paths[n] \in {Inputs[n], C!ConvertedPath(Inputs[n])}
  BY <1>2 DEF ConvertInv, C!PathsFitTheBlock, Inputs
<1>5. DOMAIN ba_paths = 1 .. convert_i - 1 /\ DOMAIN ba_paths' = 1 .. convert_i
  BY <1>1 DEF ConvertInv, C!TypeOK
<1>6. ASSUME NEW n \in 1 .. convert_i
      PROVE  ba_paths'[n] \in {Inputs[n], C!ConvertedPath(Inputs[n])}
  <2>1. CASE n = convert_i
    BY <1>1, <1>3, <2>1
  <2>2. CASE n # convert_i
    <3>1. n \in 1 .. convert_i - 1
      BY <1>1, <2>2
    <3>2. QED
      BY <1>1, <1>4, <1>5, <3>1
  <2>3. QED
    BY <2>1, <2>2
<1>7. QED
  BY <1>1, <1>3, <1>5, <1>6

LEMMA LoopKeepsFiles ==
  ASSUME ConvertInv, Inputs \in Seq(Seq(STRING)), UNCHANGED << vars, disk >>, C!ConvertInput,
         C!Apart, C!TextFits
  PROVE  /\ \A path \in C!Named :
              IF path \in DOMAIN disk THEN files'[path] = disk[path] ELSE path \notin DOMAIN files'
         /\ ArtifactsSoFar'
<1> DEFINE i == convert_i
           input == Inputs[i]
           path == C!ConvertedPath(input)
<1>1. /\ i \in 1 .. Len(Inputs) /\ Inputs' = Inputs /\ Len(Inputs) \in Nat /\ disk' = disk
      /\ input \in C!Named
      /\ \A n \in 1 .. Len(Inputs) : Inputs[n] \in C!Named
  BY LoopStep, LoopWords
<1>2. \A name \in C!Named :
        IF name \in DOMAIN disk THEN files[name] = disk[name] ELSE name \notin DOMAIN files
  BY DEF ConvertInv, C!InputsAreKept
<1>3. DOMAIN disk \subseteq DOMAIN files
  BY DEF ConvertInv, C!TypeOK
<1>4. ArtifactsSoFar /\ input \in DOMAIN disk
  <2>1. input \in DOMAIN files
    BY LoopStep
  <2>2. ArtifactsSoFar
    BY DEF ConvertInv
  <2>3. QED
    BY <1>1, <1>2, <2>1, <2>2
<1>5. C!IsConverted(input) <=> C!IsObject(input)
  BY <1>1, <1>2, <1>4 DEF C!IsConverted, C!IsObject
<1>6. C!Printed(input) = path
  BY LoopFits
<1>7. /\ convert_i' - 1 = i /\ \A n \in 1 .. i - 1 : ba_paths'[n] = ba_paths[n]
      /\ ba_paths'[i] = IF C!IsObject(input) THEN path ELSE input
      /\ \A p : C!IsObject(p)' <=> C!IsObject(p)
  BY <1>1, <1>5, <1>6, LoopStep
<1>8. CASE ~ C!IsObject(input)
  <2>1. files' = files
    BY <1>5, <1>8, LoopStep
  <2>2. ASSUME NEW n \in 1 .. i
        PROVE  /\ Inputs[n] \in DOMAIN disk
               /\ IF C!IsObject(Inputs[n])
                  THEN /\ ba_paths'[n] = C!ConvertedPath(Inputs[n])
                       /\ ba_paths'[n] \in DOMAIN files'
                       /\ files'[ba_paths'[n]] = C!File("artifact", Inputs[n])
                  ELSE ba_paths'[n] = Inputs[n]
    <3>1. CASE n = i
      BY <1>4, <1>7, <1>8, <3>1
    <3>2. CASE n # i
      <4>1. n \in 1 .. i - 1
        BY <1>1, <3>2
      <4>2. QED
        BY <1>4, <1>7, <2>1, <4>1 DEF ArtifactsSoFar
    <3>3. QED
      BY <3>1, <3>2
  <2>3. ArtifactsSoFar'
    BY <1>1, <1>7, <2>2 DEF ArtifactsSoFar
  <2>4. QED
    BY <1>2, <2>1, <2>3
<1>9. CASE C!IsObject(input)
  <2>1. files[input].origin = input
    <3>1. input \in DOMAIN disk /\ files[input] = disk[input]
      BY <1>1, <1>2, <1>9 DEF C!IsObject
    <3>2. QED
      BY <3>1 DEF ConvertInv, SoundFiles, C!File
  <2>2. files' = [p \in DOMAIN files \union {path} |->
                   IF p = path THEN C!File("artifact", input) ELSE files[p]]
    BY <1>5, <1>6, <1>9, <2>1, LoopStep DEF C!Converted
  <2>3. /\ path \notin C!Named
        /\ \A n \in 1 .. Len(Inputs) :
             i # n /\ C!IsObject(Inputs[n]) => path # C!ConvertedPath(Inputs[n])
    BY <1>1, <1>9, ApartFacts
  <2> HIDE DEF path
  <2>4. /\ path \in DOMAIN files' /\ files'[path] = C!File("artifact", input)
        /\ \A p \in DOMAIN files : p \in DOMAIN files' /\ (p # path => files'[p] = files[p])
        /\ \A p : p \in DOMAIN files' => p \in DOMAIN files \/ p = path
    BY <2>2
  <2>5. ASSUME NEW name \in C!Named
        PROVE  IF name \in DOMAIN disk THEN files'[name] = disk[name]
               ELSE name \notin DOMAIN files'
    BY <1>2, <1>3, <2>3, <2>4
  <2>6. ASSUME NEW n \in 1 .. i
        PROVE  /\ Inputs[n] \in DOMAIN disk
               /\ IF C!IsObject(Inputs[n])
                  THEN /\ ba_paths'[n] = C!ConvertedPath(Inputs[n])
                       /\ ba_paths'[n] \in DOMAIN files'
                       /\ files'[ba_paths'[n]] = C!File("artifact", Inputs[n])
                  ELSE ba_paths'[n] = Inputs[n]
    <3>1. CASE n = i
      BY <1>4, <1>7, <1>9, <2>4, <3>1 DEF path
    <3>2. CASE n # i
      <4>1. n \in 1 .. i - 1 /\ n \in 1 .. Len(Inputs)
        BY <1>1, <3>2
      <4>2. /\ Inputs[n] \in DOMAIN disk
            /\ IF C!IsObject(Inputs[n])
               THEN /\ ba_paths[n] = C!ConvertedPath(Inputs[n]) /\ ba_paths[n] \in DOMAIN files
                    /\ files[ba_paths[n]] = C!File("artifact", Inputs[n])
               ELSE ba_paths[n] = Inputs[n]
        BY <1>4, <4>1 DEF ArtifactsSoFar
      <4>3. C!IsObject(Inputs[n]) => ba_paths[n] # path
        BY <2>3, <3>2, <4>1, <4>2
      <4>4. ba_paths'[n] = ba_paths[n]
        BY <1>7, <4>1
      <4>5. QED
        BY <2>4, <4>2, <4>3, <4>4
    <3>3. QED
      BY <3>1, <3>2
  <2>7. ArtifactsSoFar'
    BY <1>1, <1>7, <2>6 DEF ArtifactsSoFar
  <2>8. QED
    BY <2>5, <2>7
<1>10. QED
  BY <1>8, <1>9

LEMMA ConvertStepKeeps ==
  ASSUME ConvertInv, Inputs \in Seq(Seq(STRING)), UNCHANGED << vars, disk >>, C!ConvertInput
  PROVE  ConvertInv'
<1>1. SoundFiles'
  BY DEF ConvertInv, SoundFiles
<1>2. /\ (C!Apart' <=> C!Apart) /\ (C!TextFits' <=> C!TextFits) /\ C!Named' = C!Named
      /\ disk' = disk /\ IsSequence(ba_paths')
  BY LoopStep
<1>3. C!InputsAreKept'
  BY <1>2, LoopKeepsFiles DEF C!InputsAreKept
<1>4. (C!Apart /\ C!TextFits => ArtifactsSoFar)'
  BY <1>2, LoopKeepsFiles
<1>5. C!PathsFitTheBlock'
  BY LoopKeepsPaths
<1>6. /\ C!TypeOK' /\ ba_path_text_len' = SumOfMarks(Inputs')[convert_i' - 1]
      /\ (~ Combining => C!Init)'
  BY LoopTypes
<1>7. convert_pc' # "crashed"
  BY LoopStep
<1>8. QED
  BY <1>1, <1>2, <1>3, <1>4, <1>5, <1>6, <1>7 DEF ConvertInv, SumOfMarks

(* The other step of the loop changes nothing but where it is.              *)
LEMMA DeathKeeps ==
  ASSUME ConvertInv, Inputs \in Seq(Seq(STRING)), UNCHANGED << vars, disk >>, C!DieOfMissing
  PROVE  ConvertInv'
<1>1. /\ call' = call /\ disk' = disk /\ files' = files /\ convert_i' = convert_i
      /\ ba_paths' = ba_paths /\ ba_path_text_len' = ba_path_text_len /\ overflow' = overflow
      /\ convert_pc' = "crashed" /\ convert_i <= Len(Inputs)
      /\ Inputs[convert_i] \notin DOMAIN files
  BY DEF vars, C!DieOfMissing, Inputs
<1>2. /\ Inputs' = Inputs /\ (Combining' <=> Combining)
      /\ (C!Apart' <=> C!Apart) /\ (C!TextFits' <=> C!TextFits) /\ C!Named' = C!Named
      /\ \A path : C!IsObject(path)' <=> C!IsObject(path)
  BY <1>1, InputsStay
<1>3. Combining'
  <2>1. convert_i \in 1 .. Len(Inputs) + 1
    BY DEF ConvertInv, C!TypeOK, Inputs
  <2>2. Inputs # << >>
    BY <1>1, <2>1
  <2>3. QED
    BY <1>2, <2>2 DEF Inputs
<1>4. SoundFiles' /\ IsSequence(ba_paths')
  BY <1>1 DEF ConvertInv, SoundFiles
<1>5. C!TypeOK'
  BY <1>1, <1>2 DEF ConvertInv, C!TypeOK, Inputs
<1>6. C!PathsFitTheBlock' /\ C!InputsAreKept'
  BY <1>1, <1>2 DEF ConvertInv, C!PathsFitTheBlock, C!InputsAreKept, Inputs
<1>7. (C!Apart /\ C!TextFits => ArtifactsSoFar)'
  BY <1>1, <1>2 DEF ConvertInv, ArtifactsSoFar
<1>8. ba_path_text_len' = SumOfMarks(Inputs')[convert_i' - 1]
  BY <1>1, <1>2 DEF ConvertInv
<1>9. convert_i' <= Len(Inputs') /\ Inputs'[convert_i'] \notin DOMAIN disk'
  BY <1>1, <1>2 DEF ConvertInv, C!TypeOK
<1>10. QED
  BY <1>3, <1>4, <1>5, <1>6, <1>7, <1>8, <1>9 DEF ConvertInv, SumOfMarks

LEMMA ReadingKeepsConvert ==
  ASSUME ConvertInv, CommandLineInv, CommandLineInv', ReadCommandLine
  PROVE  ConvertInv'
<1>1. ~ Combining
  BY DEF ReadCommandLine, Next, SetOption, EndOptions, SetOutput, AddFile, Dispatch, Parsing,
     Nothing, Combining
<1>2. /\ files = disk /\ convert_pc = "inputs" /\ convert_i = 1 /\ ba_paths = << >>
      /\ ba_path_text_len = 0
      /\ overflow = FALSE /\ SoundFiles
  BY <1>1 DEF ConvertInv, C!Init
<1>3. /\ files' = disk' /\ convert_pc' = "inputs" /\ convert_i' = 1 /\ ba_paths' = << >>
      /\ ba_path_text_len' = 0
      /\ overflow' = FALSE /\ SoundFiles' /\ disk' = disk
  BY <1>2 DEF ReadCommandLine, convert_vars, SoundFiles
<1>4. Inputs' \in Seq(Seq(STRING))
  <2>1. Combining' => call'.files \in Seq(DOMAIN Spelling)
    BY DEF CommandLineInv, FilesSoFar, Combining
  <2>2. Inputs' = IF Combining' THEN Spelled(call'.files) ELSE << >>
    BY DEF Inputs, Spelled
  <2>3. CASE Combining'
    BY <2>1, <2>2, <2>3, SpelledPaths
  <2>4. CASE ~ Combining'
    BY <2>2, <2>4
  <2>5. QED
    BY <2>3, <2>4
<1>5. /\ Len(Inputs') \in Nat /\ 1 \in 1 .. Len(Inputs') + 1
      /\ SumOfMarks(Inputs')[0] = 0 /\ Cap \in Nat
  BY <1>4, MarksAdd, SizesAssumption DEF C!CapAssumption
<1>6. /\ Len(ba_paths') = 0 /\ DOMAIN ba_paths' = {} /\ IsSequence(ba_paths')
      /\ 1 .. convert_i' - 1 = {}
  <2>1. IsSequence(ba_paths')
    BY <1>3, EmptySequence
  <2>2. Len(ba_paths') = 0 /\ DOMAIN ba_paths' = {} /\ 1 .. convert_i' - 1 = {}
    BY <1>3
  <2>3. QED
    BY <2>1, <2>2
<1>7. \A p \in DOMAIN disk' : disk'[p].format \in C!Format
  BY <1>3 DEF SoundFiles, C!File
<1>8. C!TypeOK'
  <2>1. /\ convert_pc' \in {"inputs", "crashed"}
        /\ convert_i' \in 1 .. Len(Inputs') + 1 /\ Len(ba_paths') = convert_i' - 1
        /\ ba_path_text_len' \in Nat
    BY <1>3, <1>5, <1>6
  <2>2. /\ overflow' \in BOOLEAN /\ DOMAIN disk' \subseteq DOMAIN files'
        /\ \A p \in DOMAIN files' : files'[p].format \in C!Format
    BY <1>3, <1>7
  <2>3. QED
    BY <2>1, <2>2 DEF C!TypeOK, Inputs, C!Format
<1>9. C!PathsFitTheBlock' /\ C!InputsAreKept' /\ C!Init'
  BY <1>3, <1>5, <1>6 DEF C!PathsFitTheBlock, C!InputsAreKept, C!Init
<1>10. ArtifactsSoFar'
  BY <1>6 DEF ArtifactsSoFar
<1>11. ba_path_text_len' = SumOfMarks(Inputs')[convert_i' - 1]
  BY <1>3, <1>5
<1>12. QED
  BY <1>3, <1>6, <1>8, <1>9, <1>10, <1>11 DEF ConvertInv, SumOfMarks

LEMMA ConvertStarts ==
  ASSUME CommandInit
  PROVE  ConvertInv
<1>1. ~ Combining /\ Inputs = << >>
  BY DEF CommandInit, Init, Nothing, Combining, Inputs
<1>2. /\ files = disk /\ convert_pc = "inputs" /\ convert_i = 1 /\ ba_paths = << >>
      /\ ba_path_text_len = 0
      /\ overflow = FALSE /\ C!Init
  BY DEF CommandInit, C!Init
<1>3. SoundFiles
  BY ScenesAssumption DEF CommandInit, SoundFiles
<1>4. /\ Len(Inputs) = 0 /\ Inputs \in Seq(Seq(STRING)) /\ SumOfMarks(Inputs)[0] = 0
      /\ Cap \in Nat
  <2>1. Len(Inputs) = 0 /\ Inputs \in Seq(Seq(STRING))
    BY <1>1
  <2>2. QED
    BY <2>1, MarksAdd, SizesAssumption DEF C!CapAssumption
<1>5. /\ Len(ba_paths) = 0 /\ DOMAIN ba_paths = {} /\ IsSequence(ba_paths)
      /\ 1 .. convert_i - 1 = {}
  <2>1. IsSequence(ba_paths)
    BY <1>2, EmptySequence
  <2>2. Len(ba_paths) = 0 /\ DOMAIN ba_paths = {} /\ 1 .. convert_i - 1 = {}
    BY <1>2
  <2>3. QED
    BY <2>1, <2>2
<1>6. \A p \in DOMAIN disk : disk[p].format \in C!Format
  BY <1>3 DEF SoundFiles, C!File
<1>7. C!TypeOK
  <2>1. /\ convert_pc \in {"inputs", "crashed"}
        /\ convert_i \in 1 .. Len(Inputs) + 1 /\ Len(ba_paths) = convert_i - 1
        /\ ba_path_text_len \in Nat
    BY <1>2, <1>4, <1>5
  <2>2. /\ overflow \in BOOLEAN /\ DOMAIN disk \subseteq DOMAIN files
        /\ \A p \in DOMAIN files : files[p].format \in C!Format
    BY <1>2, <1>6
  <2>3. QED
    BY <2>1, <2>2 DEF C!TypeOK, Inputs, C!Format
<1>8. C!PathsFitTheBlock /\ C!InputsAreKept
  BY <1>2, <1>4, <1>5 DEF C!PathsFitTheBlock, C!InputsAreKept
<1>9. ArtifactsSoFar
  BY <1>5 DEF ArtifactsSoFar
<1>10. QED
  BY <1>2, <1>3, <1>4, <1>5, <1>7, <1>8, <1>9 DEF ConvertInv

LEMMA ConvertKept ==
  ASSUME CommandLineInv, ConvertInv, CommandLineInv',
         [CommandNext]_<< vars, disk, convert_vars, join_vars >>
  PROVE  ConvertInv'
<1>1. CASE ReadCommandLine
  BY <1>1, ReadingKeepsConvert
<1>2. CASE ConvertInputs
  BY <1>2, InputPaths, ConvertStepKeeps, DeathKeeps DEF ConvertInputs, C!Next
<1>3. CASE UNCHANGED << vars, disk, convert_vars >>
  <2>1. /\ call' = call /\ disk' = disk /\ files' = files /\ convert_i' = convert_i
        /\ convert_pc' = convert_pc /\ ba_paths' = ba_paths
        /\ ba_path_text_len' = ba_path_text_len /\ overflow' = overflow
    BY <1>3 DEF vars, convert_vars
  <2>2. /\ Inputs' = Inputs /\ (Combining' <=> Combining)
        /\ (C!Apart' <=> C!Apart) /\ (C!TextFits' <=> C!TextFits) /\ C!Named' = C!Named
        /\ \A path : C!IsObject(path)' <=> C!IsObject(path)
    BY <2>1, InputsStay
  <2>3. SoundFiles' /\ (~ Combining => C!Init)'
    BY <2>1, <2>2 DEF ConvertInv, SoundFiles, C!Init
  <2>4. C!TypeOK' /\ IsSequence(ba_paths')
    BY <2>1, <2>2 DEF ConvertInv, C!TypeOK, Inputs
  <2>5. C!PathsFitTheBlock' /\ C!InputsAreKept'
    BY <2>1, <2>2 DEF ConvertInv, C!PathsFitTheBlock, C!InputsAreKept, Inputs
  <2>6. (C!Apart /\ C!TextFits => ArtifactsSoFar)'
    BY <2>1, <2>2 DEF ConvertInv, ArtifactsSoFar
  <2>7. ba_path_text_len' = SumOfMarks(Inputs')[convert_i' - 1]
    BY <2>1, <2>2 DEF ConvertInv
  <2>8. convert_pc' = "crashed" =>
          convert_i' <= Len(Inputs') /\ Inputs'[convert_i'] \notin DOMAIN disk'
    BY <2>1, <2>2 DEF ConvertInv
  <2>9. QED
    BY <2>3, <2>4, <2>5, <2>6, <2>7, <2>8 DEF ConvertInv, SumOfMarks
<1>4. QED
  BY <1>1, <1>2, <1>3 DEF CommandNext, PassArguments

(* Only an input that is not there ends the process; otherwise every input  *)
(* is combined as the artifact that was made from it, no file               *)
(* that was given is changed, and the block of the converted paths is       *)
(* overrun, or a path in it cut, only by inputs whose paths are too long    *)
(* together (format.c:906-935).                                             *)
THEOREM Converts == CommandSpec => []EachInputItsArtifact
<1>1. CommandLineInv /\ ConvertInv => EachInputItsArtifact
  <2> SUFFICES ASSUME CommandLineInv, ConvertInv
               PROVE  EachInputItsArtifact
    OBVIOUS
  <2>1. Inputs \in Seq(Seq(STRING))
    BY InputPaths
  <2>2. ASSUME C!Done, C!Apart, C!TextFits, NEW n \in 1 .. Len(Inputs)
        PROVE  /\ Inputs[n] \in DOMAIN disk
               /\ files[ba_paths[n]] = C!File("artifact", disk[Inputs[n]].origin)
    <3>1. ArtifactsSoFar /\ n \in 1 .. convert_i - 1
      <4>1. convert_i \in 1 .. Len(Inputs) + 1 /\ convert_i > Len(Inputs) /\ Len(Inputs) \in Nat
        BY <2>1, <2>2, LoopWords DEF ConvertInv, C!TypeOK, Inputs
      <4>2. QED
        BY <2>2, <4>1 DEF ConvertInv
    <3> Inputs[n] \in DOMAIN disk
      BY <3>1 DEF ArtifactsSoFar
    <3>2. PICK format \in C!Format : disk[Inputs[n]] = C!File(format, Inputs[n])
      BY DEF ConvertInv, SoundFiles
    <3>3. CASE C!IsObject(Inputs[n])
      BY <3>1, <3>2, <3>3 DEF ArtifactsSoFar, C!File
    <3>4. CASE ~ C!IsObject(Inputs[n])
      <4>1. ba_paths[n] = Inputs[n] /\ Inputs[n] \in C!Named
        BY <2>1, <3>1, <3>4, LoopWords DEF ArtifactsSoFar
      <4>2. files[Inputs[n]] = disk[Inputs[n]]
        BY <2>2, <4>1 DEF ConvertInv, C!InputsAreKept
      <4>3. format = "artifact"
        BY <2>2, <3>2, <3>4 DEF C!IsObject, C!File, C!Format
      <4>4. QED
        BY <3>2, <4>1, <4>2, <4>3 DEF C!File
    <3>5. QED
      BY <3>3, <3>4
  <2>3. C!Named \subseteq DOMAIN disk => convert_pc # "crashed"
    <3>1. convert_i \in 1 .. Len(Inputs) + 1
      BY DEF ConvertInv, C!TypeOK, Inputs
    <3>2. convert_pc = "crashed" => Inputs[convert_i] \in C!Named \ DOMAIN disk
      BY <2>1, <3>1, LoopWords DEF ConvertInv
    <3>3. QED
      BY <3>2
  <2>4. C!EachInputItsArtifact
    BY <2>1, <2>2, <2>3, LoopWords DEF C!EachInputItsArtifact, Inputs
  <2>5. QED
    BY <2>4 DEF ConvertInv, EachInputItsArtifact
<1>2. CommandInit => CommandLineInv /\ ConvertInv
  BY CommandLineStarts, ConvertStarts
<1>3. CommandLineInv /\ ConvertInv /\ [CommandNext]_<< vars, disk, convert_vars, join_vars >>
        => CommandLineInv' /\ ConvertInv'
  BY CommandLineKept, ConvertKept
<1>4. QED
  BY <1>1, <1>2, <1>3, PTL DEF CommandSpec

-------------------------------------------------------------------------------
(* Two functions that begin alike and go on alike are the same so far.      *)
GoOnAlike(f, g, m) == f[0] = g[0] /\ \A k \in 1 .. m : f[k - 1] = g[k - 1] => f[k] = g[k]

LEMMA Agree ==
  ASSUME NEW m \in Nat, NEW f, NEW g, GoOnAlike(f, g, m)
  PROVE  \A k \in 0 .. m : f[k] = g[k]
<1> USE DEF GoOnAlike
<1> DEFINE T == {k \in Nat : k <= m => f[k] = g[k]}
<1>1. 0 \in T
  OBVIOUS
<1>2. ASSUME NEW k \in Nat, k \in T
      PROVE  k + 1 \in T
  <2>1. SUFFICES ASSUME k + 1 <= m
                 PROVE  f[k + 1] = g[k + 1]
    OBVIOUS
  <2>2. k + 1 \in 1 .. m /\ k + 1 - 1 = k /\ f[k] = g[k]
    BY <1>2, <2>1
  <2>3. f[k + 1 - 1] = g[k + 1 - 1]
    BY <2>2
  <2>4. QED
    BY <2>2, <2>3
<1>3. Nat \subseteq T
  <2> HIDE DEF T
  <2>1. QED
    BY <1>1, <1>2, Induction
<1>4. QED
  BY <1>3

(* What is defined by a recursion that some function of a set follows is    *)
(* such a function itself.                                                  *)
LEMMA BytesAdd ==
  ASSUME NEW list \in Seq(Seq(Text))
  PROVE  /\ J!BytesUpto(list)[0] = 0
         /\ \A n \in 0 .. Len(list) : J!BytesUpto(list)[n] \in Nat
         /\ \A n \in 1 .. Len(list) :
              J!BytesUpto(list)[n] = J!BytesUpto(list)[n - 1] + Len(list[n]) + 1
<1> DEFINE n == Len(list)
           next == [vk \in Nat \X (1 .. n) |-> vk[1] + Len(list[vk[2]]) + 1]
           Is(u) == u = [k \in 0 .. Len(list) |->
                           IF k = 0 THEN 0 ELSE u[k - 1] + Len(list[k]) + 1]
           g == J!BytesUpto(list)
<1>1. n \in Nat /\ \A k \in 1 .. n : Len(list[k]) \in Nat
  OBVIOUS
<1>2. PICK f \in [0 .. n -> Nat] : Recurs(f, n, 0, next)
  <2>1. next \in [Nat \X (1 .. n) -> Nat]
    BY <1>1
  <2> HIDE DEF next
  <2>2. QED
    BY <1>1, <2>1, RecursionExists
<1>3. \A k \in 1 .. n : f[k] = f[k - 1] + Len(list[k]) + 1
  <2>1. ASSUME NEW k \in 1 .. n
        PROVE  f[k] = f[k - 1] + Len(list[k]) + 1
    <3>1. k - 1 \in 0 .. n
      BY <1>1
    <3>2. f[k] = next[<< f[k - 1], k >>] /\ f[k - 1] \in Nat
      BY <1>2, <3>1 DEF Recurs
    <3>3. QED
      BY <3>2
  <2>2. QED
    BY <2>1
<1>4. f[0] = 0
  BY <1>2 DEF Recurs
<1>5. Is(f)
  <2>1. ASSUME NEW k \in 0 .. n
        PROVE  f[k] = IF k = 0 THEN 0 ELSE f[k - 1] + Len(list[k]) + 1
    <3>1. CASE k = 0
      BY <1>4, <3>1
    <3>2. CASE k # 0
      <4>1. k \in 1 .. n
        BY <1>1, <3>2
      <4>2. QED
        BY <1>3, <3>2, <4>1
    <3>3. QED
      BY <3>1, <3>2
  <2>2. QED
    BY <2>1
<1>6. g = CHOOSE u : Is(u)
  BY DEF J!BytesUpto
<1>7. Is(g)
  BY <1>5, <1>6
<1>8. g[0] = 0 /\ \A k \in 1 .. n : g[k] = g[k - 1] + Len(list[k]) + 1
  <2> HIDE DEF g
  <2>1. \A k \in 0 .. n : g[k] = IF k = 0 THEN 0 ELSE g[k - 1] + Len(list[k]) + 1
    BY <1>7
  <2>2. 0 \in 0 .. n /\ \A k \in 1 .. n : k \in 0 .. n /\ k # 0
    BY <1>1
  <2>3. QED
    BY <2>1, <2>2
<1>9. \A k \in 0 .. n : g[k] = f[k]
  <2> HIDE DEF g, Is
  <2>1. ASSUME NEW k \in 1 .. n, g[k - 1] = f[k - 1]
        PROVE  g[k] = f[k]
    BY <1>3, <1>8, <2>1, Zenon
  <2>2. GoOnAlike(g, f, n)
    BY <1>4, <1>8, <2>1 DEF GoOnAlike
  <2> HIDE DEF n
  <2>3. QED
    BY <1>1, <2>2, Agree
<1>10. QED
  BY <1>2, <1>8, <1>9

LEMMA InkIs ==
  ASSUME NEW text \in Seq(Text)
  PROVE  /\ J!InkUpto(text)[0] = << >>
         /\ \A n \in 0 .. Len(text) : J!InkUpto(text)[n] \in Seq(Text)
         /\ \A n \in 1 .. Len(text) :
              J!InkUpto(text)[n] = IF text[n] = J!Blank THEN J!InkUpto(text)[n - 1]
                                   ELSE Append(J!InkUpto(text)[n - 1], text[n])
<1> DEFINE n == Len(text)
           next == [vk \in Seq(Text) \X (1 .. n) |->
                      IF text[vk[2]] = J!Blank THEN vk[1] ELSE Append(vk[1], text[vk[2]])]
           Is(u) == u = [k \in 0 .. Len(text) |->
                           IF k = 0 THEN << >>
                           ELSE IF text[k] = J!Blank THEN u[k - 1] ELSE Append(u[k - 1], text[k])]
           g == J!InkUpto(text)
<1>1. n \in Nat /\ \A k \in 1 .. n : text[k] \in Text
  OBVIOUS
<1>2. PICK f \in [0 .. n -> Seq(Text)] : Recurs(f, n, << >>, next)
  <2>1. next \in [Seq(Text) \X (1 .. n) -> Seq(Text)] /\ << >> \in Seq(Text)
    BY <1>1
  <2> HIDE DEF next
  <2>2. QED
    BY <1>1, <2>1, RecursionExists
<1>3. \A k \in 1 .. n :
        f[k] = IF text[k] = J!Blank THEN f[k - 1] ELSE Append(f[k - 1], text[k])
  <2>1. ASSUME NEW k \in 1 .. n
        PROVE  f[k] = IF text[k] = J!Blank THEN f[k - 1] ELSE Append(f[k - 1], text[k])
    <3>1. k - 1 \in 0 .. n
      BY <1>1
    <3>2. f[k] = next[<< f[k - 1], k >>] /\ f[k - 1] \in Seq(Text)
      BY <1>2, <3>1 DEF Recurs
    <3>3. QED
      BY <3>2
  <2>2. QED
    BY <2>1
<1>4. f[0] = << >>
  BY <1>2 DEF Recurs
<1>5. Is(f)
  <2>1. ASSUME NEW k \in 0 .. n
        PROVE 
          f[k] = IF k = 0 THEN << >>
                 ELSE IF text[k] = J!Blank THEN f[k - 1] ELSE Append(f[k - 1], text[k])
    <3>1. CASE k = 0
      BY <1>4, <3>1
    <3>2. CASE k # 0
      <4>1. k \in 1 .. n
        BY <1>1, <3>2
      <4>2. QED
        BY <1>3, <3>2, <4>1
    <3>3. QED
      BY <3>1, <3>2
  <2>2. QED
    BY <2>1
<1>6. g = CHOOSE u : Is(u)
  BY DEF J!InkUpto
<1>7. Is(g)
  BY <1>5, <1>6
<1>8. /\ g[0] = << >>
      /\ \A k \in 1 .. n :
           g[k] = IF text[k] = J!Blank THEN g[k - 1] ELSE Append(g[k - 1], text[k])
  <2> HIDE DEF g
  <2>1. \A k \in 0 .. n :
          g[k] = IF k = 0 THEN << >>
                 ELSE IF text[k] = J!Blank THEN g[k - 1] ELSE Append(g[k - 1], text[k])
    BY <1>7
  <2>2. 0 \in 0 .. n /\ \A k \in 1 .. n : k \in 0 .. n /\ k # 0
    BY <1>1
  <2>3. QED
    BY <2>1, <2>2
<1>9. \A k \in 0 .. n : g[k] = f[k]
  <2> HIDE DEF g, Is
  <2>1. ASSUME NEW k \in 1 .. n, g[k - 1] = f[k - 1]
        PROVE  g[k] = f[k]
    BY <1>3, <1>8, <2>1, Zenon
  <2>2. GoOnAlike(g, f, n)
    BY <1>4, <1>8, <2>1 DEF GoOnAlike
  <2> HIDE DEF n
  <2>3. QED
    BY <1>1, <2>2, Agree, Zenon
<1>10. QED
  BY <1>2, <1>8, <1>9

LEMMA InkType ==
  ASSUME NEW text \in Seq(Text)
  PROVE  J!Ink(text) \in Seq(Text)
<1>1. Len(text) \in 0 .. Len(text)
  OBVIOUS
<1>2. QED
  BY <1>1, InkIs DEF J!Ink

LEMMA InksAre ==
  ASSUME NEW list \in Seq(Seq(Text))
  PROVE  /\ J!InksUpto(list)[0] = << >>
         /\ \A n \in 0 .. Len(list) : J!InksUpto(list)[n] \in Seq(Text)
         /\ \A n \in 1 .. Len(list) :
              J!InksUpto(list)[n] = J!InksUpto(list)[n - 1] \o J!Ink(list[n])
<1> DEFINE n == Len(list)
           next == [vk \in Seq(Text) \X (1 .. n) |-> vk[1] \o J!Ink(list[vk[2]])]
           Is(u) == u = [k \in 0 .. Len(list) |->
                           IF k = 0 THEN << >> ELSE u[k - 1] \o J!Ink(list[k])]
           g == J!InksUpto(list)
<1>1. n \in Nat /\ \A k \in 1 .. n : J!Ink(list[k]) \in Seq(Text)
  <2>1. n \in Nat /\ \A k \in 1 .. n : list[k] \in Seq(Text)
    OBVIOUS
  <2>2. QED
    BY <2>1, InkType
<1>2. PICK f \in [0 .. n -> Seq(Text)] : Recurs(f, n, << >>, next)
  <2>1. next \in [Seq(Text) \X (1 .. n) -> Seq(Text)] /\ << >> \in Seq(Text)
    BY <1>1
  <2> HIDE DEF next
  <2>2. QED
    BY <1>1, <2>1, RecursionExists
<1>3. \A k \in 1 .. n : f[k] = f[k - 1] \o J!Ink(list[k])
  <2>1. ASSUME NEW k \in 1 .. n
        PROVE  f[k] = f[k - 1] \o J!Ink(list[k])
    <3>1. k - 1 \in 0 .. n
      BY <1>1
    <3>2. f[k] = next[<< f[k - 1], k >>] /\ f[k - 1] \in Seq(Text)
      BY <1>2, <3>1 DEF Recurs
    <3>3. QED
      BY <3>2
  <2>2. QED
    BY <2>1
<1>4. f[0] = << >>
  BY <1>2 DEF Recurs
<1>5. Is(f)
  <2>1. ASSUME NEW k \in 0 .. n
        PROVE  f[k] = IF k = 0 THEN << >> ELSE f[k - 1] \o J!Ink(list[k])
    <3>1. CASE k = 0
      BY <1>4, <3>1
    <3>2. CASE k # 0
      <4>1. k \in 1 .. n
        BY <1>1, <3>2
      <4>2. QED
        BY <1>3, <3>2, <4>1
    <3>3. QED
      BY <3>1, <3>2
  <2>2. QED
    BY <2>1
<1>6. g = CHOOSE u : Is(u)
  BY DEF J!InksUpto
<1>7. Is(g)
  BY <1>5, <1>6
<1>8. g[0] = << >> /\ \A k \in 1 .. n : g[k] = g[k - 1] \o J!Ink(list[k])
  <2> HIDE DEF g
  <2>1. \A k \in 0 .. n : g[k] = IF k = 0 THEN << >> ELSE g[k - 1] \o J!Ink(list[k])
    BY <1>7
  <2>2. 0 \in 0 .. n /\ \A k \in 1 .. n : k \in 0 .. n /\ k # 0
    BY <1>1
  <2>3. QED
    BY <2>1, <2>2
<1>9. \A k \in 0 .. n : g[k] = f[k]
  <2> HIDE DEF g, Is
  <2>1. ASSUME NEW k \in 1 .. n, g[k - 1] = f[k - 1]
        PROVE  g[k] = f[k]
    BY <1>3, <1>8, <2>1, Zenon
  <2>2. GoOnAlike(g, f, n)
    BY <1>4, <1>8, <2>1 DEF GoOnAlike
  <2> HIDE DEF n
  <2>3. QED
    BY <1>1, <2>2, Agree, Zenon
<1>10. QED
  BY <1>2, <1>8, <1>9

(* What is appended to a list adds to the sums over it.                     *)
LEMMA BytesAppend ==
  ASSUME NEW list \in Seq(Seq(Text)), NEW text \in Seq(Text)
  PROVE  J!Bytes(Append(list, text)) = J!Bytes(list) + Len(text) + 1
<1> DEFINE longer == Append(list, text)
           n == Len(list)
<1>1. /\ n \in Nat /\ longer \in Seq(Seq(Text)) /\ Len(longer) = n + 1 /\ longer[n + 1] = text
      /\ \A k \in 1 .. n : longer[k] = list[k]
  OBVIOUS
<1> HIDE DEF longer
<1>2. \A k \in 0 .. n : J!BytesUpto(longer)[k] = J!BytesUpto(list)[k]
  <2>1. /\ J!BytesUpto(longer)[0] = 0
        /\ \A k \in 1 .. Len(longer) :
             J!BytesUpto(longer)[k] = J!BytesUpto(longer)[k - 1] + Len(longer[k]) + 1
    BY <1>1, BytesAdd
  <2>2. /\ J!BytesUpto(list)[0] = 0
        /\ \A k \in 1 .. n : J!BytesUpto(list)[k] = J!BytesUpto(list)[k - 1] + Len(list[k]) + 1
    BY BytesAdd
  <2>3. \A k \in 1 .. n : k \in 1 .. Len(longer)
    BY <1>1
  <2> DEFINE f == J!BytesUpto(longer)
             g == J!BytesUpto(list)
  <2>4. GoOnAlike(f, g, n)
    <3>1. ASSUME NEW k \in 1 .. n, f[k - 1] = g[k - 1]
          PROVE  f[k] = g[k]
      <4>1. longer[k] = list[k] /\ k \in 1 .. Len(longer)
        BY <1>1, <2>3, Zenon
      <4>2. QED
        BY <2>1, <2>2, <3>1, <4>1, Zenon
    <3>2. QED
      BY <2>1, <2>2, <3>1 DEF GoOnAlike
  <2> HIDE DEF f, g
  <2>5. n \in Nat
    OBVIOUS
  <2>6. \A k \in 0 .. n : f[k] = g[k]
    BY <2>4, <2>5, Agree, Zenon
  <2>7. QED
    BY <2>6 DEF f, g
<1>3. J!BytesUpto(longer)[n + 1] = J!BytesUpto(longer)[n] + Len(text) + 1
  <2>1. PICK m \in 1 .. Len(longer) : m = n + 1 /\ m - 1 = n
    BY <1>1
  <2>2. \A k \in 1 .. Len(longer) :
          J!BytesUpto(longer)[k] = J!BytesUpto(longer)[k - 1] + Len(longer[k]) + 1
    BY <1>1, BytesAdd
  <2>3. J!BytesUpto(longer)[m] = J!BytesUpto(longer)[m - 1] + Len(longer[m]) + 1
    BY <2>2, Zenon
  <2>4. longer[m] = text
    BY <1>1, <2>1
  <2>5. QED
    BY <2>1, <2>3, <2>4, Zenon
<1>4. n \in 0 .. n
  BY <1>1
<1>5. QED
  BY <1>1, <1>2, <1>3, <1>4 DEF J!Bytes, longer

LEMMA InksAppend ==
  ASSUME NEW list \in Seq(Seq(Text)), NEW text \in Seq(Text)
  PROVE  J!Inks(Append(list, text)) = J!Inks(list) \o J!Ink(text)
<1> DEFINE longer == Append(list, text)
           n == Len(list)
<1>1. /\ n \in Nat /\ longer \in Seq(Seq(Text)) /\ Len(longer) = n + 1 /\ longer[n + 1] = text
      /\ \A k \in 1 .. n : longer[k] = list[k]
  OBVIOUS
<1> HIDE DEF longer
<1>2. \A k \in 0 .. n : J!InksUpto(longer)[k] = J!InksUpto(list)[k]
  <2>1. /\ J!InksUpto(longer)[0] = << >>
        /\ \A k \in 1 .. Len(longer) :
             J!InksUpto(longer)[k] = J!InksUpto(longer)[k - 1] \o J!Ink(longer[k])
    BY <1>1, InksAre
  <2>2. /\ J!InksUpto(list)[0] = << >>
        /\ \A k \in 1 .. n : J!InksUpto(list)[k] = J!InksUpto(list)[k - 1] \o J!Ink(list[k])
    BY InksAre
  <2>3. \A k \in 1 .. n : k \in 1 .. Len(longer)
    BY <1>1
  <2> DEFINE f == J!InksUpto(longer)
             g == J!InksUpto(list)
  <2>4. GoOnAlike(f, g, n)
    <3>1. ASSUME NEW k \in 1 .. n, f[k - 1] = g[k - 1]
          PROVE  f[k] = g[k]
      <4>1. longer[k] = list[k] /\ k \in 1 .. Len(longer)
        BY <1>1, <2>3, Zenon
      <4>2. QED
        BY <2>1, <2>2, <3>1, <4>1, Zenon
    <3>2. QED
      BY <2>1, <2>2, <3>1 DEF GoOnAlike
  <2> HIDE DEF f, g
  <2>5. n \in Nat
    OBVIOUS
  <2>6. \A k \in 0 .. n : f[k] = g[k]
    BY <2>4, <2>5, Agree, Zenon
  <2>7. QED
    BY <2>6 DEF f, g
<1>3. J!InksUpto(longer)[n + 1] = J!InksUpto(longer)[n] \o J!Ink(text)
  <2>1. PICK m \in 1 .. Len(longer) : m = n + 1 /\ m - 1 = n
    BY <1>1
  <2>2. \A k \in 1 .. Len(longer) :
          J!InksUpto(longer)[k] = J!InksUpto(longer)[k - 1] \o J!Ink(longer[k])
    BY <1>1, InksAre
  <2>3. J!InksUpto(longer)[m] = J!InksUpto(longer)[m - 1] \o J!Ink(longer[m])
    BY <2>2, Zenon
  <2>4. longer[m] = text
    BY <1>1, <2>1
  <2>5. QED
    BY <2>1, <2>3, <2>4, Zenon
<1>4. n \in 0 .. n
  BY <1>1
<1>5. QED
  BY <1>1, <1>2, <1>3, <1>4 DEF J!Inks, longer

(* One text behind another, as a whole.                                     *)
Behind(s, t) == s \o t

LEMMA BehindFacts ==
  ASSUME NEW s \in Seq(Text), NEW t \in Seq(Text)
  PROVE  /\ Behind(s, t) \in Seq(Text) /\ Len(Behind(s, t)) = Len(s) + Len(t)
         /\ \A k \in 1 .. Len(s) : Behind(s, t)[k] = s[k]
         /\ \A k \in 1 .. Len(t) : Behind(s, t)[Len(s) + k] = t[k]
<1>1. QED
  BY ConcatProperties DEF Behind

LEMMA BehindNothing ==
  ASSUME NEW s \in Seq(Text)
  PROVE  Behind(s, << >>) = s /\ Behind(<< >>, s) = s
<1>1. QED
  BY ConcatEmptySeq DEF Behind

LEMMA BehindBehind ==
  ASSUME NEW s \in Seq(Text), NEW t \in Seq(Text), NEW u \in Seq(Text)
  PROVE  Behind(Behind(s, t), u) = Behind(s, Behind(t, u))
<1> DEFINE x == Behind(Behind(s, t), u)
           y == Behind(s, Behind(t, u))
           st == Behind(s, t)
           tu == Behind(t, u)
<1>1. /\ Len(s) \in Nat /\ Len(t) \in Nat /\ Len(u) \in Nat
      /\ st \in Seq(Text) /\ Len(st) = Len(s) + Len(t)
      /\ tu \in Seq(Text) /\ Len(tu) = Len(t) + Len(u)
  <2>1. Len(s) \in Nat /\ Len(t) \in Nat /\ Len(u) \in Nat
    OBVIOUS
  <2>2. st \in Seq(Text) /\ Len(st) = Len(s) + Len(t)
    BY BehindFacts, Zenon
  <2>3. tu \in Seq(Text) /\ Len(tu) = Len(t) + Len(u)
    BY BehindFacts, Zenon
  <2>4. QED
    BY <2>1, <2>2, <2>3
<1>2. /\ \A k \in 1 .. Len(s) : st[k] = s[k]
      /\ \A k \in 1 .. Len(t) : st[Len(s) + k] = t[k]
      /\ \A k \in 1 .. Len(t) : tu[k] = t[k]
      /\ \A k \in 1 .. Len(u) : tu[Len(t) + k] = u[k]
  BY BehindFacts
<1> HIDE DEF st, tu
<1>3. /\ x \in Seq(Text) /\ Len(x) = Len(st) + Len(u)
      /\ \A k \in 1 .. Len(st) : x[k] = st[k]
      /\ \A k \in 1 .. Len(u) : x[Len(st) + k] = u[k]
  BY <1>1, BehindFacts DEF st
<1>4. /\ y \in Seq(Text) /\ Len(y) = Len(s) + Len(tu)
      /\ \A k \in 1 .. Len(s) : y[k] = s[k]
      /\ \A k \in 1 .. Len(tu) : y[Len(s) + k] = tu[k]
  BY <1>1, BehindFacts DEF tu
<1> HIDE DEF x, y
<1>5. ASSUME NEW k \in 1 .. Len(x)
      PROVE  x[k] = y[k]
  <2>1. CASE k <= Len(s)
    <3>1. k \in 1 .. Len(s) /\ k \in 1 .. Len(st)
      BY <1>1, <2>1
    <3>2. QED
      BY <1>2, <1>3, <1>4, <3>1
  <2>2. CASE k > Len(s) /\ k <= Len(st)
    <3>1. PICK m \in 1 .. Len(t) : k = Len(s) + m /\ m \in 1 .. Len(tu)
      <4>1. k - Len(s) \in 1 .. Len(t) /\ k = Len(s) + (k - Len(s))
        BY <1>1, <2>2
      <4>2. k - Len(s) \in 1 .. Len(tu)
        BY <1>1, <4>1
      <4>3. QED
        BY <4>1, <4>2
    <3>2. k \in 1 .. Len(st)
      BY <1>1, <2>2
    <3>3. x[k] = t[m]
      BY <1>2, <1>3, <3>1, <3>2
    <3>4. y[k] = t[m]
      BY <1>2, <1>4, <3>1
    <3>5. QED
      BY <3>3, <3>4
  <2>3. CASE k > Len(st)
    <3>1. PICK m \in 1 .. Len(u) : k = Len(st) + m
      <4>1. k - Len(st) \in 1 .. Len(u) /\ k = Len(st) + (k - Len(st))
        BY <1>1, <1>3, <2>3
      <4>2. QED
        BY <4>1
    <3>2. k = Len(s) + (Len(t) + m) /\ Len(t) + m \in 1 .. Len(tu)
      BY <1>1, <3>1
    <3>3. x[k] = u[m]
      BY <1>3, <3>1
    <3>4. y[k] = u[m]
      BY <1>2, <1>4, <3>2
    <3>5. QED
      BY <3>3, <3>4
  <2>4. QED
    BY <1>1, <2>1, <2>2, <2>3
<1>6. Len(x) = Len(y)
  BY <1>1, <1>3, <1>4
<1>7. x = y
  BY <1>3, <1>4, <1>5, <1>6, SeqEqual
<1>8. QED
  BY <1>7 DEF x, y

LEMMA AppendBehind ==
  ASSUME NEW s \in Seq(Text), NEW t \in Seq(Text), NEW e \in Text
  PROVE  Append(Behind(s, t), e) = Behind(s, Append(t, e))
<1> DEFINE st == Behind(s, t)
           te == Append(t, e)
           x == Append(st, e)
           y == Behind(s, te)
<1>1. /\ Len(s) \in Nat /\ Len(t) \in Nat /\ st \in Seq(Text) /\ Len(st) = Len(s) + Len(t)
      /\ \A k \in 1 .. Len(s) : st[k] = s[k]
      /\ \A k \in 1 .. Len(t) : st[Len(s) + k] = t[k]
  <2>1. Len(s) \in Nat /\ Len(t) \in Nat
    OBVIOUS
  <2>2. /\ st \in Seq(Text) /\ Len(st) = Len(s) + Len(t)
        /\ \A k \in 1 .. Len(s) : st[k] = s[k]
        /\ \A k \in 1 .. Len(t) : st[Len(s) + k] = t[k]
    BY BehindFacts, Zenon
  <2>3. QED
    BY <2>1, <2>2
<1>2. /\ te \in Seq(Text) /\ Len(te) = Len(t) + 1 /\ te[Len(t) + 1] = e
      /\ \A k \in 1 .. Len(t) : te[k] = t[k]
  BY AppendProperties
<1> HIDE DEF st, te
<1>3. /\ x \in Seq(Text) /\ Len(x) = Len(st) + 1 /\ x[Len(st) + 1] = e
      /\ \A k \in 1 .. Len(st) : x[k] = st[k]
  <2>1. st \in Seq(Text)
    BY <1>1
  <2>2. QED
    BY <2>1, AppendProperties
<1>4. /\ y \in Seq(Text) /\ Len(y) = Len(s) + Len(te)
      /\ \A k \in 1 .. Len(s) : y[k] = s[k]
      /\ \A k \in 1 .. Len(te) : y[Len(s) + k] = te[k]
  BY <1>2, BehindFacts
<1> HIDE DEF x, y
<1>5. ASSUME NEW k \in 1 .. Len(x)
      PROVE  x[k] = y[k]
  <2>1. CASE k <= Len(s)
    <3>1. k \in 1 .. Len(s) /\ k \in 1 .. Len(st)
      BY <1>1, <2>1
    <3>2. QED
      BY <1>1, <1>3, <1>4, <3>1
  <2>2. CASE k > Len(s) /\ k <= Len(st)
    <3>1. PICK m \in 1 .. Len(t) : k = Len(s) + m /\ m \in 1 .. Len(te)
      <4>1. k - Len(s) \in 1 .. Len(t) /\ k = Len(s) + (k - Len(s))
        BY <1>1, <2>2
      <4>2. k - Len(s) \in 1 .. Len(te)
        BY <1>1, <1>2, <4>1
      <4>3. QED
        BY <4>1, <4>2
    <3>2. k \in 1 .. Len(st)
      BY <1>1, <2>2
    <3>3. x[k] = t[m]
      BY <1>1, <1>3, <3>1, <3>2
    <3>4. y[k] = t[m]
      BY <1>2, <1>4, <3>1
    <3>5. QED
      BY <3>3, <3>4
  <2>3. CASE k > Len(st)
    <3>1. k = Len(st) + 1 /\ k = Len(s) + (Len(t) + 1) /\ Len(t) + 1 \in 1 .. Len(te)
      BY <1>1, <1>2, <1>3, <2>3
    <3>2. x[k] = e
      BY <1>3, <3>1
    <3>3. y[k] = e
      BY <1>2, <1>4, <3>1
    <3>4. QED
      BY <3>2, <3>3
  <2>4. QED
    BY <1>1, <2>1, <2>2, <2>3
<1>6. Len(x) = Len(y)
  BY <1>1, <1>2, <1>3, <1>4
<1>7. x = y
  BY <1>3, <1>4, <1>5, <1>6, SeqEqual
<1>8. QED
  BY <1>7 DEF x, y, st, te

(* The ink of a text that another has from p on follows on the ink up to p. *)
LEMMA InkOfSlice ==
  ASSUME NEW text \in Seq(Text), NEW slice \in Seq(Text), NEW p \in Nat,
         p + Len(slice) <= Len(text), \A k \in 1 .. Len(slice) : text[p + k] = slice[k]
  PROVE  J!InkUpto(text)[p + Len(slice)] = Behind(J!InkUpto(text)[p], J!Ink(slice))
<1> DEFINE n == Len(slice)
           all == J!InkUpto(text)
           part == J!InkUpto(slice)
<1>1. n \in Nat /\ Len(text) \in Nat /\ p \in 0 .. Len(text) /\ p + n <= Len(text)
  OBVIOUS
<1>2. /\ all[p] \in Seq(Text) /\ part[0] = << >> /\ \A k \in 0 .. n : part[k] \in Seq(Text)
      /\ \A k \in 1 .. Len(text) :
           all[k] = IF text[k] = J!Blank THEN all[k - 1] ELSE Append(all[k - 1], text[k])
      /\ \A k \in 1 .. n :
           part[k] = IF slice[k] = J!Blank THEN part[k - 1] ELSE Append(part[k - 1], slice[k])
  BY <1>1, InkIs
<1> HIDE DEF all, part
<1> DEFINE Same(k) == all[p + k] = Behind(all[p], part[k])
           T == {k \in Nat : k <= n => Same(k)}
<1>3. 0 \in T
  <2>1. Behind(all[p], << >>) = all[p]
    BY <1>2, BehindNothing
  <2>2. Same(0)
    BY <1>1, <1>2, <2>1
  <2> HIDE DEF Same
  <2>3. QED
    BY <1>1, <2>2
<1>4. ASSUME NEW k \in Nat, k \in T
      PROVE  k + 1 \in T
  <2>1. SUFFICES ASSUME k + 1 <= n
                 PROVE  Same(k + 1)
    <3> HIDE DEF Same
    <3>1. QED
      OBVIOUS
  <2>2. /\ k + 1 \in 1 .. n /\ k + 1 - 1 = k /\ k \in 0 .. n
        /\ p + (k + 1) \in 1 .. Len(text) /\ p + (k + 1) - 1 = p + k
    BY <1>1, <2>1
  <2>3. Same(k)
    <3> HIDE DEF Same
    <3>1. QED
      BY <1>1, <1>4, <2>1
  <2>4. text[p + (k + 1)] = slice[k + 1] /\ slice[k + 1] \in Text
    BY <2>2
  <2>5. all[p + (k + 1)] = IF slice[k + 1] = J!Blank THEN all[p + k]
                           ELSE Append(all[p + k], slice[k + 1])
    BY <1>2, <2>2, <2>4
  <2>6. part[k + 1] = IF slice[k + 1] = J!Blank THEN part[k] ELSE Append(part[k], slice[k + 1])
    BY <1>2, <2>2
  <2>7. PICK a \in Seq(Text), b \in Seq(Text), e \in Text :
          a = all[p] /\ b = part[k] /\ e = slice[k + 1]
    BY <1>2, <2>2, <2>4
  <2>8. Append(Behind(a, b), e) = Behind(a, Append(b, e))
    BY AppendBehind
  <2>9. QED
    BY <2>3, <2>5, <2>6, <2>7, <2>8, Zenon
<1>5. n \in T
  <2> HIDE DEF T
  <2>1. QED
    BY <1>1, <1>3, <1>4, Induction
<1>6. Same(n)
  <2> HIDE DEF Same
  <2>1. QED
    BY <1>1, <1>5
<1>7. QED
  BY <1>6, Zenon DEF J!Ink, all, part

LEMMA BytesGrow ==
  ASSUME NEW list \in Seq(Seq(Text)), NEW n \in 0 .. Len(list), NEW m \in 0 .. n
  PROVE  J!BytesUpto(list)[m] <= J!BytesUpto(list)[n]
<1> DEFINE sum == J!BytesUpto(list)
<1>1. /\ Len(list) \in Nat /\ m \in Nat /\ n \in Nat /\ m <= n /\ n - m \in Nat
      /\ \A k \in 1 .. Len(list) : Len(list[k]) \in Nat
  OBVIOUS
<1>2. /\ \A k \in 0 .. Len(list) : sum[k] \in Nat
      /\ \A k \in 1 .. Len(list) : sum[k] = sum[k - 1] + Len(list[k]) + 1
  BY BytesAdd
<1> HIDE DEF sum
<1> DEFINE T == {k \in Nat : m + k <= n => sum[m] <= sum[m + k]}
<1>3. 0 \in T
  BY <1>1, <1>2
<1>4. ASSUME NEW k \in Nat, k \in T
      PROVE  k + 1 \in T
  <2>1. SUFFICES ASSUME m + (k + 1) <= n
                 PROVE  sum[m] <= sum[m + (k + 1)]
    OBVIOUS
  <2>2. /\ m + k \in 0 .. Len(list) /\ m + (k + 1) \in 1 .. Len(list)
        /\ m + (k + 1) - 1 = m + k /\ m \in 0 .. Len(list)
    BY <1>1, <2>1
  <2>3. sum[m] <= sum[m + k]
    BY <1>1, <1>4, <2>1
  <2>4. sum[m + (k + 1)] = sum[m + k] + Len(list[m + (k + 1)]) + 1
    BY <1>2, <2>2
  <2>5. sum[m] \in Nat /\ sum[m + k] \in Nat /\ Len(list[m + (k + 1)]) \in Nat
    BY <1>1, <1>2, <2>2
  <2>6. QED
    BY <2>3, <2>4, <2>5
<1>5. n - m \in T
  <2> HIDE DEF T
  <2>1. QED
    BY <1>1, <1>3, <1>4, Induction
<1>6. m + (n - m) = n
  BY <1>1
<1>7. QED
  BY <1>1, <1>5, <1>6 DEF sum

(* The ink of two texts is the ink of the one and that of the other.        *)
LEMMA InkBehind ==
  ASSUME NEW s \in Seq(Text), NEW t \in Seq(Text)
  PROVE  J!Ink(Behind(s, t)) = Behind(J!Ink(s), J!Ink(t))
<1> DEFINE both == Behind(s, t)
           ink == J!InkUpto(both)
<1>1. /\ both \in Seq(Text) /\ Len(both) = Len(s) + Len(t) /\ Len(s) \in Nat /\ Len(t) \in Nat
      /\ \A k \in 1 .. Len(s) : both[k] = s[k]
      /\ \A k \in 1 .. Len(t) : both[Len(s) + k] = t[k]
  <2>1. Len(s) \in Nat /\ Len(t) \in Nat
    OBVIOUS
  <2>2. /\ both \in Seq(Text) /\ Len(both) = Len(s) + Len(t)
        /\ \A k \in 1 .. Len(s) : both[k] = s[k]
        /\ \A k \in 1 .. Len(t) : both[Len(s) + k] = t[k]
    BY BehindFacts, Zenon
  <2>3. QED
    BY <2>1, <2>2
<1> HIDE DEF both
<1>2. ink[Len(s) + Len(t)] = Behind(ink[Len(s)], J!Ink(t))
  BY <1>1, InkOfSlice
<1>3. ink[0 + Len(s)] = Behind(ink[0], J!Ink(s))
  <2>1. \A k \in 1 .. Len(s) : both[0 + k] = s[k]
    BY <1>1
  <2>2. 0 \in Nat /\ 0 + Len(s) <= Len(both)
    BY <1>1
  <2>3. QED
    BY <1>1, <2>1, <2>2, InkOfSlice
<1>4. ink[0] = << >> /\ J!Ink(s) \in Seq(Text)
  BY <1>1, InkIs, InkType
<1> HIDE DEF ink
<1>5. 0 + Len(s) = Len(s)
  BY <1>1
<1>6. ink[Len(s)] = J!Ink(s)
  BY <1>3, <1>4, <1>5, BehindNothing
<1>7. J!Ink(both) = ink[Len(both)]
  BY DEF J!Ink, ink
<1>8. QED
  BY <1>1, <1>2, <1>6, <1>7 DEF both

LEMMA NoInk == J!Ink(<< >>) = << >> /\ J!Ink(<< J!Blank >>) = << >>
<1> DEFINE blank == << J!Blank >>
<1>1. J!Blank \in Text
  BY DEF J!Blank, Text
<1>2. /\ << >> \in Seq(Text) /\ Len(<< >>) = 0
      /\ blank \in Seq(Text) /\ Len(blank) = 1 /\ blank[1] = J!Blank
  BY <1>1
<1> HIDE DEF blank
<1>3. J!InkUpto(<< >>)[0] = << >> /\ J!InkUpto(blank)[0] = << >>
  BY <1>2, InkIs
<1>4. \A n \in 1 .. Len(blank) :
        J!InkUpto(blank)[n] = IF blank[n] = J!Blank THEN J!InkUpto(blank)[n - 1]
                              ELSE Append(J!InkUpto(blank)[n - 1], blank[n])
  BY <1>2, InkIs
<1>5. 1 \in 1 .. Len(blank) /\ 1 - 1 = 0
  BY <1>2
<1>6. J!InkUpto(blank)[1] = << >>
  BY <1>2, <1>3, <1>4, <1>5
<1>7. QED
  BY <1>2, <1>3, <1>6 DEF J!Ink, blank

LEMMA NoTexts == J!Bytes(<< >>) = 0 /\ J!Inks(<< >>) = << >>
<1>1. << >> \in Seq(Seq(Text)) /\ Len(<< >>) = 0
  OBVIOUS
<1>2. QED
  BY <1>1, BytesAdd, InksAre DEF J!Bytes, J!Inks

-------------------------------------------------------------------------------
(* The words and the path that a loading call hands over, what comes in     *)
(* front of the words, and where the n-th word ends in the joined text.     *)
Words == IF Loading THEN Spelled(call.args) ELSE << >>
Path == IF Loading THEN Spelling[call.file] ELSE << >>

Front == IF artifact = "barf" THEN << Path >> ELSE << >>

Start(n) == J!BytesUpto(Words)[n]

Texts == Words \in Seq(Seq(Text)) /\ Path \in Seq(Text)

Gap == IF Len(arg_data) # 0 THEN << J!Blank >> ELSE << >>

JoinTypes ==
  /\ artifact \in {"barf", "wa"} /\ join_pc \in {"join", "split", "done"}
  /\ join_i \in 1 .. Len(Words) + 1
  /\ start_head \in 0 .. Len(arg_data) + 1 /\ head \in start_head .. Len(arg_data) + 1
  /\ text_len = J!Bytes(args)
  /\ arg_data \in Seq(Text) /\ args \in Seq(Seq(Text))
  /\ join_pc = "join" => args = << >> /\ start_head = 0 /\ head = 0
  /\ join_pc # "join" => join_i = Len(Words) + 1 /\ Len(args) >= Len(Front)
  /\ join_pc = "done" => head >= Len(arg_data)

(* From where an argument may start up to where the loop is, no blanks.     *)
AtWord ==
  /\ start_head < head => head < Len(arg_data)
  /\ \A c \in start_head + 1 .. head : arg_data[c] # J!Blank

(* The text up to where the arguments have been cut.                        *)
SplitTo == IF start_head <= Len(arg_data) THEN start_head ELSE Len(arg_data)

InkSoFar ==
  /\ J!Ink(arg_data) = J!InksUpto(Words)[join_i - 1]
  /\ join_pc # "join" => J!Inks(args) = Behind(J!Inks(Front), J!InkUpto(arg_data)[SplitTo])

FitsSoFar ==
  (\A n \in 1 .. Len(Words) : Len(Words[n]) < PerArg) => Len(arg_data) <= PerArg * (join_i - 1)

OnlyBlankAtEnd ==
  \A n \in Len(Front) + 1 .. Len(args) :
    /\ Len(args[n]) > 0
    /\ \A c \in 1 .. Len(args[n]) :
         args[n][c] = J!Blank => n = Len(args) /\ c = Len(args[n]) /\ head >= Len(arg_data)

(* If all are words, they stand in the text at their places ...             *)
AllWords == \A n \in 1 .. Len(Words) : J!IsWord(Words[n])

WordsJoined ==
  /\ Len(arg_data) = IF join_i = 1 THEN 0 ELSE Start(join_i - 1) - 1
  /\ \A n \in 1 .. join_i - 1 : \A c \in 1 .. Len(Words[n]) :
       arg_data[Start(n - 1) + c] = Words[n][c]
  /\ \A n \in 1 .. join_i - 2 : arg_data[Start(n)] = J!Blank

(* ... and are found there again, one after the other.                      *)
Found == Len(args) - Len(Front)

WordsSplit ==
  /\ Found \in 0 .. Len(Words) /\ start_head = Start(Found)
  /\ Found < Len(Words) => head <= Start(Found) + Len(Words[Found + 1])
  /\ \A n \in 1 .. Len(Front) : args[n] = Front[n]
  /\ \A n \in 1 .. Found : args[Len(Front) + n] = Words[n]
  /\ text_len = J!Bytes(Front) + Start(Found)

(* The blocks hold what is in them, and each loop leaves its blocks only    *)
(* for arguments that do not fit.                                           *)
Short == \A n \in 1 .. Len(Words) : Len(Words[n]) < PerArg

Few ==
  Len(Words) < ArgCap /\ AllWords /\ Len(Path) + 1 + J!Bytes(Words) <= TextCap

InBlocks ==
  /\ Len(arg_data) <= PerArg * Len(Words) /\ Len(args) <= ArgCap /\ text_len <= TextCap
  /\ join_overrun \in {"none", "join", "split"}
  /\ Short => join_overrun # "join"
  /\ Few => join_overrun # "split"

JoinInv ==
  /\ ~ Loading => J!Init
  /\ JoinTypes /\ AtWord /\ InkSoFar /\ FitsSoFar /\ OnlyBlankAtEnd
  /\ AllWords => WordsJoined /\ (join_pc # "join" => WordsSplit)
  /\ InBlocks

LEMMA WordTypes ==
  ASSUME CommandLineInv
  PROVE  Texts
<1>1. Words \in Seq(Seq(STRING))
  <2>1. Loading => call.args \in Seq(DOMAIN Spelling)
    BY DEF CommandLineInv, Loading
  <2>2. CASE Loading
    BY <2>1, <2>2, SpelledPaths DEF Words
  <2>3. CASE ~ Loading
    BY <2>3 DEF Words
  <2>4. QED
    BY <2>2, <2>3
<1>2. Path \in Seq(STRING)
  <2>1. Loading => call.file \in DOMAIN Spelling
    BY DEF Loading
  <2>2. CASE Loading
    BY <2>1, <2>2, ScenesAssumption DEF Path
  <2>3. CASE ~ Loading
    BY <2>3 DEF Path
  <2>4. QED
    BY <2>2, <2>3
<1>3. QED
  BY <1>1, <1>2, StringsAreText, SeqMonotonic DEF Texts

LEMMA FrontTypes ==
  ASSUME Texts
  PROVE  /\ Front \in Seq(Seq(Text)) /\ Len(Front) \in {0, 1}
         /\ artifact = "barf" => Front = << Path >> /\ Len(Front) = 1 /\ Front[1] = Path
         /\ artifact # "barf" => Front = << >> /\ Len(Front) = 0
<1>1. Path \in Seq(Text)
  BY DEF Texts
<1>2. << Path >> \in Seq(Seq(Text)) /\ Len(<< Path >>) = 1 /\ << Path >>[1] = Path
  BY <1>1
<1>3. << >> \in Seq(Seq(Text)) /\ Len(<< >>) = 0
  OBVIOUS
<1>4. CASE artifact = "barf"
  BY <1>2, <1>4 DEF Front
<1>5. CASE artifact # "barf"
  BY <1>3, <1>5 DEF Front
<1>6. QED
  BY <1>4, <1>5

(* The steps, said of the words.                                            *)
LEMMA JoinArgumentStep ==
  ASSUME J!JoinArgument
  PROVE  /\ join_pc = "join" /\ join_i <= Len(Words)
         /\ arg_data' = Behind(Behind(arg_data, Gap), Words[join_i]) /\ join_i' = join_i + 1
         /\ UNCHANGED << artifact, join_pc, start_head, head, args, text_len >>
BY DEF J!JoinArgument, J!Joined, J!Separator, J!size, Words, Gap, Behind

LEMMA EnterArtifactStep ==
  ASSUME J!EnterArtifact
  PROVE  /\ join_pc = "join" /\ join_i > Len(Words) /\ artifact = "barf" /\ join_pc' = "split"
         /\ args' = Append(args, Path) /\ text_len' = text_len + Len(Path) + 1
         /\ UNCHANGED << artifact, join_i, arg_data, start_head, head >>
BY DEF J!EnterArtifact, J!AddArgument, Words, Path

LEMMA EnterExampleStep ==
  ASSUME J!EnterExample
  PROVE  /\ join_pc = "join" /\ join_i > Len(Words) /\ artifact = "wa" /\ join_pc' = "split"
         /\ UNCHANGED << artifact, join_i, arg_data, start_head, head, args, text_len >>
BY DEF J!EnterExample, Words

LEMMA PassCharacterStep ==
  ASSUME J!PassCharacter
  PROVE  /\ join_pc = "split" /\ head < Len(arg_data)
         /\ arg_data[head + 1] # J!Blank /\ head + 1 # Len(arg_data) /\ head' = head + 1
         /\ UNCHANGED << artifact, join_pc, join_i, arg_data, start_head, args, text_len >>
BY DEF J!PassCharacter, J!IsLast, J!size

LEMMA EndArgumentStep ==
  ASSUME J!EndArgument
  PROVE  /\ join_pc = "split" /\ head < Len(arg_data)
         /\ arg_data[head + 1] = J!Blank \/ head + 1 = Len(arg_data)
         /\ J!Ends = IF head + 1 = Len(arg_data) THEN head + 1 ELSE head
         /\ start_head' = J!Ends + 1 /\ head' = J!Ends + 1
         /\ \/ /\ J!Ends > start_head
               /\ args' = Append(args, SubSeq(arg_data, start_head + 1, J!Ends))
               /\ text_len' = text_len + Len(SubSeq(arg_data, start_head + 1, J!Ends)) + 1
            \/ ~ J!Ends > start_head /\ args' = args /\ text_len' = text_len
         /\ UNCHANGED << artifact, join_pc, join_i, arg_data >>
<1>1. J!Ends = IF head + 1 = Len(arg_data) THEN head + 1 ELSE head
  BY DEF J!Ends, J!IsLast, J!size
<1>2. QED
  BY <1>1 DEF J!EndArgument, J!AddArgument, J!Cut, J!IsLast, J!size

LEMMA FinishStep ==
  ASSUME J!Finish
  PROVE  /\ join_pc = "split" /\ head >= Len(arg_data) /\ join_pc' = "done"
         /\ UNCHANGED << artifact, join_i, arg_data, start_head, head, args, text_len >>
BY DEF J!Finish, J!size

(* What they write is inside the blocks.                                    *)
LEMMA StepsHaveRoom ==
  /\ J!JoinArgument => Len(arg_data') <= PerArg * Len(Words)
  /\ J!EnterArtifact => Len(args) < ArgCap /\ text_len + Len(Path) + 1 <= TextCap
  /\ J!EndArgument /\ J!Ends > start_head => Len(args) < ArgCap /\ text_len' <= TextCap
<1>1. J!JoinArgument => Len(arg_data') <= PerArg * Len(Words)
  BY DEF J!JoinArgument, J!JoinedFits, Words
<1>2. J!EnterArtifact => Len(args) < ArgCap /\ text_len + Len(Path) + 1 <= TextCap
  BY DEF J!EnterArtifact, J!HasRoom, Path
<1>3. J!EndArgument /\ J!Ends > start_head => Len(args) < ArgCap /\ text_len' <= TextCap
  BY DEF J!EndArgument, J!HasRoom, J!AddArgument
<1>4. QED
  BY <1>1, <1>2, <1>3

LEMMA SliceFacts ==
  ASSUME arg_data \in Seq(Text), start_head \in Nat, NEW e \in Nat,
         start_head < e, e <= Len(arg_data)
  PROVE  /\ SubSeq(arg_data, start_head + 1, e) \in Seq(Text)
         /\ Len(SubSeq(arg_data, start_head + 1, e)) = e - start_head
         /\ \A k \in 1 .. e - start_head :
              SubSeq(arg_data, start_head + 1, e)[k] = arg_data[start_head + k]
<1> DEFINE m == start_head + 1
           slice == SubSeq(arg_data, m, e)
<1>1. m \in Int /\ e \in Int /\ m <= e /\ e - m + 1 = e - start_head
  OBVIOUS
<1>2. \A k \in m .. e : arg_data[k] \in Text
  OBVIOUS
<1> HIDE DEF m
<1>3. /\ slice \in Seq(Text) /\ Len(slice) = e - m + 1
      /\ \A k \in 1 .. e - m + 1 : slice[k] = arg_data[m + k - 1]
  BY <1>1, <1>2, SubSeqProperties
<1> HIDE DEF slice
<1>4. \A k \in 1 .. e - start_head : m + k - 1 = start_head + k
  BY DEF m
<1>5. /\ slice \in Seq(Text) /\ Len(slice) = e - start_head
      /\ \A k \in 1 .. e - start_head : slice[k] = arg_data[start_head + k]
  BY <1>1, <1>3, <1>4
<1>6. QED
  BY <1>5 DEF slice, m

LEMMA EndsFacts ==
  ASSUME J!EndArgument, Len(arg_data) \in Nat, start_head \in Nat, head \in Nat,
         start_head <= head
  PROVE  /\ J!Ends \in Nat /\ J!Ends <= Len(arg_data) /\ start_head <= J!Ends
         /\ J!Ends + 1 \in 0 .. Len(arg_data) + 1 /\ J!Ends + 1 \in J!Ends + 1 .. Len(arg_data) + 1
         /\ head < Len(arg_data) /\ join_pc # "join"
         /\ J!Ends = (IF head + 1 = Len(arg_data) THEN head + 1 ELSE head)
         /\ start_head' = J!Ends + 1 /\ head' = J!Ends + 1
<1>1. J!Ends = (IF head + 1 = Len(arg_data) THEN head + 1 ELSE head) /\ head < Len(arg_data)
  BY EndArgumentStep
<1>2. J!Ends \in Nat /\ J!Ends <= Len(arg_data) /\ start_head <= J!Ends
  BY <1>1
<1>3. J!Ends + 1 \in 0 .. Len(arg_data) + 1 /\ J!Ends + 1 \in J!Ends + 1 .. Len(arg_data) + 1
  BY <1>2
<1>4. join_pc # "join" /\ start_head' = J!Ends + 1 /\ head' = J!Ends + 1
  BY EndArgumentStep
<1>5. QED
  BY <1>1, <1>2, <1>3, <1>4

LEMMA GapFacts ==
  /\ Gap \in Seq(Text) /\ J!Ink(Gap) = << >>
  /\ Len(arg_data) = 0 => Len(Gap) = 0
  /\ Len(arg_data) # 0 => Len(Gap) = 1 /\ Gap[1] = J!Blank
  /\ Len(Gap) \in Nat /\ Len(Gap) <= 1
<1>1. J!Blank \in Text
  BY DEF J!Blank, Text
<1>2. << J!Blank >> \in Seq(Text) /\ << >> \in Seq(Text)
      /\ Len(<< J!Blank >>) = 1 /\ Len(<< >>) = 0 /\ << J!Blank >>[1] = J!Blank
  BY <1>1
<1>3. CASE Len(arg_data) # 0
  BY <1>2, <1>3, NoInk DEF Gap
<1>4. CASE ~ Len(arg_data) # 0
  BY <1>2, <1>4, NoInk DEF Gap
<1>5. QED
  BY <1>3, <1>4

(* The loops keep the counters in their ranges.                             *)
LEMMA JoinTypesKept ==
  ASSUME Texts, JoinTypes, J!InsideBlocks, Words' = Words, Path' = Path
  PROVE  JoinTypes' /\ Front' = Front
<1> USE DEF JoinTypes
<1>1. Words \in Seq(Seq(Text)) /\ Path \in Seq(Text) /\ Len(Words) \in Nat
      /\ Len(arg_data) \in Nat /\ Front \in Seq(Seq(Text))
  BY FrontTypes DEF Texts
<1>2. CASE J!JoinArgument
  <2>1. join_i \in 1 .. Len(Words) /\ Words[join_i] \in Seq(Text)
    BY <1>1, <1>2, JoinArgumentStep
  <2>2. Behind(arg_data, Gap) \in Seq(Text)
    BY GapFacts, BehindFacts
  <2>3. Behind(Behind(arg_data, Gap), Words[join_i]) \in Seq(Text)
    BY <2>1, <2>2, BehindFacts
  <2>4. arg_data' \in Seq(Text) /\ Len(arg_data') \in Nat
    BY <1>2, <2>3, JoinArgumentStep
  <2>5. QED
    BY <1>1, <1>2, <2>1, <2>4, JoinArgumentStep DEF Front
<1>3. CASE J!EnterArtifact
  <2>1. args = << >> /\ args \in Seq(Seq(Text)) /\ join_i = Len(Words) + 1 /\ Len(Front) = 1
    BY <1>1, <1>3, EnterArtifactStep, FrontTypes
  <2>2. args' \in Seq(Seq(Text)) /\ Len(args') = 1
    <3>1. args' = Append(args, Path) /\ Len(args) = 0
      BY <1>3, <2>1, EnterArtifactStep
    <3>2. QED
      BY <1>1, <2>1, <3>1, AppendProperties
  <2>3. text_len' = J!Bytes(args')
    BY <1>1, <1>3, <2>1, EnterArtifactStep, BytesAppend
  <2>4. QED
    BY <1>1, <1>3, <2>1, <2>2, <2>3, EnterArtifactStep DEF Front
<1>4. CASE J!EnterExample
  <2>1. join_i = Len(Words) + 1 /\ Len(Front) = 0 /\ Len(args) \in Nat
    BY <1>1, <1>4, EnterExampleStep, FrontTypes
  <2>2. QED
    BY <1>1, <1>4, <2>1, EnterExampleStep DEF Front
<1>5. CASE J!PassCharacter
  BY <1>1, <1>5, PassCharacterStep DEF Front
<1>6. CASE J!EndArgument
  <2> DEFINE slice == SubSeq(arg_data, start_head + 1, J!Ends)
  <2>1. /\ J!Ends \in Nat /\ J!Ends <= Len(arg_data) /\ start_head \in Nat
        /\ J!Ends + 1 \in 0 .. Len(arg_data) + 1 /\ J!Ends + 1 \in J!Ends + 1 .. Len(arg_data) + 1
    <3>1. start_head \in Nat /\ head \in Nat /\ start_head <= head
      BY <1>1
    <3>2. QED
      BY <1>1, <1>6, <3>1, EndsFacts
  <2>2. J!Ends > start_head => slice \in Seq(Text)
    BY <2>1, SliceFacts
  <2> HIDE DEF slice
  <2>3. args' \in Seq(Seq(Text)) /\ text_len' = J!Bytes(args') /\ Len(args') >= Len(args)
    <3>1. CASE J!Ends > start_head
      <4>1. args' = Append(args, slice) /\ text_len' = text_len + Len(slice) + 1
        BY <1>6, <3>1, EndArgumentStep DEF slice
      <4>2. J!Bytes(Append(args, slice)) = J!Bytes(args) + Len(slice) + 1
        BY <2>2, <3>1, BytesAppend
      <4>3. QED
        BY <2>2, <3>1, <4>1, <4>2
    <3>2. CASE ~ J!Ends > start_head
      BY <1>6, <3>2, EndArgumentStep
    <3>3. QED
      BY <3>1, <3>2
  <2>4. /\ start_head' \in 0 .. Len(arg_data) + 1 /\ head' \in start_head' .. Len(arg_data) + 1
        /\ join_pc = "split" /\ UNCHANGED << artifact, join_pc, join_i, arg_data >>
    BY <1>6, <2>1, EndArgumentStep
  <2>5. Front' = Front
    BY <2>4 DEF Front
  <2>6. Len(Front) \in Nat /\ Len(args) \in Nat /\ Len(args') \in Nat /\ Len(args') >= Len(Front)
    BY <1>1, <2>3, <2>4
  <2>7. QED
    BY <2>3, <2>4, <2>5, <2>6
<1>7. CASE J!Finish
  BY <1>1, <1>7, FinishStep DEF Front
<1>8. QED
  BY <1>2, <1>3, <1>4, <1>5, <1>6, <1>7 DEF J!InsideBlocks, J!Split

LEMMA AtWordKept ==
  ASSUME Texts, JoinTypes, AtWord, J!InsideBlocks
  PROVE  AtWord'
<1> USE DEF JoinTypes, AtWord
<1>1. Len(arg_data) \in Nat /\ start_head \in Nat /\ head \in Nat
  OBVIOUS
<1>2. CASE J!JoinArgument
  BY <1>1, <1>2, JoinArgumentStep
<1>3. CASE J!EnterArtifact
  BY <1>1, <1>3, EnterArtifactStep
<1>4. CASE J!EnterExample
  BY <1>1, <1>4, EnterExampleStep
<1>5. CASE J!PassCharacter
  <2>1. ASSUME NEW c \in start_head + 1 .. head + 1
        PROVE  arg_data[c] # J!Blank
    <3>1. c \in start_head + 1 .. head \/ c = head + 1
      BY <1>1
    <3>2. QED
      BY <1>5, <3>1, PassCharacterStep
  <2>2. QED
    BY <1>1, <1>5, <2>1, PassCharacterStep
<1>6. CASE J!EndArgument
  <2>1. start_head' = head' /\ head' \in Nat
    BY <1>1, <1>6, EndArgumentStep
  <2>2. QED
    BY <2>1
<1>7. CASE J!Finish
  BY <1>1, <1>7, FinishStep
<1>8. QED
  BY <1>2, <1>3, <1>4, <1>5, <1>6, <1>7 DEF J!InsideBlocks, J!Split

LEMMA OnlyBlankKept ==
  ASSUME Texts, JoinTypes, AtWord, OnlyBlankAtEnd, J!InsideBlocks, Front' = Front
  PROVE  OnlyBlankAtEnd'
<1> USE DEF JoinTypes, OnlyBlankAtEnd
<1>1. Len(arg_data) \in Nat /\ start_head \in Nat /\ head \in Nat /\ Len(args) \in Nat
      /\ Len(Front) \in Nat /\ Len(<< >>) = 0
  BY FrontTypes
<1>2. CASE J!JoinArgument
  BY <1>1, <1>2, JoinArgumentStep
<1>3. CASE J!EnterArtifact
  <2>1. Len(args') = 1 /\ Len(Front') = 1
    BY <1>1, <1>3, EnterArtifactStep, FrontTypes
  <2>2. QED
    BY <2>1
<1>4. CASE J!EnterExample
  BY <1>1, <1>4, EnterExampleStep
<1>5. CASE J!PassCharacter
  BY <1>1, <1>5, PassCharacterStep
<1>6. CASE J!EndArgument
  <2> DEFINE slice == SubSeq(arg_data, start_head + 1, J!Ends)
  <2>1. J!Ends \in Nat /\ J!Ends <= Len(arg_data) /\ head < Len(arg_data)
        /\ J!Ends = IF head + 1 = Len(arg_data) THEN head + 1 ELSE head
    <3>1. start_head <= head
      BY <1>1
    <3>2. QED
      BY <1>1, <1>6, <3>1, EndsFacts
  <2>2. ASSUME NEW n \in Len(Front) + 1 .. Len(args)
        PROVE  Len(args[n]) > 0 /\ \A c \in 1 .. Len(args[n]) : args[n][c] # J!Blank
    <3>1. ~ head >= Len(arg_data)
      BY <1>1, <2>1
    <3>2. QED
      BY <3>1, Zenon
  <2>3. CASE J!Ends > start_head
    <3>1. /\ slice \in Seq(Text) /\ Len(slice) = J!Ends - start_head
          /\ \A k \in 1 .. J!Ends - start_head : slice[k] = arg_data[start_head + k]
      BY <1>1, <2>1, <2>3, SliceFacts
    <3> HIDE DEF slice
    <3>2. /\ args' \in Seq(Seq(Text)) /\ Len(args') = Len(args) + 1 /\ args'[Len(args) + 1] = slice
          /\ \A n \in 1 .. Len(args) : args'[n] = args[n]
      <4>1. args' = Append(args, slice)
        BY <1>6, <2>3, EndArgumentStep DEF slice
      <4>2. QED
        BY <3>1, <4>1, AppendProperties
    <3>3. head' = J!Ends + 1 /\ arg_data' = arg_data
      BY <1>6, EndArgumentStep
    <3>4. ASSUME NEW c \in 1 .. Len(slice), slice[c] = J!Blank
          PROVE  c = Len(slice) /\ head' >= Len(arg_data)
      <4>1. c \in Nat /\ start_head + c <= J!Ends /\ arg_data[start_head + c] = J!Blank
        <5>1. c \in 1 .. J!Ends - start_head
          BY <3>1
        <5>2. slice[c] = arg_data[start_head + c]
          BY <3>1, <5>1
        <5>3. c \in Nat /\ start_head + c <= J!Ends
          BY <1>1, <2>1, <5>1
        <5>4. QED
          BY <3>4, <5>2, <5>3
      <4>2. ~ start_head + c \in start_head + 1 .. head
        BY <4>1 DEF AtWord
      <4>3. start_head + c = head + 1 /\ J!Ends = head + 1 /\ head + 1 = Len(arg_data)
        BY <1>1, <2>1, <4>1, <4>2
      <4>4. QED
        BY <1>1, <3>1, <3>3, <4>1, <4>3
    <3>5. ASSUME NEW n \in Len(Front') + 1 .. Len(args')
          PROVE  /\ Len(args'[n]) > 0
                 /\ \A c \in 1 .. Len(args'[n]) :
                      args'[n][c] = J!Blank =>
                        n = Len(args') /\ c = Len(args'[n]) /\ head' >= Len(arg_data')
      <4>1. CASE n = Len(args) + 1
        <5>1. args'[n] = slice /\ n = Len(args')
          BY <3>2, <4>1
        <5>2. Len(slice) > 0
          BY <1>1, <2>1, <2>3, <3>1
        <5>3. QED
          BY <3>3, <3>4, <5>1, <5>2
      <4>2. CASE n # Len(args) + 1
        <5>1. n \in Len(Front) + 1 .. Len(args) /\ n \in 1 .. Len(args)
          BY <1>1, <3>2, <4>2
        <5>2. QED
          BY <2>2, <3>2, <5>1
      <4>3. QED
        BY <4>1, <4>2
    <3>6. QED
      BY <3>5
  <2>4. CASE ~ J!Ends > start_head
    BY <1>1, <1>6, <2>2, <2>4, EndArgumentStep
  <2>5. QED
    BY <2>3, <2>4
<1>7. CASE J!Finish
  BY <1>1, <1>7, FinishStep
<1>8. QED
  BY <1>2, <1>3, <1>4, <1>5, <1>6, <1>7 DEF J!InsideBlocks, J!Split

(* A short argument fits where it is joined.                                *)
LEMMA NextFits ==
  ASSUME Texts, JoinTypes, FitsSoFar, Short, join_i <= Len(Words)
  PROVE  Len(Behind(Behind(arg_data, Gap), Words[join_i])) <= PerArg * join_i
<1>1. Words \in Seq(Seq(Text)) /\ Len(Words) \in Nat /\ Len(arg_data) \in Nat /\ PerArg \in Nat
  BY SizesAssumption DEF Texts, JoinTypes, J!SizesAssumption
<1>2. join_i \in 1 .. Len(Words) /\ Words[join_i] \in Seq(Text) /\ Len(Words[join_i]) \in Nat
  BY <1>1 DEF JoinTypes
<1>3. Behind(arg_data, Gap) \in Seq(Text) /\ Len(Behind(arg_data, Gap)) = Len(arg_data) + Len(Gap)
  BY GapFacts, BehindFacts DEF JoinTypes
<1> DEFINE joined == Len(Behind(Behind(arg_data, Gap), Words[join_i]))
<1>4. joined = Len(arg_data) + Len(Gap) + Len(Words[join_i])
  <2>1. PICK before \in Seq(Text) : before = Behind(arg_data, Gap)
    BY <1>3
  <2>2. Len(Behind(before, Words[join_i])) = Len(before) + Len(Words[join_i])
    BY <1>2, BehindFacts
  <2>3. QED
    BY <1>3, <2>1, <2>2
<1> HIDE DEF joined
<1>5. Len(Gap) <= 1 /\ Len(Gap) \in Nat
  BY GapFacts
<1>6. Len(arg_data) <= PerArg * (join_i - 1) /\ Len(Words[join_i]) < PerArg
  BY <1>2 DEF FitsSoFar, Short
<1>7. PerArg * join_i = PerArg * (join_i - 1) + PerArg /\ PerArg * (join_i - 1) \in Nat
  <2>1. \A p, j \in Nat : p * (j + 1) = p * j + p /\ p * j \in Nat
    OBVIOUS
  <2>2. join_i - 1 \in Nat /\ join_i = (join_i - 1) + 1
    BY <1>2
  <2>3. QED
    BY <1>1, <2>1, <2>2
<1> DEFINE bound == PerArg * (join_i - 1)
<1>8. bound \in Nat /\ Len(arg_data) <= bound /\ PerArg * join_i = bound + PerArg
  BY <1>6, <1>7
<1> HIDE DEF bound
<1>9. \A a, g, w, b, p \in Nat : a <= b /\ g <= 1 /\ w < p => a + g + w <= b + p
  OBVIOUS
<1>10. Len(arg_data) + Len(Gap) + Len(Words[join_i]) <= bound + PerArg
  BY <1>1, <1>2, <1>5, <1>6, <1>8, <1>9, Zenon
<1>11. joined <= PerArg * join_i
  BY <1>4, <1>8, <1>10, Zenon
<1>12. QED
  BY <1>11 DEF joined

LEMMA FitsKept ==
  ASSUME Texts, JoinTypes, FitsSoFar, J!InsideBlocks, Words' = Words
  PROVE  FitsSoFar'
<1>1. Words \in Seq(Seq(Text)) /\ Len(Words) \in Nat
  BY DEF Texts
<1>2. CASE J!JoinArgument
  <2>1. /\ join_i \in 1 .. Len(Words) /\ join_i' - 1 = join_i
        /\ arg_data' = Behind(Behind(arg_data, Gap), Words[join_i])
    BY <1>1, <1>2, JoinArgumentStep DEF JoinTypes
  <2>2. Short => Len(arg_data') <= PerArg * join_i
    BY <1>1, <2>1, NextFits
  <2>3. QED
    BY <2>1, <2>2 DEF FitsSoFar, Short
<1>3. CASE J!EnterArtifact \/ J!EnterExample \/ J!Split
  <2>1. arg_data' = arg_data /\ join_i' = join_i
    BY <1>3, EnterArtifactStep, EnterExampleStep, PassCharacterStep, EndArgumentStep, FinishStep
    DEF J!Split
  <2>2. QED
    BY <2>1 DEF FitsSoFar
<1>4. QED
  BY <1>2, <1>3 DEF J!InsideBlocks

(* What the sums over lists of texts say of a text behind the others.       *)
LEMMA InksBehind ==
  ASSUME NEW list \in Seq(Seq(Text))
  PROVE  /\ J!InksUpto(list)[0] = << >> /\ J!Inks(list) \in Seq(Text)
         /\ \A n \in 1 .. Len(list) :
              J!InksUpto(list)[n] = Behind(J!InksUpto(list)[n - 1], J!Ink(list[n]))
         /\ \A text \in Seq(Text) :
              J!Inks(Append(list, text)) = Behind(J!Inks(list), J!Ink(text))
<1>1. Len(list) \in 0 .. Len(list)
  OBVIOUS
<1>2. J!InksUpto(list)[0] = << >> /\ J!Inks(list) \in Seq(Text)
  BY <1>1, InksAre DEF J!Inks
<1>3. \A n \in 1 .. Len(list) :
        J!InksUpto(list)[n] = J!InksUpto(list)[n - 1] \o J!Ink(list[n])
  BY InksAre
<1>4. \A n \in 1 .. Len(list) :
        J!InksUpto(list)[n] = Behind(J!InksUpto(list)[n - 1], J!Ink(list[n]))
  BY <1>3, Zenon DEF Behind
<1>5. ASSUME NEW text \in Seq(Text)
      PROVE  J!Inks(Append(list, text)) = Behind(J!Inks(list), J!Ink(text))
  <2>1. J!Inks(Append(list, text)) = J!Inks(list) \o J!Ink(text)
    BY InksAppend
  <2>2. QED
    BY <2>1, Zenon DEF Behind
<1>6. QED
  BY <1>2, <1>4, <1>5

(* No loop loses a character that is no blank, or makes one up.             *)
LEMMA InkKept ==
  ASSUME Texts, JoinTypes, InkSoFar, J!InsideBlocks, Words' = Words, Front' = Front
  PROVE  InkSoFar'
<1> USE DEF JoinTypes
<1> DEFINE inks == J!Inks(Front)
           ink == J!InkUpto(arg_data)
<1>1. /\ Words \in Seq(Seq(Text)) /\ Path \in Seq(Text) /\ Len(arg_data) \in Nat
      /\ Front \in Seq(Seq(Text)) /\ start_head \in Nat /\ head \in Nat
  BY FrontTypes DEF Texts
<1>2. /\ inks \in Seq(Text) /\ ink[0] = << >>
      /\ \A n \in 0 .. Len(arg_data) : ink[n] \in Seq(Text)
      /\ \A n \in 1 .. Len(arg_data) :
           ink[n] = IF arg_data[n] = J!Blank THEN ink[n - 1] ELSE Append(ink[n - 1], arg_data[n])
  BY <1>1, InkIs, InksBehind
<1>3. CASE J!JoinArgument
  <2>1. join_i \in 1 .. Len(Words) /\ Words[join_i] \in Seq(Text)
    BY <1>1, <1>3, JoinArgumentStep
  <2>2. Behind(arg_data, Gap) \in Seq(Text)
    BY GapFacts, BehindFacts
  <2>3. J!Ink(Behind(arg_data, Gap)) = J!Ink(arg_data)
    <3>1. J!Ink(Behind(arg_data, Gap)) = Behind(J!Ink(arg_data), << >>)
      BY GapFacts, InkBehind
    <3>2. Behind(J!Ink(arg_data), << >>) = J!Ink(arg_data)
      BY InkType, BehindNothing
    <3>3. QED
      BY <3>1, <3>2
  <2>4. J!Ink(arg_data') = Behind(J!Ink(arg_data), J!Ink(Words[join_i]))
    <3>1. J!Ink(Behind(Behind(arg_data, Gap), Words[join_i])) =
            Behind(J!Ink(Behind(arg_data, Gap)), J!Ink(Words[join_i]))
      BY <2>1, <2>2, InkBehind
    <3>2. arg_data' = Behind(Behind(arg_data, Gap), Words[join_i])
      BY <1>3, JoinArgumentStep
    <3>3. QED
      BY <2>3, <3>1, <3>2
  <2>5. J!InksUpto(Words)[join_i] = Behind(J!InksUpto(Words)[join_i - 1], J!Ink(Words[join_i]))
    BY <1>1, <2>1, InksBehind
  <2>6. join_i' - 1 = join_i /\ join_pc' = "join"
    BY <1>3, <2>1, JoinArgumentStep
  <2>7. J!Ink(arg_data)' = J!InksUpto(Words)'[join_i' - 1]
    BY <2>4, <2>5, <2>6 DEF InkSoFar
  <2>8. QED
    BY <2>6, <2>7 DEF InkSoFar
<1>4. CASE J!EnterArtifact \/ J!EnterExample
  <2>1. args = << >> /\ start_head = 0 /\ start_head' = 0 /\ arg_data' = arg_data
        /\ join_i' = join_i
    BY <1>4, EnterArtifactStep, EnterExampleStep
  <2>2. args' = Front
    <3>1. CASE J!EnterArtifact
      BY <1>1, <2>1, <3>1, EnterArtifactStep, FrontTypes
    <3>2. CASE J!EnterExample
      BY <2>1, <3>2, EnterExampleStep, FrontTypes
    <3>3. QED
      BY <1>4, <3>1, <3>2
  <2>3. SplitTo' = 0
    BY <1>1, <2>1 DEF SplitTo
  <2>4. inks = Behind(inks, ink[0])
    BY <1>2, BehindNothing
  <2>5. J!Inks(args)' = Behind(J!Inks(Front)', J!InkUpto(arg_data)'[SplitTo'])
    BY <2>1, <2>2, <2>3, <2>4
  <2>6. J!Ink(arg_data)' = J!InksUpto(Words)'[join_i' - 1]
    BY <2>1 DEF InkSoFar
  <2>7. QED
    BY <2>5, <2>6 DEF InkSoFar
<1>5. CASE J!PassCharacter \/ J!Finish
  <2>1. /\ join_pc # "join" /\ args' = args /\ start_head' = start_head /\ arg_data' = arg_data
        /\ join_i' = join_i
    BY <1>5, PassCharacterStep, FinishStep
  <2>2. SplitTo' = SplitTo
    BY <2>1 DEF SplitTo
  <2>3. QED
    BY <2>1, <2>2 DEF InkSoFar
<1>6. CASE J!EndArgument
  <2> DEFINE slice == SubSeq(arg_data, start_head + 1, J!Ends)
             e == J!Ends
  <2>1. /\ e \in Nat /\ e <= Len(arg_data) /\ head < Len(arg_data) /\ start_head <= head
        /\ e = (IF head + 1 = Len(arg_data) THEN head + 1 ELSE head)
        /\ join_pc # "join" /\ arg_data' = arg_data /\ join_i' = join_i /\ start_head' = e + 1
    <3>1. start_head <= head
      BY <1>1
    <3>2. arg_data' = arg_data /\ join_i' = join_i
      BY <1>6, EndArgumentStep
    <3>3. QED
      BY <1>1, <1>6, <3>1, <3>2, EndsFacts
  <2> HIDE DEF e
  <2>2. SplitTo = start_head /\ SplitTo' = IF e = Len(arg_data) THEN e ELSE e + 1
    <3>1. start_head <= Len(arg_data) /\ start_head' = e + 1 /\ Len(arg_data') = Len(arg_data)
      BY <1>1, <2>1
    <3>2. e + 1 <= Len(arg_data) <=> e # Len(arg_data)
      BY <1>1, <2>1
    <3>3. e = Len(arg_data) => SplitTo' = e
      BY <3>1, <3>2 DEF SplitTo
    <3>4. e # Len(arg_data) => SplitTo' = e + 1
      BY <3>1, <3>2 DEF SplitTo
    <3>5. QED
      BY <3>1, <3>3, <3>4 DEF SplitTo
  <2>3. ink[SplitTo'] = ink[e]
    <3>1. CASE e = Len(arg_data)
      BY <2>2, <3>1
    <3>2. CASE e # Len(arg_data)
      <4>1. e = head /\ arg_data[e + 1] = J!Blank /\ e + 1 \in 1 .. Len(arg_data) /\ e + 1 - 1 = e
        BY <1>1, <1>6, <2>1, <3>2, EndArgumentStep
      <4> HIDE DEF ink
      <4>2. ink[e + 1] = ink[e]
        <5>1. PICK n \in 1 .. Len(arg_data) : n = e + 1 /\ n - 1 = e
          BY <4>1
        <5>2. arg_data[n] = J!Blank
          BY <4>1, <5>1
        <5>3. ink[n] = ink[n - 1]
          BY <1>2, <5>2, Zenon
        <5>4. QED
          BY <5>1, <5>3
      <4>3. QED
        BY <2>2, <3>2, <4>2
    <3>3. QED
      BY <3>1, <3>2
  <2>4. J!Inks(args) = Behind(inks, ink[start_head])
    BY <2>1, <2>2 DEF InkSoFar
  <2>5. J!Inks(args') = Behind(inks, ink[e])
    <3>1. CASE e > start_head
      <4>1. /\ slice \in Seq(Text) /\ Len(slice) = e - start_head
            /\ \A k \in 1 .. e - start_head : slice[k] = arg_data[start_head + k]
        BY <1>1, <2>1, <3>1, SliceFacts DEF e
      <4> HIDE DEF slice
      <4>2. args' = Append(args, slice)
        BY <1>6, <3>1, EndArgumentStep DEF slice, e
      <4>3. J!Inks(Append(args, slice)) = Behind(J!Inks(args), J!Ink(slice))
        BY <4>1, InksBehind
      <4>4. ink[e] = Behind(ink[start_head], J!Ink(slice))
        <5>1. start_head + Len(slice) = e /\ start_head + Len(slice) <= Len(arg_data)
          BY <1>1, <2>1, <3>1, <4>1
        <5>2. \A k \in 1 .. Len(slice) : arg_data[start_head + k] = slice[k]
          BY <4>1
        <5>3. ink[start_head + Len(slice)] = Behind(ink[start_head], J!Ink(slice))
          BY <1>1, <4>1, <5>1, <5>2, InkOfSlice
        <5>4. QED
          BY <5>1, <5>3
      <4>5. ink[start_head] \in Seq(Text) /\ J!Ink(slice) \in Seq(Text)
        <5>1. J!Ink(slice) \in Seq(Text)
          BY <4>1, InkType
        <5>2. start_head \in 0 .. Len(arg_data)
          BY <1>1, <2>1, <3>1
        <5>3. QED
          BY <1>2, <5>1, <5>2
      <4> HIDE DEF ink, inks
      <4>6. Behind(Behind(inks, ink[start_head]), J!Ink(slice)) =
              Behind(inks, Behind(ink[start_head], J!Ink(slice)))
        BY <1>2, <4>5, BehindBehind
      <4>7. QED
        BY <2>4, <4>2, <4>3, <4>4, <4>6
    <3>2. CASE ~ e > start_head
      <4>1. e = start_head /\ args' = args
        BY <1>1, <1>6, <2>1, <3>2, EndArgumentStep DEF e
      <4>2. QED
        BY <2>4, <4>1
    <3>3. QED
      BY <3>1, <3>2
  <2>6. J!Inks(args)' = Behind(J!Inks(Front)', J!InkUpto(arg_data)'[SplitTo'])
    BY <2>1, <2>3, <2>5
  <2>7. J!Ink(arg_data)' = J!InksUpto(Words)'[join_i' - 1]
    BY <2>1 DEF InkSoFar
  <2>8. QED
    BY <2>6, <2>7 DEF InkSoFar
<1>7. QED
  BY <1>3, <1>4, <1>5, <1>6 DEF J!InsideBlocks, J!Split

(* Where the words stand in the joined text.                                *)
LEMMA StartFacts ==
  ASSUME Texts
  PROVE  /\ Len(Words) \in Nat /\ Start(0) = 0 /\ Start(Len(Words)) = J!Bytes(Words)
         /\ \A n \in 0 .. Len(Words) : Start(n) \in Nat
         /\ \A n \in 1 .. Len(Words) :
              /\ Words[n] \in Seq(Text) /\ Len(Words[n]) \in Nat
              /\ Start(n) = Start(n - 1) + Len(Words[n]) + 1
         /\ \A n \in 0 .. Len(Words) : \A m \in 0 .. n : Start(m) <= Start(n)
<1>1. Words \in Seq(Seq(Text))
  BY DEF Texts
<1>2. /\ J!BytesUpto(Words)[0] = 0 /\ J!BytesUpto(Words)[Len(Words)] = J!Bytes(Words)
      /\ \A n \in 0 .. Len(Words) : J!BytesUpto(Words)[n] \in Nat
      /\ \A n \in 1 .. Len(Words) :
           J!BytesUpto(Words)[n] = J!BytesUpto(Words)[n - 1] + Len(Words[n]) + 1
      /\ \A n \in 0 .. Len(Words) : \A m \in 0 .. n :
           J!BytesUpto(Words)[m] <= J!BytesUpto(Words)[n]
  BY <1>1, BytesAdd, BytesGrow DEF J!Bytes
<1>3. Len(Words) \in Nat /\ \A n \in 1 .. Len(Words) :
        Words[n] \in Seq(Text) /\ Len(Words[n]) \in Nat
  BY <1>1
<1>4. QED
  BY <1>2, <1>3 DEF Start

LEMMA WordFacts ==
  ASSUME Texts, AllWords, NEW n \in 1 .. Len(Words)
  PROVE  Len(Words[n]) > 0 /\ \A c \in 1 .. Len(Words[n]) : Words[n][c] # J!Blank
<1>1. Words[n] \in Seq(Text)
  BY StartFacts
<1>2. Words[n] # << >> /\ \A c \in DOMAIN Words[n] : Words[n][c] # J!Blank
  BY DEF AllWords, J!IsWord
<1>3. QED
  BY <1>1, <1>2

(* Joining puts every word in its place, with a blank behind each but the   *)
(* last.                                                                    *)
LEMMA WordsJoinedKept ==
  ASSUME Texts, JoinTypes, AllWords, WordsJoined, J!InsideBlocks, Words' = Words
  PROVE  WordsJoined'
<1> USE DEF JoinTypes
<1>1. CASE J!JoinArgument
  <2> DEFINE w == Words[join_i]
             D == arg_data
             g == Behind(D, Gap)
             T == Behind(g, w)
  <2>1. join_i \in 1 .. Len(Words) /\ w \in Seq(Text) /\ Len(w) \in Nat /\ Len(D) \in Nat
    BY <1>1, JoinArgumentStep, StartFacts
  <2>2. /\ g \in Seq(Text) /\ Len(g) = Len(D) + Len(Gap)
        /\ \A k \in 1 .. Len(D) : g[k] = D[k]
        /\ \A k \in 1 .. Len(Gap) : g[Len(D) + k] = Gap[k]
    BY GapFacts, BehindFacts
  <2> HIDE DEF w, g
  <2>3. /\ T \in Seq(Text) /\ Len(T) = Len(g) + Len(w)
        /\ \A k \in 1 .. Len(g) : T[k] = g[k]
        /\ \A k \in 1 .. Len(w) : T[Len(g) + k] = w[k]
    BY <2>1, <2>2, BehindFacts
  <2>4. arg_data' = T /\ join_i' = join_i + 1
    BY <1>1, JoinArgumentStep DEF g, w
  <2> HIDE DEF T
  <2>5. Start(join_i) = Start(join_i - 1) + Len(w) + 1 /\ Start(join_i - 1) \in Nat
    BY <2>1, StartFacts DEF w
  <2>6. /\ Len(g) = Start(join_i - 1)
        /\ join_i # 1 => Len(D) = Start(join_i - 1) - 1 /\ T[Start(join_i - 1)] = J!Blank
    <3>1. CASE join_i = 1
      <4>1. Len(D) = 0 /\ Start(join_i - 1) = 0
        BY <3>1, StartFacts DEF WordsJoined
      <4>2. Len(Gap) = 0
        BY <4>1, GapFacts
      <4>3. Len(g) = 0
        BY <2>2, <4>1, <4>2
      <4>4. QED
        BY <3>1, <4>1, <4>3
    <3>2. CASE join_i # 1
      <4>1. join_i - 1 \in 1 .. Len(Words) /\ join_i - 2 \in 0 .. Len(Words)
            /\ join_i - 1 - 1 = join_i - 2
        BY <2>1, <3>2, StartFacts
      <4>2. Start(join_i - 1) = Start(join_i - 2) + Len(Words[join_i - 1]) + 1
        BY <4>1, StartFacts
      <4>3. Len(Words[join_i - 1]) > 0 /\ Len(Words[join_i - 1]) \in Nat
            /\ Start(join_i - 2) \in Nat
        BY <4>1, StartFacts, WordFacts
      <4>4. Len(D) = Start(join_i - 1) - 1
        BY <3>2 DEF WordsJoined
      <4>5. Len(D) # 0
        BY <4>2, <4>3, <4>4
      <4>6. Len(Gap) = 1 /\ Gap[1] = J!Blank
        BY <4>5, GapFacts
      <4>7. Len(g) = Start(join_i - 1) /\ g[Start(join_i - 1)] = J!Blank
        <5>1. g[Len(D) + 1] = Gap[1]
          BY <2>2, <4>6
        <5>2. Len(D) + 1 = Start(join_i - 1)
          BY <2>5, <4>4
        <5>3. QED
          BY <2>2, <4>6, <5>1, <5>2
      <4>8. Start(join_i - 1) \in 1 .. Len(g)
        <5>1. PICK s \in Nat : s = Start(join_i - 1)
          BY <2>5
        <5>2. Len(g) = s /\ s = Len(D) + 1
          BY <2>1, <4>4, <4>7, <5>1
        <5>3. QED
          BY <2>1, <5>1, <5>2
      <4>9. QED
        BY <2>3, <4>4, <4>7, <4>8
    <3>3. QED
      BY <3>1, <3>2
  <2>7. \A k \in 1 .. Len(D) : T[k] = D[k]
    <3>1. \A k \in 1 .. Len(D) : k \in 1 .. Len(g)
      BY <2>1, <2>2, GapFacts
    <3>2. QED
      BY <2>2, <2>3, <3>1
  <2>8. Len(T) = Start(join_i) - 1
    BY <2>1, <2>3, <2>5, <2>6
  <2>9. ASSUME NEW n \in 1 .. join_i, NEW c \in 1 .. Len(Words[n])
        PROVE  T[Start(n - 1) + c] = Words[n][c]
    <3>1. CASE n = join_i
      BY <2>3, <2>6, <3>1 DEF w
    <3>2. CASE n # join_i
      <4>1. /\ n \in 1 .. join_i - 1 /\ n \in 1 .. Len(Words) /\ n \in 0 .. join_i - 1
            /\ join_i - 1 \in 0 .. Len(Words) /\ n - 1 \in 0 .. Len(Words) /\ join_i # 1
        <5>1. PICK x \in Nat : x = Len(Words)
          BY StartFacts
        <5>2. join_i \in 1 .. x
          BY <2>1, <5>1
        <5>3. n \in 1 .. join_i - 1 /\ n \in 1 .. x /\ n \in 0 .. join_i - 1
          BY <3>2, <5>2
        <5>4. join_i - 1 \in 0 .. x /\ n - 1 \in 0 .. x /\ join_i # 1
          BY <3>2, <5>2
        <5>5. QED
          BY <5>1, <5>3, <5>4
      <4>2. Start(n) <= Start(join_i - 1) /\ Start(n) = Start(n - 1) + Len(Words[n]) + 1
            /\ Start(n - 1) \in Nat /\ Len(Words[n]) \in Nat
        BY <4>1, StartFacts
      <4>3. Start(n - 1) + c \in 1 .. Len(D)
        <5>1. PICK a \in Nat, b \in Nat, l \in Nat :
                a = Start(n - 1) /\ b = Start(join_i - 1) /\ l = Len(Words[n])
          BY <2>5, <4>2
        <5>2. a + l + 1 <= b /\ Len(D) = b - 1 /\ c \in 1 .. l
          BY <2>6, <4>1, <4>2, <5>1
        <5>3. a + c \in 1 .. b - 1
          BY <5>2
        <5>4. QED
          BY <5>1, <5>2, <5>3
      <4>4. D[Start(n - 1) + c] = Words[n][c]
        BY <4>1 DEF WordsJoined
      <4>5. QED
        BY <2>7, <4>3, <4>4
    <3>3. QED
      BY <3>1, <3>2
  <2>10. ASSUME NEW n \in 1 .. join_i - 1
         PROVE  T[Start(n)] = J!Blank
    <3>1. CASE n = join_i - 1
      BY <2>1, <2>6, <3>1
    <3>2. CASE n # join_i - 1
      <4>1. /\ n \in 1 .. join_i - 2 /\ n \in 1 .. Len(Words) /\ n \in 0 .. join_i - 2
            /\ join_i - 2 \in 0 .. Len(Words) /\ join_i - 1 \in 1 .. Len(Words)
            /\ join_i - 1 - 1 = join_i - 2 /\ n - 1 \in 0 .. Len(Words) /\ join_i # 1
        BY <2>1, <3>2, StartFacts
      <4>2. /\ Start(n) <= Start(join_i - 2) /\ Start(n) = Start(n - 1) + Len(Words[n]) + 1
            /\ Start(n - 1) \in Nat /\ Len(Words[n]) \in Nat /\ Start(join_i - 2) \in Nat
            /\ Start(join_i - 1) = Start(join_i - 2) + Len(Words[join_i - 1]) + 1
            /\ Len(Words[join_i - 1]) \in Nat
        BY <4>1, StartFacts
      <4>3. Start(n) \in 1 .. Len(D)
        <5>1. PICK a \in Nat, b \in Nat, l \in Nat, m \in Nat :
                /\ a = Start(n - 1) /\ b = Start(join_i - 2) /\ l = Len(Words[n])
                /\ m = Len(Words[join_i - 1])
          BY <4>2
        <5>2. Start(n) = a + l + 1 /\ Start(n) <= b
          BY <4>2, <5>1, Zenon
        <5>3. Start(join_i - 1) = b + m + 1
          BY <4>2, <5>1, Zenon
        <5>4. Len(D) = Start(join_i - 1) - 1
          BY <2>6, <4>1, Zenon
        <5> HIDE DEF D
        <5>5. \A x, y, z \in Int : x = a + l + 1 /\ x <= b /\ y = b + m + 1 /\ z = y - 1
                => x \in 1 .. z
          OBVIOUS
        <5>6. Start(n) \in Int /\ Start(join_i - 1) \in Int /\ Len(D) \in Int
          BY <2>1, <2>5, <5>2
        <5>7. QED
          BY <5>2, <5>3, <5>4, <5>5, <5>6, Zenon
      <4>4. D[Start(n)] = J!Blank
        BY <4>1 DEF WordsJoined
      <4>5. QED
        BY <2>7, <4>3, <4>4
    <3>3. QED
      BY <3>1, <3>2
  <2>11. /\ join_i' # 1 /\ join_i' - 1 = join_i /\ join_i' - 2 = join_i - 1
    BY <2>1, <2>4
  <2>12. Len(arg_data') = IF join_i' = 1 THEN 0 ELSE Start(join_i' - 1) - 1
    BY <2>4, <2>8, <2>11
  <2>13. \A n \in 1 .. join_i' - 1 : \A c \in 1 .. Len(Words[n]) :
           arg_data'[Start(n - 1) + c] = Words[n][c]
    BY <2>4, <2>9, <2>11
  <2>14. \A n \in 1 .. join_i' - 2 : arg_data'[Start(n)] = J!Blank
    BY <2>4, <2>10, <2>11
  <2>15. QED
    BY <2>12, <2>13, <2>14 DEF WordsJoined, Start
<1>2. CASE J!EnterArtifact \/ J!EnterExample \/ J!Split
  <2>1. arg_data' = arg_data /\ join_i' = join_i
    BY <1>2, EnterArtifactStep, EnterExampleStep, PassCharacterStep, EndArgumentStep, FinishStep
    DEF J!Split
  <2>2. QED
    BY <2>1 DEF WordsJoined, Start
<1>3. QED
  BY <1>1, <1>2 DEF J!InsideBlocks

(* Where the next word stands, and what is behind it.                       *)
LEMMA WordStands ==
  ASSUME Texts, JoinTypes, AllWords, WordsJoined, join_pc # "join",
         NEW f \in Nat, f < Len(Words)
  PROVE  /\ f + 1 \in 1 .. Len(Words) /\ Words[f + 1] \in Seq(Text)
         /\ Start(f) \in Nat /\ Len(Words[f + 1]) \in Nat /\ Len(Words[f + 1]) > 0
         /\ Start(f + 1) = Start(f) + Len(Words[f + 1]) + 1
         /\ \A c \in 1 .. Len(Words[f + 1]) :
              /\ arg_data[Start(f) + c] = Words[f + 1][c]
              /\ arg_data[Start(f) + c] # J!Blank
         /\ \/ Start(f) + Len(Words[f + 1]) = Len(arg_data)
            \/ /\ Start(f) + Len(Words[f + 1]) + 1 < Len(arg_data)
               /\ arg_data[Start(f) + Len(Words[f + 1]) + 1] = J!Blank
<1>1. Len(Words) \in Nat /\ join_i = Len(Words) + 1 /\ Len(arg_data) \in Nat
  BY StartFacts DEF JoinTypes
<1>2. /\ f + 1 \in 1 .. Len(Words) /\ f \in 0 .. Len(Words) /\ f + 1 - 1 = f
      /\ join_i # 1 /\ join_i - 1 = Len(Words) /\ f + 1 \in 1 .. join_i - 1
  BY <1>1
<1>3. PICK s \in Nat : s = Start(f)
  BY <1>2, StartFacts
<1>4. PICK l \in Nat : l = Len(Words[f + 1])
  BY <1>2, StartFacts
<1>5. l > 0 /\ Words[f + 1] \in Seq(Text) /\ Start(f + 1) = s + l + 1
      /\ \A c \in 1 .. l : Words[f + 1][c] # J!Blank
  <2>1. l > 0 /\ \A c \in 1 .. l : Words[f + 1][c] # J!Blank
    BY <1>2, <1>4, WordFacts
  <2>2. Words[f + 1] \in Seq(Text)
    BY <1>2, StartFacts
  <2>3. PICK m \in 1 .. Len(Words) : m = f + 1 /\ m - 1 = f
    BY <1>2
  <2>4. Start(m) = Start(m - 1) + Len(Words[m]) + 1
    BY StartFacts
  <2>5. Start(f + 1) = s + l + 1
    BY <1>3, <1>4, <2>3, <2>4
  <2>6. QED
    BY <2>1, <2>2, <2>5
<1>6. \A c \in 1 .. l : arg_data[s + c] = Words[f + 1][c]
  <2>1. \A n \in 1 .. join_i - 1 : \A c \in 1 .. Len(Words[n]) :
          arg_data[Start(n - 1) + c] = Words[n][c]
    BY DEF WordsJoined
  <2>2. QED
    BY <1>2, <1>3, <1>4, <2>1
<1>7. Len(arg_data) = Start(Len(Words)) - 1
  BY <1>2 DEF WordsJoined
<1>8. \/ s + l = Len(arg_data)
      \/ s + l + 1 < Len(arg_data) /\ arg_data[s + l + 1] = J!Blank
  <2>1. CASE f + 1 = Len(Words)
    BY <1>1, <1>5, <1>7, <2>1
  <2>2. CASE f + 1 # Len(Words)
    <3>1. /\ f + 2 \in 1 .. Len(Words) /\ f + 2 - 1 = f + 1 /\ f + 1 \in 1 .. join_i - 2
          /\ f + 2 \in 0 .. Len(Words) /\ Len(Words) \in 0 .. Len(Words)
      <4>1. PICK x \in Nat : x = Len(Words)
        BY <1>1
      <4>2. f + 1 < x /\ join_i = x + 1
        BY <1>1, <2>2, <4>1
      <4>3. f + 2 \in 1 .. x /\ f + 2 \in 0 .. x /\ x \in 0 .. x
        BY <4>2
      <4>4. f + 1 \in 1 .. join_i - 2
        BY <4>2
      <4>5. QED
        BY <4>1, <4>3, <4>4
    <3>2. PICK m \in Nat : m = Len(Words[f + 2]) /\ m > 0
      BY <3>1, StartFacts, WordFacts
    <3>3. Start(f + 2) = Start(f + 1) + m + 1
      <4>1. PICK n \in 1 .. Len(Words) : n = f + 2 /\ n - 1 = f + 1
        BY <3>1
      <4>2. Start(n) = Start(n - 1) + Len(Words[n]) + 1
        BY StartFacts
      <4>3. QED
        BY <3>2, <4>1, <4>2, Zenon
    <3>4. Start(f + 2) <= Start(Len(Words)) /\ Start(Len(Words)) \in Nat
      BY <3>1, StartFacts
    <3>5. arg_data[Start(f + 1)] = J!Blank
      BY <3>1 DEF WordsJoined
    <3>6. s + l + 1 < Len(arg_data)
      <4>1. PICK x \in Nat, y \in Nat : x = Start(Len(Words)) /\ y = Len(arg_data)
        BY <1>1, <3>4
      <4>2. y = x - 1 /\ Start(f + 1) = s + l + 1 /\ Start(f + 2) <= x
        BY <1>5, <1>7, <3>4, <4>1
      <4>3. s + l + 1 + m + 1 <= x
        BY <3>3, <4>2
      <4>4. y = x - 1
        BY <4>2
      <4>5. \A a, b \in Nat : a + m + 1 <= x /\ b = x - 1 => a < b
        BY <3>2
      <4>6. s + l + 1 < y
        BY <4>3, <4>4, <4>5
      <4>7. QED
        BY <4>1, <4>6
    <3>7. QED
      BY <1>5, <3>5, <3>6
  <2>3. QED
    BY <2>1, <2>2
<1>9. QED
  BY <1>2, <1>3, <1>4, <1>5, <1>6, <1>8

(* As long as the loop is in the text there is a word to be found.          *)
LEMMA WordToFind ==
  ASSUME Texts, JoinTypes, AllWords, WordsJoined, WordsSplit, join_pc # "join",
         head < Len(arg_data)
  PROVE  Found \in Nat /\ Found < Len(Words)
<1>1. Len(Words) \in Nat /\ join_i = Len(Words) + 1 /\ Len(arg_data) \in Nat
  BY StartFacts DEF JoinTypes
<1>2. Found \in 0 .. Len(Words) /\ start_head = Start(Found)
  BY DEF WordsSplit
<1>3. start_head \in Nat /\ head \in Nat /\ start_head <= head
  BY <1>1 DEF JoinTypes
<1> HIDE DEF Found
<1>4. SUFFICES ASSUME Found = Len(Words)
               PROVE  FALSE
  BY <1>1, <1>2
<1>5. CASE Len(Words) = 0
  <2>1. Len(arg_data) = 0
    BY <1>1, <1>5 DEF WordsJoined
  <2>2. QED
    BY <1>3, <2>1
<1>6. CASE Len(Words) # 0
  <2>1. Len(arg_data) = Start(Len(Words)) - 1
    BY <1>1, <1>6 DEF WordsJoined
  <2>2. QED
    BY <1>1, <1>2, <1>3, <1>4, <2>1
<1>7. QED
  BY <1>5, <1>6

(* What is cut where an argument ends is the next word.                     *)
LEMMA CutIsWord ==
  ASSUME Texts, JoinTypes, AllWords, WordsJoined, WordsSplit, join_pc # "join",
         head < Len(arg_data), arg_data[head + 1] = J!Blank \/ head + 1 = Len(arg_data),
         NEW f \in Nat, f = Found
  PROVE  /\ f < Len(Words) /\ f + 1 \in 1 .. Len(Words) /\ Words[f + 1] \in Seq(Text)
         /\ Len(Words[f + 1]) > 0
         /\ start_head = Start(f) /\ text_len = J!Bytes(Front) + Start(f)
         /\ Start(f + 1) = start_head + Len(Words[f + 1]) + 1
         /\ J!Ends = start_head + Len(Words[f + 1])
         /\ SubSeq(arg_data, start_head + 1, J!Ends) = Words[f + 1]
<1>1. /\ Len(arg_data) \in Nat /\ arg_data \in Seq(Text)
      /\ start_head \in Nat /\ head \in Nat /\ start_head <= head
      /\ J!Ends = IF head + 1 = Len(arg_data) THEN head + 1 ELSE head
  BY DEF JoinTypes, J!Ends, J!IsLast, J!size
<1>2. f < Len(Words)
  BY WordToFind
<1>3. start_head = Start(f) /\ head <= Start(f) + Len(Words[f + 1])
      /\ text_len = J!Bytes(Front) + Start(f)
  BY <1>1, <1>2 DEF WordsSplit
<1>4. PICK w \in Seq(Text) : w = Words[f + 1]
  BY <1>1, <1>2, WordStands
<1>5. PICK l \in Nat : l = Len(w)
  OBVIOUS
<1>6. /\ f + 1 \in 1 .. Len(Words) /\ l > 0 /\ Start(f + 1) = start_head + l + 1
      /\ \A c \in 1 .. l :
           arg_data[start_head + c] = w[c] /\ arg_data[start_head + c] # J!Blank
      /\ \/ start_head + l = Len(arg_data)
         \/ /\ start_head + l + 1 < Len(arg_data)
            /\ arg_data[start_head + l + 1] = J!Blank
  BY <1>1, <1>2, <1>3, <1>4, <1>5, WordStands
<1>7. J!Ends = start_head + l
  <2>1. head <= start_head + l
    BY <1>3, <1>4, <1>5
  <2>2. CASE head = start_head + l
    <3>1. start_head + l + 1 < Len(arg_data)
      BY <1>1, <1>6, <2>2
    <3>2. QED
      BY <1>1, <2>2, <3>1
  <2>3. CASE head < start_head + l
    <3>1. PICK c \in 1 .. l : head + 1 = start_head + c
      <4>1. head + 1 - start_head \in 1 .. l /\ head + 1 = start_head + (head + 1 - start_head)
        BY <1>1, <2>3
      <4>2. QED
        BY <4>1
    <3>2. arg_data[head + 1] # J!Blank
      BY <1>6, <3>1
    <3>3. head + 1 = Len(arg_data)
      BY <1>1, <3>2
    <3>4. QED
      BY <1>1, <1>6, <2>3, <3>3
  <2>4. QED
    BY <1>1, <2>1, <2>2, <2>3
<1> DEFINE slice == SubSeq(arg_data, start_head + 1, J!Ends)
<1>8. slice = w
  <2>1. start_head + l \in Nat /\ start_head < start_head + l /\ start_head + l <= Len(arg_data)
        /\ start_head + l - start_head = l
    BY <1>1, <1>6
  <2>2. /\ slice \in Seq(Text) /\ Len(slice) = l
        /\ \A k \in 1 .. l : slice[k] = arg_data[start_head + k]
    <3>1. arg_data \in Seq(Text)
      BY DEF JoinTypes
    <3>2. PICK e \in Nat : /\ start_head < e /\ e <= Len(arg_data) /\ e - start_head = l
                          /\ J!Ends = e
      <4>1. PICK x \in Nat : x = start_head + l
        BY <2>1
      <4>2. start_head < x /\ x <= Len(arg_data) /\ x - start_head = l
        BY <1>1, <2>1, <4>1
      <4>3. J!Ends = x
        BY <1>7, <4>1, Zenon
      <4>4. QED
        BY <4>2, <4>3
    <3>3. /\ SubSeq(arg_data, start_head + 1, e) \in Seq(Text)
          /\ Len(SubSeq(arg_data, start_head + 1, e)) = e - start_head
          /\ \A k \in 1 .. e - start_head :
               SubSeq(arg_data, start_head + 1, e)[k] = arg_data[start_head + k]
      BY <1>1, <3>1, <3>2, SliceFacts
    <3>4. QED
      BY <3>2, <3>3
  <2> HIDE DEF slice
  <2>3. \A k \in 1 .. l : slice[k] = w[k]
    BY <1>6, <2>2
  <2>4. QED
    BY <1>5, <2>2, <2>3, SeqEqual
<1>9. QED
  BY <1>1, <1>2, <1>3, <1>4, <1>5, <1>6, <1>7, <1>8

(* Splitting finds the words one after the other.                           *)
LEMMA WordsSplitKept ==
  ASSUME Texts, JoinTypes, AtWord, AllWords, WordsJoined, join_pc # "join" => WordsSplit,
         J!InsideBlocks, Words' = Words, Front' = Front, JoinTypes'
  PROVE  join_pc' # "join" => WordsSplit'
<1> DEFINE F == Len(Front)
<1>1. /\ Words \in Seq(Seq(Text)) /\ Len(Words) \in Nat /\ Len(arg_data) \in Nat
      /\ start_head \in Nat /\ head \in Nat /\ start_head <= head
      /\ args \in Seq(Seq(Text)) /\ Len(args) \in Nat
      /\ Front \in Seq(Seq(Text)) /\ F \in Nat
  <2>1. Words \in Seq(Seq(Text)) /\ Len(Words) \in Nat
    BY DEF Texts
  <2>2. /\ Len(arg_data) \in Nat /\ start_head \in 0 .. Len(arg_data) + 1
        /\ head \in start_head .. Len(arg_data) + 1
        /\ args \in Seq(Seq(Text)) /\ Len(args) \in Nat
    BY DEF JoinTypes
  <2>3. start_head \in Nat /\ head \in Nat /\ start_head <= head
    BY <2>2
  <2>4. Front \in Seq(Seq(Text)) /\ F \in Nat
    BY FrontTypes
  <2>5. QED
    BY <2>1, <2>2, <2>3, <2>4
<1>2. Start(0) = 0 /\ J!Bytes(Front) \in Nat
  <2>1. Len(Front) \in 0 .. Len(Front)
    BY <1>1
  <2>2. QED
    BY <1>1, <2>1, BytesAdd, StartFacts DEF J!Bytes
<1>3. CASE J!JoinArgument
  BY <1>3, JoinArgumentStep
<1>4. CASE J!EnterArtifact \/ J!EnterExample
  <2>1. args = << >> /\ start_head' = 0 /\ head' = 0
    <3>1. start_head = 0 /\ head = 0 /\ args = << >>
      BY <1>4, EnterArtifactStep, EnterExampleStep DEF JoinTypes
    <3>2. QED
      BY <1>4, <3>1, EnterArtifactStep, EnterExampleStep
  <2>2. args' = Front
    <3>1. CASE J!EnterArtifact
      BY <1>1, <2>1, <3>1, EnterArtifactStep, FrontTypes DEF Texts
    <3>2. CASE J!EnterExample
      BY <2>1, <3>2, EnterExampleStep, FrontTypes
    <3>3. QED
      BY <1>4, <3>1, <3>2
  <2>3. Len(args') - F = 0 /\ 0 \in 0 .. Len(Words)
    BY <1>1, <2>2
  <2>4. text_len' = J!Bytes(Front) + Start(0)
    <3>1. text_len' = J!Bytes(args')
      BY DEF JoinTypes
    <3>2. QED
      BY <1>2, <2>2, <3>1
  <2>5. 0 < Len(Words) => head' <= Start(0) + Len(Words[0 + 1])
    BY <1>1, <1>2, <2>1
  <2>6. \A n \in 1 .. F : args'[n] = Front[n]
    BY <2>2
  <2>7. start_head' = Start(0)
    BY <1>2, <2>1
  <2>8. QED
    BY <2>3, <2>4, <2>5, <2>6, <2>7 DEF WordsSplit, Found, Start
<1>5. CASE J!PassCharacter
  <2>1. /\ join_pc # "join" /\ head < Len(arg_data) /\ arg_data[head + 1] # J!Blank
        /\ head' = head + 1 /\ args' = args /\ start_head' = start_head /\ text_len' = text_len
    BY <1>5, PassCharacterStep
  <2>2. Found \in Nat /\ Found < Len(Words)
    BY <2>1, WordToFind
  <2>3. /\ Start(Found) \in Nat /\ Len(Words[Found + 1]) \in Nat
        /\ \/ Start(Found) + Len(Words[Found + 1]) = Len(arg_data)
           \/ arg_data[Start(Found) + Len(Words[Found + 1]) + 1] = J!Blank
    BY <2>1, <2>2, WordStands
  <2>4. head <= Start(Found) + Len(Words[Found + 1])
    BY <2>1, <2>2 DEF WordsSplit
  <2>5. head' <= Start(Found) + Len(Words[Found + 1])
    <3>1. PICK e \in Nat : e = Start(Found) + Len(Words[Found + 1])
      BY <2>3
    <3>2. e = Len(arg_data) \/ arg_data[e + 1] = J!Blank
      BY <2>3, <3>1
    <3>3. head <= e /\ head # e
      BY <2>1, <2>4, <3>1, <3>2
    <3>4. head' <= e
      BY <1>1, <2>1, <3>3
    <3>5. QED
      BY <3>1, <3>4
  <2>6. Found' = Found
    BY <2>1 DEF Found
  <2>7. QED
    BY <2>1, <2>5, <2>6 DEF WordsSplit, Start
<1>6. CASE J!EndArgument
  <2>1. /\ join_pc # "join" /\ head < Len(arg_data)
        /\ arg_data[head + 1] = J!Blank \/ head + 1 = Len(arg_data)
        /\ J!Ends = IF head + 1 = Len(arg_data) THEN head + 1 ELSE head
        /\ start_head' = J!Ends + 1 /\ head' = J!Ends + 1
    BY <1>6, EndArgumentStep
  <2>2. PICK f \in Nat : f = Found /\ f < Len(Words)
    BY <2>1, WordToFind
  <2>3. PICK w \in Seq(Text) : w = Words[f + 1]
    BY <2>1, <2>2, CutIsWord
  <2>4. PICK l \in Nat : l = Len(w)
    OBVIOUS
  <2>5. /\ start_head = Start(f) /\ text_len = J!Bytes(Front) + Start(f)
        /\ f + 1 \in 1 .. Len(Words) /\ l > 0 /\ Start(f + 1) = start_head + l + 1
        /\ J!Ends = start_head + l
    BY <2>1, <2>2, <2>3, <2>4, CutIsWord
  <2>6. SubSeq(arg_data, start_head + 1, J!Ends) = w
    BY <2>1, <2>2, <2>3, CutIsWord
  <2>9. args' = Append(args, w) /\ text_len' = text_len + l + 1
    <3>1. J!Ends > start_head
      BY <1>1, <2>5
    <3>2. /\ args' = Append(args, SubSeq(arg_data, start_head + 1, J!Ends))
          /\ text_len' = text_len + Len(SubSeq(arg_data, start_head + 1, J!Ends)) + 1
      BY <1>6, <3>1, EndArgumentStep
    <3>3. QED
      BY <2>4, <2>6, <3>2
  <2>10. /\ Len(args') = Len(args) + 1 /\ args'[Len(args) + 1] = w
         /\ \A n \in 1 .. Len(args) : args'[n] = args[n]
    BY <1>1, <2>9, AppendProperties
  <2>11. f = Len(args) - F /\ Len(args') - F = f + 1
    BY <1>1, <2>2, <2>10 DEF Found
  <2>12. start_head' = Start(f + 1) /\ head' = Start(f + 1)
    BY <2>1, <2>5
  <2>13. text_len' = J!Bytes(Front) + Start(f + 1)
    <3>1. Start(f) = start_head /\ Start(f + 1) = start_head + l + 1
      BY <2>5
    <3>2. text_len = J!Bytes(Front) + start_head /\ text_len' = text_len + l + 1
      BY <2>5, <2>9, Zenon
    <3>3. PICK b \in Nat : b = J!Bytes(Front)
      BY <1>2
    <3>4. text_len' = b + start_head + l + 1 /\ Start(f + 1) = start_head + l + 1
      BY <3>1, <3>2, <3>3
    <3>5. QED
      BY <1>1, <3>3, <3>4
  <2>14. \A n \in 1 .. F : args'[n] = Front[n]
    <3>1. \A n \in 1 .. F : n \in 1 .. Len(args) /\ args[n] = Front[n]
      BY <1>1, <2>1, <2>11 DEF WordsSplit
    <3>2. QED
      BY <2>10, <3>1
  <2>15. ASSUME NEW n \in 1 .. f + 1
         PROVE  args'[F + n] = Words[n]
    <3>1. CASE n = f + 1
      <4>1. F + n = Len(args) + 1
        BY <1>1, <2>11, <3>1
      <4>2. QED
        BY <2>3, <2>10, <3>1, <4>1
    <3>2. CASE n # f + 1
      <4>1. n \in 1 .. f /\ F + n \in 1 .. Len(args)
        <5>1. \A x, y \in Nat : f = x - y => y + n \in 1 .. x
          BY <3>2
        <5>2. n \in 1 .. f
          BY <3>2
        <5>3. QED
          BY <1>1, <2>11, <5>1, <5>2, Zenon
      <4>2. args[F + n] = Words[n]
        BY <2>1, <2>2, <4>1 DEF WordsSplit
      <4>3. QED
        BY <2>10, <4>1, <4>2
    <3>3. QED
      BY <3>1, <3>2
  <2>16. f + 1 < Len(Words) => head' <= Start(f + 1) + Len(Words[f + 1 + 1])
    <3>1. SUFFICES ASSUME f + 1 < Len(Words)
                   PROVE  head' <= Start(f + 1) + Len(Words[f + 1 + 1])
      OBVIOUS
    <3>2. f + 1 + 1 \in 1 .. Len(Words)
      BY <1>1, <3>1
    <3>3. PICK m \in Nat : m = Len(Words[f + 1 + 1])
      BY <3>2, StartFacts
    <3>4. Start(f + 1) \in Nat
      <4>1. f + 1 \in 0 .. Len(Words)
        BY <1>1, <2>5
      <4>2. QED
        BY <4>1, StartFacts
    <3>5. QED
      BY <2>12, <3>3, <3>4
  <2>17. f + 1 \in 0 .. Len(Words)
    BY <2>5
  <2>18. Found' = f + 1
    BY <2>11 DEF Found
  <2>19. QED
    BY <2>12, <2>13, <2>14, <2>15, <2>16, <2>17, <2>18 DEF WordsSplit, Start
<1>7. CASE J!Finish
  <2>1. /\ join_pc # "join" /\ args' = args /\ start_head' = start_head /\ head' = head
        /\ text_len' = text_len
    BY <1>7, FinishStep
  <2>2. Found' = Found
    BY <2>1 DEF Found
  <2>3. QED
    BY <2>1, <2>2 DEF WordsSplit, Start
<1>8. QED
  BY <1>3, <1>4, <1>5, <1>6, <1>7 DEF J!InsideBlocks, J!Split

-------------------------------------------------------------------------------
(* What stands in front of the words takes the bytes of the path at most.   *)
LEMMA FrontBytes ==
  ASSUME Texts
  PROVE  J!Bytes(Front) \in Nat /\ J!Bytes(Front) <= Len(Path) + 1
<1>1. Path \in Seq(Text) /\ Len(Path) \in Nat
  BY DEF Texts
<1>2. CASE artifact = "barf"
  <2>1. << >> \in Seq(Seq(Text)) /\ Append(<< >>, Path) = << Path >>
    BY <1>1
  <2>2. J!Bytes(Append(<< >>, Path)) = J!Bytes(<< >>) + Len(Path) + 1
    BY <1>1, <2>1, BytesAppend
  <2>3. QED
    BY <1>1, <1>2, <2>1, <2>2, NoTexts, FrontTypes
<1>3. CASE artifact # "barf"
  BY <1>1, <1>3, NoTexts, FrontTypes
<1>4. QED
  BY <1>2, <1>3

(* A step inside the blocks leaves them big enough.                         *)
LEMMA BlocksKept ==
  ASSUME Texts, JoinTypes, InBlocks, J!InsideBlocks, Words' = Words, Path' = Path
  PROVE  InBlocks'
<1>1. /\ join_overrun' = join_overrun /\ (Short' <=> Short) /\ (Few' <=> Few)
  BY DEF J!InsideBlocks, Short, Few, AllWords
<1>2. Len(args) \in Nat /\ ArgCap \in Nat /\ args \in Seq(Seq(Text)) /\ Path \in Seq(Text)
  BY SizesAssumption DEF J!SizesAssumption, JoinTypes, Texts
<1>3. /\ Len(arg_data') <= PerArg * Len(Words)
      /\ Len(args') <= ArgCap /\ text_len' <= TextCap
  <2>1. CASE J!JoinArgument
    BY <2>1, JoinArgumentStep, StepsHaveRoom DEF InBlocks
  <2>2. CASE J!EnterArtifact
    <3>1. Len(args') = Len(args) + 1
      BY <1>2, <2>2, EnterArtifactStep, AppendProperties
    <3>2. QED
      BY <1>2, <2>2, <3>1, EnterArtifactStep, StepsHaveRoom DEF InBlocks
  <2>3. CASE J!EnterExample
    BY <2>3, EnterExampleStep DEF InBlocks
  <2>4. CASE J!PassCharacter
    BY <2>4, PassCharacterStep DEF InBlocks
  <2>5. CASE J!EndArgument
    <3>1. CASE ~ J!Ends > start_head
      BY <2>5, <3>1, EndArgumentStep DEF InBlocks
    <3>2. CASE J!Ends > start_head
      <4> DEFINE slice == SubSeq(arg_data, start_head + 1, J!Ends)
      <4>1. slice \in Seq(Text)
        <5>1. /\ arg_data \in Seq(Text) /\ Len(arg_data) \in Nat /\ start_head \in Nat
              /\ head \in Nat /\ start_head <= head
          BY DEF JoinTypes
        <5>2. J!Ends \in Nat /\ J!Ends <= Len(arg_data)
          BY <2>5, <5>1, EndsFacts
        <5>3. QED
          BY <3>2, <5>1, <5>2, SliceFacts
      <4> HIDE DEF slice
      <4>2. /\ args' = Append(args, slice) /\ Len(args) < ArgCap /\ text_len' <= TextCap
            /\ arg_data' = arg_data
        BY <2>5, <3>2, EndArgumentStep, StepsHaveRoom DEF slice
      <4>3. Len(args') = Len(args) + 1
        BY <1>2, <4>1, <4>2, AppendProperties
      <4>4. QED
        BY <1>2, <4>2, <4>3 DEF InBlocks
    <3>3. QED
      BY <3>1, <3>2
  <2>6. CASE J!Finish
    BY <2>6, FinishStep DEF InBlocks
  <2>7. QED
    BY <2>1, <2>2, <2>3, <2>4, <2>5, <2>6 DEF J!InsideBlocks, J!Split
<1>4. QED
  BY <1>1, <1>3 DEF InBlocks

(* Only what is too long, or too much, gets behind them.                    *)
LEMMA OverrunIsTooMuch ==
  ASSUME Texts, JoinInv, J!Overrun, Words' = Words, Path' = Path
  PROVE  InBlocks'
<1>1. /\ UNCHANGED << artifact, join_pc, join_i, arg_data, start_head, head, args, text_len >>
      /\ join_overrun' \in {"join", "split"}
      /\ (Short' <=> Short) /\ (Few' <=> Few)
  BY DEF J!Overrun, J!OverrunJoin, J!OverrunPath, J!OverrunSplit, Short, Few, AllWords
<1>2. Texts /\ JoinTypes /\ AtWord /\ FitsSoFar /\ InBlocks
  BY DEF JoinInv
<1>3. ASSUME Short, join_overrun' = "join"
      PROVE  FALSE
  <2>1. join_i <= Len(Words) /\ ~ Len(Behind(Behind(arg_data, Gap), Words[join_i])) <=
                                    PerArg * Len(Words)
    <3>1. J!OverrunJoin
      BY <1>3 DEF J!Overrun, J!OverrunPath, J!OverrunSplit
    <3>2. join_i <= Len(Words) /\ ~ Len(J!Joined) <= PerArg * Len(Words)
      BY <3>1 DEF J!OverrunJoin, J!JoinedFits, Words
    <3>3. J!Joined = Behind(Behind(arg_data, Gap), Words[join_i])
      BY DEF J!Joined, J!Separator, J!size, Words, Gap, Behind
    <3>4. QED
      BY <3>2, <3>3
  <2>2. Len(Behind(Behind(arg_data, Gap), Words[join_i])) <= PerArg * join_i
    BY <1>2, <1>3, <2>1, NextFits
  <2>3. PerArg * join_i <= PerArg * Len(Words)
    <3>1. PICK a \in Nat, d \in Nat : join_i = a /\ Len(Words) = a + d
      <4>1. join_i \in Nat /\ Len(Words) - join_i \in Nat
            /\ Len(Words) = join_i + (Len(Words) - join_i)
        BY <1>2, <2>1 DEF JoinTypes, Texts
      <4>2. QED
        BY <4>1
    <3>2. \A p, x, y \in Nat : p * (x + y) = p * x + p * y /\ p * x \in Nat /\ p * y \in Nat
      OBVIOUS
    <3>3. PerArg \in Nat
      BY SizesAssumption DEF J!SizesAssumption
    <3>4. PerArg * a <= PerArg * (a + d)
      <4>1. /\ PerArg * (a + d) = PerArg * a + PerArg * d
            /\ PerArg * a \in Nat /\ PerArg * d \in Nat
        BY <3>2, <3>3, Zenon
      <4> DEFINE x == PerArg * a
                 y == PerArg * d
                 z == PerArg * (a + d)
      <4>2. x \in Nat /\ y \in Nat /\ z = x + y
        BY <4>1
      <4> HIDE DEF x, y, z
      <4>3. x <= z
        BY <4>2
      <4>4. QED
        BY <4>3 DEF x, z
    <3>5. QED
      BY <3>1, <3>4
  <2>4. \A x, y, z \in Nat : x <= y /\ y <= z => x <= z
    OBVIOUS
  <2>5. /\ Len(Behind(Behind(arg_data, Gap), Words[join_i])) \in Nat
        /\ PerArg * join_i \in Nat /\ PerArg * Len(Words) \in Nat
    <3>1. PerArg \in Nat /\ join_i \in Nat /\ Len(Words) \in Nat /\ Words[join_i] \in Seq(Text)
          /\ arg_data \in Seq(Text)
      BY <1>2, <2>1, SizesAssumption DEF J!SizesAssumption, JoinTypes, Texts
    <3>2. Behind(Behind(arg_data, Gap), Words[join_i]) \in Seq(Text)
      BY <3>1, GapFacts, BehindFacts
    <3>3. QED
      BY <3>1, <3>2
  <2>6. QED
    BY <2>1, <2>2, <2>3, <2>4, <2>5, Zenon
<1>4. ASSUME Few, join_overrun' = "split"
      PROVE  FALSE
  <2>1. /\ Len(Words) \in Nat /\ Len(Words) < ArgCap /\ AllWords /\ ArgCap \in Nat
        /\ TextCap \in Nat /\ Len(Path) \in Nat /\ J!Bytes(Words) \in Nat
        /\ Len(Path) + 1 + J!Bytes(Words) <= TextCap
    BY <1>2, <1>4, StartFacts, SizesAssumption DEF Few, J!SizesAssumption, Texts
  <2>2. WordsJoined /\ (join_pc # "join" => WordsSplit)
    BY <2>1 DEF JoinInv
  <2>3. CASE J!OverrunPath
    <3>1. args = << >> /\ text_len = J!Bytes(args)
      BY <1>2, <2>3 DEF J!OverrunPath, JoinTypes
    <3>2. Len(args) = 0 /\ text_len = 0
      BY <3>1, NoTexts
    <3>3. ~ (Len(args) < ArgCap /\ text_len + Len(Path) + 1 <= TextCap)
      BY <2>3 DEF J!OverrunPath, J!HasRoom, Path
    <3>4. QED
      BY <2>1, <3>2, <3>3
  <2>4. CASE J!OverrunSplit
    <3>1. /\ join_pc # "join" /\ head < Len(arg_data)
          /\ arg_data[head + 1] = J!Blank \/ head + 1 = Len(arg_data)
          /\ ~ (/\ Len(args) < ArgCap
                /\ text_len + Len(SubSeq(arg_data, start_head + 1, J!Ends)) + 1 <= TextCap)
      BY <2>4 DEF J!OverrunSplit, J!HasRoom, J!Cut, J!IsLast, J!size
    <3>2. Found \in Nat
      BY <2>2, <3>1 DEF WordsSplit
    <3>3. PICK f \in Nat : f = Found
      BY <3>2
    <3>4. /\ f < Len(Words) /\ f + 1 \in 1 .. Len(Words)
          /\ start_head = Start(f) /\ text_len = J!Bytes(Front) + Start(f)
          /\ Start(f + 1) = start_head + Len(Words[f + 1]) + 1
          /\ SubSeq(arg_data, start_head + 1, J!Ends) = Words[f + 1]
      BY <1>2, <2>1, <2>2, <3>1, <3>3, CutIsWord
    <3>5. /\ Start(f + 1) \in Nat /\ Start(f + 1) <= J!Bytes(Words)
          /\ Len(Words[f + 1]) \in Nat /\ Start(f) \in Nat
      <4>1. /\ f + 1 \in 0 .. Len(Words) /\ Len(Words) \in 0 .. Len(Words)
            /\ f \in 0 .. Len(Words) /\ f + 1 \in 1 .. Len(Words)
        BY <2>1, <3>4
      <4>2. QED
        BY <1>2, <4>1, StartFacts
    <3>6. /\ J!Bytes(Front) \in Nat /\ J!Bytes(Front) <= Len(Path) + 1
          /\ Len(Front) \in 0 .. 1 /\ Len(args) \in Nat
      <4>1. Len(Front) \in {0, 1}
        BY <1>2, FrontTypes
      <4>2. QED
        BY <1>2, <4>1, FrontBytes DEF JoinTypes
    <3>7. Len(args) < ArgCap
      <4>1. f = Len(args) - Len(Front)
        BY <3>3 DEF Found
      <4>2. PICK l \in Nat, a \in Nat, w \in Nat :
              l = Len(Front) /\ l <= 1 /\ a = Len(args) /\ w = Len(Words)
        <5>1. Len(Front) \in Nat /\ Len(Front) <= 1
          <6>1. Len(Front) \in {0, 1} => Len(Front) \in Nat /\ Len(Front) <= 1
            OBVIOUS
          <6>2. QED
            BY <1>2, <6>1, FrontTypes
        <5>2. Len(args) \in Nat /\ Len(Words) \in Nat
          BY <2>1, <3>6
        <5>3. QED
          BY <5>1, <5>2, Zenon
      <4>3. f = a - l /\ f < w /\ w < ArgCap
        BY <2>1, <3>4, <4>1, <4>2
      <4>4. a < ArgCap
        BY <2>1, <4>2, <4>3
      <4>5. QED
        BY <4>2, <4>4
    <3>8. text_len + Len(Words[f + 1]) + 1 <= TextCap
      <4>1. PICK b \in Nat, w \in Nat, t \in Nat, p \in Nat, u \in Nat :
              /\ b = J!Bytes(Front) /\ w = Len(Words[f + 1]) /\ t = Start(f)
              /\ p = Len(Path) /\ u = J!Bytes(Words)
        BY <2>1, <3>5, <3>6
      <4>2. b <= p + 1 /\ t + w + 1 <= u /\ p + 1 + u <= TextCap /\ text_len = b + t
        BY <2>1, <3>4, <3>5, <3>6, <4>1
      <4>3. text_len + w + 1 <= TextCap
        BY <2>1, <4>2
      <4>4. QED
        BY <4>1, <4>3
    <3>9. QED
      BY <3>1, <3>4, <3>7, <3>8
  <2>5. QED
    BY <1>4, <2>3, <2>4 DEF J!Overrun, J!OverrunJoin
<1>5. QED
  BY <1>1, <1>2, <1>3, <1>4 DEF InBlocks

-------------------------------------------------------------------------------
(* At the start, and as long as nothing is loaded, nothing is joined.       *)
LEMMA JoinStarts ==
  Texts /\ J!Init => JoinInv
<1> SUFFICES ASSUME Texts, J!Init
             PROVE  JoinInv
  OBVIOUS
<1>1. /\ artifact \in {"barf", "wa"} /\ join_pc = "join" /\ join_i = 1 /\ arg_data = << >>
      /\ start_head = 0 /\ head = 0 /\ args = << >> /\ text_len = 0
  BY DEF J!Init
<1>2. /\ Words \in Seq(Seq(Text)) /\ Len(Words) \in Nat /\ 1 \in 1 .. Len(Words) + 1
      /\ Len(Front) \in {0, 1}
  BY FrontTypes DEF Texts
<1>3. Len(arg_data) = 0 /\ Len(args) = 0 /\ arg_data \in Seq(Text) /\ args \in Seq(Seq(Text))
  BY <1>1
<1>4. JoinTypes
  <2>1. J!Bytes(args) = 0
    BY <1>1, NoTexts
  <2>2. QED
    BY <1>1, <1>2, <1>3, <2>1 DEF JoinTypes
<1>5. AtWord /\ OnlyBlankAtEnd
  BY <1>1, <1>2, <1>3 DEF AtWord, OnlyBlankAtEnd
<1>6. InkSoFar
  <2>1. J!Ink(arg_data) = << >>
    BY <1>1, NoInk
  <2>2. J!InksUpto(Words)[join_i - 1] = << >>
    BY <1>1, <1>2, InksBehind
  <2>3. QED
    BY <1>1, <2>1, <2>2 DEF InkSoFar
<1>7. FitsSoFar
  <2>1. PerArg \in Nat /\ PerArg * (1 - 1) = 0
    BY SizesAssumption DEF J!SizesAssumption
  <2>2. QED
    BY <1>1, <1>3, <2>1 DEF FitsSoFar
<1>8. WordsJoined
  BY <1>1, <1>3 DEF WordsJoined
<1>9. InBlocks
  <2>1. \A p, w \in Nat : p * w \in Nat
    OBVIOUS
  <2>2. PerArg * Len(Words) \in Nat /\ ArgCap \in Nat /\ TextCap \in Nat
    BY <1>2, <2>1, SizesAssumption DEF J!SizesAssumption
  <2>3. join_overrun = "none"
    BY DEF J!Init
  <2>4. Len(arg_data) <= PerArg * Len(Words)
    BY <1>3, <2>2
  <2>5. QED
    BY <1>1, <1>3, <2>2, <2>3, <2>4 DEF InBlocks
<1>10. QED
  BY <1>1, <1>4, <1>5, <1>6, <1>7, <1>8, <1>9 DEF JoinInv

(* No step but those of the two loops changes what is joined, and a loading *)
(* call keeps its words and its path.                                       *)
LEMMA JoinKept ==
  ASSUME CommandLineInv, JoinInv, [CommandNext]_<< vars, disk, convert_vars, join_vars >>
  PROVE  J!Init' \/ JoinInv'
<1>1. CASE ReadCommandLine
  <2>1. call = Nothing /\ UNCHANGED join_vars
    BY <1>1 DEF ReadCommandLine, Next, SetOption, EndOptions, SetOutput, AddFile, Dispatch, Parsing
  <2>2. ~ Loading
    BY <2>1 DEF Nothing, Loading
  <2>3. J!Init
    BY <2>2 DEF JoinInv
  <2>4. QED
    BY <2>1, <2>3 DEF J!Init, join_vars
<1>2. ASSUME UNCHANGED << vars, disk >>
      PROVE  Words' = Words /\ Path' = Path /\ (Loading' <=> Loading)
  <2>1. call' = call /\ disk' = disk
    BY <1>2 DEF vars
  <2>2. QED
    BY <2>1 DEF Words, Path, Loading, Spelled
<1>3. CASE UNCHANGED << vars, disk, join_vars >>
  <2>1. /\ Words' = Words /\ Path' = Path /\ (Loading' <=> Loading)
        /\ artifact' = artifact /\ join_pc' = join_pc /\ join_i' = join_i
        /\ arg_data' = arg_data /\ start_head' = start_head /\ head' = head
        /\ args' = args /\ text_len' = text_len /\ join_overrun' = join_overrun
    BY <1>2, <1>3 DEF join_vars
  <2>2. Front' = Front /\ SplitTo' = SplitTo
    BY <2>1 DEF Front, SplitTo
  <2>3. Found' = Found
    BY <2>1, <2>2 DEF Found
  <2>4. (~ Loading => J!Init)'
    BY <2>1 DEF JoinInv, J!Init
  <2>5. JoinTypes' /\ AtWord'
    BY <2>1, <2>2 DEF JoinInv, JoinTypes, AtWord
  <2>6. InkSoFar' /\ FitsSoFar' /\ OnlyBlankAtEnd'
    BY <2>1, <2>2 DEF JoinInv, InkSoFar, FitsSoFar, OnlyBlankAtEnd
  <2>7. (AllWords' <=> AllWords) /\ (WordsJoined => WordsJoined') /\ (WordsSplit => WordsSplit')
    BY <2>1, <2>2, <2>3 DEF AllWords, WordsJoined, WordsSplit, Start
  <2>8. InBlocks'
    BY <2>1, <2>7 DEF JoinInv, InBlocks, Short, Few
  <2>9. QED
    BY <2>1, <2>4, <2>5, <2>6, <2>7, <2>8 DEF JoinInv
<1>4. CASE PassArguments /\ J!InsideBlocks
  <2>1. Loading /\ J!InsideBlocks /\ Words' = Words /\ Path' = Path /\ Loading'
    BY <1>2, <1>4 DEF PassArguments
  <2>2. Texts /\ JoinTypes /\ AtWord /\ InkSoFar /\ FitsSoFar /\ OnlyBlankAtEnd
    BY WordTypes DEF JoinInv
  <2>3. JoinTypes' /\ Front' = Front
    BY <2>1, <2>2, JoinTypesKept
  <2>4. AtWord' /\ InkSoFar' /\ FitsSoFar' /\ OnlyBlankAtEnd'
    BY <2>1, <2>2, <2>3, AtWordKept, InkKept, FitsKept, OnlyBlankKept
  <2>5. AllWords' <=> AllWords
    BY <2>1 DEF AllWords
  <2>6. ASSUME AllWords
        PROVE  WordsJoined' /\ (join_pc' # "join" => WordsSplit')
    <3>1. WordsJoined /\ (join_pc # "join" => WordsSplit)
      BY <2>6 DEF JoinInv
    <3>2. QED
      BY <2>1, <2>2, <2>3, <2>6, <3>1, WordsJoinedKept, WordsSplitKept
  <2>7. InBlocks'
    BY <2>1, <2>2, BlocksKept DEF JoinInv
  <2>8. QED
    BY <2>1, <2>3, <2>4, <2>5, <2>6, <2>7 DEF JoinInv
<1>5. CASE PassArguments /\ J!Overrun
  <2>1. Words' = Words /\ Path' = Path /\ Loading'
    BY <1>2, <1>5 DEF PassArguments
  <2>2. /\ artifact' = artifact /\ join_pc' = join_pc /\ join_i' = join_i
        /\ arg_data' = arg_data /\ start_head' = start_head /\ head' = head
        /\ args' = args /\ text_len' = text_len
    BY <1>5 DEF J!Overrun
  <2>3. Front' = Front /\ SplitTo' = SplitTo
    BY <2>1, <2>2 DEF Front, SplitTo
  <2>4. Found' = Found
    BY <2>2, <2>3 DEF Found
  <2>5. JoinTypes' /\ AtWord'
    BY <2>1, <2>2, <2>3 DEF JoinInv, JoinTypes, AtWord
  <2>6. InkSoFar' /\ FitsSoFar' /\ OnlyBlankAtEnd'
    BY <2>1, <2>2, <2>3 DEF JoinInv, InkSoFar, FitsSoFar, OnlyBlankAtEnd
  <2>7. (AllWords' <=> AllWords) /\ (WordsJoined => WordsJoined') /\ (WordsSplit => WordsSplit')
    BY <2>1, <2>2, <2>3, <2>4 DEF AllWords, WordsJoined, WordsSplit, Start
  <2>8. InBlocks'
    BY <1>5, <2>1, WordTypes, OverrunIsTooMuch
  <2>9. QED
    BY <2>1, <2>2, <2>5, <2>6, <2>7, <2>8 DEF JoinInv
<1>6. QED
  BY <1>1, <1>3, <1>4, <1>5 DEF CommandNext, ConvertInputs, PassArguments, J!Next

(* At the end all that was joined has been split.                           *)
LEMMA AllIsSplit ==
  ASSUME Texts, JoinTypes, AtWord, join_pc = "done"
  PROVE  /\ start_head = head /\ head >= Len(arg_data) /\ SplitTo = Len(arg_data)
         /\ join_i - 1 = Len(Words)
<1>1. /\ Len(Words) \in Nat /\ join_i = Len(Words) + 1 /\ Len(arg_data) \in Nat
      /\ start_head \in 0 .. Len(arg_data) + 1 /\ head \in start_head .. Len(arg_data) + 1
      /\ head >= Len(arg_data)
  BY StartFacts DEF JoinTypes
<1>2. start_head = head
  BY <1>1 DEF AtWord
<1>3. QED
  BY <1>1, <1>2 DEF SplitTo

(* Words arrive as they were given.                                         *)
LEMMA AllWordsFound ==
  ASSUME Texts, JoinTypes, AtWord, AllWords, WordsJoined, WordsSplit, join_pc = "done"
  PROVE  args = Front \o Words
<1>1. /\ Words \in Seq(Seq(Text)) /\ Len(Words) \in Nat /\ Front \in Seq(Seq(Text))
      /\ Len(Front) \in Nat /\ args \in Seq(Seq(Text)) /\ Len(args) \in Nat
  BY FrontTypes DEF Texts, JoinTypes
<1>2. PICK f \in 0 .. Len(Words) : f = Found
  BY DEF WordsSplit
<1>3. f = Len(Words)
  <2>1. SUFFICES ASSUME f # Len(Words) PROVE FALSE
    OBVIOUS
  <2>2. f \in Nat /\ f < Len(Words) /\ join_pc # "join"
    BY <1>1, <2>1
  <2>3. /\ Start(f) \in Nat /\ Len(Words[f + 1]) \in Nat /\ Len(Words[f + 1]) > 0
        /\ \/ Start(f) + Len(Words[f + 1]) = Len(arg_data)
           \/ Start(f) + Len(Words[f + 1]) + 1 < Len(arg_data)
    BY <2>2, WordStands
  <2>4. start_head = Start(f) /\ start_head >= Len(arg_data) /\ Len(arg_data) \in Nat
    BY <1>2, AllIsSplit DEF WordsSplit, JoinTypes
  <2>5. QED
    BY <2>3, <2>4
<1>4. Len(args) = Len(Front) + Len(Words)
  <2>1. PICK a \in Nat, b \in Nat, l \in Nat : a = Len(args) /\ b = Len(Front) /\ l = Len(Words)
    BY <1>1
  <2>2. l = a - b
    BY <1>2, <1>3, <2>1 DEF Found
  <2>3. a = b + l
    BY <2>2
  <2>4. QED
    BY <2>1, <2>3
<1> DEFINE both == Front \o Words
<1>5. /\ both \in Seq(Seq(Text)) /\ Len(both) = Len(Front) + Len(Words)
      /\ \A n \in 1 .. Len(Front) : both[n] = Front[n]
      /\ \A n \in 1 .. Len(Words) : both[Len(Front) + n] = Words[n]
  BY <1>1, ConcatProperties
<1> HIDE DEF both
<1>6. /\ \A n \in 1 .. Len(Front) : args[n] = Front[n]
      /\ \A n \in 1 .. Len(Words) : args[Len(Front) + n] = Words[n]
  BY <1>2, <1>3 DEF WordsSplit
<1>7. ASSUME NEW n \in 1 .. Len(args)
      PROVE  args[n] = both[n]
  <2>1. CASE n <= Len(Front)
    BY <1>1, <1>5, <1>6, <2>1
  <2>2. CASE n > Len(Front)
    <3>1. PICK m \in 1 .. Len(Words) : n = Len(Front) + m
      <4>1. n - Len(Front) \in 1 .. Len(Words) /\ n = Len(Front) + (n - Len(Front))
        BY <1>1, <1>4, <2>2
      <4>2. QED
        BY <4>1
    <3>2. QED
      BY <1>5, <1>6, <3>1
  <2>3. QED
    BY <1>1, <2>1, <2>2
<1>8. args = both
  BY <1>1, <1>4, <1>5, <1>7, SeqEqual
<1>9. QED
  BY <1>8 DEF both

(* The arguments of a loading call that stay in the blocks arrive as given  *)
(* if they are words, nothing of others is lost but blanks, and a block is  *)
(* written over only by an argument of 50 bytes or more, or by more than 49 *)
(* or ones that together do not fit the text (barf.c:296-310,               *)
(* parse_args.h:6-45, examples/wa.c:28-59).                                 *)
THEOREM Arrives == CommandSpec => []ArgumentsArrive
<1>1. CommandLineInv /\ JoinInv => ArgumentsArrive
  <2> SUFFICES ASSUME CommandLineInv, JoinInv, Loading
               PROVE  /\ J!TypeOK /\ J!JoinFits /\ J!SplitFits
                      /\ J!WordsArrive /\ J!NothingLost /\ J!OnlyLastKeepsBlank
    BY DEF ArgumentsArrive
  <2>1. Texts /\ JoinTypes /\ AtWord /\ InkSoFar /\ FitsSoFar /\ OnlyBlankAtEnd
    BY WordTypes DEF JoinInv
  <2>2. AllWords => WordsJoined /\ (join_pc # "join" => WordsSplit)
    BY DEF JoinInv
  <2>3. /\ Words \in Seq(Seq(Text)) /\ Len(Words) \in Nat /\ DOMAIN Words = 1 .. Len(Words)
        /\ args \in Seq(Seq(Text)) /\ Len(args) \in Nat /\ Len(arg_data) \in Nat
        /\ join_i \in 1 .. Len(Words) + 1 /\ Front \in Seq(Seq(Text))
    BY <2>1, FrontTypes DEF Texts, JoinTypes
  <2>4. J!InFrontOfArguments = Front
    BY DEF J!InFrontOfArguments, Front, Path
  <2>5. J!TypeOK
    BY <2>1 DEF JoinInv, InBlocks, JoinTypes, J!TypeOK, J!size, Words
  <2>6. J!JoinFits
    <3>1. Len(arg_data) <= PerArg * Len(Words) /\ (Short => join_overrun # "join")
      BY DEF JoinInv, InBlocks
    <3>2. (\A n \in DOMAIN Words : Len(Words[n]) < PerArg) <=> Short
      BY <2>3 DEF Short
    <3>3. QED
      BY <3>1, <3>2 DEF J!JoinFits, J!size, Words
  <2>7. (\A n \in DOMAIN Words : J!IsWord(Words[n])) <=> AllWords
    BY <2>3 DEF AllWords
  <2>8. J!SplitFits
    <3>1. Len(args) <= ArgCap /\ text_len <= TextCap /\ (Few => join_overrun # "split")
      BY DEF JoinInv, InBlocks
    <3>2. QED
      BY <2>7, <3>1 DEF J!SplitFits, Few, Words, Path
  <2>9. J!WordsArrive
    <3>1. SUFFICES ASSUME join_pc = "done", AllWords
                   PROVE  args = Front \o Words
      BY <2>4, <2>7 DEF J!WordsArrive, Words
    <3>2. QED
      BY <2>1, <2>2, <3>1, AllWordsFound
  <2>10. J!NothingLost
    <3>1. SUFFICES ASSUME join_pc = "done"
                   PROVE  J!Inks(args) = Behind(J!Inks(Front), J!Inks(Words))
      BY <2>4 DEF J!NothingLost, Words, Behind
    <3>2. SplitTo = Len(arg_data) /\ join_i - 1 = Len(Words)
      BY <2>1, <3>1, AllIsSplit
    <3>3. J!InkUpto(arg_data)[SplitTo] = J!Inks(Words)
      BY <2>1, <3>2 DEF InkSoFar, J!Ink, J!Inks
    <3>4. QED
      BY <2>1, <3>1, <3>3 DEF InkSoFar
  <2>11. J!OnlyLastKeepsBlank
    <3>1. SUFFICES ASSUME NEW n \in Len(Front) + 1 .. Len(args)
                   PROVE  /\ args[n] # << >>
                          /\ \A c \in DOMAIN args[n] :
                               args[n][c] = J!Blank =>
                                 n = Len(args) /\ c = Len(args[n]) /\ head >= Len(arg_data)
      BY <2>4 DEF J!OnlyLastKeepsBlank, J!size
    <3>2. n \in 1 .. Len(args)
      BY <2>1, <2>3, FrontTypes
    <3>3. args[n] \in Seq(Text) /\ DOMAIN args[n] = 1 .. Len(args[n])
      BY <2>3, <3>2
    <3>4. QED
      BY <2>1, <3>3 DEF OnlyBlankAtEnd
  <2>12. QED
    BY <2>5, <2>6, <2>8, <2>9, <2>10, <2>11
<1>2. CommandInit => CommandLineInv /\ J!Init
  BY CommandLineStarts DEF CommandInit
<1>3. CommandLineInv /\ [CommandNext]_<< vars, disk, convert_vars, join_vars >> => CommandLineInv'
  BY CommandLineKept
<1>4. CommandLineInv /\ JoinInv /\ [CommandNext]_<< vars, disk, convert_vars, join_vars >>
        => J!Init' \/ JoinInv'
  BY JoinKept
<1>5. CommandLineInv => Texts
  BY WordTypes
<1>6. QED
  BY <1>1, <1>2, <1>3, <1>4, <1>5, JoinStarts, PTL DEF CommandSpec
===============================================================================
