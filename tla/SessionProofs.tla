----------------------------- MODULE SessionProofs -----------------------------
(***************************************************************************)
(* Proofs about the file handles: first about HandleTable, for every size  *)
(* of the table and every set of clients and streams, and then about       *)
(* Session, for any number of calls with any number of inputs.             *)
(***************************************************************************)
EXTENDS Session, WellFoundedInduction, FiniteSetTheorems, TLAPS

(* Every non-empty set of naturals has a least element. *)
LEMMA LeastNatural ==
  ASSUME NEW T, T \subseteq Nat, T # {}
  PROVE  \E x \in T : \A y \in T : x <= y
<1> DEFINE R == {p \in Nat \X Nat : p[1] < p[2]}
<1>1. IsWellFoundedOn(R, Nat)
  BY NatLessThanWellFounded DEF OpToRel
<1>2. ASSUME NEW a \in Nat, NEW b \in Nat, a < b
      PROVE  <<a, b>> \in R
  BY <1>2
<1> HIDE DEF R
<1>3. PICK x \in T : \A y \in T : ~ (<<y, x>> \in R)
  BY <1>1, WFMin
<1>4. ASSUME NEW y \in T
      PROVE  x <= y
  <2>1. x \in Nat /\ y \in Nat
    OBVIOUS
  <2>2. <<y, x>> \notin R
    BY <1>3
  <2>3. QED
    BY <2>1, <2>2, <1>2
<1>5. QED
  BY <1>4

(* The trimming loop of fs__close stops at a length that satisfies its      *)
(* description: the CHOOSE in Trimmed has a witness.                        *)
LEMMA TrimmedProperties ==
  ASSUME NEW table, NEW len \in Nat
  PROVE  LET n == Trimmed(table, len)
         IN  /\ n \in 0 .. len
             /\ n > 0 => table[n - 1] # NULL
             /\ \A h \in n .. len - 1 : table[h] = NULL
<1> DEFINE T == {n \in 0 .. len : \A h \in n .. len - 1 : table[h] = NULL}
<1>1. T \subseteq Nat /\ len \in T
  OBVIOUS
<1>2. PICK n \in T : \A m \in T : n <= m
  BY <1>1, LeastNatural
<1>3. ASSUME n > 0
      PROVE  table[n - 1] # NULL
  <2>1. SUFFICES ASSUME table[n - 1] = NULL
                 PROVE  FALSE
    OBVIOUS
  <2>2. n - 1 \in 0 .. len
    BY <1>3
  <2>3. \A h \in n - 1 .. len - 1 : h = n - 1 \/ h \in n .. len - 1
    BY <1>3
  <2>4. n - 1 \in T
    BY <2>1, <2>2, <2>3
  <2>5. QED
    BY <2>4, <1>2
<1>4. QED
  BY <1>2, <1>3 DEF Trimmed

-------------------------------------------------------------------------------
(* The inductive invariant.  A handle that is held names an occupied slot,  *)
(* an occupied slot has a holder and lies below handles_len, and the slots  *)
(* hold pairwise different open streams.                                    *)
SlotsAboveAreFree == \A h \in Slot : h >= handles_len => handles[h] = NULL

LengthIsTight == handles_len > 0 => handles[handles_len - 1] # NULL

HeldSlotsAreOwn ==
  \A c \in Client : Holds(c) => handles[held[c]] = opened[c] /\ opened[c] # NULL

OccupiedSlotsAreHeld ==
  \A h \in Slot : handles[h] # NULL => \E c \in Client : held[c] = h

SlotStreamsAreOpen ==
  /\ \A h \in Slot : handles[h] # NULL => handles[h] \in streams
  /\ \A g, h \in Slot : g # h /\ handles[g] # NULL => handles[g] # handles[h]

IInv ==
  /\ TypeOK
  /\ SlotsAboveAreFree
  /\ LengthIsTight
  /\ HeldSlotsAreOwn
  /\ HandlesDistinct
  /\ OccupiedSlotsAreHeld
  /\ SlotStreamsAreOpen

LEMMA InitIInv == Init => IInv
BY CapacityAssumption DEF Init, IInv, TypeOK, Slot, Holds, SlotsAboveAreFree,
   LengthIsTight, HeldSlotsAreOwn, HandlesDistinct, OccupiedSlotsAreHeld,
   SlotStreamsAreOpen, FS_INVALID_HANDLE

LEMMA OpenKeepsIInv ==
  ASSUME IInv, NEW c \in Client, ~Holds(c), NEW s \in Stream \ streams,
         streams' = streams \union {s}, Open(c, s)
  PROVE  IInv'
<1> USE DEF IInv, Slot, Holds, FS_INVALID_HANDLE
<1>1. handles_len \in Slot /\ s \in Stream /\ s # NULL /\ handles[handles_len] = NULL
  BY NullAssumption, CapacityAssumption DEF Open, TypeOK, SlotsAboveAreFree
<1>2. /\ handles' = [handles EXCEPT ![handles_len] = s]
      /\ handles_len' = handles_len + 1
      /\ held' = [held EXCEPT ![c] = handles_len]
      /\ opened' = [opened EXCEPT ![c] = s]
  BY DEF Open
<1>3. TypeOK'
  BY <1>1, <1>2, CapacityAssumption DEF TypeOK
<1>4. SlotsAboveAreFree'
  BY <1>1, <1>2 DEF TypeOK, SlotsAboveAreFree
<1>5. LengthIsTight'
  BY <1>1, <1>2 DEF TypeOK, LengthIsTight
<1>6. \A d \in Client : Holds(d) => held[d] # handles_len
  BY <1>1 DEF TypeOK, HeldSlotsAreOwn
<1>7. HeldSlotsAreOwn'
  BY <1>1, <1>2, <1>6 DEF TypeOK, HeldSlotsAreOwn
<1>8. HandlesDistinct'
  BY <1>1, <1>2, <1>6 DEF TypeOK, HandlesDistinct
<1>9. OccupiedSlotsAreHeld'
  BY <1>1, <1>2, <1>6 DEF TypeOK, OccupiedSlotsAreHeld
<1>10. SlotStreamsAreOpen'
  BY <1>1, <1>2 DEF TypeOK, SlotStreamsAreOpen
<1>11. QED
  BY <1>3, <1>4, <1>5, <1>7, <1>8, <1>9, <1>10

LEMMA RefuseKeepsIInv ==
  ASSUME IInv, NEW c \in Client, NEW s \in Stream \ streams,
         streams' = streams \union {s}, Refuse(c)
  PROVE  IInv'
BY DEF IInv, TypeOK, Refuse, Slot, Holds, SlotsAboveAreFree, LengthIsTight,
   HeldSlotsAreOwn, HandlesDistinct, OccupiedSlotsAreHeld, SlotStreamsAreOpen

LEMMA CloseKeepsIInv ==
  ASSUME IInv, NEW c \in Client, fs__close(c)
  PROVE  IInv'
<1> USE DEF IInv, Slot, Holds, FS_INVALID_HANDLE
<1> DEFINE freed == held[c]
<1>1. freed \in Slot /\ handles[freed] # NULL /\ handles[freed] \in streams
  BY DEF fs__close, TypeOK, HeldSlotsAreOwn, SlotStreamsAreOpen
<1>2. /\ streams' = streams \ {handles[freed]}
      /\ handles' = [handles EXCEPT ![freed] = NULL]
      /\ held' = [held EXCEPT ![c] = FS_INVALID_HANDLE]
      /\ opened' = [opened EXCEPT ![c] = NULL]
  BY DEF fs__close
<1>3. /\ handles_len' \in 0 .. handles_len
      /\ handles_len' > 0 => handles'[handles_len' - 1] # NULL
      /\ \A h \in handles_len' .. handles_len - 1 : handles'[h] = NULL
  <2>1. handles_len \in Nat /\ handles_len' = Trimmed(handles', handles_len)
    BY CapacityAssumption DEF fs__close, TypeOK
  <2>2. QED
    BY <2>1, TrimmedProperties
<1>4. TypeOK'
  BY <1>1, <1>2, <1>3, CapacityAssumption DEF TypeOK
<1>5. SlotsAboveAreFree'
  BY <1>1, <1>2, <1>3 DEF TypeOK, SlotsAboveAreFree
<1>6. LengthIsTight'
  BY <1>3 DEF LengthIsTight
<1>7. \A d \in Client : d # c /\ Holds(d) => held[d] # freed
  BY <1>1 DEF HandlesDistinct, TypeOK
<1>8. HeldSlotsAreOwn'
  BY <1>1, <1>2, <1>7 DEF TypeOK, HeldSlotsAreOwn
<1>9. HandlesDistinct'
  BY <1>1, <1>2, <1>7 DEF TypeOK, HandlesDistinct
<1>10. OccupiedSlotsAreHeld'
  BY <1>1, <1>2, <1>7 DEF TypeOK, OccupiedSlotsAreHeld
<1>11. SlotStreamsAreOpen'
  BY <1>1, <1>2 DEF TypeOK, SlotStreamsAreOpen
<1>12. QED
  BY <1>4, <1>5, <1>6, <1>8, <1>9, <1>10, <1>11

(* The inductive invariant holds in every reachable state: this is the      *)
(* fact the theorems below are read off from.                               *)
THEOREM Invariance == Spec => []IInv
<1>1. IInv /\ [Next]_vars => IInv'
  <2> SUFFICES ASSUME IInv, [Next]_vars
               PROVE  IInv'
    OBVIOUS
  <2>1. ASSUME NEW c \in Client, fs__open(c)
        PROVE  IInv'
    BY <2>1, OpenKeepsIInv, RefuseKeepsIInv DEF fs__open
  <2>2. ASSUME NEW c \in Client, fs__close(c)
        PROVE  IInv'
    BY <2>2, CloseKeepsIInv
  <2>3. CASE UNCHANGED vars
    BY <2>3 DEF vars, IInv, TypeOK, Holds, SlotsAboveAreFree, LengthIsTight,
       HeldSlotsAreOwn, HandlesDistinct, OccupiedSlotsAreHeld, SlotStreamsAreOpen
  <2>4. QED
    BY <2>1, <2>2, <2>3 DEF Next
<1>2. QED
  BY <1>1, InitIInv, PTL DEF Spec

(* No two variables hold the same handle, and each handle reaches the       *)
(* stream its own fs__open opened, whatever the other handles went through  *)
(* (platform.c:70-94).                                                      *)
THEOREM HandlesNeverAlias == Spec => [](HandlesDistinct /\ HandleReachesOwnStream)
<1>1. IInv => HandlesDistinct /\ HandleReachesOwnStream
  BY DEF IInv, HeldSlotsAreOwn, HandleReachesOwnStream
<1>2. QED
  BY <1>1, Invariance, PTL

(* fs__open refuses only while somebody holds the last slot of the table    *)
(* (platform.c:71, with the trimming of platform.c:89-91).                  *)
THEOREM FullTableHasLastSlotHeld == Spec => []FullMeansLastSlotHeld
<1>1. IInv => FullMeansLastSlotHeld
  BY CapacityAssumption DEF IInv, TypeOK, Slot, LengthIsTight, OccupiedSlotsAreHeld,
     FullMeansLastSlotHeld
<1>2. QED
  BY <1>1, Invariance, PTL

(* Streams are lost only by opens that find the table full                  *)
(* (platform.c:71-72).                                                      *)
THEOREM LossOnlyWhenFull == Spec => LostOnlyWhenFull
<1>1. ASSUME IInv, [Next]_vars, handles_len # MAX_FILE_HANDLES
      PROVE  Lost' = Lost
  <2> USE <1>1 DEF Slot, IInv, TypeOK
  <2>1. ASSUME NEW c \in Client, NEW s \in Stream \ streams,
               streams' = streams \union {s}, Open(c, s)
        PROVE  Lost' = Lost
    <3>1. handles_len \in Slot /\ handles[handles_len] = NULL
      BY <2>1, CapacityAssumption DEF Open, SlotsAboveAreFree
    <3>2. QED
      BY <2>1, <3>1, NullAssumption DEF Open, Lost, SlotStreamsAreOpen
  <2>2. ASSUME NEW c \in Client, Refuse(c)
        PROVE  FALSE
    BY <1>1, <2>2, CapacityAssumption DEF Refuse
  <2>3. ASSUME NEW c \in Client, fs__close(c)
        PROVE  Lost' = Lost
    <3>1. held[c] \in Slot /\ handles[held[c]] # NULL
      BY <2>3 DEF fs__close, Holds, FS_INVALID_HANDLE, HeldSlotsAreOwn
    <3>2. QED
      BY <2>3, <3>1, NullAssumption DEF fs__close, Lost, SlotStreamsAreOpen
  <2>4. CASE UNCHANGED vars
    BY <2>4 DEF vars, Lost
  <2>5. QED
    BY <1>1, <2>1, <2>2, <2>3, <2>4 DEF Next, fs__open
<1>2. IInv /\ [Next]_vars => [Lost' # Lost => handles_len = MAX_FILE_HANDLES]_vars
  BY <1>1
<1>3. QED
  BY <1>2, Invariance, PTL DEF Spec, LostOnlyWhenFull

-------------------------------------------------------------------------------
(* The table implements the pool of FilePool: every open gives its client a *)
(* stream nobody else reaches, and every close takes away only its own      *)
(* (platform.c:58-94).                                                      *)
THEOREM TableImplementsPool == Spec => ImplementsFilePool
<1>1. Init => Pool!Init
  BY DEF Init, Pool!Init, Reached, Holds
<1>2. ASSUME IInv, [Next]_vars
      PROVE  [Pool!Next]_Reached
  <2> USE <1>2 DEF IInv, Slot, Holds, FS_INVALID_HANDLE
  <2>1. \A d \in Client : Holds(d) => held[d] \in Slot /\ handles[held[d]] # NULL
    BY DEF TypeOK, HeldSlotsAreOwn
  <2>2. ASSUME NEW c \in Client, ~Holds(c), NEW s \in Stream \ streams,
               streams' = streams \union {s}, Open(c, s)
        PROVE  Pool!Acquire(c)
    <3>1. handles_len \in Slot /\ handles[handles_len] = NULL /\ s # NULL
      BY <2>2, CapacityAssumption, NullAssumption DEF Open, TypeOK, SlotsAboveAreFree
    <3>2. \A d \in Client : Reached[d] # s
      BY <2>1, <2>2, <3>1 DEF Reached, SlotStreamsAreOpen
    <3>3. ASSUME NEW d \in Client
          PROVE  Reached'[d] = IF d = c THEN s ELSE Reached[d]
      BY <2>1, <2>2, <3>1 DEF Reached, Open, TypeOK
    <3>4. Reached' = [Reached EXCEPT ![c] = s]
      BY <3>3 DEF Reached
    <3>5. QED
      BY <2>2, <3>2, <3>4 DEF Pool!Acquire, Reached
  <2>3. ASSUME NEW c \in Client, NEW s \in Stream \ streams, Refuse(c)
        PROVE  UNCHANGED Reached
    BY <2>3 DEF Refuse, Reached
  <2>4. ASSUME NEW c \in Client, fs__close(c)
        PROVE  Pool!Release(c)
    <3>1. Reached[c] # NULL
      BY <2>1, <2>4 DEF fs__close, Reached
    <3>2. ASSUME NEW d \in Client
          PROVE  Reached'[d] = IF d = c THEN NULL ELSE Reached[d]
      BY <2>1, <2>4 DEF Reached, fs__close, TypeOK, HandlesDistinct
    <3>3. Reached' = [Reached EXCEPT ![c] = NULL]
      BY <3>2 DEF Reached
    <3>4. QED
      BY <3>1, <3>3 DEF Pool!Release
  <2>5. CASE UNCHANGED vars
    BY <2>5 DEF vars, Reached
  <2>6. QED
    BY <2>2, <2>3, <2>4, <2>5 DEF Next, fs__open, Pool!Next
<1>3. QED
  BY <1>1, <1>2, Invariance, PTL DEF Spec, ImplementsFilePool, Pool!Spec

-------------------------------------------------------------------------------
(* The phases of the calls over the table. *)
CoffPhase == {"coff", "coff_opened"}
ElfPhase == {"elf", "elf_opened", "output", "output_opened"}
ParsePhase == {"parse", "parse_opened"}
WritePhase == {"combine", "transfer", "transfer_opened", "finish"}
LoadPhase == {"parse_to_load", "load_opened", "load", "loaded", "entry", "entry_opened"}

HoldsFile ==
  {"coff_opened", "elf_opened", "output_opened", "parse_opened", "transfer", "transfer_opened",
   "finish", "load_opened", "loaded", "entry_opened"}

Label == {"idle", "crashed"} \union CoffPhase \union ElfPhase \union ParsePhase
           \union WritePhase \union LoadPhase

(* The slots below those that are held: the functions close in the reverse  *)
(* order of opening, so what is left open fills the table from below.       *)
Below ==
  IF Holds("in_file") THEN handles_len - 2
  ELSE IF Holds("file") THEN handles_len - 1 ELSE handles_len

(* Conversions that the call may have finished.                             *)
Passed ==
  IF pc \in CoffPhase THEN 2 * (k - 1)
  ELSE IF pc \in ElfPhase THEN 2 * k - 1 ELSE 2 * Len(inputs)

-------------------------------------------------------------------------------
(* The inductive invariant: of the table alone, ...                         *)
SlotsFilled == \A h \in Slot : handles[h] # NULL <=> h < handles_len

TableOK == TypeOK /\ SlotsFilled /\ SlotStreamsAreOpen /\ HeldSlotsAreOwn

HeldOnTop ==
  /\ Holds("file") => held["file"] = Below
  /\ Holds("in_file") => Holds("file") /\ held["in_file"] = handles_len - 1
  /\ Below \in Nat

(* ... of the functions and what they hold, ...                             *)
ControlOK ==
  /\ pc \in Label /\ calls \in 0 .. MaxCalls /\ shorts \in Nat /\ k \in 1 .. MaxInputs
  /\ calls = 0 => pc = "idle" /\ inputs = << >> /\ handles_len = 0 /\ shorts = 0 /\ Lost = {}
  /\ calls > 0 => inputs \in Inputs /\ k \in 1 .. Len(inputs)

HeldByPc ==
  /\ pc # "crashed" => (Holds("file") <=> pc \in HoldsFile)
  /\ pc # "crashed" => (Holds("in_file") <=> pc = "transfer_opened")

(* ... of what they forget, ...                                             *)
LeftAreCounted == Below <= shorts + 1

ShortsAreCounted == calls > 0 => shorts <= (2 * MaxInputs) * (calls - 1) + Passed

(* ... and of the first call, where the table was empty.                    *)
IsGood(input) == input \in {"coff", "elf", "artifact"}

ParsedAreGood ==
  /\ pc \in ParsePhase => \A j \in 1 .. k - 1 : IsGood(inputs[j])
  /\ pc \in WritePhase => \A j \in 1 .. Len(inputs) : IsGood(inputs[j])

ShortsAreNotGood ==
  calls = 1 /\ shorts > 0 => \E j \in 1 .. Len(inputs) : ~ IsGood(inputs[j])

FirstLeavesFew ==
  calls = 1 =>
    /\ Below <= Passed
    /\ 2 * Len(inputs) + 2 <= MAX_FILE_HANDLES =>
         Lost = {} /\ (pc = "crashed" => handles_len < MAX_FILE_HANDLES)

SInv ==
  /\ TableOK /\ HeldOnTop
  /\ ControlOK /\ HeldByPc
  /\ LeftAreCounted /\ ShortsAreCounted
  /\ ParsedAreGood /\ ShortsAreNotGood /\ FirstLeavesFew

-------------------------------------------------------------------------------
(* What the calls of the table do to it.                                    *)
LEMMA OpenedPushes ==
  ASSUME TableOK, NEW c \in Client, Opened(c)
  PROVE  /\ TableOK' /\ Lost' = Lost
         /\ ~ Holds(c) /\ handles_len \in Nat
         /\ handles_len' = handles_len + 1
         /\ held' = [held EXCEPT ![c] = handles_len]
<1> USE DEF TableOK, Slot, Holds, FS_INVALID_HANDLE
<1>1. PICK s \in Stream \ streams : streams' = streams \union {s} /\ (Open(c, s) \/ Refuse(c))
  BY DEF Opened, fs__open
<1>2. ~ Holds(c) /\ held'[c] # FS_INVALID_HANDLE
  BY DEF Opened, fs__open
<1>3. Open(c, s)
  BY <1>1, <1>2 DEF Refuse
<1>4. /\ handles' = [handles EXCEPT ![handles_len] = s]
      /\ handles_len' = handles_len + 1
      /\ held' = [held EXCEPT ![c] = handles_len]
      /\ opened' = [opened EXCEPT ![c] = s]
      /\ handles_len \in Slot /\ s \in Stream /\ s # NULL /\ handles[handles_len] = NULL
  BY <1>3, NullAssumption, CapacityAssumption DEF Open, TypeOK, SlotsFilled
<1>5. TypeOK'
  BY <1>1, <1>4, CapacityAssumption DEF TypeOK
<1>6. SlotsFilled'
  BY <1>4 DEF TypeOK, SlotsFilled
<1>7. SlotStreamsAreOpen'
  BY <1>1, <1>4 DEF TypeOK, SlotStreamsAreOpen
<1>8. HeldSlotsAreOwn'
  <2>1. \A d \in Client : Holds(d) => held[d] # handles_len
    BY <1>4 DEF HeldSlotsAreOwn
  <2>2. QED
    BY <1>4, <2>1 DEF TypeOK, HeldSlotsAreOwn
<1>9. Lost' = Lost
  <2>1. s \notin Lost' /\ s \notin Lost
    BY <1>1, <1>4 DEF TypeOK, Lost
  <2>2. \A x \in streams : (\A h \in Slot : handles'[h] # x) <=> (\A h \in Slot : handles[h] # x)
    BY <1>1, <1>4, NullAssumption DEF TypeOK
  <2>3. QED
    BY <1>1, <2>1, <2>2 DEF Lost
<1>10. QED
  BY <1>2, <1>4, <1>5, <1>6, <1>7, <1>8, <1>9

LEMMA NotOpenedLeaves ==
  ASSUME TableOK, NEW c \in Client, NEW exists, NotOpened(c, exists)
  PROVE  /\ TableOK'
         /\ handles_len' = handles_len /\ held' = held
         /\ handles_len < MAX_FILE_HANDLES => Lost' = Lost
<1>1. CASE UNCHANGED vars
  BY <1>1 DEF vars, TableOK, TypeOK, SlotsFilled, SlotStreamsAreOpen, HeldSlotsAreOwn, Holds, Lost
<1>2. CASE handles_len = MAX_FILE_HANDLES /\ fs__open(c)
  <2>1. PICK s \in Stream \ streams : streams' = streams \union {s} /\ (Open(c, s) \/ Refuse(c))
    BY <1>2 DEF fs__open
  <2>2. Refuse(c)
    BY <1>2, <2>1, CapacityAssumption DEF Open
  <2>3. UNCHANGED << handles, handles_len, held, opened >>
    BY <2>2 DEF Refuse
  <2>4. QED
    BY <1>2, <2>1, <2>3, CapacityAssumption
       DEF TableOK, TypeOK, SlotsFilled, SlotStreamsAreOpen, HeldSlotsAreOwn, Holds
<1>3. QED
  BY <1>1, <1>2 DEF NotOpened

LEMMA ForgetLeaves ==
  ASSUME TableOK, NEW c \in Client, Forget(c)
  PROVE  /\ TableOK' /\ Lost' = Lost
         /\ handles_len' = handles_len
         /\ held' = [held EXCEPT ![c] = FS_INVALID_HANDLE]
BY DEF Forget, TableOK, TypeOK, SlotsFilled, SlotStreamsAreOpen, HeldSlotsAreOwn, Holds, Lost,
   FS_INVALID_HANDLE

(* The handle that was opened last is closed, and the loop gives back just  *)
(* its slot.                                                                *)
LEMMA ClosePops ==
  ASSUME TableOK, NEW c \in Client, fs__close(c), held[c] = handles_len - 1,
         \A d \in Client : d # c => held[d] # held[c]
  PROVE  /\ TableOK' /\ Lost' = Lost
         /\ handles_len' = handles_len - 1
         /\ held' = [held EXCEPT ![c] = FS_INVALID_HANDLE]
<1> USE DEF TableOK, Slot, Holds, FS_INVALID_HANDLE
<1> DEFINE top == held[c]
<1>1. /\ top \in Slot /\ handles_len \in Nat /\ handles_len <= MAX_FILE_HANDLES
      /\ handles[top] # NULL /\ handles[top] \in streams
  BY CapacityAssumption DEF fs__close, TypeOK, HeldSlotsAreOwn, SlotStreamsAreOpen
<1>2. /\ streams' = streams \ {handles[top]}
      /\ handles' = [handles EXCEPT ![top] = NULL]
      /\ handles_len' = Trimmed(handles', handles_len)
      /\ held' = [held EXCEPT ![c] = FS_INVALID_HANDLE]
      /\ opened' = [opened EXCEPT ![c] = NULL]
  BY DEF fs__close
<1>3. /\ handles_len' \in 0 .. handles_len
      /\ handles_len' > 0 => handles'[handles_len' - 1] # NULL
      /\ \A h \in handles_len' .. handles_len - 1 : handles'[h] = NULL
  <2> DEFINE n == Trimmed(handles', handles_len)
  <2>1. /\ n \in 0 .. handles_len
        /\ n > 0 => handles'[n - 1] # NULL
        /\ \A h \in n .. handles_len - 1 : handles'[h] = NULL
    BY <1>1, TrimmedProperties, Zenon
  <2>2. QED
    BY <1>2, <2>1, Zenon
<1>4. /\ handles'[handles_len - 1] = NULL
      /\ \A h \in 0 .. handles_len - 2 : handles'[h] # NULL
  BY <1>1, <1>2, CapacityAssumption DEF TypeOK, SlotsFilled
<1>5. handles_len' = handles_len - 1
  <2>1. handles_len' # handles_len
    BY <1>1, <1>3, <1>4
  <2>2. ~ (handles_len' < handles_len - 1)
    BY <1>1, <1>3, <1>4
  <2>3. QED
    BY <1>1, <1>3, <2>1, <2>2
<1>6. TypeOK'
  BY <1>1, <1>2, <1>5, CapacityAssumption DEF TypeOK
<1>7. SlotsFilled'
  BY <1>1, <1>2, <1>5, CapacityAssumption DEF TypeOK, SlotsFilled
<1>8. SlotStreamsAreOpen'
  BY <1>1, <1>2 DEF TypeOK, SlotStreamsAreOpen
<1>9. HeldSlotsAreOwn'
  BY <1>1, <1>2 DEF TypeOK, HeldSlotsAreOwn
<1>10. Lost' = Lost
  BY <1>1, <1>2, NullAssumption DEF TypeOK, Lost, SlotStreamsAreOpen
<1>11. QED
  BY <1>2, <1>5, <1>6, <1>7, <1>8, <1>9, <1>10

-------------------------------------------------------------------------------
(* What the functions do with their two variables.                          *)
LEMMA HeldTyped ==
  ASSUME TableOK
  PROVE  /\ handles_len \in Nat /\ handles_len <= MAX_FILE_HANDLES
         /\ held["file"] \in Int /\ held["in_file"] \in Int
         /\ "file" \in Client /\ "in_file" \in Client
         /\ \A c \in Client : c = "file" \/ c = "in_file"
         /\ \A c \in Client : Holds(c) => held[c] \in Nat /\ held[c] < handles_len
         /\ held \in [Client -> Int]
<1>1. \A c \in Client : Holds(c) => held[c] \in Slot /\ held[c] < handles_len
  BY DEF TableOK, TypeOK, HeldSlotsAreOwn, SlotsFilled, Holds, FS_INVALID_HANDLE
<1>2. QED
  BY <1>1, CapacityAssumption, ClientAssumption
     DEF TableOK, TypeOK, Slot, Holds, FS_INVALID_HANDLE

LEMMA OpenFile ==
  ASSUME TableOK, HeldOnTop, ~ Holds("in_file"), Opened("file")
  PROVE  /\ TableOK' /\ HeldOnTop' /\ Lost' = Lost
         /\ Holds("file")' /\ ~ Holds("in_file")' /\ Below' = Below
BY HeldTyped, OpenedPushes DEF HeldOnTop, Below, Holds, FS_INVALID_HANDLE

LEMMA OpenInFile ==
  ASSUME TableOK, HeldOnTop, Holds("file"), Opened("in_file")
  PROVE  /\ TableOK' /\ HeldOnTop' /\ Lost' = Lost
         /\ Holds("file")' /\ Holds("in_file")' /\ Below' = Below
<1>1. /\ TableOK' /\ Lost' = Lost /\ ~ Holds("in_file") /\ handles_len' = handles_len + 1
      /\ held' = [held EXCEPT !["in_file"] = handles_len]
  BY HeldTyped, OpenedPushes
<1>2. /\ held'["in_file"] = handles_len /\ held'["file"] = held["file"]
      /\ held["file"] \in Nat /\ held["file"] = Below /\ Below = handles_len - 1
  BY <1>1, HeldTyped DEF HeldOnTop, Below
<1>3. Holds("file")' /\ Holds("in_file")' /\ Below' = Below
  BY <1>1, <1>2, HeldTyped DEF Below, Holds, FS_INVALID_HANDLE
<1>4. HeldOnTop'
  BY <1>1, <1>2, <1>3, HeldTyped DEF HeldOnTop
<1>5. QED
  BY <1>1, <1>3, <1>4

LEMMA OpenNothing ==
  ASSUME TableOK, HeldOnTop, NEW c \in Client, NEW exists, NotOpened(c, exists)
  PROVE  /\ TableOK' /\ HeldOnTop' /\ Below' = Below /\ handles_len' = handles_len
         /\ Holds("file")' = Holds("file") /\ Holds("in_file")' = Holds("in_file")
         /\ handles_len < MAX_FILE_HANDLES => Lost' = Lost
BY NotOpenedLeaves DEF HeldOnTop, Below, Holds

LEMMA CloseFile ==
  ASSUME TableOK, HeldOnTop, ~ Holds("in_file"), fs__close("file")
  PROVE  /\ TableOK' /\ HeldOnTop' /\ Lost' = Lost
         /\ ~ Holds("file")' /\ ~ Holds("in_file")' /\ Below' = Below
<1>1. Holds("file")
  BY DEF fs__close
<1>2. /\ held["file"] = handles_len - 1
      /\ \A d \in Client : d # "file" => held[d] # held["file"]
  BY <1>1, HeldTyped DEF HeldOnTop, Below, Holds
<1>3. QED
  BY <1>1, <1>2, HeldTyped, ClosePops DEF HeldOnTop, Below, Holds, FS_INVALID_HANDLE

LEMMA CloseInFile ==
  ASSUME TableOK, HeldOnTop, fs__close("in_file")
  PROVE  /\ TableOK' /\ HeldOnTop' /\ Lost' = Lost
         /\ Holds("file")' /\ ~ Holds("in_file")' /\ Below' = Below
<1>1. Holds("in_file")
  BY DEF fs__close
<1>2. /\ held["in_file"] = handles_len - 1 /\ Holds("file") /\ held["file"] = handles_len - 2
      /\ \A d \in Client : d # "in_file" => held[d] # held["in_file"]
  BY <1>1, HeldTyped DEF HeldOnTop, Below
<1>3. /\ TableOK' /\ Lost' = Lost /\ handles_len' = handles_len - 1
      /\ held' = [held EXCEPT !["in_file"] = FS_INVALID_HANDLE]
  BY <1>2, HeldTyped, ClosePops
<1>4. held'["in_file"] = FS_INVALID_HANDLE /\ held'["file"] = held["file"]
  BY <1>3, HeldTyped
<1>5. held["file"] \in Nat /\ held["file"] = Below /\ Below = handles_len - 2
  BY <1>1, <1>2, HeldTyped DEF HeldOnTop, Below
<1>6. Holds("file")' /\ ~ Holds("in_file")' /\ Below' = Below
  BY <1>3, <1>4, <1>5, HeldTyped DEF Below, Holds, FS_INVALID_HANDLE
<1>7. HeldOnTop'
  BY <1>3, <1>4, <1>5, <1>6, HeldTyped DEF HeldOnTop
<1>8. QED
  BY <1>3, <1>6, <1>7

LEMMA ForgetFile ==
  ASSUME TableOK, HeldOnTop, Holds("file"), ~ Holds("in_file"), Forget("file")
  PROVE  /\ TableOK' /\ HeldOnTop' /\ Lost' = Lost
         /\ ~ Holds("file")' /\ ~ Holds("in_file")' /\ Below' = Below + 1
BY HeldTyped, ForgetLeaves DEF HeldOnTop, Below, Holds, FS_INVALID_HANDLE

(* The cleanup leaves nothing open but the handle 0.                        *)
LEMMA CleanupFile ==
  ASSUME TableOK, HeldOnTop, Holds("file"), ~ Holds("in_file"), Cleanup("file")
  PROVE  /\ TableOK' /\ HeldOnTop' /\ Lost' = Lost
         /\ ~ Holds("file")' /\ ~ Holds("in_file")'
         /\ \/ Below' = Below
            \/ Below = 0 /\ Below' = 1
<1>1. CASE held["file"] = 0
  <2>1. Forget("file") /\ Below = 0
    BY <1>1 DEF Cleanup, HeldOnTop
  <2>2. QED
    BY <2>1, ForgetFile
<1>2. CASE held["file"] # 0
  <2>1. fs__close("file")
    BY <1>2 DEF Cleanup
  <2>2. QED
    BY <2>1, CloseFile
<1>3. QED
  BY <1>1, <1>2

-------------------------------------------------------------------------------
(* The first call has room at every step, with two slots for every input    *)
(* and two more: inputs that leave two files open are no artifacts, and     *)
(* then nothing is copied.                                                  *)
LEMMA RoomInFirst ==
  ASSUME SInv, calls = 1, pc # "crashed", 2 * Len(inputs) + 2 <= MAX_FILE_HANDLES
  PROVE  handles_len < MAX_FILE_HANDLES
<1>1. /\ Len(inputs) \in Nat \ {0} /\ k \in 1 .. Len(inputs) /\ Below \in Nat /\ shorts \in Nat
      /\ MAX_FILE_HANDLES \in Nat /\ Below <= shorts + 1 /\ Below <= Passed
      /\ handles_len \in Nat
  <2>1. inputs \in Inputs /\ k \in 1 .. Len(inputs) /\ shorts \in Nat
    BY DEF SInv, ControlOK
  <2>2. Len(inputs) \in Nat \ {0}
    BY <2>1, BoundsAssumption DEF Inputs
  <2>3. QED
    BY <2>1, <2>2, HeldTyped, CapacityAssumption
       DEF SInv, HeldOnTop, LeftAreCounted, FirstLeavesFew
<1>2. Passed \in Nat /\ Passed <= 2 * Len(inputs)
  BY <1>1 DEF Passed
<1>3. CASE pc \in WritePhase
  <2>1. \A j \in 1 .. Len(inputs) : IsGood(inputs[j])
    BY <1>3 DEF SInv, ParsedAreGood
  <2>2. shorts = 0
    BY <1>1, <2>1 DEF SInv, ShortsAreNotGood
  <2>3. handles_len <= Below + 2
    BY <1>1 DEF Below
  <2>4. QED
    BY <1>1, <2>2, <2>3
<1>4. CASE pc \notin WritePhase
  <2>1. ~ Holds("in_file")
    BY <1>4 DEF SInv, HeldByPc, WritePhase
  <2>2. handles_len <= Below + 1
    BY <1>1, <2>1 DEF Below
  <2>3. QED
    BY <1>1, <1>2, <2>2
<1>5. QED
  BY <1>3, <1>4

(* A function goes on to its next step.                                     *)
LEMMA GoOnKeepsSInv ==
  ASSUME SInv, pc \notin {"idle", "crashed"},
         pc' \in Label, pc' # "crashed", k' \in 1 .. Len(inputs), inputs' = inputs, calls' = calls,
         TableOK', HeldOnTop', HeldByPc', handles_len < MAX_FILE_HANDLES => Lost' = Lost,
         shorts' \in Nat, Below' <= shorts' + 1, shorts' + Passed <= shorts + Passed',
         calls = 1 => Below' <= Passed',
         ParsedAreGood', ShortsAreNotGood'
  PROVE  SInv'
<1>1. /\ calls \in Nat \ {0} /\ inputs \in Inputs /\ k \in 1 .. Len(inputs) /\ shorts \in Nat
      /\ Len(inputs) \in Nat /\ Len(inputs) <= MaxInputs
  <2>1. calls \in Nat \ {0} /\ inputs \in Inputs /\ k \in 1 .. Len(inputs) /\ shorts \in Nat
    BY BoundsAssumption DEF SInv, ControlOK
  <2>2. QED
    BY <2>1, BoundsAssumption DEF Inputs
<1>2. ControlOK'
  BY <1>1, BoundsAssumption DEF SInv, ControlOK
<1>3. LeftAreCounted'
  BY DEF LeftAreCounted
<1>4. ShortsAreCounted'
  <2>0. PICK so_far \in Int : so_far = (2 * MaxInputs) * (calls - 1)
    BY <1>1, BoundsAssumption
  <2>1. shorts <= so_far + Passed
    BY <1>1, <2>0 DEF SInv, ShortsAreCounted
  <2>2. Passed \in Int /\ Passed' \in Int
    BY <1>1 DEF Passed
  <2>3. shorts' <= so_far + Passed'
    <3>1. \A p, q, m, n \in Int : n + p <= m + q /\ m <= so_far + p => n <= so_far + q
      BY <2>0
    <3>2. shorts \in Int /\ shorts' \in Int /\ shorts' + Passed <= shorts + Passed'
      BY <1>1
    <3>3. QED
      BY <2>1, <2>2, <3>1, <3>2
  <2>4. QED
    BY <2>0, <2>3 DEF ShortsAreCounted
<1>5. FirstLeavesFew'
  BY RoomInFirst DEF SInv, FirstLeavesFew
<1>6. QED
  BY <1>2, <1>3, <1>4, <1>5 DEF SInv

(* A function dies with what it holds.                                      *)
LEMMA CrashKeepsSInv ==
  ASSUME SInv, pc \notin {"idle", "crashed"}, Goto("crashed", k),
         TableOK', HeldOnTop', Below' = Below, handles_len' = handles_len,
         handles_len < MAX_FILE_HANDLES => Lost' = Lost, shorts' = shorts
  PROVE  SInv'
<1>1. pc' = "crashed" /\ k' = k /\ inputs' = inputs /\ calls' = calls
  BY DEF Goto
<1>2. /\ calls \in Nat \ {0} /\ inputs \in Inputs /\ k \in 1 .. Len(inputs) /\ shorts \in Nat
      /\ Len(inputs) \in Nat
  <2>1. calls \in Nat \ {0} /\ inputs \in Inputs /\ k \in 1 .. Len(inputs) /\ shorts \in Nat
    BY BoundsAssumption DEF SInv, ControlOK
  <2>2. QED
    BY <2>1, BoundsAssumption DEF Inputs
<1>3. Passed <= Passed' /\ Passed \in Int /\ Passed' \in Int
  <2>1. Passed' = 2 * Len(inputs)
    BY <1>1 DEF Passed, CoffPhase, ElfPhase
  <2>2. Passed \in Int /\ Passed <= 2 * Len(inputs)
    BY <1>2 DEF Passed
  <2>3. QED
    BY <1>2, <2>1, <2>2
<1>4. ControlOK'
  BY <1>1, <1>2 DEF SInv, ControlOK, Label
<1>5. HeldByPc' /\ ParsedAreGood' /\ ShortsAreNotGood' /\ LeftAreCounted'
  BY <1>1 DEF SInv, HeldByPc, ParsedAreGood, ShortsAreNotGood, LeftAreCounted, ParsePhase,
     WritePhase
<1>6. ShortsAreCounted'
  <2>0. PICK so_far \in Int : so_far = (2 * MaxInputs) * (calls - 1)
    BY <1>2, BoundsAssumption
  <2>1. shorts <= so_far + Passed
    BY <1>2, <2>0 DEF SInv, ShortsAreCounted
  <2>2. shorts <= so_far + Passed'
    BY <1>2, <1>3, <2>0, <2>1
  <2>3. QED
    BY <1>1, <2>0, <2>2 DEF ShortsAreCounted
<1>7. FirstLeavesFew'
  <2>1. SUFFICES ASSUME calls = 1
                 PROVE  FirstLeavesFew'
    BY <1>1 DEF FirstLeavesFew
  <2>2. Below \in Int /\ Below <= Passed
    BY <2>1 DEF SInv, HeldOnTop, FirstLeavesFew
  <2>3. QED
    BY <1>1, <1>3, <2>1, <2>2, RoomInFirst DEF SInv, FirstLeavesFew
<1>8. QED
  BY <1>4, <1>5, <1>6, <1>7 DEF SInv

(* What is known of a call that is under way.                               *)
LEMMA CallUnderWay ==
  ASSUME SInv, pc \notin {"idle", "crashed"}
  PROVE  /\ inputs \in Inputs /\ k \in 1 .. Len(inputs) /\ Len(inputs) \in Nat \ {0}
         /\ Len(inputs) <= MaxInputs /\ DOMAIN inputs = 1 .. Len(inputs)
         /\ shorts \in Nat /\ calls \in Nat \ {0} /\ Below \in Nat /\ Below <= shorts + 1
         /\ calls = 1 => Below <= Passed
         /\ TableOK /\ HeldOnTop /\ HeldByPc /\ ParsedAreGood /\ ShortsAreNotGood
         /\ Holds("file") <=> pc \in HoldsFile
         /\ Holds("in_file") <=> pc = "transfer_opened"
<1>1. inputs \in Inputs /\ k \in 1 .. Len(inputs) /\ calls \in Nat \ {0}
  BY BoundsAssumption DEF SInv, ControlOK
<1>2. Len(inputs) \in Nat \ {0} /\ Len(inputs) <= MaxInputs /\ DOMAIN inputs = 1 .. Len(inputs)
  BY <1>1, BoundsAssumption DEF Inputs
<1>3. QED
  BY <1>1, <1>2 DEF SInv, ControlOK, HeldOnTop, HeldByPc, LeftAreCounted, FirstLeavesFew

LEMMA CallNumbers ==
  ASSUME SInv, pc \notin {"idle", "crashed"}
  PROVE  /\ Len(inputs) \in Nat \ {0} /\ k \in Nat \ {0} /\ k <= Len(inputs)
         /\ shorts \in Nat /\ Below \in Nat /\ Below <= shorts + 1
         /\ Passed \in Nat /\ Passed <= 2 * Len(inputs)
         /\ calls = 1 => Below <= Passed
<1>1. /\ k \in 1 .. Len(inputs) /\ Len(inputs) \in Nat \ {0}
      /\ shorts \in Nat /\ Below \in Nat /\ Below <= shorts + 1
  BY CallUnderWay
<1>2. calls = 1 => Below <= Passed
  BY CallUnderWay
<1>3. Passed \in Nat /\ Passed <= 2 * Len(inputs)
  BY <1>1 DEF Passed
<1>4. QED
  BY <1>1, <1>2, <1>3

OpenStep(from, to) ==
  \/ from = "coff" /\ to = "coff_opened"
  \/ from = "elf" /\ to = "elf_opened"
  \/ from = "output" /\ to = "output_opened"
  \/ from = "parse" /\ to = "parse_opened"
  \/ from = "parse_to_load" /\ to = "load_opened"
  \/ from = "load" /\ to = "loaded"
  \/ from = "entry" /\ to = "entry_opened"

LEMMA OpenInputKeepsSInv ==
  ASSUME SInv, NEW from, NEW to, OpenStep(from, to), NEW exists,
         OpenInput(from, exists, to)
  PROVE  SInv'
<1>1. pc = from /\ shorts' = shorts
  BY DEF OpenInput
<1>2. /\ pc \notin {"idle", "crashed"} /\ pc \notin HoldsFile
      /\ to \in Label /\ to # "crashed" /\ to \in HoldsFile /\ to # "transfer_opened"
      /\ from \notin WritePhase /\ to \notin WritePhase
      /\ from \in CoffPhase <=> to \in CoffPhase
      /\ from \in ElfPhase <=> to \in ElfPhase
      /\ from \in ParsePhase <=> to \in ParsePhase
  BY <1>1 DEF OpenStep, Label, CoffPhase, ElfPhase, ParsePhase, WritePhase, LoadPhase, HoldsFile
<1>3. ~ Holds("file") /\ ~ Holds("in_file")
  BY <1>1, <1>2, CallUnderWay DEF HoldsFile
<1>4. CASE Opened("file") /\ Goto(to, k)
  <2>1. pc' = to /\ k' = k /\ inputs' = inputs /\ calls' = calls
    BY <1>4 DEF Goto
  <2>2. /\ TableOK' /\ HeldOnTop' /\ Lost' = Lost
        /\ Holds("file")' /\ ~ Holds("in_file")' /\ Below' = Below
    BY <1>2, <1>3, <1>4, CallUnderWay, OpenFile
  <2>3. Passed' = Passed
    BY <1>1, <1>2, <2>1 DEF Passed
  <2>4. HeldByPc'
    BY <1>2, <2>1, <2>2 DEF HeldByPc
  <2>5. ParsedAreGood' /\ ShortsAreNotGood'
    BY <1>1, <1>2, <2>1, CallUnderWay DEF ParsedAreGood, ShortsAreNotGood
  <2>6. /\ shorts' \in Nat /\ Below' <= shorts' + 1 /\ shorts' + Passed <= shorts + Passed'
        /\ calls = 1 => Below' <= Passed'
    <3>1. Below' = Below /\ shorts' = shorts /\ pc \notin {"idle", "crashed"}
      BY <1>1, <1>2, <2>2
    <3>2. QED
      BY <2>3, <3>1, CallNumbers
  <2>7. QED
    <3>1. k' \in 1 .. Len(inputs)
      BY <1>2, <2>1, CallUnderWay
    <3>2. QED
      BY <1>2, <2>1, <2>2, <2>4, <2>5, <2>6, <3>1, GoOnKeepsSInv
<1>5. CASE NotOpened("file", exists) /\ Goto("crashed", k)
  <2>1. "file" \in Client
    BY ClientAssumption
  <2>2. QED
    BY <1>1, <1>2, <1>5, <2>1, CallUnderWay, OpenNothing, CrashKeepsSInv
<1>6. QED
  BY <1>4, <1>5 DEF OpenInput

(* The call goes on to a step that holds no file.                           *)
GoesOn ==
  /\ pc' \in Label /\ pc' # "crashed" /\ pc' \notin HoldsFile
  /\ k' \in 1 .. Len(inputs) /\ inputs' = inputs /\ calls' = calls

(* A function closes its file, cleans it up, or forgets it when it is too   *)
(* short, and goes on to what needs none.                                   *)
LEMMA LeavingFile ==
  ASSUME SInv, pc \in HoldsFile, pc # "transfer_opened",
         GoesOn
  PROVE  /\ pc \notin {"idle", "crashed"} /\ Holds("file") /\ ~ Holds("in_file")
         /\ Passed' \in Nat /\ TableOK /\ HeldOnTop
         /\ ~ Holds("file")' /\ ~ Holds("in_file")' => HeldByPc'
         /\ shorts' = shorts \/ ~ IsGood(inputs[k]) => ShortsAreNotGood'
<1> USE DEF GoesOn
<1>1. pc \notin {"idle", "crashed"}
  BY DEF HoldsFile
<1>2. Holds("file") /\ ~ Holds("in_file") /\ TableOK /\ HeldOnTop
  BY <1>1, CallUnderWay
<1>3. Passed' \in Nat
  <2>1. Len(inputs) \in Nat
    BY <1>1, CallNumbers
  <2>2. k' \in Nat /\ k' >= 1
    BY <2>1
  <2>3. 2 * (k' - 1) \in Nat /\ 2 * k' - 1 \in Nat
    <3>1. \A n \in Nat : n >= 1 => 2 * (n - 1) \in Nat /\ 2 * n - 1 \in Nat
      OBVIOUS
    <3>2. QED
      BY <2>2, <3>1
  <2>4. 2 * Len(inputs)' \in Nat
    BY <2>1
  <2>5. QED
    BY <2>3, <2>4 DEF Passed
<1>4. ~ Holds("file")' /\ ~ Holds("in_file")' => HeldByPc'
  BY DEF HeldByPc, HoldsFile
<1>5. shorts' = shorts \/ ~ IsGood(inputs[k]) => ShortsAreNotGood'
  BY <1>1, CallUnderWay DEF ShortsAreNotGood
<1>6. QED
  BY <1>1, <1>2, <1>3, <1>4, <1>5

LEMMA CloseAndGo ==
  ASSUME SInv, pc \in HoldsFile, pc # "transfer_opened",
         GoesOn,
         fs__close("file"), shorts' = shorts, Passed <= Passed', ParsedAreGood'
  PROVE  SInv'
<1> USE DEF GoesOn
<1>1. /\ TableOK' /\ HeldOnTop' /\ Lost' = Lost
      /\ ~ Holds("file")' /\ ~ Holds("in_file")' /\ Below' = Below
  BY LeavingFile, CloseFile
<1>2. /\ shorts' \in Nat /\ Below' <= shorts' + 1 /\ shorts' + Passed <= shorts + Passed'
      /\ calls = 1 => Below' <= Passed'
  <2>1. pc \notin {"idle", "crashed"} /\ Passed' \in Nat
    BY LeavingFile
  <2>2. /\ Below \in Nat /\ shorts \in Nat /\ Below <= shorts + 1 /\ Passed \in Nat
        /\ calls = 1 => Below <= Passed
    BY <2>1, CallNumbers
  <2>3. \A s, p, q \in Nat : p <= q => s + p <= s + q
    OBVIOUS
  <2>4. \A b, p, q \in Nat : b <= p /\ p <= q => b <= q
    OBVIOUS
  <2>5. QED
    BY <1>1, <2>1, <2>2, <2>3, <2>4
<1>3. QED
  BY <1>1, <1>2, LeavingFile, GoOnKeepsSInv

LEMMA CleanupAndGo ==
  ASSUME SInv, pc \in HoldsFile, pc # "transfer_opened",
         GoesOn,
         Cleanup("file"), shorts' = shorts, 1 <= Passed', Passed <= Passed', ParsedAreGood'
  PROVE  SInv'
<1> USE DEF GoesOn
<1>1. /\ TableOK' /\ HeldOnTop' /\ Lost' = Lost
      /\ ~ Holds("file")' /\ ~ Holds("in_file")'
      /\ \/ Below' = Below
         \/ Below = 0 /\ Below' = 1
  BY LeavingFile, CleanupFile
<1>2. /\ shorts' \in Nat /\ Below' <= shorts' + 1 /\ shorts' + Passed <= shorts + Passed'
      /\ calls = 1 => Below' <= Passed'
  <2>1. pc \notin {"idle", "crashed"} /\ Passed' \in Nat
    BY LeavingFile
  <2>2. /\ Below \in Nat /\ shorts \in Nat /\ Below <= shorts + 1 /\ Passed \in Nat
        /\ calls = 1 => Below <= Passed
    BY <2>1, CallNumbers
  <2>3. \A s, p, q \in Nat : p <= q => s + p <= s + q /\ 1 <= s + 1
    OBVIOUS
  <2>4. \A b, p, q \in Nat : b <= p /\ p <= q => b <= q
    OBVIOUS
  <2>5. QED
    BY <1>1, <2>1, <2>2, <2>3, <2>4
<1>3. QED
  BY <1>1, <1>2, LeavingFile, GoOnKeepsSInv

LEMMA ForgetAndGo ==
  ASSUME SInv, pc \in HoldsFile, pc # "transfer_opened",
         GoesOn,
         Forget("file"), shorts' = shorts + 1, Passed + 1 <= Passed', ~ IsGood(inputs[k]),
         Passed <= Passed', ParsedAreGood'
  PROVE  SInv'
<1> USE DEF GoesOn
<1>1. /\ TableOK' /\ HeldOnTop' /\ Lost' = Lost
      /\ ~ Holds("file")' /\ ~ Holds("in_file")' /\ Below' = Below + 1
  BY LeavingFile, ForgetFile
<1>2. /\ shorts' \in Nat /\ Below' <= shorts' + 1 /\ shorts' + Passed <= shorts + Passed'
      /\ calls = 1 => Below' <= Passed'
  <2>1. pc \notin {"idle", "crashed"} /\ Passed' \in Nat
    BY LeavingFile
  <2>2. /\ Below \in Nat /\ shorts \in Nat /\ Below <= shorts + 1 /\ Passed \in Nat
        /\ calls = 1 => Below <= Passed
    BY <2>1, CallNumbers
  <2>3. \A s, p, q \in Nat : p + 1 <= q => (s + 1) + p <= s + q /\ s + 1 \in Nat
    OBVIOUS
  <2>4. \A b, s, p, q \in Nat :
          /\ b <= s + 1 => b + 1 <= (s + 1) + 1
          /\ b <= p /\ p + 1 <= q => b + 1 <= q
    OBVIOUS
  <2>5. QED
    BY <1>1, <2>1, <2>2, <2>3, <2>4
<1>3. QED
  BY <1>1, <1>2, LeavingFile, GoOnKeepsSInv

LEMMA ConvertFromCoffKeepsSInv ==
  ASSUME SInv, ConvertFromCoff
  PROVE  SInv'
<1>1. /\ pc = "coff_opened" /\ pc \notin {"idle", "crashed"}
      /\ pc \in HoldsFile /\ pc # "transfer_opened"
  BY DEF ConvertFromCoff, Convert, HoldsFile
<1>2. Passed = 2 * (k - 1) /\ k \in 1 .. Len(inputs) /\ k \in Nat
  BY <1>1, CallNumbers, CallUnderWay DEF Passed, CoffPhase
<1>3. ASSUME NEW to \in {"elf", "output"}, Goto(to, k)
      PROVE  /\ ParsedAreGood'
             /\ Passed <= Passed' /\ Passed + 1 <= Passed' /\ 1 <= Passed'
             /\ GoesOn
  <2>1. Passed' = 2 * k - 1 /\ ParsedAreGood' /\ GoesOn
    BY <1>2, <1>3 DEF GoesOn, Goto, Passed, ParsedAreGood, CoffPhase, ElfPhase, ParsePhase,
       WritePhase, HoldsFile, Label
  <2>2. QED
    BY <1>2, <2>1
<1>4. CASE inputs[k] = "short" /\ Forget("file") /\ shorts' = shorts + 1 /\ Goto("elf", k)
  <2>1. ~ IsGood(inputs[k])
    BY <1>4 DEF IsGood
  <2>2. QED
    BY <1>1, <1>2, <1>3, <1>4, <2>1, ForgetAndGo
<1>5. CASE Cleanup("file") /\ shorts' = shorts /\ Goto("elf", k)
  BY <1>1, <1>2, <1>3, <1>5, CleanupAndGo
<1>6. CASE fs__close("file") /\ shorts' = shorts /\ Goto("output", k)
  BY <1>1, <1>2, <1>3, <1>6, CloseAndGo
<1>7. QED
  BY <1>4, <1>5, <1>6 DEF ConvertFromCoff, Convert

(* The next input, or the next loop.                                        *)
LEMMA NextInputGoes ==
  ASSUME SInv, pc \notin {"idle", "crashed"}, NEW loop, NEW next_loop, NextInput(loop, next_loop)
  PROVE  \/ k < Len(inputs) /\ Goto(loop, k + 1) /\ k + 1 \in 1 .. Len(inputs)
         \/ k = Len(inputs) /\ Goto(next_loop, 1) /\ 1 \in 1 .. Len(inputs)
BY CallNumbers DEF NextInput

(* After the conversion of an input comes that of the next, or the parsing. *)
LEMMA ConvertedGoes ==
  ASSUME SInv, pc \in ElfPhase, NextInput("coff", "parse")
  PROVE  /\ ParsedAreGood' /\ Passed + 1 <= Passed' /\ 1 <= Passed' /\ Passed <= Passed'
         /\ GoesOn
<1>1. pc \notin {"idle", "crashed"} /\ pc \notin CoffPhase
  BY DEF ElfPhase, CoffPhase
<1>2. Passed = 2 * k - 1 /\ k \in Nat \ {0} /\ Len(inputs) \in Nat
  BY <1>1, CallNumbers DEF Passed
<1>3. CASE k < Len(inputs) /\ Goto("coff", k + 1) /\ k + 1 \in 1 .. Len(inputs)
  <2>1. GoesOn
    BY <1>3 DEF GoesOn, Goto, Label, CoffPhase, HoldsFile
  <2>2. Passed' = 2 * ((k + 1) - 1)
    BY <1>3 DEF Goto, Passed, CoffPhase
  <2>3. ParsedAreGood'
    BY <1>3 DEF Goto, ParsedAreGood, ParsePhase, WritePhase
  <2>4. QED
    BY <1>2, <1>3, <2>1, <2>2, <2>3
<1>4. CASE k = Len(inputs) /\ Goto("parse", 1) /\ 1 \in 1 .. Len(inputs)
  <2>1. GoesOn
    BY <1>4 DEF GoesOn, Goto, Label, ParsePhase, HoldsFile
  <2>2. Passed' = 2 * Len(inputs)
    BY <1>4 DEF Goto, Passed, CoffPhase, ElfPhase
  <2>3. ParsedAreGood'
    BY <1>4 DEF Goto, ParsedAreGood, ParsePhase, WritePhase
  <2>4. QED
    BY <1>2, <1>4, <2>1, <2>2, <2>3
<1>5. QED
  BY <1>1, <1>3, <1>4, NextInputGoes

LEMMA ConvertFromElfKeepsSInv ==
  ASSUME SInv, ConvertFromElf
  PROVE  SInv'
<1>1. /\ pc = "elf_opened" /\ pc \in ElfPhase /\ pc \notin {"idle", "crashed"}
      /\ pc \in HoldsFile /\ pc # "transfer_opened"
  BY DEF ConvertFromElf, Convert, HoldsFile, ElfPhase
<1>2. Passed = 2 * k - 1 /\ k \in 1 .. Len(inputs) /\ k \in Nat
  BY <1>1, CallNumbers, CallUnderWay DEF Passed, CoffPhase, ElfPhase
<1>3. CASE /\ inputs[k] \in {"short", "tiny"} /\ Forget("file") /\ shorts' = shorts + 1
           /\ NextInput("coff", "parse")
  <2>1. ~ IsGood(inputs[k])
    BY <1>3 DEF IsGood
  <2>2. QED
    BY <1>1, <1>3, <2>1, ConvertedGoes, ForgetAndGo
<1>4. CASE Cleanup("file") /\ shorts' = shorts /\ NextInput("coff", "parse")
  BY <1>1, <1>4, ConvertedGoes, CleanupAndGo
<1>5. CASE fs__close("file") /\ shorts' = shorts /\ Goto("output", k)
  <2>1. Passed' = 2 * k - 1 /\ ParsedAreGood'
    BY <1>5 DEF Goto, Passed, ParsedAreGood, CoffPhase, ElfPhase, ParsePhase, WritePhase
  <2>2. GoesOn
    BY <1>2, <1>5 DEF GoesOn, Goto, Label, ElfPhase, HoldsFile
  <2>3. Passed <= Passed'
    BY <1>2, <2>1
  <2>4. QED
    BY <1>1, <1>5, <2>1, <2>2, <2>3, CloseAndGo
<1>6. QED
  BY <1>3, <1>4, <1>5 DEF ConvertFromElf, Convert

LEMMA CloseConvertedKeepsSInv ==
  ASSUME SInv, CloseConverted
  PROVE  SInv'
<1>1. pc \in ElfPhase /\ pc \in HoldsFile /\ pc # "transfer_opened"
  BY DEF CloseConverted, HoldsFile, ElfPhase
<1>2. QED
  BY <1>1, ConvertedGoes, CloseAndGo DEF CloseConverted

(* The parser: an input that is refused ends the call, and the parsed ones  *)
(* are none of those that were too short.                                   *)
LEMMA ParseInputKeepsSInv ==
  ASSUME SInv, ParseInput
  PROVE  SInv'
<1>1. /\ pc = "parse_opened" /\ pc \notin {"idle", "crashed"} /\ shorts' = shorts
      /\ pc \in HoldsFile /\ pc # "transfer_opened"
  BY DEF ParseInput, Parsed, HoldsFile
<1>2. /\ Passed = 2 * Len(inputs) /\ Len(inputs) \in Nat \ {0} /\ k \in Nat
      /\ 1 \in 1 .. Len(inputs)
      /\ \A j \in 1 .. k - 1 : IsGood(inputs[j])
  <2>1. Len(inputs) \in Nat \ {0} /\ k \in Nat
    BY <1>1, CallNumbers
  <2>2. \A j \in 1 .. k - 1 : IsGood(inputs[j])
    BY <1>1, CallUnderWay DEF ParsedAreGood, ParsePhase
  <2>3. QED
    BY <1>1, <2>1, <2>2 DEF Passed, CoffPhase, ElfPhase
<1>3. ASSUME pc' \notin CoffPhase \union ElfPhase, inputs' = inputs
      PROVE  Passed' = 2 * Len(inputs) /\ Passed <= Passed' /\ 1 <= Passed'
  <2>1. Passed' = 2 * Len(inputs)
    BY <1>3 DEF Passed
  <2>2. QED
    BY <1>2, <2>1
<1>4. CASE IsGood(inputs[k]) /\ fs__close("file") /\ NextInput("parse", "combine")
  <2>1. \A j \in 1 .. k : IsGood(inputs[j])
    BY <1>2, <1>4
  <2>2. CASE k < Len(inputs) /\ Goto("parse", k + 1) /\ k + 1 \in 1 .. Len(inputs)
    <3>1. pc' = "parse" /\ k' = k + 1 /\ inputs' = inputs /\ calls' = calls
      BY <2>2 DEF Goto
    <3>2. GoesOn /\ pc' \notin CoffPhase \union ElfPhase
      BY <2>2, <3>1 DEF GoesOn, Label, ParsePhase, HoldsFile, CoffPhase, ElfPhase
    <3>3. ParsedAreGood'
      <4>1. \A j \in 1 .. (k + 1) - 1 : IsGood(inputs[j])
        BY <1>2, <2>1
      <4>2. QED
        BY <3>1, <4>1 DEF ParsedAreGood, ParsePhase, WritePhase
    <3>4. QED
      BY <1>1, <1>3, <1>4, <3>1, <3>2, <3>3, CloseAndGo
  <2>3. CASE k = Len(inputs) /\ Goto("combine", 1) /\ 1 \in 1 .. Len(inputs)
    <3>1. pc' = "combine" /\ k' = 1 /\ inputs' = inputs /\ calls' = calls
      BY <2>3 DEF Goto
    <3>2. GoesOn /\ pc' \notin CoffPhase \union ElfPhase
      BY <2>3, <3>1 DEF GoesOn, Label, WritePhase, HoldsFile, CoffPhase, ElfPhase
    <3>3. ParsedAreGood'
      BY <2>1, <2>3, <3>1 DEF ParsedAreGood, ParsePhase
    <3>4. QED
      BY <1>1, <1>3, <1>4, <3>1, <3>2, <3>3, CloseAndGo
  <2>4. QED
    BY <1>1, <1>4, <2>2, <2>3, NextInputGoes
<1>5. CASE Cleanup("file") /\ Goto("idle", 1)
  <2>1. pc' = "idle" /\ k' = 1 /\ inputs' = inputs /\ calls' = calls
    BY <1>5 DEF Goto
  <2>2. GoesOn /\ pc' \notin CoffPhase \union ElfPhase
    BY <1>2, <2>1 DEF GoesOn, Label, HoldsFile, CoffPhase, ElfPhase
  <2>3. ParsedAreGood'
    BY <2>1 DEF ParsedAreGood, ParsePhase, WritePhase
  <2>4. QED
    BY <1>1, <1>3, <1>5, <2>1, <2>2, <2>3, CleanupAndGo
<1>6. QED
  BY <1>4, <1>5 DEF ParseInput, Parsed, IsGood

(* Outside the conversion and the parsing a call only closes or cleans up.  *)
LEMMA LastStepsKeepSInv ==
  ASSUME SInv, pc \in {"load_opened", "loaded", "entry_opened", "finish"},
         NEW to \in {"load", "entry", "idle"}, NEW i, i \in {1, k}, Goto(to, i),
         shorts' = shorts, fs__close("file") \/ Cleanup("file")
  PROVE  SInv'
<1>1. /\ pc \notin {"idle", "crashed"} /\ pc \in HoldsFile /\ pc # "transfer_opened"
      /\ pc \notin CoffPhase \union ElfPhase
  BY DEF HoldsFile, CoffPhase, ElfPhase
<1>2. pc' = to /\ k' = i /\ inputs' = inputs /\ calls' = calls
  BY DEF Goto
<1>3. Len(inputs) \in Nat \ {0} /\ i \in 1 .. Len(inputs)
  BY <1>1, CallNumbers
<1>4. GoesOn
  BY <1>2, <1>3 DEF GoesOn, Label, LoadPhase, HoldsFile
<1>5. Passed = 2 * Len(inputs) /\ Passed' = 2 * Len(inputs)
  BY <1>1, <1>2 DEF Passed, CoffPhase, ElfPhase
<1>6. Passed <= Passed' /\ 1 <= Passed'
  BY <1>3, <1>5
<1>7. ParsedAreGood'
  BY <1>2 DEF ParsedAreGood, ParsePhase, WritePhase
<1>8. QED
  BY <1>1, <1>4, <1>6, <1>7, CloseAndGo, CleanupAndGo

(* The output of the combination is opened, or the call is over.            *)
LEMMA OpenOutputKeepsSInv ==
  ASSUME SInv, OpenOutput
  PROVE  SInv'
<1>1. /\ pc = "combine" /\ pc \notin {"idle", "crashed"} /\ pc \notin HoldsFile
      /\ pc # "transfer_opened" /\ shorts' = shorts
      /\ pc \notin CoffPhase \union ElfPhase
  BY DEF OpenOutput, HoldsFile, CoffPhase, ElfPhase
<1>2. ~ Holds("file") /\ ~ Holds("in_file") /\ TableOK /\ HeldOnTop /\ "file" \in Client
  BY <1>1, CallUnderWay, ClientAssumption
<1>3. Len(inputs) \in Nat \ {0} /\ 1 \in 1 .. Len(inputs)
  BY <1>1, CallNumbers
<1>4. ASSUME NEW to \in {"transfer", "idle"}, Goto(to, 1), Below' = Below
      PROVE  /\ pc' = to /\ pc' \in Label /\ pc' # "crashed" /\ k' \in 1 .. Len(inputs)
             /\ inputs' = inputs /\ calls' = calls
             /\ ParsedAreGood' /\ ShortsAreNotGood'
             /\ shorts' \in Nat /\ Below' <= shorts' + 1 /\ shorts' + Passed <= shorts + Passed'
             /\ calls = 1 => Below' <= Passed'
  <2>1. pc' = to /\ k' = 1 /\ inputs' = inputs /\ calls' = calls
    BY <1>4 DEF Goto
  <2>2. to \notin CoffPhase \union ElfPhase \union ParsePhase
    BY DEF CoffPhase, ElfPhase, ParsePhase
  <2>3. Passed' = Passed
    BY <1>1, <2>1, <2>2 DEF Passed
  <2>4. ParsedAreGood' /\ ShortsAreNotGood'
    BY <1>1, <2>1, <2>2, CallUnderWay DEF ParsedAreGood, ShortsAreNotGood, WritePhase
  <2>5. /\ shorts' \in Nat /\ Below' <= shorts' + 1 /\ shorts' + Passed <= shorts + Passed'
        /\ calls = 1 => Below' <= Passed'
    <3>1. pc \notin {"idle", "crashed"}
      BY <1>1
    <3>2. QED
      BY <1>1, <1>4, <2>3, <3>1, CallNumbers
  <2>6. pc' \in Label /\ pc' # "crashed"
    BY <2>1 DEF Label, WritePhase
  <2>7. QED
    BY <1>3, <2>1, <2>4, <2>5, <2>6
<1>5. CASE Opened("file") /\ Goto("transfer", 1)
  <2>1. /\ TableOK' /\ HeldOnTop' /\ Lost' = Lost
        /\ Holds("file")' /\ ~ Holds("in_file")' /\ Below' = Below
    BY <1>2, <1>5, OpenFile
  <2>2. HeldByPc'
    BY <1>4, <1>5, <2>1 DEF HeldByPc, HoldsFile
  <2>3. QED
    BY <1>1, <1>4, <1>5, <2>1, <2>2, GoOnKeepsSInv
<1>6. ASSUME NEW exists, NotOpened("file", exists), Goto("idle", 1)
      PROVE  SInv'
  <2>1. /\ TableOK' /\ HeldOnTop' /\ ~ Holds("file")' /\ ~ Holds("in_file")' /\ Below' = Below
        /\ handles_len < MAX_FILE_HANDLES => Lost' = Lost
    BY <1>2, <1>6, OpenNothing
  <2>2. HeldByPc'
    BY <1>4, <1>6, <2>1 DEF HeldByPc, HoldsFile
  <2>3. QED
    BY <1>1, <1>4, <1>6, <2>1, <2>2, GoOnKeepsSInv
<1>7. QED
  BY <1>5, <1>6 DEF OpenOutput

(* The inputs are opened again over the output.                             *)
LEMMA OpenTransferKeepsSInv ==
  ASSUME SInv, OpenTransfer
  PROVE  SInv'
<1>1. pc = "transfer" /\ pc \notin {"idle", "crashed"} /\ pc \in HoldsFile /\ shorts' = shorts
  BY DEF OpenTransfer, HoldsFile
<1>2. Holds("file") /\ ~ Holds("in_file") /\ TableOK /\ HeldOnTop /\ "in_file" \in Client
  BY <1>1, CallUnderWay, ClientAssumption
<1>3. CASE Opened("in_file") /\ Goto("transfer_opened", k)
  <2>1. pc' = "transfer_opened" /\ k' = k /\ inputs' = inputs /\ calls' = calls
    BY <1>3 DEF Goto
  <2>2. /\ TableOK' /\ HeldOnTop' /\ Lost' = Lost
        /\ Holds("file")' /\ Holds("in_file")' /\ Below' = Below
    BY <1>2, <1>3, OpenInFile
  <2>3. HeldByPc' /\ pc' \in Label /\ pc' # "crashed"
    BY <2>1, <2>2 DEF HeldByPc, HoldsFile, Label, WritePhase
  <2>4. Passed' = Passed
    BY <1>1, <2>1 DEF Passed, CoffPhase, ElfPhase
  <2>5. ParsedAreGood' /\ ShortsAreNotGood' /\ k' \in 1 .. Len(inputs)
    BY <1>1, <2>1, CallUnderWay DEF ParsedAreGood, ShortsAreNotGood, ParsePhase, WritePhase
  <2>6. /\ shorts' \in Nat /\ Below' <= shorts' + 1 /\ shorts' + Passed <= shorts + Passed'
        /\ calls = 1 => Below' <= Passed'
    <3>1. Below' = Below /\ shorts' = shorts /\ pc \notin {"idle", "crashed"}
      BY <1>1, <2>2
    <3>2. QED
      BY <2>4, <3>1, CallNumbers
  <2>7. QED
    BY <1>1, <2>1, <2>2, <2>3, <2>5, <2>6, GoOnKeepsSInv
<1>4. CASE NotOpened("in_file", TRUE) /\ Goto("crashed", k)
  BY <1>1, <1>2, <1>4, OpenNothing, CrashKeepsSInv
<1>5. QED
  BY <1>3, <1>4 DEF OpenTransfer

LEMMA CloseTransferKeepsSInv ==
  ASSUME SInv, CloseTransfer
  PROVE  SInv'
<1>1. /\ pc = "transfer_opened" /\ pc \notin {"idle", "crashed"} /\ shorts' = shorts
      /\ fs__close("in_file") /\ NextInput("transfer", "finish")
  BY DEF CloseTransfer
<1>2. /\ TableOK' /\ HeldOnTop' /\ Lost' = Lost
      /\ Holds("file")' /\ ~ Holds("in_file")' /\ Below' = Below
  BY <1>1, CallUnderWay, CloseInFile
<1>3. /\ pc' \in {"transfer", "finish"} /\ k' \in 1 .. Len(inputs)
      /\ inputs' = inputs /\ calls' = calls
  BY <1>1, NextInputGoes DEF Goto
<1>4. /\ pc' \in Label /\ pc' # "crashed" /\ pc' \in HoldsFile /\ pc' # "transfer_opened"
      /\ pc' \notin CoffPhase \union ElfPhase \union ParsePhase
  BY <1>3 DEF Label, HoldsFile, WritePhase, CoffPhase, ElfPhase, ParsePhase
<1>5. HeldByPc'
  BY <1>2, <1>4 DEF HeldByPc
<1>6. Passed' = Passed
  BY <1>1, <1>3, <1>4 DEF Passed, CoffPhase, ElfPhase
<1>7. ParsedAreGood' /\ ShortsAreNotGood'
  BY <1>1, <1>3, <1>4, CallUnderWay DEF ParsedAreGood, ShortsAreNotGood, WritePhase
<1>8. /\ shorts' \in Nat /\ Below' <= shorts' + 1 /\ shorts' + Passed <= shorts + Passed'
      /\ calls = 1 => Below' <= Passed'
  <2>1. Below' = Below /\ shorts' = shorts /\ pc \notin {"idle", "crashed"}
    BY <1>1, <1>2
  <2>2. QED
    BY <1>6, <2>1, CallNumbers
<1>9. QED
  BY <1>1, <1>2, <1>3, <1>4, <1>5, <1>7, <1>8, GoOnKeepsSInv

-------------------------------------------------------------------------------
(* What the calls of a process can have counted, at most.                   *)
LEMMA PerCall ==
  ASSUME NEW w \in Nat, NEW n \in Nat \ {0}, NEW m \in Nat, n <= m
  PROVE  /\ w * (n - 1) \in Nat /\ w * n = w * (n - 1) + w /\ w * n \in Nat
         /\ w * n <= w * m
OBVIOUS

(* A call begins with the table as the calls before it left it.             *)
LEMMA CallKeepsSInv ==
  ASSUME SInv, pc = "idle", calls < MaxCalls, inputs' \in Inputs,
         pc' \in {"coff", "parse_to_load"}, k' = 1, calls' = calls + 1, UNCHANGED << vars, shorts >>
  PROVE  SInv'
<1>1. /\ calls \in Nat /\ shorts \in Nat /\ Below \in Nat
      /\ ~ Holds("file") /\ ~ Holds("in_file")
  BY BoundsAssumption DEF SInv, ControlOK, HeldByPc, HeldOnTop, HoldsFile
<1>2. /\ TableOK' /\ HeldOnTop' /\ Below' = Below /\ Lost' = Lost
      /\ ~ Holds("file")' /\ ~ Holds("in_file")' /\ shorts' = shorts
  BY <1>1 DEF vars, SInv, TableOK, TypeOK, SlotsFilled, SlotStreamsAreOpen, HeldSlotsAreOwn, Holds,
     HeldOnTop, Below, Lost
<1>3. Len(inputs)' \in Nat \ {0}
  BY BoundsAssumption DEF Inputs
<1>4. ControlOK'
  <2>1. calls' \in 0 .. MaxCalls /\ calls' # 0
    BY <1>1, BoundsAssumption
  <2>2. k' \in 1 .. MaxInputs /\ k' \in 1 .. Len(inputs)'
    BY <1>3, BoundsAssumption
  <2>3. pc' \in Label
    BY DEF Label, CoffPhase, LoadPhase
  <2>4. QED
    BY <1>1, <1>2, <2>1, <2>2, <2>3 DEF ControlOK
<1>5. HeldByPc' /\ ParsedAreGood'
  BY <1>2 DEF HeldByPc, HoldsFile, ParsedAreGood, ParsePhase, WritePhase
<1>6. LeftAreCounted'
  BY <1>2 DEF SInv, LeftAreCounted
<1>7. Passed' \in Nat
  <2>1. pc' \notin ElfPhase
    BY DEF ElfPhase
  <2>2. Passed' = 0 \/ Passed' = 2 * Len(inputs)'
    BY <2>1 DEF Passed
  <2>3. \A n \in Nat \ {0} : 2 * n \in Nat
    OBVIOUS
  <2>4. QED
    BY <1>3, <2>2, <2>3
<1>8. CASE calls = 0
  <2>1. shorts = 0 /\ handles_len = 0 /\ Lost = {} /\ Below = 0 /\ calls' = 1
    BY <1>1, <1>8 DEF SInv, ControlOK, Below
  <2>2. ShortsAreCounted' /\ ShortsAreNotGood'
    <3>1. (2 * MaxInputs) * (1 - 1) = 0
      BY BoundsAssumption
    <3>2. QED
      BY <1>2, <1>7, <2>1, <3>1 DEF ShortsAreCounted, ShortsAreNotGood
  <2>3. FirstLeavesFew'
    <3>1. Below' <= Passed' /\ Lost' = {} /\ pc' # "crashed"
      BY <1>2, <1>7, <2>1
    <3>2. QED
      BY <3>1 DEF FirstLeavesFew
  <2>4. QED
    BY <1>2, <1>4, <1>5, <1>6, <2>2, <2>3 DEF SInv
<1>9. CASE calls # 0
  <2>1. calls' # 1
    BY <1>1, <1>9
  <2>2. ShortsAreNotGood' /\ FirstLeavesFew'
    BY <2>1 DEF ShortsAreNotGood, FirstLeavesFew
  <2>3. shorts <= (2 * MaxInputs) * calls
    <3>1. shorts <= (2 * MaxInputs) * (calls - 1) + 2 * Len(inputs)
      BY <1>1, <1>9 DEF SInv, ShortsAreCounted, Passed, CoffPhase, ElfPhase
    <3>2. Len(inputs) \in Nat /\ Len(inputs) <= MaxInputs
      <4>1. inputs \in Inputs
        BY <1>1, <1>9 DEF SInv, ControlOK
      <4>2. QED
        BY <4>1, BoundsAssumption DEF Inputs
    <3>3. PICK w \in Nat : w = 2 * MaxInputs
      BY BoundsAssumption
    <3>4. 2 * Len(inputs) \in Nat /\ 2 * Len(inputs) <= w
      BY <3>2, <3>3, BoundsAssumption
    <3>5. w * (calls - 1) \in Nat /\ w * calls = w * (calls - 1) + w
      BY <1>1, <1>9, <3>3, PerCall
    <3>6. \A a, b, c, d \in Nat : a <= b + c /\ c <= d => a <= b + d
      OBVIOUS
    <3>7. QED
      BY <1>1, <3>1, <3>3, <3>4, <3>5, <3>6
  <2>4. ShortsAreCounted'
    <3>1. PICK bound \in Nat : bound = (2 * MaxInputs) * calls
      BY <1>1, BoundsAssumption
    <3>2. \A a, b, c \in Nat : a <= b => a <= b + c
      OBVIOUS
    <3>3. shorts <= bound + Passed'
      BY <1>1, <1>7, <2>3, <3>1, <3>2
    <3>4. calls' - 1 = calls
      BY <1>1
    <3>5. QED
      BY <1>2, <3>1, <3>3, <3>4 DEF ShortsAreCounted
  <2>5. QED
    BY <1>2, <1>4, <1>5, <1>6, <2>2, <2>4 DEF SInv
<1>10. QED
  BY <1>8, <1>9

LEMMA InitSInv == SessionInit => SInv
<1> SUFFICES ASSUME SessionInit PROVE SInv
  OBVIOUS
<1>1. /\ pc = "idle" /\ inputs = << >> /\ k = 1 /\ calls = 0 /\ shorts = 0
      /\ handles = [h \in Slot |-> NULL] /\ handles_len = 0 /\ streams = {}
      /\ held = [c \in Client |-> FS_INVALID_HANDLE] /\ opened = [c \in Client |-> NULL]
  BY DEF SessionInit, Init
<1>2. ~ Holds("file") /\ ~ Holds("in_file")
  BY <1>1, ClientAssumption DEF Holds
<1>3. TableOK
  BY <1>1, CapacityAssumption DEF TableOK, TypeOK, SlotsFilled, SlotStreamsAreOpen, HeldSlotsAreOwn,
     Holds, Slot
<1>4. HeldOnTop /\ HeldByPc
  BY <1>1, <1>2 DEF HeldOnTop, HeldByPc, HoldsFile, Below
<1>5. ControlOK
  BY <1>1, BoundsAssumption DEF ControlOK, Label, Lost
<1>6. LeftAreCounted /\ ShortsAreCounted /\ ParsedAreGood /\ ShortsAreNotGood /\ FirstLeavesFew
  BY <1>1, <1>2 DEF LeftAreCounted, ShortsAreCounted, ParsedAreGood, ShortsAreNotGood,
     FirstLeavesFew, Below, ParsePhase, WritePhase
<1>7. QED
  BY <1>3, <1>4, <1>5, <1>6 DEF SInv

(* The inductive invariant holds however many calls are made, with whatever *)
(* inputs, and however they end.                                            *)
THEOREM SessionInvariance == SessionSpec => []SInv
<1>1. SInv /\ [SessionNext]_<< vars, control >> => SInv'
  <2> SUFFICES ASSUME SInv, [SessionNext]_<< vars, control >>
               PROVE  SInv'
    OBVIOUS
  <2>1. CASE Combine
    BY <2>1, CallKeepsSInv DEF Combine
  <2>2. CASE Load
    <3>1. [1 .. 1 -> Kind] \subseteq Inputs
      <4>1. 1 \in 1 .. MaxInputs
        BY BoundsAssumption
      <4>2. \A n \in 1 .. MaxInputs : \A f \in [1 .. n -> Kind] : f \in Inputs
        BY Zenon DEF Inputs
      <4>3. QED
        BY <4>1, <4>2, Zenon
    <3>2. QED
      BY <2>2, <3>1, CallKeepsSInv DEF Load
  <2>3. CASE OpenInput("coff", Exists, "coff_opened") \/ OpenInput("elf", Exists, "elf_opened")
    BY <2>3, OpenInputKeepsSInv DEF OpenStep
  <2>4. CASE OpenInput("parse", TRUE, "parse_opened")
             \/ OpenInput("parse_to_load", Exists, "load_opened")
    BY <2>4, OpenInputKeepsSInv DEF OpenStep
  <2>5. CASE OpenInput("load", TRUE, "loaded") \/ OpenConverted \/ OpenInEntry
    BY <2>5, OpenInputKeepsSInv DEF OpenStep, OpenConverted, OpenInEntry
  <2>6. CASE ConvertFromCoff \/ ConvertFromElf \/ CloseConverted \/ ParseInput
    BY <2>6, ConvertFromCoffKeepsSInv, ConvertFromElfKeepsSInv, CloseConvertedKeepsSInv,
       ParseInputKeepsSInv
  <2>7. CASE OpenOutput \/ OpenTransfer \/ CloseTransfer
    BY <2>7, OpenOutputKeepsSInv, OpenTransferKeepsSInv, CloseTransferKeepsSInv
  <2>8. CASE CloseOutput \/ CloseLoaded \/ CloseInEntry
    BY <2>8, LastStepsKeepSInv DEF CloseOutput, CloseLoaded, CloseInEntry
  <2>9. CASE ParseToLoad
    BY <2>9, LastStepsKeepSInv DEF ParseToLoad
  <2>10. CASE UNCHANGED << vars, control >>
    <3>1. /\ handles' = handles /\ handles_len' = handles_len /\ streams' = streams /\ held' = held
          /\ opened' = opened /\ pc' = pc /\ inputs' = inputs /\ k' = k /\ calls' = calls
          /\ shorts' = shorts
      BY <2>10 DEF vars, control
    <3>2. TableOK' /\ HeldOnTop' /\ Below' = Below /\ Lost' = Lost
      BY <3>1 DEF SInv, TableOK, TypeOK, SlotsFilled, SlotStreamsAreOpen, HeldSlotsAreOwn, Holds,
         HeldOnTop, Below, Lost
    <3>3. ControlOK' /\ HeldByPc' /\ LeftAreCounted'
      BY <3>1, <3>2 DEF SInv, ControlOK, HeldByPc, Holds, LeftAreCounted
    <3>4. ShortsAreCounted' /\ ParsedAreGood' /\ ShortsAreNotGood' /\ FirstLeavesFew'
      BY <3>1, <3>2 DEF SInv, ShortsAreCounted, ParsedAreGood, ShortsAreNotGood, FirstLeavesFew,
         Passed
    <3>5. QED
      BY <3>2, <3>3, <3>4 DEF SInv
  <2>11. QED
    BY <2>1, <2>2, <2>3, <2>4, <2>5, <2>6, <2>7, <2>8, <2>9, <2>10 DEF SessionNext, Step
<1>2. QED
  BY <1>1, InitSInv, PTL DEF SessionSpec

-------------------------------------------------------------------------------
(* What is forgotten lies below what is held. *)
LEMMA ForgottenAreBelow ==
  ASSUME SInv
  PROVE  Forgotten = 0 .. Below - 1
<1>1. /\ handles_len \in Nat /\ handles_len <= MAX_FILE_HANDLES /\ MAX_FILE_HANDLES \in Nat
      /\ held["file"] \in Int /\ held["in_file"] \in Int /\ Below \in Nat
      /\ Client = {"file", "in_file"}
  BY HeldTyped, ClientAssumption, CapacityAssumption DEF SInv, HeldOnTop
<1>2. \A h \in Slot : h \in Forgotten <=> h < handles_len /\ held["file"] # h /\ held["in_file"] # h
  BY <1>1 DEF SInv, TableOK, SlotsFilled, Forgotten
<1>3. \A h \in Slot : h \in Nat /\ h < MAX_FILE_HANDLES
  BY <1>1 DEF Slot
<1>4. \A h \in Slot : h \in Forgotten <=> h < Below
  <2>1. CASE Holds("in_file")
    <3>1. /\ held["file"] = handles_len - 2 /\ held["in_file"] = handles_len - 1
          /\ Below = handles_len - 2
      BY <2>1 DEF SInv, HeldOnTop, Below
    <3>2. QED
      BY <1>1, <1>2, <1>3, <3>1
  <2>2. CASE ~ Holds("in_file") /\ Holds("file")
    <3>1. held["file"] = handles_len - 1 /\ held["in_file"] = -1 /\ Below = handles_len - 1
      BY <2>2 DEF SInv, HeldOnTop, Below, Holds, FS_INVALID_HANDLE
    <3>2. QED
      BY <1>1, <1>2, <1>3, <3>1
  <2>3. CASE ~ Holds("in_file") /\ ~ Holds("file")
    <3>1. held["file"] = -1 /\ held["in_file"] = -1 /\ Below = handles_len
      BY <2>3 DEF SInv, HeldOnTop, Below, Holds, FS_INVALID_HANDLE
    <3>2. QED
      BY <1>1, <1>2, <1>3, <3>1
  <2>4. QED
    BY <2>1, <2>2, <2>3
<1>5. Below <= MAX_FILE_HANDLES
  BY <1>1 DEF Below
<1>6. Forgotten \subseteq Slot
  BY DEF Forgotten
<1>7. \A h : h \in 0 .. Below - 1 <=> h \in Slot /\ h < Below
  BY <1>1, <1>5 DEF Slot
<1>8. QED
  BY <1>4, <1>6, <1>7

(* However many calls succeed, fail or are refused, they leave open no more *)
(* than the files that were too short to be object files and the one whose  *)
(* handle was 0 (format.c:233 and 547, 255, 568, 121).                      *)
THEOREM LeftOpen == SessionSpec => []LeftOpenAreShortOrFirst
<1>1. SInv => LeftOpenAreShortOrFirst
  <2> SUFFICES ASSUME SInv
               PROVE  Cardinality(Forgotten \ {0}) <= shorts
    BY DEF LeftOpenAreShortOrFirst
  <2>1. Below \in Nat /\ shorts \in Nat /\ Below <= shorts + 1
    BY DEF SInv, HeldOnTop, ControlOK, LeftAreCounted
  <2>2. Forgotten \ {0} = 1 .. Below - 1
    BY <2>1, ForgottenAreBelow
  <2>3. Cardinality(1 .. Below - 1) = IF 1 > Below - 1 THEN 0 ELSE (Below - 1) - 1 + 1
    BY <2>1, FS_Interval
  <2>4. \A n, m \in Nat :
          n <= m + 1 => (IF 1 > n - 1 THEN 0 ELSE (n - 1) - 1 + 1) <= m
    OBVIOUS
  <2>5. Cardinality(1 .. Below - 1) <= shorts
    <3> DEFINE b == Below
    <3> HIDE DEF b
    <3>1. (IF 1 > b - 1 THEN 0 ELSE (b - 1) - 1 + 1) <= shorts
      BY <2>1, <2>4 DEF b
    <3>2. QED
      BY <2>3, <3>1 DEF b
  <2>6. QED
    BY <2>2, <2>5
<1>2. QED
  BY <1>1, SessionInvariance, PTL

(* While data is copied both handles reach the streams that were opened for *)
(* them, and the first call of a process has a slot for whatever it opens   *)
(* (platform.c:71, format.c:1108-1226).                                     *)
THEOREM OwnHandles == SessionSpec => []CallsGetTheirHandles
<1>1. SInv => SessionTypeOK
  <2> SUFFICES ASSUME SInv
               PROVE  SessionTypeOK
    OBVIOUS
  <2>1. /\ calls \in 0 .. MaxCalls /\ shorts \in Nat /\ k \in 1 .. MaxInputs
        /\ inputs \in Inputs \union {<< >>}
    BY BoundsAssumption DEF SInv, ControlOK
  <2>2. pc = "idle" => \A c \in Client : ~ Holds(c)
    BY ClientAssumption DEF SInv, HeldByPc, HoldsFile
  <2>3. PICK w \in Nat : w = 2 * MaxInputs
    BY BoundsAssumption
  <2>4. shorts <= w * MaxCalls
    <3>1. CASE calls = 0
      <4>1. shorts = 0 /\ w * MaxCalls \in Nat
        BY <2>3, <3>1, BoundsAssumption DEF SInv, ControlOK
      <4>2. QED
        BY <4>1
    <3>2. CASE calls # 0
      <4>1. calls \in Nat \ {0} /\ calls <= MaxCalls /\ MaxCalls \in Nat
        BY <2>1, <3>2, BoundsAssumption
      <4>2. w * (calls - 1) \in Nat /\ w * calls = w * (calls - 1) + w /\ w * calls \in Nat
            /\ w * calls <= w * MaxCalls
        BY <2>3, <4>1, PerCall
      <4>3. inputs \in Inputs /\ k \in 1 .. Len(inputs)
        BY <4>1 DEF SInv, ControlOK
      <4>4. Len(inputs) \in Nat /\ Len(inputs) <= MaxInputs
        BY <4>3, BoundsAssumption DEF Inputs
      <4>5. Passed \in Nat /\ Passed <= w
        BY <2>3, <4>3, <4>4, BoundsAssumption DEF Passed
      <4>6. shorts <= w * (calls - 1) + Passed
        BY <2>3, <4>1 DEF SInv, ShortsAreCounted
      <4>7. \A a, b, c, d \in Nat : a <= b + c /\ c <= d => a <= b + d
        OBVIOUS
      <4>8. shorts <= w * calls
        BY <2>1, <2>3, <4>2, <4>5, <4>6, <4>7
      <4>9. w * MaxCalls \in Nat
        BY <2>3, <4>1
      <4>10. QED
        BY <2>1, <4>2, <4>8, <4>9
    <3>3. QED
      BY <3>1, <3>2
  <2>5. shorts \in 0 .. 2 * MaxInputs * MaxCalls
    BY <2>1, <2>3, <2>4, BoundsAssumption
  <2>6. QED
    BY <2>1, <2>2, <2>5 DEF SInv, TableOK, SessionTypeOK
<1>2. SInv => CopyReachesBoth
  <2> SUFFICES ASSUME SInv, pc = "transfer_opened"
               PROVE  /\ handles[held["file"]] = opened["file"]
                      /\ handles[held["in_file"]] = opened["in_file"]
                      /\ opened["file"] # opened["in_file"]
                      /\ {held["file"], held["in_file"]} \cap Forgotten = {}
    BY DEF CopyReachesBoth
  <2>1. Holds("file") /\ Holds("in_file") /\ TableOK /\ HeldOnTop
    BY CallUnderWay DEF HoldsFile
  <2>2. /\ "file" \in Client /\ "in_file" \in Client
        /\ held["file"] \in Slot /\ held["in_file"] \in Slot
    BY <2>1, ClientAssumption DEF TableOK, TypeOK, Holds, FS_INVALID_HANDLE
  <2>3. /\ handles[held["file"]] = opened["file"] /\ opened["file"] # NULL
        /\ handles[held["in_file"]] = opened["in_file"]
    BY <2>1, <2>2 DEF TableOK, HeldSlotsAreOwn
  <2>4. held["file"] # held["in_file"]
    BY <2>1, HeldTyped DEF HeldOnTop, Below
  <2>5. opened["file"] # opened["in_file"]
    BY <2>1, <2>2, <2>3, <2>4 DEF TableOK, SlotStreamsAreOpen
  <2>6. {held["file"], held["in_file"]} \cap Forgotten = {}
    BY <2>2 DEF Forgotten
  <2>7. QED
    BY <2>3, <2>5, <2>6
<1>3. SInv => FirstCallHasRoom
  <2> SUFFICES ASSUME SInv, calls = 1, 2 * Len(inputs) + 2 <= MAX_FILE_HANDLES
               PROVE  Lost = {} /\ handles_len < MAX_FILE_HANDLES
    BY DEF FirstCallHasRoom
  <2>1. QED
    BY RoomInFirst DEF SInv, FirstLeavesFew
<1>4. QED
  BY <1>1, <1>2, <1>3, SessionInvariance, PTL DEF CallsGetTheirHandles

===============================================================================
