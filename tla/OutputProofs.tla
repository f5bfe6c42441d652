----------------------------- MODULE OutputProofs -----------------------------
(***************************************************************************)
(* Proofs about Output, for any inputs, any sizes, alignments and counts,  *)
(* and any size of the transfer buffer.                                    *)
(***************************************************************************)
EXTENDS Output, TLAPS

-------------------------------------------------------------------------------
(* Where everything lies: what is written ends at next_offset, and a        *)
(* section's relocations come after its data.                               *)
Ordered(ref) ==
  /\ table_size <= data_offset[ref]
  /\ data_offset[ref] + SectionAt(ref).data_size <= next_offset
  /\ SectionAt(ref).relocation_count > 0 =>
       /\ data_offset[ref] + SectionAt(ref).data_size <= relocation_offset[ref]
       /\ relocation_offset[ref] + RelocationsSize(ref) <= next_offset

Layout ==
  /\ table_size <= next_offset
  /\ \A ref \in Written : Ordered(ref)

(* The data has its aligned place, and the loop of transfer_bytes has       *)
(* copied nothing yet or, if one round is enough, everything.               *)
CurrentIsCopied ==
  \A i \in 0 .. Current.data_size - 1 :
    /\ next_offset + i \in DOMAIN output
    /\ output[next_offset + i] = DataByte(bi, Current.data_offset + i)

Transferring ==
  pc = "transfer" =>
    /\ Current.alignment # 0 /\ next_offset % Current.alignment = 0
    /\ remaining <= Current.data_size
    /\ ~ lost /\ own = 0 /\ Current.data_size <= TRANSFER_BUFFER_SIZE =>
         remaining = Current.data_size \/ (remaining = 0 /\ CurrentIsCopied)

(* Nothing has been written past the data being copied. *)
OutputEnds ==
  /\ pc \in {"input", "section"} => \A p \in DOMAIN output : p < next_offset
  /\ pc = "transfer" => \A p \in DOMAIN output : p < DataEnd

IInv ==
  /\ TypeOK
  /\ Layout
  /\ PlacesAreDisjoint
  /\ PlacesAreAligned
  /\ Transferring
  /\ OutputEnds
  /\ SmallSectionsAreCopied
  /\ RelocationsAreStored
  /\ WithinTotalSize

-------------------------------------------------------------------------------
LEMMA RefsAre ==
  /\ \A b \in DOMAIN inputs : \A k \in DOMAIN inputs[b].sections : <<b, k>> \in Refs
  /\ \A ref \in Refs : /\ ref[1] \in DOMAIN inputs
                       /\ ref[2] \in DOMAIN inputs[ref[1]].sections
                       /\ ref = <<ref[1], ref[2]>>
BY DEF Refs

LEMMA FileTyped ==
  ASSUME TypeOK, NEW b \in DOMAIN inputs
  PROVE  /\ b \in Nat \ {0} /\ b <= Len(inputs)
         /\ inputs[b].sections \in Seq(InputSection)
         /\ Len(inputs[b].sections) \in Nat
         /\ DOMAIN inputs[b].sections = 1 .. Len(inputs[b].sections)
<1>1. inputs[b] \in InputFile
  BY DEF TypeOK
<1>2. inputs[b].sections \in Seq(InputSection)
  BY <1>1 DEF InputFile
<1>3. b \in Nat \ {0} /\ b <= Len(inputs)
  BY DEF TypeOK
<1>4. QED
  BY <1>2, <1>3

LEMMA RefTyped ==
  ASSUME TypeOK, NEW ref \in Refs
  PROVE  /\ ref[1] \in Nat \ {0} /\ ref[2] \in Nat \ {0}
         /\ SectionAt(ref).data_size \in Nat
         /\ SectionAt(ref).data_offset \in Nat
         /\ SectionAt(ref).alignment \in Nat
         /\ SectionAt(ref).relocation_count \in Nat
         /\ RelocationsSize(ref) \in Nat
         /\ data_offset[ref] \in Nat
         /\ relocation_offset[ref] \in Nat
<1>1. ref[1] \in DOMAIN inputs /\ ref[2] \in DOMAIN inputs[ref[1]].sections
  BY RefsAre
<1>2. /\ inputs[ref[1]].sections \in Seq(InputSection)
      /\ ref[1] \in Nat \ {0} /\ ref[2] \in Nat \ {0}
  BY <1>1, FileTyped
<1>3. SectionAt(ref) \in InputSection
  BY <1>1, <1>2 DEF SectionAt
<1>4. /\ SectionAt(ref).data_size \in Nat
      /\ SectionAt(ref).data_offset \in Nat
      /\ SectionAt(ref).alignment \in Nat
      /\ SectionAt(ref).relocation_count \in Nat
  BY <1>3 DEF InputSection
<1>5. RelocationsSize(ref) \in Nat
  BY <1>4 DEF RelocationsSize, SizeOfRelocation
<1>6. data_offset[ref] \in Nat /\ relocation_offset[ref] \in Nat
  BY DEF TypeOK
<1>7. QED
  BY <1>2, <1>4, <1>5, <1>6

(* Padding only ever moves an offset up. *)
LEMMA AlignUpBounds ==
  ASSUME NEW offset \in Nat, NEW alignment \in Nat \ {0}
  PROVE  AlignUp(offset, alignment) \in Nat /\ AlignUp(offset, alignment) >= offset
<1>1. (alignment - (offset % alignment)) % alignment \in Nat
  OBVIOUS
<1>2. QED
  BY <1>1 DEF AlignUp

(* What padding is for. *)
LEMMA MultipleIsAligned ==
  ASSUME NEW alignment \in Nat \ {0}, NEW q \in Nat
  PROVE  (q * alignment) % alignment = 0
OBVIOUS

LEMMA AlignUpAligns ==
  ASSUME NEW offset \in Nat, NEW alignment \in Nat \ {0}
  PROVE  AlignUp(offset, alignment) % alignment = 0
<1> DEFINE q == offset \div alignment
           r == offset % alignment
<1>1. offset = alignment * q + r /\ r \in 0 .. alignment - 1 /\ q \in Nat
  OBVIOUS
<1> HIDE DEF q, r
<1>2. CASE r = 0
  <2>1. (alignment - r) % alignment = 0
    BY <1>2
  <2>2. AlignUp(offset, alignment) = q * alignment
    BY <1>1, <1>2, <2>1 DEF AlignUp, r
  <2>3. QED
    BY <1>1, <2>2, MultipleIsAligned
<1>3. CASE r # 0
  <2>1. (alignment - r) % alignment = alignment - r
    BY <1>1, <1>3
  <2>2. AlignUp(offset, alignment) = (q + 1) * alignment
    BY <1>1, <2>1 DEF AlignUp, r
  <2>3. QED
    BY <1>1, <2>2, MultipleIsAligned
<1>4. QED
  BY <1>2, <1>3

-------------------------------------------------------------------------------
LEMMA InitIInv == Init => IInv
<1> SUFFICES ASSUME Init PROVE IInv
  OBVIOUS
<1>1. TypeOK
  <2>1. inputs \in Seq(InputFile)
    BY InputsAssumption DEF Init
  <2>2. Len(inputs) \in Nat
    BY <2>1
  <2>3. data_offset \in [Refs -> Nat] /\ relocation_offset \in [Refs -> Nat]
    <3> SUFFICES ASSUME NEW ref \in Refs
                 PROVE  /\ SectionAt(ref).data_offset \in Nat
                        /\ SectionAt(ref).relocation_offset \in Nat
      BY DEF Init
    <3>1. ref[1] \in DOMAIN inputs /\ ref[2] \in DOMAIN inputs[ref[1]].sections
      BY RefsAre
    <3>2. inputs[ref[1]] \in InputFile
      BY <2>1, <3>1
    <3>3. inputs[ref[1]].sections \in Seq(InputSection)
      BY <3>2 DEF InputFile
    <3>4. SectionAt(ref) \in InputSection
      BY <3>1, <3>3 DEF SectionAt
    <3>5. QED
      BY <3>4 DEF InputSection
  <2>4. DOMAIN output = {}
    BY DEF Init
  <2>5. table_size \in Nat
    BY TablesAssumption DEF Init
  <2>6. /\ own \in 0 .. Len(inputs) /\ table_size \in TableSizes
        /\ pc = "input" /\ bi = 1 /\ si = 1 /\ remaining = 0
        /\ next_offset = table_size /\ total_size = 0 /\ lost = FALSE
    BY DEF Init
  <2> HIDE DEF Init
  <2>7. bi \in 1 .. Len(inputs) + 1
    BY <2>2, <2>6
  <2>8. DOMAIN output \subseteq Nat
    BY <2>4
  <2>9. /\ pc \in {"input", "section", "transfer"} \union Terminal
        /\ pc \notin {"section", "transfer"}
        /\ si \in Nat \ {0} /\ remaining \in Nat /\ next_offset \in Nat
        /\ total_size \in Nat
    BY <2>5, <2>6 DEF Terminal
  <2>10. lost \in BOOLEAN
    BY <2>6
  <2>11. QED
    BY <2>1, <2>3, <2>6, <2>7, <2>8, <2>9, <2>10, Zenon DEF TypeOK
<1>2. Written = {}
  BY <1>1, RefTyped DEF Init, Written
<1>3. DOMAIN output = {} /\ table_size \in Nat
  BY TablesAssumption DEF Init
<1>4. QED
  BY <1>1, <1>2, <1>3 DEF Init, IInv, Layout, PlacesAreDisjoint, PlacesAreAligned, Transferring,
     OutputEnds, SmallSectionsAreCopied, RelocationsAreStored, WithinTotalSize
-------------------------------------------------------------------------------
(* A section that is in place keeps its data and its relocations as long as *)
(* nothing is written between the tables and next_offset.                   *)
LEMMA PlaceIsKept ==
  ASSUME IInv, NEW ref \in Written, UNCHANGED given,
         data_offset'[ref] = data_offset[ref],
         relocation_offset'[ref] = relocation_offset[ref],
         \A p \in DOMAIN output :
           table_size <= p /\ p < next_offset => p \in DOMAIN output' /\ output'[p] = output[p]
  PROVE  /\ IsCopied(ref) => IsCopied(ref)'
         /\ IsStored(ref) => IsStored(ref)'
<1>1. ref \in Refs /\ TypeOK /\ Ordered(ref)
  BY DEF Written, IInv, Layout
<1>2. table_size \in Nat /\ next_offset \in Nat
  BY <1>1, TablesAssumption DEF TypeOK
<1>3. SectionAt(ref)' = SectionAt(ref) /\ RelocationsSize(ref)' = RelocationsSize(ref)
  BY DEF given, SectionAt, RelocationsSize
<1>4. ASSUME IsCopied(ref) PROVE IsCopied(ref)'
  <2> SUFFICES ASSUME NEW i \in 0 .. SectionAt(ref).data_size - 1
               PROVE  /\ data_offset[ref] + i \in DOMAIN output'
                      /\ output'[data_offset[ref] + i] =
                           DataByte(ref[1], SectionAt(ref).data_offset + i)
    BY <1>3 DEF IsCopied
  <2>1. /\ data_offset[ref] + i \in DOMAIN output
        /\ output[data_offset[ref] + i] = DataByte(ref[1], SectionAt(ref).data_offset + i)
    BY <1>4 DEF IsCopied
  <2>2. table_size <= data_offset[ref] + i /\ data_offset[ref] + i < next_offset
    BY <1>1, <1>2, RefTyped DEF Ordered
  <2>3. QED
    BY <2>1, <2>2
<1>5. ASSUME IsStored(ref) PROVE IsStored(ref)'
  <2> SUFFICES ASSUME NEW i \in 0 .. RelocationsSize(ref) - 1
               PROVE  /\ relocation_offset[ref] + i \in DOMAIN output'
                      /\ output'[relocation_offset[ref] + i] = RelocationByte(ref, i)
    BY <1>3 DEF IsStored
  <2>1. /\ relocation_offset[ref] + i \in DOMAIN output
        /\ output[relocation_offset[ref] + i] = RelocationByte(ref, i)
    BY <1>5 DEF IsStored
  <2>2. SectionAt(ref).relocation_count > 0
    BY <1>1, RefTyped DEF RelocationsSize, SizeOfRelocation
  <2>3. /\ table_size <= relocation_offset[ref] + i
        /\ relocation_offset[ref] + i < next_offset
    BY <1>1, <1>2, <2>2, RefTyped DEF Ordered
  <2>4. QED
    BY <2>1, <2>3
<1>6. QED
  BY <1>4, <1>5

(* Steps that neither write nor place anything. *)
LEMMA QuietKeepsIInv ==
  ASSUME IInv, TypeOK', Written' = Written, Transferring', OutputEnds', pc' # "done",
         UNCHANGED << given, data_offset, relocation_offset, output, lost >>,
         next_offset' >= next_offset
  PROVE  IInv'
<1>1. /\ \A ref \in Refs : SectionAt(ref)' = SectionAt(ref)
      /\ \A ref \in Refs : RelocationsSize(ref)' = RelocationsSize(ref)
      /\ Written \subseteq Refs
  BY DEF given, SectionAt, RelocationsSize, Written
<1>2. TypeOK /\ table_size \in Nat /\ next_offset \in Nat /\ next_offset' \in Nat
  BY TablesAssumption DEF IInv, TypeOK
<1>3. Layout'
  <2>1. table_size' <= next_offset'
    BY <1>2 DEF IInv, Layout, given
  <2>2. ASSUME NEW ref \in Written PROVE Ordered(ref)'
    <3>1. Ordered(ref)
      BY DEF IInv, Layout
    <3>2. QED
      BY <1>1, <1>2, <3>1, RefTyped DEF Ordered, given
  <2>3. QED
    BY <2>1, <2>2 DEF Layout
<1>4. PlacesAreDisjoint' /\ PlacesAreAligned'
  BY <1>1 DEF IInv, PlacesAreDisjoint, PlacesAreAligned, Place, DataPlace, RelocationPlace, given
<1>5. SmallSectionsAreCopied' /\ RelocationsAreStored'
  BY <1>1 DEF IInv, SmallSectionsAreCopied, RelocationsAreStored, IsCopied, IsStored, given
<1>6. QED
  BY <1>3, <1>4, <1>5 DEF IInv, WithinTotalSize

LEMMA CrashKeepsIInv ==
  ASSUME IInv, Crash
  PROVE  IInv'
<1>1. UNCHANGED << given, bi, si, remaining, offsets, total_size, output, lost >>
  BY DEF Crash
<1>2. pc' = "crashed"
  BY DEF Crash
<1>3. TypeOK'
  BY <1>1, <1>2 DEF IInv, TypeOK, given, offsets, Refs, Terminal
<1>4. Written' = Written
  BY <1>1 DEF Written, given, Refs
<1>5. Transferring' /\ OutputEnds'
  BY <1>2 DEF Transferring, OutputEnds
<1>6. next_offset' >= next_offset
  BY <1>1 DEF offsets, IInv, TypeOK
<1>7. QED
  BY <1>1, <1>2, <1>3, <1>4, <1>5, <1>6, QuietKeepsIInv DEF offsets

LEMMA OpenKeepsIInv ==
  ASSUME IInv, OpenInput
  PROVE  IInv'
<1>1. CASE Crash
  BY <1>1, CrashKeepsIInv
<1>2. CASE ~ Crash
  <2>1. /\ pc = "input" /\ bi \in DOMAIN inputs /\ pc' = "section"
        /\ UNCHANGED << given, bi, si, remaining, offsets, total_size, output, lost >>
    BY <1>2 DEF OpenInput
  <2>2. TypeOK'
    BY <2>1 DEF IInv, TypeOK, given, offsets, Refs
  <2>3. Written' = Written
    BY <2>1 DEF Written, given, Refs
  <2>4. Transferring' /\ OutputEnds'
    BY <2>1 DEF Transferring, OutputEnds, IInv, offsets
  <2>5. next_offset' >= next_offset
    BY <2>1 DEF offsets, IInv, TypeOK
  <2>6. QED
    BY <2>1, <2>2, <2>3, <2>4, <2>5, QuietKeepsIInv DEF offsets
<1>3. QED
  BY <1>1, <1>2

LEMMA CloseKeepsIInv ==
  ASSUME IInv, CloseInput
  PROVE  IInv'
<1>1. /\ pc = "section" /\ si > Len(inputs[bi].sections)
      /\ bi' = bi + 1 /\ si' = 1 /\ pc' = "input"
      /\ UNCHANGED << given, remaining, offsets, total_size, output, lost >>
  BY DEF CloseInput
<1>2. TypeOK /\ bi \in DOMAIN inputs /\ inputs \in Seq(InputFile)
  BY <1>1 DEF IInv, TypeOK
<1>3. /\ DOMAIN inputs = 1 .. Len(inputs) /\ Len(inputs) \in Nat
  BY <1>2
<1>4. bi' \in 1 .. Len(inputs) + 1 /\ si' \in Nat \ {0}
  BY <1>1, <1>2, <1>3
<1>5. TypeOK'
  BY <1>1, <1>2, <1>4 DEF TypeOK, given, offsets, Refs
<1>6. Written' = Written
  <2> SUFFICES ASSUME NEW ref \in Refs
               PROVE  (ref[1] < bi \/ (ref[1] = bi /\ ref[2] < si))
                        <=> (ref[1] < bi + 1 \/ (ref[1] = bi + 1 /\ ref[2] < 1))
    BY <1>1 DEF Written, given, Refs
  <2>1. ref[1] \in DOMAIN inputs /\ ref[2] \in DOMAIN inputs[ref[1]].sections
    BY RefsAre
  <2>2. /\ ref[1] \in Nat \ {0} /\ ref[2] \in Nat \ {0}
        /\ ref[2] <= Len(inputs[ref[1]].sections)
        /\ Len(inputs[ref[1]].sections) \in Nat
    BY <1>2, <2>1, FileTyped
  <2>3. bi \in Nat /\ si \in Nat
    BY <1>2, <1>3 DEF TypeOK
  <2>4. QED
    BY <1>1, <2>2, <2>3
<1>7. Transferring' /\ OutputEnds'
  BY <1>1 DEF Transferring, OutputEnds, IInv, offsets
<1>8. next_offset' >= next_offset
  BY <1>1 DEF offsets, IInv, TypeOK
<1>9. QED
  BY <1>1, <1>5, <1>6, <1>7, <1>8, QuietKeepsIInv DEF offsets
-------------------------------------------------------------------------------
LEMMA PlaceKeepsIInv ==
  ASSUME IInv, PlaceSection
  PROVE  IInv'
<1>1. CASE Crash
  BY <1>1, CrashKeepsIInv
<1>2. CASE ~ Crash
  <2>1. /\ pc = "section" /\ si \in DOMAIN inputs[bi].sections
        /\ Current.alignment # 0
        /\ next_offset' = AlignUp(next_offset, Current.alignment)
        /\ remaining' = Current.data_size
        /\ pc' = "transfer"
        /\ UNCHANGED << given, bi, si, data_offset, relocation_offset,
                        total_size, output, lost >>
    BY <1>2 DEF PlaceSection, PlaceAt
  <2>2. TypeOK /\ bi \in DOMAIN inputs /\ <<bi, si>> \in Refs
    BY <2>1, RefsAre DEF IInv, TypeOK
  <2>3. Current.alignment \in Nat \ {0} /\ Current.data_size \in Nat
    BY <2>1, <2>2, RefTyped DEF Current
  <2>4. next_offset' \in Nat /\ next_offset' >= next_offset
    BY <2>1, <2>2, <2>3, AlignUpBounds DEF TypeOK
  <2>5. TypeOK'
    BY <2>1, <2>2, <2>3, <2>4 DEF TypeOK, given, Refs
  <2>6. Written' = Written
    BY <2>1 DEF Written, given, Refs
  <2>7. Current' = Current
    BY <2>1 DEF Current, SectionAt, given
  <2>8. Transferring'
    <3>1. next_offset' % Current.alignment = 0
      BY <2>1, <2>2, <2>3, AlignUpAligns DEF TypeOK
    <3>2. QED
      BY <2>1, <2>3, <2>7, <3>1 DEF Transferring
  <2>9. OutputEnds'
    <3> SUFFICES ASSUME NEW p \in DOMAIN output PROVE p < next_offset' + Current.data_size
      BY <2>1, <2>7 DEF OutputEnds, DataEnd
    <3>1. p \in Nat /\ next_offset \in Nat /\ p < next_offset
      BY <2>1, <2>2 DEF IInv, TypeOK, OutputEnds
    <3>2. QED
      BY <3>1, <2>3, <2>4
  <2>10. QED
    BY <2>1, <2>4, <2>5, <2>6, <2>8, <2>9, QuietKeepsIInv
<1>3. QED
  BY <1>1, <1>2

LEMMA TransferKeepsIInv ==
  ASSUME IInv, TransferChunk
  PROVE  IInv'
<1>1. CASE Crash
  BY <1>1, CrashKeepsIInv
<1>2. CASE ~ Crash
  <2> DEFINE Copied == [i \in 0 .. Chunk - 1 |-> ReadByte(bi, Current.data_offset + i)]
  <2>1. /\ pc = "transfer" /\ remaining > 0
        /\ Write(next_offset, Chunk, Copied)
        /\ remaining' = remaining - Chunk
        /\ UNCHANGED << given, pc, bi, si, offsets, total_size >>
    BY <1>2 DEF TransferChunk, Transfer
  <2>2. TypeOK /\ <<bi, si>> \in Refs /\ table_size \in Nat /\ next_offset \in Nat
    BY <2>1, RefsAre, TablesAssumption DEF IInv, TypeOK
  <2>3. Current.data_size \in Nat /\ Current.data_offset \in Nat
    BY <2>2, RefTyped DEF Current
  <2>4. remaining \in Nat /\ remaining <= Current.data_size
    BY <2>1, <2>2 DEF TypeOK, IInv, Transferring
  <2>5. /\ Chunk \in Nat /\ Chunk <= remaining
        /\ remaining <= TRANSFER_BUFFER_SIZE => Chunk = remaining
    BY <2>4, BufferAssumption DEF Chunk
  <2>6. Written' = Written /\ Current' = Current /\ DataEnd' = DataEnd
    BY <2>1 DEF Written, given, Refs, Current, SectionAt, DataEnd, offsets
  <2>7. /\ DOMAIN output' \subseteq DOMAIN output \union (next_offset .. next_offset + Chunk - 1)
        /\ lost' \in BOOLEAN
        /\ ~ lost' => ~ lost
        /\ \A p \in DOMAIN output : p < next_offset =>
              p \in DOMAIN output' /\ output'[p] = output[p]
        /\ ~ lost' => \A p \in next_offset .. next_offset + Chunk - 1 :
              p \in DOMAIN output' /\ output'[p] = Copied[p - next_offset]
    <3>1. CASE output' = [p \in DOMAIN output \union (next_offset .. next_offset + Chunk - 1) |->
                            IF p \in next_offset .. next_offset + Chunk - 1
                            THEN Copied[p - next_offset] ELSE output[p]]
               /\ UNCHANGED lost
      <4> HIDE DEF Copied
      <4>1. \A p \in DOMAIN output : p \in Nat
        BY <2>2 DEF TypeOK
      <4>2. lost \in BOOLEAN
        BY <2>2 DEF TypeOK
      <4>3. QED
        BY <3>1, <4>1, <4>2, <2>2, <2>5
    <3>2. CASE lost' = TRUE /\ UNCHANGED output
      BY <3>2
    <3>3. QED
      BY <2>1, <3>1, <3>2 DEF Write
  <2>8. TypeOK'
    <3>1. DOMAIN output' \subseteq Nat
      BY <2>2, <2>5, <2>7 DEF TypeOK
    <3>2. remaining' \in Nat
      BY <2>1, <2>4, <2>5
    <3>3. QED
      BY <2>1, <2>2, <2>7, <3>1, <3>2 DEF TypeOK, given, offsets, Refs
  <2>9. Layout'
    BY <2>1, <2>6 DEF IInv, Layout, Ordered, given, offsets, SectionAt, RelocationsSize
  <2>10. PlacesAreDisjoint' /\ PlacesAreAligned'
    BY ZenonT(60), <2>1, <2>6 DEF IInv, PlacesAreDisjoint, PlacesAreAligned, Place, DataPlace,
       RelocationPlace, given, offsets, SectionAt, RelocationsSize
  <2>11. Transferring'
    <3>1. remaining' <= Current'.data_size
      BY <2>1, <2>3, <2>4, <2>5, <2>6
    <3>2. ASSUME ~ lost', own' = 0, Current'.data_size <= TRANSFER_BUFFER_SIZE
          PROVE  remaining' = 0 /\ CurrentIsCopied'
      <4>1. own = 0 /\ Current.data_size <= TRANSFER_BUFFER_SIZE /\ ~ lost
        BY <2>1, <2>6, <2>7, <3>2 DEF given
      <4>2. remaining = Current.data_size
        BY <2>1, <4>1 DEF IInv, Transferring
      <4>3. Chunk = Current.data_size
        BY <2>5, <4>1, <4>2
      <4>4. bi # own
        BY <2>2, <4>1 DEF TypeOK
      <4>5. ASSUME NEW i \in 0 .. Current.data_size - 1
            PROVE  /\ next_offset + i \in DOMAIN output'
                   /\ output'[next_offset + i] = DataByte(bi, Current.data_offset + i)
        <5>1. /\ next_offset + i \in next_offset .. next_offset + Chunk - 1
              /\ (next_offset + i) - next_offset = i
          BY <2>2, <2>3, <4>3
        <5>2. /\ next_offset + i \in DOMAIN output'
              /\ output'[next_offset + i] = Copied[(next_offset + i) - next_offset]
          BY <2>7, <3>2, <5>1
        <5>3. QED
          BY <2>3, <4>3, <5>1, <5>2, <4>4 DEF ReadByte
      <4>6. CurrentIsCopied'
        BY <2>1, <2>6, <4>5 DEF CurrentIsCopied, offsets
      <4>7. QED
        BY <2>1, <2>4, <4>2, <4>3, <4>6
    <3>3. Current'.alignment # 0 /\ next_offset' % Current'.alignment = 0
      BY <2>1, <2>6 DEF IInv, Transferring, offsets
    <3>4. QED
      BY <3>1, <3>2, <3>3 DEF Transferring
  <2>12. OutputEnds'
    <3> SUFFICES ASSUME NEW p \in DOMAIN output' PROVE p < DataEnd
      BY <2>1, <2>6 DEF OutputEnds
    <3>1. CASE p \in DOMAIN output
      BY <3>1, <2>1 DEF IInv, OutputEnds
    <3>2. CASE p \in next_offset .. next_offset + Chunk - 1
      BY <3>2, <2>2, <2>3, <2>4, <2>5 DEF DataEnd
    <3>3. QED
      BY <2>7, <3>1, <3>2
  <2>13. SmallSectionsAreCopied' /\ RelocationsAreStored'
    <3>1. \A ref \in Written : SectionAt(ref)' = SectionAt(ref)
      BY <2>1 DEF SectionAt, given
    <3>2. own' = own
      BY <2>1 DEF given
    <3>3. ASSUME ~ lost', own' = 0, NEW ref \in Written,
                 SectionAt(ref)'.data_size <= TRANSFER_BUFFER_SIZE
          PROVE  IsCopied(ref)'
      <4>1. ~ lost /\ own = 0 /\ SectionAt(ref).data_size <= TRANSFER_BUFFER_SIZE
        BY <2>7, <3>1, <3>2, <3>3
      <4>2. IsCopied(ref)
        BY <4>1 DEF IInv, SmallSectionsAreCopied
      <4>3. QED
        BY <2>1, <2>7, <4>2, PlaceIsKept DEF offsets
    <3>4. ASSUME ~ lost', NEW ref \in Written PROVE IsStored(ref)'
      <4>1. IsStored(ref)
        BY <2>7, <3>4 DEF IInv, RelocationsAreStored
      <4>2. QED
        BY <2>1, <2>7, <4>1, PlaceIsKept DEF offsets
    <3>5. SmallSectionsAreCopied'
      BY <2>6, <3>3 DEF SmallSectionsAreCopied
    <3>6. QED
      BY <2>6, <3>4, <3>5 DEF RelocationsAreStored
  <2>14. QED
    BY <2>1, <2>8, <2>9, <2>10, <2>11, <2>12, <2>13 DEF IInv, WithinTotalSize
<1>3. QED
  BY <1>1, <1>2
-------------------------------------------------------------------------------
(* The step that finishes a section gives it its places behind all others.  *)
Finish(relocations_at) ==
  /\ pc = "transfer" /\ remaining = 0
  /\ UNCHANGED << given, bi, remaining, total_size >>
  /\ si' = si + 1 /\ pc' = "section"
  /\ data_offset' = [data_offset EXCEPT ![<<bi, si>>] = next_offset]
  /\ relocation_offset' = [relocation_offset EXCEPT ![<<bi, si>>] = relocations_at]
  /\ next_offset' \in Nat
  /\ DataEnd <= next_offset'
  /\ Current.relocation_count > 0 =>
       /\ DataEnd <= relocations_at
       /\ relocations_at % RelocationAlignment = 0
       /\ relocations_at + RelocationsSize(<<bi, si>>) <= next_offset'

LEMMA FinishPlaces ==
  ASSUME IInv, NEW relocations_at \in Nat, Finish(relocations_at)
  PROVE  /\ <<bi, si>> \in Refs \ Written
         /\ Written' = Written \union {<<bi, si>>}
         /\ \A ref \in Written : /\ data_offset'[ref] = data_offset[ref]
                                /\ relocation_offset'[ref] = relocation_offset[ref]
         /\ \A ref \in Refs : /\ SectionAt(ref)' = SectionAt(ref)
                             /\ RelocationsSize(ref)' = RelocationsSize(ref)
         /\ data_offset'[<<bi, si>>] = next_offset
         /\ relocation_offset'[<<bi, si>>] = relocations_at
         /\ Layout'
         /\ PlacesAreDisjoint'
         /\ PlacesAreAligned'
<1>0. PICK cur : cur = <<bi, si>>
  OBVIOUS
<1>1. /\ TypeOK /\ cur \in Refs /\ bi \in Nat /\ si \in Nat
      /\ table_size \in Nat /\ next_offset \in Nat /\ next_offset' \in Nat
  BY SMTT(30), <1>0, RefsAre, TablesAssumption DEF IInv, TypeOK, Finish
<1>2. cur \notin Written
  BY <1>0, <1>1 DEF Written
<1>3. Written' = Written \union {cur}
  <2>1. Refs' = Refs
    BY DEF Finish, given, Refs
  <2>2. ASSUME NEW ref \in Refs
        PROVE  (ref[1] < bi \/ (ref[1] = bi /\ ref[2] < si + 1))
                 <=> (ref[1] < bi \/ (ref[1] = bi /\ ref[2] < si) \/ ref = cur)
    <3>1. ref[1] \in Nat /\ ref[2] \in Nat /\ ref = <<ref[1], ref[2]>>
      BY <1>1, RefTyped, RefsAre
    <3>2. QED
      BY <1>0, <1>1, <3>1
  <2>3. QED
    BY <1>1, <2>1, <2>2 DEF Written, Finish
<1>4. \A ref \in Refs : /\ SectionAt(ref)' = SectionAt(ref)
                      /\ RelocationsSize(ref)' = RelocationsSize(ref)
  BY DEF Finish, given, SectionAt, RelocationsSize
<1>5. \A ref \in Written : /\ data_offset'[ref] = data_offset[ref]
                         /\ relocation_offset'[ref] = relocation_offset[ref]
  BY <1>0, <1>1, <1>2 DEF Finish, TypeOK, Written
<1>6. data_offset'[cur] = next_offset /\ relocation_offset'[cur] = relocations_at
  BY <1>0, <1>1 DEF Finish, TypeOK
<1>7. Current = SectionAt(cur) /\ DataEnd = next_offset + SectionAt(cur).data_size
  BY <1>0 DEF Current, DataEnd
<1>8. /\ SectionAt(cur).data_size \in Nat /\ RelocationsSize(cur) \in Nat
      /\ SectionAt(cur).relocation_count \in Nat
      /\ SectionAt(cur).relocation_count = 0 => RelocationsSize(cur) = 0
  BY <1>1, RefTyped DEF RelocationsSize, SizeOfRelocation
<1>9. /\ next_offset + SectionAt(cur).data_size <= next_offset'
      /\ SectionAt(cur).relocation_count > 0 =>
           /\ next_offset + SectionAt(cur).data_size <= relocations_at
           /\ relocations_at + RelocationsSize(cur) <= next_offset'
  BY <1>0, <1>7 DEF Finish
<1>10. table_size' = table_size /\ table_size <= next_offset
  BY DEF Finish, given, IInv, Layout
<1>11. Layout'
  <2>1. table_size' <= next_offset'
    BY <1>1, <1>8, <1>9, <1>10
  <2>2. Ordered(cur)'
    BY <1>1, <1>4, <1>6, <1>8, <1>9, <1>10 DEF Ordered
  <2>3. ASSUME NEW ref \in Written PROVE Ordered(ref)'
    <3>1. Ordered(ref) /\ ref \in Refs
      BY DEF IInv, Layout, Written
    <3>2. next_offset <= next_offset'
      BY <1>1, <1>8, <1>9
    <3>3. QED
      BY <1>1, <1>4, <1>5, <1>10, <3>1, <3>2, RefTyped DEF Ordered
  <2>4. QED
    BY <1>3, <2>1, <2>2, <2>3 DEF Layout
<1>12. \A ref \in Written : Place(ref)' = Place(ref) /\ DataPlace(ref)' = DataPlace(ref)
                          /\ RelocationPlace(ref)' = RelocationPlace(ref)
  BY <1>4, <1>5 DEF Place, DataPlace, RelocationPlace, Written
<1>13. \A p \in Place(cur)' : p \in Int /\ next_offset <= p
  <2>1. ASSUME NEW p \in DataPlace(cur)' PROVE p \in Int /\ next_offset <= p
    BY <1>1, <1>4, <1>6 DEF DataPlace
  <2>2. ASSUME NEW p \in RelocationPlace(cur)' PROVE p \in Int /\ next_offset <= p
    <3>1. p \in relocations_at .. relocations_at + RelocationsSize(cur) - 1
      BY <1>1, <1>4, <1>6 DEF RelocationPlace
    <3>2. SectionAt(cur).relocation_count > 0
      BY <1>8, <3>1
    <3>3. QED
      BY <1>1, <1>8, <1>9, <3>1, <3>2
  <2>3. QED
    BY <2>1, <2>2 DEF Place
<1>14. \A ref \in Written : \A p \in Place(ref) : p < next_offset
  <2> SUFFICES ASSUME NEW ref \in Written, NEW p \in Place(ref) PROVE p < next_offset
    OBVIOUS
  <2>1. Ordered(ref) /\ ref \in Refs
    BY DEF IInv, Layout, Written
  <2>2. CASE p \in DataPlace(ref)
    BY <1>1, <2>1, <2>2, RefTyped DEF DataPlace, Ordered
  <2>3. CASE p \in RelocationPlace(ref)
    <3>1. SectionAt(ref).relocation_count > 0
      BY <1>1, <2>1, <2>3, RefTyped DEF RelocationPlace, RelocationsSize, SizeOfRelocation
    <3>2. QED
      BY <1>1, <2>1, <2>3, <3>1, RefTyped DEF RelocationPlace, Ordered
  <2>4. QED
    BY <2>2, <2>3 DEF Place
<1>15. DataPlace(cur)' \cap RelocationPlace(cur)' = {}
  <2> SUFFICES ASSUME NEW p \in DataPlace(cur)', p \in RelocationPlace(cur)' PROVE FALSE
    OBVIOUS
  <2>1. /\ p \in next_offset .. next_offset + SectionAt(cur).data_size - 1
        /\ p \in relocations_at .. relocations_at + RelocationsSize(cur) - 1
    BY <1>1, <1>4, <1>6 DEF DataPlace, RelocationPlace
  <2>2. SectionAt(cur).relocation_count > 0
    BY <1>8, <2>1
  <2>3. QED
    BY <1>1, <1>8, <1>9, <2>1, <2>2
<1>16. PlacesAreDisjoint'
  <2>1. \A p \in Place(cur)' : p >= table_size'
    BY <1>1, <1>10, <1>13
  <2>2. \A other \in Written : Place(cur)' \cap Place(other)' = {}
    <3> SUFFICES ASSUME NEW other \in Written, NEW p \in Place(cur)', p \in Place(other)
                 PROVE  FALSE
      BY <1>12
    <3>1. p < next_offset /\ p \in Int /\ next_offset <= p
      BY <1>13, <1>14
    <3>2. QED
      BY <1>1, <3>1
  <2>3. ASSUME NEW ref \in Written
        PROVE  /\ \A p \in Place(ref)' : p >= table_size'
               /\ DataPlace(ref)' \cap RelocationPlace(ref)' = {}
               /\ \A other \in Written \ {ref} : Place(ref)' \cap Place(other)' = {}
    BY <1>10, <1>12 DEF IInv, PlacesAreDisjoint
  <2>4. QED
    BY <1>2, <1>3, <1>15, <2>1, <2>2, <2>3 DEF PlacesAreDisjoint
<1>17. PlacesAreAligned'
  <2>1. /\ SectionAt(cur).alignment # 0
        /\ next_offset % SectionAt(cur).alignment = 0
    BY <1>7 DEF Finish, IInv, Transferring
  <2>2. SectionAt(cur).relocation_count > 0 => relocations_at % RelocationAlignment = 0
    BY <1>7 DEF Finish
  <2>3. ASSUME NEW ref \in Written
        PROVE  /\ SectionAt(ref).alignment # 0
               /\ data_offset[ref] % SectionAt(ref).alignment = 0
               /\ SectionAt(ref).relocation_count > 0 =>
                    relocation_offset[ref] % RelocationAlignment = 0
    BY DEF IInv, PlacesAreAligned
  <2>4. Written \subseteq Refs
    BY DEF Written
  <2>5. QED
    BY <1>1, <1>3, <1>4, <1>5, <1>6, <2>1, <2>2, <2>3, <2>4 DEF PlacesAreAligned
<1>18. QED
  BY <1>0, <1>1, <1>2, <1>3, <1>4, <1>5, <1>6, <1>11, <1>16, <1>17

LEMMA FinishKeepsIInv ==
  ASSUME IInv, NEW at \in Nat, Finish(at),
         lost' \in BOOLEAN, ~ lost' => ~ lost,
         \A p \in DOMAIN output' : p \in Nat /\ p < next_offset',
         \A p \in DOMAIN output : p < DataEnd => p \in DOMAIN output' /\ output'[p] = output[p],
         ~ lost' => \A i \in 0 .. RelocationsSize(<<bi, si>>) - 1 :
                      /\ at + i \in DOMAIN output'
                      /\ output'[at + i] = RelocationByte(<<bi, si>>, i)
  PROVE  IInv'
<1>0. PICK cur : cur = <<bi, si>>
  OBVIOUS
<1>1. /\ cur \in Refs \ Written /\ Written' = Written \union {cur}
      /\ \A ref \in Written : /\ data_offset'[ref] = data_offset[ref]
                             /\ relocation_offset'[ref] = relocation_offset[ref]
      /\ \A ref \in Refs : /\ SectionAt(ref)' = SectionAt(ref)
                          /\ RelocationsSize(ref)' = RelocationsSize(ref)
      /\ data_offset'[cur] = next_offset /\ relocation_offset'[cur] = at
      /\ Layout' /\ PlacesAreDisjoint' /\ PlacesAreAligned'
  BY <1>0, FinishPlaces
<1>2. /\ TypeOK /\ pc = "transfer" /\ remaining = 0 /\ pc' = "section"
      /\ UNCHANGED << given, bi, remaining, total_size >> /\ si' = si + 1
      /\ bi \in DOMAIN inputs /\ next_offset \in Nat
  BY DEF Finish, IInv, TypeOK
<1>3. TypeOK'
  <2>1. data_offset' \in [Refs -> Nat] /\ relocation_offset' \in [Refs -> Nat]
    BY <1>0, <1>1, <1>2 DEF Finish, TypeOK
  <2>2. Refs' = Refs
    BY <1>2 DEF Refs, given
  <2>3. next_offset' \in Nat /\ si' \in Nat \ {0} /\ DOMAIN output' \subseteq Nat
    BY <1>2 DEF Finish, TypeOK
  <2>4. QED
    BY <1>2, <2>1, <2>2, <2>3 DEF TypeOK, given
<1>4. Transferring' /\ OutputEnds' /\ WithinTotalSize'
  BY <1>2 DEF Transferring, OutputEnds, WithinTotalSize
<1>5. /\ Current = SectionAt(cur) /\ DataEnd = next_offset + SectionAt(cur).data_size
      /\ SectionAt(cur).data_size \in Nat /\ next_offset <= DataEnd
  BY <1>0, <1>1, <1>2, RefTyped DEF Current, DataEnd
<1>6. \A p \in DOMAIN output : table_size <= p /\ p < next_offset =>
        p \in DOMAIN output' /\ output'[p] = output[p]
  BY <1>2, <1>5 DEF TypeOK
<1>7. SmallSectionsAreCopied'
  <2> SUFFICES ASSUME ~ lost', own' = 0, NEW ref \in Written \union {cur},
                      SectionAt(ref)'.data_size <= TRANSFER_BUFFER_SIZE
               PROVE  IsCopied(ref)'
    BY <1>1 DEF SmallSectionsAreCopied
  <2>1. ~ lost /\ own = 0 /\ ref \in Refs
    BY <1>1, <1>2 DEF given, Written
  <2>2. SectionAt(ref).data_size <= TRANSFER_BUFFER_SIZE /\ SectionAt(ref)' = SectionAt(ref)
    BY <1>1, <2>1
  <2>3. CASE ref \in Written
    <3>1. IsCopied(ref)
      BY <2>1, <2>2, <2>3 DEF IInv, SmallSectionsAreCopied
    <3>2. QED
      BY <1>1, <1>2, <1>6, <2>3, <3>1, PlaceIsKept
  <2>4. CASE ref = cur
    <3> SUFFICES ASSUME NEW i \in 0 .. SectionAt(cur).data_size - 1
                 PROVE  /\ next_offset + i \in DOMAIN output'
                        /\ output'[next_offset + i] =
                             DataByte(cur[1], SectionAt(cur).data_offset + i)
      BY <1>1, <2>2, <2>4 DEF IsCopied
    <3>1. CurrentIsCopied
      BY <1>2, <1>5, <2>1, <2>2, <2>4 DEF IInv, Transferring
    <3>2. /\ next_offset + i \in DOMAIN output
          /\ output[next_offset + i] = DataByte(cur[1], SectionAt(cur).data_offset + i)
      BY <1>0, <1>5, <3>1 DEF CurrentIsCopied
    <3>3. next_offset + i < DataEnd
      BY <1>2, <1>5
    <3>4. QED
      BY <3>2, <3>3
  <2>5. QED
    BY <2>3, <2>4
<1>8. RelocationsAreStored'
  <2> SUFFICES ASSUME ~ lost', NEW ref \in Written \union {cur}
               PROVE  IsStored(ref)'
    BY <1>1 DEF RelocationsAreStored
  <2>1. CASE ref \in Written
    <3>1. IsStored(ref)
      BY <2>1 DEF IInv, RelocationsAreStored
    <3>2. QED
      BY <1>1, <1>2, <1>6, <2>1, <3>1, PlaceIsKept
  <2>2. CASE ref = cur
    BY <1>0, <1>1, <2>2 DEF IsStored
  <2>3. QED
    BY <2>1, <2>2
<1>9. QED
  BY <1>1, <1>3, <1>4, <1>7, <1>8 DEF IInv

LEMMA RelocationsKeepIInv ==
  ASSUME IInv, WriteRelocations
  PROVE  IInv'
<1>1. CASE Crash
  BY <1>1, CrashKeepsIInv
<1>2. CASE ~ Crash
  <2> DEFINE at   == AlignUp(DataEnd, RelocationAlignment)
             size == RelocationsSize(<<bi, si>>)
             Stored == [i \in 0 .. size - 1 |-> RelocationByte(<<bi, si>>, i)]
  <2>1. /\ pc = "transfer" /\ remaining = 0 /\ Current.relocation_count > 0
        /\ Write(at, size, Stored)
        /\ data_offset' = [data_offset EXCEPT ![<<bi, si>>] = next_offset]
        /\ relocation_offset' = [relocation_offset EXCEPT ![<<bi, si>>] = at]
        /\ next_offset' = at + size
        /\ si' = si + 1 /\ pc' = "section"
        /\ UNCHANGED << given, bi, remaining, total_size >>
    BY <1>2 DEF WriteRelocations, StoreRelocations
  <2>2. TypeOK /\ <<bi, si>> \in Refs /\ next_offset \in Nat
    BY <2>1, RefsAre DEF IInv, TypeOK
  <2>3. /\ Current.data_size \in Nat /\ Current.relocation_count \in Nat
        /\ size \in Nat
    BY <2>2, RefTyped DEF Current
  <2>4. DataEnd \in Nat /\ at \in Nat /\ DataEnd <= at
    BY <2>2, <2>3, AlignUpBounds DEF DataEnd, RelocationAlignment
  <2>5. PICK a \in Nat, n \in Nat : a = at /\ n = size
    BY <2>3, <2>4
  <2>6. Finish(a)
    <3>1. a % RelocationAlignment = 0
      BY <2>4, <2>5, AlignUpAligns DEF RelocationAlignment
    <3>2. QED
      BY SMTT(30), <2>1, <2>3, <2>4, <2>5, <3>1 DEF Finish
  <2>7. /\ DOMAIN output' \subseteq DOMAIN output \union (a .. a + n - 1)
        /\ lost' \in BOOLEAN
        /\ ~ lost' => ~ lost
        /\ \A p \in DOMAIN output : p < DataEnd =>
              p \in DOMAIN output' /\ output'[p] = output[p]
        /\ ~ lost' => \A p \in a .. a + n - 1 :
              p \in DOMAIN output' /\ output'[p] = Stored[p - a]
    <3>1. CASE output' = [p \in DOMAIN output \union (at .. at + size - 1) |->
                            IF p \in at .. at + size - 1 THEN Stored[p - at] ELSE output[p]]
               /\ UNCHANGED lost
      <4>1. output' = [p \in DOMAIN output \union (a .. a + n - 1) |->
                         IF p \in a .. a + n - 1 THEN Stored[p - a] ELSE output[p]]
        BY <2>5, <3>1
      <4> HIDE DEF Stored, at, size
      <4>2. /\ \A p \in DOMAIN output : p \in Nat
            /\ lost \in BOOLEAN
        BY <2>2 DEF TypeOK
      <4>3. DataEnd <= a /\ DataEnd \in Nat
        BY <2>4, <2>5
      <4>4. QED
        BY <3>1, <4>1, <4>2, <4>3
    <3>2. CASE lost' = TRUE /\ UNCHANGED output
      BY <3>2
    <3>3. QED
      BY <2>1, <3>1, <3>2 DEF Write
  <2>8. \A p \in DOMAIN output' : p \in Nat /\ p < next_offset'
    <3> SUFFICES ASSUME NEW p \in DOMAIN output' PROVE p \in Nat /\ p < a + n
      BY <2>1, <2>5
    <3>1. CASE p \in DOMAIN output
      <4>1. p \in Nat /\ p < DataEnd
        BY <2>1, <2>2, <3>1 DEF IInv, OutputEnds, TypeOK
      <4>2. QED
        BY <2>4, <2>5, <4>1
    <3>2. CASE p \in a .. a + n - 1
      BY <3>2
    <3>3. QED
      BY <2>7, <3>1, <3>2
  <2>9. ~ lost' => \A i \in 0 .. RelocationsSize(<<bi, si>>) - 1 :
                     /\ a + i \in DOMAIN output'
                     /\ output'[a + i] = RelocationByte(<<bi, si>>, i)
    <3> SUFFICES ASSUME ~ lost', NEW i \in 0 .. n - 1
                 PROVE  /\ a + i \in DOMAIN output'
                        /\ output'[a + i] = Stored[i]
      BY <2>3, <2>5
    <3> HIDE DEF Stored
    <3>1. a + i \in a .. a + n - 1 /\ (a + i) - a = i
      OBVIOUS
    <3>2. QED
      BY <2>7, <3>1
  <2>10. QED
    BY <2>6, <2>7, <2>8, <2>9, FinishKeepsIInv
<1>3. QED
  BY <1>1, <1>2

LEMMA NoRelocationsKeepIInv ==
  ASSUME IInv, NoRelocations
  PROVE  IInv'
<1>1. /\ pc = "transfer" /\ remaining = 0 /\ Current.relocation_count = 0
      /\ data_offset' = [data_offset EXCEPT ![<<bi, si>>] = next_offset]
      /\ next_offset' = DataEnd
      /\ si' = si + 1 /\ pc' = "section"
      /\ UNCHANGED << given, bi, remaining, relocation_offset, total_size, output, lost >>
  BY DEF NoRelocations, SkipRelocations
<1>2. TypeOK /\ <<bi, si>> \in Refs /\ next_offset \in Nat
  BY <1>1, RefsAre DEF IInv, TypeOK
<1>3. Current.data_size \in Nat /\ DataEnd \in Nat /\ next_offset <= DataEnd
  BY <1>2, RefTyped DEF Current, DataEnd
<1>4. PICK at \in Nat : at = relocation_offset[<<bi, si>>]
  BY <1>2, RefTyped
<1>5. relocation_offset' = [relocation_offset EXCEPT ![<<bi, si>>] = at]
  BY <1>1, <1>2, <1>4 DEF TypeOK
<1>6. Finish(at)
  <2>1. next_offset' \in Nat /\ DataEnd <= next_offset' /\ ~ (Current.relocation_count > 0)
    BY <1>1, <1>3
  <2>2. UNCHANGED << given, bi, remaining, total_size >>
    BY <1>1
  <2>3. QED
    BY <1>1, <1>5, <2>1, <2>2, Zenon DEF Finish
<1>7. RelocationsSize(<<bi, si>>) = 0
  BY <1>1 DEF RelocationsSize, SizeOfRelocation, Current
<1>8. \A p \in DOMAIN output' : p \in Nat /\ p < next_offset'
  BY <1>1, <1>2 DEF IInv, OutputEnds, TypeOK
<1>9. lost' \in BOOLEAN /\ (~ lost' => ~ lost)
  BY <1>1, <1>2 DEF TypeOK
<1>10. \A i \in 0 .. RelocationsSize(<<bi, si>>) - 1 : FALSE
  BY <1>7
<1>11. QED
  BY <1>1, <1>6, <1>8, <1>9, <1>10, FinishKeepsIInv

LEMMA TablesKeepIInv ==
  ASSUME IInv, WriteTables
  PROVE  IInv'
<1>1. /\ pc = "input" /\ pc' = "done" /\ total_size' = next_offset
      /\ Write(0, table_size, [p \in 0 .. table_size - 1 |-> TableByte(p)])
      /\ UNCHANGED << given, bi, si, remaining, offsets >>
  BY DEF WriteTables
<1>2. TypeOK /\ table_size \in Nat /\ next_offset \in Nat /\ table_size <= next_offset
  BY TablesAssumption DEF IInv, TypeOK, Layout
<1>3. /\ DOMAIN output' \subseteq DOMAIN output \union (0 .. table_size - 1)
      /\ lost' \in BOOLEAN
      /\ ~ lost' => ~ lost
      /\ \A p \in DOMAIN output : table_size <= p =>
            p \in DOMAIN output' /\ output'[p] = output[p]
  <2>1. CASE output' = [p \in DOMAIN output \union (0 .. 0 + table_size - 1) |->
                          IF p \in 0 .. 0 + table_size - 1
                          THEN [q \in 0 .. table_size - 1 |-> TableByte(q)][p - 0]
                          ELSE output[p]]
             /\ UNCHANGED lost
    <3>1. (\A p \in DOMAIN output : p \in Nat) /\ lost \in BOOLEAN
      BY <1>2 DEF TypeOK
    <3>2. 0 + table_size = table_size
      BY <1>2
    <3>3. QED
      BY <1>2, <2>1, <3>1, <3>2
  <2>2. CASE lost' = TRUE /\ UNCHANGED output
    BY <2>2
  <2>3. QED
    BY <1>1, <2>1, <2>2 DEF Write
<1>4. \A p \in DOMAIN output' : p \in Nat /\ p < next_offset
  <2> SUFFICES ASSUME NEW p \in DOMAIN output' PROVE p \in Nat /\ p < next_offset
    OBVIOUS
  <2>1. CASE p \in DOMAIN output
    BY <1>1, <1>2, <2>1 DEF IInv, OutputEnds, TypeOK
  <2>2. CASE p \in 0 .. table_size - 1
    BY <1>2, <2>2
  <2>3. QED
    BY <1>3, <2>1, <2>2
<1>5. TypeOK'
  <2>1. DOMAIN output' \subseteq Nat
    BY <1>4
  <2>2. total_size' \in Nat
    BY <1>1, <1>2
  <2>3. QED
    BY <1>1, <1>2, <1>3, <2>1, <2>2 DEF TypeOK, given, offsets, Refs, Terminal
<1>6. /\ Written' = Written /\ Written \subseteq Refs
      /\ \A ref \in Refs : /\ SectionAt(ref)' = SectionAt(ref)
                          /\ RelocationsSize(ref)' = RelocationsSize(ref)
  BY <1>1 DEF Written, given, Refs, SectionAt, RelocationsSize
<1>7. Layout'
  BY <1>1, <1>6 DEF IInv, Layout, Ordered, given, offsets
<1>8. PlacesAreDisjoint' /\ PlacesAreAligned'
  BY <1>1, <1>6 DEF IInv, PlacesAreDisjoint, PlacesAreAligned, Place, DataPlace,
     RelocationPlace, given, offsets
<1>9. Transferring' /\ OutputEnds'
  BY <1>1 DEF Transferring, OutputEnds
<1>10. WithinTotalSize'
  BY <1>1, <1>4 DEF WithinTotalSize
<1>11. SmallSectionsAreCopied'
  <2> SUFFICES ASSUME ~ lost', own' = 0, NEW ref \in Written,
                      SectionAt(ref)'.data_size <= TRANSFER_BUFFER_SIZE
               PROVE  IsCopied(ref)'
    BY <1>6 DEF SmallSectionsAreCopied
  <2>1. ~ lost /\ own = 0 /\ SectionAt(ref).data_size <= TRANSFER_BUFFER_SIZE
    BY <1>1, <1>3, <1>6 DEF given
  <2>2. IsCopied(ref)
    BY <2>1 DEF IInv, SmallSectionsAreCopied
  <2>3. QED
    BY <1>1, <1>3, <2>2, PlaceIsKept DEF offsets
<1>12. RelocationsAreStored'
  <2> SUFFICES ASSUME ~ lost', NEW ref \in Written PROVE IsStored(ref)'
    BY <1>6 DEF RelocationsAreStored
  <2>1. IsStored(ref)
    BY <1>3 DEF IInv, RelocationsAreStored
  <2>2. QED
    BY <1>1, <1>3, <2>1, PlaceIsKept DEF offsets
<1>13. QED
  BY <1>5, <1>7, <1>8, <1>9, <1>10, <1>11, <1>12 DEF IInv

LEMMA StutterKeepsIInv ==
  ASSUME IInv, UNCHANGED vars
  PROVE  IInv'
<1>1. UNCHANGED << inputs, own, table_size, pc, bi, si, remaining, next_offset,
                   data_offset, relocation_offset, total_size, output, lost >>
  BY DEF vars, given, offsets
<1>2. TypeOK'
  BY <1>1 DEF IInv, TypeOK, Refs
<1>3. Layout' /\ PlacesAreDisjoint' /\ PlacesAreAligned'
  <2>1. /\ Written' = Written
        /\ \A ref \in Refs : SectionAt(ref)' = SectionAt(ref)
        /\ \A ref \in Refs : RelocationsSize(ref)' = RelocationsSize(ref)
        /\ Written \subseteq Refs
    BY <1>1 DEF Written, Refs, SectionAt, RelocationsSize
  <2>2. \A ref \in Written : Ordered(ref)' = Ordered(ref)
    BY <1>1, <2>1 DEF Ordered
  <2>3. Layout'
    BY <1>1, <2>1, <2>2 DEF IInv, Layout
  <2>4. \A ref \in Written : /\ DataPlace(ref)' = DataPlace(ref)
                             /\ RelocationPlace(ref)' = RelocationPlace(ref)
    BY <1>1, <2>1 DEF DataPlace, RelocationPlace
  <2>5. PlacesAreDisjoint'
    BY <1>1, <2>1, <2>4 DEF IInv, PlacesAreDisjoint, Place
  <2>6. PlacesAreAligned'
    BY <1>1, <2>1 DEF IInv, PlacesAreAligned
  <2>7. QED
    BY <2>3, <2>5, <2>6
<1>4. Transferring' /\ OutputEnds' /\ WithinTotalSize'
  BY <1>1 DEF IInv, Transferring, OutputEnds, WithinTotalSize, CurrentIsCopied, Current,
     DataEnd, SectionAt
<1>5. SmallSectionsAreCopied' /\ RelocationsAreStored'
  BY <1>1 DEF IInv, SmallSectionsAreCopied, RelocationsAreStored, IsCopied, IsStored,
     Written, Refs, SectionAt, RelocationsSize
<1>6. QED
  BY <1>2, <1>3, <1>4, <1>5 DEF IInv

(* The strengthening under which every step keeps what is to be shown.      *)
THEOREM Invariance == Spec => []IInv
<1>1. Init => IInv
  BY InitIInv
<1>2. IInv /\ [Next]_vars => IInv'
  <2> SUFFICES ASSUME IInv, [Next]_vars PROVE IInv'
    OBVIOUS
  <2>1. CASE OpenInput
    BY <2>1, OpenKeepsIInv
  <2>2. CASE PlaceSection
    BY <2>2, PlaceKeepsIInv
  <2>3. CASE TransferChunk
    BY <2>3, TransferKeepsIInv
  <2>4. CASE WriteRelocations
    BY <2>4, RelocationsKeepIInv
  <2>5. CASE NoRelocations
    BY <2>5, NoRelocationsKeepIInv
  <2>6. CASE CloseInput
    BY <2>6, CloseKeepsIInv
  <2>7. CASE WriteTables
    BY <2>7, TablesKeepIInv
  <2>8. CASE UNCHANGED vars
    BY <2>8, StutterKeepsIInv
  <2>9. QED
    BY <2>1, <2>2, <2>3, <2>4, <2>5, <2>6, <2>7, <2>8 DEF Next
<1>3. QED
  BY <1>1, <1>2, PTL DEF Spec

(* In every file the loop writes, tables, data and relocations are disjoint *)
(* (format.c:1187-1223), whatever the sizes and the alignments.             *)
THEOREM LayoutIsDisjoint == Spec => []PlacesAreDisjoint
<1>1. IInv => PlacesAreDisjoint
  BY DEF IInv
<1>2. QED
  BY <1>1, Invariance, PTL

(* Data starts at a multiple of its section's alignment, relocations at a   *)
(* multiple of 8 (format.c:1200, 1212), whatever came before them.          *)
THEOREM LayoutIsAligned == Spec => []PlacesAreAligned
<1>1. IInv => PlacesAreAligned
  BY DEF IInv
<1>2. QED
  BY <1>1, Invariance, PTL

(* A section that fits transfer_bytes' buffer is in the output as it was in *)
(* the input, at the offset its entry in the section table gives            *)
(* (format.c:877-888, 1203, 1208-1209).                                     *)
THEOREM SmallSectionsCopied == Spec => []SmallSectionsAreCopied
<1>1. IInv => SmallSectionsAreCopied
  BY DEF IInv
<1>2. QED
  BY <1>1, Invariance, PTL

(* So are the renumbered relocations of every section (format.c:1211-1220). *)
THEOREM RelocationsStored == Spec => []RelocationsAreStored
<1>1. IInv => RelocationsAreStored
  BY DEF IInv
<1>2. QED
  BY <1>1, Invariance, PTL

(* Nothing lies past the size the header declares (format.c:1225).          *)
THEOREM TotalSizeBounds == Spec => []WithinTotalSize
<1>1. IInv => WithinTotalSize
  BY DEF IInv
<1>2. QED
  BY <1>1, Invariance, PTL

===============================================================================
