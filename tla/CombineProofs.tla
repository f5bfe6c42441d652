----------------------------- MODULE CombineProofs -----------------------------
(***************************************************************************)
(* Proofs about Combine, for every list of inputs of any length with any   *)
(* symbols, sections and relocations; in the last part, that it implements *)
(* Link: the loops over tables, indexes and mappings link the inputs as    *)
(* Link says in one step.                                                  *)
(***************************************************************************)
EXTENDS LinkAndLoad, SequenceTheorems, FiniteSetTheorems, TLAPS

-------------------------------------------------------------------------------
(* What a reference into a list of objects is. *)
LEMMA SymbolRefs ==
  ASSUME NEW objects
  PROVE  /\ \A b \in DOMAIN objects : \A k \in DOMAIN objects[b].symbols :
              <<b, k>> \in SymbolRef(objects)
         /\ \A ref \in SymbolRef(objects) :
              /\ ref[1] \in DOMAIN objects
              /\ ref[2] \in DOMAIN objects[ref[1]].symbols
              /\ ref = <<ref[1], ref[2]>>
BY DEF SymbolRef

LEMMA SectionRefs ==
  ASSUME NEW objects
  PROVE  /\ \A b \in DOMAIN objects : \A k \in DOMAIN objects[b].sections :
              <<b, k>> \in SectionRef(objects)
         /\ \A ref \in SectionRef(objects) :
              /\ ref[1] \in DOMAIN objects
              /\ ref[2] \in DOMAIN objects[ref[1]].sections
              /\ ref = <<ref[1], ref[2]>>
BY DEF SectionRef

-------------------------------------------------------------------------------
(* Nothing is in the merged tables before their loops start. *)
TablesStartEmpty ==
  /\ pc \in {"start", "parse"} => sections = << >>
  /\ pc \in {"start", "parse", "sections"} => symbols = << >>

IInv ==
  /\ TypeOK
  /\ TablesStartEmpty
  /\ UniqueNames
  /\ MappingIsSound
  /\ LocalsArePrivate

LEMMA InitIInv == Init => IInv
<1> SUFFICES ASSUME Init PROVE IInv
  OBVIOUS
<1>1. TypeOK
  BY InputsAssumption DEF Init, TypeOK, NoCapacity, Terminal, Unmapped
<1>2. TablesStartEmpty /\ UniqueNames
  BY DEF Init, TablesStartEmpty, UniqueNames
<1>3. \A ref \in SymbolRef(inputs) : symbol_mapping[ref] = Unmapped
  BY DEF Init
<1>4. MappingIsSound /\ LocalsArePrivate
  BY <1>3 DEF MappingIsSound, LocalsArePrivate
<1>5. QED
  BY <1>1, <1>2, <1>4 DEF IInv

(* What is known of one input. *)
LEMMA InputTyped ==
  ASSUME TypeOK, NEW b \in DOMAIN inputs
  PROVE  /\ inputs[b] \in BarfObject(Target, Data, Name, Offset)
         /\ inputs[b].sections \in Seq(BarfSection(Data, Offset))
         /\ inputs[b].symbols \in Seq(BarfSymbol(Name, Offset))
         /\ Len(inputs[b].sections) \in Nat
         /\ Len(inputs[b].symbols) \in Nat
         /\ DOMAIN inputs[b].sections = 1 .. Len(inputs[b].sections)
         /\ DOMAIN inputs[b].symbols = 1 .. Len(inputs[b].symbols)
         /\ inputs[b].string_size \in Nat
<1>1. inputs[b] \in BarfObject(Target, Data, Name, Offset)
  BY DEF TypeOK
<1>2. /\ inputs[b].sections \in Seq(BarfSection(Data, Offset))
      /\ inputs[b].symbols \in Seq(BarfSymbol(Name, Offset))
      /\ inputs[b].string_size \in Nat
  BY <1>1 DEF BarfObject
<1>3. QED
  BY <1>1, <1>2

LEMMA SectionTyped ==
  ASSUME TypeOK, NEW b \in DOMAIN inputs, NEW k \in DOMAIN inputs[b].sections
  PROVE  /\ inputs[b].sections[k] \in BarfSection(Data, Offset)
         /\ inputs[b].sections[k].data \in Data
         /\ inputs[b].sections[k].relocations \in Seq(BarfRelocation(Offset))
<1>1. inputs[b].sections[k] \in BarfSection(Data, Offset)
  BY InputTyped, ElementOfSeq
<1>2. QED
  BY <1>1 DEF BarfSection

LEMMA SymbolTyped ==
  ASSUME TypeOK, NEW b \in DOMAIN inputs, NEW k \in DOMAIN inputs[b].symbols
  PROVE  inputs[b].symbols[k] \in BarfSymbol(Name, Offset)
BY InputTyped, ElementOfSeq

LEMMA SumIsNatural == \A m, n \in Nat : m + n \in Nat
OBVIOUS

(* A function from 1 .. n is a sequence of length n. *)
LEMMA SequenceOf ==
  ASSUME NEW S, NEW n \in Nat, NEW f \in [1 .. n -> S]
  PROVE  f \in Seq(S) /\ Len(f) = n
OBVIOUS

(* Most steps change control only: the tables stay as they are. *)
LEMMA TablesUntouched ==
  ASSUME IInv, TypeOK', TablesStartEmpty', UNCHANGED << inputs, tables >>
  PROVE  IInv'
BY DEF IInv, tables, UniqueNames, MappingIsSound, Represents, LocalsArePrivate,
   SymbolAt

-------------------------------------------------------------------------------
(* The steps of the loops that do not write to a merged table. *)
ControlStep ==
  \/ Start \/ ParseInput \/ Allocate \/ SectionsMerged \/ NextTable
  \/ SymbolsMerged \/ Relocated \/ WriteOutput \/ Cleanup

LEMMA ControlKeepsIInv ==
  ASSUME IInv, ControlStep, UNCHANGED << inputs, output_opens >>
  PROVE  IInv'
<1> USE DEF IInv
<1>0. UNCHANGED tables
  BY DEF ControlStep, Start, ParseInput, Allocate, SectionsMerged, NextTable,
     SymbolsMerged, Relocated, WriteOutput, Cleanup, Proceed, Fail, Crash
<1>1. Len(inputs) \in Nat /\ DOMAIN inputs = 1 .. Len(inputs)
  BY DEF TypeOK
<1>2. /\ bi' \in 1 .. Len(inputs) + 1
      /\ si' \in Nat \ {0}
      /\ estimated' \in [sections : Nat, symbols : Nat, strings : Nat]
  <2>1. CASE ParseInput
    <3>1. bi \in DOMAIN inputs
      BY <2>1 DEF ParseInput
    <3>2. /\ inputs[bi].string_size \in Nat
          /\ Len(inputs[bi].sections) \in Nat
          /\ Len(inputs[bi].symbols) \in Nat
      BY <3>1, InputTyped
    <3>3. /\ estimated.sections \in Nat
          /\ estimated.symbols \in Nat
          /\ estimated.strings \in Nat
      BY DEF TypeOK
    <3>4. CASE UNCHANGED << bi, si, estimated >>
      BY <3>4 DEF TypeOK
    <3>5. CASE ~ UNCHANGED << bi, si, estimated >>
      <4>1. /\ bi' = bi + 1 /\ si' = si
            /\ estimated' =
                 [ sections |-> estimated.sections + Len(inputs[bi].sections),
                   symbols  |-> estimated.symbols + Len(inputs[bi].symbols),
                   strings  |-> estimated.strings + inputs[bi].string_size ]
        BY <2>1, <3>5 DEF ParseInput, Fail
      <4>2. si \in Nat \ {0}
        BY DEF TypeOK
      <4>3. bi' \in 1 .. Len(inputs) + 1 /\ si' \in Nat \ {0}
        BY <1>1, <3>1, <4>1, <4>2
      <4>4. /\ estimated.sections + Len(inputs[bi].sections) \in Nat
            /\ estimated.symbols + Len(inputs[bi].symbols) \in Nat
            /\ estimated.strings + inputs[bi].string_size \in Nat
        BY <3>2, <3>3, SumIsNatural, Zenon
      <4>5. QED
        BY <4>1, <4>3, <4>4
    <3>6. QED
      BY <3>4, <3>5
  <2>2. CASE Allocate \/ SectionsMerged \/ SymbolsMerged \/ Relocated
    BY <1>1, <2>2 DEF TypeOK, Allocate, SectionsMerged, SymbolsMerged, Relocated, Proceed
  <2>3. CASE NextTable
    BY <1>1, <2>3 DEF TypeOK, NextTable
  <2>4. CASE Start \/ WriteOutput \/ Cleanup
    BY <2>4 DEF TypeOK, Start, WriteOutput, Cleanup, Fail, Crash
  <2>5. QED
    BY <2>1, <2>2, <2>3, <2>4 DEF ControlStep
<1>3. /\ pc' \in {"start", "parse", "sections", "symbols", "relocations", "write",
                  "cleanup"} \union Terminal
      /\ error' \in {"none", "empty", "unreadable", "target", "duplicate", "output",
                     "assertion", "fault", "transfer"}
  BY DEF TypeOK, ControlStep, Start, ParseInput, Allocate, SectionsMerged,
     NextTable, SymbolsMerged, Relocated, WriteOutput, Cleanup, Proceed, Fail, Crash,
     Terminal
<1>4. TypeOK'
  BY <1>0, <1>2, <1>3 DEF TypeOK, tables
<1>5. TablesStartEmpty'
  BY <1>0 DEF tables, TypeOK, TablesStartEmpty, ControlStep, Start, ParseInput, Allocate,
     SectionsMerged, NextTable, SymbolsMerged, Relocated, WriteOutput, Cleanup, Proceed,
     Fail, Crash
<1>6. QED
  BY <1>0, <1>4, <1>5, TablesUntouched DEF tables

-------------------------------------------------------------------------------
(* Appending the sections of one input gives them the next free places.     *)
LEMMA MergeSectionsKeepsIInv ==
  ASSUME IInv, MergeSections, UNCHANGED << inputs, output_opens >>
  PROVE  IInv'
<1> USE DEF IInv
<1> DEFINE own == inputs[bi].sections
           copy == [k \in DOMAIN own |-> [data |-> own[k].data, relocations |-> << >>]]
<1>1. /\ bi \in DOMAIN inputs /\ Len(inputs) \in Nat /\ DOMAIN inputs = 1 .. Len(inputs)
      /\ own \in Seq(BarfSection(Data, Offset)) /\ Len(own) \in Nat
      /\ DOMAIN own = 1 .. Len(own)
  BY SMTT(30), InputTyped DEF MergeSections, TypeOK
<1>2. copy \in Seq(BarfSection(Data, Offset)) /\ Len(copy) = Len(own)
  <2>1. ASSUME NEW k \in 1 .. Len(own)
        PROVE  [data |-> own[k].data, relocations |-> << >>] \in BarfSection(Data, Offset)
    BY <1>1, SectionTyped DEF BarfSection
  <2>2. copy \in [1 .. Len(own) -> BarfSection(Data, Offset)]
    BY <1>1, <2>1
  <2>3. QED
    BY <1>1, <2>2, SequenceOf
<1>3. /\ sections' \in Seq(BarfSection(Data, Offset))
      /\ Len(sections') = Len(sections) + Len(own)
      /\ Len(sections) \in Nat
  <2>1. sections' = sections \o copy
    BY DEF MergeSections
  <2>2. sections \in Seq(BarfSection(Data, Offset))
    BY DEF TypeOK
  <2> HIDE DEF copy
  <2>3. /\ sections \o copy \in Seq(BarfSection(Data, Offset))
        /\ Len(sections \o copy) = Len(sections) + Len(copy)
    BY <1>2, <2>2, ConcatProperties, Zenon
  <2>4. Len(sections) \in Nat
    BY <2>2, LenProperties
  <2>5. QED
    BY <1>2, <2>1, <2>3, <2>4
<1>4. section_mapping' \in [SectionRef(inputs) -> 0 .. Len(sections')]
  <2> SUFFICES ASSUME NEW ref \in SectionRef(inputs)
               PROVE  section_mapping'[ref] \in 0 .. Len(sections')
    BY DEF MergeSections
  <2>1. ref[1] = bi => ref[2] \in 1 .. Len(own)
    BY <1>1, SectionRefs
  <2>2. section_mapping[ref] \in 0 .. Len(sections)
    BY DEF TypeOK
  <2>3. QED
    BY <1>1, <1>3, <2>1, <2>2 DEF MergeSections
<1>5. /\ bi' \in 1 .. Len(inputs) + 1
      /\ pc = "sections" /\ symbols = << >>
      /\ UNCHANGED << pc, error, si, estimated, symbols, string_size, symbol_mapping >>
  BY <1>1 DEF MergeSections, TablesStartEmpty, TypeOK
<1>6. TypeOK'
  BY <1>3, <1>4, <1>5 DEF TypeOK
<1>7. TablesStartEmpty' /\ UniqueNames'
  BY <1>5 DEF TablesStartEmpty, UniqueNames
<1>8. \A ref \in SymbolRef(inputs) : symbol_mapping'[ref] = Unmapped
  BY <1>5 DEF TypeOK, Unmapped
<1>9. MappingIsSound' /\ LocalsArePrivate'
  BY <1>8 DEF MappingIsSound, LocalsArePrivate
<1>10. QED
  BY <1>6, <1>7, <1>9

-------------------------------------------------------------------------------
(* The symbol the loop is at. *)
LEMMA CurrentTyped ==
  ASSUME TypeOK, InSymbolLoop
  PROVE  /\ Current \in BarfSymbol(Name, Offset)
         /\ <<bi, si>> \in SymbolRef(inputs)
         /\ SymbolAt(inputs, <<bi, si>>) = Current
         /\ Placed => CurrentPlace \in 0 .. Len(sections)
<1>1. bi \in DOMAIN inputs /\ si \in DOMAIN inputs[bi].symbols
  BY DEF InSymbolLoop
<1>2. Placed => <<bi, Current.section_index>> \in SectionRef(inputs)
  BY <1>1, SectionRefs DEF Placed
<1>3. QED
  BY <1>1, <1>2, SymbolTyped, SymbolRefs DEF Current, SymbolAt, CurrentPlace, TypeOK

(* A step to the next symbol with a typed table and mapping keeps the type  *)
(* invariant.                                                               *)
LEMMA NextSymbolTyped ==
  ASSUME TypeOK, TablesStartEmpty, InSymbolLoop, NextSymbol,
         UNCHANGED << inputs, output_opens >>,
         symbols' \in Seq(BarfSymbol(Name, Offset)),
         string_size' \in Nat,
         symbol_mapping' \in [SymbolRef(inputs) -> 0 .. Len(symbols')]
  PROVE  TypeOK' /\ TablesStartEmpty'
<1>1. si' \in Nat \ {0}
  BY DEF TypeOK, NextSymbol
<1>2. UNCHANGED << pc, error, bi, estimated, sections, section_mapping >>
  BY DEF NextSymbol
<1>3. TypeOK'
  BY <1>1, <1>2 DEF TypeOK
<1>4. QED
  BY <1>2, <1>3 DEF TablesStartEmpty, InSymbolLoop

(* A new merged symbol that stands for the current input symbol alone.      *)
LEMMA AddKeepsIInv ==
  ASSUME IInv, InSymbolLoop, UNCHANGED << inputs, output_opens >>,
         NEW place \in Nat, Add(place),
         Current.type # UnknownType,
         Defines(Current) => place = CurrentPlace,
         Visible(Current) => IsNew(Current.name)
  PROVE  IInv'
<1> USE DEF IInv
<1> DEFINE n == Len(symbols)
           new == [ type |-> Current.type, name |-> Current.name,
                    section_index |-> place, offset |-> Current.offset ]
           here == <<bi, si>>
<1>1. /\ Current \in BarfSymbol(Name, Offset) /\ here \in SymbolRef(inputs)
      /\ SymbolAt(inputs, here) = Current
  BY CurrentTyped
<1>2. new \in BarfSymbol(Name, Offset)
  BY <1>1 DEF BarfSymbol
<1>3. /\ n \in Nat /\ DOMAIN symbols = 1 .. n
      /\ symbols' \in Seq(BarfSymbol(Name, Offset))
      /\ Len(symbols') = n + 1 /\ DOMAIN symbols' = 1 .. n + 1
      /\ \A i \in 1 .. n : symbols'[i] = symbols[i]
      /\ symbols'[n + 1] = new
  <2>1. symbols' = Append(symbols, new)
    BY DEF Add
  <2>2. symbols \in Seq(BarfSymbol(Name, Offset))
    BY DEF TypeOK
  <2> HIDE DEF new
  <2>3. QED
    BY <1>2, <2>1, <2>2
<1>4. /\ symbol_mapping' = [symbol_mapping EXCEPT ![here] = n + 1]
      /\ symbol_mapping \in [SymbolRef(inputs) -> 0 .. n]
      /\ UNCHANGED section_mapping
  BY DEF Add, MapTo, TypeOK, NextSymbol
<1>5. symbol_mapping' \in [SymbolRef(inputs) -> 0 .. Len(symbols')]
  BY <1>1, <1>3, <1>4
<1>6. string_size' \in Nat
  <2>1. NameSize[Current.name] \in Nat /\ string_size \in Nat
    BY <1>1, NameSizeAssumption DEF BarfSymbol, TypeOK
  <2>2. string_size' = string_size + NameSize[Current.name]
    BY DEF Add
  <2>3. QED
    BY <2>1, <2>2, SumIsNatural, Zenon
<1>7. TypeOK' /\ TablesStartEmpty'
  BY <1>3, <1>5, <1>6, NextSymbolTyped DEF Add
<1>8. UniqueNames'
  <2>1. Visible(new) => \A i \in 1 .. n : Visible(symbols[i]) => symbols[i].name # new.name
    BY <1>3 DEF Visible, IsNew
  <2> HIDE DEF new
  <2>2. QED
    BY <1>3, <2>1 DEF UniqueNames
<1>9. MappingIsSound'
  <2> SUFFICES ASSUME NEW ref \in SymbolRef(inputs), symbol_mapping'[ref] # Unmapped
               PROVE  Represents(symbol_mapping[ref], ref)'
    BY DEF MappingIsSound
  <2>1. CASE ref = here
    <3>1. symbols'[symbol_mapping'[ref]] = new /\ SymbolAt(inputs, ref) = Current
      BY <1>1, <1>3, <1>4, <2>1
    <3>2. Defines(Current) => place = section_mapping[<<ref[1], Current.section_index>>]
      BY <2>1 DEF CurrentPlace
    <3>3. Visible(new) \/ Defines(Current)
      BY <1>1 DEF Visible, Defines, BarfSymbol, SymbolType
    <3>4. QED
      BY <1>4, <3>1, <3>2, <3>3 DEF Represents
  <2>2. CASE ref # here
    <3>1. symbol_mapping'[ref] = symbol_mapping[ref] /\ symbol_mapping[ref] \in 1 .. n
      BY <1>4, <2>2 DEF Unmapped
    <3>2. Represents(symbol_mapping[ref], ref)
      BY <3>1 DEF MappingIsSound
    <3>3. QED
      BY <1>3, <1>4, <3>1, <3>2 DEF Represents, SymbolAt
  <2>3. QED
    BY <2>1, <2>2
<1>10. LocalsArePrivate'
  BY <1>1, <1>3, <1>4 DEF LocalsArePrivate, SymbolAt
<1>11. QED
  BY <1>7, <1>8, <1>9, <1>10

(* An external that finds its name taken is represented by that symbol.     *)
LEMMA ShareKeepsIInv ==
  ASSUME IInv, InSymbolLoop, UNCHANGED << inputs, output_opens >>, ShareExternal
  PROVE  IInv'
<1> USE DEF IInv
<1> DEFINE here == <<bi, si>>
<1>1. /\ Current \in BarfSymbol(Name, Offset) /\ here \in SymbolRef(inputs)
      /\ SymbolAt(inputs, here) = Current
  BY CurrentTyped
<1>2. PICK i \in DOMAIN symbols :
        /\ Visible(symbols[i]) /\ symbols[i].name = Current.name
        /\ symbol_mapping' = [symbol_mapping EXCEPT ![here] = i]
  BY DEF ShareExternal, IsFirstNamed, MapTo
<1>3. /\ NextSymbol /\ Current.type = BARF_SYMBOL_EXTERNAL
      /\ UNCHANGED << symbols, string_size, section_mapping >>
  BY DEF ShareExternal, NextSymbol
<1>4. /\ Len(symbols) \in Nat /\ DOMAIN symbols = 1 .. Len(symbols)
      /\ symbol_mapping \in [SymbolRef(inputs) -> 0 .. Len(symbols)]
  BY DEF TypeOK
<1>5. symbol_mapping' \in [SymbolRef(inputs) -> 0 .. Len(symbols')]
  <2>1. symbols' = symbols /\ i \in 0 .. Len(symbols)
    BY <1>3, <1>4
  <2>2. QED
    BY <1>2, <1>4, <2>1
<1>6. TypeOK' /\ TablesStartEmpty'
  <2>1. symbols' \in Seq(BarfSymbol(Name, Offset)) /\ string_size' \in Nat
    BY <1>3 DEF TypeOK
  <2>2. QED
    BY <1>3, <1>5, <2>1, NextSymbolTyped
<1>7. UniqueNames'
  BY <1>3 DEF UniqueNames
<1>8. MappingIsSound'
  <2> SUFFICES ASSUME NEW ref \in SymbolRef(inputs), symbol_mapping'[ref] # Unmapped
               PROVE  Represents(symbol_mapping[ref], ref)'
    BY DEF MappingIsSound
  <2>1. CASE ref = here
    BY <1>1, <1>2, <1>3, <1>4, <2>1
       DEF Represents, Defines, BARF_SYMBOL_EXTERNAL, BARF_SYMBOL_LOCAL, BARF_SYMBOL_GLOBAL
  <2>2. CASE ref # here
    <3>1. symbol_mapping'[ref] = symbol_mapping[ref]
      BY <1>2, <1>4, <2>2
    <3>2. Represents(symbol_mapping[ref], ref)
      BY <3>1 DEF MappingIsSound
    <3>3. QED
      BY <1>3, <3>1, <3>2 DEF Represents
  <2>3. QED
    BY <2>1, <2>2
<1>9. LocalsArePrivate'
  <2> SUFFICES ASSUME NEW ref \in SymbolRef(inputs), NEW other \in SymbolRef(inputs),
                      symbol_mapping'[ref] # Unmapped,
                      symbol_mapping'[ref] = symbol_mapping'[other],
                      SymbolAt(inputs, ref).type = BARF_SYMBOL_LOCAL
               PROVE  other = ref
    BY DEF LocalsArePrivate
  <2>1. ref # here
    BY <1>1, <1>3 DEF BARF_SYMBOL_LOCAL, BARF_SYMBOL_EXTERNAL
  <2>2. symbol_mapping'[ref] = symbol_mapping[ref] /\ Represents(symbol_mapping[ref], ref)
    BY <1>2, <1>4, <2>1 DEF MappingIsSound
  <2>3. symbols[symbol_mapping[ref]].type = BARF_SYMBOL_LOCAL
    BY <2>2 DEF Represents, Defines
  <2>4. symbol_mapping[ref] # i
    BY <1>2, <2>3 DEF Visible, BARF_SYMBOL_LOCAL, BARF_SYMBOL_EXTERNAL, BARF_SYMBOL_GLOBAL
  <2>5. other # here
    BY <1>1, <1>2, <1>4, <2>2, <2>4
  <2>6. QED
    BY <1>2, <1>4, <2>2, <2>5 DEF LocalsArePrivate
<1>10. QED
  BY <1>6, <1>7, <1>8, <1>9

(* A global that finds an external of its name takes its place in the       *)
(* table: what pointed at the external now points at the definition.        *)
LEMMA PromoteKeepsIInv ==
  ASSUME IInv, InSymbolLoop, UNCHANGED << inputs, output_opens >>, PromoteExternal
  PROVE  IInv'
<1> USE DEF IInv
<1> DEFINE here == <<bi, si>>
<1>1. /\ Current \in BarfSymbol(Name, Offset) /\ here \in SymbolRef(inputs)
      /\ SymbolAt(inputs, here) = Current
      /\ CurrentPlace \in Nat
  <2>1. CurrentPlace \in 0 .. Len(sections) /\ Len(sections) \in Nat
    BY CurrentTyped DEF PromoteExternal, TypeOK
  <2>2. QED
    BY <2>1, CurrentTyped
<1>2. PICK i \in DOMAIN symbols :
        /\ symbols[i].type = BARF_SYMBOL_EXTERNAL
        /\ IsFirstNamed(i, Current.name)
        /\ symbols' = [symbols EXCEPT ![i] =
             [ type |-> BARF_SYMBOL_GLOBAL, name |-> symbols[i].name,
               section_index |-> CurrentPlace, offset |-> Current.offset ]]
        /\ symbol_mapping' = [symbol_mapping EXCEPT ![here] = i]
  BY DEF PromoteExternal, MapTo
<1>3. /\ NextSymbol /\ Current.type = BARF_SYMBOL_GLOBAL
      /\ UNCHANGED << string_size, section_mapping >>
  BY DEF PromoteExternal, NextSymbol
<1>4. /\ Len(symbols) \in Nat /\ DOMAIN symbols = 1 .. Len(symbols)
      /\ symbols \in Seq(BarfSymbol(Name, Offset))
      /\ symbol_mapping \in [SymbolRef(inputs) -> 0 .. Len(symbols)]
  BY DEF TypeOK
<1> DEFINE new == [ type |-> BARF_SYMBOL_GLOBAL, name |-> Current.name,
                    section_index |-> CurrentPlace, offset |-> Current.offset ]
<1>5. /\ new \in BarfSymbol(Name, Offset)
      /\ symbols' = [symbols EXCEPT ![i] = new]
  <2>1. new \in BarfSymbol(Name, Offset)
    BY <1>1 DEF BarfSymbol, SymbolType
  <2>2. QED
    BY <1>2, <2>1 DEF IsFirstNamed
<1> HIDE DEF new
<1>6. /\ symbols' \in Seq(BarfSymbol(Name, Offset)) /\ Len(symbols') = Len(symbols)
      /\ DOMAIN symbols' = DOMAIN symbols
      /\ symbols'[i] = new
      /\ \A j \in DOMAIN symbols : j # i => symbols'[j] = symbols[j]
  BY <1>4, <1>5
<1>7. new.type = BARF_SYMBOL_GLOBAL /\ new.name = symbols[i].name /\ Visible(new)
  BY <1>2 DEF new, Visible, IsFirstNamed
<1>8. TypeOK' /\ TablesStartEmpty'
  <2>1. symbol_mapping' \in [SymbolRef(inputs) -> 0 .. Len(symbols')]
    <3>1. i \in 0 .. Len(symbols')
      BY <1>4, <1>6
    <3>2. symbol_mapping \in [SymbolRef(inputs) -> 0 .. Len(symbols')]
      BY <1>4, <1>6
    <3>3. QED
      BY <1>2, <3>1, <3>2
  <2>2. string_size' \in Nat
    BY <1>3 DEF TypeOK
  <2>3. QED
    BY <1>3, <1>6, <2>1, <2>2, NextSymbolTyped
<1>9. UniqueNames'
  BY <1>2, <1>6, <1>7 DEF UniqueNames, IsFirstNamed
<1>10. MappingIsSound'
  <2> SUFFICES ASSUME NEW ref \in SymbolRef(inputs), symbol_mapping'[ref] # Unmapped
               PROVE  Represents(symbol_mapping[ref], ref)'
    BY DEF MappingIsSound
  <2>1. CASE ref = here
    <3>1. symbols'[symbol_mapping'[ref]] = new /\ SymbolAt(inputs, ref) = Current
      BY <1>1, <1>2, <1>4, <1>6, <2>1
    <3>2. new.section_index = section_mapping[<<ref[1], Current.section_index>>]
      BY <2>1 DEF CurrentPlace, new
    <3>3. QED
      BY <1>3, <3>1, <3>2 DEF Represents, Defines, new
  <2>2. CASE ref # here
    <3>1. /\ symbol_mapping'[ref] = symbol_mapping[ref]
          /\ symbol_mapping[ref] \in DOMAIN symbols
          /\ Represents(symbol_mapping[ref], ref)
      BY <1>2, <1>4, <2>2 DEF MappingIsSound, Unmapped
    <3>2. CASE symbol_mapping[ref] = i
      <4>1. ~ Defines(SymbolAt(inputs, ref))
        BY <1>2, <3>1, <3>2 DEF Represents, Defines, BARF_SYMBOL_LOCAL,
           BARF_SYMBOL_GLOBAL, BARF_SYMBOL_EXTERNAL
      <4>2. QED
        BY <1>6, <1>7, <3>1, <3>2, <4>1 DEF Represents
    <3>3. CASE symbol_mapping[ref] # i
      BY <1>3, <1>6, <3>1, <3>3 DEF Represents
    <3>4. QED
      BY <3>2, <3>3
  <2>3. QED
    BY <2>1, <2>2
<1>11. LocalsArePrivate'
  <2> SUFFICES ASSUME NEW ref \in SymbolRef(inputs), NEW other \in SymbolRef(inputs),
                      symbol_mapping'[ref] # Unmapped,
                      symbol_mapping'[ref] = symbol_mapping'[other],
                      SymbolAt(inputs, ref).type = BARF_SYMBOL_LOCAL
               PROVE  other = ref
    BY DEF LocalsArePrivate
  <2>1. ref # here
    BY <1>1, <1>3 DEF BARF_SYMBOL_LOCAL, BARF_SYMBOL_GLOBAL
  <2>2. symbol_mapping'[ref] = symbol_mapping[ref] /\ Represents(symbol_mapping[ref], ref)
    BY <1>2, <1>4, <2>1 DEF MappingIsSound
  <2>3. symbols[symbol_mapping[ref]].type = BARF_SYMBOL_LOCAL
    BY <2>2 DEF Represents, Defines
  <2>4. symbol_mapping[ref] # i
    BY <1>2, <2>3 DEF BARF_SYMBOL_LOCAL, BARF_SYMBOL_EXTERNAL
  <2>5. other # here
    BY <1>1, <1>2, <1>4, <2>2, <2>4
  <2>6. QED
    BY <1>2, <1>4, <2>2, <2>5 DEF LocalsArePrivate
<1>12. QED
  BY <1>8, <1>9, <1>10, <1>11

-------------------------------------------------------------------------------
(* Rewriting the relocations of one input changes no other table. *)
LEMMA RelocateKeepsIInv ==
  ASSUME IInv, Relocate, UNCHANGED << inputs, output_opens >>
  PROVE  IInv'
<1> USE DEF IInv
<1>1. CASE Crash("fault")
  BY <1>1, TablesUntouched
     DEF Relocate, Crash, TypeOK, TablesStartEmpty, tables, Terminal
<1>2. CASE RelocationsInRange /\ ~ Crash("fault")
  <2>1. /\ bi \in DOMAIN inputs /\ Len(inputs) \in Nat /\ DOMAIN inputs = 1 .. Len(inputs)
        /\ pc = "relocations"
    BY DEF Relocate, TypeOK
  <2>2. /\ bi' = bi + 1
        /\ UNCHANGED << pc, error, si, estimated, symbols, string_size,
                        section_mapping, symbol_mapping >>
    BY <1>2 DEF Relocate
  <2> DEFINE mine(m) == {k \in DOMAIN inputs[bi].sections : section_mapping[<<bi, k>>] = m}
  <2>3. ASSUME NEW k \in DOMAIN inputs[bi].sections
        PROVE  Renumbered(k) \in Seq(BarfRelocation(Offset))
    <3> DEFINE own == inputs[bi].sections[k].relocations
               to(r) == [own[r] EXCEPT !.symbol_index =
                           symbol_mapping[<<bi, own[r].symbol_index>>]]
    <3>1. /\ own \in Seq(BarfRelocation(Offset))
          /\ Len(own) \in Nat /\ DOMAIN own = 1 .. Len(own)
      BY <2>1, SectionTyped, LenProperties
    <3>2. ASSUME NEW r \in DOMAIN own
          PROVE  to(r) \in BarfRelocation(Offset)
      <4>1. own[r] \in BarfRelocation(Offset)
        BY <3>1, ElementOfSeq
      <4>2. <<bi, own[r].symbol_index>> \in SymbolRef(inputs)
        BY <1>2, <2>1, SymbolRefs DEF RelocationsInRange
      <4>3. symbol_mapping[<<bi, own[r].symbol_index>>] \in Nat
        <5>1. Len(symbols) \in Nat
          BY DEF TypeOK
        <5>2. QED
          BY <4>2, <5>1 DEF TypeOK
      <4>4. QED
        BY <4>1, <4>3 DEF BarfRelocation
    <3>3. Renumbered(k) = [r \in DOMAIN own |-> to(r)]
      BY DEF Renumbered
    <3> HIDE DEF to
    <3>4. [r \in DOMAIN own |-> to(r)] \in [1 .. Len(own) -> BarfRelocation(Offset)]
      BY <3>1, <3>2
    <3>5. QED
      BY <3>1, <3>3, <3>4, SequenceOf
  <2>4. /\ sections \in Seq(BarfSection(Data, Offset)) /\ Len(sections) \in Nat
        /\ DOMAIN sections = 1 .. Len(sections)
    BY LenProperties DEF TypeOK
  <2>5. ASSUME NEW m \in DOMAIN sections
        PROVE  sections'[m] \in BarfSection(Data, Offset)
    <3>1. sections[m] \in BarfSection(Data, Offset)
      BY <2>4, ElementOfSeq
    <3>2. sections'[m] = IF mine(m) = {} THEN sections[m]
                         ELSE [sections[m] EXCEPT
                                 !.relocations = Renumbered(CHOOSE k \in mine(m) : TRUE)]
      BY <1>2 DEF Relocate
    <3>3. mine(m) # {} =>
            Renumbered(CHOOSE k \in mine(m) : TRUE) \in Seq(BarfRelocation(Offset))
      BY <2>3
    <3> HIDE DEF mine
    <3>4. QED
      BY <3>1, <3>2, <3>3 DEF BarfSection
  <2>6. sections' \in Seq(BarfSection(Data, Offset)) /\ Len(sections') = Len(sections)
    <3>1. sections' \in [1 .. Len(sections) -> BarfSection(Data, Offset)]
      BY <1>2, <2>4, <2>5 DEF Relocate
    <3>2. QED
      BY <2>4, <3>1, SequenceOf
  <2>7. TypeOK' /\ TablesStartEmpty'
    <3>1. bi' \in 1 .. Len(inputs) + 1
      BY <2>1, <2>2
    <3>2. QED
      BY <2>1, <2>2, <2>6, <3>1 DEF TypeOK, TablesStartEmpty
  <2>8. UniqueNames' /\ MappingIsSound' /\ LocalsArePrivate'
    BY <2>2 DEF UniqueNames, MappingIsSound, Represents, LocalsArePrivate, SymbolAt
  <2>9. QED
    BY <2>7, <2>8
<1>3. QED
  BY <1>1, <1>2 DEF Relocate

LEMMA SymbolKeepsIInv ==
  ASSUME IInv, MergeSymbol, UNCHANGED << inputs, output_opens >>
  PROVE  IInv'
<1> USE DEF IInv
<1>1. InSymbolLoop /\ TypeOK
  BY DEF MergeSymbol
<1>2. ASSUME NEW why \in {"duplicate", "assertion", "fault"}, Fail(why) \/ Crash(why)
      PROVE  IInv'
  BY <1>1, <1>2, TablesUntouched
     DEF Fail, Crash, InSymbolLoop, TypeOK, TablesStartEmpty, tables, Terminal
<1>3. Placed => CurrentPlace \in Nat
  <2>1. Len(sections) \in Nat
    BY DEF TypeOK
  <2>2. QED
    BY <1>1, <2>1, CurrentTyped
<1> USE DEF BARF_SYMBOL_LOCAL, BARF_SYMBOL_GLOBAL, BARF_SYMBOL_EXTERNAL, UnknownType,
            Visible, Defines
<1>4. CASE MergeLocal
  BY <1>1, <1>3, <1>4, AddKeepsIInv DEF MergeLocal
<1>5. CASE ShareExternal
  BY <1>1, <1>5, ShareKeepsIInv
<1>6. CASE AddExternal
  BY <1>1, <1>6, AddKeepsIInv DEF AddExternal, NoSection
<1>7. CASE RejectDuplicate \/ FaultUnplaced
  BY <1>2, <1>7 DEF RejectDuplicate, FaultUnplaced
<1>8. CASE PromoteExternal
  BY <1>1, <1>8, PromoteKeepsIInv
<1>9. CASE AddGlobal
  BY <1>1, <1>2, <1>3, <1>9, AddKeepsIInv DEF AddGlobal
<1>10. CASE SkipUnknown
  <2>1. UNCHANGED tables /\ NextSymbol
    BY <1>10 DEF SkipUnknown, NextSymbol, tables
  <2>2. TypeOK' /\ TablesStartEmpty'
    <3>1. /\ symbols' \in Seq(BarfSymbol(Name, Offset)) /\ string_size' \in Nat
          /\ symbol_mapping' \in [SymbolRef(inputs) -> 0 .. Len(symbols')]
      BY <2>1 DEF TypeOK, tables
    <3>2. QED
      BY <1>1, <2>1, <3>1, NextSymbolTyped
  <2>3. QED
    BY <2>1, <2>2, TablesUntouched
<1>11. QED
  BY <1>4, <1>5, <1>6, <1>7, <1>8, <1>9, <1>10 DEF MergeSymbol

(* No step changes what the program was given. *)
LEMMA InputsAreGiven == Next => UNCHANGED << inputs, output_opens >>
<1> USE DEF given, Fail, Crash, Proceed, NextSymbol, Add
<1>1. MergeSymbol => UNCHANGED << inputs, output_opens >>
  BY DEF MergeSymbol, MergeLocal, ShareExternal, AddExternal, RejectDuplicate,
     PromoteExternal, AddGlobal, FaultUnplaced, SkipUnknown
<1>2. QED
  BY <1>1 DEF Next, Start, ParseInput, Allocate, MergeSections, SectionsMerged,
     NextTable, SymbolsMerged, Relocate, Relocated, WriteOutput, Cleanup

LEMMA StepKeepsIInv == IInv /\ [Next]_vars => IInv'
<1> SUFFICES ASSUME IInv, [Next]_vars
             PROVE  IInv'
  OBVIOUS
<1>1. CASE Next
  <2>1. UNCHANGED << inputs, output_opens >>
    BY <1>1, InputsAreGiven
  <2>2. CASE ControlStep
    BY <2>1, <2>2, ControlKeepsIInv
  <2>3. CASE MergeSections
    BY <2>1, <2>3, MergeSectionsKeepsIInv
  <2>4. CASE MergeSymbol
    BY <2>1, <2>4, SymbolKeepsIInv
  <2>5. CASE Relocate
    BY <2>1, <2>5, RelocateKeepsIInv
  <2>6. QED
    BY <1>1, <2>2, <2>3, <2>4, <2>5 DEF Next, ControlStep
<1>2. CASE UNCHANGED vars
  BY ZenonT(60), <1>2, TablesUntouched
     DEF vars, given, tables, IInv, TypeOK, TablesStartEmpty, UniqueNames, MappingIsSound,
         Represents, LocalsArePrivate, SymbolAt
<1>3. QED
  BY <1>1, <1>2

(* The inductive invariant: types, the mapping and the privacy of locals    *)
(* need one another and the emptiness of the tables before their loops.     *)
THEOREM Invariance == Spec => []IInv
BY InitIInv, StepKeepsIInv, PTL DEF Spec

(* The merged tables are typed in every reachable state, and every mapping  *)
(* points into them (format.c:981-1147).                                    *)
THEOREM Typed == Spec => []TypeOK
<1>1. IInv => TypeOK
  BY DEF IInv
<1>2. QED
  BY <1>1, Invariance, PTL

(* No two symbols that other artifacts can see share a name                 *)
(* (format.c:1063-1075, 1101-1122).                                         *)
THEOREM NamesAreUnique == Spec => []UniqueNames
<1>1. IInv => UniqueNames
  BY DEF IInv
<1>2. QED
  BY <1>1, Invariance, PTL

(* Every input symbol merged so far is represented by its entry of the      *)
(* mapping, at its own place (format.c:1033-1147).                          *)
THEOREM MappingSound == Spec => []MappingIsSound
<1>1. IInv => MappingIsSound
  BY DEF IInv
<1>2. QED
  BY <1>1, Invariance, PTL

(* A merged local stands for one input symbol only (docs/usage.md:64-67).   *)
THEOREM LocalsPrivate == Spec => []LocalsArePrivate
<1>1. IInv => LocalsArePrivate
  BY DEF IInv
<1>2. QED
  BY <1>1, Invariance, PTL

-------------------------------------------------------------------------------
(* A merged symbol is never moved, renamed or redefined once it is in the   *)
(* table; only an external may become the definition of its name            *)
(* (format.c:1112-1119).                                                    *)
THEOREM SymbolsStable == Spec => SymbolsAreStable
<1> DEFINE Stable ==
      \A i \in DOMAIN symbols :
        /\ i \in DOMAIN symbols'
        /\ symbols'[i].name = symbols[i].name
        /\ symbols[i].type # BARF_SYMBOL_EXTERNAL => symbols'[i] = symbols[i]
<1>1. ASSUME TypeOK, [Next]_vars
      PROVE  Stable
  <2>1. /\ Len(symbols) \in Nat /\ DOMAIN symbols = 1 .. Len(symbols)
        /\ symbols \in Seq(BarfSymbol(Name, Offset))
    BY <1>1 DEF TypeOK
  <2>2. CASE UNCHANGED symbols
    BY <2>2
  <2>3. ASSUME NEW place, Add(place)
        PROVE  Stable
    <3> DEFINE new == [ type |-> Current.type, name |-> Current.name,
                        section_index |-> place, offset |-> Current.offset ]
    <3>1. symbols' = Append(symbols, new)
      BY <2>3 DEF Add
    <3> HIDE DEF new
    <3>2. QED
      BY <2>1, <3>1
  <2>4. CASE PromoteExternal
    BY <2>1, <2>4 DEF PromoteExternal
  <2>5. CASE MergeSymbol
    BY <2>2, <2>3, <2>4, <2>5
       DEF MergeSymbol, MergeLocal, ShareExternal, AddExternal, RejectDuplicate,
           AddGlobal, FaultUnplaced, SkipUnknown, Fail, Crash, tables
  <2>6. CASE ~ MergeSymbol
    BY <1>1, <2>2, <2>6
       DEF Next, Start, ParseInput, Allocate, MergeSections, SectionsMerged,
           NextTable, SymbolsMerged, Relocate, Relocated, WriteOutput, Cleanup, Proceed,
           Fail, Crash, tables, vars
  <2>7. QED
    BY <2>5, <2>6
<1>2. TypeOK /\ [Next]_vars => [Stable]_vars
  BY <1>1
<1>3. QED
  BY <1>2, Typed, PTL DEF Spec, SymbolsAreStable

-------------------------------------------------------------------------------
(* The capacities are sums over the inputs, and a table takes from each     *)
(* input no more than it was counted for.  A running total of the sizes of  *)
(* the inputs says both without a sum: total[b] is what the inputs before b *)
(* were counted for.                                                        *)
IsTotal(total, size, n, sum) ==
  /\ total[1] = 0 /\ total[n + 1] = sum
  /\ \A b \in 1 .. n : total[b + 1] = total[b] + size[b]
  /\ \A b \in 1 .. n + 1 : total[b] <= sum

AddsUp(size, n, sum) == \E total \in [Nat -> Nat] : IsTotal(total, size, n, sum)

(* What has been used comes from the inputs before b and from what of b has *)
(* been done.                                                               *)
Room(size, n, sum, used, b, done) ==
  \E total \in [Nat -> Nat] : IsTotal(total, size, n, sum) /\ used <= total[b] + done

LEMMA NothingAddsUp ==
  ASSUME NEW size
  PROVE  AddsUp(size, 0, 0)
<1>1. [b \in Nat |-> 0] \in [Nat -> Nat] /\ IsTotal([b \in Nat |-> 0], size, 0, 0)
  BY DEF IsTotal
<1>2. QED
  BY <1>1 DEF AddsUp

(* One more input is counted. *)
LEMMA AddsUpNext ==
  ASSUME NEW size, NEW n \in Nat, NEW sum \in Nat, NEW more \in Nat,
         AddsUp(size, n, sum), size[n + 1] = more
  PROVE  AddsUp(size, n + 1, sum + more)
<1>1. PICK total \in [Nat -> Nat] : IsTotal(total, size, n, sum)
  BY DEF AddsUp
<1> DEFINE longer == [total EXCEPT ![n + 2] = sum + more]
<1>2. /\ longer \in [Nat -> Nat] /\ longer[n + 2] = sum + more
      /\ \A b \in 1 .. n + 1 : b \in Nat /\ longer[b] = total[b] /\ b # n + 2
  BY <1>1
<1>3. total[1] = 0 /\ total[n + 1] = sum
  BY <1>1 DEF IsTotal
<1> HIDE DEF longer
<1>4. longer[1] = 0 /\ longer[(n + 1) + 1] = sum + more
  BY <1>2, <1>3
<1>5. \A b \in 1 .. n + 1 : longer[b + 1] = longer[b] + size[b]
  <2>1. ASSUME NEW b \in 1 .. n
        PROVE  longer[b + 1] = longer[b] + size[b]
    <3>1. b \in 1 .. n + 1 /\ b + 1 \in 1 .. n + 1
      OBVIOUS
    <3>2. total[b + 1] = total[b] + size[b]
      BY <1>1 DEF IsTotal
    <3>3. QED
      BY <1>2, <3>1, <3>2
  <2>2. longer[n + 2] = longer[n + 1] + size[n + 1]
    BY <1>2, <1>3
  <2>3. QED
    BY <2>1, <2>2
<1>6. \A b \in 1 .. (n + 1) + 1 : longer[b] <= sum + more
  <2>1. ASSUME NEW b \in 1 .. n + 1
        PROVE  longer[b] <= sum + more
    <3>1. total[b] <= sum /\ total[b] \in Nat
      BY <1>1 DEF IsTotal
    <3>2. QED
      BY <1>2, <3>1
  <2>2. QED
    BY <1>2, <2>1
<1>7. QED
  BY <1>2, <1>4, <1>5, <1>6 DEF AddsUp, IsTotal

LEMMA RoomAtFirst ==
  ASSUME NEW size, NEW n \in Nat, NEW sum \in Nat, AddsUp(size, n, sum)
  PROVE  Room(size, n, sum, 0, 1, 0)
<1>1. PICK total \in [Nat -> Nat] : IsTotal(total, size, n, sum)
  BY DEF AddsUp
<1>2. 0 <= total[1] + 0
  BY <1>1 DEF IsTotal
<1>3. QED
  BY <1>1, <1>2 DEF Room

(* More is used, and at least as much of the same input is done. *)
LEMMA RoomUsed ==
  ASSUME NEW size, NEW n \in Nat, NEW sum \in Nat, NEW used \in Nat, NEW b \in Nat,
         NEW done \in Nat, Room(size, n, sum, used, b, done),
         NEW more \in Nat, NEW now \in Nat, done + more <= now
  PROVE  Room(size, n, sum, used + more, b, now)
<1>1. PICK total \in [Nat -> Nat] :
        IsTotal(total, size, n, sum) /\ used <= total[b] + done
  BY DEF Room
<1>2. total[b] \in Nat
  BY <1>1
<1>3. used + more <= total[b] + now
  BY <1>1, <1>2
<1>4. QED
  BY <1>1, <1>3 DEF Room

(* One input is done. *)
LEMMA RoomNext ==
  ASSUME NEW size, NEW n \in Nat, NEW sum \in Nat, NEW used \in Nat, NEW b \in 1 .. n,
         NEW done \in Nat, Room(size, n, sum, used, b, done),
         size[b] \in Nat, done <= size[b]
  PROVE  Room(size, n, sum, used, b + 1, 0)
<1>1. PICK total \in [Nat -> Nat] :
        IsTotal(total, size, n, sum) /\ used <= total[b] + done
  BY DEF Room
<1>2. total[b + 1] = total[b] + size[b] /\ total[b] \in Nat
  BY <1>1 DEF IsTotal
<1>3. used <= total[b + 1] + 0
  BY <1>1, <1>2
<1>4. QED
  BY <1>1, <1>3 DEF Room

(* What is used fits. *)
LEMMA RoomFits ==
  ASSUME NEW size, NEW n \in Nat, NEW sum \in Nat, NEW used \in Nat, NEW b \in 1 .. n + 1,
         NEW done \in Nat, Room(size, n, sum, used, b, done),
         IF b <= n THEN size[b] \in Nat /\ done <= size[b] ELSE done = 0
  PROVE  used <= sum
<1>1. PICK total \in [Nat -> Nat] :
        IsTotal(total, size, n, sum) /\ used <= total[b] + done
  BY DEF Room
<1>2. b \in Nat /\ total[b] \in Nat /\ total[b] <= sum
  BY <1>1 DEF IsTotal
<1>3. CASE b <= n
  <2>1. total[b + 1] = total[b] + size[b] /\ total[b + 1] <= sum
    BY <1>1, <1>3 DEF IsTotal
  <2>2. QED
    BY <1>1, <1>2, <1>3, <2>1
<1>4. CASE ~ (b <= n)
  BY <1>1, <1>2, <1>4
<1>5. QED
  BY <1>3, <1>4

-------------------------------------------------------------------------------
SectionCounts == [b \in DOMAIN inputs |-> Len(inputs[b].sections)]
SymbolCounts  == [b \in DOMAIN inputs |-> Len(inputs[b].symbols)]
StringSizes   == [b \in DOMAIN inputs |-> inputs[b].string_size]

(* The object has, at "at", a string for each of its symbols, as the        *)
(* converters and this function write them (format.c:408-409, 748-749,      *)
(* 1041-1046): no two symbols share one.                                    *)
HasStrings(object, at) ==
  /\ at \in [1 .. Len(object.symbols) + 1 -> 0 .. object.string_size]
  /\ \A k \in DOMAIN object.symbols : at[k] + NameSize[object.symbols[k].name] <= at[k + 1]

StringsOfTheirOwn ==
  \A objects \in InputSet : \A b \in DOMAIN objects : \E at : HasStrings(objects[b], at)

(* What the symbols of the b-th input before the k-th may take of strings.  *)
StringsBefore(b, k) ==
  IF b \in DOMAIN inputs THEN (CHOOSE at : HasStrings(inputs[b], at))[k] ELSE 0

(* What the loop over the symbols has taken of the three blocks.            *)
SymbolRoom ==
  /\ Room(SymbolCounts, Len(inputs), estimated.symbols, Len(symbols), bi, si - 1)
  /\ Room(StringSizes, Len(inputs), estimated.strings, string_size, bi, StringsBefore(bi, si))
  /\ IF bi \in DOMAIN inputs THEN si <= Len(inputs[bi].symbols) + 1 ELSE si = 1

FitInv ==
  /\ inputs \in InputSet
  /\ pc = "start" => bi = 1 /\ estimated = NoCapacity
  /\ pc = "parse" =>
       /\ AddsUp(SectionCounts, bi - 1, estimated.sections)
       /\ AddsUp(SymbolCounts, bi - 1, estimated.symbols)
       /\ AddsUp(StringSizes, bi - 1, estimated.strings)
  /\ pc \in {"start", "parse", "sections"} => string_size = 0
  /\ pc = "sections" =>
       /\ Room(SectionCounts, Len(inputs), estimated.sections, Len(sections), bi, 0)
       /\ AddsUp(SymbolCounts, Len(inputs), estimated.symbols)
       /\ AddsUp(StringSizes, Len(inputs), estimated.strings)
  /\ pc = "symbols" => SymbolRoom
  /\ TablesFit

(* What the three counts are, and the strings of an input. *)
LEMMA CountsAre ==
  ASSUME TypeOK
  PROVE  /\ Len(inputs) \in Nat /\ DOMAIN inputs = 1 .. Len(inputs)
         /\ bi \in 1 .. Len(inputs) + 1 /\ bi \in Nat /\ si \in Nat /\ si - 1 \in Nat
         /\ estimated.sections \in Nat /\ estimated.symbols \in Nat
         /\ estimated.strings \in Nat
         /\ Len(sections) \in Nat /\ Len(symbols) \in Nat /\ string_size \in Nat
         /\ \A b \in DOMAIN inputs :
              /\ SectionCounts[b] = Len(inputs[b].sections) /\ SectionCounts[b] \in Nat
              /\ SymbolCounts[b] = Len(inputs[b].symbols) /\ SymbolCounts[b] \in Nat
              /\ StringSizes[b] = inputs[b].string_size /\ StringSizes[b] \in Nat
<1>1. /\ Len(inputs) \in Nat /\ DOMAIN inputs = 1 .. Len(inputs)
      /\ bi \in 1 .. Len(inputs) + 1 /\ bi \in Nat /\ si \in Nat /\ si - 1 \in Nat
  BY DEF TypeOK
<1>2. /\ estimated.sections \in Nat /\ estimated.symbols \in Nat /\ estimated.strings \in Nat
      /\ Len(sections) \in Nat /\ Len(symbols) \in Nat /\ string_size \in Nat
  BY DEF TypeOK
<1>3. \A b \in DOMAIN inputs :
        /\ Len(inputs[b].sections) \in Nat /\ Len(inputs[b].symbols) \in Nat
        /\ inputs[b].string_size \in Nat
  BY InputTyped
<1>4. QED
  BY <1>1, <1>2, <1>3 DEF SectionCounts, SymbolCounts, StringSizes

LEMMA StringsBeforeAre ==
  ASSUME TypeOK, StringsOfTheirOwn, inputs \in InputSet
  PROVE  /\ \A b \in Nat : b \notin DOMAIN inputs => \A k \in Nat : StringsBefore(b, k) = 0
         /\ \A b \in DOMAIN inputs :
              \A k \in 1 .. Len(inputs[b].symbols) + 1 :
                /\ StringsBefore(b, k) \in Nat
                /\ StringsBefore(b, k) <= inputs[b].string_size
         /\ \A b \in DOMAIN inputs :
              \A k \in DOMAIN inputs[b].symbols :
                StringsBefore(b, k) + NameSize[inputs[b].symbols[k].name]
                  <= StringsBefore(b, k + 1)
<1>1. \A b \in DOMAIN inputs :
        HasStrings(inputs[b], CHOOSE at : HasStrings(inputs[b], at))
  BY DEF StringsOfTheirOwn
<1>2. \A b \in DOMAIN inputs :
        \A k : StringsBefore(b, k) = (CHOOSE at : HasStrings(inputs[b], at))[k]
  BY DEF StringsBefore
<1>3. \A b \in DOMAIN inputs : inputs[b].string_size \in Nat
  BY InputTyped
<1>4. ASSUME NEW b \in DOMAIN inputs
      PROVE  /\ \A k \in 1 .. Len(inputs[b].symbols) + 1 :
                  /\ StringsBefore(b, k) \in Nat
                  /\ StringsBefore(b, k) <= inputs[b].string_size
             /\ \A k \in DOMAIN inputs[b].symbols :
                  StringsBefore(b, k) + NameSize[inputs[b].symbols[k].name]
                    <= StringsBefore(b, k + 1)
  <2>1. PICK at : HasStrings(inputs[b], at) /\ \A k : StringsBefore(b, k) = at[k]
    BY <1>1, <1>2
  <2>2. QED
    BY <1>3, <2>1 DEF HasStrings
<1>5. QED
  BY <1>4 DEF StringsBefore

(* The invariant speaks of nothing but these. *)
LEMMA FitInvUnchanged ==
  ASSUME FitInv, UNCHANGED << given, pc, bi, si, estimated, tables >>
  PROVE  FitInv'
<1>1. /\ inputs' = inputs /\ pc' = pc /\ bi' = bi /\ si' = si /\ estimated' = estimated
      /\ sections' = sections /\ symbols' = symbols /\ string_size' = string_size
  BY DEF given, tables
<1>2. /\ SectionCounts' = SectionCounts /\ SymbolCounts' = SymbolCounts
      /\ StringSizes' = StringSizes
      /\ \A b, k : StringsBefore(b, k)' = StringsBefore(b, k)
  BY <1>1 DEF SectionCounts, SymbolCounts, StringSizes, StringsBefore
<1>3. SymbolRoom' = SymbolRoom
  BY <1>1, <1>2 DEF SymbolRoom
<1>4. QED
  BY <1>1, <1>2, <1>3 DEF FitInv, TablesFit

(* Outside the loops that count and fill, only TablesFit is left. *)
LEMMA OtherLoopsFit ==
  ASSUME FitInv, UNCHANGED << given, estimated >>,
         Len(sections') = Len(sections), symbols' = symbols, string_size' = string_size,
         pc' \notin {"start", "parse", "sections", "symbols"}
  PROVE  FitInv'
<1>1. inputs' = inputs /\ estimated' = estimated
  BY DEF given
<1>2. QED
  BY <1>1 DEF FitInv, TablesFit

-------------------------------------------------------------------------------
LEMMA InitFitInv == Init => FitInv
<1> SUFFICES ASSUME Init PROVE FitInv
  OBVIOUS
<1>1. /\ inputs \in InputSet /\ pc = "start" /\ bi = 1 /\ estimated = NoCapacity
      /\ sections = << >> /\ symbols = << >> /\ string_size = 0
  BY DEF Init
<1>2. TablesFit
  BY <1>1 DEF TablesFit, NoCapacity
<1>3. QED
  BY <1>1, <1>2 DEF FitInv

LEMMA CountsUnchanged ==
  ASSUME inputs' = inputs
  PROVE  /\ SectionCounts' = SectionCounts /\ SymbolCounts' = SymbolCounts
         /\ StringSizes' = StringSizes
         /\ \A b, k : StringsBefore(b, k)' = StringsBefore(b, k)
BY DEF SectionCounts, SymbolCounts, StringSizes, StringsBefore

LEMMA StartFits ==
  ASSUME FitInv, IInv, Start
  PROVE  FitInv'
<1>1. /\ pc = "start" /\ bi' = bi /\ UNCHANGED << given, estimated, tables >>
  BY DEF Start
<1>2. CASE pc' = "parse"
  <2>1. /\ inputs' = inputs /\ sections' = sections /\ symbols' = symbols
        /\ string_size' = string_size /\ bi' = 1 /\ estimated' = NoCapacity
        /\ estimated' = estimated
    BY <1>1 DEF given, tables, FitInv
  <2>2. bi' - 1 = 0
    BY <2>1
  <2>3. /\ AddsUp(SectionCounts', bi' - 1, estimated'.sections)
        /\ AddsUp(SymbolCounts', bi' - 1, estimated'.symbols)
        /\ AddsUp(StringSizes', bi' - 1, estimated'.strings)
    BY <2>1, <2>2, NothingAddsUp DEF NoCapacity
  <2>4. QED
    BY <1>1, <1>2, <2>1, <2>3 DEF FitInv, TablesFit
<1>3. CASE pc' = "failed"
  BY <1>1, <1>3, OtherLoopsFit DEF tables
<1>4. QED
  BY <1>2, <1>3 DEF Start

LEMMA ParseInputFits ==
  ASSUME FitInv, IInv, ParseInput
  PROVE  FitInv'
<1>1. pc = "parse" /\ bi \in DOMAIN inputs /\ TypeOK
  BY DEF ParseInput, IInv
<1>2. CASE \E why : Fail(why)
  <2>1. pc' = "cleanup" /\ UNCHANGED << given, estimated, tables >>
    BY <1>2 DEF Fail
  <2>2. QED
    BY <2>1, OtherLoopsFit DEF tables
<1>3. CASE /\ bi' = bi + 1
           /\ estimated' =
                [ sections |-> estimated.sections + Len(inputs[bi].sections),
                  symbols  |-> estimated.symbols + Len(inputs[bi].symbols),
                  strings  |-> estimated.strings + inputs[bi].string_size ]
           /\ UNCHANGED << given, pc, error, si, tables >>
  <2>1. /\ inputs' = inputs /\ pc' = "parse" /\ sections' = << >> /\ symbols' = << >>
        /\ string_size' = 0
    BY <1>1, <1>3 DEF given, tables, FitInv, IInv, TablesStartEmpty
  <2>2. PICK n \in Nat : n = bi - 1 /\ bi = n + 1 /\ bi' - 1 = n + 1
    <3>1. bi \in Nat \ {0}
      BY <1>1, CountsAre
    <3>2. bi - 1 \in Nat /\ bi = (bi - 1) + 1 /\ (bi + 1) - 1 = (bi - 1) + 1
      BY <3>1
    <3>3. QED
      BY <1>3, <3>2
  <2>3. AddsUp(SectionCounts, n + 1, estimated.sections + Len(inputs[bi].sections))
    BY <1>1, <2>2, CountsAre, AddsUpNext DEF FitInv
  <2>4. AddsUp(SymbolCounts, n + 1, estimated.symbols + Len(inputs[bi].symbols))
    BY <1>1, <2>2, CountsAre, AddsUpNext DEF FitInv
  <2>5. AddsUp(StringSizes, n + 1, estimated.strings + inputs[bi].string_size)
    BY <1>1, <2>2, CountsAre, AddsUpNext DEF FitInv
  <2>6. /\ estimated'.sections = estimated.sections + Len(inputs[bi].sections)
        /\ estimated'.symbols = estimated.symbols + Len(inputs[bi].symbols)
        /\ estimated'.strings = estimated.strings + inputs[bi].string_size
    BY <1>3
  <2>7. /\ estimated'.sections \in Nat /\ estimated'.symbols \in Nat
        /\ estimated'.strings \in Nat
    <3>1. /\ estimated.sections \in Nat /\ Len(inputs[bi].sections) \in Nat
          /\ estimated.symbols \in Nat /\ Len(inputs[bi].symbols) \in Nat
          /\ estimated.strings \in Nat /\ inputs[bi].string_size \in Nat
      BY <1>1, CountsAre, InputTyped
    <3>2. QED
      BY <2>6, <3>1, SumIsNatural, Zenon
  <2>8. TablesFit'
    BY <2>1, <2>7 DEF TablesFit
  <2>9. /\ AddsUp(SectionCounts', bi' - 1, estimated'.sections)
        /\ AddsUp(SymbolCounts', bi' - 1, estimated'.symbols)
        /\ AddsUp(StringSizes', bi' - 1, estimated'.strings)
    BY <2>1, <2>2, <2>3, <2>4, <2>5, <2>6, CountsUnchanged
  <2>10. QED
    BY <2>1, <2>8, <2>9 DEF FitInv
<1>4. QED
  BY <1>2, <1>3 DEF ParseInput

LEMMA AllocateFits ==
  ASSUME FitInv, IInv, Allocate
  PROVE  FitInv'
<1>1. /\ pc = "parse" /\ bi > Len(inputs) /\ pc' = "sections" /\ bi' = 1
      /\ inputs' = inputs /\ estimated' = estimated /\ sections' = << >> /\ symbols' = << >>
      /\ string_size' = 0 /\ UNCHANGED << given, tables >> /\ TypeOK
  BY DEF Allocate, Proceed, given, tables, FitInv, IInv, TablesStartEmpty
<1>2. bi - 1 = Len(inputs)
  BY <1>1, CountsAre
<1>3. /\ AddsUp(SectionCounts, Len(inputs), estimated.sections)
      /\ AddsUp(SymbolCounts, Len(inputs), estimated.symbols)
      /\ AddsUp(StringSizes, Len(inputs), estimated.strings)
  BY <1>1, <1>2 DEF FitInv
<1>4. Room(SectionCounts, Len(inputs), estimated.sections, 0, 1, 0)
  BY <1>1, <1>3, CountsAre, RoomAtFirst
<1>5. Len(sections') = 0 /\ TablesFit'
  BY <1>1 DEF FitInv, TablesFit, tables
<1>6. QED
  BY <1>1, <1>3, <1>4, <1>5, CountsUnchanged DEF FitInv

LEMMA MergeSectionsFits ==
  ASSUME FitInv, IInv, MergeSections
  PROVE  FitInv'
<1> DEFINE own == inputs[bi].sections
           copy == [k \in DOMAIN own |-> [data |-> own[k].data, relocations |-> << >>]]
<1>1. /\ pc = "sections" /\ pc' = "sections" /\ bi \in DOMAIN inputs /\ bi' = bi + 1
      /\ sections' = sections \o copy /\ inputs' = inputs /\ estimated' = estimated
      /\ symbols' = symbols /\ string_size' = string_size /\ TypeOK
  BY DEF MergeSections, given, IInv
<1>2. Len(sections') = Len(sections) + Len(own)
  <2>1. own \in Seq(BarfSection(Data, Offset)) /\ sections \in Seq(BarfSection(Data, Offset))
    BY <1>1, InputTyped DEF TypeOK
  <2>2. Len(own) \in Nat /\ DOMAIN own = 1 .. Len(own)
    BY <2>1
  <2>3. copy \in [1 .. Len(own) -> {[data |-> own[k].data, relocations |-> << >>] :
                                      k \in DOMAIN own}]
    BY <2>2
  <2> HIDE DEF copy, own
  <2>4. Len(copy) = Len(own) /\ Len(sections \o copy) = Len(sections) + Len(copy)
    BY <2>1, <2>2, <2>3, SequenceOf, ConcatProperties
  <2>5. QED
    BY <1>1, <2>4
<1> HIDE DEF copy
<1>3. PICK more \in Nat, used \in Nat :
        more = Len(own) /\ SectionCounts[bi] = more /\ used = Len(sections) + more
  <2>1. Len(own) \in Nat /\ SectionCounts[bi] = Len(own) /\ Len(sections) \in Nat
    BY <1>1, CountsAre
  <2>2. Len(sections) + Len(own) \in Nat
    BY <2>1
  <2>3. QED
    BY <2>1, <2>2
<1>4. /\ Len(inputs) \in Nat /\ bi \in 1 .. Len(inputs) /\ bi \in 1 .. Len(inputs) + 1
      /\ bi \in Nat /\ estimated.sections \in Nat /\ Len(sections) \in Nat
      /\ 0 + more <= more /\ bi <= Len(inputs) /\ more <= SectionCounts[bi]
      /\ SectionCounts[bi] \in Nat /\ 0 \in Nat
  BY <1>1, <1>3, CountsAre
<1>5. Room(SectionCounts, Len(inputs), estimated.sections, Len(sections), bi, 0)
  BY <1>1 DEF FitInv
<1>6. Room(SectionCounts, Len(inputs), estimated.sections, used, bi, more)
  BY <1>3, <1>4, <1>5, RoomUsed
<1>7. Room(SectionCounts, Len(inputs), estimated.sections, used, bi + 1, 0)
  BY <1>3, <1>4, <1>6, RoomNext
<1>8. used <= estimated.sections
  BY <1>3, <1>4, <1>6, RoomFits
<1>9. Len(sections') = used
  BY <1>2, <1>3
<1>10. TablesFit'
  BY <1>1, <1>8, <1>9 DEF FitInv, TablesFit
<1>11. QED
  BY <1>1, <1>7, <1>9, <1>10, CountsUnchanged DEF FitInv

LEMMA SectionsMergedFits ==
  ASSUME FitInv, IInv, StringsOfTheirOwn, SectionsMerged
  PROVE  FitInv'
<1>1. /\ pc = "sections" /\ pc' = "symbols" /\ bi' = 1 /\ si' = 1 /\ inputs' = inputs
      /\ estimated' = estimated /\ sections' = sections /\ symbols' = symbols
      /\ symbols = << >> /\ string_size' = string_size /\ string_size = 0 /\ TypeOK
      /\ inputs \in InputSet
  BY DEF SectionsMerged, Proceed, given, tables, FitInv, IInv, TablesStartEmpty
<1>2. /\ Len(inputs) \in Nat /\ DOMAIN inputs = 1 .. Len(inputs)
      /\ estimated.symbols \in Nat /\ estimated.strings \in Nat /\ 0 \in Nat /\ 1 \in Nat
  BY <1>1, CountsAre
<1>3. /\ Room(SymbolCounts, Len(inputs), estimated.symbols, 0, 1, 0)
      /\ Room(StringSizes, Len(inputs), estimated.strings, 0, 1, 0)
  BY <1>1, <1>2, RoomAtFirst DEF FitInv
<1>4. StringsBefore(1, 1) \in Nat /\ 0 + 0 <= StringsBefore(1, 1) /\ 0 + 0 = 0
  <2>1. CASE 1 \in DOMAIN inputs
    <3>1. 1 \in 1 .. Len(inputs[1].symbols) + 1
      BY <1>1, <2>1, CountsAre
    <3>2. StringsBefore(1, 1) \in Nat
      BY <1>1, <2>1, <3>1, StringsBeforeAre
    <3>3. QED
      BY <3>2
  <2>2. CASE 1 \notin DOMAIN inputs
    BY <2>2 DEF StringsBefore
  <2>3. QED
    BY <2>1, <2>2
<1>5. Room(StringSizes, Len(inputs), estimated.strings, 0 + 0, 1, StringsBefore(1, 1))
  BY <1>2, <1>3, <1>4, RoomUsed
<1>6. 1 \in DOMAIN inputs => 1 <= Len(inputs[1].symbols) + 1
  BY <1>1, CountsAre
<1>7. Len(symbols') = 0 /\ si' - 1 = 0
  BY <1>1
<1>8. SymbolRoom'
  BY <1>1, <1>3, <1>4, <1>5, <1>6, <1>7, CountsUnchanged DEF SymbolRoom
<1>9. QED
  BY <1>1, <1>8 DEF FitInv, TablesFit

(* A symbol takes at most one entry and one string. *)
LEMMA NextSymbolFits ==
  ASSUME FitInv, IInv, StringsOfTheirOwn, InSymbolLoop, TypeOK', NextSymbol,
         NEW entry \in {0, 1}, Len(symbols') = Len(symbols) + entry,
         NEW bytes \in {0, NameSize[Current.name]}, string_size' = string_size + bytes
  PROVE  FitInv'
<1>1. /\ pc = "symbols" /\ pc' = pc /\ bi \in DOMAIN inputs /\ bi' = bi /\ si' = si + 1
      /\ si \in DOMAIN inputs[bi].symbols /\ inputs' = inputs /\ estimated' = estimated
      /\ sections' = sections /\ TypeOK /\ inputs \in InputSet /\ SymbolRoom
  BY DEF InSymbolLoop, NextSymbol, given, FitInv, IInv
<1>2. /\ Len(inputs) \in Nat /\ bi \in Nat /\ si \in Nat /\ si - 1 \in Nat
      /\ estimated.symbols \in Nat /\ estimated.strings \in Nat
      /\ Len(symbols) \in Nat /\ string_size \in Nat /\ entry \in Nat
  BY <1>1, CountsAre
<1>3. bytes \in Nat /\ bytes <= NameSize[Current.name] /\ NameSize[Current.name] \in Nat
  <2>1. Current.name \in Name
    BY <1>1, SymbolTyped DEF Current, BarfSymbol
  <2>2. NameSize[Current.name] \in Nat
    BY <2>1, NameSizeAssumption
  <2>3. QED
    BY <2>2
<1>4. si' <= Len(inputs[bi].symbols) + 1 /\ si' \in Nat /\ si' - 1 \in Nat /\ si' - 1 = si
      /\ si \in 1 .. Len(inputs[bi].symbols) + 1 /\ si + 1 \in 1 .. Len(inputs[bi].symbols) + 1
  <2>1. Len(inputs[bi].symbols) \in Nat /\ DOMAIN inputs[bi].symbols = 1 .. Len(inputs[bi].symbols)
    BY <1>1, InputTyped
  <2>2. QED
    BY <1>1, <1>2, <2>1
<1>5. Room(SymbolCounts, Len(inputs), estimated.symbols, Len(symbols) + entry, bi, si)
  <2>1. (si - 1) + entry <= si
    BY <1>2
  <2>2. QED
    BY <1>1, <1>2, <2>1, RoomUsed DEF SymbolRoom
<1>6. Room(StringSizes, Len(inputs), estimated.strings, string_size + bytes, bi,
           StringsBefore(bi, si + 1))
  <2>1. /\ StringsBefore(bi, si) \in Nat /\ StringsBefore(bi, si + 1) \in Nat
        /\ StringsBefore(bi, si) + NameSize[Current.name] <= StringsBefore(bi, si + 1)
    BY <1>1, <1>4, StringsBeforeAre DEF Current
  <2>2. StringsBefore(bi, si) + bytes <= StringsBefore(bi, si + 1)
    BY <1>3, <2>1
  <2>3. QED
    BY <1>1, <1>2, <1>3, <2>1, <2>2, RoomUsed DEF SymbolRoom
<1>7. SymbolRoom'
  BY <1>1, <1>4, <1>5, <1>6, CountsUnchanged DEF SymbolRoom
<1>8. Len(symbols') <= estimated'.symbols /\ string_size' <= estimated'.strings
  <2>1. /\ SymbolCounts[bi] = Len(inputs[bi].symbols) /\ SymbolCounts[bi] \in Nat
        /\ StringSizes[bi] = inputs[bi].string_size /\ StringSizes[bi] \in Nat
    BY <1>1, CountsAre
  <2>0. bi <= Len(inputs) /\ bi \in 1 .. Len(inputs) + 1
    BY <1>1, CountsAre
  <2>2. si <= SymbolCounts[bi] /\ StringsBefore(bi, si + 1) \in Nat
        /\ StringsBefore(bi, si + 1) <= StringSizes[bi]
    BY <1>1, <1>2, <1>4, <2>1, StringsBeforeAre
  <2>3. Len(symbols) + entry \in Nat /\ string_size + bytes \in Nat
    BY <1>2, <1>3
  <2>4. Len(symbols) + entry <= estimated.symbols
    BY <1>2, <1>5, <2>0, <2>1, <2>2, <2>3, RoomFits
  <2>5. string_size + bytes <= estimated.strings
    BY <1>2, <1>6, <2>0, <2>1, <2>2, <2>3, RoomFits
  <2>6. QED
    BY <1>1, <2>4, <2>5
<1>9. QED
  BY <1>1, <1>7, <1>8 DEF FitInv, TablesFit

LEMMA MergeSymbolFits ==
  ASSUME FitInv, IInv, StringsOfTheirOwn, MergeSymbol, TypeOK'
  PROVE  FitInv'
<1>1. InSymbolLoop /\ pc = "symbols" /\ Len(symbols) \in Nat /\ string_size \in Nat
      /\ symbols \in Seq(BarfSymbol(Name, Offset)) /\ DOMAIN symbols = 1 .. Len(symbols)
  BY DEF MergeSymbol, InSymbolLoop, IInv, TypeOK
<1>2. ASSUME NEW why, Fail(why) \/ Crash(why)
      PROVE  FitInv'
  BY <1>2, OtherLoopsFit DEF Fail, Crash, tables
<1>3. ASSUME NEW place, Add(place)
      PROVE  FitInv'
  <2> DEFINE new == [ type |-> Current.type, name |-> Current.name,
                      section_index |-> place, offset |-> Current.offset ]
  <2>1. symbols' = Append(symbols, new) /\ NextSymbol
        /\ string_size' = string_size + NameSize[Current.name]
    BY <1>3 DEF Add
  <2> HIDE DEF new
  <2>2. Len(symbols') = Len(symbols) + 1
    BY <1>1, <2>1
  <2>3. QED
    BY <1>1, <2>1, <2>2, NextSymbolFits
<1>4. ASSUME NextSymbol, Len(symbols') = Len(symbols), string_size' = string_size
      PROVE  FitInv'
  <2>1. Len(symbols') = Len(symbols) + 0 /\ string_size' = string_size + 0
    BY <1>1, <1>4
  <2>2. QED
    BY <1>1, <1>4, <2>1, NextSymbolFits
<1>5. CASE MergeLocal \/ AddExternal
  BY <1>3, <1>5 DEF MergeLocal, AddExternal
<1>6. CASE ShareExternal \/ SkipUnknown
  BY <1>4, <1>6 DEF ShareExternal, SkipUnknown
<1>7. CASE RejectDuplicate \/ FaultUnplaced
  BY <1>2, <1>7 DEF RejectDuplicate, FaultUnplaced
<1>8. CASE PromoteExternal
  <2>1. PICK i \in DOMAIN symbols : symbols' = [symbols EXCEPT ![i] =
            [ type |-> BARF_SYMBOL_GLOBAL, name |-> symbols[i].name,
              section_index |-> CurrentPlace, offset |-> Current.offset ]]
    BY <1>8 DEF PromoteExternal
  <2>2. DOMAIN symbols' = 1 .. Len(symbols) /\ Len(symbols') \in Nat
        /\ DOMAIN symbols' = 1 .. Len(symbols')
    BY <1>1, <2>1 DEF TypeOK
  <2>3. Len(symbols') = Len(symbols)
    BY <1>1, <2>2
  <2>4. QED
    BY <1>4, <1>8, <2>3 DEF PromoteExternal
<1>9. CASE AddGlobal
  BY <1>2, <1>3, <1>9 DEF AddGlobal
<1>10. QED
  BY <1>5, <1>6, <1>7, <1>8, <1>9 DEF MergeSymbol

(* The next table starts with all of this one done. *)
LEMMA NextTableFits ==
  ASSUME FitInv, IInv, StringsOfTheirOwn, NextTable
  PROVE  FitInv'
<1>1. /\ pc = "symbols" /\ pc' = pc /\ bi \in DOMAIN inputs /\ bi' = bi + 1 /\ si' = 1
      /\ si > Len(inputs[bi].symbols) /\ inputs' = inputs /\ estimated' = estimated
      /\ sections' = sections /\ symbols' = symbols /\ string_size' = string_size
      /\ TypeOK /\ inputs \in InputSet /\ SymbolRoom
  BY DEF NextTable, given, tables, FitInv, IInv
<1>2. /\ Len(inputs) \in Nat /\ bi \in Nat /\ si \in Nat /\ bi \in 1 .. Len(inputs)
      /\ estimated.symbols \in Nat /\ estimated.strings \in Nat /\ 0 \in Nat
      /\ Len(symbols) \in Nat /\ string_size \in Nat /\ bi + 1 \in Nat
  BY <1>1, CountsAre
<1>3. /\ SymbolCounts[bi] = Len(inputs[bi].symbols) /\ SymbolCounts[bi] \in Nat
      /\ StringSizes[bi] = inputs[bi].string_size /\ StringSizes[bi] \in Nat
  BY <1>1, CountsAre
<1>4. si - 1 = SymbolCounts[bi] /\ si \in 1 .. Len(inputs[bi].symbols) + 1
      /\ si - 1 \in Nat /\ si - 1 <= SymbolCounts[bi]
  BY <1>1, <1>2, <1>3 DEF SymbolRoom
<1>5. StringsBefore(bi, si) \in Nat /\ StringsBefore(bi, si) <= StringSizes[bi]
  BY <1>1, <1>3, <1>4, StringsBeforeAre
<1>6. Room(SymbolCounts, Len(inputs), estimated.symbols, Len(symbols), bi + 1, 0)
  BY <1>1, <1>2, <1>3, <1>4, RoomNext DEF SymbolRoom
<1>7. Room(StringSizes, Len(inputs), estimated.strings, string_size, bi + 1, 0)
  BY <1>1, <1>2, <1>3, <1>5, RoomNext DEF SymbolRoom
<1>8. StringsBefore(bi + 1, 1) \in Nat /\ 0 + 0 <= StringsBefore(bi + 1, 1)
      /\ string_size + 0 = string_size
  <2>1. CASE bi + 1 \in DOMAIN inputs
    <3>1. 1 \in 1 .. Len(inputs[bi + 1].symbols) + 1
      BY <1>1, <2>1, CountsAre
    <3>2. StringsBefore(bi + 1, 1) \in Nat
      BY <1>1, <2>1, <3>1, StringsBeforeAre
    <3>3. QED
      BY <1>2, <3>2
  <2>2. CASE bi + 1 \notin DOMAIN inputs
    BY <1>2, <2>2 DEF StringsBefore
  <2>3. QED
    BY <2>1, <2>2
<1>9. Room(StringSizes, Len(inputs), estimated.strings, string_size + 0, bi + 1,
           StringsBefore(bi + 1, 1))
  BY <1>2, <1>7, <1>8, RoomUsed
<1>10. bi + 1 \in DOMAIN inputs => 1 <= Len(inputs[bi + 1].symbols) + 1
  BY <1>1, CountsAre
<1>11. si' - 1 = 0
  BY <1>1
<1>12. SymbolRoom'
  BY <1>1, <1>6, <1>8, <1>9, <1>10, <1>11, CountsUnchanged DEF SymbolRoom
<1>13. QED
  BY <1>1, <1>12 DEF FitInv, TablesFit

LEMMA LaterLoopsFit ==
  ASSUME FitInv, IInv, SymbolsMerged \/ Relocate \/ Relocated \/ WriteOutput \/ Cleanup
  PROVE  FitInv'
<1>1. CASE SymbolsMerged \/ Relocated \/ WriteOutput \/ Cleanup
  BY <1>1, OtherLoopsFit
     DEF SymbolsMerged, Relocated, WriteOutput, Cleanup, Proceed, Fail, Crash, tables
<1>2. CASE Relocate /\ ~ Crash("fault")
  <2>1. /\ pc' = "relocations" /\ UNCHANGED << given, estimated >> /\ symbols' = symbols
        /\ string_size' = string_size
    BY <1>2 DEF Relocate
  <2>2. DOMAIN sections' = DOMAIN sections
    BY <1>2 DEF Relocate
  <2>3. /\ Len(sections) \in Nat /\ Len(sections') \in Nat
        /\ DOMAIN sections = 1 .. Len(sections) /\ DOMAIN sections' = 1 .. Len(sections')
    <3>1. UNCHANGED << inputs, output_opens >>
      BY <1>2 DEF Relocate, given
    <3>2. IInv'
      BY <1>2, <3>1, RelocateKeepsIInv
    <3>3. /\ sections \in Seq(BarfSection(Data, Offset))
          /\ sections' \in Seq(BarfSection(Data, Offset))
      BY <3>2 DEF IInv, TypeOK
    <3>4. QED
      BY <3>3
  <2>4. Len(sections') = Len(sections)
    BY <2>2, <2>3
  <2>5. QED
    BY <2>1, <2>4, OtherLoopsFit
<1>3. CASE Crash("fault")
  BY <1>3, OtherLoopsFit DEF Crash, tables
<1>4. QED
  BY <1>1, <1>2, <1>3

(* The merged tables and strings stay in the blocks allocated for them, for *)
(* any number of inputs of any size, if each symbol of an input has a       *)
(* string of its own (format.c:939-975, 1015, 1034-1146).     *)
THEOREM CapacitiesSuffice ==
  ASSUME StringsOfTheirOwn
  PROVE  Spec => []TablesFit
<1>1. Init => FitInv
  BY InitFitInv
<1>2. IInv /\ IInv' /\ FitInv /\ [Next]_vars => FitInv'
  <2> SUFFICES ASSUME IInv, IInv', FitInv, [Next]_vars
               PROVE  FitInv'
    OBVIOUS
  <2>1. TypeOK'
    BY DEF IInv
  <2>2. CASE UNCHANGED vars
    BY <2>2, FitInvUnchanged DEF vars
  <2>3. CASE Next
    BY <2>1, <2>3, StartFits, ParseInputFits, AllocateFits, MergeSectionsFits,
       SectionsMergedFits, MergeSymbolFits, NextTableFits, LaterLoopsFit DEF Next
  <2>4. QED
    BY <2>2, <2>3
<1>3. FitInv => TablesFit
  BY DEF FitInv
<1>4. QED
  BY <1>1, <1>2, <1>3, Invariance, PTL DEF Spec

-------------------------------------------------------------------------------
(* How far the loops have come, whatever of the inputs is asked about.      *)
IsRead(b) ==
  \/ pc = "parse" /\ b < bi
  \/ pc \in {"sections", "symbols", "relocations", "write"}

IsCopied(b) ==
  \/ pc = "sections" /\ b < bi
  \/ pc \in {"symbols", "relocations", "write"}

IsMerged(ref) ==
  \/ pc = "symbols" /\ ref[1] < bi
  \/ pc = "symbols" /\ ref[1] = bi /\ ref[2] < si
  \/ pc \in {"relocations", "write"}

IsRelocated(b) ==
  \/ pc = "relocations" /\ b < bi
  \/ pc = "write"

-------------------------------------------------------------------------------
(* The inputs that were read can be combined.                               *)
ReadAgree ==
  /\ pc = "start" => bi = 1
  /\ pc \in {"parse", "sections", "symbols", "relocations", "write"} => inputs # << >>
  /\ \A b \in DOMAIN inputs : IsRead(b) =>
       inputs[b].readable /\ inputs[b].target = inputs[1].target

(* Each section that was copied has a place of its own, and its data there. *)
CopiedHaveData ==
  \A ref \in SectionRef(inputs) : IsCopied(ref[1]) =>
    /\ section_mapping[ref] \in DOMAIN sections
    /\ sections[section_mapping[ref]].data = SectionAt(inputs, ref).data

CopiedAreDistinct ==
  \A ref, other \in SectionRef(inputs) :
    /\ IsCopied(ref[1]) /\ IsCopied(other[1])
    /\ section_mapping[ref] = section_mapping[other]
    => ref = other

(* The symbols that have an entry are those the loop has passed, unless     *)
(* their type is unknown.                                                   *)
MergedAreMapped ==
  \A ref \in SymbolRef(inputs) :
    pc \in {"symbols", "relocations", "write"} =>
      (symbol_mapping[ref] # Unmapped
         <=> IsMerged(ref) /\ SymbolAt(inputs, ref).type # UnknownType)

DefinedArePlaced ==
  \A ref \in SymbolRef(inputs) :
    symbol_mapping[ref] # Unmapped /\ Defines(SymbolAt(inputs, ref)) =>
      SymbolAt(inputs, ref).section_index \in DOMAIN inputs[ref[1]].sections

(* A merged global stands for one global of the inputs, and for no other.   *)
GlobalsHaveOrigin ==
  \A i \in DOMAIN symbols : symbols[i].type = BARF_SYMBOL_GLOBAL =>
    \E ref \in SymbolRef(inputs) :
      symbol_mapping[ref] = i /\ SymbolAt(inputs, ref).type = BARF_SYMBOL_GLOBAL

GlobalsAreOwn ==
  \A ref, other \in SymbolRef(inputs) :
    /\ symbol_mapping[ref] # Unmapped /\ symbol_mapping[ref] = symbol_mapping[other]
    /\ SymbolAt(inputs, ref).type = BARF_SYMBOL_GLOBAL
    /\ SymbolAt(inputs, other).type = BARF_SYMBOL_GLOBAL
    => ref = other

(* A relocation that was rewritten is the input's but for its symbol.       *)
RelocatedAreRenumbered ==
  \A rel \in RelocationRef(inputs) : IsRelocated(rel[1][1]) =>
    LET original == RelocationAt(inputs, rel)
    IN  /\ original.symbol_index \in DOMAIN inputs[rel[1][1]].symbols
        /\ MergedRelocation(rel).offset = original.offset
        /\ MergedRelocation(rel).symbol_index =
             symbol_mapping[<<rel[1][1], original.symbol_index>>]

(* What is refused cannot be linked.                                        *)
RefusedAreNotLinkable == pc = "cleanup" => ~ (Abstract!Linkable /\ output_opens)

LInv ==
  /\ ReadAgree
  /\ CopiedHaveData
  /\ CopiedAreDistinct
  /\ MergedAreMapped
  /\ DefinedArePlaced
  /\ GlobalsHaveOrigin
  /\ GlobalsAreOwn
  /\ RelocatedAreRenumbered
  /\ RefusedAreNotLinkable

-------------------------------------------------------------------------------
(* Link looks into the inputs as Combine does.                              *)
LEMMA LinkLooksAlike ==
  ASSUME NEW objects
  PROVE  /\ Abstract!SectionRef(objects) = SectionRef(objects)
         /\ Abstract!SymbolRef(objects) = SymbolRef(objects)
         /\ Abstract!RelocationRef(objects) = RelocationRef(objects)
         /\ \A ref : /\ Abstract!SectionAt(objects, ref) = SectionAt(objects, ref)
                     /\ Abstract!SymbolAt(objects, ref) = SymbolAt(objects, ref)
                     /\ Abstract!RelocationAt(objects, ref) = RelocationAt(objects, ref)
<1>1. Abstract!SectionRef(objects) = SectionRef(objects)
  BY DEF SectionRef, Abstract!SectionRef
<1>2. Abstract!SymbolRef(objects) = SymbolRef(objects)
  BY DEF SymbolRef, Abstract!SymbolRef
<1>3. Abstract!RelocationRef(objects) = RelocationRef(objects)
  BY <1>1 DEF RelocationRef, Abstract!RelocationRef
<1>4. QED
  BY <1>1, <1>2, <1>3 DEF SectionAt, SymbolAt, RelocationAt, Abstract!SectionAt,
     Abstract!SymbolAt, Abstract!RelocationAt

LEMMA GlobalsNamedAre ==
  ASSUME NEW name
  PROVE  Abstract!GlobalsNamed(name) =
           {ref \in SymbolRef(inputs) : /\ SymbolAt(inputs, ref).type = BARF_SYMBOL_GLOBAL
                                        /\ SymbolAt(inputs, ref).name = name}
BY LinkLooksAlike DEF Abstract!GlobalsNamed, Abstract!BARF_SYMBOL_GLOBAL, BARF_SYMBOL_GLOBAL

LEMMA NoDuplicateGlobalMeans ==
  Abstract!NoDuplicateGlobal <=>
    \A ref, other \in SymbolRef(inputs) :
      /\ SymbolAt(inputs, ref).type = BARF_SYMBOL_GLOBAL
      /\ SymbolAt(inputs, other).type = BARF_SYMBOL_GLOBAL
      /\ SymbolAt(inputs, ref).name = SymbolAt(inputs, other).name
      => ref = other
<1>1. Abstract!NoDuplicateGlobal <=>
        \A ref \in SymbolRef(inputs) :
          \A g, h \in Abstract!GlobalsNamed(SymbolAt(inputs, ref).name) : g = h
  BY LinkLooksAlike DEF Abstract!NoDuplicateGlobal
<1>2. QED
  BY <1>1, GlobalsNamedAre

-------------------------------------------------------------------------------
LEMMA InputsSequence ==
  ASSUME TypeOK
  PROVE  /\ Len(inputs) \in Nat /\ DOMAIN inputs = 1 .. Len(inputs)
         /\ bi \in Nat \ {0} /\ si \in Nat \ {0}
         /\ \A b \in DOMAIN inputs : b \in Nat \ {0}
BY DEF TypeOK

(* What a reference to a relocation is. *)
LEMMA RelocationRefs ==
  ASSUME NEW objects, NEW rel \in RelocationRef(objects)
  PROVE  /\ rel[1] \in SectionRef(objects)
         /\ rel[2] \in DOMAIN SectionAt(objects, rel[1]).relocations
<1>1. PICK ref \in SectionRef(objects) :
        rel \in {ref} \X DOMAIN objects[ref[1]].sections[ref[2]].relocations
  BY DEF RelocationRef
<1>2. QED
  BY <1>1 DEF SectionAt

LEMMA InitLInv == Init => LInv
<1> SUFFICES ASSUME Init PROVE LInv
  OBVIOUS
<1>1. TypeOK /\ pc = "start" /\ bi = 1
  BY InitIInv DEF Init, IInv
<1>2. /\ \A b : ~ IsRead(b) /\ ~ IsCopied(b) /\ ~ IsRelocated(b)
  BY <1>1 DEF IsRead, IsCopied, IsRelocated
<1>3. \A rel \in RelocationRef(inputs) : ~ IsRelocated(rel[1][1])
  BY <1>2
<1>4. ReadAgree /\ RefusedAreNotLinkable /\ MergedAreMapped
  BY <1>1, <1>2 DEF ReadAgree, RefusedAreNotLinkable, MergedAreMapped
<1>5. CopiedHaveData /\ CopiedAreDistinct
  BY <1>2 DEF CopiedHaveData, CopiedAreDistinct
<1>6. DefinedArePlaced /\ GlobalsHaveOrigin /\ GlobalsAreOwn
  BY DEF Init, DefinedArePlaced, GlobalsHaveOrigin, GlobalsAreOwn
<1>7. RelocatedAreRenumbered
  BY <1>3 DEF RelocatedAreRenumbered
<1>8. QED
  BY <1>4, <1>5, <1>6, <1>7 DEF LInv

(* A step that leaves the tables as they are, and does not claim that a     *)
(* loop has come further than it has.                                       *)
LEMMA QuietKeepsLInv ==
  ASSUME LInv, TypeOK, UNCHANGED << given, tables >>,
         ReadAgree', MergedAreMapped', RefusedAreNotLinkable',
         \A b \in DOMAIN inputs :
           /\ IsCopied(b)' => IsCopied(b)
           /\ IsRelocated(b)' => IsRelocated(b)
  PROVE  LInv'
<1>1. /\ inputs' = inputs /\ sections' = sections /\ symbols' = symbols
      /\ section_mapping' = section_mapping /\ symbol_mapping' = symbol_mapping
  BY DEF given, tables
<1>2. \A ref \in SectionRef(inputs) : IsCopied(ref[1])' => IsCopied(ref[1])
  BY SectionRefs
<1>3. CopiedHaveData'
  BY <1>1, <1>2 DEF LInv, CopiedHaveData
<1>4. CopiedAreDistinct'
  BY <1>1, <1>2 DEF LInv, CopiedAreDistinct
<1>5. DefinedArePlaced' /\ GlobalsHaveOrigin' /\ GlobalsAreOwn'
  BY <1>1 DEF LInv, DefinedArePlaced, GlobalsHaveOrigin, GlobalsAreOwn
<1>6. RelocatedAreRenumbered'
  <2>1. \A rel \in RelocationRef(inputs) : IsRelocated(rel[1][1])' => IsRelocated(rel[1][1])
    BY RelocationRefs, SectionRefs
  <2>2. \A rel : MergedRelocation(rel)' = MergedRelocation(rel)
    BY <1>1 DEF MergedRelocation
  <2>3. QED
    BY <1>1, <2>1, <2>2 DEF LInv, RelocatedAreRenumbered
<1>7. QED
  BY <1>3, <1>4, <1>5, <1>6 DEF LInv

(* A step that ends the loops, in the right way. *)
LEMMA StopKeepsLInv ==
  ASSUME LInv, TypeOK, UNCHANGED << given, tables >>,
         pc' \in {"cleanup", "done", "failed", "crashed"}, RefusedAreNotLinkable'
  PROVE  LInv'
<1>1. \A b : ~ IsRead(b)' /\ ~ IsCopied(b)' /\ ~ IsRelocated(b)'
  BY DEF IsRead, IsCopied, IsRelocated
<1>2. ReadAgree' /\ MergedAreMapped'
  BY <1>1 DEF ReadAgree, MergedAreMapped
<1>3. QED
  BY <1>1, <1>2, QuietKeepsLInv

LEMMA CrashKeepsLInv ==
  ASSUME LInv, TypeOK, NEW why, Crash(why)
  PROVE  LInv'
BY StopKeepsLInv DEF Crash, RefusedAreNotLinkable

LEMMA FailKeepsLInv ==
  ASSUME LInv, TypeOK, NEW why, Fail(why), ~ (Abstract!Linkable /\ output_opens)
  PROVE  LInv'
<1>1. inputs' = inputs /\ output_opens' = output_opens
  BY DEF Fail, given
<1>2. RefusedAreNotLinkable'
  BY <1>1 DEF RefusedAreNotLinkable, Abstract!Linkable, Abstract!SameTarget,
     Abstract!NoDuplicateGlobal, Abstract!GlobalsNamed
<1>3. QED
  BY <1>2, StopKeepsLInv DEF Fail

-------------------------------------------------------------------------------
LEMMA StartKeepsLInv ==
  ASSUME LInv, TypeOK, Start
  PROVE  LInv'
<1>1. UNCHANGED << given, tables >> /\ inputs' = inputs /\ bi' = bi /\ pc = "start"
  BY DEF Start, given
<1>2. CASE pc' = "failed"
  BY <1>1, <1>2, StopKeepsLInv DEF RefusedAreNotLinkable
<1>3. CASE pc' = "parse" /\ inputs # << >>
  <2>1. \A b \in DOMAIN inputs : ~ IsRead(b)' /\ ~ IsCopied(b)' /\ ~ IsRelocated(b)'
    BY <1>1, <1>3, InputsSequence DEF IsRead, IsCopied, IsRelocated, LInv, ReadAgree
  <2>2. ReadAgree' /\ MergedAreMapped' /\ RefusedAreNotLinkable'
    BY <1>1, <1>3, <2>1 DEF ReadAgree, MergedAreMapped, RefusedAreNotLinkable
  <2>3. QED
    BY <1>1, <2>1, <2>2, QuietKeepsLInv
<1>4. QED
  BY <1>2, <1>3 DEF Start

LEMMA ParseInputKeepsLInv ==
  ASSUME LInv, TypeOK, ParseInput
  PROVE  LInv'
<1>1. pc = "parse" /\ bi \in DOMAIN inputs /\ 1 \in DOMAIN inputs
  BY InputsSequence DEF ParseInput
<1>2. CASE Fail("unreadable") /\ ~ inputs[bi].readable
  BY <1>1, <1>2, FailKeepsLInv DEF Abstract!Linkable
<1>3. CASE Fail("target") /\ inputs[bi].target # inputs[1].target
  BY <1>1, <1>3, FailKeepsLInv DEF Abstract!Linkable, Abstract!SameTarget
<1>4. CASE /\ inputs[bi].readable /\ inputs[bi].target = inputs[1].target
           /\ bi' = bi + 1 /\ UNCHANGED << given, pc, error, si, tables >>
  <2>1. \A b \in DOMAIN inputs :
          /\ IsRead(b)' => IsRead(b) \/ b = bi
          /\ ~ IsCopied(b)' /\ ~ IsRelocated(b)'
    BY <1>1, <1>4, InputsSequence DEF IsRead, IsCopied, IsRelocated
  <2>2. inputs' = inputs
    BY <1>4 DEF given
  <2>3. ReadAgree' /\ MergedAreMapped' /\ RefusedAreNotLinkable'
    BY <1>1, <1>4, <2>1, <2>2 DEF ReadAgree, MergedAreMapped, RefusedAreNotLinkable, LInv
  <2>4. QED
    BY <1>4, <2>1, <2>3, QuietKeepsLInv
<1>5. QED
  BY <1>2, <1>3, <1>4 DEF ParseInput

LEMMA AllocateKeepsLInv ==
  ASSUME LInv, TypeOK, Allocate
  PROVE  LInv'
<1>1. /\ pc = "parse" /\ bi > Len(inputs) /\ pc' = "sections" /\ bi' = 1
      /\ inputs' = inputs /\ UNCHANGED << given, tables >>
  BY DEF Allocate, Proceed, given
<1>2. \A b \in DOMAIN inputs : IsRead(b) /\ ~ IsCopied(b)' /\ ~ IsRelocated(b)'
  BY <1>1, InputsSequence DEF IsRead, IsCopied, IsRelocated
<1>3. ReadAgree' /\ MergedAreMapped' /\ RefusedAreNotLinkable'
  BY <1>1, <1>2 DEF ReadAgree, MergedAreMapped, RefusedAreNotLinkable, LInv
<1>4. QED
  BY <1>1, <1>2, <1>3, QuietKeepsLInv

LEMMA SectionsMergedKeepsLInv ==
  ASSUME LInv, IInv, SectionsMerged
  PROVE  LInv'
<1>1. /\ pc = "sections" /\ bi > Len(inputs) /\ pc' = "symbols" /\ bi' = 1 /\ si' = 1
      /\ inputs' = inputs /\ symbol_mapping' = symbol_mapping
      /\ UNCHANGED << given, tables >> /\ TypeOK
  BY DEF SectionsMerged, Proceed, given, tables, IInv
<1>2. \A b \in DOMAIN inputs : IsRead(b) /\ IsCopied(b) /\ ~ IsRelocated(b)'
  BY <1>1, InputsSequence DEF IsRead, IsCopied, IsRelocated
<1>3. ReadAgree' /\ RefusedAreNotLinkable'
  BY <1>1, <1>2 DEF ReadAgree, RefusedAreNotLinkable, LInv
<1>4. MergedAreMapped'
  <2>1. \A ref \in SymbolRef(inputs) : symbol_mapping[ref] = Unmapped
    BY <1>1 DEF IInv, TablesStartEmpty, TypeOK, Unmapped
  <2>2. \A ref \in SymbolRef(inputs) : ~ IsMerged(ref)'
    <3>1. SUFFICES ASSUME NEW ref \in SymbolRef(inputs)
                   PROVE  ~ IsMerged(ref)'
      OBVIOUS
    <3>2. ref[1] \in Nat \ {0} /\ ref[2] \in Nat \ {0}
      BY <1>1, SymbolRefs, InputTyped, InputsSequence
    <3>3. QED
      BY <1>1, <3>2 DEF IsMerged
  <2>3. QED
    BY <1>1, <2>1, <2>2 DEF MergedAreMapped
<1>5. QED
  BY <1>1, <1>2, <1>3, <1>4, QuietKeepsLInv

LEMMA NextTableKeepsLInv ==
  ASSUME LInv, TypeOK, NextTable
  PROVE  LInv'
<1>1. /\ pc = "symbols" /\ pc' = pc /\ bi \in DOMAIN inputs /\ bi' = bi + 1 /\ si' = 1
      /\ si > Len(inputs[bi].symbols)
      /\ inputs' = inputs /\ symbol_mapping' = symbol_mapping
      /\ UNCHANGED << given, tables >>
  BY DEF NextTable, given, tables
<1>2. \A b \in DOMAIN inputs : IsRead(b) /\ IsCopied(b) /\ ~ IsRelocated(b)'
  BY <1>1 DEF IsRead, IsCopied, IsRelocated
<1>3. ReadAgree' /\ RefusedAreNotLinkable'
  BY <1>1, <1>2 DEF ReadAgree, RefusedAreNotLinkable, LInv
<1>4. \A ref \in SymbolRef(inputs) : IsMerged(ref)' <=> IsMerged(ref)
  <2>1. SUFFICES ASSUME NEW ref \in SymbolRef(inputs)
                 PROVE  IsMerged(ref)' <=> IsMerged(ref)
    OBVIOUS
  <2>2. /\ ref[1] \in Nat \ {0} /\ ref[2] \in Nat \ {0}
        /\ ref[2] <= Len(inputs[ref[1]].symbols)
        /\ Len(inputs[ref[1]].symbols) \in Nat
    BY SymbolRefs, InputTyped, InputsSequence
  <2>3. ref[1] = bi => ref[2] < si
    BY <1>1, <2>2, InputsSequence
  <2>4. QED
    BY <1>1, <2>2, <2>3, InputsSequence DEF IsMerged
<1>5. MergedAreMapped'
  BY <1>1, <1>4 DEF MergedAreMapped, LInv
<1>6. QED
  BY <1>1, <1>2, <1>3, <1>5, QuietKeepsLInv

LEMMA SymbolsMergedKeepsLInv ==
  ASSUME LInv, TypeOK, SymbolsMerged
  PROVE  LInv'
<1>1. /\ pc = "symbols" /\ bi > Len(inputs) /\ pc' = "relocations" /\ bi' = 1
      /\ inputs' = inputs /\ symbol_mapping' = symbol_mapping
      /\ UNCHANGED << given, tables >>
  BY DEF SymbolsMerged, Proceed, given, tables
<1>2. \A b \in DOMAIN inputs : IsRead(b) /\ IsCopied(b) /\ ~ IsRelocated(b)'
  BY <1>1, InputsSequence DEF IsRead, IsCopied, IsRelocated
<1>3. ReadAgree' /\ RefusedAreNotLinkable'
  BY <1>1, <1>2 DEF ReadAgree, RefusedAreNotLinkable, LInv
<1>4. \A ref \in SymbolRef(inputs) : IsMerged(ref)' /\ IsMerged(ref)
  BY <1>1, SymbolRefs, InputsSequence DEF IsMerged
<1>5. MergedAreMapped'
  BY <1>1, <1>4 DEF MergedAreMapped, LInv
<1>6. QED
  BY <1>1, <1>2, <1>3, <1>5, QuietKeepsLInv

LEMMA RelocatedKeepsLInv ==
  ASSUME LInv, TypeOK, Relocated
  PROVE  LInv'
<1>1. /\ pc = "relocations" /\ bi > Len(inputs) /\ pc' = "write" /\ bi' = 1
      /\ inputs' = inputs /\ symbol_mapping' = symbol_mapping
      /\ UNCHANGED << given, tables >>
  BY DEF Relocated, Proceed, given, tables
<1>2. \A b \in DOMAIN inputs : IsRead(b) /\ IsCopied(b) /\ IsRelocated(b)
  BY <1>1, InputsSequence DEF IsRead, IsCopied, IsRelocated
<1>3. ReadAgree' /\ RefusedAreNotLinkable'
  BY <1>1, <1>2 DEF ReadAgree, RefusedAreNotLinkable, LInv
<1>4. \A ref \in SymbolRef(inputs) : IsMerged(ref)' /\ IsMerged(ref)
  BY <1>1 DEF IsMerged
<1>5. MergedAreMapped'
  BY <1>1, <1>4 DEF MergedAreMapped, LInv
<1>6. QED
  BY <1>1, <1>2, <1>3, <1>5, QuietKeepsLInv

LEMMA WriteOutputKeepsLInv ==
  ASSUME LInv, TypeOK, WriteOutput
  PROVE  LInv'
<1>1. CASE pc' = "done" /\ UNCHANGED << given, error, bi, si, estimated, tables >>
  BY <1>1, StopKeepsLInv DEF RefusedAreNotLinkable
<1>2. CASE Crash("transfer")
  BY <1>2, CrashKeepsLInv
<1>3. CASE ~ output_opens /\ Fail("output")
  BY <1>3, FailKeepsLInv
<1>4. QED
  BY <1>1, <1>2, <1>3 DEF WriteOutput

LEMMA CleanupKeepsLInv ==
  ASSUME LInv, TypeOK, Cleanup
  PROVE  LInv'
BY StopKeepsLInv DEF Cleanup, RefusedAreNotLinkable

-------------------------------------------------------------------------------
LEMMA Joined ==
  ASSUME NEW S, NEW s \in Seq(S), NEW t \in Seq(S)
  PROVE  /\ DOMAIN (s \o t) = 1 .. Len(s) + Len(t)
         /\ \A m \in 1 .. Len(s) + Len(t) :
              (s \o t)[m] = IF m <= Len(s) THEN s[m] ELSE t[m - Len(s)]
<1>1. s \o t \in Seq(S) /\ Len(s \o t) = Len(s) + Len(t)
  BY ConcatProperties
<1>2. DOMAIN (s \o t) = 1 .. Len(s \o t)
  BY <1>1
<1>3. \A m \in 1 .. Len(s) + Len(t) :
        (s \o t)[m] = IF m <= Len(s) THEN s[m] ELSE t[m - Len(s)]
  BY ConcatProperties
<1>4. QED
  BY <1>1, <1>2, <1>3

(* The sections of one input get places behind all the others.              *)
LEMMA MergeSectionsKeepsLInv ==
  ASSUME LInv, IInv, MergeSections
  PROVE  LInv'
<1> DEFINE own == inputs[bi].sections
           copy == [k \in DOMAIN own |-> [data |-> own[k].data, relocations |-> << >>]]
           n == Len(sections)
<1>1. /\ pc = "sections" /\ pc' = pc /\ bi \in DOMAIN inputs /\ bi' = bi + 1
      /\ sections' = sections \o copy
      /\ section_mapping' = [ref \in SectionRef(inputs) |->
           IF ref[1] = bi THEN n + ref[2] ELSE section_mapping[ref]]
      /\ inputs' = inputs /\ symbols' = symbols /\ symbol_mapping' = symbol_mapping
      /\ TypeOK /\ symbols = << >>
  BY DEF MergeSections, given, IInv, TablesStartEmpty
<1>2. /\ Len(own) \in Nat /\ DOMAIN own = 1 .. Len(own) /\ n \in Nat
      /\ DOMAIN sections = 1 .. n
  BY <1>1, InputTyped DEF TypeOK
<1>3. /\ DOMAIN sections' = 1 .. n + Len(own)
      /\ \A m \in DOMAIN sections : sections'[m] = sections[m]
      /\ \A k \in 1 .. Len(own) : sections'[n + k].data = own[k].data
  <2>1. /\ copy \in Seq(BarfSection(Data, Offset)) /\ Len(copy) = Len(own)
        /\ \A k \in 1 .. Len(own) : copy[k].data = own[k].data
    <3>1. ASSUME NEW k \in 1 .. Len(own)
          PROVE  [data |-> own[k].data, relocations |-> << >>] \in BarfSection(Data, Offset)
      BY <1>1, <1>2, SectionTyped DEF BarfSection
    <3>2. copy \in [1 .. Len(own) -> BarfSection(Data, Offset)]
      BY <1>2, <3>1
    <3>3. QED
      BY <1>2, <3>2, SequenceOf
  <2>2. sections \in Seq(BarfSection(Data, Offset))
    BY <1>1 DEF TypeOK
  <2>3. /\ DOMAIN sections' = 1 .. n + Len(own)
        /\ \A m \in 1 .. n + Len(own) :
             sections'[m] = IF m <= n THEN sections[m] ELSE copy[m - n]
    <3> HIDE DEF copy, own
    <3>1. copy \in Seq(BarfSection(Data, Offset)) /\ Len(copy) = Len(own)
      BY <2>1
    <3>2. /\ DOMAIN (sections \o copy) = 1 .. Len(sections) + Len(copy)
          /\ \A m \in 1 .. Len(sections) + Len(copy) :
               (sections \o copy)[m] =
                 IF m <= Len(sections) THEN sections[m] ELSE copy[m - Len(sections)]
      BY <2>2, <3>1, Joined
    <3>3. sections' = sections \o copy /\ Len(copy) = Len(own)
      BY <1>1, <3>1
    <3>4. QED
      BY <3>2, <3>3
  <2>4. \A k \in 1 .. Len(own) : sections'[n + k] = copy[k]
    <3> HIDE DEF copy, own, n
    <3>1. ASSUME NEW k \in 1 .. Len(own)
          PROVE  n + k \in 1 .. n + Len(own) /\ ~ (n + k <= n) /\ (n + k) - n = k
      BY <1>2
    <3>2. QED
      BY <2>3, <3>1
  <2>5. \A m \in 1 .. n : sections'[m] = sections[m]
    <3> HIDE DEF copy, own, n
    <3>1. \A m \in 1 .. n : m \in 1 .. n + Len(own) /\ m <= n
      BY <1>2
    <3>2. QED
      BY <2>3, <3>1
  <2>6. \A k \in 1 .. Len(own) : sections'[n + k].data = own[k].data
    <3> HIDE DEF copy, own, n
    <3>1. QED
      BY <2>1, <2>4
  <2> HIDE DEF copy, own, n
  <2>7. QED
    BY <1>2, <2>3, <2>5, <2>6
<1> HIDE DEF copy
<1>4. \A ref \in SectionRef(inputs) : IsCopied(ref[1])' <=> IsCopied(ref[1]) \/ ref[1] = bi
  BY <1>1, InputsSequence, SectionRefs DEF IsCopied
<1>5. \A ref \in SectionRef(inputs) :
        /\ ref[1] # bi => section_mapping'[ref] = section_mapping[ref]
        /\ ref[1] = bi => /\ section_mapping'[ref] = n + ref[2]
                          /\ ref[2] \in 1 .. Len(own)
                          /\ SectionAt(inputs, ref) = own[ref[2]]
  BY <1>1, <1>2, SectionRefs DEF SectionAt
<1>6. ~ \E ref \in SectionRef(inputs) : ref[1] = bi /\ IsCopied(ref[1])
  BY <1>1, InputsSequence DEF IsCopied
<1>7. CopiedHaveData'
  <2>1. SUFFICES ASSUME NEW ref \in SectionRef(inputs), IsCopied(ref[1])'
                 PROVE  /\ section_mapping'[ref] \in DOMAIN sections'
                        /\ sections'[section_mapping'[ref]].data = SectionAt(inputs, ref).data
    BY <1>1 DEF CopiedHaveData
  <2>2. CASE ref[1] = bi
    <3>1. /\ section_mapping'[ref] = n + ref[2] /\ ref[2] \in 1 .. Len(own)
          /\ SectionAt(inputs, ref) = own[ref[2]]
      BY <1>5, <2>2
    <3>2. n + ref[2] \in 1 .. n + Len(own)
      BY <1>2, <3>1
    <3>3. QED
      BY <1>3, <3>1, <3>2
  <2>3. CASE ref[1] # bi
    <3>1. /\ section_mapping[ref] \in DOMAIN sections
          /\ sections[section_mapping[ref]].data = SectionAt(inputs, ref).data
      BY <1>4, <2>1, <2>3 DEF LInv, CopiedHaveData
    <3>2. QED
      BY <1>2, <1>3, <1>5, <2>3, <3>1
  <2>4. QED
    BY <2>2, <2>3
<1>8. CopiedAreDistinct'
  <2>1. SUFFICES ASSUME NEW ref \in SectionRef(inputs), NEW other \in SectionRef(inputs),
                        IsCopied(ref[1])', IsCopied(other[1])',
                        section_mapping'[ref] = section_mapping'[other]
                 PROVE  ref = other
    BY <1>1 DEF CopiedAreDistinct
  <2>2. \A r \in SectionRef(inputs) :
          r[1] # bi /\ IsCopied(r[1])' => section_mapping'[r] \in 1 .. n
    BY <1>2, <1>4, <1>5 DEF LInv, CopiedHaveData
  <2>3. \A r \in SectionRef(inputs) : r[1] = bi => section_mapping'[r] \notin 1 .. n
    BY <1>2, <1>5
  <2>4. CASE ref[1] = bi /\ other[1] = bi
    <3>1. ref[2] = other[2]
      BY <1>2, <1>5, <2>1, <2>4
    <3>2. QED
      BY <2>4, <3>1, SectionRefs
  <2>5. CASE ref[1] # bi /\ other[1] # bi
    BY <1>4, <1>5, <2>1, <2>5 DEF LInv, CopiedAreDistinct
  <2>6. QED
    BY <2>1, <2>2, <2>3, <2>4, <2>5
<1>9. ReadAgree' /\ MergedAreMapped' /\ RefusedAreNotLinkable'
  BY <1>1 DEF LInv, ReadAgree, MergedAreMapped, RefusedAreNotLinkable, IsRead
<1>10. DefinedArePlaced' /\ GlobalsHaveOrigin' /\ GlobalsAreOwn'
  BY <1>1 DEF LInv, DefinedArePlaced, GlobalsHaveOrigin, GlobalsAreOwn
<1>11. RelocatedAreRenumbered'
  BY <1>1 DEF RelocatedAreRenumbered, IsRelocated
<1>12. QED
  BY <1>7, <1>8, <1>9, <1>10, <1>11 DEF LInv

-------------------------------------------------------------------------------
(* Where the symbol loop is, nothing has been mapped yet.                   *)
LEMMA CurrentIsUnmapped ==
  ASSUME LInv, TypeOK, InSymbolLoop
  PROVE  symbol_mapping[<<bi, si>>] = Unmapped
<1>1. <<bi, si>> \in SymbolRef(inputs) /\ ~ IsMerged(<<bi, si>>)
  BY CurrentTyped, InputsSequence DEF IsMerged, InSymbolLoop
<1>2. QED
  BY <1>1 DEF LInv, MergedAreMapped, InSymbolLoop

LEMMA NextIsMerged ==
  ASSUME TypeOK, InSymbolLoop, NextSymbol
  PROVE  \A ref \in SymbolRef(inputs) : IsMerged(ref)' <=> IsMerged(ref) \/ ref = <<bi, si>>
<1>1. /\ pc = "symbols" /\ pc' = pc /\ bi' = bi /\ si' = si + 1
  BY DEF InSymbolLoop, NextSymbol
<1>2. \A ref \in SymbolRef(inputs) :
        ref = <<ref[1], ref[2]>> /\ ref[1] \in Nat /\ ref[2] \in Nat
  BY SymbolRefs, InputsSequence, InputTyped
<1>3. QED
  BY <1>1, <1>2, InputsSequence DEF IsMerged

(* What a step of the symbol loop cannot disturb. *)
LEMMA SymbolStepFrame ==
  ASSUME LInv, TypeOK, InSymbolLoop, NextSymbol
  PROVE  /\ ReadAgree' /\ CopiedHaveData' /\ CopiedAreDistinct'
         /\ RelocatedAreRenumbered' /\ RefusedAreNotLinkable'
<1>1. /\ inputs' = inputs /\ pc = "symbols" /\ pc' = pc /\ bi' = bi
      /\ sections' = sections /\ section_mapping' = section_mapping
  BY DEF InSymbolLoop, NextSymbol, given
<1>2. ReadAgree' /\ RefusedAreNotLinkable' /\ RelocatedAreRenumbered'
  BY <1>1 DEF LInv, ReadAgree, RefusedAreNotLinkable, RelocatedAreRenumbered, IsRead,
     IsRelocated
<1>3. \A b : IsCopied(b)' <=> IsCopied(b)
  BY <1>1 DEF IsCopied
<1>4. CopiedHaveData' /\ CopiedAreDistinct'
  BY <1>1, <1>3 DEF LInv, CopiedHaveData, CopiedAreDistinct
<1>5. QED
  BY <1>2, <1>4

(* A step that maps the current symbol to the i-th merged one, which must   *)
(* not stand for another global already if this one is global.              *)
LEMMA MapKeepsLInv ==
  ASSUME LInv, TypeOK, InSymbolLoop, NextSymbol,
         NEW i \in Nat \ {0},
         symbol_mapping' = [symbol_mapping EXCEPT ![<<bi, si>>] = i],
         Current.type # UnknownType, Defines(Current) => Placed,
         Current.type = BARF_SYMBOL_GLOBAL =>
           \A ref \in SymbolRef(inputs) :
             symbol_mapping[ref] = i => SymbolAt(inputs, ref).type # BARF_SYMBOL_GLOBAL,
         \A j \in DOMAIN symbols' : symbols'[j].type = BARF_SYMBOL_GLOBAL =>
           \/ j = i /\ Current.type = BARF_SYMBOL_GLOBAL
           \/ j \in DOMAIN symbols /\ symbols[j].type = BARF_SYMBOL_GLOBAL
  PROVE  LInv'
<1> DEFINE here == <<bi, si>>
<1>1. /\ here \in SymbolRef(inputs) /\ SymbolAt(inputs, here) = Current
      /\ inputs' = inputs /\ pc = "symbols"
      /\ symbol_mapping[here] = Unmapped /\ here[1] = bi
  BY CurrentTyped, CurrentIsUnmapped DEF NextSymbol, given, InSymbolLoop
<1>2. /\ symbol_mapping'[here] = i /\ i # Unmapped
      /\ \A ref \in SymbolRef(inputs) : ref # here => symbol_mapping'[ref] = symbol_mapping[ref]
  BY <1>1 DEF TypeOK, Unmapped
<1>3. MergedAreMapped'
  <2>1. SUFFICES ASSUME NEW ref \in SymbolRef(inputs)
                 PROVE  symbol_mapping'[ref] # Unmapped
                          <=> IsMerged(ref)' /\ SymbolAt(inputs, ref).type # UnknownType
    BY <1>1 DEF MergedAreMapped
  <2>2. IsMerged(ref)' <=> IsMerged(ref) \/ ref = here
    BY NextIsMerged
  <2>3. QED
    BY <1>1, <1>2, <2>2 DEF LInv, MergedAreMapped
<1>4. DefinedArePlaced'
  BY <1>1, <1>2 DEF LInv, DefinedArePlaced, Placed
<1>5. GlobalsHaveOrigin'
  <2>1. SUFFICES ASSUME NEW j \in DOMAIN symbols', symbols'[j].type = BARF_SYMBOL_GLOBAL
                 PROVE  \E ref \in SymbolRef(inputs) :
                          /\ symbol_mapping'[ref] = j
                          /\ SymbolAt(inputs, ref).type = BARF_SYMBOL_GLOBAL
    BY <1>1 DEF GlobalsHaveOrigin
  <2>2. CASE j = i /\ Current.type = BARF_SYMBOL_GLOBAL
    BY <1>1, <1>2, <2>2
  <2>3. CASE j \in DOMAIN symbols /\ symbols[j].type = BARF_SYMBOL_GLOBAL
    <3>1. PICK ref \in SymbolRef(inputs) :
            symbol_mapping[ref] = j /\ SymbolAt(inputs, ref).type = BARF_SYMBOL_GLOBAL
      BY <2>3 DEF LInv, GlobalsHaveOrigin
    <3>2. j # Unmapped
      BY <2>3 DEF TypeOK, Unmapped
    <3>3. QED
      BY <1>1, <1>2, <3>1, <3>2
  <2>4. QED
    BY <2>1, <2>2, <2>3
<1>6. GlobalsAreOwn'
  BY <1>1, <1>2 DEF LInv, GlobalsAreOwn
<1>7. QED
  BY <1>3, <1>4, <1>5, <1>6, SymbolStepFrame DEF LInv

LEMMA AddKeepsLInv ==
  ASSUME LInv, TypeOK, InSymbolLoop, NEW place, Add(place),
         Current.type # UnknownType, Defines(Current) => Placed
  PROVE  LInv'
<1> DEFINE n == Len(symbols)
           new == [ type |-> Current.type, name |-> Current.name,
                    section_index |-> place, offset |-> Current.offset ]
<1>1. /\ n \in Nat /\ DOMAIN symbols = 1 .. n
      /\ DOMAIN symbols' = 1 .. n + 1
      /\ \A j \in 1 .. n : symbols'[j] = symbols[j]
      /\ symbols'[n + 1] = new
  <2>1. symbols' = Append(symbols, new) /\ symbols \in Seq(BarfSymbol(Name, Offset))
    BY DEF Add, TypeOK
  <2> HIDE DEF new
  <2>2. QED
    BY <2>1
<1>2. NextSymbol /\ symbol_mapping' = [symbol_mapping EXCEPT ![<<bi, si>>] = n + 1]
  BY DEF Add, MapTo
<1>3. \A ref \in SymbolRef(inputs) : symbol_mapping[ref] # n + 1
  BY <1>1 DEF TypeOK
<1>4. \A j \in DOMAIN symbols' : symbols'[j].type = BARF_SYMBOL_GLOBAL =>
        \/ j = n + 1 /\ Current.type = BARF_SYMBOL_GLOBAL
        \/ j \in DOMAIN symbols /\ symbols[j].type = BARF_SYMBOL_GLOBAL
  BY <1>1
<1>5. n + 1 \in Nat \ {0}
  BY <1>1
<1> HIDE DEF n
<1>6. QED
  BY <1>2, <1>3, <1>4, <1>5, MapKeepsLInv

LEMMA ShareKeepsLInv ==
  ASSUME LInv, TypeOK, InSymbolLoop, ShareExternal
  PROVE  LInv'
<1>1. PICK i \in DOMAIN symbols :
        symbol_mapping' = [symbol_mapping EXCEPT ![<<bi, si>>] = i]
  BY DEF ShareExternal, MapTo
<1>2. /\ NextSymbol /\ symbols' = symbols /\ Current.type = BARF_SYMBOL_EXTERNAL
      /\ i \in Nat \ {0}
  BY DEF ShareExternal, TypeOK
<1>3. /\ Current.type # UnknownType /\ ~ Defines(Current)
      /\ Current.type # BARF_SYMBOL_GLOBAL
  BY <1>2 DEF UnknownType, Defines, BARF_SYMBOL_EXTERNAL, BARF_SYMBOL_GLOBAL,
     BARF_SYMBOL_LOCAL
<1>4. QED
  BY <1>1, <1>2, <1>3, MapKeepsLInv

LEMMA PromoteKeepsLInv ==
  ASSUME LInv, IInv, InSymbolLoop, PromoteExternal
  PROVE  LInv'
<1>1. PICK i \in DOMAIN symbols :
        /\ symbols[i].type = BARF_SYMBOL_EXTERNAL
        /\ DOMAIN symbols' = DOMAIN symbols
        /\ \A j \in DOMAIN symbols : j # i => symbols'[j] = symbols[j]
        /\ symbol_mapping' = [symbol_mapping EXCEPT ![<<bi, si>>] = i]
  BY DEF PromoteExternal, MapTo
<1>2. /\ NextSymbol /\ Current.type = BARF_SYMBOL_GLOBAL /\ Placed /\ TypeOK
      /\ i \in Nat \ {0}
  BY DEF PromoteExternal, TypeOK, IInv
<1>3. \A ref \in SymbolRef(inputs) :
        symbol_mapping[ref] = i => SymbolAt(inputs, ref).type # BARF_SYMBOL_GLOBAL
  <2>1. SUFFICES ASSUME NEW ref \in SymbolRef(inputs), symbol_mapping[ref] = i,
                        SymbolAt(inputs, ref).type = BARF_SYMBOL_GLOBAL
                 PROVE  FALSE
    OBVIOUS
  <2>2. Represents(i, ref)
    BY <1>2, <2>1 DEF IInv, MappingIsSound, Unmapped
  <2>3. QED
    BY <1>1, <2>1, <2>2 DEF Represents, Defines, BARF_SYMBOL_EXTERNAL, BARF_SYMBOL_GLOBAL
<1>4. Current.type # UnknownType
  BY <1>2 DEF UnknownType, BARF_SYMBOL_GLOBAL
<1>5. QED
  BY <1>1, <1>2, <1>3, <1>4, MapKeepsLInv

LEMMA SkipKeepsLInv ==
  ASSUME LInv, TypeOK, InSymbolLoop, SkipUnknown
  PROVE  LInv'
<1>1. /\ NextSymbol /\ symbols' = symbols /\ symbol_mapping' = symbol_mapping
      /\ Current.type = UnknownType /\ inputs' = inputs /\ pc = "symbols"
  BY DEF SkipUnknown, NextSymbol, given, InSymbolLoop
<1>2. MergedAreMapped'
  <2>1. SUFFICES ASSUME NEW ref \in SymbolRef(inputs)
                 PROVE  symbol_mapping[ref] # Unmapped
                          <=> IsMerged(ref)' /\ SymbolAt(inputs, ref).type # UnknownType
    BY <1>1 DEF MergedAreMapped
  <2>2. IsMerged(ref)' <=> IsMerged(ref) \/ ref = <<bi, si>>
    BY <1>1, NextIsMerged
  <2>3. QED
    BY <1>1, <2>2, CurrentTyped, CurrentIsUnmapped DEF LInv, MergedAreMapped
<1>3. DefinedArePlaced' /\ GlobalsHaveOrigin' /\ GlobalsAreOwn'
  BY <1>1 DEF LInv, DefinedArePlaced, GlobalsHaveOrigin, GlobalsAreOwn
<1>4. QED
  BY <1>1, <1>2, <1>3, SymbolStepFrame DEF LInv

(* A global whose name a merged global has is a second one of the inputs.   *)
LEMMA DuplicateKeepsLInv ==
  ASSUME LInv, IInv, InSymbolLoop, RejectDuplicate
  PROVE  LInv'
<1> DEFINE here == <<bi, si>>
<1>1. /\ here \in SymbolRef(inputs) /\ SymbolAt(inputs, here) = Current
      /\ Current.type = BARF_SYMBOL_GLOBAL /\ symbol_mapping[here] = Unmapped
      /\ Fail("duplicate") /\ TypeOK
  BY CurrentTyped, CurrentIsUnmapped DEF RejectDuplicate, IInv
<1>2. PICK i \in DOMAIN symbols :
        symbols[i].name = Current.name /\ symbols[i].type = BARF_SYMBOL_GLOBAL
  BY DEF RejectDuplicate, IsFirstNamed
<1>3. PICK ref \in SymbolRef(inputs) :
        symbol_mapping[ref] = i /\ SymbolAt(inputs, ref).type = BARF_SYMBOL_GLOBAL
  BY <1>2 DEF LInv, GlobalsHaveOrigin
<1>4. i # Unmapped
  BY <1>1, <1>2 DEF TypeOK, Unmapped
<1>5. SymbolAt(inputs, ref).name = Current.name
  BY <1>2, <1>3, <1>4 DEF IInv, MappingIsSound, Represents
<1>6. ref # here
  BY <1>1, <1>3, <1>4
<1>7. ~ Abstract!Linkable
  BY <1>1, <1>3, <1>5, <1>6, NoDuplicateGlobalMeans DEF Abstract!Linkable
<1>8. QED
  BY <1>1, <1>7, FailKeepsLInv

LEMMA MergeSymbolKeepsLInv ==
  ASSUME LInv, IInv, MergeSymbol
  PROVE  LInv'
<1>1. InSymbolLoop /\ TypeOK
  BY DEF MergeSymbol, IInv
<1> USE DEF BARF_SYMBOL_LOCAL, BARF_SYMBOL_GLOBAL, BARF_SYMBOL_EXTERNAL, UnknownType, Defines
<1>2. CASE MergeLocal
  BY <1>1, <1>2, AddKeepsLInv DEF MergeLocal
<1>3. CASE ShareExternal
  BY <1>1, <1>3, ShareKeepsLInv
<1>4. CASE AddExternal
  BY <1>1, <1>4, AddKeepsLInv DEF AddExternal
<1>5. CASE RejectDuplicate
  BY <1>1, <1>5, DuplicateKeepsLInv
<1>6. CASE PromoteExternal
  BY <1>1, <1>6, PromoteKeepsLInv
<1>7. CASE AddGlobal
  BY <1>1, <1>7, AddKeepsLInv, CrashKeepsLInv DEF AddGlobal
<1>8. CASE FaultUnplaced
  BY <1>1, <1>8, CrashKeepsLInv DEF FaultUnplaced
<1>9. CASE SkipUnknown
  BY <1>1, <1>9, SkipKeepsLInv
<1>10. QED
  BY <1>2, <1>3, <1>4, <1>5, <1>6, <1>7, <1>8, <1>9 DEF MergeSymbol

-------------------------------------------------------------------------------
(* Each section has a place of its own, so its relocations, and no others,  *)
(* are renumbered by the symbols of its own input.                          *)
LEMMA RelocateWrites ==
  ASSUME LInv, IInv, Relocate, ~ Crash("fault")
  PROVE  /\ pc = "relocations" /\ pc' = pc /\ bi \in DOMAIN inputs /\ bi' = bi + 1
         /\ RelocationsInRange /\ TypeOK /\ DOMAIN sections' = DOMAIN sections
         /\ inputs' = inputs /\ symbols' = symbols /\ section_mapping' = section_mapping
         /\ symbol_mapping' = symbol_mapping
         /\ \A ref \in SectionRef(inputs) :
              /\ IsCopied(ref[1]) /\ section_mapping[ref] \in DOMAIN sections
              /\ sections[section_mapping[ref]] \in BarfSection(Data, Offset)
              /\ sections'[section_mapping[ref]] =
                   IF ref[1] = bi
                   THEN [sections[section_mapping[ref]] EXCEPT
                           !.relocations = Renumbered(ref[2])]
                   ELSE sections[section_mapping[ref]]
<1> DEFINE mine(m) == {k \in DOMAIN inputs[bi].sections : section_mapping[<<bi, k>>] = m}
<1>1. /\ pc = "relocations" /\ pc' = pc /\ bi \in DOMAIN inputs /\ bi' = bi + 1
      /\ RelocationsInRange /\ TypeOK
      /\ sections' = [m \in DOMAIN sections |->
           IF mine(m) = {} THEN sections[m]
           ELSE [sections[m] EXCEPT !.relocations = Renumbered(CHOOSE k \in mine(m) : TRUE)]]
      /\ inputs' = inputs /\ symbols' = symbols /\ section_mapping' = section_mapping
      /\ symbol_mapping' = symbol_mapping
  BY DEF Relocate, given, IInv
<1>2. \A ref \in SectionRef(inputs) :
        /\ IsCopied(ref[1]) /\ section_mapping[ref] \in DOMAIN sections
        /\ sections[section_mapping[ref]] \in BarfSection(Data, Offset)
  <2>1. \A b : IsCopied(b)
    BY <1>1 DEF IsCopied
  <2>2. \A ref \in SectionRef(inputs) : section_mapping[ref] \in DOMAIN sections
    BY <2>1 DEF LInv, CopiedHaveData
  <2>3. QED
    BY SMTT(30), <1>1, <2>1, <2>2, ElementOfSeq DEF TypeOK
<1>3. ASSUME NEW ref \in SectionRef(inputs), ref[1] # bi
      PROVE  sections'[section_mapping[ref]] = sections[section_mapping[ref]]
  <2>1. mine(section_mapping[ref]) = {}
    BY <1>1, <1>2, <1>3, SectionRefs DEF LInv, CopiedAreDistinct
  <2> HIDE DEF mine
  <2>2. QED
    BY <1>1, <1>2, <2>1
<1>4. ASSUME NEW ref \in SectionRef(inputs), ref[1] = bi
      PROVE  sections'[section_mapping[ref]] =
               [sections[section_mapping[ref]] EXCEPT !.relocations = Renumbered(ref[2])]
  <2>1. mine(section_mapping[ref]) = {ref[2]}
    <3>1. /\ ref[2] \in DOMAIN inputs[bi].sections /\ ref = <<bi, ref[2]>>
      BY <1>4, SectionRefs
    <3>2. \A k \in DOMAIN inputs[bi].sections :
            section_mapping[<<bi, k>>] = section_mapping[ref] => k = ref[2]
      <4>1. SUFFICES ASSUME NEW k \in DOMAIN inputs[bi].sections,
                            section_mapping[<<bi, k>>] = section_mapping[ref]
                     PROVE  k = ref[2]
        OBVIOUS
      <4>2. <<bi, k>> \in SectionRef(inputs)
        BY <1>1, SectionRefs
      <4>3. <<bi, k>> = ref
        BY <1>2, <4>1, <4>2 DEF LInv, CopiedAreDistinct
      <4>4. QED
        BY <3>1, <4>3
    <3>3. QED
      BY <3>1, <3>2
  <2> HIDE DEF mine
  <2>2. (CHOOSE k \in mine(section_mapping[ref]) : TRUE) = ref[2]
    BY <2>1
  <2>3. QED
    BY <1>1, <1>2, <2>1, <2>2
<1> HIDE DEF mine
<1>5. DOMAIN sections' = DOMAIN sections
  BY <1>1
<1>6. QED
  BY <1>1, <1>2, <1>3, <1>4, <1>5

LEMMA RelocateKeepsLInv ==
  ASSUME LInv, IInv, Relocate
  PROVE  LInv'
<1>1. CASE Crash("fault")
  BY <1>1, CrashKeepsLInv DEF IInv
<1>2. CASE ~ Crash("fault")
  <2>1. /\ pc = "relocations" /\ pc' = pc /\ bi \in DOMAIN inputs /\ bi' = bi + 1
        /\ RelocationsInRange /\ TypeOK /\ DOMAIN sections' = DOMAIN sections
        /\ inputs' = inputs /\ symbols' = symbols /\ section_mapping' = section_mapping
        /\ symbol_mapping' = symbol_mapping
    BY <1>2, RelocateWrites
  <2>2. \A ref \in SectionRef(inputs) :
          /\ IsCopied(ref[1]) /\ section_mapping[ref] \in DOMAIN sections
          /\ sections[section_mapping[ref]] \in BarfSection(Data, Offset)
    BY <1>2, RelocateWrites
  <2>3. ASSUME NEW ref \in SectionRef(inputs), ref[1] # bi
        PROVE  sections'[section_mapping[ref]] = sections[section_mapping[ref]]
    BY <1>2, <2>3, RelocateWrites
  <2>4. ASSUME NEW ref \in SectionRef(inputs), ref[1] = bi
        PROVE  sections'[section_mapping[ref]] =
                 [sections[section_mapping[ref]] EXCEPT !.relocations = Renumbered(ref[2])]
    BY <1>2, <2>4, RelocateWrites
  <2>5. \A ref \in SectionRef(inputs) :
          /\ section_mapping[ref] \in DOMAIN sections'
          /\ sections'[section_mapping[ref]].data = sections[section_mapping[ref]].data
    BY <2>1, <2>2, <2>3, <2>4 DEF BarfSection
  <2>6. CopiedHaveData' /\ CopiedAreDistinct'
    BY <2>1, <2>2, <2>5 DEF LInv, CopiedHaveData, CopiedAreDistinct
  <2>7. ReadAgree' /\ MergedAreMapped' /\ RefusedAreNotLinkable'
    BY <2>1 DEF LInv, ReadAgree, MergedAreMapped, RefusedAreNotLinkable, IsRead, IsMerged
  <2>8. DefinedArePlaced' /\ GlobalsHaveOrigin' /\ GlobalsAreOwn'
    BY <2>1 DEF LInv, DefinedArePlaced, GlobalsHaveOrigin, GlobalsAreOwn
  <2>9. RelocatedAreRenumbered'
    <3> DEFINE here(rel) == sections'[section_mapping[rel[1]]].relocations[rel[2]]
               original(rel) == RelocationAt(inputs, rel)
    <3>1. SUFFICES ASSUME NEW rel \in RelocationRef(inputs), IsRelocated(rel[1][1])'
                   PROVE  /\ original(rel).symbol_index \in DOMAIN inputs[rel[1][1]].symbols
                          /\ here(rel).offset = original(rel).offset
                          /\ here(rel).symbol_index =
                               symbol_mapping[<<rel[1][1], original(rel).symbol_index>>]
      BY <2>1 DEF RelocatedAreRenumbered, MergedRelocation
    <3>2. /\ rel[1] \in SectionRef(inputs)
          /\ rel[2] \in DOMAIN SectionAt(inputs, rel[1]).relocations
          /\ rel[1][1] \in DOMAIN inputs
          /\ rel[1][2] \in DOMAIN inputs[rel[1][1]].sections
      BY RelocationRefs, SectionRefs
    <3>3. CASE rel[1][1] # bi
      <4>1. IsRelocated(rel[1][1])
        BY <2>1, <3>1, <3>2, <3>3, InputsSequence DEF IsRelocated
      <4>2. here(rel) = MergedRelocation(rel)
        BY <2>3, <3>2, <3>3 DEF MergedRelocation
      <4>3. QED
        BY <4>1, <4>2 DEF LInv, RelocatedAreRenumbered
    <3>4. CASE rel[1][1] = bi
      <4> DEFINE own == inputs[bi].sections[rel[1][2]].relocations
      <4>1. /\ rel[1][2] \in DOMAIN inputs[bi].sections /\ rel[2] \in DOMAIN own
            /\ original(rel) = own[rel[2]]
        BY <3>2, <3>4 DEF SectionAt, RelocationAt
      <4>2. here(rel) = Renumbered(rel[1][2])[rel[2]]
        <5>1. sections'[section_mapping[rel[1]]] =
                [sections[section_mapping[rel[1]]] EXCEPT !.relocations = Renumbered(rel[1][2])]
          BY <2>4, <3>2, <3>4
        <5>2. sections[section_mapping[rel[1]]] \in BarfSection(Data, Offset)
          BY <2>2, <3>2
        <5>3. QED
          BY <5>1, <5>2 DEF BarfSection
      <4>3. here(rel) = [own[rel[2]] EXCEPT !.symbol_index =
                                              symbol_mapping[<<bi, own[rel[2]].symbol_index>>]]
        BY <4>1, <4>2 DEF Renumbered
      <4>4. own[rel[2]] \in BarfRelocation(Offset)
        BY <2>1, <4>1, SectionTyped, ElementOfSeq
      <4>5. own[rel[2]].symbol_index \in DOMAIN inputs[bi].symbols
        BY <2>1, <4>1 DEF RelocationsInRange
      <4> HIDE DEF own, here, original
      <4>6. QED
        BY <3>4, <4>1, <4>3, <4>4, <4>5 DEF BarfRelocation
    <3>5. QED
      BY <3>3, <3>4
  <2>10. QED
    BY <2>6, <2>7, <2>8, <2>9 DEF LInv
<1>3. QED
  BY <1>1, <1>2

LEMMA StepKeepsLInv == IInv /\ LInv /\ [Next]_vars => LInv'
<1> SUFFICES ASSUME IInv, LInv, [Next]_vars
             PROVE  LInv'
  OBVIOUS
<1> USE DEF IInv
<1>1. CASE UNCHANGED vars
  <2>1. UNCHANGED << inputs, output_opens, pc, bi, si >> /\ UNCHANGED tables
    BY <1>1 DEF vars, given, tables
  <2>2. /\ ReadAgree' = ReadAgree /\ CopiedHaveData' = CopiedHaveData
        /\ CopiedAreDistinct' = CopiedAreDistinct /\ MergedAreMapped' = MergedAreMapped
        /\ DefinedArePlaced' = DefinedArePlaced
    BY <2>1 DEF tables, ReadAgree, CopiedHaveData, CopiedAreDistinct, MergedAreMapped,
       DefinedArePlaced, IsRead, IsCopied, IsMerged
  <2>3. /\ GlobalsHaveOrigin' = GlobalsHaveOrigin /\ GlobalsAreOwn' = GlobalsAreOwn
        /\ RelocatedAreRenumbered' = RelocatedAreRenumbered
        /\ RefusedAreNotLinkable' = RefusedAreNotLinkable
    BY <2>1 DEF tables, GlobalsHaveOrigin, GlobalsAreOwn, RelocatedAreRenumbered,
       RefusedAreNotLinkable, IsMerged, IsRelocated, MergedRelocation,
       Abstract!Linkable, Abstract!SameTarget, Abstract!NoDuplicateGlobal,
       Abstract!GlobalsNamed
  <2>4. QED
    BY <2>2, <2>3 DEF LInv
<1>2. CASE Next
  BY <1>2, StartKeepsLInv, ParseInputKeepsLInv, AllocateKeepsLInv, MergeSectionsKeepsLInv,
     SectionsMergedKeepsLInv, MergeSymbolKeepsLInv, NextTableKeepsLInv,
     SymbolsMergedKeepsLInv, RelocateKeepsLInv, RelocatedKeepsLInv, WriteOutputKeepsLInv,
     CleanupKeepsLInv DEF Next
<1>3. QED
  BY <1>1, <1>2

(* The loops have come as far as they are and built what LInv says.         *)
LEMMA Loops == Spec => [](IInv /\ LInv)
BY InitLInv, StepKeepsLInv, Invariance, PTL DEF Spec

-------------------------------------------------------------------------------
(* Once the symbols are merged, a global of the inputs has a merged global  *)
(* of its name.                                                             *)
LEMMA GlobalIsMerged ==
  ASSUME IInv, LInv, pc = "write", NEW ref \in SymbolRef(inputs),
         SymbolAt(inputs, ref).type = BARF_SYMBOL_GLOBAL
  PROVE  /\ symbol_mapping[ref] # Unmapped
         /\ symbol_mapping[ref] \in DOMAIN symbols
         /\ symbols[symbol_mapping[ref]].name = SymbolAt(inputs, ref).name
         /\ symbols[symbol_mapping[ref]].type = BARF_SYMBOL_GLOBAL
<1>1. SymbolAt(inputs, ref).type # UnknownType /\ IsMerged(ref)
  BY DEF UnknownType, BARF_SYMBOL_GLOBAL, IsMerged
<1>2. symbol_mapping[ref] # Unmapped
  BY <1>1 DEF LInv, MergedAreMapped
<1>3. symbol_mapping[ref] \in DOMAIN symbols
  BY <1>2 DEF IInv, TypeOK, Unmapped
<1>4. Represents(symbol_mapping[ref], ref)
  BY <1>2 DEF IInv, MappingIsSound
<1>5. QED
  BY <1>2, <1>3, <1>4 DEF Represents, Defines

-------------------------------------------------------------------------------
(* What the loops have built when the output is written.                    *)
LEMMA WrittenIsLinkable ==
  ASSUME IInv, LInv, pc = "write"
  PROVE  Abstract!Linkable
<1>1. \A b \in DOMAIN inputs : IsRead(b)
  BY DEF IsRead
<1>2. /\ inputs # << >> /\ Abstract!SameTarget
      /\ \A b \in DOMAIN inputs : inputs[b].readable
  BY <1>1 DEF LInv, ReadAgree, Abstract!SameTarget
<1>3. Abstract!NoDuplicateGlobal
  <2>1. SUFFICES ASSUME NEW ref \in SymbolRef(inputs), NEW other \in SymbolRef(inputs),
                        SymbolAt(inputs, ref).type = BARF_SYMBOL_GLOBAL,
                        SymbolAt(inputs, other).type = BARF_SYMBOL_GLOBAL,
                        SymbolAt(inputs, ref).name = SymbolAt(inputs, other).name
                 PROVE  ref = other
    BY NoDuplicateGlobalMeans
  <2>2. symbol_mapping[ref] = symbol_mapping[other]
    BY <2>1, GlobalIsMerged DEF IInv, UniqueNames, Visible
  <2>3. QED
    BY <2>1, <2>2, GlobalIsMerged DEF LInv, GlobalsAreOwn
<1>4. QED
  BY <1>2, <1>3 DEF Abstract!Linkable

LEMMA OriginOfCopy ==
  ASSUME LInv, pc = "write", NEW ref \in SectionRef(inputs)
  PROVE  OriginOf(section_mapping[ref]) = ref
<1>1. \A b : IsCopied(b)
  BY DEF IsCopied
<1>2. \A other \in SectionRef(inputs) :
        section_mapping[other] = section_mapping[ref] => other = ref
  BY <1>1 DEF LInv, CopiedAreDistinct
<1>3. QED
  BY <1>2 DEF OriginOf

(* A definition of an input, and the merged symbol that stands for it, are  *)
(* at the same place.                                                       *)
LEMMA DefinitionsKeepTheirPlace ==
  ASSUME IInv, LInv, pc = "write", NEW ref \in SymbolRef(inputs),
         Defines(SymbolAt(inputs, ref))
  PROVE  LET merged == symbols[symbol_mapping[ref]]
         IN  /\ symbol_mapping[ref] # Unmapped
             /\ merged.type # BARF_SYMBOL_EXTERNAL
             /\ Place(OriginOf(merged.section_index), merged.offset) =
                  Place(<<ref[1], SymbolAt(inputs, ref).section_index>>,
                        SymbolAt(inputs, ref).offset)
<1> DEFINE symbol == SymbolAt(inputs, ref)
           i == symbol_mapping[ref]
           place == <<ref[1], symbol.section_index>>
<1>1. /\ symbol.type # UnknownType /\ symbol.type # BARF_SYMBOL_EXTERNAL
      /\ IsMerged(ref)
  BY DEF Defines, UnknownType, BARF_SYMBOL_LOCAL, BARF_SYMBOL_GLOBAL, BARF_SYMBOL_EXTERNAL,
     IsMerged
<1>2. i # Unmapped
  BY <1>1 DEF LInv, MergedAreMapped
<1>3. Represents(i, ref)
  BY <1>2 DEF IInv, MappingIsSound
<1>4. /\ symbols[i].type = symbol.type /\ symbols[i].offset = symbol.offset
      /\ symbols[i].section_index = section_mapping[place]
  BY <1>3 DEF Represents
<1>5. place \in SectionRef(inputs)
  BY <1>2, SectionRefs, SymbolRefs DEF LInv, DefinedArePlaced
<1>6. OriginOf(section_mapping[place]) = place
  BY <1>5, OriginOfCopy
<1>7. QED
  BY <1>1, <1>2, <1>4, <1>6

LEMMA BoundToMeans ==
  ASSUME NEW rel
  PROVE  LET ref    == <<rel[1][1], RelocationAt(inputs, rel).symbol_index>>
             symbol == SymbolAt(inputs, ref)
             placeOf(r) == Place(<<r[1], SymbolAt(inputs, r).section_index>>,
                                 SymbolAt(inputs, r).offset)
         IN  /\ Defines(symbol) => Abstract!BoundTo(rel) = placeOf(ref)
             /\ symbol.type = BARF_SYMBOL_EXTERNAL =>
                  /\ Abstract!GlobalsNamed(symbol.name) = {} =>
                       Abstract!BoundTo(rel) = Named(symbol.name)
                  /\ \A g : Abstract!GlobalsNamed(symbol.name) = {g} =>
                       Abstract!BoundTo(rel) = placeOf(g)
             /\ symbol.type = UnknownType => Abstract!BoundTo(rel) = Nothing
<1> DEFINE ref    == <<rel[1][1], RelocationAt(inputs, rel).symbol_index>>
           symbol == SymbolAt(inputs, ref)
           placeOf(r) == Place(<<r[1], SymbolAt(inputs, r).section_index>>,
                               SymbolAt(inputs, r).offset)
<1>1. \A r : Abstract!PlaceOf(r) = placeOf(r)
  BY LinkLooksAlike DEF Abstract!PlaceOf, Abstract!Place, Place
<1>2. \A name : Abstract!Named(name) = Named(name)
  BY DEF Abstract!Named, Named
<1>3. Abstract!Nothing = Nothing
  BY DEF Abstract!Nothing, Nothing
<1>4. /\ Abstract!RelocationAt(inputs, rel) = RelocationAt(inputs, rel)
      /\ Abstract!SymbolAt(inputs, ref) = SymbolAt(inputs, ref)
  BY LinkLooksAlike
<1>5. /\ Abstract!Defines(symbol) <=> Defines(symbol)
      /\ Abstract!BARF_SYMBOL_EXTERNAL = BARF_SYMBOL_EXTERNAL
  BY DEF Abstract!Defines, Defines, Abstract!BARF_SYMBOL_EXTERNAL, BARF_SYMBOL_EXTERNAL,
     Abstract!BARF_SYMBOL_LOCAL, BARF_SYMBOL_LOCAL, Abstract!BARF_SYMBOL_GLOBAL,
     BARF_SYMBOL_GLOBAL
<1>6. /\ Defines(symbol) => symbol.type # BARF_SYMBOL_EXTERNAL
      /\ symbol.type = UnknownType => ~ Defines(symbol) /\ symbol.type # BARF_SYMBOL_EXTERNAL
  BY DEF Defines, UnknownType, BARF_SYMBOL_EXTERNAL, BARF_SYMBOL_LOCAL, BARF_SYMBOL_GLOBAL
<1> HIDE DEF placeOf
<1>7. ASSUME Defines(symbol)
      PROVE  Abstract!BoundTo(rel) = placeOf(ref)
  <2>1. Abstract!BoundTo(rel) = Abstract!PlaceOf(ref)
    BY <1>4, <1>5, <1>6, <1>7, Zenon DEF Abstract!BoundTo
  <2>2. QED
    BY <1>1, <2>1
<1>8. ASSUME symbol.type = BARF_SYMBOL_EXTERNAL, Abstract!GlobalsNamed(symbol.name) = {}
      PROVE  Abstract!BoundTo(rel) = Named(symbol.name)
  <2>1. Abstract!BoundTo(rel) = Abstract!Named(symbol.name)
    BY <1>4, <1>5, <1>6, <1>8, Zenon DEF Abstract!BoundTo
  <2>2. QED
    BY <1>2, <2>1
<1>9. ASSUME symbol.type = BARF_SYMBOL_EXTERNAL,
             NEW g, Abstract!GlobalsNamed(symbol.name) = {g}
      PROVE  Abstract!BoundTo(rel) = placeOf(g)
  <2>1. /\ (CHOOSE h \in Abstract!GlobalsNamed(symbol.name) : TRUE) = g
        /\ Abstract!GlobalsNamed(symbol.name) # {}
    BY <1>9
  <2>2. Abstract!BoundTo(rel) =
          Abstract!PlaceOf(CHOOSE h \in Abstract!GlobalsNamed(symbol.name) : TRUE)
    BY <1>4, <1>5, <1>6, <1>9, <2>1, Zenon DEF Abstract!BoundTo
  <2>3. QED
    BY <1>1, <2>1, <2>2
<1>10. ASSUME symbol.type = UnknownType
       PROVE  Abstract!BoundTo(rel) = Nothing
  BY <1>3, <1>4, <1>5, <1>6, <1>10, Zenon DEF Abstract!BoundTo
<1>11. QED
  BY <1>7, <1>8, <1>9, <1>10 DEF placeOf

(* Each relocation of the merged artifact is bound as Link says.            *)
LEMMA RelocationsAreBound ==
  ASSUME IInv, LInv, pc = "write", NEW rel \in RelocationRef(inputs)
  PROVE  MergedBinding(rel) = Abstract!BoundTo(rel)
<1> DEFINE ref    == <<rel[1][1], RelocationAt(inputs, rel).symbol_index>>
           symbol == SymbolAt(inputs, ref)
           i      == symbol_mapping[ref]
           placeOf(r) == Place(<<r[1], SymbolAt(inputs, r).section_index>>,
                               SymbolAt(inputs, r).offset)
<1>1. /\ ref \in SymbolRef(inputs) /\ MergedRelocation(rel).symbol_index = i
      /\ symbol.type \in SymbolType
  <2>1. IsRelocated(rel[1][1])
    BY DEF IsRelocated
  <2>2. /\ RelocationAt(inputs, rel).symbol_index \in DOMAIN inputs[rel[1][1]].symbols
        /\ MergedRelocation(rel).symbol_index = i
    BY <2>1 DEF LInv, RelocatedAreRenumbered
  <2>3. rel[1][1] \in DOMAIN inputs
    BY RelocationRefs, SectionRefs
  <2>4. symbol \in BarfSymbol(Name, Offset)
    BY <2>2, <2>3, SymbolTyped DEF SymbolAt, IInv
  <2>5. QED
    BY <2>2, <2>3, <2>4, SymbolRefs DEF BarfSymbol
<1>2. MergedBinding(rel) =
        IF i = Unmapped THEN Nothing
        ELSE IF symbols[i].type = BARF_SYMBOL_EXTERNAL THEN Named(symbols[i].name)
        ELSE Place(OriginOf(symbols[i].section_index), symbols[i].offset)
  BY <1>1 DEF MergedBinding
<1>3. IsMerged(ref)
  BY DEF IsMerged
<1>4. /\ Defines(symbol) => Abstract!BoundTo(rel) = placeOf(ref)
      /\ symbol.type = BARF_SYMBOL_EXTERNAL =>
           /\ Abstract!GlobalsNamed(symbol.name) = {} =>
                Abstract!BoundTo(rel) = Named(symbol.name)
           /\ \A g : Abstract!GlobalsNamed(symbol.name) = {g} =>
                Abstract!BoundTo(rel) = placeOf(g)
      /\ symbol.type = UnknownType => Abstract!BoundTo(rel) = Nothing
  BY BoundToMeans
<1>5. CASE Defines(symbol)
  <2>1. /\ i # Unmapped /\ symbols[i].type # BARF_SYMBOL_EXTERNAL
        /\ Place(OriginOf(symbols[i].section_index), symbols[i].offset) = placeOf(ref)
    BY <1>1, <1>5, DefinitionsKeepTheirPlace
  <2> HIDE DEF placeOf, i, symbol, ref
  <2>2. QED
    BY <1>2, <1>4, <1>5, <2>1
<1>6. CASE symbol.type = BARF_SYMBOL_EXTERNAL
  <2>1. i # Unmapped
    BY <1>1, <1>3, <1>6 DEF LInv, MergedAreMapped, UnknownType, BARF_SYMBOL_EXTERNAL
  <2>2. i \in DOMAIN symbols
    BY <1>1, <2>1 DEF IInv, TypeOK, Unmapped
  <2>3. symbols[i].name = symbol.name /\ Visible(symbols[i])
    BY <1>1, <1>6, <2>1 DEF IInv, MappingIsSound, Represents, Defines,
       BARF_SYMBOL_EXTERNAL, BARF_SYMBOL_LOCAL, BARF_SYMBOL_GLOBAL
  <2>4. \A g \in Abstract!GlobalsNamed(symbol.name) :
          /\ g \in SymbolRef(inputs) /\ SymbolAt(inputs, g).type = BARF_SYMBOL_GLOBAL
          /\ symbol_mapping[g] = i
    <3>1. SUFFICES ASSUME NEW g \in SymbolRef(inputs),
                          SymbolAt(inputs, g).type = BARF_SYMBOL_GLOBAL,
                          SymbolAt(inputs, g).name = symbol.name
                   PROVE  symbol_mapping[g] = i
      BY GlobalsNamedAre
    <3>2. QED
      BY <2>2, <2>3, <3>1, GlobalIsMerged DEF IInv, UniqueNames, Visible
  <2>5. CASE symbols[i].type = BARF_SYMBOL_EXTERNAL
    <3>1. Abstract!GlobalsNamed(symbol.name) = {}
      BY <2>4, <2>5, GlobalIsMerged DEF BARF_SYMBOL_EXTERNAL, BARF_SYMBOL_GLOBAL
    <3> HIDE DEF placeOf, i, symbol, ref
    <3>2. QED
      BY <1>2, <1>4, <1>6, <2>1, <2>3, <2>5, <3>1
  <2>6. CASE symbols[i].type # BARF_SYMBOL_EXTERNAL
    <3>1. symbols[i].type = BARF_SYMBOL_GLOBAL
      BY <2>3, <2>6 DEF Visible
    <3>2. PICK g \in SymbolRef(inputs) :
            symbol_mapping[g] = i /\ SymbolAt(inputs, g).type = BARF_SYMBOL_GLOBAL
      BY <2>2, <3>1 DEF LInv, GlobalsHaveOrigin
    <3>3. SymbolAt(inputs, g).name = symbol.name
      BY <2>3, <3>2, GlobalIsMerged
    <3>4. g \in Abstract!GlobalsNamed(symbol.name)
      BY <3>2, <3>3, GlobalsNamedAre
    <3>5. \A h \in Abstract!GlobalsNamed(symbol.name) : h = g
      BY <2>1, <2>4, <3>2 DEF LInv, GlobalsAreOwn
    <3>6. Abstract!GlobalsNamed(symbol.name) = {g}
      BY <3>4, <3>5
    <3>7. Place(OriginOf(symbols[i].section_index), symbols[i].offset) = placeOf(g)
      BY <3>2, DefinitionsKeepTheirPlace DEF Defines
    <3> HIDE DEF placeOf, i, symbol, ref
    <3>8. QED
      BY <1>2, <1>4, <1>6, <2>1, <2>6, <3>6, <3>7
  <2>7. QED
    BY <2>5, <2>6
<1>7. CASE symbol.type = UnknownType
  <2>1. i = Unmapped
    BY <1>1, <1>7 DEF LInv, MergedAreMapped
  <2> HIDE DEF i
  <2>2. QED
    BY <1>2, <1>4, <1>7, <2>1
<1>8. QED
  BY <1>1, <1>5, <1>6, <1>7 DEF SymbolType, Defines

(* What is written is what Link links the inputs to.                        *)
WrittenResult ==
  LinkedAs([ref \in SectionRef(inputs) |-> sections[section_mapping[ref]].data],
           [rel \in RelocationRef(inputs) |-> MergedBinding(rel)],
           [rel \in RelocationRef(inputs) |-> MergedRelocation(rel).offset])

LEMMA WrittenIsLinked ==
  ASSUME IInv, LInv, pc = "write"
  PROVE  WrittenResult = Abstract!Linked
<1>1. \A b : IsCopied(b) /\ IsRelocated(b)
  BY DEF IsCopied, IsRelocated
<1>2. [ref \in SectionRef(inputs) |-> sections[section_mapping[ref]].data] =
        [ref \in Abstract!SectionRef(inputs) |-> Abstract!SectionAt(inputs, ref).data]
  <2>1. \A ref \in SectionRef(inputs) :
          sections[section_mapping[ref]].data = Abstract!SectionAt(inputs, ref).data
    BY <1>1, LinkLooksAlike DEF LInv, CopiedHaveData
  <2>2. QED
    BY <2>1, LinkLooksAlike
<1>3. [rel \in RelocationRef(inputs) |-> MergedBinding(rel)] =
        [rel \in Abstract!RelocationRef(inputs) |-> Abstract!BoundTo(rel)]
  BY LinkLooksAlike, RelocationsAreBound
<1>4. [rel \in RelocationRef(inputs) |-> MergedRelocation(rel).offset] =
        [rel \in Abstract!RelocationRef(inputs) |-> Abstract!RelocationAt(inputs, rel).offset]
  <2>1. \A rel \in RelocationRef(inputs) :
          MergedRelocation(rel).offset = Abstract!RelocationAt(inputs, rel).offset
    BY <1>1, LinkLooksAlike DEF LInv, RelocatedAreRenumbered
  <2>2. QED
    BY <2>1, LinkLooksAlike
<1>5. QED
  BY <1>2, <1>3, <1>4 DEF WrittenResult, Abstract!Linked, LinkedAs, Abstract!LinkedAs

-------------------------------------------------------------------------------
(* How far a state is from an answer. *)
AnswersByPc ==
  /\ pc \notin Terminal => LinkResult = Abstract!Pending
  /\ pc = "failed" => LinkResult = Abstract!Rejected
  /\ pc = "crashed" => LinkResult = Abstract!Aborted
  /\ pc = "done" => LinkResult = WrittenResult

LEMMA Answers == AnswersByPc
<1>1. /\ Abstract!Pending = Pending /\ Abstract!Rejected = Rejected
      /\ Abstract!Aborted = Aborted
  BY DEF Abstract!Pending, Pending, Abstract!Rejected, Rejected, Abstract!Aborted, Aborted
<1>2. "done" # "failed" /\ "done" # "crashed" /\ "failed" # "crashed"
  OBVIOUS
<1>3. ASSUME pc \notin Terminal PROVE LinkResult = Abstract!Pending
  <2>1. pc # "done" /\ pc # "failed" /\ pc # "crashed"
    BY <1>3 DEF Terminal
  <2>2. QED
    BY <1>1, <2>1, Zenon DEF LinkResult
<1>4. ASSUME pc = "failed" PROVE LinkResult = Abstract!Rejected
  BY <1>1, <1>2, <1>4, Zenon DEF LinkResult
<1>5. ASSUME pc = "crashed" PROVE LinkResult = Abstract!Aborted
  BY <1>1, <1>2, <1>5, Zenon DEF LinkResult
<1>6. ASSUME pc = "done" PROVE LinkResult = WrittenResult
  BY <1>2, <1>6, Zenon DEF LinkResult, WrittenResult
<1>7. QED
  BY <1>3, <1>4, <1>5, <1>6 DEF AnswersByPc

(* The ways a step can answer. *)
LEMMA WaysToAnswer ==
  ASSUME TypeOK, Next
  PROVE  /\ pc \notin Terminal
         /\ UNCHANGED << inputs, output_opens >>
         /\ \/ pc' \notin Terminal
            \/ pc' = "crashed"
            \/ pc' = "failed" /\ (inputs = << >> \/ pc = "cleanup")
            \/ pc = "write" /\ pc' = "done" /\ output_opens /\ UNCHANGED tables
<1> USE DEF Terminal
<1>1. UNCHANGED << inputs, output_opens >>
  BY InputsAreGiven
<1>2. CASE Start
  BY <1>1, <1>2 DEF Start
<1>3. CASE ParseInput \/ Allocate
  BY <1>1, <1>3 DEF ParseInput, Allocate, Proceed, Fail
<1>4. CASE MergeSections \/ SectionsMerged \/ NextTable \/ SymbolsMerged \/ Relocated
  BY <1>1, <1>4 DEF MergeSections, SectionsMerged, NextTable, SymbolsMerged, Relocated,
     Proceed
<1>5. CASE MergeSymbol
  <2>1. pc = "symbols"
    BY <1>5 DEF MergeSymbol, InSymbolLoop
  <2>2. NextSymbol \/ Fail("duplicate") \/ Crash("assertion") \/ Crash("fault")
    BY <1>5 DEF MergeSymbol, MergeLocal, ShareExternal, AddExternal, RejectDuplicate,
       PromoteExternal, AddGlobal, FaultUnplaced, SkipUnknown, Add
  <2>3. QED
    BY <1>1, <2>1, <2>2 DEF NextSymbol, Fail, Crash
<1>6. CASE Relocate
  BY <1>1, <1>6 DEF Relocate, Crash
<1>7. CASE WriteOutput
  BY <1>1, <1>7 DEF WriteOutput, Crash, Fail
<1>8. CASE Cleanup
  BY <1>1, <1>8 DEF Cleanup
<1>9. QED
  BY <1>2, <1>3, <1>4, <1>5, <1>6, <1>7, <1>8 DEF Next

(* Combining artifacts table by table, in the order of the inputs and       *)
(* promoting externals on the way, answers as Link says, for every list of  *)
(* inputs: with every relocation bound to the place its own artifact named  *)
(* or to the one definition of the name, or with a refusal that has its     *)
(* reason in the inputs (format.c:890-1264).                                *)
THEOREM Implements == Spec => ImplementsLink
<1>0. AnswersByPc /\ AnswersByPc'
  BY Answers, PTL
<1>1. Init => Abstract!Init
  <2>1. Init => pc \notin Terminal
    BY DEF Init, Terminal
  <2>2. QED
    BY <1>0, <2>1 DEF AnswersByPc, Init, Abstract!Init
<1>2. IInv /\ LInv /\ [Next]_vars => [Abstract!Next]_(Abstract!vars)
  <2> SUFFICES ASSUME IInv, LInv, [Next]_vars
               PROVE  Abstract!Next \/ UNCHANGED Abstract!vars
    OBVIOUS
  <2>1. CASE UNCHANGED vars
    BY <2>1 DEF vars, given, tables, Abstract!vars, LinkResult, MergedBinding,
       MergedRelocation, OriginOf
  <2>2. CASE Next
    <3>1. /\ pc \notin Terminal /\ UNCHANGED << inputs, output_opens >>
          /\ LinkResult = Abstract!Pending
      BY <1>0, <2>2, WaysToAnswer DEF AnswersByPc, IInv
    <3>2. CASE pc' \notin Terminal
      <4>1. LinkResult' = Abstract!Pending
        BY <1>0, <3>2 DEF AnswersByPc
      <4>2. QED
        BY <3>1, <4>1 DEF Abstract!vars
    <3>3. CASE pc' = "crashed"
      <4>1. LinkResult' = Abstract!Aborted
        BY <1>0, <3>3 DEF AnswersByPc
      <4>2. QED
        BY <3>1, <4>1 DEF Abstract!Next, Abstract!Abort
    <3>4. CASE pc' = "failed" /\ (inputs = << >> \/ pc = "cleanup")
      <4>1. LinkResult' = Abstract!Rejected
        BY <1>0, <3>4 DEF AnswersByPc
      <4>2. ~ (Abstract!Linkable /\ output_opens)
        BY <3>4 DEF LInv, RefusedAreNotLinkable, Abstract!Linkable
      <4>3. QED
        BY <3>1, <4>1, <4>2 DEF Abstract!Next, Abstract!Reject
    <3>5. CASE pc = "write" /\ pc' = "done" /\ output_opens /\ UNCHANGED tables
      <4>1. LinkResult' = WrittenResult'
        BY <1>0, <3>5 DEF AnswersByPc
      <4>2. WrittenResult' = WrittenResult
        BY <3>1, <3>5 DEF tables, WrittenResult, MergedBinding, MergedRelocation, OriginOf
      <4>3. WrittenResult = Abstract!Linked /\ Abstract!Linkable
        BY <3>5, WrittenIsLinked, WrittenIsLinkable
      <4>4. QED
        BY <3>1, <3>5, <4>1, <4>2, <4>3 DEF Abstract!Next, Abstract!LinkAll
    <3>6. QED
      BY <2>2, <3>2, <3>3, <3>4, <3>5, WaysToAnswer DEF IInv
  <2>3. QED
    BY <2>1, <2>2
<1>3. QED
  BY <1>1, <1>2, Loops, PTL DEF Spec, ImplementsLink, Abstract!Spec

-------------------------------------------------------------------------------
(* What is proved of the loader holds of the loader in this composition.    *)
LP == INSTANCE LoaderProofs WITH
        artifact <- loaded, pc <- loader_pc, error <- loader_error,
        si <- loader_si, ri <- loader_ri, ArtifactSet <- {}

-------------------------------------------------------------------------------
(* What the tables are besides what LInv says: sections are merged in       *)
(* the order of the inputs, and nothing is in the tables that no input has. *)
SectionsBefore(b) == {s \in SectionRef(inputs) : s[1] < b}

Copying == {"sections", "symbols", "relocations", "write"}

SectionsInOrder ==
  /\ pc = "sections" =>
       /\ IsFiniteSet(SectionsBefore(bi))
       /\ Cardinality(SectionsBefore(bi)) = Len(sections)
  /\ \A ref \in SectionRef(inputs) : IsCopied(ref[1]) =>
       section_mapping[ref] = PlaceInFile(ref)

CopiesHaveOrigin ==
  pc \in Copying =>
    \A m \in DOMAIN sections :
      \E ref \in SectionRef(inputs) : IsCopied(ref[1]) /\ section_mapping[ref] = m

RelocationsKeepTheirNumber ==
  \A ref \in SectionRef(inputs) : IsRelocated(ref[1]) =>
    DOMAIN sections[section_mapping[ref]].relocations =
      DOMAIN SectionAt(inputs, ref).relocations

ExternalsAreNowhere ==
  \A i \in DOMAIN symbols :
    symbols[i].type = BARF_SYMBOL_EXTERNAL => symbols[i].section_index = NoSection

DefinitionsHaveOrigin ==
  \A i \in DOMAIN symbols : symbols[i].type # BARF_SYMBOL_EXTERNAL =>
    \E ref \in SymbolRef(inputs) :
      symbol_mapping[ref] = i /\ Defines(SymbolAt(inputs, ref))

FileInv ==
  /\ SectionsInOrder
  /\ CopiesHaveOrigin
  /\ RelocationsKeepTheirNumber
  /\ ExternalsAreNowhere
  /\ DefinitionsHaveOrigin

LEMMA InitFileInv == Init => FileInv
<1> SUFFICES ASSUME Init PROVE FileInv
  OBVIOUS
<1>1. pc = "start" /\ symbols = << >>
  BY DEF Init
<1>2. \A b : ~ IsCopied(b) /\ ~ IsRelocated(b)
  BY <1>1 DEF IsCopied, IsRelocated
<1>3. SectionsInOrder /\ CopiesHaveOrigin /\ RelocationsKeepTheirNumber
  BY <1>1, <1>2 DEF SectionsInOrder, CopiesHaveOrigin, RelocationsKeepTheirNumber, Copying
<1>4. ExternalsAreNowhere /\ DefinitionsHaveOrigin
  BY <1>1 DEF ExternalsAreNowhere, DefinitionsHaveOrigin
<1>5. QED
  BY <1>3, <1>4 DEF FileInv

(* A step that leaves the tables as they are, and claims no more of them.   *)
LEMMA QuietKeepsFileInv ==
  ASSUME FileInv, TypeOK, UNCHANGED << given, tables >>,
         pc' = "sections" => pc = "sections" /\ bi' = bi,
         pc' \in Copying => pc \in Copying,
         \A b \in DOMAIN inputs :
           /\ IsCopied(b)' => IsCopied(b)
           /\ pc' \in Copying /\ IsCopied(b) => IsCopied(b)'
           /\ IsRelocated(b)' => IsRelocated(b)
  PROVE  FileInv'
<1>1. /\ inputs' = inputs /\ sections' = sections /\ symbols' = symbols
      /\ section_mapping' = section_mapping /\ symbol_mapping' = symbol_mapping
  BY DEF given, tables
<1>2. \A ref \in SectionRef(inputs) : ref[1] \in DOMAIN inputs
  BY SectionRefs
<1>3. \A b : SectionsBefore(b)' = SectionsBefore(b)
  BY <1>1 DEF SectionsBefore
<1>4. \A ref : PlaceInFile(ref)' = PlaceInFile(ref)
  BY <1>1 DEF PlaceInFile
<1>5. SectionsInOrder'
  <2>1. ASSUME pc' = "sections"
        PROVE  /\ IsFiniteSet(SectionsBefore(bi))'
               /\ Cardinality(SectionsBefore(bi))' = Len(sections)'
    <3>1. SectionsBefore(bi)' = SectionsBefore(bi)
      BY <1>1, <2>1 DEF SectionsBefore
    <3>2. QED
      BY <1>1, <2>1, <3>1 DEF FileInv, SectionsInOrder
  <2>2. QED
    BY <1>1, <1>2, <1>4, <2>1 DEF FileInv, SectionsInOrder
<1>6. CopiesHaveOrigin'
  BY <1>1, <1>2 DEF FileInv, CopiesHaveOrigin
<1>7. RelocationsKeepTheirNumber'
  BY <1>1, <1>2 DEF FileInv, RelocationsKeepTheirNumber
<1>8. ExternalsAreNowhere' /\ DefinitionsHaveOrigin'
  BY <1>1 DEF FileInv, ExternalsAreNowhere, DefinitionsHaveOrigin
<1>9. QED
  BY <1>5, <1>6, <1>7, <1>8 DEF FileInv

LEMMA StopKeepsFileInv ==
  ASSUME FileInv, TypeOK, UNCHANGED << given, tables >>,
         pc' \notin Copying
  PROVE  FileInv'
<1>1. \A b : ~ IsCopied(b)' /\ ~ IsRelocated(b)'
  BY DEF IsCopied, IsRelocated, Copying
<1>2. pc' # "sections"
  BY DEF Copying
<1>3. QED
  BY <1>1, <1>2, QuietKeepsFileInv

LEMMA CrashKeepsFileInv ==
  ASSUME FileInv, TypeOK, NEW why, Crash(why)
  PROVE  FileInv'
BY StopKeepsFileInv DEF Crash, Copying

LEMMA FailKeepsFileInv ==
  ASSUME FileInv, TypeOK, NEW why, Fail(why)
  PROVE  FileInv'
BY StopKeepsFileInv DEF Fail, Copying

(* The loop over the inputs that come next has not copied anything.         *)
LEMMA AllocateKeepsFileInv ==
  ASSUME FileInv, IInv, Allocate
  PROVE  FileInv'
<1>1. /\ pc = "parse" /\ pc' = "sections" /\ bi' = 1
      /\ inputs' = inputs /\ sections' = sections /\ symbols' = symbols
      /\ symbol_mapping' = symbol_mapping
      /\ TypeOK /\ sections = << >>
  BY DEF Allocate, Proceed, given, tables, IInv, TablesStartEmpty
<1>2. \A ref \in SectionRef(inputs) : ref[1] \in Nat \ {0}
  BY <1>1, SectionRefs, InputsSequence
<1>3. SectionsInOrder'
  <2>1. SectionsBefore(1)' = {}
    BY <1>1, <1>2 DEF SectionsBefore
  <2>2. IsFiniteSet({}) /\ Cardinality({}) = 0 /\ Len(<< >>) = 0
    BY FS_EmptySet
  <2>3. \A ref \in SectionRef(inputs) : ~ IsCopied(ref[1])'
    BY <1>1, <1>2 DEF IsCopied
  <2>4. SectionsBefore(bi)' = {}
    BY <1>1, <2>1 DEF SectionsBefore
  <2>5. QED
    BY <1>1, <2>2, <2>3, <2>4 DEF SectionsInOrder
<1>4. CopiesHaveOrigin' /\ RelocationsKeepTheirNumber'
  BY <1>1 DEF CopiesHaveOrigin, RelocationsKeepTheirNumber, IsRelocated
<1>5. ExternalsAreNowhere' /\ DefinitionsHaveOrigin'
  BY <1>1 DEF FileInv, ExternalsAreNowhere, DefinitionsHaveOrigin
<1>6. QED
  BY <1>3, <1>4, <1>5 DEF FileInv

(* How many sections the inputs have up to the next one. *)
LEMMA SectionsBeforeNext ==
  ASSUME TypeOK, bi \in DOMAIN inputs, IsFiniteSet(SectionsBefore(bi))
  PROVE  LET own == inputs[bi].sections
         IN  /\ IsFiniteSet(SectionsBefore(bi + 1))
             /\ Cardinality(SectionsBefore(bi + 1)) =
                  Cardinality(SectionsBefore(bi)) + Len(own)
<1> DEFINE own == inputs[bi].sections
           before == SectionsBefore(bi)
           mine == {bi} \X (1 .. Len(own))
<1>1. Len(own) \in Nat /\ DOMAIN own = 1 .. Len(own)
  BY InputTyped
<1>2. IsFiniteSet(mine) /\ Cardinality(mine) = Len(own)
  <2>1. IsFiniteSet(1 .. Len(own)) /\ Cardinality(1 .. Len(own)) = Len(own)
    BY <1>1, FS_Interval
  <2>2. IsFiniteSet({bi}) /\ Cardinality({bi}) = 1
    BY FS_Singleton
  <2>3. IsFiniteSet(mine) /\ Cardinality(mine) = 1 * Len(own)
    <3> DEFINE S == {bi}
               T == 1 .. Len(own)
    <3> HIDE DEF S, T, own
    <3>1. IsFiniteSet(S \X T) /\ Cardinality(S \X T) = Cardinality(S) * Cardinality(T)
      BY <2>1, <2>2, FS_Product DEF S, T
    <3>2. QED
      BY <2>1, <2>2, <3>1 DEF S, T
  <2>4. QED
    BY <1>1, <2>3
<1>3. SectionsBefore(bi + 1) = before \union mine
  <2>1. ASSUME NEW s
        PROVE  s \in SectionsBefore(bi + 1) <=> s \in before \/ s \in mine
    <3>1. s \in mine <=> s \in SectionRef(inputs) /\ s[1] = bi
      BY <1>1, SectionRefs
    <3>2. s \in SectionRef(inputs) => s[1] \in Nat
      BY SectionRefs, InputsSequence
    <3>3. QED
      BY <3>1, <3>2, InputsSequence DEF SectionsBefore
  <2>2. QED
    BY <2>1
<1>4. before \intersect mine = {}
  BY InputsSequence DEF SectionsBefore
<1>5. IsFiniteSet(before) /\ Cardinality(before) \in Nat
  BY FS_CardinalityType
<1> HIDE DEF before, mine, own
<1>6. /\ IsFiniteSet(before \union mine)
      /\ Cardinality(before \union mine) =
           Cardinality(before) + Cardinality(mine) - Cardinality(before \intersect mine)
  BY <1>2, <1>5, FS_Union
<1>7. Cardinality(before \intersect mine) = 0
  BY <1>4, FS_EmptySet
<1>8. Cardinality(before \union mine) = Cardinality(before) + Len(own)
  BY <1>1, <1>2, <1>5, <1>6, <1>7 DEF own
<1>9. QED
  BY <1>3, <1>6, <1>8 DEF before, own

LEMMA MergeSectionsKeepsFileInv ==
  ASSUME FileInv, IInv, MergeSections
  PROVE  FileInv'
<1> DEFINE own == inputs[bi].sections
           copy == [k \in DOMAIN own |-> [data |-> own[k].data, relocations |-> << >>]]
           n == Len(sections)
<1>1. /\ pc = "sections" /\ pc' = pc /\ bi \in DOMAIN inputs /\ bi' = bi + 1
      /\ sections' = sections \o copy
      /\ section_mapping' = [ref \in SectionRef(inputs) |->
           IF ref[1] = bi THEN n + ref[2] ELSE section_mapping[ref]]
      /\ inputs' = inputs /\ symbols' = symbols /\ symbol_mapping' = symbol_mapping
      /\ TypeOK
  BY DEF MergeSections, given, IInv
<1>2. /\ Len(own) \in Nat /\ DOMAIN own = 1 .. Len(own)
      /\ n \in Nat /\ DOMAIN sections = 1 .. n
      /\ Len(sections') = n + Len(own) /\ DOMAIN sections' = 1 .. n + Len(own)
  <2>1. Len(own) \in Nat /\ DOMAIN own = 1 .. Len(own)
    BY <1>1, InputTyped
  <2>2. copy \in Seq(BarfSection(Data, Offset)) /\ Len(copy) = Len(own)
    <3>1. ASSUME NEW k \in 1 .. Len(own)
          PROVE  [data |-> own[k].data, relocations |-> << >>] \in BarfSection(Data, Offset)
      BY <1>1, <2>1, SectionTyped DEF BarfSection
    <3>2. copy \in [1 .. Len(own) -> BarfSection(Data, Offset)]
      BY <2>1, <3>1
    <3>3. QED
      BY <2>1, <3>2, SequenceOf
  <2>3. sections \in Seq(BarfSection(Data, Offset))
    BY <1>1 DEF TypeOK
  <2> HIDE DEF copy, own
  <2>4. /\ n \in Nat /\ DOMAIN sections = 1 .. n
        /\ sections' \in Seq(BarfSection(Data, Offset))
        /\ Len(sections') = Len(sections) + Len(copy)
    <3>1. /\ sections \o copy \in Seq(BarfSection(Data, Offset))
          /\ Len(sections \o copy) = Len(sections) + Len(copy)
      BY <2>2, <2>3, ConcatProperties
    <3>2. n \in Nat /\ DOMAIN sections = 1 .. n
      BY <2>3
    <3>3. QED
      BY <1>1, <3>1, <3>2
  <2>5. QED
    BY <2>1, <2>2, <2>4
<1> HIDE DEF copy
<1>3. \A ref \in SectionRef(inputs) :
        /\ ref[1] \in Nat /\ ref[1] \in DOMAIN inputs /\ ref[2] \in DOMAIN inputs[ref[1]].sections
        /\ IsCopied(ref[1])' <=> IsCopied(ref[1]) \/ ref[1] = bi
        /\ ~ (IsCopied(ref[1]) /\ ref[1] = bi)
  BY <1>1, InputsSequence, SectionRefs DEF IsCopied
<1>4. SectionsInOrder'
  <2>1. /\ IsFiniteSet(SectionsBefore(bi)) /\ Cardinality(SectionsBefore(bi)) = n
    BY <1>1 DEF FileInv, SectionsInOrder
  <2>2. /\ IsFiniteSet(SectionsBefore(bi + 1))
        /\ Cardinality(SectionsBefore(bi + 1)) = Len(sections')
    BY <1>1, <1>2, <2>1, SectionsBeforeNext
  <2>3. SectionsBefore(bi)' = SectionsBefore(bi + 1)
    BY <1>1 DEF SectionsBefore
  <2>4. ASSUME NEW ref \in SectionRef(inputs), IsCopied(ref[1])'
        PROVE  section_mapping'[ref] = PlaceInFile(ref)
    <3>1. CASE ref[1] = bi
      <4>1. PlaceInFile(ref) = Cardinality(SectionsBefore(bi)) + ref[2]
        BY <3>1 DEF PlaceInFile, SectionsBefore
      <4>2. QED
        BY <1>1, <2>1, <3>1, <4>1
    <3>2. CASE ref[1] # bi
      BY <1>1, <1>3, <2>4, <3>2 DEF FileInv, SectionsInOrder
    <3>3. QED
      BY <3>1, <3>2
  <2>5. \A ref : PlaceInFile(ref)' = PlaceInFile(ref)
    BY <1>1 DEF PlaceInFile
  <2>6. QED
    BY <1>1, <2>2, <2>3, <2>4, <2>5 DEF SectionsInOrder
<1>5. CopiesHaveOrigin'
  <2>1. SUFFICES ASSUME NEW m \in 1 .. n + Len(own)
                 PROVE  \E ref \in SectionRef(inputs) :
                          IsCopied(ref[1])' /\ section_mapping'[ref] = m
    BY <1>1, <1>2 DEF CopiesHaveOrigin
  <2>2. CASE m <= n
    <3>1. m \in DOMAIN sections
      BY <1>2, <2>2
    <3>2. PICK ref \in SectionRef(inputs) : IsCopied(ref[1]) /\ section_mapping[ref] = m
      BY <1>1, <3>1 DEF FileInv, CopiesHaveOrigin, Copying
    <3>3. QED
      BY <1>1, <1>3, <3>2
  <2>3. CASE m > n
    <3>1. m - n \in DOMAIN own /\ n + (m - n) = m
      BY <1>2, <2>3
    <3>2. <<bi, m - n>> \in SectionRef(inputs)
      BY <1>1, <3>1, SectionRefs
    <3>3. QED
      BY <1>1, <1>3, <3>1, <3>2
  <2>4. QED
    BY <1>2, <2>2, <2>3
<1>6. RelocationsKeepTheirNumber'
  BY <1>1 DEF RelocationsKeepTheirNumber, IsRelocated
<1>7. ExternalsAreNowhere' /\ DefinitionsHaveOrigin'
  BY <1>1 DEF FileInv, ExternalsAreNowhere, DefinitionsHaveOrigin
<1>8. QED
  BY <1>4, <1>5, <1>6, <1>7 DEF FileInv

-------------------------------------------------------------------------------
(* What a step of the symbol loop cannot disturb. *)
LEMMA SymbolStepKeepsSections ==
  ASSUME FileInv, TypeOK, InSymbolLoop, NextSymbol
  PROVE  SectionsInOrder' /\ CopiesHaveOrigin' /\ RelocationsKeepTheirNumber'
<1>1. /\ inputs' = inputs /\ pc = "symbols" /\ pc' = pc /\ bi' = bi
      /\ sections' = sections /\ section_mapping' = section_mapping
  BY DEF InSymbolLoop, NextSymbol, given
<1>2. /\ \A b : (IsCopied(b)' <=> IsCopied(b)) /\ ~ IsRelocated(b)'
      /\ \A ref : PlaceInFile(ref)' = PlaceInFile(ref)
  BY <1>1 DEF IsCopied, IsRelocated, PlaceInFile
<1>3. SectionsInOrder' /\ CopiesHaveOrigin'
  BY <1>1, <1>2 DEF FileInv, SectionsInOrder, CopiesHaveOrigin, Copying
<1>4. RelocationsKeepTheirNumber'
  BY <1>1, <1>2 DEF RelocationsKeepTheirNumber
<1>5. QED
  BY <1>3, <1>4

(* A step that maps the current symbol to the i-th merged one.              *)
LEMMA MapKeepsFileInv ==
  ASSUME FileInv, LInv, TypeOK, InSymbolLoop, NextSymbol,
         NEW i \in Nat \ {0},
         symbol_mapping' = [symbol_mapping EXCEPT ![<<bi, si>>] = i],
         \A j \in DOMAIN symbols' :
           \/ symbols'[j].type = BARF_SYMBOL_EXTERNAL /\ symbols'[j].section_index = NoSection
           \/ j = i /\ Defines(Current) /\ symbols'[j].type # BARF_SYMBOL_EXTERNAL
           \/ j \in DOMAIN symbols /\ symbols'[j] = symbols[j]
  PROVE  FileInv'
<1> DEFINE here == <<bi, si>>
<1>1. /\ here \in SymbolRef(inputs) /\ SymbolAt(inputs, here) = Current
      /\ inputs' = inputs /\ symbol_mapping[here] = Unmapped
  BY CurrentTyped, CurrentIsUnmapped DEF NextSymbol, given
<1>2. /\ symbol_mapping'[here] = i
      /\ \A ref \in SymbolRef(inputs) : ref # here => symbol_mapping'[ref] = symbol_mapping[ref]
  BY <1>1 DEF TypeOK
<1>3. ExternalsAreNowhere'
  BY DEF FileInv, ExternalsAreNowhere
<1>4. DefinitionsHaveOrigin'
  <2>1. SUFFICES ASSUME NEW j \in DOMAIN symbols', symbols'[j].type # BARF_SYMBOL_EXTERNAL
                 PROVE  \E ref \in SymbolRef(inputs) :
                          symbol_mapping'[ref] = j /\ Defines(SymbolAt(inputs, ref))
    BY <1>1 DEF DefinitionsHaveOrigin
  <2>2. CASE j = i /\ Defines(Current)
    BY <1>1, <1>2, <2>2
  <2>3. CASE j \in DOMAIN symbols /\ symbols'[j] = symbols[j]
    <3>1. PICK ref \in SymbolRef(inputs) :
            symbol_mapping[ref] = j /\ Defines(SymbolAt(inputs, ref))
      BY <2>1, <2>3 DEF FileInv, DefinitionsHaveOrigin
    <3>2. j # Unmapped
      BY <2>3 DEF TypeOK, Unmapped
    <3>3. QED
      BY <1>1, <1>2, <3>1, <3>2
  <2>4. QED
    BY <2>1, <2>2, <2>3
<1>5. QED
  BY <1>3, <1>4, SymbolStepKeepsSections DEF FileInv

LEMMA AddKeepsFileInv ==
  ASSUME FileInv, LInv, TypeOK, InSymbolLoop, NEW place, Add(place),
         \/ Defines(Current)
         \/ Current.type = BARF_SYMBOL_EXTERNAL /\ place = NoSection
  PROVE  FileInv'
<1> DEFINE n == Len(symbols)
           new == [ type |-> Current.type, name |-> Current.name,
                    section_index |-> place, offset |-> Current.offset ]
<1>1. /\ n \in Nat /\ DOMAIN symbols = 1 .. n
      /\ DOMAIN symbols' = 1 .. n + 1
      /\ \A j \in 1 .. n : symbols'[j] = symbols[j]
      /\ symbols'[n + 1] = new
  <2>1. symbols' = Append(symbols, new) /\ symbols \in Seq(BarfSymbol(Name, Offset))
    BY DEF Add, TypeOK
  <2> HIDE DEF new
  <2>2. QED
    BY <2>1
<1>2. NextSymbol /\ symbol_mapping' = [symbol_mapping EXCEPT ![<<bi, si>>] = n + 1]
  BY DEF Add, MapTo
<1>3. \A j \in DOMAIN symbols' :
        \/ symbols'[j].type = BARF_SYMBOL_EXTERNAL /\ symbols'[j].section_index = NoSection
        \/ j = n + 1 /\ Defines(Current) /\ symbols'[j].type # BARF_SYMBOL_EXTERNAL
        \/ j \in DOMAIN symbols /\ symbols'[j] = symbols[j]
  <2>1. Defines(Current) => Current.type # BARF_SYMBOL_EXTERNAL
    BY DEF Defines, BARF_SYMBOL_LOCAL, BARF_SYMBOL_GLOBAL, BARF_SYMBOL_EXTERNAL
  <2>2. \A j \in DOMAIN symbols' : j = n + 1 \/ j \in 1 .. n
    BY <1>1
  <2>3. new.type = Current.type /\ new.section_index = place
    OBVIOUS
  <2> HIDE DEF new, n
  <2>4. QED
    BY <1>1, <2>1, <2>2, <2>3
<1>4. n + 1 \in Nat \ {0}
  BY <1>1
<1> HIDE DEF n
<1>5. QED
  BY <1>2, <1>3, <1>4, MapKeepsFileInv

LEMMA PromoteKeepsFileInv ==
  ASSUME FileInv, LInv, TypeOK, InSymbolLoop, PromoteExternal
  PROVE  FileInv'
<1>1. PICK i \in DOMAIN symbols :
        /\ symbols' = [symbols EXCEPT ![i] =
             [ type |-> BARF_SYMBOL_GLOBAL, name |-> symbols[i].name,
               section_index |-> CurrentPlace, offset |-> Current.offset ]]
        /\ symbol_mapping' = [symbol_mapping EXCEPT ![<<bi, si>>] = i]
  BY DEF PromoteExternal, MapTo
<1>2. /\ NextSymbol /\ Current.type = BARF_SYMBOL_GLOBAL /\ i \in Nat \ {0}
  BY DEF PromoteExternal, TypeOK
<1>3. Defines(Current) /\ BARF_SYMBOL_GLOBAL # BARF_SYMBOL_EXTERNAL
  BY <1>2 DEF Defines, BARF_SYMBOL_GLOBAL, BARF_SYMBOL_EXTERNAL
<1>4. /\ DOMAIN symbols' = DOMAIN symbols /\ symbols'[i].type = BARF_SYMBOL_GLOBAL
      /\ \A j \in DOMAIN symbols : j # i => symbols'[j] = symbols[j]
  BY <1>1
<1>5. \A j \in DOMAIN symbols' :
        \/ j = i /\ Defines(Current) /\ symbols'[j].type # BARF_SYMBOL_EXTERNAL
        \/ j \in DOMAIN symbols /\ symbols'[j] = symbols[j]
  BY <1>3, <1>4
<1>6. QED
  BY <1>1, <1>2, <1>5, MapKeepsFileInv

LEMMA MergeSymbolKeepsFileInv ==
  ASSUME FileInv, LInv, TypeOK, MergeSymbol
  PROVE  FileInv'
<1>1. InSymbolLoop
  BY DEF MergeSymbol
<1>2. CASE MergeLocal
  BY <1>1, <1>2, AddKeepsFileInv DEF MergeLocal, Defines
<1>3. CASE ShareExternal
  <2>1. PICK i \in DOMAIN symbols :
          symbol_mapping' = [symbol_mapping EXCEPT ![<<bi, si>>] = i]
    BY <1>3 DEF ShareExternal, MapTo
  <2>2. NextSymbol /\ symbols' = symbols /\ i \in Nat \ {0}
    BY <1>3 DEF ShareExternal, TypeOK
  <2>3. QED
    BY <1>1, <2>1, <2>2, MapKeepsFileInv
<1>4. CASE AddExternal
  BY <1>1, <1>4, AddKeepsFileInv DEF AddExternal
<1>5. CASE RejectDuplicate
  BY <1>5, FailKeepsFileInv DEF RejectDuplicate
<1>6. CASE PromoteExternal
  BY <1>1, <1>6, PromoteKeepsFileInv
<1>7. CASE AddGlobal
  BY <1>1, <1>7, AddKeepsFileInv, CrashKeepsFileInv DEF AddGlobal, Defines
<1>8. CASE FaultUnplaced
  BY <1>8, CrashKeepsFileInv DEF FaultUnplaced
<1>9. CASE SkipUnknown
  <2>1. /\ NextSymbol /\ symbols' = symbols /\ symbol_mapping' = symbol_mapping
        /\ inputs' = inputs
    BY <1>9 DEF SkipUnknown, NextSymbol, given
  <2>2. ExternalsAreNowhere' /\ DefinitionsHaveOrigin'
    BY <2>1 DEF FileInv, ExternalsAreNowhere, DefinitionsHaveOrigin
  <2>3. QED
    BY <1>1, <2>1, <2>2, SymbolStepKeepsSections DEF FileInv
<1>10. QED
  BY <1>2, <1>3, <1>4, <1>5, <1>6, <1>7, <1>8, <1>9 DEF MergeSymbol

-------------------------------------------------------------------------------
LEMMA RelocateKeepsFileInv ==
  ASSUME FileInv, LInv, IInv, Relocate
  PROVE  FileInv'
<1>1. CASE Crash("fault")
  BY <1>1, CrashKeepsFileInv DEF IInv
<1>2. CASE ~ Crash("fault")
  <2>1. /\ pc = "relocations" /\ pc' = pc /\ bi \in DOMAIN inputs /\ bi' = bi + 1
        /\ DOMAIN sections' = DOMAIN sections /\ TypeOK
        /\ inputs' = inputs /\ symbols' = symbols /\ section_mapping' = section_mapping
        /\ symbol_mapping' = symbol_mapping
    BY <1>2, RelocateWrites
  <2>2. \A ref \in SectionRef(inputs) :
          /\ sections[section_mapping[ref]] \in BarfSection(Data, Offset)
          /\ sections'[section_mapping[ref]] =
               IF ref[1] = bi
               THEN [sections[section_mapping[ref]] EXCEPT !.relocations = Renumbered(ref[2])]
               ELSE sections[section_mapping[ref]]
    BY <1>2, RelocateWrites
  <2>3. /\ \A b : IsCopied(b)' <=> IsCopied(b)
        /\ \A ref : PlaceInFile(ref)' = PlaceInFile(ref)
    BY <2>1 DEF IsCopied, PlaceInFile
  <2>4. SectionsInOrder' /\ CopiesHaveOrigin'
    BY <2>1, <2>3 DEF FileInv, SectionsInOrder, CopiesHaveOrigin, Copying
  <2>5. ExternalsAreNowhere' /\ DefinitionsHaveOrigin'
    BY <2>1 DEF FileInv, ExternalsAreNowhere, DefinitionsHaveOrigin
  <2>6. RelocationsKeepTheirNumber'
    <3>1. SUFFICES ASSUME NEW ref \in SectionRef(inputs), IsRelocated(ref[1])'
                   PROVE  DOMAIN sections'[section_mapping[ref]].relocations =
                            DOMAIN SectionAt(inputs, ref).relocations
      BY <2>1 DEF RelocationsKeepTheirNumber
    <3>2. CASE ref[1] = bi
      <4>1. sections'[section_mapping[ref]].relocations = Renumbered(ref[2])
        BY <2>2, <3>2 DEF BarfSection
      <4>2. QED
        BY <3>2, <4>1 DEF Renumbered, SectionAt
    <3>3. CASE ref[1] # bi
      <4>1. IsRelocated(ref[1])
        BY <2>1, <3>1, <3>3, SectionRefs, InputsSequence DEF IsRelocated
      <4>2. QED
        BY <2>2, <3>3, <4>1 DEF FileInv, RelocationsKeepTheirNumber
    <3>4. QED
      BY <3>2, <3>3
  <2>7. QED
    BY <2>4, <2>5, <2>6 DEF FileInv
<1>3. QED
  BY <1>1, <1>2

(* A loop over the inputs that is done, or one that does not copy anything. *)
LEMMA ControlKeepsFileInv ==
  ASSUME FileInv, IInv, ControlStep
  PROVE  FileInv'
<1> USE DEF Copying
<1>1. TypeOK /\ \A b \in DOMAIN inputs : b \in 1 .. Len(inputs)
  BY InputsSequence DEF IInv
<1>2. CASE Start
  BY <1>1, <1>2, StopKeepsFileInv DEF Start
<1>3. CASE ParseInput
  <2>1. \/ Fail("unreadable") \/ Fail("target")
        \/ pc' = "parse" /\ UNCHANGED << given, tables >>
    BY <1>3 DEF ParseInput
  <2>2. QED
    BY <1>1, <2>1, FailKeepsFileInv, StopKeepsFileInv
<1>4. CASE Allocate
  BY <1>4, AllocateKeepsFileInv
<1>5. CASE SectionsMerged
  <2>1. /\ pc = "sections" /\ bi > Len(inputs) /\ pc' = "symbols"
        /\ UNCHANGED << given, tables >>
    BY <1>5 DEF SectionsMerged, Proceed
  <2>2. \A b \in DOMAIN inputs : IsCopied(b) /\ IsCopied(b)' /\ ~ IsRelocated(b)'
    BY <1>1, <2>1, InputsSequence DEF IsCopied, IsRelocated
  <2>3. QED
    BY <1>1, <2>1, <2>2, QuietKeepsFileInv
<1>6. CASE NextTable
  <2>1. pc = "symbols" /\ pc' = pc /\ UNCHANGED << given, tables >>
    BY <1>6 DEF NextTable
  <2>2. \A b \in DOMAIN inputs : IsCopied(b) /\ IsCopied(b)' /\ ~ IsRelocated(b)'
    BY <2>1 DEF IsCopied, IsRelocated
  <2>3. QED
    BY <1>1, <2>1, <2>2, QuietKeepsFileInv
<1>7. CASE SymbolsMerged
  <2>1. pc = "symbols" /\ pc' = "relocations" /\ bi' = 1 /\ UNCHANGED << given, tables >>
    BY <1>7 DEF SymbolsMerged, Proceed
  <2>2. \A b \in DOMAIN inputs : IsCopied(b) /\ IsCopied(b)' /\ ~ IsRelocated(b)'
    BY <1>1, <2>1, InputsSequence DEF IsCopied, IsRelocated
  <2>3. QED
    BY <1>1, <2>1, <2>2, QuietKeepsFileInv
<1>8. CASE Relocated
  <2>1. /\ pc = "relocations" /\ bi > Len(inputs) /\ pc' = "write"
        /\ UNCHANGED << given, tables >>
    BY <1>8 DEF Relocated, Proceed
  <2>2. \A b \in DOMAIN inputs : IsCopied(b) /\ IsCopied(b)' /\ IsRelocated(b)
    BY <1>1, <2>1, InputsSequence DEF IsCopied, IsRelocated
  <2>3. QED
    BY <1>1, <2>1, <2>2, QuietKeepsFileInv
<1>9. CASE WriteOutput
  BY <1>1, <1>9, CrashKeepsFileInv, FailKeepsFileInv, StopKeepsFileInv DEF WriteOutput
<1>10. CASE Cleanup
  BY <1>1, <1>10, StopKeepsFileInv DEF Cleanup
<1>11. QED
  BY <1>2, <1>3, <1>4, <1>5, <1>6, <1>7, <1>8, <1>9, <1>10 DEF ControlStep

LEMMA StepKeepsFileInv == IInv /\ LInv /\ FileInv /\ [Next]_vars => FileInv'
<1> SUFFICES ASSUME IInv, LInv, FileInv, [Next]_vars
             PROVE  FileInv'
  OBVIOUS
<1>1. CASE Next
  BY <1>1, ControlKeepsFileInv, MergeSectionsKeepsFileInv, MergeSymbolKeepsFileInv,
     RelocateKeepsFileInv DEF Next, ControlStep, IInv
<1>2. CASE UNCHANGED vars
  <2>1. pc' = pc /\ bi' = bi /\ UNCHANGED << given, tables >>
    BY <1>2 DEF vars
  <2>2. \A b : (IsCopied(b)' <=> IsCopied(b)) /\ (IsRelocated(b)' <=> IsRelocated(b))
    BY <2>1 DEF IsCopied, IsRelocated
  <2>3. QED
    BY <2>1, <2>2, QuietKeepsFileInv DEF IInv
<1>3. QED
  BY <1>1, <1>2

-------------------------------------------------------------------------------
(* What is in the tables when they are written, and stays in them.          *)
AllMerged ==
  /\ \A ref \in SectionRef(inputs) :
       /\ section_mapping[ref] = PlaceInFile(ref)
       /\ PlaceInFile(ref) \in DOMAIN sections
       /\ sections[PlaceInFile(ref)].data = SectionAt(inputs, ref).data
       /\ DOMAIN sections[PlaceInFile(ref)].relocations =
            DOMAIN SectionAt(inputs, ref).relocations
  /\ \A ref, other \in SectionRef(inputs) :
       PlaceInFile(ref) = PlaceInFile(other) => ref = other
  /\ \A m \in DOMAIN sections : \E ref \in SectionRef(inputs) : PlaceInFile(ref) = m
  /\ \A ref \in SymbolRef(inputs) :
       Defines(SymbolAt(inputs, ref)) => symbol_mapping[ref] # Unmapped
  /\ \A rel \in RelocationRef(inputs) :
       /\ MergedRelocation(rel).offset = RelocationAt(inputs, rel).offset
       /\ MergedBinding(rel) = Abstract!BoundTo(rel)

LEMMA WrittenIsMerged ==
  ASSUME IInv, LInv, FileInv, pc = "write"
  PROVE  AllMerged
<1>1. /\ \A b : IsCopied(b) /\ IsRelocated(b)
      /\ \A ref : IsMerged(ref)
  BY DEF IsCopied, IsRelocated, IsMerged
<1>2. ASSUME NEW ref \in SectionRef(inputs)
      PROVE  /\ section_mapping[ref] = PlaceInFile(ref)
             /\ PlaceInFile(ref) \in DOMAIN sections
             /\ sections[PlaceInFile(ref)].data = SectionAt(inputs, ref).data
             /\ DOMAIN sections[PlaceInFile(ref)].relocations =
                  DOMAIN SectionAt(inputs, ref).relocations
  <2>1. section_mapping[ref] = PlaceInFile(ref)
    BY <1>1 DEF FileInv, SectionsInOrder
  <2>2. /\ section_mapping[ref] \in DOMAIN sections
        /\ sections[section_mapping[ref]].data = SectionAt(inputs, ref).data
    BY <1>1 DEF LInv, CopiedHaveData
  <2>3. DOMAIN sections[section_mapping[ref]].relocations =
          DOMAIN SectionAt(inputs, ref).relocations
    BY <1>1 DEF FileInv, RelocationsKeepTheirNumber
  <2>4. QED
    BY <2>1, <2>2, <2>3
<1>3. \A ref, other \in SectionRef(inputs) :
        PlaceInFile(ref) = PlaceInFile(other) => ref = other
  <2>1. \A ref, other \in SectionRef(inputs) :
          section_mapping[ref] = section_mapping[other] => ref = other
    BY <1>1 DEF LInv, CopiedAreDistinct
  <2>2. QED
    BY <1>2, <2>1
<1>4. \A m \in DOMAIN sections : \E ref \in SectionRef(inputs) : PlaceInFile(ref) = m
  <2>1. \A m \in DOMAIN sections : \E ref \in SectionRef(inputs) : section_mapping[ref] = m
    BY DEF FileInv, CopiesHaveOrigin, Copying
  <2>2. QED
    BY <1>2, <2>1
<1>5. \A ref \in SymbolRef(inputs) :
        Defines(SymbolAt(inputs, ref)) => symbol_mapping[ref] # Unmapped
  BY <1>1 DEF LInv, MergedAreMapped, Defines, UnknownType, BARF_SYMBOL_LOCAL,
     BARF_SYMBOL_GLOBAL
<1>6. ASSUME NEW rel \in RelocationRef(inputs)
      PROVE  /\ MergedRelocation(rel).offset = RelocationAt(inputs, rel).offset
             /\ MergedBinding(rel) = Abstract!BoundTo(rel)
  BY <1>1, RelocationsAreBound DEF LInv, RelocatedAreRenumbered
<1>7. QED
  BY <1>2, <1>3, <1>4, <1>5, <1>6 DEF AllMerged

(* What combining keeps true, and what stands when it is done.              *)
CombinerInv ==
  /\ IInv /\ LInv /\ FileInv
  /\ pc = "done" => AllMerged

LEMMA SameTablesSameMerged ==
  ASSUME UNCHANGED << given, tables >>, AllMerged
  PROVE  AllMerged'
<1>1. /\ inputs' = inputs /\ sections' = sections /\ symbols' = symbols
      /\ section_mapping' = section_mapping /\ symbol_mapping' = symbol_mapping
  BY DEF given, tables
<1>2. \A ref : PlaceInFile(ref)' = PlaceInFile(ref)
  BY <1>1 DEF PlaceInFile
<1>3. \A rel : /\ MergedRelocation(rel)' = MergedRelocation(rel)
               /\ MergedBinding(rel)' = MergedBinding(rel)
  BY <1>1 DEF MergedRelocation, MergedBinding, OriginOf
<1>4. \A rel : Abstract!BoundTo(rel)' = Abstract!BoundTo(rel)
  BY <1>1 DEF Abstract!BoundTo, Abstract!PlaceOf, Abstract!GlobalsNamed
<1>5. QED
  BY <1>1, <1>2, <1>3, <1>4 DEF AllMerged

LEMMA InitCombinerInv == Init => CombinerInv
<1>1. Init => pc # "done"
  BY DEF Init
<1>2. QED
  BY <1>1, InitIInv, InitLInv, InitFileInv DEF CombinerInv

LEMMA StepKeepsCombinerInv == CombinerInv /\ [Next]_vars => CombinerInv'
<1> SUFFICES ASSUME CombinerInv, [Next]_vars
             PROVE  CombinerInv'
  OBVIOUS
<1>1. IInv' /\ LInv' /\ FileInv'
  BY StepKeepsIInv, StepKeepsLInv, StepKeepsFileInv DEF CombinerInv
<1>2. ASSUME pc' = "done"
      PROVE  AllMerged'
  <2>1. CASE Next
    <3>1. pc = "write" /\ UNCHANGED << given, tables >>
      BY <1>2, <2>1, WaysToAnswer DEF CombinerInv, IInv, Terminal, given
    <3>2. AllMerged
      BY <3>1, WrittenIsMerged DEF CombinerInv
    <3>3. QED
      BY <3>1, <3>2, SameTablesSameMerged
  <2>2. CASE UNCHANGED vars
    BY <1>2, <2>2, SameTablesSameMerged DEF CombinerInv, vars
  <2>3. QED
    BY <2>1, <2>2
<1>3. QED
  BY <1>1, <1>2 DEF CombinerInv

-------------------------------------------------------------------------------
(* The loader of the composition is the loader of LoaderProofs.             *)
LEMMA LoadersAgree == (L!Step <=> LP!Step) /\ (L!Return <=> LP!Return)
<1>1. L!Start <=> LP!Start
  BY DEF L!Start, LP!Start, L!Free, LP!Free, L!Crash, LP!Crash, L!Stop, LP!Stop, L!space,
     LP!space, L!NULL, LP!NULL, L!Table, LP!Table
<1>2. L!Parse <=> LP!Parse
  BY DEF L!Parse, LP!Parse, L!Fail, LP!Fail, L!Stop, LP!Stop, L!space, LP!space
<1>3. L!MapSection <=> LP!MapSection
  BY DEF L!MapSection, LP!MapSection, L!Free, LP!Free, L!Crash, LP!Crash, L!Stop, LP!Stop,
     L!space, LP!space, L!sections, LP!sections, L!FirstProtection, LP!FirstProtection,
     L!IsIgnored, LP!IsIgnored, L!Sites, LP!Sites, L!symbols, LP!symbols,
     L!BARF_FLAG_ZEROED, LP!BARF_FLAG_ZEROED, L!BARF_FLAG_IGNORE, LP!BARF_FLAG_IGNORE,
     L!BARF_FLAG_WRITE, LP!BARF_FLAG_WRITE, L!NULL, LP!NULL
<1>4. L!CloseFile <=> LP!CloseFile
  BY DEF L!CloseFile, LP!CloseFile, L!Proceed, LP!Proceed, L!Crash, LP!Crash, L!Stop,
     LP!Stop, L!space, LP!space, L!sections, LP!sections
<1>5. L!ApplyRelocation <=> LP!ApplyRelocation
  BY DEF L!ApplyRelocation, LP!ApplyRelocation, L!IsSkipped, LP!IsSkipped, L!sections,
     LP!sections, L!symbols, LP!symbols, L!CurrentRelocation, LP!CurrentRelocation,
     L!RelocatedSymbol, LP!RelocatedSymbol, L!CurrentSite, LP!CurrentSite, L!Bind, LP!Bind,
     L!BindExternal, LP!BindExternal, L!BindDefined, LP!BindDefined, L!BindNowhere,
     LP!BindNowhere, L!FindName, LP!FindName, L!IsProvided, LP!IsProvided, L!InReach,
     LP!InReach, L!Truncated, LP!Truncated, L!JUMP_ENTRY_STRIDE, LP!JUMP_ENTRY_STRIDE,
     L!NULL, LP!NULL, L!IsIgnored, LP!IsIgnored, L!BARF_FLAG_IGNORE, LP!BARF_FLAG_IGNORE,
     L!NoSection, LP!NoSection, L!BARF_RELOC_REL32, LP!BARF_RELOC_REL32, L!Crash, LP!Crash,
     L!Fail, LP!Fail, L!Stop, LP!Stop, L!space, LP!space
<1>6. L!NextSection <=> LP!NextSection
  BY DEF L!NextSection, LP!NextSection, L!IsSkipped, LP!IsSkipped, L!sections, LP!sections,
     L!space, LP!space, L!BARF_FLAG_IGNORE, LP!BARF_FLAG_IGNORE
<1>7. L!Relocated <=> LP!Relocated
  BY DEF L!Relocated, LP!Relocated, L!Proceed, LP!Proceed, L!sections, LP!sections, L!space,
     LP!space
<1>8. L!InitRefptr <=> LP!InitRefptr
  BY DEF L!InitRefptr, LP!InitRefptr, L!symbols, LP!symbols, L!sections, LP!sections,
     L!LookupFaults, LP!LookupFaults, L!IsGlobalNamed, LP!IsGlobalNamed, L!InArtifact,
     LP!InArtifact, L!GetAddress, LP!GetAddress, L!AddressOf, LP!AddressOf, L!FindName,
     LP!FindName, L!IsProvided, LP!IsProvided, L!JUMP_ENTRY_STRIDE, LP!JUMP_ENTRY_STRIDE,
     L!NULL, LP!NULL, L!IsIgnored, LP!IsIgnored, L!BARF_FLAG_IGNORE, LP!BARF_FLAG_IGNORE,
     L!BARF_SYMBOL_GLOBAL, LP!BARF_SYMBOL_GLOBAL, L!Crash, LP!Crash, L!Fail, LP!Fail,
     L!Stop, LP!Stop, L!space, LP!space
<1>9. L!RefptrsDone <=> LP!RefptrsDone
  BY DEF L!RefptrsDone, LP!RefptrsDone, L!Proceed, LP!Proceed, L!symbols, LP!symbols,
     L!space, LP!space
<1>10. L!ProtectSection <=> LP!ProtectSection
  BY DEF L!ProtectSection, LP!ProtectSection, L!sections, LP!sections, L!IsIgnored,
     LP!IsIgnored, L!MemFlags, LP!MemFlags, L!NULL, LP!NULL, L!BARF_FLAG_IGNORE,
     LP!BARF_FLAG_IGNORE, L!BARF_FLAG_EXEC, LP!BARF_FLAG_EXEC, L!BARF_FLAG_WRITE,
     LP!BARF_FLAG_WRITE
<1>11. L!Protected <=> LP!Protected
  BY DEF L!Protected, LP!Protected, L!Proceed, LP!Proceed, L!sections, LP!sections, L!space,
     LP!space
<1>12. L!Enter <=> LP!Enter
  BY DEF L!Enter, LP!Enter, L!LookupFaults, LP!LookupFaults, L!IsGlobalNamed,
     LP!IsGlobalNamed, L!InArtifact, LP!InArtifact, L!GetAddress, LP!GetAddress, L!symbols,
     LP!symbols, L!sections, LP!sections, L!NULL, LP!NULL, L!BARF_FLAG_EXEC,
     LP!BARF_FLAG_EXEC, L!BARF_SYMBOL_GLOBAL, LP!BARF_SYMBOL_GLOBAL, L!Crash, LP!Crash,
     L!Fail, LP!Fail, L!Stop, LP!Stop, L!space, LP!space
<1>13. L!Return <=> LP!Return
  BY DEF L!Return, LP!Return, L!Stop, LP!Stop, L!space, LP!space
<1>14. L!UnmapSection <=> LP!UnmapSection
  BY DEF L!UnmapSection, LP!UnmapSection, L!sections, LP!sections, L!IsIgnored,
     LP!IsIgnored, L!BARF_FLAG_IGNORE, LP!BARF_FLAG_IGNORE, L!NULL, LP!NULL
<1>15. L!Unmapped <=> LP!Unmapped
  BY DEF L!Unmapped, LP!Unmapped, L!Proceed, LP!Proceed, L!sections, LP!sections, L!space,
     LP!space
<1>16. QED
  BY <1>1, <1>2, <1>3, <1>4, <1>5, <1>6, <1>7, <1>8, <1>9, <1>10, <1>11, <1>12, <1>13,
     <1>14, <1>15 DEF L!Step, LP!Step

LEMMA LoaderIsAssumed ==
  LP!ArtifactsAssumption /\ LP!AddressAssumption /\ LP!NamesAssumption
BY LoaderAssumption
   DEF LP!ArtifactsAssumption, LP!AddressAssumption, LP!NamesAssumption, LP!NULL, L!NULL

LEMMA LoaderStarts == LP!Starting => LP!IInv
BY LoaderIsAssumed, LP!StartingIInv

LEMMA LoaderKeepsIInv == LP!IInv /\ [LP!Next]_(LP!vars) => LP!IInv'
BY LoaderIsAssumed, LP!StepKeepsIInv

LEMMA LoadedIsGiven == LP!Next => UNCHANGED loaded
BY LoaderIsAssumed, LP!ArtifactIsGiven

-------------------------------------------------------------------------------
(* The file that was written is one the loader may be given.                *)
LEMMA WrittenIsLoadable ==
  ASSUME TypeOK
  PROVE  Written \in LP!LoadableArtifact
<1> DEFINE Merged == BarfSection(Data, Offset)
           Relocations == Seq(BarfRelocation(Offset))
<1>1. sections \in Seq(Merged) /\ symbols \in Seq(BarfSymbol(Name, Offset))
  BY DEF TypeOK
<1> HIDE DEF Merged
<1>2. /\ Len(sections) \in Nat /\ DOMAIN sections = 1 .. Len(sections)
      /\ \A m \in DOMAIN sections : sections[m] \in Merged
  BY <1>1
<1>3. ASSUME NEW m \in DOMAIN sections
      PROVE  Written.sections[m] \in LP!Section
  <2> DEFINE own == sections[m].relocations
             Loaded == [ type : {LP!BARF_RELOC_REL32, LP!OtherRelocation},
                         symbol_index : Nat, offset : Offset ]
             renamed == [r \in DOMAIN own |->
                          [ type |-> L!BARF_RELOC_REL32, symbol_index |-> own[r].symbol_index,
                            offset |-> own[r].offset ]]
  <2>1. sections[m].data \in Data /\ own \in Relocations
    BY <1>2 DEF Merged, BarfSection
  <2>2. /\ sections[m].data.flags \in LP!BarfSectionFlags
        /\ sections[m].data.data_size \in Nat /\ sections[m].data.content \in LP!Word
    <3>1. sections[m].data \in [flags : L!BarfSectionFlags, data_size : Nat, content : L!Word]
      BY <2>1, DataAssumption
    <3>2. L!BarfSectionFlags = LP!BarfSectionFlags /\ L!Word = LP!Word
      BY DEF L!BarfSectionFlags, LP!BarfSectionFlags, L!Word, LP!Word, L!BARF_FLAG_WRITE,
         LP!BARF_FLAG_WRITE, L!BARF_FLAG_EXEC, LP!BARF_FLAG_EXEC, L!BARF_FLAG_ZEROED,
         LP!BARF_FLAG_ZEROED, L!BARF_FLAG_IGNORE, LP!BARF_FLAG_IGNORE
    <3>3. QED
      BY <3>1, <3>2
  <2>3. renamed \in Seq(Loaded)
    <3> DEFINE Own == BarfRelocation(Offset)
    <3>1. own \in Seq(Own)
      BY <2>1
    <3> HIDE DEF own, Own
    <3>2. /\ Len(own) \in Nat /\ DOMAIN own = 1 .. Len(own)
          /\ \A r \in DOMAIN own : own[r] \in Own
      BY <3>1
    <3>3. \A r \in 1 .. Len(own) : renamed[r] \in Loaded
      BY <3>2 DEF Own, BarfRelocation, L!BARF_RELOC_REL32, LP!BARF_RELOC_REL32
    <3>4. renamed \in [1 .. Len(own) -> Loaded]
      BY <3>2, <3>3
    <3> HIDE DEF renamed, Loaded
    <3>5. QED
      BY <3>2, <3>4, SequenceOf
  <2>4. Written.sections[m] =
          [ flags |-> sections[m].data.flags, data_size |-> sections[m].data.data_size,
            content |-> sections[m].data.content, relocations |-> renamed ]
    BY DEF Written
  <2> HIDE DEF own, renamed
  <2>5. QED
    BY <2>2, <2>3, <2>4 DEF LP!Section
<1>4. Written.sections \in Seq(LP!Section)
  <2>1. Written.sections \in [1 .. Len(sections) -> LP!Section]
    <3>1. DOMAIN Written.sections = 1 .. Len(sections)
      BY <1>2 DEF Written
    <3>2. Written.sections = [m \in 1 .. Len(sections) |-> Written.sections[m]]
      BY <1>2 DEF Written
    <3>3. QED
      BY <1>2, <1>3, <3>2
  <2>2. QED
    BY <1>2, <2>1, SequenceOf
<1>5. Written.symbols \in Seq(LP!BarfSymbol(Name, Offset))
  <2>1. LP!BarfSymbol(Name, Offset) = BarfSymbol(Name, Offset)
    BY DEF LP!BarfSymbol, BarfSymbol, LP!SymbolType, SymbolType, LP!BARF_SYMBOL_LOCAL,
       BARF_SYMBOL_LOCAL, LP!BARF_SYMBOL_GLOBAL, BARF_SYMBOL_GLOBAL,
       LP!BARF_SYMBOL_EXTERNAL, BARF_SYMBOL_EXTERNAL, LP!UnknownType, UnknownType
  <2>2. Written.symbols = symbols
    BY DEF Written
  <2>3. QED
    BY <1>1, <2>1, <2>2
<1>6. /\ Written.readable \in BOOLEAN
      /\ Written = [ readable |-> Written.readable, symbols |-> Written.symbols,
                     sections |-> Written.sections ]
  BY DEF Written
<1>7. QED
  BY <1>4, <1>5, <1>6 DEF LP!LoadableArtifact

(* The inductive invariant of the two functions: nothing is loaded before   *)
(* the file is written, and then it is that file.                           *)
LoaderWaits ==
  /\ loader_error = "none" /\ loader_si = 1 /\ loader_ri = 1
  /\ external_segment = L!NULL /\ unprotected = {}

LoadedIsWritten == pc = "done" /\ loaded = Written /\ LP!IInv

ProgramInv ==
  /\ CombinerInv
  /\ loader_pc = "waiting" => LoaderWaits
  /\ loader_pc # "waiting" => LoadedIsWritten

LEMMA InitProgramInv == ProgramInit => ProgramInv
BY InitCombinerInv DEF ProgramInit, ProgramInv, LoaderWaits

LEMMA LoadFileStarts ==
  ASSUME CombinerInv, LoaderWaits, LoadFile
  PROVE  LP!Starting'
<1>1. loaded' = Written /\ loader_pc' = "start"
  BY DEF LoadFile
<1>2. Written \in LP!LoadableArtifact
  BY WrittenIsLoadable DEF CombinerInv, IInv
<1>3. LP!sections' = Written.sections /\ DOMAIN Written.sections = DOMAIN sections
  BY <1>1 DEF LP!sections, Written
<1>4. L!Sites' = LP!Sites'
  BY DEF L!Sites, LP!Sites, L!sections, LP!sections, L!symbols, LP!symbols
<1>5. /\ segments' = [k \in DOMAIN LP!sections' |-> LP!NULL]
      /\ protection' = [k \in DOMAIN LP!sections' |-> {}]
      /\ memory' = [site \in LP!Sites' |-> 0]
  BY <1>3, <1>4 DEF LoadFile, L!NULL, LP!NULL
<1>6. /\ loader_error' = "none" /\ loader_si' = 1 /\ loader_ri' = 1
      /\ external_segment' = LP!NULL /\ unprotected' = {}
  BY DEF LoadFile, LoaderWaits, L!NULL, LP!NULL
<1>7. QED
  BY <1>1, <1>2, <1>5, <1>6 DEF LP!Starting

LEMMA LoaderStartsNext == LP!Starting' => LP!IInv'
BY LoaderStarts, PTL

LEMMA SameFile ==
  ASSUME UNCHANGED vars
  PROVE  Written' = Written /\ pc' = pc
BY DEF vars, tables, Written

LEMMA StepKeepsProgramInv == ProgramInv /\ [ProgramNext]_all_vars => ProgramInv'
<1> SUFFICES ASSUME ProgramInv, [ProgramNext]_all_vars
             PROVE  ProgramInv'
  OBVIOUS
<1>1. CASE CombineFiles
  <2>1. Next /\ UNCHANGED loader
    BY <1>1 DEF CombineFiles
  <2>2. pc # "done"
    BY <2>1, WaysToAnswer DEF ProgramInv, CombinerInv, IInv, Terminal
  <2>3. loader_pc = "waiting" /\ loader_pc' = "waiting" /\ LoaderWaits'
    BY <2>1, <2>2 DEF ProgramInv, LoadedIsWritten, LoaderWaits, loader, L!NULL
  <2>4. QED
    BY <2>1, <2>3, StepKeepsCombinerInv DEF ProgramInv
<1>2. CASE LoadFile
  <2>1. UNCHANGED vars /\ pc = "done" /\ loaded' = Written /\ loader_pc' = "start"
    BY <1>2 DEF LoadFile
  <2>2. CombinerInv'
    BY <2>1, StepKeepsCombinerInv DEF ProgramInv
  <2>3. LP!IInv'
    BY <1>2, LoadFileStarts, LoaderStartsNext DEF ProgramInv, LoadFile
  <2>4. QED
    BY <2>1, <2>2, <2>3, SameFile DEF ProgramInv, LoadedIsWritten
<1>3. CASE LoaderStep \/ ProgramReturns
  <2>1. UNCHANGED vars /\ LP!Next
    BY <1>3, LoadersAgree DEF LoaderStep, ProgramReturns, LP!Next
  <2>2. CombinerInv'
    BY <2>1, StepKeepsCombinerInv DEF ProgramInv
  <2>3. loader_pc # "waiting" /\ loader_pc' # "waiting"
    <3>1. loader_pc # "waiting"
      BY <2>1 DEF LP!Next, LP!Step, LP!Return, LP!Start, LP!Parse, LP!MapSection,
         LP!CloseFile, LP!Proceed, LP!ApplyRelocation, LP!NextSection, LP!Relocated,
         LP!InitRefptr, LP!RefptrsDone, LP!ProtectSection, LP!Protected, LP!Enter,
         LP!UnmapSection, LP!Unmapped
    <3>2. LP!IInv'
      BY <2>1, <3>1, LoaderKeepsIInv DEF ProgramInv, LoadedIsWritten
    <3>3. QED
      BY <3>1, <3>2 DEF LP!IInv, LP!TypeOK, LP!Terminal
  <2>4. LP!IInv'
    BY <2>1, <2>3, LoaderKeepsIInv DEF ProgramInv, LoadedIsWritten
  <2>5. loaded' = loaded
    BY <2>1, LoadedIsGiven
  <2>6. QED
    BY <2>1, <2>2, <2>3, <2>4, <2>5, SameFile DEF ProgramInv, LoadedIsWritten
<1>4. CASE UNCHANGED all_vars
  <2>1. UNCHANGED vars /\ UNCHANGED loader
    BY <1>4 DEF all_vars
  <2>2. CombinerInv'
    BY <2>1, StepKeepsCombinerInv DEF ProgramInv
  <2>3. LP!IInv => LP!IInv'
    BY <2>1, LoaderKeepsIInv DEF loader, LP!vars, LP!space
  <2>4. QED
    BY <2>1, <2>2, <2>3, SameFile
       DEF ProgramInv, LoadedIsWritten, LoaderWaits, loader, L!NULL
<1>5. QED
  BY <1>1, <1>2, <1>3, <1>4 DEF ProgramNext

(* The program runs what the loader read, and that is what was written.     *)
THEOREM Program == ProgramSpec => []ProgramInv
BY InitProgramInv, StepKeepsProgramInv, PTL DEF ProgramSpec

-------------------------------------------------------------------------------
(* What LoaderProofs says of a program that runs, in the words of the       *)
(* properties.                                                              *)
LEMMA RunningResolves ==
  ASSUME LP!IInv, loader_pc = "run"
  PROVE  /\ \A ref \in L!RelocationRefs :
              /\ L!sections[ref[1]].relocations[ref[2]].symbol_index \in DOMAIN L!symbols
              /\ L!OwnsSite(ref) /\ L!Representable(L!Displacement(ref)) =>
                   L!Signed(memory[L!SiteOf(ref)]) = L!Displacement(ref)
         /\ \A i \in L!RefptrSymbols :
              (\A j \in L!RefptrSymbols \ {i} : L!PointerSite(j) # L!PointerSite(i)) =>
                memory[L!PointerSite(i)] = L!AddressOf(RefptrTarget[L!symbols[i].name])
<1>1. L!sections = LP!sections /\ L!symbols = LP!symbols
  BY DEF L!sections, LP!sections, L!symbols, LP!symbols
<1>2. LP!ReferencesResolve
  BY LoaderIsAssumed, LP!BoundResolve
<1>3. L!RelocationRefs = LP!RelocationRefs /\ L!RefptrSymbols = LP!RefptrSymbols
  BY <1>1 DEF L!RelocationRefs, LP!RelocationRefs, L!RefptrSymbols, LP!RefptrSymbols,
     L!IsSkipped, LP!IsSkipped, L!BARF_FLAG_IGNORE, LP!BARF_FLAG_IGNORE,
     L!BARF_RELOC_REL32, LP!BARF_RELOC_REL32
<1>4. /\ \A ref : L!SiteOf(ref) = LP!SiteOf(ref)
      /\ \A i : L!PointerSite(i) = LP!PointerSite(i)
  BY <1>1 DEF L!SiteOf, LP!SiteOf, L!PointerSite, LP!PointerSite
<1>5. \A ref : L!OwnsSite(ref) <=> LP!OwnsSite(ref)
  BY <1>3, <1>4 DEF L!OwnsSite, LP!OwnsSite
<1>6. \A name : L!FindName(name) = LP!FindName(name)
  BY DEF L!FindName, LP!FindName, L!IsProvided, LP!IsProvided, L!NULL, LP!NULL,
     L!JUMP_ENTRY_STRIDE, LP!JUMP_ENTRY_STRIDE
<1>7. \A ref : L!Displacement(ref) = LP!Displacement(ref)
  <2>1. \A ref : L!TargetOf(ref) = LP!TargetOf(ref)
    BY <1>1, <1>6 DEF L!TargetOf, LP!TargetOf, L!SymbolOf, LP!SymbolOf, L!NoSection,
       LP!NoSection
  <2>2. \A k : L!Addend(k) = LP!Addend(k)
    BY <1>1 DEF L!Addend, LP!Addend, L!Signed, LP!Signed, L!BARF_FLAG_ZEROED,
       LP!BARF_FLAG_ZEROED
  <2>3. QED
    BY <1>1, <2>1, <2>2 DEF L!Displacement, LP!Displacement
<1>8. \A name : L!AddressOf(name) = LP!AddressOf(name)
  <2>1. \A name : L!GetAddress(name) = LP!GetAddress(name)
    BY <1>1 DEF L!GetAddress, LP!GetAddress, L!InArtifact, LP!InArtifact, L!IsGlobalNamed,
       LP!IsGlobalNamed, L!BARF_SYMBOL_GLOBAL, LP!BARF_SYMBOL_GLOBAL, L!NULL, LP!NULL
  <2>2. QED
    BY <1>6, <2>1 DEF L!AddressOf, LP!AddressOf, L!NULL, LP!NULL
<1>9. \A n : /\ L!Representable(n) <=> LP!Representable(n)
             /\ L!Signed(n) = LP!Signed(n)
  BY DEF L!Representable, LP!Representable, L!Signed, LP!Signed
<1>10. ASSUME NEW ref \in L!RelocationRefs
       PROVE  /\ L!sections[ref[1]].relocations[ref[2]].symbol_index \in DOMAIN L!symbols
              /\ L!OwnsSite(ref) /\ L!Representable(L!Displacement(ref)) =>
                   L!Signed(memory[L!SiteOf(ref)]) = L!Displacement(ref)
  <2>1. LP!IsResolved(ref)
    BY <1>3 DEF LP!IInv, LP!BoundAreResolved, LP!IsBound
  <2>2. L!sections[ref[1]].relocations[ref[2]].symbol_index \in DOMAIN L!symbols
    BY <1>1, <2>1 DEF LP!IsResolved
  <2>3. LP!OwnsSite(ref) /\ LP!Representable(LP!Displacement(ref)) =>
          LP!Signed(memory[LP!SiteOf(ref)]) = LP!Displacement(ref)
    BY <1>2, <1>3 DEF LP!ReferencesResolve, LP!JumpsLeadToTargets
  <2>4. QED
    BY <2>2, <2>3, <1>4, <1>5, <1>7, <1>9
<1>11. ASSUME NEW i \in L!RefptrSymbols,
              \A j \in L!RefptrSymbols \ {i} : L!PointerSite(j) # L!PointerSite(i)
       PROVE  memory[L!PointerSite(i)] = L!AddressOf(RefptrTarget[L!symbols[i].name])
  BY <1>1, <1>2, <1>3, <1>4, <1>8, <1>11 DEF LP!ReferencesResolve, LP!RefptrsPoint
<1>12. QED
  BY <1>10, <1>11

-------------------------------------------------------------------------------
(* A relocation of an input in the file: where it is, and what it says.     *)
InFile(rel) == << PlaceInFile(rel[1]), rel[2] >>

LEMMA RelocationParts ==
  ASSUME NEW objects
  PROVE  /\ \A rel \in RelocationRef(objects) :
              /\ rel = << rel[1], rel[2] >> /\ rel[1] \in SectionRef(objects)
              /\ rel[2] \in DOMAIN SectionAt(objects, rel[1]).relocations
         /\ \A ref \in SectionRef(objects) :
              \A r \in DOMAIN SectionAt(objects, ref).relocations :
                << ref, r >> \in RelocationRef(objects)
<1> DEFINE In(ref) == {ref} \X DOMAIN objects[ref[1]].sections[ref[2]].relocations
<1>1. ASSUME NEW rel \in RelocationRef(objects)
      PROVE  /\ rel = << rel[1], rel[2] >> /\ rel[1] \in SectionRef(objects)
             /\ rel[2] \in DOMAIN SectionAt(objects, rel[1]).relocations
  <2>1. PICK ref \in SectionRef(objects) : rel \in In(ref)
    BY DEF RelocationRef
  <2>2. QED
    BY <2>1 DEF SectionAt
<1>2. ASSUME NEW ref \in SectionRef(objects),
             NEW r \in DOMAIN SectionAt(objects, ref).relocations
      PROVE  << ref, r >> \in RelocationRef(objects)
  <2>1. << ref, r >> \in In(ref)
    BY DEF SectionAt
  <2>2. In(ref) \in {In(other) : other \in SectionRef(objects)}
    OBVIOUS
  <2>3. RelocationRef(objects) = UNION {In(other) : other \in SectionRef(objects)}
    BY DEF RelocationRef
  <2> HIDE DEF In
  <2>4. QED
    BY <2>1, <2>2, <2>3
<1>3. QED
  BY <1>1, <1>2

LEMMA LoadedParts ==
  ASSUME loaded = Written, NEW m \in DOMAIN sections
  PROVE  /\ DOMAIN L!sections = DOMAIN sections
         /\ L!symbols = symbols
         /\ L!sections[m].flags = sections[m].data.flags
         /\ DOMAIN L!sections[m].relocations = DOMAIN sections[m].relocations
         /\ \A r \in DOMAIN sections[m].relocations :
              /\ L!sections[m].relocations[r].type = L!BARF_RELOC_REL32
              /\ L!sections[m].relocations[r].symbol_index =
                   sections[m].relocations[r].symbol_index
              /\ L!sections[m].relocations[r].offset = sections[m].relocations[r].offset
<1>1. L!sections = Written.sections /\ L!symbols = symbols
  BY DEF L!sections, L!symbols, Written
<1>2. QED
  BY <1>1 DEF Written

LEMMA RelocationInFile ==
  ASSUME AllMerged, loaded = Written, NEW rel \in RelocationRef(inputs)
  PROVE  LET k == PlaceInFile(rel[1])
             r == rel[2]
         IN  /\ k \in DOMAIN L!sections /\ k \in DOMAIN sections
             /\ r \in DOMAIN L!sections[k].relocations
             /\ L!sections[k].flags = SectionAt(inputs, rel[1]).data.flags
             /\ L!sections[k].relocations[r].type = L!BARF_RELOC_REL32
             /\ L!sections[k].relocations[r].symbol_index = MergedRelocation(rel).symbol_index
             /\ L!sections[k].relocations[r].offset = RelocationAt(inputs, rel).offset
             /\ L!SiteOf(InFile(rel)) = SiteOfInput(rel)
<1> DEFINE k == PlaceInFile(rel[1])
           r == rel[2]
<1>1. rel[1] \in SectionRef(inputs) /\ r \in DOMAIN SectionAt(inputs, rel[1]).relocations
  BY RelocationParts
<1>2. /\ k \in DOMAIN sections /\ section_mapping[rel[1]] = k
      /\ sections[k].data = SectionAt(inputs, rel[1]).data
      /\ r \in DOMAIN sections[k].relocations
  BY <1>1 DEF AllMerged
<1>3. MergedRelocation(rel) = sections[k].relocations[r]
  BY <1>2 DEF MergedRelocation
<1>4. MergedRelocation(rel).offset = RelocationAt(inputs, rel).offset
  BY DEF AllMerged
<1> HIDE DEF k
<1>5. /\ k \in DOMAIN L!sections
      /\ r \in DOMAIN L!sections[k].relocations
      /\ L!sections[k].flags = SectionAt(inputs, rel[1]).data.flags
      /\ L!sections[k].relocations[r].type = L!BARF_RELOC_REL32
      /\ L!sections[k].relocations[r].symbol_index = MergedRelocation(rel).symbol_index
      /\ L!sections[k].relocations[r].offset = RelocationAt(inputs, rel).offset
  BY <1>2, <1>3, <1>4, LoadedParts
<1>6. L!SiteOf(InFile(rel)) = SiteOfInput(rel)
  BY <1>5 DEF L!SiteOf, InFile, SiteOfInput, k
<1>7. QED
  BY <1>2, <1>5, <1>6 DEF k

(* The relocations the loader applies are those of the inputs, but for the  *)
(* sections that are to be ignored.                                         *)
LEMMA RelocationIsApplied ==
  ASSUME AllMerged, loaded = Written, NEW rel \in RelocationRef(inputs),
         SectionAt(inputs, rel[1]).data.flags # {L!BARF_FLAG_IGNORE}
  PROVE  InFile(rel) \in L!RelocationRefs
<1> DEFINE k == PlaceInFile(rel[1])
           r == rel[2]
           Of(m) == {m} \X DOMAIN L!sections[m].relocations
<1>1. /\ k \in DOMAIN L!sections /\ r \in DOMAIN L!sections[k].relocations
      /\ L!sections[k].flags # {L!BARF_FLAG_IGNORE}
      /\ L!sections[k].relocations[r].type = L!BARF_RELOC_REL32
  BY RelocationInFile
<1>2. InFile(rel) = << k, r >>
  BY DEF InFile
<1> HIDE DEF k, r
<1>3. << k, r >> \in UNION {Of(m) : m \in DOMAIN L!sections}
  BY <1>1
<1>4. QED
  BY <1>1, <1>2, <1>3 DEF L!RelocationRefs, L!IsSkipped

LEMMA AppliedIsOfInput ==
  ASSUME AllMerged, loaded = Written, NEW ref \in L!RelocationRefs
  PROVE  \E rel \in RelocationRef(inputs) : ref = InFile(rel)
<1> DEFINE Of(m) == {m} \X DOMAIN L!sections[m].relocations
<1>1. PICK m \in DOMAIN L!sections : ref \in Of(m)
  BY DEF L!RelocationRefs
<1>2. DOMAIN L!sections = DOMAIN sections
  BY DEF L!sections, Written
<1>3. /\ m \in DOMAIN sections /\ ref = << m, ref[2] >>
      /\ ref[2] \in DOMAIN sections[m].relocations
  BY <1>1, <1>2, LoadedParts
<1>4. PICK origin \in SectionRef(inputs) : PlaceInFile(origin) = m
  BY <1>3 DEF AllMerged
<1>5. ref[2] \in DOMAIN SectionAt(inputs, origin).relocations
  BY <1>3, <1>4 DEF AllMerged
<1>6. << origin, ref[2] >> \in RelocationRef(inputs)
  BY <1>5, RelocationParts
<1>7. InFile(<< origin, ref[2] >>) = ref
  BY <1>3, <1>4 DEF InFile
<1>8. QED
  BY <1>6, <1>7

-------------------------------------------------------------------------------
(* A definition of an input in the file: at its own place.                  *)
LEMMA DefinitionInFile ==
  ASSUME CombinerInv, AllMerged, NEW ref \in SymbolRef(inputs),
         Defines(SymbolAt(inputs, ref))
  PROVE  LET i      == symbol_mapping[ref]
             symbol == SymbolAt(inputs, ref)
             place  == << ref[1], symbol.section_index >>
         IN  /\ i \in DOMAIN symbols
             /\ symbols[i].name = symbol.name /\ symbols[i].type = symbol.type
             /\ symbols[i].offset = symbol.offset
             /\ place \in SectionRef(inputs)
             /\ symbols[i].section_index = PlaceInFile(place)
             /\ PlaceInFile(place) \in DOMAIN sections
<1> DEFINE i      == symbol_mapping[ref]
           symbol == SymbolAt(inputs, ref)
           place  == << ref[1], symbol.section_index >>
<1>1. TypeOK /\ MappingIsSound /\ DefinedArePlaced
  BY DEF CombinerInv, IInv, LInv
<1>2. i # Unmapped
  BY DEF AllMerged
<1>3. i \in DOMAIN symbols
  BY <1>1, <1>2 DEF TypeOK, Unmapped
<1>4. /\ symbols[i].name = symbol.name /\ symbols[i].type = symbol.type
      /\ symbols[i].section_index = section_mapping[place]
      /\ symbols[i].offset = symbol.offset
  BY <1>1, <1>2 DEF MappingIsSound, Represents
<1>5. place \in SectionRef(inputs)
  <2>1. symbol.section_index \in DOMAIN inputs[ref[1]].sections /\ ref[1] \in DOMAIN inputs
    BY <1>1, <1>2, SymbolRefs DEF DefinedArePlaced
  <2>2. QED
    BY <2>1, SectionRefs
<1>6. section_mapping[place] = PlaceInFile(place) /\ PlaceInFile(place) \in DOMAIN sections
  BY <1>5 DEF AllMerged
<1>7. QED
  BY <1>3, <1>4, <1>5, <1>6

LEMMA SectionsFromOne ==
  ASSUME CombinerInv
  PROVE  /\ DOMAIN sections = 1 .. Len(sections) /\ Len(sections) \in Nat
         /\ DOMAIN symbols = 1 .. Len(symbols) /\ Len(symbols) \in Nat
         /\ NoSection \notin DOMAIN sections
BY DEF CombinerInv, IInv, TypeOK, NoSection

(* The .refptr symbols of the file are those of the inputs that are a       *)
(* place, and externals, which are in no section.                           *)
LEMMA PointerInFile ==
  ASSUME CombinerInv, AllMerged, loaded = Written, NEW ref \in PointerRef
  PROVE  LET i == symbol_mapping[ref]
         IN  /\ i \in L!RefptrSymbols
             /\ L!symbols[i].name = SymbolAt(inputs, ref).name
             /\ L!PointerSite(i) = SiteOfPointer(ref)
             /\ SiteOfPointer(ref)[1] \in DOMAIN sections
<1> DEFINE i == symbol_mapping[ref]
           symbol == SymbolAt(inputs, ref)
           place == << ref[1], symbol.section_index >>
<1>1. /\ ref \in SymbolRef(inputs) /\ Defines(symbol) /\ RefptrTarget[symbol.name] # NoName
  BY DEF PointerRef
<1>2. /\ i \in DOMAIN symbols /\ symbols[i].name = symbol.name
      /\ symbols[i].section_index = PlaceInFile(place) /\ symbols[i].offset = symbol.offset
      /\ PlaceInFile(place) \in DOMAIN sections
  BY <1>1, DefinitionInFile
<1>3. L!symbols = symbols
  BY DEF L!symbols, Written
<1>4. SiteOfPointer(ref) = << PlaceInFile(place), symbol.offset >>
  BY DEF SiteOfPointer
<1> HIDE DEF i, symbol, place
<1>5. i \in L!RefptrSymbols
  BY <1>1, <1>2, <1>3 DEF L!RefptrSymbols
<1>6. L!PointerSite(i) = SiteOfPointer(ref) /\ SiteOfPointer(ref)[1] \in DOMAIN sections
  BY <1>2, <1>3, <1>4 DEF L!PointerSite
<1>7. QED
  BY <1>2, <1>3, <1>5, <1>6 DEF i, symbol

LEMMA PointerIsOfInput ==
  ASSUME CombinerInv, AllMerged, loaded = Written, NEW i \in L!RefptrSymbols
  PROVE  \/ L!PointerSite(i)[1] = NoSection
         \/ \E ref \in PointerRef : symbol_mapping[ref] = i /\ L!PointerSite(i) = SiteOfPointer(ref)
<1>1. L!symbols = symbols
  BY DEF L!symbols, Written
<1>2. i \in DOMAIN symbols /\ RefptrTarget[symbols[i].name] # NoName
  BY <1>1 DEF L!RefptrSymbols
<1>3. CASE symbols[i].type = BARF_SYMBOL_EXTERNAL
  <2>1. symbols[i].section_index = NoSection
    BY <1>2, <1>3 DEF CombinerInv, FileInv, ExternalsAreNowhere
  <2>2. QED
    BY <1>1, <2>1 DEF L!PointerSite
<1>4. CASE symbols[i].type # BARF_SYMBOL_EXTERNAL
  <2>1. PICK ref \in SymbolRef(inputs) :
          symbol_mapping[ref] = i /\ Defines(SymbolAt(inputs, ref))
    BY <1>2, <1>4 DEF CombinerInv, FileInv, DefinitionsHaveOrigin
  <2>2. symbols[i].name = SymbolAt(inputs, ref).name
    BY <2>1, DefinitionInFile
  <2>3. ref \in PointerRef
    BY <1>2, <2>1, <2>2 DEF PointerRef
  <2>4. QED
    BY <2>1, <2>3, PointerInFile
<1>5. QED
  BY <1>3, <1>4

(* A relocation that has its site for itself in the inputs has it in the    *)
(* memory of the program.                                                   *)
LEMMA AloneOwnsSite ==
  ASSUME CombinerInv, AllMerged, loaded = Written, NEW rel \in RelocationRef(inputs),
         Alone(rel)
  PROVE  L!OwnsSite(InFile(rel))
<1>1. /\ L!SiteOf(InFile(rel)) = SiteOfInput(rel)
      /\ SiteOfInput(rel)[1] \in DOMAIN sections
  BY RelocationInFile DEF SiteOfInput
<1>2. ASSUME NEW other \in L!RelocationRefs \ {InFile(rel)}
      PROVE  L!SiteOf(other) # L!SiteOf(InFile(rel))
  <2>1. PICK origin \in RelocationRef(inputs) : other = InFile(origin)
    BY AppliedIsOfInput
  <2>2. L!SiteOf(other) = SiteOfInput(origin)
    BY <2>1, RelocationInFile
  <2>3. origin # rel
    BY <2>1
  <2>4. QED
    BY <1>1, <2>2, <2>3 DEF Alone
<1>3. ASSUME NEW i \in L!RefptrSymbols
      PROVE  L!PointerSite(i) # L!SiteOf(InFile(rel))
  <2>1. CASE L!PointerSite(i)[1] = NoSection
    BY <1>1, <2>1, SectionsFromOne
  <2>2. CASE \E ref \in PointerRef : L!PointerSite(i) = SiteOfPointer(ref)
    BY <1>1, <2>2 DEF Alone
  <2>3. QED
    BY <2>1, <2>2, PointerIsOfInput
<1>4. QED
  BY <1>2, <1>3 DEF L!OwnsSite

(* What the merged symbol of a relocation stands for in memory is what the  *)
(* relocation is bound to according to Link.                                *)
LEMMA TargetIsMeant ==
  ASSUME CombinerInv, AllMerged, loaded = Written, NEW rel \in RelocationRef(inputs),
         MergedRelocation(rel).symbol_index \in DOMAIN symbols
  PROVE  L!TargetOf(InFile(rel)) = MeantAddress(rel)
<1> DEFINE i == MergedRelocation(rel).symbol_index
           m == symbols[i].section_index
<1>1. /\ i \in DOMAIN symbols /\ i # Unmapped
  BY SectionsFromOne DEF Unmapped
<1>2. MergedBinding(rel) = Abstract!BoundTo(rel)
  BY DEF AllMerged
<1>3. L!SymbolOf(InFile(rel)) = symbols[i]
  <2>1. L!symbols = symbols
    BY DEF L!symbols, Written
  <2>2. L!sections[PlaceInFile(rel[1])].relocations[rel[2]].symbol_index = i
    BY RelocationInFile
  <2>3. QED
    BY <2>1, <2>2 DEF L!SymbolOf, InFile
<1>4. CASE symbols[i].type = BARF_SYMBOL_EXTERNAL
  <2>1. m = NoSection
    BY <1>1, <1>4 DEF CombinerInv, FileInv, ExternalsAreNowhere
  <2>2. Abstract!BoundTo(rel) = Named(symbols[i].name)
    BY <1>1, <1>2, <1>4 DEF MergedBinding
  <2>3. MeantAddress(rel) = L!FindName(symbols[i].name)
    BY <2>2 DEF MeantAddress, Named
  <2>4. QED
    BY <1>3, <2>1, <2>3 DEF L!TargetOf, L!NoSection, NoSection
<1>5. CASE symbols[i].type # BARF_SYMBOL_EXTERNAL
  <2>1. PICK ref \in SymbolRef(inputs) :
          symbol_mapping[ref] = i /\ Defines(SymbolAt(inputs, ref))
    BY <1>1, <1>5 DEF CombinerInv, FileInv, DefinitionsHaveOrigin
  <2> DEFINE place == << ref[1], SymbolAt(inputs, ref).section_index >>
  <2>2. place \in SectionRef(inputs) /\ m = PlaceInFile(place) /\ m \in DOMAIN sections
    BY <2>1, DefinitionInFile
  <2>3. section_mapping[place] = m
    BY <2>2 DEF AllMerged
  <2>4. OriginOf(m) \in SectionRef(inputs) /\ section_mapping[OriginOf(m)] = m
    BY <2>2, <2>3 DEF OriginOf
  <2>5. PlaceInFile(OriginOf(m)) = m
    BY <2>4 DEF AllMerged
  <2>6. Abstract!BoundTo(rel) = Place(OriginOf(m), symbols[i].offset)
    BY <1>1, <1>2, <1>5 DEF MergedBinding
  <2>7. MeantAddress(rel) = segments[m] + symbols[i].offset
    BY <2>5, <2>6 DEF MeantAddress, AddressOfPlace, Place
  <2>8. m # NoSection
    BY <2>2, SectionsFromOne
  <2>9. QED
    BY <1>3, <2>7, <2>8 DEF L!TargetOf, L!NoSection, NoSection
<1>6. QED
  BY <1>4, <1>5

LEMMA BoundJumps == ProgramInv => JumpsGoWhereInputsMeant
<1> SUFFICES ASSUME ProgramInv, loader_pc = "run", NEW rel \in RelocationRef(inputs),
                    SectionAt(inputs, rel[1]).data.flags # {L!BARF_FLAG_IGNORE}, Alone(rel)
             PROVE  LET k == PlaceInFile(rel[1])
                        way == L!Addend(k) + MeantAddress(rel)
                                 - (segments[k] + RelocationAt(inputs, rel).offset + 4)
                    IN  L!Representable(way) => L!Signed(memory[SiteOfInput(rel)]) = way
  BY DEF JumpsGoWhereInputsMeant
<1> DEFINE k == PlaceInFile(rel[1])
           way == L!Addend(k) + MeantAddress(rel)
                    - (segments[k] + RelocationAt(inputs, rel).offset + 4)
<1>1. CombinerInv /\ AllMerged /\ loaded = Written /\ LP!IInv
  BY DEF ProgramInv, LoadedIsWritten, CombinerInv
<1>2. InFile(rel) \in L!RelocationRefs /\ InFile(rel)[1] = k /\ InFile(rel)[2] = rel[2]
  BY <1>1, RelocationIsApplied DEF InFile
<1>3. /\ L!SiteOf(InFile(rel)) = SiteOfInput(rel)
      /\ L!sections[k].relocations[rel[2]].offset = RelocationAt(inputs, rel).offset
      /\ L!sections[k].relocations[rel[2]].symbol_index = MergedRelocation(rel).symbol_index
  BY <1>1, RelocationInFile
<1>4. L!OwnsSite(InFile(rel))
  BY <1>1, AloneOwnsSite
<1>5. MergedRelocation(rel).symbol_index \in DOMAIN symbols
  <2>1. L!symbols = symbols
    BY <1>1 DEF L!symbols, Written
  <2>2. QED
    BY <1>1, <1>2, <1>3, <2>1, RunningResolves
<1>6. L!TargetOf(InFile(rel)) = MeantAddress(rel)
  BY <1>1, <1>5, TargetIsMeant
<1>7. L!Displacement(InFile(rel)) = way
  BY <1>2, <1>3, <1>6 DEF L!Displacement
<1>8. L!Representable(L!Displacement(InFile(rel))) =>
        L!Signed(memory[L!SiteOf(InFile(rel))]) = L!Displacement(InFile(rel))
  BY <1>1, <1>2, <1>4, RunningResolves
<1> HIDE DEF way
<1>9. QED
  BY <1>3, <1>7, <1>8 DEF way

(* Jumps go where the inputs meant, for any inputs, in any order, and       *)
(* wherever the segments and the jump table get mapped.                     *)
THEOREM Jumps == ProgramSpec => []JumpsGoWhereInputsMeant
BY Program, BoundJumps, PTL

-------------------------------------------------------------------------------
(* The loader's search by name finds the global that an input defines, and  *)
(* finds one only if an input does.                                         *)
LEMMA FoundIsDefined ==
  ASSUME CombinerInv, AllMerged, loaded = Written, NEW name
  PROVE  /\ \A g \in Abstract!GlobalsNamed(name) :
              /\ L!InArtifact(name)
              /\ L!GetAddress(name) = AddressOfPlace(Abstract!PlaceOf(g))
         /\ L!InArtifact(name) => Abstract!GlobalsNamed(name) # {}
<1> USE DEF L!BARF_SYMBOL_GLOBAL, BARF_SYMBOL_GLOBAL
<1>1. L!symbols = symbols
  BY DEF L!symbols, Written
<1>2. \A i, j \in DOMAIN symbols :
        /\ symbols[i].type = BARF_SYMBOL_GLOBAL /\ symbols[i].name = name
        /\ symbols[j].type = BARF_SYMBOL_GLOBAL /\ symbols[j].name = name
        => i = j
  BY DEF CombinerInv, IInv, UniqueNames, Visible
<1>3. ASSUME NEW g \in Abstract!GlobalsNamed(name)
      PROVE  /\ L!InArtifact(name)
             /\ L!GetAddress(name) = AddressOfPlace(Abstract!PlaceOf(g))
  <2> DEFINE symbol == SymbolAt(inputs, g)
             place == << g[1], symbol.section_index >>
             i == symbol_mapping[g]
  <2>1. /\ g \in SymbolRef(inputs) /\ symbol.type = BARF_SYMBOL_GLOBAL
        /\ symbol.name = name /\ Defines(symbol)
    BY GlobalsNamedAre DEF Defines
  <2>2. /\ i \in DOMAIN symbols /\ symbols[i].name = name
        /\ symbols[i].type = BARF_SYMBOL_GLOBAL /\ symbols[i].offset = symbol.offset
        /\ symbols[i].section_index = PlaceInFile(place)
    BY <2>1, DefinitionInFile
  <2>3. AddressOfPlace(Abstract!PlaceOf(g)) = segments[PlaceInFile(place)] + symbol.offset
    BY LinkLooksAlike DEF AddressOfPlace, Abstract!PlaceOf, Abstract!Place
  <2> HIDE DEF i, symbol, place
  <2>4. \A j \in 1 .. i - 1 : j \in DOMAIN symbols /\ j # i
    BY <2>2, SectionsFromOne
  <2>5. L!IsGlobalNamed(i, name)
    BY <1>1, <1>2, <2>2, <2>4 DEF L!IsGlobalNamed
  <2>6. \A j \in DOMAIN symbols : L!IsGlobalNamed(j, name) => j = i
    BY <1>1, <1>2, <2>2 DEF L!IsGlobalNamed
  <2>7. L!InArtifact(name)
    BY <1>1, <2>2, <2>5 DEF L!InArtifact
  <2>8. (CHOOSE j \in DOMAIN L!symbols : L!IsGlobalNamed(j, name)) = i
    BY <1>1, <2>2, <2>5, <2>6
  <2>9. L!GetAddress(name) = segments[symbols[i].section_index] + symbols[i].offset
    BY <1>1, <2>7, <2>8 DEF L!GetAddress
  <2>10. QED
    BY <2>2, <2>3, <2>7, <2>9
<1>4. ASSUME L!InArtifact(name)
      PROVE  Abstract!GlobalsNamed(name) # {}
  <2>1. PICK i \in DOMAIN symbols :
          symbols[i].type = BARF_SYMBOL_GLOBAL /\ symbols[i].name = name
    BY <1>1, <1>4 DEF L!InArtifact, L!IsGlobalNamed
  <2>2. PICK g \in SymbolRef(inputs) :
          symbol_mapping[g] = i /\ SymbolAt(inputs, g).type = BARF_SYMBOL_GLOBAL
    BY <2>1 DEF CombinerInv, LInv, GlobalsHaveOrigin
  <2>3. SymbolAt(inputs, g).name = name
    BY <2>1, <2>2, DefinitionInFile DEF Defines
  <2>4. QED
    BY <2>2, <2>3, GlobalsNamedAre
<1>5. QED
  BY <1>3, <1>4

LEMMA BoundPointers == ProgramInv => PointersGoWhereInputsMeant
<1> SUFFICES ASSUME ProgramInv, loader_pc = "run", NEW ref \in PointerRef,
                    \A other \in PointerRef \ {ref} : SiteOfPointer(other) # SiteOfPointer(ref)
             PROVE  LET target  == RefptrTarget[SymbolAt(inputs, ref).name]
                        globals == Abstract!GlobalsNamed(target)
                        address == AddressOfPlace(Abstract!PlaceOf(CHOOSE g \in globals : TRUE))
                    IN  memory[SiteOfPointer(ref)] =
                          IF globals = {} \/ address = L!NULL THEN L!FindName(target)
                          ELSE address
  BY DEF PointersGoWhereInputsMeant
<1> DEFINE i       == symbol_mapping[ref]
           target  == RefptrTarget[SymbolAt(inputs, ref).name]
           globals == Abstract!GlobalsNamed(target)
           one     == CHOOSE g \in globals : TRUE
           address == AddressOfPlace(Abstract!PlaceOf(one))
<1>1. CombinerInv /\ AllMerged /\ loaded = Written /\ LP!IInv
  BY DEF ProgramInv, LoadedIsWritten, CombinerInv
<1>2. /\ i \in L!RefptrSymbols /\ L!PointerSite(i) = SiteOfPointer(ref)
      /\ RefptrTarget[L!symbols[i].name] = target
      /\ SiteOfPointer(ref)[1] \in DOMAIN sections
  BY <1>1, PointerInFile
<1>3. ASSUME NEW j \in L!RefptrSymbols \ {i}
      PROVE  L!PointerSite(j) # L!PointerSite(i)
  <2>1. CASE L!PointerSite(j)[1] = NoSection
    BY <1>1, <1>2, <2>1, SectionsFromOne
  <2>2. CASE \E other \in PointerRef :
               symbol_mapping[other] = j /\ L!PointerSite(j) = SiteOfPointer(other)
    <3>1. PICK other \in PointerRef :
            symbol_mapping[other] = j /\ L!PointerSite(j) = SiteOfPointer(other)
      BY <2>2
    <3>2. other # ref
      BY <3>1
    <3>3. QED
      BY <1>2, <3>1, <3>2
  <2>3. QED
    BY <1>1, <2>1, <2>2, PointerIsOfInput
<1>4. memory[SiteOfPointer(ref)] = L!AddressOf(target)
  BY <1>1, <1>2, <1>3, RunningResolves
<1> HIDE DEF target, i
<1>5. CASE globals = {}
  <2>1. L!GetAddress(target) = L!NULL
    BY <1>1, <1>5, FoundIsDefined DEF L!GetAddress
  <2>2. QED
    BY <1>4, <1>5, <2>1 DEF L!AddressOf, target
<1>6. CASE globals # {}
  <2>1. one \in globals
    BY <1>6
  <2>2. L!GetAddress(target) = address
    BY <1>1, <2>1, FoundIsDefined
  <2> HIDE DEF globals, address
  <2>3. QED
    BY <1>4, <1>6, <2>2 DEF L!AddressOf, target, globals, address
<1>7. QED
  BY <1>5, <1>6

(* Every .refptr pointer of an input points where the name is, whichever    *)
(* input defines it, or into the jump table.                                *)
THEOREM Pointers == ProgramSpec => []PointersGoWhereInputsMeant
BY Program, BoundPointers, PTL

===============================================================================
