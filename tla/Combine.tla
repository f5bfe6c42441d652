-------------------------------- MODULE Combine --------------------------------
(***************************************************************************)
(* barf_combine_to_artifact, src/barf/format.c:890-1264, from the parsed   *)
(* inputs on: it copies the sections of all inputs into one artifact,      *)
(* merges their symbol tables, and rewrites the relocations through the    *)
(* two mappings it builds on the way.                                      *)
(*                                                                         *)
(* The function is a sequence of loops over the inputs; "pc" names the     *)
(* loop, "bi" and "si" are its counters.  Each pass over an input is one   *)
(* step, except in the symbol loop, where each symbol is one.              *)
(***************************************************************************)
EXTENDS Artifact

CONSTANTS
  Target, Name, Data, Offset,
  InputSet,    (* the lists of inputs the program may be given            *)
  NameSize     (* name -> bytes of its string with the terminating zero   *)

ASSUME InputsAssumption == InputSet \subseteq Seq(BarfObject(Target, Data, Name, Offset))
ASSUME NameSizeAssumption == NameSize \in [Name -> Nat \ {0}]

VARIABLES
  inputs,           (* objects[], as parsed                               *)
  output_opens,     (* will fs__open of the output succeed                *)
  pc,               (* the loop being run, or how the function ended      *)
  error,            (* why it does not succeed                            *)
  bi, si,           (* the input and the symbol in it that come next      *)
  estimated,        (* capacities the merged tables are allocated with    *)
  sections,         (* merged->sections with merged->relocations          *)
  symbols,          (* merged->symbols, each with the name of its string  *)
  string_size,      (* merged->header.string_size                         *)
  section_mapping,  (* [input, its section] -> merged section             *)
  symbol_mapping    (* [input, its symbol] -> merged symbol               *)

given  == << inputs, output_opens >>
tables == << sections, symbols, string_size, section_mapping, symbol_mapping >>
vars   == << given, pc, error, bi, si, estimated, tables >>

Unmapped == 0   \* memset 0xDE for symbols, memory not written yet for sections

Terminal == {"done", "failed", "crashed"}

NoCapacity == [sections |-> 0, symbols |-> 0, strings |-> 0]

Init ==
  /\ inputs \in InputSet
  /\ output_opens \in BOOLEAN
  /\ pc = "start" /\ error = "none"
  /\ bi = 1 /\ si = 1
  /\ estimated = NoCapacity
  /\ sections = << >> /\ symbols = << >> /\ string_size = 0
  /\ section_mapping = [ref \in SectionRef(inputs) |-> Unmapped]
  /\ symbol_mapping  = [ref \in SymbolRef(inputs) |-> Unmapped]

-------------------------------------------------------------------------------
Fail(why) ==   \* goto cleanup
  /\ pc' = "cleanup" /\ error' = why
  /\ UNCHANGED << given, bi, si, estimated, tables >>

Crash(why) ==  \* a write to address 0 by ASSERT, or an access out of bounds
  /\ pc' = "crashed" /\ error' = why
  /\ UNCHANGED << given, bi, si, estimated, tables >>

(* A loop over the inputs has seen them all: on to the next one. *)
Proceed(from, to) ==
  /\ pc = from /\ bi > Len(inputs)
  /\ pc' = to /\ bi' = 1 /\ si' = 1
  /\ UNCHANGED << given, error, estimated, tables >>

Start ==
  /\ pc = "start"
  /\ \/ inputs = << >> /\ pc' = "failed" /\ error' = "empty"
     \/ inputs # << >> /\ pc' = "parse" /\ UNCHANGED error
  /\ UNCHANGED << given, bi, si, estimated, tables >>

(* Slip: the capacities are those of the last input ("=" for "+="). *)
ParseLastOnly ==
  /\ pc = "parse" /\ bi \in DOMAIN inputs
  /\ \/ ~ inputs[bi].readable /\ Fail("unreadable")
     \/ /\ inputs[bi].readable
        /\ inputs[bi].target # inputs[1].target
        /\ Fail("target")
     \/ /\ inputs[bi].readable
        /\ inputs[bi].target = inputs[1].target
        /\ bi' = bi + 1
        /\ estimated' = [ sections |-> Len(inputs[bi].sections),
                          symbols  |-> Len(inputs[bi].symbols),
                          strings  |-> inputs[bi].string_size ]
        /\ UNCHANGED << given, pc, error, si, tables >>

ParseInput ==
  /\ pc = "parse" /\ bi \in DOMAIN inputs
  /\ \/ ~ inputs[bi].readable /\ Fail("unreadable")
     \/ /\ inputs[bi].readable
        /\ inputs[bi].target # inputs[1].target
        /\ Fail("target")
     \/ /\ inputs[bi].readable
        /\ inputs[bi].target = inputs[1].target
        /\ bi' = bi + 1
        /\ estimated' =
             [ sections |-> estimated.sections + Len(inputs[bi].sections),
               symbols  |-> estimated.symbols + Len(inputs[bi].symbols),
               strings  |-> estimated.strings + inputs[bi].string_size ]
        /\ UNCHANGED << given, pc, error, si, tables >>

Allocate == Proceed("parse", "sections")

MergeSections ==
  /\ pc = "sections" /\ bi \in DOMAIN inputs
  /\ sections' = sections \o
       [k \in DOMAIN inputs[bi].sections |->
          [data |-> inputs[bi].sections[k].data, relocations |-> << >>]]
  /\ section_mapping' =
       [ref \in SectionRef(inputs) |->
          IF ref[1] = bi THEN Len(sections) + ref[2] ELSE section_mapping[ref]]
  /\ bi' = bi + 1
  /\ UNCHANGED << given, pc, error, si, estimated,
                  symbols, string_size, symbol_mapping >>

SectionsMerged == Proceed("sections", "symbols")

-------------------------------------------------------------------------------
InSymbolLoop ==
  pc = "symbols" /\ bi \in DOMAIN inputs /\ si \in DOMAIN inputs[bi].symbols

Current == inputs[bi].symbols[si]

(* Does section_mapping[bi][symbol->section_index] lie in the array.  A     *)
(* symbol of an ELF section the conversion left out has (u32)-1 there       *)
(* (format.c:743), an index 16 GiB past the array.                          *)
Placed == Current.section_index \in DOMAIN inputs[bi].sections

CurrentPlace == section_mapping[<<bi, Current.section_index>>]

(* The first merged symbol another artifact's symbol of this name finds. *)
IsFirstNamed(i, name) ==
  /\ i \in DOMAIN symbols
  /\ Visible(symbols[i]) /\ symbols[i].name = name
  /\ \A j \in 1 .. i - 1 : Visible(symbols[j]) => symbols[j].name # name

(* Slip: a name that only an external has counts as new. *)
IsNewGlobal(name) ==
  \A i \in DOMAIN symbols :
    symbols[i].type = BARF_SYMBOL_GLOBAL => symbols[i].name # name

IsNew(name) == \A i \in DOMAIN symbols : Visible(symbols[i]) => symbols[i].name # name

(* Slip: the mapping is filled in after the new symbol is counted. *)
MapPast(i) == symbol_mapping' = [symbol_mapping EXCEPT ![<<bi, si>>] = i + 1]

MapTo(i) == symbol_mapping' = [symbol_mapping EXCEPT ![<<bi, si>>] = i]

NextSymbol ==
  /\ si' = si + 1
  /\ UNCHANGED << given, pc, error, bi, estimated, sections, section_mapping >>

Add(section_index) ==
  /\ symbols' = Append(symbols,
       [ type |-> Current.type, name |-> Current.name,
         section_index |-> section_index, offset |-> Current.offset ])
  /\ MapTo(Len(symbols) + 1)
  /\ string_size' = string_size + NameSize[Current.name]
  /\ NextSymbol

(* Slip: locals of one name are merged like externals. *)
ShareLocal ==
  /\ Current.type = BARF_SYMBOL_LOCAL
  /\ Placed
  /\ \/ /\ \E i \in DOMAIN symbols :
             /\ symbols[i].type = BARF_SYMBOL_LOCAL /\ symbols[i].name = Current.name
             /\ symbols[i].section_index = CurrentPlace
             /\ MapTo(i)
        /\ NextSymbol
        /\ UNCHANGED << symbols, string_size >>
     \/ Add(CurrentPlace)

MergeLocal ==
  /\ Current.type = BARF_SYMBOL_LOCAL
  /\ Placed
  /\ Add(CurrentPlace)

ShareExternal ==
  /\ Current.type = BARF_SYMBOL_EXTERNAL
  /\ \E i \in DOMAIN symbols : IsFirstNamed(i, Current.name) /\ MapTo(i)
  /\ NextSymbol
  /\ UNCHANGED << symbols, string_size >>

AddExternal ==
  /\ Current.type = BARF_SYMBOL_EXTERNAL
  /\ IsNew(Current.name)
  /\ Add(NoSection)

(* Slip: a local of the same name is taken for a duplicate. *)
RejectAnyNamesake ==
  /\ Current.type = BARF_SYMBOL_GLOBAL
  /\ \E i \in DOMAIN symbols :
       symbols[i].name = Current.name /\ symbols[i].type # BARF_SYMBOL_EXTERNAL
  /\ Fail("duplicate")

RejectDuplicate ==
  /\ Current.type = BARF_SYMBOL_GLOBAL
  /\ \E i \in DOMAIN symbols :
       IsFirstNamed(i, Current.name) /\ symbols[i].type = BARF_SYMBOL_GLOBAL
  /\ Fail("duplicate")

(* Slips: the promoted symbol keeps the external's section, and a global is *)
(* promoted over like an external.                                          *)
PromoteTypeOnly ==
  /\ Current.type = BARF_SYMBOL_GLOBAL
  /\ Placed
  /\ \E i \in DOMAIN symbols :
       /\ IsFirstNamed(i, Current.name) /\ symbols[i].type = BARF_SYMBOL_EXTERNAL
       /\ symbols' = [symbols EXCEPT ![i].type = BARF_SYMBOL_GLOBAL,
                                     ![i].offset = Current.offset]
       /\ MapTo(i)
  /\ NextSymbol
  /\ UNCHANGED string_size

PromoteAny ==
  /\ Current.type = BARF_SYMBOL_GLOBAL
  /\ Placed
  /\ \E i \in DOMAIN symbols :
       /\ IsFirstNamed(i, Current.name)
       /\ symbols' = [symbols EXCEPT ![i].type = BARF_SYMBOL_GLOBAL,
                                     ![i].section_index = CurrentPlace,
                                     ![i].offset = Current.offset]
       /\ MapTo(i)
  /\ NextSymbol
  /\ UNCHANGED string_size

PromoteExternal ==
  /\ Current.type = BARF_SYMBOL_GLOBAL
  /\ Placed
  /\ \E i \in DOMAIN symbols :
       /\ IsFirstNamed(i, Current.name) /\ symbols[i].type = BARF_SYMBOL_EXTERNAL
       /\ symbols' = [symbols EXCEPT ![i] =
            [ type |-> BARF_SYMBOL_GLOBAL, name |-> symbols[i].name,
              section_index |-> CurrentPlace, offset |-> Current.offset ]]
       /\ MapTo(i)
  /\ NextSymbol
  /\ UNCHANGED string_size

(* The ASSERT at format.c:1137: "section_index < symbol_count", the count   *)
(* taken after the new symbol is counted.                                   *)
AssertionAllows == CurrentPlace <= Len(symbols) + 1

AddGlobal ==
  /\ Current.type = BARF_SYMBOL_GLOBAL
  /\ Placed
  /\ IsNew(Current.name)
  /\ \/ AssertionAllows /\ Add(CurrentPlace)
     \/ ~ AssertionAllows /\ Crash("assertion")

FaultUnplaced ==
  /\ Defines(Current)
  /\ ~ Placed
  /\ \A i \in DOMAIN symbols :
       Current.type = BARF_SYMBOL_GLOBAL /\ IsFirstNamed(i, Current.name)
         => symbols[i].type # BARF_SYMBOL_GLOBAL
  /\ Crash("fault")

SkipUnknown ==
  /\ Current.type = UnknownType
  /\ NextSymbol
  /\ UNCHANGED << symbols, string_size, symbol_mapping >>

MergeSymbol ==
  /\ InSymbolLoop
  /\ \/ MergeLocal
     \/ ShareExternal \/ AddExternal
     \/ RejectDuplicate \/ PromoteExternal \/ AddGlobal
     \/ FaultUnplaced
     \/ SkipUnknown

NextTable ==
  /\ pc = "symbols" /\ bi \in DOMAIN inputs /\ si > Len(inputs[bi].symbols)
  /\ bi' = bi + 1 /\ si' = 1
  /\ UNCHANGED << given, pc, error, estimated, tables >>

SymbolsMerged == Proceed("symbols", "relocations")

-------------------------------------------------------------------------------
(* The relocations of one input's k-th section, renumbered. *)
Renumbered(k) ==
  [r \in DOMAIN inputs[bi].sections[k].relocations |->
     LET rel == inputs[bi].sections[k].relocations[r]
     IN  [rel EXCEPT !.symbol_index = symbol_mapping[<<bi, rel.symbol_index>>]]]

RelocationsInRange ==
  \A k \in DOMAIN inputs[bi].sections :
    \A r \in DOMAIN inputs[bi].sections[k].relocations :
      inputs[bi].sections[k].relocations[r].symbol_index \in DOMAIN inputs[bi].symbols

(* section_mapping gives the sections of one input consecutive places.      *)
Relocate ==
  /\ pc = "relocations" /\ bi \in DOMAIN inputs
  /\ \/ /\ RelocationsInRange
        /\ sections' =
             [m \in DOMAIN sections |->
                LET mine == {k \in DOMAIN inputs[bi].sections :
                               section_mapping[<<bi, k>>] = m}
                IN  IF mine = {} THEN sections[m]
                    ELSE [sections[m] EXCEPT
                            !.relocations = Renumbered(CHOOSE k \in mine : TRUE)]]
        /\ bi' = bi + 1
        /\ UNCHANGED << given, pc, error, si, estimated, symbols, string_size,
                        section_mapping, symbol_mapping >>
     \/ ~ RelocationsInRange /\ Crash("fault")

Relocated == Proceed("relocations", "write")

(* Module Output has the writing itself.  Here it counts that it stops the  *)
(* process where an input cannot be opened again, a section has alignment   *)
(* 0, or a byte cannot be copied (format.c:883, 885, 1191, 1196, 1216).     *)
WriteOutput ==
  /\ pc = "write"
  /\ \/ /\ output_opens
        /\ pc' = "done"
        /\ UNCHANGED << given, error, bi, si, estimated, tables >>
     \/ output_opens /\ Crash("transfer")
     \/ ~ output_opens /\ Fail("output")

(* The frees after the label "cleanup".  A goto out of the parsing loop     *)
(* jumps over the initialization of "merged" (format.c:961) and leaves the  *)
(* objects[] behind it as malloc returned them, so those frees get whatever *)
(* the memory held.                                                         *)
Cleanup ==
  /\ pc = "cleanup"
  /\ \/ pc' = "failed"
     \/ error \in {"unreadable", "target"} /\ pc' = "crashed"
  /\ UNCHANGED << given, error, bi, si, estimated, tables >>

Next ==
  \/ Start
  \/ ParseInput \/ Allocate
  \/ MergeSections \/ SectionsMerged
  \/ MergeSymbol \/ NextTable \/ SymbolsMerged
  \/ Relocate \/ Relocated
  \/ WriteOutput
  \/ Cleanup

Spec == Init /\ [][Next]_vars /\ WF_vars(Next)

-------------------------------------------------------------------------------
TypeOK ==
  /\ inputs \in Seq(BarfObject(Target, Data, Name, Offset))
  /\ output_opens \in BOOLEAN
  /\ pc \in {"start", "parse", "sections", "symbols", "relocations", "write",
             "cleanup"} \union Terminal
  /\ error \in {"none", "empty", "unreadable", "target", "duplicate", "output",
                "assertion", "fault", "transfer"}
  /\ bi \in 1 .. Len(inputs) + 1
  /\ si \in Nat \ {0}
  /\ estimated \in [sections : Nat, symbols : Nat, strings : Nat]
  /\ sections \in Seq(BarfSection(Data, Offset))
  /\ symbols \in Seq(BarfSymbol(Name, Offset))
  /\ string_size \in Nat
  /\ section_mapping \in [SectionRef(inputs) -> 0 .. Len(sections)]
  /\ symbol_mapping \in [SymbolRef(inputs) -> 0 .. Len(symbols)]

(* No two merged symbols that other artifacts can see share a name, so the  *)
(* loader's search by name has one answer (the two searches at              *)
(* format.c:1058-1073 and 1099-1122 together, over any order of inputs).    *)
UniqueNames ==
  \A i, j \in DOMAIN symbols :
    Visible(symbols[i]) /\ Visible(symbols[j]) /\ symbols[i].name = symbols[j].name
      => i = j

(* Every input symbol that has been merged is represented, for ever after,  *)
(* by a merged symbol of its name that says where it is: a definition by    *)
(* one in the merged copy of its own section at its own offset, an external *)
(* by whatever now stands for the name (format.c:1035-1145).                *)
Represents(i, ref) ==
  LET symbol == SymbolAt(inputs, ref)
  IN  /\ symbols[i].name = symbol.name
      /\ IF Defines(symbol)
         THEN /\ symbols[i].type = symbol.type
              /\ symbols[i].section_index =
                   section_mapping[<<ref[1], symbol.section_index>>]
              /\ symbols[i].offset = symbol.offset
         ELSE Visible(symbols[i])

MappingIsSound ==
  \A ref \in SymbolRef(inputs) :
    symbol_mapping[ref] # Unmapped => Represents(symbol_mapping[ref], ref)

(* "Static variables belong to one artifact and cannot be referenced by     *)
(* other artifacts" (docs/usage.md:64): a merged local symbol stands for    *)
(* one input symbol only, whatever the names are.                           *)
LocalsArePrivate ==
  \A ref, other \in SymbolRef(inputs) :
    /\ symbol_mapping[ref] # Unmapped
    /\ symbol_mapping[ref] = symbol_mapping[other]
    /\ SymbolAt(inputs, ref).type = BARF_SYMBOL_LOCAL
    => other = ref

(* The writes through merged->sections, merged->symbols and merged->strings *)
(* stay inside the blocks allocated from the estimates (format.c:968-975,   *)
(* 1016).                                                                   *)
TablesFit ==
  /\ Len(sections) <= estimated.sections
  /\ Len(symbols) <= estimated.symbols
  /\ string_size <= estimated.strings

(* A merged symbol stays what it is while later inputs are merged: its      *)
(* index is in mappings and relocations already, so nothing may move it,    *)
(* rename it or redefine it.  Only an external may still be promoted        *)
(* (format.c:1112-1119).                                                    *)
SymbolsAreStable ==
  [][\A i \in DOMAIN symbols :
       /\ i \in DOMAIN symbols'
       /\ symbols'[i].name = symbols[i].name
       /\ symbols[i].type # BARF_SYMBOL_EXTERNAL => symbols'[i] = symbols[i]]_vars

-------------------------------------------------------------------------------
(* The merged artifact read back: whose section a merged section is, and    *)
(* what a relocation of an input has become.                                *)
OriginOf(m) == CHOOSE ref \in SectionRef(inputs) : section_mapping[ref] = m

MergedRelocation(rel) == sections[section_mapping[rel[1]]].relocations[rel[2]]

MergedBinding(rel) ==
  LET i == MergedRelocation(rel).symbol_index
  IN  IF i = Unmapped THEN Nothing
      ELSE IF symbols[i].type = BARF_SYMBOL_EXTERNAL THEN Named(symbols[i].name)
      ELSE Place(OriginOf(symbols[i].section_index), symbols[i].offset)

LinkResult ==
  CASE pc = "done" ->
         LinkedAs([ref \in SectionRef(inputs) |-> sections[section_mapping[ref]].data],
                  [rel \in RelocationRef(inputs) |-> MergedBinding(rel)],
                  [rel \in RelocationRef(inputs) |-> MergedRelocation(rel).offset])
    [] pc = "failed"  -> Rejected
    [] pc = "crashed" -> Aborted
    [] OTHER          -> Pending

Abstract == INSTANCE Link WITH result <- LinkResult

(* Merging table by table, in the order of the inputs, promoting externals  *)
(* on the way, links the artifacts as Link says, or refuses with a reason.  *)
ImplementsLink == Abstract!Spec

(* Each symbol lies in a section, and each relocation names a symbol.       *)
InRange ==
  /\ \A ref \in SymbolRef(inputs) :
       Defines(SymbolAt(inputs, ref)) =>
         SymbolAt(inputs, ref).section_index \in DOMAIN inputs[ref[1]].sections
  /\ \A rel \in RelocationRef(inputs) :
       RelocationAt(inputs, rel).symbol_index \in DOMAIN inputs[rel[1][1]].symbols

(* Combining ends, and inputs that can be linked are: once they are in      *)
(* range nothing keeps them from it but the assertion of format.c:1137 and  *)
(* those on the bytes transferred.                                          *)
LinkableIsLinked ==
  /\ Abstract!Ends
  /\ Abstract!Linkable /\ InRange /\ output_opens
       ~> pc = "done" \/ error \in {"assertion", "transfer"}

(* An input that cannot be read or has another target is reported, and the  *)
(* function returns false (format.c:944-953, main.c:93-96): it does not die *)
(* in the frees, which are given pointers mem__alloc returned               *)
(* (platform.h:64-66).                                                      *)
RefusalReturns == pc = "crashed" => error \notin {"unreadable", "target"}

(* The ASSERT at format.c:1137 states that a new global's section index is  *)
(* below the number of symbols, and holds.                                  *)
AssertionHolds == error # "assertion"

===============================================================================
