------------------------------ MODULE LinkAndLoad ------------------------------
(***************************************************************************)
(* "barf -c -o a.ba ..." and then "barf a.ba" (src/barf/main.c:92-108):    *)
(* the artifact that module Combine makes is what module Loader is given.  *)
(* What lies between them, the file, is the subject of Output and Parse;   *)
(* here it holds what was merged.                                          *)
(*                                                                         *)
(* Each of the two functions renumbers: symbols and sections once more     *)
(* when they are merged, sections into addresses when they are loaded.     *)
(* The properties follow what the inputs say to the memory of the running  *)
(* program.  "data" of a section is its flags, its size and its content.   *)
(***************************************************************************)
EXTENDS Combine, FiniteSets

CONSTANTS Bases, ExternalNames, RefptrTarget, NoName, EntryName, Half

VARIABLES
  loaded,   (* the artifact the loader has parsed                           *)
  loader_pc, loader_error, loader_si, loader_ri,
  external_segment, segments, protection, unprotected, memory

L == INSTANCE Loader WITH
       artifact <- loaded, pc <- loader_pc, error <- loader_error,
       si <- loader_si, ri <- loader_ri, ArtifactSet <- {}

loader   == << loaded, loader_pc, loader_error, loader_si, loader_ri,
               external_segment, segments, protection, unprotected, memory >>
all_vars == << vars, loader >>

ASSUME DataAssumption ==
  Data \subseteq [flags : L!BarfSectionFlags, data_size : Nat, content : L!Word]

(* What Loader assumes of the constants the two functions do not share.     *)
ASSUME LoaderAssumption ==
  /\ Bases \subseteq Nat \ {L!NULL} /\ Offset \subseteq Nat /\ Half \in Nat \ {0}
  /\ ExternalNames \in Seq(Name)
  /\ NoName \notin Name /\ EntryName \in Name
  /\ RefptrTarget \in [Name -> Name \union {NoName}]

NotLoaded == [readable |-> FALSE, sections |-> << >>, symbols |-> << >>]

ProgramInit ==
  /\ Init
  /\ loaded = NotLoaded
  /\ loader_pc = "waiting" /\ loader_error = "none" /\ loader_si = 1 /\ loader_ri = 1
  /\ external_segment = L!NULL
  /\ segments = << >> /\ protection = << >> /\ unprotected = {} /\ memory = << >>

(* The file of the combination, parsed: without sections there is no object *)
(* (module Parse).  Types other than REL32 do not leave the converters.     *)
Written ==
  [ readable |-> sections # << >>,
    symbols  |-> symbols,
    sections |-> [m \in DOMAIN sections |->
      [ flags |-> sections[m].data.flags, data_size |-> sections[m].data.data_size,
        content |-> sections[m].data.content,
        relocations |-> [r \in DOMAIN sections[m].relocations |->
          [ type |-> L!BARF_RELOC_REL32,
            symbol_index |-> sections[m].relocations[r].symbol_index,
            offset |-> sections[m].relocations[r].offset ]] ]] ]

CombineFiles == Next /\ UNCHANGED loader

(* barf_load_file begins, with the file that was written.                   *)
LoadFile ==
  /\ pc = "done" /\ loader_pc = "waiting"
  /\ loaded' = Written
  /\ loader_pc' = "start"
  /\ segments' = [m \in DOMAIN sections |-> L!NULL]
  /\ protection' = [m \in DOMAIN sections |-> {}]
  /\ memory' = [site \in L!Sites' |-> 0]
  /\ UNCHANGED << vars, loader_error, loader_si, loader_ri, external_segment,
                  unprotected >>

LoaderStep == L!Step /\ UNCHANGED vars

ProgramReturns == L!Return /\ UNCHANGED vars

ProgramNext == CombineFiles \/ LoadFile \/ LoaderStep \/ ProgramReturns

(* Both functions keep running, and what was combined is loaded; the        *)
(* program may run for ever.                                                *)
ProgramSpec ==
  /\ ProgramInit /\ [][ProgramNext]_all_vars
  /\ WF_all_vars(CombineFiles \/ LoadFile \/ LoaderStep)

-------------------------------------------------------------------------------
(* The properties do not look at the mappings: by position in the list of   *)
(* inputs, this is where a section has to be.                               *)
PlaceInFile(ref) == Cardinality({s \in SectionRef(inputs) : s[1] < ref[1]}) + ref[2]

AddressOfPlace(place) == segments[PlaceInFile(place.section)] + place.offset

(* The address a relocation of an input is bound to in the running program, *)
(* according to Link: a place, or a function of the loader.                 *)
MeantAddress(rel) ==
  LET binding == Abstract!BoundTo(rel)
  IN  IF binding.to = "place" THEN AddressOfPlace(binding) ELSE L!FindName(binding.name)

SiteOfInput(rel) == << PlaceInFile(rel[1]), RelocationAt(inputs, rel).offset >>

(* The .refptr symbols of the inputs that are a place in them. *)
PointerRef ==
  {ref \in SymbolRef(inputs) : LET symbol == SymbolAt(inputs, ref) IN
     RefptrTarget[symbol.name] # NoName /\ Defines(symbol)}

SiteOfPointer(ref) ==
  << PlaceInFile(<< ref[1], SymbolAt(inputs, ref).section_index >>), SymbolAt(inputs, ref).offset >>

(* Nothing else is written to the site of this relocation.                  *)
Alone(rel) ==
  /\ \A other \in RelocationRef(inputs) \ {rel} : SiteOfInput(other) # SiteOfInput(rel)
  /\ \A ref \in PointerRef : SiteOfPointer(ref) # SiteOfInput(rel)

(* When the program runs, every jump written in any input leads to what     *)
(* that input meant: its own symbol, the one definition of the name in      *)
(* whatever input, or the loader's function if no input defines the name.   *)
(* The merged indices, the order of the inputs and where the segments got   *)
(* to make no difference (format.c:1110-1119, 1164; barf.c:52-82).          *)
JumpsGoWhereInputsMeant ==
  loader_pc = "run" =>
    \A rel \in RelocationRef(inputs) :
      LET k == PlaceInFile(rel[1])
          way == L!Addend(k) + MeantAddress(rel) - (segments[k] + RelocationAt(inputs, rel).offset + 4)
      IN  /\ SectionAt(inputs, rel[1]).data.flags # {L!BARF_FLAG_IGNORE}
          /\ Alone(rel) /\ L!Representable(way)
          => L!Signed(memory[SiteOfInput(rel)]) = way

(* When the program runs, every .refptr pointer of every input points to    *)
(* the global that any input defines under the name, or to the loader's     *)
(* function where there is no such global, or none at an address            *)
(* (barf.c:166-186).                                                        *)
PointersGoWhereInputsMeant ==
  loader_pc = "run" =>
    \A ref \in PointerRef :
      LET target  == RefptrTarget[SymbolAt(inputs, ref).name]
          globals == Abstract!GlobalsNamed(target)
          address == AddressOfPlace(Abstract!PlaceOf(CHOOSE g \in globals : TRUE))
      IN  (\A other \in PointerRef \ {ref} : SiteOfPointer(other) # SiteOfPointer(ref)) =>
            memory[SiteOfPointer(ref)] =
              IF globals = {} \/ address = L!NULL THEN L!FindName(target) ELSE address

-------------------------------------------------------------------------------
(* Inputs that are a whole program together, though none may be by itself.  *)
Mapped(ref) == LET data == SectionAt(inputs, ref).data IN
  L!BARF_FLAG_IGNORE \notin data.flags /\ data.data_size > 0

MappedGlobals(name) ==
  {g \in Abstract!GlobalsNamed(name) : Mapped(<< g[1], SymbolAt(inputs, g).section_index >>)}

Complete ==
  /\ Abstract!Linkable /\ InRange /\ output_opens
  /\ \A ref \in SectionRef(inputs) : Mapped(ref)
  /\ \A ref \in SymbolRef(inputs) : LET symbol == SymbolAt(inputs, ref) IN
       symbol.type = BARF_SYMBOL_EXTERNAL =>
         MappedGlobals(symbol.name) # {} \/ L!IsProvided(symbol.name)
  /\ \A ref \in PointerRef : LET target == RefptrTarget[SymbolAt(inputs, ref).name] IN
       MappedGlobals(target) # {} \/ L!IsProvided(target)
  /\ \E g \in MappedGlobals(EntryName) :
       L!BARF_FLAG_EXEC \in SectionAt(inputs, << g[1], SymbolAt(inputs, g).section_index >>).data.flags

Refused ==
  \/ error \in {"assertion", "transfer"}
  \/ loader_error \in {"unmapped", "read", "reach"}
  \/ loader_pc = "crashed" /\ loader_error = "entry" /\ L!EntryUnprotected
  \/ loader_pc \in {"failed", "crashed"} /\ \E k \in DOMAIN segments : segments[k] = L!NULL

(* A whole program gets to run however it is distributed over the inputs,   *)
(* unless the assertions of the combiner or the system refuse it.           *)
CompleteProgramRuns == pc = "start" /\ Complete ~> loader_pc = "run" \/ Refused
===============================================================================
