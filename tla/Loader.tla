-------------------------------- MODULE Loader --------------------------------
(***************************************************************************)
(* barf_load_file, src/barf/barf.c:211-331, with what it calls: it maps    *)
(* the sections of an artifact where the system has room, binds their      *)
(* relocations and .refptr pointers there, sets the protection the flags   *)
(* ask for, runs ba_entry, and unmaps the segments.                        *)
(*                                                                         *)
(* Addresses are numbers.  A site is what a relocation or a pointer is     *)
(* written to, named by its section and offset; sites do not overlap       *)
(* partly.                                                                 *)
(***************************************************************************)
EXTENDS Artifact

CONSTANTS
  Name, Offset,
  ArtifactSet,    (* the artifacts the program may be given                 *)
  Bases,          (* the addresses the system can map a segment at          *)
  ExternalNames,  (* the functions create_platform provides, in order       *)
  RefptrTarget,   (* what follows ".refptr." in a name, or NoName           *)
  NoName, EntryName,
  Half            (* 2^31: words hold numbers modulo 2 * Half               *)

NULL == 0
Table == 0   \* the jump table, among the numbers of the sections

BARF_FLAG_WRITE  == "write"
BARF_FLAG_EXEC   == "exec"
BARF_FLAG_ZEROED == "zeroed"
BARF_FLAG_IGNORE == "ignore"
BarfSectionFlags ==
  SUBSET {BARF_FLAG_WRITE, BARF_FLAG_EXEC, BARF_FLAG_ZEROED, BARF_FLAG_IGNORE}

BARF_RELOC_REL32 == "rel32"
OtherRelocation  == "other"

JUMP_ENTRY_STRIDE == 12   \* bytes of a jump in the table

Word == 0 .. 2 * Half - 1

(* "content" is what the file holds at every site of the section.           *)
Section ==
  [ flags : BarfSectionFlags, data_size : Nat, content : Word,
    relocations : Seq([ type : {BARF_RELOC_REL32, OtherRelocation},
                        symbol_index : Nat, offset : Offset ]) ]

LoadableArtifact ==
  [readable : BOOLEAN, sections : Seq(Section), symbols : Seq(BarfSymbol(Name, Offset))]

ASSUME ArtifactsAssumption == ArtifactSet \subseteq LoadableArtifact
ASSUME AddressAssumption ==
  /\ Bases \subseteq Nat \ {NULL} /\ Offset \subseteq Nat /\ Half \in Nat \ {0}
ASSUME NamesAssumption ==
  /\ ExternalNames \in Seq(Name)
  /\ NoName \notin Name /\ EntryName \in Name
  /\ RefptrTarget \in [Name -> Name \union {NoName}]

VARIABLES
  artifact,          (* the object, as parsed                               *)
  pc,                (* the loop being run, or how the function ended       *)
  error,             (* why it does not succeed                             *)
  si, ri,            (* loop counters                                       *)
  external_segment,  (* address of the jump table                           *)
  segments,          (* address of each section's segment, or NULL          *)
  protection,        (* what its pages allow besides reading                *)
  unprotected,       (* the sections, and Table, whose change was refused   *)
  memory             (* what each site of each mapped section holds         *)

space == << external_segment, segments, protection, unprotected >>
vars  == << artifact, pc, error, si, ri, space, memory >>

sections == artifact.sections
symbols  == artifact.symbols

IsIgnored(k) == BARF_FLAG_IGNORE \in sections[k].flags

(* The sites of an artifact: of its relocations, and of its .refptr symbols. *)
Sites ==
  (UNION {{<<k, sections[k].relocations[r].offset>> : r \in DOMAIN sections[k].relocations} :
            k \in DOMAIN sections})
  \union {<<symbols[i].section_index, symbols[i].offset>> : i \in DOMAIN symbols}

Init ==
  /\ artifact \in ArtifactSet
  /\ pc = "start" /\ error = "none" /\ si = 1 /\ ri = 1
  /\ external_segment = NULL
  /\ segments = [k \in DOMAIN sections |-> NULL]
  /\ protection = [k \in DOMAIN sections |-> {}]
  /\ unprotected = {}
  /\ memory = [site \in Sites |-> 0]

-------------------------------------------------------------------------------
Stop(how, why) ==
  /\ pc' = how /\ error' = why
  /\ UNCHANGED << artifact, si, ri, space, memory >>

Fail(why)  == Stop("failed", why)    \* return false; what is mapped stays mapped
Crash(why) == Stop("crashed", why)   \* a fault, or a write to address 0 by ASSERT

(* A loop over the sections, or the symbols, has seen them all. *)
Proceed(from, count, to) ==
  /\ pc = from /\ si > count
  /\ pc' = to /\ si' = 1 /\ ri' = 1
  /\ UNCHANGED << artifact, error, space, memory >>

Free == Bases \ ({external_segment} \union {segments[k] : k \in DOMAIN segments})

(* create_platform writes the jump table without looking at what mem__map   *)
(* returned, and asks for it to be executable.                              *)
Start ==
  /\ pc = "start"
  /\ \/ \E base \in Free :
          /\ external_segment' = base
          /\ unprotected' \in {{}, {Table}}
          /\ pc' = "parse"
          /\ UNCHANGED << artifact, error, si, ri, segments, protection, memory >>
     \/ Crash("unmapped")

Parse ==
  /\ pc = "parse"
  /\ \/ ~ artifact.readable /\ Fail("unreadable")
     \/ /\ artifact.readable
        /\ pc' = "map"
        /\ UNCHANGED << artifact, error, si, ri, space, memory >>

(* Slip: a segment gets the protection of its flags as it is mapped. *)
FirstProtectionFinal(k) == sections[k].flags \intersect {BARF_FLAG_WRITE}

FirstProtection(k) == {BARF_FLAG_WRITE}

(* One section of the first loop.  mmap refuses size 0 and may refuse any;  *)
(* the file may have got shorter, or not open again.                        *)
MapSection ==
  /\ pc = "map" /\ si \in DOMAIN sections
  /\ LET zeroed == BARF_FLAG_ZEROED \in sections[si].flags
         Mapped(base) ==
           /\ segments' = [segments EXCEPT ![si] = base]
           /\ protection' = [protection EXCEPT ![si] =
                               IF base = NULL THEN {} ELSE FirstProtection(si)]
           /\ memory' = [site \in Sites |->
                IF site[1] = si /\ base # NULL /\ ~ zeroed THEN sections[si].content
                ELSE memory[site]]
           /\ si' = si + 1
           /\ UNCHANGED << artifact, pc, error, ri, external_segment, unprotected >>
     IN  \/ /\ IsIgnored(si)
            /\ si' = si + 1
            /\ UNCHANGED << artifact, pc, error, ri, space, memory >>
         \/ ~ IsIgnored(si) /\ sections[si].data_size > 0 /\ \E base \in Free : Mapped(base)
         \/ ~ IsIgnored(si) /\ (zeroed \/ sections[si].data_size = 0) /\ Mapped(NULL)
         \/ ~ IsIgnored(si) /\ ~ zeroed /\ Crash("read")

CloseFile ==
  \/ Proceed("map", Len(sections), "relocate")
  \/ pc = "map" /\ si > Len(sections) /\ Crash("read")

-------------------------------------------------------------------------------
(* barf_find_name. *)
IsProvided(name) == \E i \in DOMAIN ExternalNames : ExternalNames[i] = name

FindName(name) ==
  IF IsProvided(name)
  THEN external_segment + JUMP_ENTRY_STRIDE *
         ((CHOOSE i \in DOMAIN ExternalNames :
             /\ ExternalNames[i] = name
             /\ \A j \in 1 .. i - 1 : ExternalNames[j] # name) - 1)
  ELSE NULL

(* Slip: a local of the name will do. *)
IsAnyNamed(i, name) ==
  /\ symbols[i].name = name /\ symbols[i].type # BARF_SYMBOL_EXTERNAL
  /\ \A j \in 1 .. i - 1 :
       symbols[j].name = name => symbols[j].type = BARF_SYMBOL_EXTERNAL

(* barf_get_address: the first global of that name, wherever it is.         *)
IsGlobalNamed(i, name) ==
  /\ symbols[i].type = BARF_SYMBOL_GLOBAL /\ symbols[i].name = name
  /\ \A j \in 1 .. i - 1 :
       ~ (symbols[j].type = BARF_SYMBOL_GLOBAL /\ symbols[j].name = name)

InArtifact(name) == \E i \in DOMAIN symbols : IsGlobalNamed(i, name)

GetAddress(name) ==
  IF InArtifact(name)
  THEN LET symbol == symbols[CHOOSE i \in DOMAIN symbols : IsGlobalNamed(i, name)]
       IN  segments[symbol.section_index] + symbol.offset
  ELSE NULL

(* It indexes the segments with the symbol's section, -1 too.               *)
LookupFaults(name) ==
  \E i \in DOMAIN symbols :
    IsGlobalNamed(i, name) /\ symbols[i].section_index \notin DOMAIN sections

Truncated(n) == n % (2 * Half)

(* labs of the distance is below 0x7FFFFFFF.  An address in an unmapped     *)
(* segment is a small number, and far from every mapped one.                *)
InReach(site, target) ==
  /\ site - target < Half - 1
  /\ target - site < Half - 1

CurrentRelocation == sections[si].relocations[ri]
RelocatedSymbol   == symbols[CurrentRelocation.symbol_index]
CurrentSite       == <<si, CurrentRelocation.offset>>

(* Slip: relative to the word, not to what follows it. *)
BindWithoutFour(target) ==
  LET site == segments[si] + CurrentRelocation.offset
  IN  \/ /\ InReach(site, target)
         /\ memory' = [memory EXCEPT ![CurrentSite] = Truncated(@ + target - site)]
         /\ ri' = ri + 1
         /\ UNCHANGED << artifact, pc, error, si, space >>
      \/ ~ InReach(site, target) /\ Crash("reach")

Bind(target) ==
  LET site == segments[si] + CurrentRelocation.offset
  IN  \/ /\ InReach(site, target)
         /\ memory' = [memory EXCEPT ![CurrentSite] = Truncated(@ + target - (site + 4))]
         /\ ri' = ri + 1
         /\ UNCHANGED << artifact, pc, error, si, space >>
      \/ ~ InReach(site, target) /\ Crash("reach")

BindExternal ==
  /\ RelocatedSymbol.section_index = NoSection
  /\ LET target == FindName(RelocatedSymbol.name)
     IN  \/ target = NULL /\ Fail("external")
         \/ target # NULL /\ segments[si] # NULL /\ Bind(target)

BindDefined ==
  /\ RelocatedSymbol.section_index \in DOMAIN sections
  /\ segments[si] # NULL
  /\ LET base == segments[RelocatedSymbol.section_index]
     IN  \/ base = NULL /\ Crash("unmapped")
         \/ base # NULL /\ Bind(base + RelocatedSymbol.offset)

(* The site is in no segment, or the symbol in no section. *)
BindNowhere ==
  \/ /\ RelocatedSymbol.section_index \notin DOMAIN sections \union {NoSection}
     /\ Crash("fault")
  \/ /\ RelocatedSymbol.section_index \in DOMAIN sections \union {NoSection}
     /\ RelocatedSymbol.section_index = NoSection => FindName(RelocatedSymbol.name) # NULL
     /\ segments[si] = NULL
     /\ Crash(IF IsIgnored(si) THEN "ignored" ELSE "unmapped")

(* Only the flags IGNORE and nothing else make the loop skip a section.     *)
IsSkipped(k) == sections[k].flags = {BARF_FLAG_IGNORE}

ApplyRelocation ==
  /\ pc = "relocate" /\ si \in DOMAIN sections /\ ~ IsSkipped(si)
  /\ ri \in DOMAIN sections[si].relocations
  /\ \/ CurrentRelocation.symbol_index \notin DOMAIN symbols /\ Crash("fault")
     \/ /\ CurrentRelocation.symbol_index \in DOMAIN symbols
        /\ \/ /\ CurrentRelocation.type = BARF_RELOC_REL32
              /\ BindExternal \/ BindDefined \/ BindNowhere
           \/ /\ CurrentRelocation.type # BARF_RELOC_REL32
              /\ ri' = ri + 1
              /\ UNCHANGED << artifact, pc, error, si, space, memory >>

NextSection ==
  /\ pc = "relocate" /\ si \in DOMAIN sections
  /\ IsSkipped(si) \/ ri > Len(sections[si].relocations)
  /\ si' = si + 1 /\ ri' = 1
  /\ UNCHANGED << artifact, pc, error, space, memory >>

Relocated == Proceed("relocate", Len(sections), "refptr")

-------------------------------------------------------------------------------
(* Slip: the loader's own functions are forgotten. *)
AddressInArtifact(name) == GetAddress(name)

(* Where a .refptr symbol is to point: into the artifact first.             *)
AddressOf(name) == IF GetAddress(name) # NULL THEN GetAddress(name) ELSE FindName(name)

(* barf_init_refptr, one symbol. *)
InitRefptr ==
  /\ pc = "refptr" /\ si \in DOMAIN symbols
  /\ LET target == RefptrTarget[symbols[si].name]
         k      == symbols[si].section_index
     IN  \/ /\ target = NoName
            /\ si' = si + 1
            /\ UNCHANGED << artifact, pc, error, ri, space, memory >>
         \/ target # NoName /\ LookupFaults(target) /\ Crash("fault")
         \/ /\ target # NoName /\ ~ LookupFaults(target)
            /\ \/ AddressOf(target) = NULL /\ Fail("refptr")
               \/ AddressOf(target) # NULL /\ k \notin DOMAIN sections /\ Crash("fault")
               \/ /\ AddressOf(target) # NULL /\ k \in DOMAIN sections
                  /\ segments[k] = NULL
                  /\ Crash(IF IsIgnored(k) THEN "ignored" ELSE "unmapped")
               \/ /\ AddressOf(target) # NULL /\ k \in DOMAIN sections
                  /\ segments[k] # NULL
                  /\ memory' = [memory EXCEPT ![<<k, symbols[si].offset>>] = AddressOf(target)]
                  /\ si' = si + 1
                  /\ UNCHANGED << artifact, pc, error, ri, space >>

RefptrsDone == Proceed("refptr", Len(symbols), "protect")

(* Slip: the pages stay writable. *)
MemFlagsAdded(k) == {BARF_FLAG_WRITE} \union (sections[k].flags \intersect {BARF_FLAG_EXEC})

(* barf_to_mem_flag and mem__mapflag (platform.c:180-185).                  *)
MemFlags(k) ==
  IF BARF_FLAG_EXEC \in sections[k].flags THEN {BARF_FLAG_EXEC}
  ELSE sections[k].flags \intersect {BARF_FLAG_WRITE}

(* The system may refuse any change, and does where there are no pages.     *)
(* That is logged (platform.c:188-191), and the loader goes on.             *)
ProtectSection ==
  /\ pc = "protect" /\ si \in DOMAIN sections
  /\ \/ /\ ~ IsIgnored(si) /\ segments[si] # NULL
        /\ protection' = [protection EXCEPT ![si] = MemFlags(si)]
        /\ UNCHANGED unprotected
     \/ /\ ~ IsIgnored(si) /\ segments[si] # NULL
        /\ unprotected' = unprotected \union {si}
        /\ UNCHANGED protection
     \/ (IsIgnored(si) \/ segments[si] = NULL) /\ UNCHANGED << protection, unprotected >>
  /\ si' = si + 1
  /\ UNCHANGED << artifact, pc, error, ri, external_segment, segments, memory >>

Protected == Proceed("protect", Len(sections), "enter")

(* The call faults where no page, or none that may be executed, is.         *)
Enter ==
  /\ pc = "enter"
  /\ \/ LookupFaults(EntryName) /\ Crash("fault")
     \/ /\ ~ LookupFaults(EntryName)
        /\ \/ GetAddress(EntryName) = NULL /\ Fail("entry")
           \/ /\ GetAddress(EntryName) # NULL
              /\ \E i \in DOMAIN symbols :
                   /\ IsGlobalNamed(i, EntryName)
                   /\ IF BARF_FLAG_EXEC \in protection[symbols[i].section_index]
                      THEN Stop("run", error)
                      ELSE Crash("entry")

(* ba_entry returns, if it does. *)
Return ==
  /\ pc = "run"
  /\ Stop("unmap", error)

UnmapSection ==
  /\ pc = "unmap" /\ si \in DOMAIN sections
  /\ \/ IsIgnored(si) /\ UNCHANGED << segments, protection >>
     \/ /\ ~ IsIgnored(si)
        /\ segments' = [segments EXCEPT ![si] = NULL]
        /\ protection' = [protection EXCEPT ![si] = {}]
  /\ si' = si + 1
  /\ UNCHANGED << artifact, pc, error, ri, external_segment, unprotected, memory >>

Unmapped == Proceed("unmap", Len(sections), "done")

Step ==
  \/ Start \/ Parse
  \/ MapSection \/ CloseFile
  \/ ApplyRelocation \/ NextSection \/ Relocated
  \/ InitRefptr \/ RefptrsDone
  \/ ProtectSection \/ Protected
  \/ Enter
  \/ UnmapSection \/ Unmapped

Next == Step \/ Return

(* barf_load_file keeps running; what it calls in ba_entry may not return.  *)
Spec == Init /\ [][Next]_vars /\ WF_vars(Step)

-------------------------------------------------------------------------------
Terminal == {"done", "failed", "crashed"}

TypeOK ==
  /\ artifact \in LoadableArtifact
  /\ pc \in {"start", "parse", "map", "relocate", "refptr", "protect", "enter", "run",
             "unmap"} \union Terminal
  /\ error \in {"none", "unreadable", "read", "external", "reach", "unmapped",
                "ignored", "fault", "refptr", "entry"}
  /\ si \in Nat \ {0} /\ ri \in Nat \ {0}
  /\ external_segment \in Bases \union {NULL}
  /\ segments \in [DOMAIN sections -> Bases \union {NULL}]
  /\ protection \in [DOMAIN sections -> SUBSET {BARF_FLAG_WRITE, BARF_FLAG_EXEC}]
  /\ unprotected \subseteq {Table} \union DOMAIN sections
  /\ memory \in [Sites -> Nat]

(* A word read as the processor reads a displacement. *)
Signed(word) == IF word < Half THEN word ELSE word - 2 * Half

RelocationRefs ==
  {ref \in UNION {{k} \X DOMAIN sections[k].relocations : k \in DOMAIN sections} :
     /\ ~ IsSkipped(ref[1])
     /\ sections[ref[1]].relocations[ref[2]].type = BARF_RELOC_REL32}

SiteOf(ref) == <<ref[1], sections[ref[1]].relocations[ref[2]].offset>>

SymbolOf(ref) == symbols[sections[ref[1]].relocations[ref[2]].symbol_index]

RefptrSymbols == {i \in DOMAIN symbols : RefptrTarget[symbols[i].name] # NoName}

PointerSite(i) == <<symbols[i].section_index, symbols[i].offset>>

(* Sites that one relocation or one pointer has for itself. *)
OwnsSite(ref) ==
  /\ \A other \in RelocationRefs \ {ref} : SiteOf(other) # SiteOf(ref)
  /\ \A i \in RefptrSymbols : PointerSite(i) # SiteOf(ref)

TargetOf(ref) ==
  IF SymbolOf(ref).section_index = NoSection THEN FindName(SymbolOf(ref).name)
  ELSE segments[SymbolOf(ref).section_index] + SymbolOf(ref).offset

Addend(k) == IF BARF_FLAG_ZEROED \in sections[k].flags THEN 0 ELSE Signed(sections[k].content)

(* What the instruction at a site has to hold to get to the target, which   *)
(* the processor counts from behind the word.                               *)
Displacement(ref) ==
  Addend(ref[1]) + TargetOf(ref)
    - (segments[ref[1]] + sections[ref[1]].relocations[ref[2]].offset + 4)

Representable(n) == - Half <= n /\ n < Half

(* When ba_entry runs, every relocation leads where its symbol is, in a     *)
(* segment or in the jump table, wherever they were mapped and whatever was *)
(* bound before and after it, if a word can hold the way (barf.c:52-82).    *)
JumpsLeadToTargets ==
  pc = "run" =>
    \A ref \in RelocationRefs :
      OwnsSite(ref) /\ Representable(Displacement(ref)) =>
        Signed(memory[SiteOf(ref)]) = Displacement(ref)

(* No relocation of a running program is to a symbol that is nowhere: each  *)
(* is in a section of the artifact, or in none and then a function of the   *)
(* loader has its name.  What is in no section is what the loader takes for *)
(* external, whatever type the symbol says (barf.c:59-68).                  *)
RelocatedAreKnown ==
  pc = "run" =>
    \A ref \in RelocationRefs :
      \/ SymbolOf(ref).section_index \in DOMAIN sections
      \/ SymbolOf(ref).section_index = NoSection /\ IsProvided(SymbolOf(ref).name)

(* When ba_entry runs, each .refptr pointer holds the address of the global *)
(* it names or of the loader's function, relocations at the same place or   *)
(* not (barf.c:150-188).                                                    *)
RefptrsPoint ==
  pc = "run" =>
    \A i \in RefptrSymbols :
      (\A j \in RefptrSymbols \ {i} : PointerSite(j) # PointerSite(i)) =>
        memory[PointerSite(i)] = AddressOf(RefptrTarget[symbols[i].name])

(* When ba_entry runs, code is executable, nothing else is, and of the rest *)
(* what is to be writable is, although every segment was (barf.c:246); but  *)
(* a segment that the system refused to change is still writable, and no    *)
(* more (platform.c:188-191).  No segment is both, and ba_entry itself is   *)
(* where the system did not refuse.                                         *)
ProtectionIsApplied ==
  pc = "run" =>
    /\ \A k \in DOMAIN sections : segments[k] # NULL =>
         IF k \in unprotected THEN protection[k] = {BARF_FLAG_WRITE}
         ELSE
           /\ BARF_FLAG_EXEC \in protection[k] <=> BARF_FLAG_EXEC \in sections[k].flags
           /\ BARF_FLAG_WRITE \in protection[k] => BARF_FLAG_WRITE \in sections[k].flags
           /\ protection[k] # {BARF_FLAG_WRITE, BARF_FLAG_EXEC}
           /\ sections[k].flags \intersect {BARF_FLAG_WRITE, BARF_FLAG_EXEC} = {BARF_FLAG_WRITE}
                => BARF_FLAG_WRITE \in protection[k]
    /\ \A i \in DOMAIN symbols : IsGlobalNamed(i, EntryName) =>
         symbols[i].section_index \notin unprotected

(* No site is written once its segment is protected: relocations and        *)
(* pointers come before (barf.c:275).                                       *)
WrittenWhileWritable ==
  [][\A site \in Sites :
       memory'[site] # memory[site] => BARF_FLAG_WRITE \in protection'[site[1]]]_vars

(* When barf_load_file returns true no segment is mapped. *)
ReleasedWhenDone == pc = "done" => \A k \in DOMAIN sections : segments[k] = NULL

(* The loader gets to the program or stops. *)
LoadEnds == <>(pc \in Terminal \union {"run"})

(* A section whose addresses are not NULL if the system has room.           *)
IsPlaced(k) == ~ IsIgnored(k) /\ sections[k].data_size > 0

(* An artifact with nothing missing. *)
Loadable ==
  /\ artifact.readable
  /\ \A k \in DOMAIN sections :
       IsIgnored(k) => IsSkipped(k) \/ sections[k].relocations = << >>
  /\ \A k \in DOMAIN sections : \A r \in DOMAIN sections[k].relocations :
       sections[k].relocations[r].symbol_index \in DOMAIN symbols
  /\ \A ref \in RelocationRefs :
       \/ SymbolOf(ref).section_index \in DOMAIN sections
       \/ /\ SymbolOf(ref).section_index = NoSection
          /\ IsProvided(SymbolOf(ref).name)
  /\ \A i \in DOMAIN symbols :
       symbols[i].type = BARF_SYMBOL_GLOBAL => symbols[i].section_index \in DOMAIN sections
  /\ \A i \in RefptrSymbols :
       /\ symbols[i].section_index \in DOMAIN sections /\ ~ IsIgnored(symbols[i].section_index)
       /\ \/ IsProvided(RefptrTarget[symbols[i].name])
          \/ \E j \in DOMAIN symbols :
               /\ IsGlobalNamed(j, RefptrTarget[symbols[i].name])
               /\ IsPlaced(symbols[j].section_index)
  /\ \E i \in DOMAIN symbols :
       /\ IsGlobalNamed(i, EntryName)
       /\ IsPlaced(symbols[i].section_index)
       /\ BARF_FLAG_EXEC \in sections[symbols[i].section_index].flags

(* The section of ba_entry is one the system refused to make executable.    *)
EntryUnprotected ==
  \E i \in DOMAIN symbols :
    IsGlobalNamed(i, EntryName) /\ symbols[i].section_index \in unprotected

(* A segment is missing, the file cannot be read, the segments lie too far  *)
(* apart, or ba_entry cannot be executed.  A section of no bytes that       *)
(* something refers to has no segment.                                      *)
SystemRefuses ==
  \/ error \in {"unmapped", "read", "reach"}
  \/ pc = "crashed" /\ error = "entry" /\ EntryUnprotected
  \/ /\ pc \in {"failed", "crashed"}
     /\ \E k \in DOMAIN sections : IsPlaced(k) /\ segments[k] = NULL

(* An artifact with nothing missing gets to run, unless the system has no   *)
(* place for it (barf.c:211-312).                                           *)
LoadableRuns == pc = "start" /\ Loadable ~> pc = "run" \/ SystemRefuses

(* When ba_entry runs, all that refers to something leads there: jumps,     *)
(* .refptr pointers and what the loader provides (barf.c:52-188).           *)
ReferencesResolve == JumpsLeadToTargets /\ RelocatedAreKnown /\ RefptrsPoint

(* The program runs with its segments as the artifact says, and leaves none *)
(* (barf.c:189-209, 312).                                                   *)
SegmentsAreInOrder == TypeOK /\ ProtectionIsApplied /\ ReleasedWhenDone

(* Every load gets to the program or stops, and one with nothing missing    *)
(* gets to the program (barf.c:211-312).                                    *)
LoadsSucceed == LoadEnds /\ LoadableRuns

(* The check of barf.c:72-74 is for "distance ... too far for a relative    *)
(* jump": what passes it can be jumped.                                     *)
CheckedJumpsReach ==
  pc = "run" =>
    \A ref \in RelocationRefs : Addend(ref[1]) = 0 => Representable(Displacement(ref))

(* Sections are "writable, executable, zeroed/uninitialized, ignore on      *)
(* load" (docs/ba_format.md:49): when ba_entry runs, a writable one is.     *)
WritableIsWritable ==
  pc = "run" =>
    \A k \in DOMAIN sections :
      segments[k] # NULL /\ BARF_FLAG_WRITE \in sections[k].flags =>
        BARF_FLAG_WRITE \in protection[k]

(* "Set protection flags" (barf.c:275): the program does not run where the  *)
(* system refused to.                                                       *)
ProtectionTakesEffect == pc = "run" => unprotected = {}

(* "If symbol index refers to an external symbol then you cannot relocate   *)
(* unless ... the runtime loader provides the external symbols"             *)
(* (docs/ba_format.md:104), and the section index of an external symbol is  *)
(* meaningless (line 79).  The loader goes by that index alone.             *)
UnknownExternalsAreRefused ==
  pc = "run" =>
    \A ref \in RelocationRefs :
      SymbolOf(ref).type = BARF_SYMBOL_EXTERNAL => IsProvided(SymbolOf(ref).name)

(* docs/ba_format.md:49, once more: what is to be ignored on load does not  *)
(* stop the load.                                                           *)
IgnoredIsIgnored == error # "ignored"
===============================================================================
