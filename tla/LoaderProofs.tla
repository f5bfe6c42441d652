----------------------------- MODULE LoaderProofs -----------------------------
(***************************************************************************)
(* Proofs about Loader, for every set of artifacts, of names and of places *)
(* a segment can be mapped at.                                             *)
(***************************************************************************)
EXTENDS Loader, WellFoundedInduction, TLAPS

(* Every non-empty set of naturals has a least element. *)
LEMMA LeastNatural ==
  ASSUME NEW T, T \subseteq Nat, T # {}
  PROVE  \E x \in T : \A y \in T : x <= y
<1> DEFINE R == {p \in Nat \X Nat : p[1] < p[2]}
<1>1. IsWellFoundedOn(R, Nat)
  BY NatLessThanWellFounded DEF OpToRel
<1>2. ASSUME NEW a \in Nat, NEW b \in Nat, a < b
      PROVE  <<a, b>> \in R
  BY <1>2
<1> HIDE DEF R
<1>3. PICK x \in T : \A y \in T : ~ (<<y, x>> \in R)
  BY <1>1, WFMin
<1>4. ASSUME NEW y \in T
      PROVE  x <= y
  <2>1. x \in Nat /\ y \in Nat
    OBVIOUS
  <2>2. <<y, x>> \notin R
    BY <1>3
  <2>3. QED
    BY <2>1, <2>2, <1>2
<1>5. QED
  BY <1>4

-------------------------------------------------------------------------------
(* What the sites of a section hold until something is bound there. *)
Content(k) == IF BARF_FLAG_ZEROED \in sections[k].flags THEN 0 ELSE sections[k].content

(* What Bind adds to the word of a reference. *)
Distance(ref) ==
  TargetOf(ref) - (segments[ref[1]] + sections[ref[1]].relocations[ref[2]].offset + 4)

OwnsPointer(i) == \A j \in RefptrSymbols \ {i} : PointerSite(j) # PointerSite(i)

(* How far the loops have come. *)
BeforeMapping(k) ==
  \/ pc \in {"start", "parse"}
  \/ pc = "map" /\ k >= si

WhileWritable(k) ==
  \/ pc \in {"map", "relocate", "refptr"}
  \/ pc = "protect" /\ k >= si

AfterProtection(k) ==
  \/ pc = "protect" /\ k < si
  \/ pc \in {"enter", "run"}

AfterUnmapping(k) ==
  \/ pc = "unmap" /\ k < si
  \/ pc = "done"

IsBound(ref) ==
  \/ pc = "relocate" /\ ref[1] < si
  \/ pc = "relocate" /\ ref[1] = si /\ ref[2] < ri
  \/ pc \in {"refptr", "protect", "enter", "run"}

IsWaiting(ref) == pc \in {"map", "relocate"} /\ ~ IsBound(ref)

IsPointed(i) ==
  \/ pc = "refptr" /\ i < si
  \/ pc \in {"protect", "enter", "run"}

(* The inductive invariant.  Nothing is in a section before the first loop  *)
(* has come to it, and a section to be ignored gets no segment.             *)
UnmappedIsEmpty ==
  \A k \in DOMAIN sections : BeforeMapping(k) =>
    /\ segments[k] = NULL
    /\ \A site \in Sites : site[1] = k => memory[site] = 0

IgnoredIsUnmapped == \A k \in DOMAIN sections : IsIgnored(k) => segments[k] = NULL

(* A word that is still to be bound holds what the file had there.          *)
WaitingHoldContent ==
  \A ref \in RelocationRefs :
    IsWaiting(ref) /\ OwnsSite(ref) /\ segments[ref[1]] # NULL =>
      memory[SiteOf(ref)] = Content(ref[1])

(* A reference that is bound is bound to something, by the distance.        *)
IsResolved(ref) ==
  /\ sections[ref[1]].relocations[ref[2]].symbol_index \in DOMAIN symbols
  /\ \/ SymbolOf(ref).section_index \in DOMAIN sections
     \/ SymbolOf(ref).section_index = NoSection /\ IsProvided(SymbolOf(ref).name)

BoundAreResolved == \A ref \in RelocationRefs : IsBound(ref) => IsResolved(ref)

BoundHoldDistance ==
  \A ref \in RelocationRefs : IsBound(ref) /\ OwnsSite(ref) =>
    memory[SiteOf(ref)] = Truncated(Content(ref[1]) + Distance(ref))

PointersHoldAddress ==
  \A i \in RefptrSymbols : IsPointed(i) /\ OwnsPointer(i) =>
    memory[PointerSite(i)] = AddressOf(RefptrTarget[symbols[i].name])

(* What the pages of a section allow once the third loop has come to it.    *)
Final(k) == IF k \in unprotected THEN {BARF_FLAG_WRITE} ELSE MemFlags(k)

(* Pages are writable from mapping to the third loop, and then what the     *)
(* flags say, or as they were.                                              *)
ProtectionFollows ==
  \A k \in DOMAIN sections : segments[k] # NULL =>
    /\ WhileWritable(k) => protection[k] = {BARF_FLAG_WRITE}
    /\ AfterProtection(k) => protection[k] = Final(k)

(* The system refuses nothing about a section before the third loop has     *)
(* come to it, and then only for a segment that is there.                   *)
BeforeProtecting == {"start", "parse", "map", "relocate", "refptr"}
Ending           == {"unmap"} \union Terminal

UnprotectedSoFar ==
  /\ pc \in BeforeProtecting => unprotected \subseteq {Table}
  /\ pc = "protect" => \A k \in unprotected : k < si
  /\ pc \notin Ending => \A k \in unprotected \ {Table} : segments[k] # NULL

(* The program runs in a segment that may be executed.                      *)
EntryIsExecutable ==
  \A i \in DOMAIN symbols : IsGlobalNamed(i, EntryName) =>
    /\ symbols[i].section_index \in DOMAIN sections
    /\ BARF_FLAG_EXEC \in protection[symbols[i].section_index]

RunsExecutable == pc = "run" => EntryIsExecutable

UnmappedSoFar == \A k \in DOMAIN sections : AfterUnmapping(k) => segments[k] = NULL

StartsFromFirst == pc \in {"enter", "run"} => si = 1

IInv ==
  /\ TypeOK
  /\ UnmappedIsEmpty
  /\ IgnoredIsUnmapped
  /\ WaitingHoldContent
  /\ BoundAreResolved
  /\ BoundHoldDistance
  /\ PointersHoldAddress
  /\ ProtectionFollows
  /\ UnprotectedSoFar
  /\ RunsExecutable
  /\ UnmappedSoFar
  /\ StartsFromFirst

-------------------------------------------------------------------------------
(* The parts of an artifact, and the sites in it. *)
LEMMA ArtifactParts ==
  ASSUME TypeOK
  PROVE  /\ artifact = [readable |-> artifact.readable, sections |-> sections, symbols |-> symbols]
         /\ sections \in Seq(Section) /\ DOMAIN sections = 1 .. Len(sections)
         /\ Len(sections) \in Nat
         /\ symbols \in Seq(BarfSymbol(Name, Offset)) /\ DOMAIN symbols = 1 .. Len(symbols)
         /\ Len(symbols) \in Nat
         /\ \A k \in DOMAIN sections : sections[k] \in Section
         /\ \A i \in DOMAIN symbols : symbols[i] \in BarfSymbol(Name, Offset)
<1> DEFINE SymbolRecord == BarfSymbol(Name, Offset)
<1>1. artifact \in LoadableArtifact
  BY DEF TypeOK
<1>2. sections \in Seq(Section) /\ symbols \in Seq(SymbolRecord)
  BY <1>1 DEF LoadableArtifact, sections, symbols
<1>3. artifact = [readable |-> artifact.readable, sections |-> sections, symbols |-> symbols]
  BY <1>1 DEF LoadableArtifact, sections, symbols
<1> HIDE DEF SymbolRecord
<1>4. /\ DOMAIN sections = 1 .. Len(sections) /\ Len(sections) \in Nat
      /\ \A k \in DOMAIN sections : sections[k] \in Section
  BY <1>2
<1>5. /\ DOMAIN symbols = 1 .. Len(symbols) /\ Len(symbols) \in Nat
      /\ \A i \in DOMAIN symbols : symbols[i] \in SymbolRecord
  BY <1>2
<1>6. QED
  BY <1>2, <1>3, <1>4, <1>5 DEF SymbolRecord

LEMMA Addresses ==
  ASSUME TypeOK
  PROVE  external_segment \in Nat /\ segments \in [DOMAIN sections -> Nat]
<1>1. Bases \union {NULL} \subseteq Nat
  BY AddressAssumption DEF NULL
<1>2. QED
  BY <1>1 DEF TypeOK

LEMMA RelocationSite ==
  ASSUME NEW k \in DOMAIN sections, NEW r \in DOMAIN sections[k].relocations
  PROVE  <<k, sections[k].relocations[r].offset>> \in Sites
<1> DEFINE In(j) ==
             {<<j, sections[j].relocations[q].offset>> : q \in DOMAIN sections[j].relocations}
<1>1. <<k, sections[k].relocations[r].offset>> \in In(k)
  OBVIOUS
<1>2. In(k) \in {In(j) : j \in DOMAIN sections}
  OBVIOUS
<1>3. UNION {In(j) : j \in DOMAIN sections} \subseteq Sites
  BY DEF Sites
<1> HIDE DEF In
<1>4. QED
  BY <1>1, <1>2, <1>3

LEMMA SectionParts ==
  ASSUME TypeOK, NEW k \in DOMAIN sections
  PROVE  /\ k \in Nat \ {0}
         /\ sections[k].flags \in BarfSectionFlags
         /\ sections[k].content \in Nat /\ sections[k].content < 2 * Half
         /\ Content(k) \in Nat
         /\ Len(sections[k].relocations) \in Nat
         /\ DOMAIN sections[k].relocations = 1 .. Len(sections[k].relocations)
         /\ \A r \in DOMAIN sections[k].relocations :
              /\ sections[k].relocations[r].offset \in Nat
              /\ sections[k].relocations[r].offset \in Offset
              /\ <<k, sections[k].relocations[r].offset>> \in Sites
<1> DEFINE Relocation == [ type : {BARF_RELOC_REL32, OtherRelocation},
                           symbol_index : Nat, offset : Offset ]
<1>1. sections[k] \in Section /\ k \in Nat \ {0}
  BY ArtifactParts
<1>2. /\ sections[k].flags \in BarfSectionFlags /\ sections[k].content \in Word
      /\ sections[k].relocations \in Seq(Relocation)
  BY <1>1 DEF Section
<1>3. sections[k].content \in Nat /\ sections[k].content < 2 * Half /\ Content(k) \in Nat
  BY <1>2, AddressAssumption DEF Word, Content
<1> HIDE DEF Relocation
<1>4. /\ Len(sections[k].relocations) \in Nat
      /\ DOMAIN sections[k].relocations = 1 .. Len(sections[k].relocations)
      /\ \A r \in DOMAIN sections[k].relocations : sections[k].relocations[r] \in Relocation
  BY <1>2
<1>5. ASSUME NEW r \in DOMAIN sections[k].relocations
      PROVE  /\ sections[k].relocations[r].offset \in Offset
             /\ sections[k].relocations[r].offset \in Nat
             /\ <<k, sections[k].relocations[r].offset>> \in Sites
  <2>1. sections[k].relocations[r].offset \in Offset
    BY <1>4 DEF Relocation
  <2>2. <<k, sections[k].relocations[r].offset>> \in Sites
    BY RelocationSite
  <2>3. QED
    BY <2>1, <2>2, AddressAssumption
<1>6. QED
  BY <1>1, <1>2, <1>3, <1>4, <1>5

LEMMA SymbolParts ==
  ASSUME TypeOK, NEW i \in DOMAIN symbols
  PROVE  /\ i \in Nat \ {0}
         /\ symbols[i].name \in Name /\ symbols[i].section_index \in Nat
         /\ symbols[i].offset \in Nat
         /\ PointerSite(i) \in Sites
<1>1. symbols[i] \in BarfSymbol(Name, Offset) /\ i \in Nat \ {0}
  BY ArtifactParts
<1>2. /\ symbols[i].name \in Name /\ symbols[i].section_index \in Nat
      /\ symbols[i].offset \in Offset
  BY <1>1 DEF BarfSymbol
<1>3. PointerSite(i) \in Sites
  <2> DEFINE All == {<<symbols[j].section_index, symbols[j].offset>> : j \in DOMAIN symbols}
  <2>1. PointerSite(i) \in All
    BY DEF PointerSite
  <2>2. All \subseteq Sites
    BY DEF Sites
  <2> HIDE DEF All
  <2>3. QED
    BY <2>1, <2>2
<1>4. QED
  BY <1>1, <1>2, <1>3, AddressAssumption

(* A relocation the loader applies, as a reference: its section, its index. *)
LEMMA RefParts ==
  ASSUME TypeOK, NEW ref \in RelocationRefs
  PROVE  /\ ref = <<ref[1], ref[2]>>
         /\ ref[1] \in DOMAIN sections /\ ref[2] \in DOMAIN sections[ref[1]].relocations
         /\ ref[1] \in Nat \ {0} /\ ref[2] \in Nat \ {0}
         /\ ~ IsSkipped(ref[1])
         /\ sections[ref[1]].relocations[ref[2]].type = BARF_RELOC_REL32
         /\ SiteOf(ref) \in Sites /\ SiteOf(ref)[1] = ref[1]
         /\ segments[ref[1]] \in Nat
<1>1. PICK k \in DOMAIN sections : \E r \in DOMAIN sections[k].relocations :
        /\ ref = <<k, r>> /\ ~ IsSkipped(k)
        /\ sections[k].relocations[r].type = BARF_RELOC_REL32
  BY DEF RelocationRefs
<1>2. PICK r \in DOMAIN sections[k].relocations :
        /\ ref = <<k, r>> /\ ~ IsSkipped(k)
        /\ sections[k].relocations[r].type = BARF_RELOC_REL32
  BY <1>1
<1>3. ref[1] = k /\ ref[2] = r
  BY <1>2
<1>4. k \in Nat \ {0} /\ r \in Nat \ {0}
  BY SectionParts
<1>5. SiteOf(ref) \in Sites /\ SiteOf(ref)[1] = k
  BY <1>3, SectionParts DEF SiteOf
<1>6. segments[k] \in Nat
  BY Addresses
<1>7. QED
  BY <1>2, <1>3, <1>4, <1>5, <1>6

LEMMA RefIntro ==
  ASSUME NEW k \in DOMAIN sections, NEW r \in DOMAIN sections[k].relocations,
         ~ IsSkipped(k), sections[k].relocations[r].type = BARF_RELOC_REL32
  PROVE  <<k, r>> \in RelocationRefs
BY DEF RelocationRefs

(* What is provided or defined has an address. *)
LEMMA FindNameType ==
  ASSUME TypeOK, NEW name, IsProvided(name)
  PROVE  FindName(name) \in Nat
<1> DEFINE T == {i \in DOMAIN ExternalNames : ExternalNames[i] = name}
           First(i) == /\ ExternalNames[i] = name
                       /\ \A j \in 1 .. i - 1 : ExternalNames[j] # name
<1>1. T \subseteq Nat /\ T # {} /\ DOMAIN ExternalNames = 1 .. Len(ExternalNames)
      /\ Len(ExternalNames) \in Nat
  BY NamesAssumption DEF IsProvided
<1>2. PICK i \in T : \A j \in T : i <= j
  BY <1>1, LeastNatural
<1>3. \A j \in 1 .. i - 1 : ExternalNames[j] # name
  BY <1>1, <1>2
<1>4. \E j \in DOMAIN ExternalNames : First(j)
  BY <1>2, <1>3
<1> DEFINE first == CHOOSE j \in DOMAIN ExternalNames : First(j)
<1>5. first \in DOMAIN ExternalNames
  BY <1>4
<1>6. external_segment \in Nat
  BY Addresses
<1>7. FindName(name) = external_segment + 12 * (first - 1)
  BY DEF FindName, JUMP_ENTRY_STRIDE
<1> HIDE DEF first
<1>8. QED
  BY <1>1, <1>5, <1>6, <1>7

LEMMA GetAddressType ==
  ASSUME TypeOK, NEW name, ~ LookupFaults(name)
  PROVE  GetAddress(name) \in Nat
<1>1. CASE ~ InArtifact(name)
  BY <1>1 DEF GetAddress, NULL
<1>2. CASE InArtifact(name)
  <2> DEFINE i == CHOOSE i \in DOMAIN symbols : IsGlobalNamed(i, name)
  <2>1. i \in DOMAIN symbols /\ IsGlobalNamed(i, name)
    BY <1>2 DEF InArtifact
  <2>2. symbols[i].section_index \in DOMAIN sections
    BY <2>1 DEF LookupFaults
  <2>3. symbols[i].offset \in Nat
    BY <2>1, SymbolParts
  <2>4. segments[symbols[i].section_index] \in Nat
    BY <2>2, Addresses
  <2>5. GetAddress(name) = segments[symbols[i].section_index] + symbols[i].offset
    BY <1>2 DEF GetAddress
  <2> HIDE DEF i
  <2>6. QED
    BY <2>3, <2>4, <2>5
<1>3. QED
  BY <1>1, <1>2

LEMMA DistanceType ==
  ASSUME TypeOK, NEW ref \in RelocationRefs, IsResolved(ref)
  PROVE  TargetOf(ref) \in Nat /\ Distance(ref) \in Int
<1>1. sections[ref[1]].relocations[ref[2]].symbol_index \in DOMAIN symbols
  BY DEF IsResolved
<1>2. SymbolOf(ref).offset \in Nat
  BY <1>1, SymbolParts DEF SymbolOf
<1>3. TargetOf(ref) \in Nat
  <2>1. CASE SymbolOf(ref).section_index = NoSection /\ IsProvided(SymbolOf(ref).name)
    BY <2>1, FindNameType DEF TargetOf
  <2>2. CASE SymbolOf(ref).section_index \in DOMAIN sections
    <3>1. SymbolOf(ref).section_index # NoSection
      BY <2>2, SectionParts DEF NoSection
    <3>2. segments[SymbolOf(ref).section_index] \in Nat
      BY <2>2, Addresses
    <3>3. QED
      BY <1>2, <3>1, <3>2 DEF TargetOf
  <2>3. QED
    BY <2>1, <2>2 DEF IsResolved
<1>4. sections[ref[1]].relocations[ref[2]].offset \in Nat /\ segments[ref[1]] \in Nat
  BY RefParts, SectionParts
<1>5. QED
  BY <1>3, <1>4 DEF Distance

-------------------------------------------------------------------------------
(* What depends on the artifact only. *)
LEMMA SameArtifact ==
  ASSUME artifact' = artifact
  PROVE  /\ sections' = sections /\ symbols' = symbols /\ Sites' = Sites
         /\ RelocationRefs' = RelocationRefs /\ RefptrSymbols' = RefptrSymbols
         /\ \A k : IsIgnored(k)' = IsIgnored(k) /\ Content(k)' = Content(k)
                   /\ MemFlags(k)' = MemFlags(k)
         /\ \A ref : SiteOf(ref)' = SiteOf(ref) /\ OwnsSite(ref)' = OwnsSite(ref)
                     /\ IsResolved(ref)' = IsResolved(ref)
         /\ \A i : PointerSite(i)' = PointerSite(i) /\ OwnsPointer(i)' = OwnsPointer(i)
         /\ \A i, name : IsGlobalNamed(i, name)' = IsGlobalNamed(i, name)
<1>1. sections' = sections /\ symbols' = symbols
  BY DEF sections, symbols
<1>2. Sites' = Sites /\ RelocationRefs' = RelocationRefs /\ RefptrSymbols' = RefptrSymbols
  BY <1>1 DEF Sites, RelocationRefs, RefptrSymbols, IsSkipped
<1>3. \A k : IsIgnored(k)' = IsIgnored(k) /\ Content(k)' = Content(k)
             /\ MemFlags(k)' = MemFlags(k)
  BY <1>1 DEF IsIgnored, Content, MemFlags
<1>4. \A ref : SiteOf(ref)' = SiteOf(ref)
  BY <1>1 DEF SiteOf
<1>5. \A i : PointerSite(i)' = PointerSite(i)
  BY <1>1 DEF PointerSite
<1>6. \A ref : OwnsSite(ref)' = OwnsSite(ref)
  BY <1>2, <1>4, <1>5 DEF OwnsSite
<1>7. \A ref : IsResolved(ref)' = IsResolved(ref)
  BY <1>1 DEF IsResolved, SymbolOf, IsProvided
<1>8. \A i : OwnsPointer(i)' = OwnsPointer(i)
  BY <1>2, <1>5 DEF OwnsPointer
<1>9. \A i, name : IsGlobalNamed(i, name)' = IsGlobalNamed(i, name)
  BY <1>1 DEF IsGlobalNamed
<1>10. QED
  BY <1>1, <1>2, <1>3, <1>4, <1>5, <1>6, <1>7, <1>8, <1>9

(* What depends on where the segments and the jump table are. *)
LEMMA SamePlaces ==
  ASSUME artifact' = artifact, external_segment' = external_segment, segments' = segments
  PROVE  /\ \A ref : Distance(ref)' = Distance(ref)
         /\ \A name : AddressOf(name)' = AddressOf(name)
<1>1. sections' = sections /\ symbols' = symbols
  BY DEF sections, symbols
<1>2. \A name : FindName(name)' = FindName(name)
  BY DEF FindName, IsProvided
<1>3. \A name : GetAddress(name)' = GetAddress(name)
  BY <1>1 DEF GetAddress, InArtifact, IsGlobalNamed
<1>4. \A name : AddressOf(name)' = AddressOf(name)
  BY <1>2, <1>3 DEF AddressOf
<1>5. \A ref : TargetOf(ref)' = TargetOf(ref)
  BY <1>1, <1>2 DEF TargetOf, SymbolOf
<1>6. \A ref : Distance(ref)' = Distance(ref)
  BY <1>1, <1>5 DEF Distance
<1>7. QED
  BY <1>4, <1>6

-------------------------------------------------------------------------------
(* What Init says of a state, whatever artifact the loader is given.        *)
Starting ==
  /\ artifact \in LoadableArtifact
  /\ pc = "start" /\ error = "none" /\ si = 1 /\ ri = 1
  /\ external_segment = NULL
  /\ segments = [k \in DOMAIN sections |-> NULL]
  /\ protection = [k \in DOMAIN sections |-> {}]
  /\ unprotected = {}
  /\ memory = [site \in Sites |-> 0]

LEMMA StartingIInv == Starting => IInv
<1> SUFFICES ASSUME Starting PROVE IInv
  OBVIOUS
<1>1. TypeOK
  <2>1. artifact \in LoadableArtifact
    BY DEF Starting
  <2>2. segments \in [DOMAIN sections -> Bases \union {NULL}]
    BY DEF Starting
  <2>3. protection \in [DOMAIN sections -> SUBSET {BARF_FLAG_WRITE, BARF_FLAG_EXEC}]
    BY DEF Starting
  <2>4. memory \in [Sites -> Nat]
    BY DEF Starting
  <2>5. QED
    BY <2>1, <2>2, <2>3, <2>4 DEF Starting, TypeOK, NULL
<1>2. UnmappedIsEmpty /\ IgnoredIsUnmapped /\ ProtectionFollows /\ UnmappedSoFar
  BY DEF Starting, UnmappedIsEmpty, IgnoredIsUnmapped, ProtectionFollows, UnmappedSoFar
<1>3. WaitingHoldContent /\ BoundAreResolved /\ BoundHoldDistance /\ PointersHoldAddress
  BY DEF Starting, WaitingHoldContent, BoundAreResolved, BoundHoldDistance,
     PointersHoldAddress, IsWaiting, IsBound, IsPointed
<1>4. StartsFromFirst /\ UnprotectedSoFar /\ RunsExecutable
  BY DEF Starting, StartsFromFirst, UnprotectedSoFar, RunsExecutable
<1>5. QED
  BY <1>1, <1>2, <1>3, <1>4 DEF IInv

LEMMA InitIInv == Init => IInv
BY StartingIInv, ArtifactsAssumption DEF Init, Starting

(* A step that maps and writes nothing, and does not claim that a loop has  *)
(* come further than it has.                                                *)
LEMMA QuietKeepsIInv ==
  ASSUME IInv, UNCHANGED << artifact, space, memory >>,
         pc' \in {"start", "parse", "map", "relocate", "refptr", "protect", "enter", "run",
                  "unmap"} \union Terminal,
         error' \in {"none", "unreadable", "read", "external", "reach", "unmapped",
                     "ignored", "fault", "refptr", "entry"},
         si' \in Nat \ {0}, ri' \in Nat \ {0},
         \A k \in DOMAIN sections :
           /\ BeforeMapping(k)' => BeforeMapping(k)
           /\ AfterUnmapping(k)' => AfterUnmapping(k)
           /\ segments[k] # NULL =>
                /\ WhileWritable(k)' => WhileWritable(k)
                /\ AfterProtection(k)' => AfterProtection(k),
         \A ref \in RelocationRefs :
           /\ IsWaiting(ref)' /\ segments[ref[1]] # NULL => IsWaiting(ref)
           /\ IsBound(ref)' => IsBound(ref),
         \A i \in RefptrSymbols : IsPointed(i)' => IsPointed(i),
         pc' \in {"enter", "run"} => si' = 1,
         pc' \in BeforeProtecting => pc \in BeforeProtecting,
         pc' = "protect" => pc \in BeforeProtecting \/ (pc = "protect" /\ si' = si),
         pc \in Ending => pc' \in Ending,
         pc' = "run" => pc = "run" \/ EntryIsExecutable
  PROVE  IInv'
<1> USE DEF IInv
<1>1. /\ artifact' = artifact /\ memory' = memory /\ external_segment' = external_segment
      /\ segments' = segments /\ protection' = protection /\ unprotected' = unprotected
  BY DEF space
<1>2. TypeOK'
  BY <1>1, SameArtifact DEF TypeOK, Terminal
<1>3. UnmappedIsEmpty' /\ IgnoredIsUnmapped'
  BY <1>1, SameArtifact DEF UnmappedIsEmpty, IgnoredIsUnmapped
<1>4. WaitingHoldContent'
  BY <1>1, SameArtifact DEF WaitingHoldContent
<1>5. BoundAreResolved'
  BY <1>1, SameArtifact DEF BoundAreResolved
<1>6. BoundHoldDistance'
  BY <1>1, SameArtifact, SamePlaces DEF BoundHoldDistance, Truncated
<1>7. PointersHoldAddress'
  BY <1>1, SameArtifact, SamePlaces DEF PointersHoldAddress
<1>8. ProtectionFollows' /\ UnmappedSoFar'
  BY <1>1, SameArtifact DEF ProtectionFollows, UnmappedSoFar, Final
<1>9. StartsFromFirst'
  BY DEF StartsFromFirst
<1>10. UnprotectedSoFar'
  <2>1. ASSUME pc' \in BeforeProtecting
        PROVE  unprotected' \subseteq {Table}
    BY <1>1, <2>1 DEF UnprotectedSoFar
  <2>2. ASSUME pc' = "protect", NEW k \in unprotected
        PROVE  k < si'
    <3>1. CASE pc \in BeforeProtecting
      BY <2>2, <3>1 DEF UnprotectedSoFar, Table
    <3>2. CASE pc = "protect" /\ si' = si
      BY <2>2, <3>2 DEF UnprotectedSoFar
    <3>3. QED
      BY <2>2, <3>1, <3>2
  <2>3. QED
    BY <1>1, <2>1, <2>2 DEF UnprotectedSoFar
<1>11. RunsExecutable'
  <2>1. EntryIsExecutable' <=> EntryIsExecutable
    BY <1>1, SameArtifact DEF EntryIsExecutable
  <2>2. QED
    BY <2>1 DEF RunsExecutable
<1>12. QED
  BY <1>2, <1>3, <1>4, <1>5, <1>6, <1>7, <1>8, <1>9, <1>10, <1>11

LEMMA StopKeepsIInv ==
  ASSUME IInv, NEW how \in Terminal,
         NEW why \in {"none", "unreadable", "read", "external", "reach", "unmapped",
                      "ignored", "fault", "refptr", "entry"},
         how # "done", Stop(how, why)
  PROVE  IInv'
<1>1. /\ pc' \in {"failed", "crashed"} /\ error' = why /\ si' = si /\ ri' = ri
      /\ UNCHANGED << artifact, space, memory >>
  BY DEF Stop, Terminal
<1>2. si \in Nat \ {0} /\ ri \in Nat \ {0}
  BY DEF IInv, TypeOK
<1>3. \A k \in DOMAIN sections :
           /\ ~ BeforeMapping(k)' /\ ~ WhileWritable(k)'
           /\ ~ AfterProtection(k)' /\ ~ AfterUnmapping(k)'
  BY <1>1 DEF BeforeMapping, WhileWritable, AfterProtection, AfterUnmapping
<1>4. \A ref \in RelocationRefs : ~ IsWaiting(ref)' /\ ~ IsBound(ref)'
  BY <1>1 DEF IsWaiting, IsBound
<1>5. \A i \in RefptrSymbols : ~ IsPointed(i)'
  BY <1>1 DEF IsPointed
<1>6. QED
  BY <1>1, <1>2, <1>3, <1>4, <1>5, QuietKeepsIInv
  DEF Terminal, BeforeProtecting, Ending

LEMMA CrashKeepsIInv ==
  ASSUME IInv,
         NEW why \in {"read", "reach", "unmapped", "ignored", "fault", "entry"}, Crash(why)
  PROVE  IInv'
BY StopKeepsIInv DEF Crash, Terminal

LEMMA FailKeepsIInv ==
  ASSUME IInv, NEW why \in {"unreadable", "external", "refptr", "entry"}, Fail(why)
  PROVE  IInv'
BY StopKeepsIInv DEF Fail, Terminal

LEMMA StartKeepsIInv ==
  ASSUME IInv, Start
  PROVE  IInv'
<1>1. CASE Crash("unmapped")
  BY <1>1, CrashKeepsIInv
<1>2. CASE pc = "start" /\ \E base \in Free :
          /\ external_segment' = base
          /\ unprotected' \in {{}, {Table}}
          /\ pc' = "parse"
          /\ UNCHANGED << artifact, error, si, ri, segments, protection, memory >>
  <2>1. /\ external_segment' \in Bases /\ pc' = "parse" /\ pc = "start" /\ error' = error
        /\ si' = si /\ ri' = ri /\ artifact' = artifact /\ segments' = segments
        /\ protection' = protection /\ memory' = memory /\ unprotected' \subseteq {Table}
    BY <1>2 DEF Free
  <2> USE DEF IInv
  <2>2. TypeOK'
    BY <2>1, SameArtifact DEF TypeOK
  <2>3. UnmappedIsEmpty' /\ IgnoredIsUnmapped' /\ ProtectionFollows' /\ UnmappedSoFar'
    BY <2>1, SameArtifact DEF UnmappedIsEmpty, IgnoredIsUnmapped, ProtectionFollows,
       UnmappedSoFar, BeforeMapping, WhileWritable, AfterProtection, AfterUnmapping
  <2>4. /\ WaitingHoldContent' /\ BoundAreResolved' /\ BoundHoldDistance'
        /\ PointersHoldAddress' /\ StartsFromFirst'
    BY <2>1 DEF WaitingHoldContent, BoundAreResolved, BoundHoldDistance,
       PointersHoldAddress, IsWaiting, IsBound, IsPointed, StartsFromFirst
  <2>5. UnprotectedSoFar' /\ RunsExecutable'
    BY <2>1 DEF UnprotectedSoFar, RunsExecutable
  <2>6. QED
    BY <2>2, <2>3, <2>4, <2>5
<1>3. QED
  BY <1>1, <1>2 DEF Start

LEMMA ParseKeepsIInv ==
  ASSUME IInv, Parse
  PROVE  IInv'
<1>1. CASE Fail("unreadable")
  BY <1>1, FailKeepsIInv
<1>2. CASE /\ pc = "parse" /\ pc' = "map"
           /\ UNCHANGED << artifact, error, si, ri, space, memory >>
  <2> USE <1>2
  <2>1. error' = error /\ si' = si /\ ri' = ri /\ UNCHANGED << artifact, space, memory >>
    OBVIOUS
  <2>2. TypeOK
    BY DEF IInv
  <2>3. \A k \in DOMAIN sections : BeforeMapping(k)
    BY DEF BeforeMapping
  <2>4. \A k \in DOMAIN sections : segments[k] = NULL
    BY <2>3 DEF IInv, UnmappedIsEmpty
  <2>5. \A ref \in RelocationRefs : segments[ref[1]] = NULL
    BY <2>2, <2>4, RefParts
  <2>6. /\ \A k \in DOMAIN sections : ~ AfterUnmapping(k)' /\ ~ AfterProtection(k)'
        /\ \A ref \in RelocationRefs : ~ IsBound(ref)'
        /\ \A i \in RefptrSymbols : ~ IsPointed(i)'
    BY DEF AfterUnmapping, AfterProtection, IsBound, IsPointed
  <2>7. si' \in Nat \ {0} /\ ri' \in Nat \ {0}
    BY <2>1, <2>2 DEF TypeOK
  <2>8. QED
    BY <2>1, <2>2, <2>3, <2>4, <2>5, <2>6, <2>7, QuietKeepsIInv
  DEF TypeOK, BeforeProtecting, Ending, Terminal
<1>3. QED
  BY <1>1, <1>2 DEF Parse

(* What mapping one section does, with or without an address. *)
LEMMA MappedKeepsIInv ==
  ASSUME IInv, pc = "map", si \in DOMAIN sections, ~ IsIgnored(si),
         NEW base \in Bases \union {NULL},
         segments' = [segments EXCEPT ![si] = base],
         protection' = [protection EXCEPT ![si] =
                          IF base = NULL THEN {} ELSE FirstProtection(si)],
         memory' = [site \in Sites |->
           IF site[1] = si /\ base # NULL /\ ~ (BARF_FLAG_ZEROED \in sections[si].flags)
           THEN sections[si].content
           ELSE memory[site]],
         si' = si + 1, UNCHANGED << artifact, pc, error, ri, external_segment, unprotected >>
  PROVE  IInv'
<1> USE DEF IInv
<1>1. si \in Nat /\ TypeOK /\ sections[si].content \in Nat
  BY SectionParts
<1>2. /\ memory' \in [Sites -> Nat]
      /\ \A site \in Sites : site[1] # si => memory'[site] = memory[site]
  BY <1>1 DEF TypeOK
<1>3. /\ \A k \in DOMAIN sections \ {si} :
           segments'[k] = segments[k] /\ protection'[k] = protection[k]
      /\ segments'[si] = base
      /\ base # NULL => protection'[si] = {BARF_FLAG_WRITE}
  BY <1>1 DEF TypeOK, FirstProtection
<1>4. TypeOK'
  <2>1. segments' \in [DOMAIN sections -> Bases \union {NULL}]
    BY <1>1 DEF TypeOK
  <2>2. protection' \in [DOMAIN sections -> SUBSET {BARF_FLAG_WRITE, BARF_FLAG_EXEC}]
    BY <1>1 DEF TypeOK, FirstProtection
  <2>3. QED
    BY <1>1, <1>2, <2>1, <2>2, SameArtifact DEF TypeOK
<1>5. UnmappedIsEmpty'
  <2>1. \A k \in DOMAIN sections : BeforeMapping(k)' => BeforeMapping(k) /\ k # si
    BY <1>1, SectionParts DEF BeforeMapping
  <2>2. QED
    BY <1>2, <1>3, <2>1, SameArtifact DEF UnmappedIsEmpty
<1>6. IgnoredIsUnmapped'
  BY <1>3, SameArtifact DEF IgnoredIsUnmapped
<1>7. WaitingHoldContent'
  <2>1. SUFFICES ASSUME NEW ref \in RelocationRefs, OwnsSite(ref), segments'[ref[1]] # NULL
                 PROVE  memory'[SiteOf(ref)] = Content(ref[1])
    BY SameArtifact DEF WaitingHoldContent
  <2>2. SiteOf(ref) \in Sites /\ SiteOf(ref)[1] = ref[1] /\ ref[1] \in DOMAIN sections
    BY <1>1, RefParts
  <2>3. CASE ref[1] = si
    <3>1. memory[SiteOf(ref)] = 0
      BY <1>1, <2>2, <2>3 DEF UnmappedIsEmpty, BeforeMapping
    <3>2. base # NULL
      BY <1>3, <2>1, <2>3
    <3>3. QED
      BY <2>2, <2>3, <3>1, <3>2 DEF Content
  <2>4. CASE ref[1] # si
    <3>1. segments[ref[1]] # NULL /\ memory'[SiteOf(ref)] = memory[SiteOf(ref)]
      BY <1>2, <1>3, <2>1, <2>2, <2>4
    <3>2. IsWaiting(ref)
      BY DEF IsWaiting, IsBound
    <3>3. QED
      BY <2>1, <3>1, <3>2 DEF WaitingHoldContent
  <2>5. QED
    BY <2>3, <2>4
<1>8. BoundAreResolved' /\ BoundHoldDistance' /\ PointersHoldAddress' /\ StartsFromFirst'
  BY DEF BoundAreResolved, BoundHoldDistance, PointersHoldAddress, StartsFromFirst,
     IsBound, IsPointed
<1>9. ProtectionFollows'
  <2>1. SUFFICES ASSUME NEW k \in DOMAIN sections, segments'[k] # NULL
                 PROVE  protection'[k] = {BARF_FLAG_WRITE}
    BY SameArtifact DEF ProtectionFollows, AfterProtection
  <2>2. CASE k = si
    BY <1>3, <2>1, <2>2
  <2>3. CASE k # si
    BY <1>3, <2>1, <2>3 DEF ProtectionFollows, WhileWritable
  <2>4. QED
    BY <2>2, <2>3
<1>10. UnmappedSoFar'
  BY DEF UnmappedSoFar, AfterUnmapping
<1>11. UnprotectedSoFar' /\ RunsExecutable'
  BY DEF UnprotectedSoFar, BeforeProtecting, RunsExecutable
<1>12. QED
  BY <1>4, <1>5, <1>6, <1>7, <1>8, <1>9, <1>10, <1>11

LEMMA MapSectionKeepsIInv ==
  ASSUME IInv, MapSection
  PROVE  IInv'
<1> USE DEF IInv
<1>1. /\ pc = "map" /\ si \in DOMAIN sections /\ Free \subseteq Bases
  BY DEF MapSection, Free
<1>2. CASE IsIgnored(si) /\ si' = si + 1 /\ UNCHANGED << artifact, pc, error, ri, space, memory >>
  <2>1. \A k \in DOMAIN sections :
          /\ BeforeMapping(k)' => BeforeMapping(k)
          /\ ~ AfterUnmapping(k)' /\ WhileWritable(k) /\ ~ AfterProtection(k)'
    BY <1>1, <1>2, SectionParts
    DEF BeforeMapping, AfterUnmapping, WhileWritable, AfterProtection
  <2>2. \A ref \in RelocationRefs : IsWaiting(ref) /\ ~ IsBound(ref)'
    BY <1>1, <1>2 DEF IsWaiting, IsBound
  <2>3. \A i \in RefptrSymbols : ~ IsPointed(i)'
    BY <1>1, <1>2 DEF IsPointed
  <2>4. si' \in Nat \ {0} /\ ri' \in Nat \ {0} /\ pc' = pc /\ error' = error
        /\ UNCHANGED << artifact, space, memory >>
    BY <1>2 DEF TypeOK
  <2>5. QED
    BY <1>1, <2>1, <2>2, <2>3, <2>4, QuietKeepsIInv
  DEF TypeOK, BeforeProtecting, Ending, Terminal
<1>3. CASE ~ IsIgnored(si) /\ Crash("read")
  BY <1>3, CrashKeepsIInv
<1>4. CASE ~ IsIgnored(si) /\ ~ Crash("read")
  <2>1. \E base \in Bases \union {NULL} :
          /\ segments' = [segments EXCEPT ![si] = base]
          /\ protection' = [protection EXCEPT ![si] =
                              IF base = NULL THEN {} ELSE FirstProtection(si)]
          /\ memory' = [site \in Sites |->
               IF site[1] = si /\ base # NULL /\ ~ (BARF_FLAG_ZEROED \in sections[si].flags)
               THEN sections[si].content
               ELSE memory[site]]
          /\ si' = si + 1
          /\ UNCHANGED << artifact, pc, error, ri, external_segment, unprotected >>
    BY <1>1, <1>4 DEF MapSection
  <2>2. QED
    BY <1>1, <1>4, <2>1, MappedKeepsIInv
<1>5. QED
  BY <1>2, <1>3, <1>4 DEF MapSection

LEMMA CloseFileKeepsIInv ==
  ASSUME IInv, CloseFile
  PROVE  IInv'
<1>1. CASE Crash("read")
  BY <1>1, CrashKeepsIInv
<1>2. CASE Proceed("map", Len(sections), "relocate")
  <2>1. /\ pc = "map" /\ pc' = "relocate" /\ si' = 1 /\ ri' = 1 /\ error' = error
        /\ UNCHANGED << artifact, space, memory >>
    BY <1>2 DEF Proceed
  <2>2. TypeOK
    BY DEF IInv
  <2>3. \A k \in DOMAIN sections :
          /\ ~ BeforeMapping(k)' /\ ~ AfterUnmapping(k)' /\ WhileWritable(k)
          /\ ~ AfterProtection(k)'
    BY <2>1 DEF BeforeMapping, AfterUnmapping, WhileWritable, AfterProtection
  <2>4. \A ref \in RelocationRefs : IsWaiting(ref) /\ ~ IsBound(ref)'
    BY <2>1, <2>2, RefParts DEF IsWaiting, IsBound
  <2>5. \A i \in RefptrSymbols : ~ IsPointed(i)'
    BY <2>1 DEF IsPointed
  <2>6. QED
    BY <2>1, <2>2, <2>3, <2>4, <2>5, QuietKeepsIInv
  DEF TypeOK, BeforeProtecting, Ending, Terminal
<1>3. QED
  BY <1>1, <1>2 DEF CloseFile

-------------------------------------------------------------------------------
(* Binding the current relocation to what its symbol stands for. *)
LEMMA BindKeepsIInv ==
  ASSUME IInv, pc = "relocate", si \in DOMAIN sections, ~ IsSkipped(si),
         ri \in DOMAIN sections[si].relocations,
         CurrentRelocation.type = BARF_RELOC_REL32,
         segments[si] # NULL, IsResolved(<<si, ri>>), Bind(TargetOf(<<si, ri>>))
  PROVE  IInv'
<1> DEFINE cur == <<si, ri>>
<1>1. CASE Crash("reach")
  BY <1>1, CrashKeepsIInv
<1>2. CASE /\ memory' = [memory EXCEPT ![CurrentSite] =
                Truncated(@ + TargetOf(cur) - (segments[si] + CurrentRelocation.offset + 4))]
           /\ ri' = ri + 1
           /\ UNCHANGED << artifact, pc, error, si, space >>
  <2> USE DEF IInv
  <2>1. TypeOK /\ cur \in RelocationRefs /\ cur[1] = si /\ cur[2] = ri
    BY RefIntro DEF CurrentRelocation
  <2>2. /\ external_segment' = external_segment /\ segments' = segments
        /\ protection' = protection /\ unprotected' = unprotected /\ artifact' = artifact
        /\ pc' = "relocate" /\ si' = si /\ ri' = ri + 1 /\ error' = error
    BY <1>2 DEF space
  <2>3. /\ CurrentSite = SiteOf(cur) /\ CurrentSite \in Sites
        /\ segments[si] \in Nat /\ CurrentRelocation.offset \in Nat
        /\ memory[CurrentSite] \in Nat /\ TargetOf(cur) \in Nat /\ Distance(cur) \in Int
    <3>1. CurrentSite = SiteOf(cur)
      BY DEF CurrentSite, SiteOf, CurrentRelocation
    <3>2. CurrentSite \in Sites
      BY <2>1, <3>1, RefParts
    <3>3. CurrentRelocation.offset \in Nat
      BY <2>1, SectionParts DEF CurrentRelocation
    <3>4. segments[si] \in Nat /\ memory[CurrentSite] \in Nat
      BY <2>1, <3>2, Addresses DEF TypeOK
    <3>5. TargetOf(cur) \in Nat /\ Distance(cur) \in Int
      BY <2>1, DistanceType
    <3>6. QED
      BY <3>1, <3>2, <3>3, <3>4, <3>5
  <2>4. Distance(cur) = TargetOf(cur) - (segments[si] + CurrentRelocation.offset + 4)
    BY DEF Distance, CurrentRelocation
  <2>5. /\ memory'[CurrentSite] = Truncated(memory[CurrentSite] + Distance(cur))
        /\ \A site \in Sites : site # CurrentSite => memory'[site] = memory[site]
        /\ memory' \in [Sites -> Nat]
    <3>1. memory[CurrentSite] + TargetOf(cur) - (segments[si] + CurrentRelocation.offset + 4)
            = memory[CurrentSite] + Distance(cur)
      BY <2>3, <2>4
    <3>2. Truncated(memory[CurrentSite] + Distance(cur)) \in Nat
      BY <2>3, AddressAssumption DEF Truncated
    <3>3. memory \in [Sites -> Nat]
      BY DEF TypeOK
    <3>4. memory' = [memory EXCEPT ![CurrentSite] = Truncated(memory[CurrentSite] + Distance(cur))]
      BY <1>2, <3>1
    <3>5. QED
      BY <2>3, <3>2, <3>3, <3>4
  <2>6. TypeOK'
    BY <2>1, <2>2, <2>5, SameArtifact DEF TypeOK
  <2>7. /\ UnmappedIsEmpty' /\ IgnoredIsUnmapped' /\ ProtectionFollows' /\ UnmappedSoFar'
        /\ StartsFromFirst' /\ PointersHoldAddress'
    BY <2>2, SameArtifact DEF UnmappedIsEmpty, IgnoredIsUnmapped, ProtectionFollows,
       UnmappedSoFar, StartsFromFirst, PointersHoldAddress, Final,
       BeforeMapping, WhileWritable, AfterProtection, AfterUnmapping, IsPointed
  <2>8. /\ \A ref \in RelocationRefs : IsWaiting(ref)' => IsWaiting(ref) /\ ref # cur
        /\ \A ref \in RelocationRefs : IsBound(ref)' => IsBound(ref) \/ ref = cur
    <3>1. SUFFICES ASSUME NEW ref \in RelocationRefs
                   PROVE  /\ IsWaiting(ref)' => IsWaiting(ref) /\ ref # cur
                          /\ IsBound(ref)' => IsBound(ref) \/ ref = cur
      OBVIOUS
    <3>2. /\ ref = <<ref[1], ref[2]>> /\ ref[1] \in Nat /\ ref[2] \in Nat
          /\ si \in Nat /\ ri \in Nat
      BY RefParts DEF TypeOK
    <3>3. IsBound(ref)' => IsBound(ref) \/ ref = cur
      BY <2>2, <3>2 DEF IsBound
    <3>4. IsBound(ref) => IsBound(ref)'
      BY <2>2, <3>2 DEF IsBound
    <3>5. ref = cur => IsBound(ref)'
      BY <2>1, <2>2, <3>2 DEF IsBound
    <3>6. QED
      BY <2>2, <3>3, <3>4, <3>5 DEF IsWaiting
  <2>9. \A ref \in RelocationRefs : ref # cur /\ OwnsSite(ref) => SiteOf(ref) # CurrentSite
    BY <2>1, <2>3 DEF OwnsSite
  <2>10. WaitingHoldContent'
    <3>1. SUFFICES ASSUME NEW ref \in RelocationRefs, IsWaiting(ref)', OwnsSite(ref),
                          segments[ref[1]] # NULL
                   PROVE  memory'[SiteOf(ref)] = Content(ref[1])
      BY <2>2, SameArtifact DEF WaitingHoldContent
    <3>2. SiteOf(ref) \in Sites /\ SiteOf(ref) # CurrentSite
      BY <2>1, <2>8, <2>9, <3>1, RefParts
    <3>3. QED
      BY <2>5, <2>8, <3>1, <3>2 DEF WaitingHoldContent
  <2>11. BoundAreResolved'
    BY <2>2, <2>8, SameArtifact DEF BoundAreResolved
  <2>12. BoundHoldDistance'
    <3>1. SUFFICES ASSUME NEW ref \in RelocationRefs, IsBound(ref)', OwnsSite(ref)
                   PROVE  memory'[SiteOf(ref)] = Truncated(Content(ref[1]) + Distance(ref))
      BY <2>2, SameArtifact, SamePlaces DEF BoundHoldDistance, Truncated
    <3>2. CASE ref = cur
      <4>1. IsWaiting(cur)
        BY <2>1, SectionParts DEF IsWaiting, IsBound
      <4>2. memory[CurrentSite] = Content(si)
        BY <2>1, <2>3, <3>1, <3>2, <4>1 DEF WaitingHoldContent
      <4>3. QED
        BY <2>1, <2>3, <2>5, <3>2, <4>2
    <3>3. CASE ref # cur
      <4>1. SiteOf(ref) \in Sites /\ SiteOf(ref) # CurrentSite
        BY <2>1, <2>9, <3>1, <3>3, RefParts
      <4>2. QED
        BY <2>5, <2>8, <3>1, <3>3, <4>1 DEF BoundHoldDistance
    <3>4. QED
      BY <3>2, <3>3
  <2>13. UnprotectedSoFar' /\ RunsExecutable'
    BY <2>2 DEF UnprotectedSoFar, BeforeProtecting, RunsExecutable
  <2>14. QED
    BY <2>6, <2>7, <2>10, <2>11, <2>12, <2>13
<1>3. QED
  BY <1>1, <1>2 DEF Bind

LEMMA ApplyRelocationKeepsIInv ==
  ASSUME IInv, ApplyRelocation
  PROVE  IInv'
<1> DEFINE cur == <<si, ri>>
<1>1. /\ pc = "relocate" /\ si \in DOMAIN sections /\ ~ IsSkipped(si)
      /\ ri \in DOMAIN sections[si].relocations /\ TypeOK
      /\ cur[1] = si /\ cur[2] = ri
  BY DEF ApplyRelocation, IInv
<1>2. SymbolOf(cur) = RelocatedSymbol
  BY DEF SymbolOf, RelocatedSymbol, CurrentRelocation
<1>3. CASE Crash("fault")
  BY <1>3, CrashKeepsIInv
<1>4. CASE /\ CurrentRelocation.symbol_index \in DOMAIN symbols
           /\ CurrentRelocation.type = BARF_RELOC_REL32
           /\ BindExternal
  <2>1. CASE Fail("external")
    BY <2>1, FailKeepsIInv
  <2>2. CASE ~ Fail("external")
    <3>1. /\ RelocatedSymbol.section_index = NoSection
          /\ FindName(RelocatedSymbol.name) # NULL
          /\ segments[si] # NULL /\ Bind(FindName(RelocatedSymbol.name))
      BY <1>4, <2>2 DEF BindExternal
    <3>2. IsProvided(RelocatedSymbol.name)
      BY <3>1 DEF FindName
    <3>3. IsResolved(cur)
      BY <1>2, <1>4, <3>1, <3>2 DEF IsResolved, CurrentRelocation
    <3>4. TargetOf(cur) = FindName(RelocatedSymbol.name)
      BY <1>2, <3>1 DEF TargetOf
    <3>5. Bind(TargetOf(cur))
      BY <3>1, <3>4
    <3>6. QED
      BY <1>1, <1>4, <3>1, <3>3, <3>5, BindKeepsIInv
  <2>3. QED
    BY <2>1, <2>2
<1>5. CASE /\ CurrentRelocation.symbol_index \in DOMAIN symbols
           /\ CurrentRelocation.type = BARF_RELOC_REL32
           /\ BindDefined
  <2>1. CASE Crash("unmapped")
    BY <2>1, CrashKeepsIInv
  <2>2. CASE ~ Crash("unmapped")
    <3>1. /\ RelocatedSymbol.section_index \in DOMAIN sections
          /\ segments[si] # NULL
          /\ Bind(segments[RelocatedSymbol.section_index] + RelocatedSymbol.offset)
      BY <1>5, <2>2 DEF BindDefined
    <3>2. RelocatedSymbol.section_index # NoSection
      BY <1>1, <3>1, SectionParts DEF NoSection
    <3>3. IsResolved(cur)
      BY <1>2, <1>5, <3>1 DEF IsResolved, CurrentRelocation
    <3>4. TargetOf(cur) = segments[RelocatedSymbol.section_index] + RelocatedSymbol.offset
      BY <1>2, <3>2 DEF TargetOf
    <3>5. Bind(TargetOf(cur))
      BY <3>1, <3>4
    <3>6. QED
      BY <1>1, <1>5, <3>1, <3>3, <3>5, BindKeepsIInv
  <2>3. QED
    BY <2>1, <2>2
<1>6. CASE BindNowhere
  BY <1>6, CrashKeepsIInv DEF BindNowhere
<1>7. CASE /\ CurrentRelocation.type # BARF_RELOC_REL32
           /\ ri' = ri + 1
           /\ UNCHANGED << artifact, pc, error, si, space, memory >>
  <2>1. /\ pc' = pc /\ si' = si /\ ri' = ri + 1 /\ error' = error
        /\ UNCHANGED << artifact, space, memory >>
    BY <1>7
  <2>2. si \in Nat \ {0} /\ ri \in Nat \ {0}
    BY <1>1 DEF TypeOK
  <2>3. \A k \in DOMAIN sections :
          /\ ~ BeforeMapping(k)' /\ ~ AfterUnmapping(k)' /\ WhileWritable(k)
          /\ ~ AfterProtection(k)'
    BY <1>1, <2>1 DEF BeforeMapping, AfterUnmapping, WhileWritable, AfterProtection
  <2>4. \A ref \in RelocationRefs : ref[2] = ri => ref[1] # si
    BY <1>1, <1>7, RefParts DEF CurrentRelocation
  <2>5. ASSUME NEW ref \in RelocationRefs
        PROVE  /\ IsWaiting(ref)' => IsWaiting(ref)
               /\ IsBound(ref)' => IsBound(ref)
    <3>1. ref[1] \in Nat /\ ref[2] \in Nat
      BY <1>1, RefParts
    <3>2. IsBound(ref)' <=> IsBound(ref)
      BY <1>1, <2>1, <2>2, <2>4, <3>1 DEF IsBound
    <3>3. QED
      BY <1>1, <2>1, <3>2 DEF IsWaiting
  <2>6. \A i \in RefptrSymbols : ~ IsPointed(i)'
    BY <1>1, <2>1 DEF IsPointed
  <2>7. QED
    BY <1>1, <2>1, <2>2, <2>3, <2>5, <2>6, QuietKeepsIInv
  DEF TypeOK, BeforeProtecting, Ending, Terminal
<1>8. QED
  BY <1>3, <1>4, <1>5, <1>6, <1>7 DEF ApplyRelocation

LEMMA NextSectionKeepsIInv ==
  ASSUME IInv, NextSection
  PROVE  IInv'
<1>1. /\ pc = "relocate" /\ pc' = pc /\ si' = si + 1 /\ ri' = 1 /\ error' = error
      /\ si \in DOMAIN sections /\ UNCHANGED << artifact, space, memory >>
      /\ IsSkipped(si) \/ ri > Len(sections[si].relocations)
  BY DEF NextSection
<1>2. TypeOK /\ si \in Nat \ {0} /\ ri \in Nat \ {0}
  BY DEF IInv, TypeOK
<1>3. \A k \in DOMAIN sections :
        /\ ~ BeforeMapping(k)' /\ ~ AfterUnmapping(k)' /\ WhileWritable(k)
        /\ ~ AfterProtection(k)'
  BY <1>1 DEF BeforeMapping, AfterUnmapping, WhileWritable, AfterProtection
<1>4. ASSUME NEW ref \in RelocationRefs
      PROVE  /\ IsWaiting(ref)' => IsWaiting(ref)
             /\ IsBound(ref)' => IsBound(ref)
  <2>1. /\ ref[1] \in Nat /\ ref[2] \in Nat \ {0} /\ ~ IsSkipped(ref[1])
        /\ ref[2] <= Len(sections[ref[1]].relocations)
    BY <1>2, RefParts, SectionParts
  <2>2. Len(sections[ref[1]].relocations) \in Nat
    BY <1>2, RefParts, SectionParts
  <2>3. ref[1] = si => ref[2] < ri
    BY <1>1, <1>2, <2>1, <2>2
  <2>4. IsBound(ref)' <=> IsBound(ref)
    BY <1>1, <1>2, <2>1, <2>3 DEF IsBound
  <2>5. QED
    BY <1>1, <2>4 DEF IsWaiting
<1>5. \A i \in RefptrSymbols : ~ IsPointed(i)'
  BY <1>1 DEF IsPointed
<1>6. QED
  BY <1>1, <1>2, <1>3, <1>4, <1>5, QuietKeepsIInv
  DEF TypeOK, BeforeProtecting, Ending, Terminal

LEMMA RelocatedKeepsIInv ==
  ASSUME IInv, Relocated
  PROVE  IInv'
<1>1. /\ pc = "relocate" /\ si > Len(sections) /\ pc' = "refptr" /\ si' = 1 /\ ri' = 1
      /\ error' = error /\ UNCHANGED << artifact, space, memory >>
  BY DEF Relocated, Proceed
<1>2. TypeOK /\ si \in Nat \ {0}
  BY DEF IInv, TypeOK
<1>3. \A k \in DOMAIN sections :
        /\ ~ BeforeMapping(k)' /\ ~ AfterUnmapping(k)' /\ WhileWritable(k)
        /\ ~ AfterProtection(k)'
  BY <1>1 DEF BeforeMapping, AfterUnmapping, WhileWritable, AfterProtection
<1>4. \A ref \in RelocationRefs : ~ IsWaiting(ref)' /\ IsBound(ref)
  <2>1. \A ref \in RelocationRefs : ref[1] \in Nat /\ ref[1] <= Len(sections)
    BY <1>2, RefParts, ArtifactParts
  <2>2. Len(sections) \in Nat
    BY <1>2, ArtifactParts
  <2>3. QED
    BY <1>1, <1>2, <2>1, <2>2 DEF IsWaiting, IsBound
<1>5. \A i \in RefptrSymbols : ~ IsPointed(i)'
  BY <1>1, <1>2, SymbolParts DEF IsPointed, RefptrSymbols
<1>6. QED
  BY <1>1, <1>2, <1>3, <1>4, <1>5, QuietKeepsIInv
  DEF TypeOK, BeforeProtecting, Ending, Terminal

-------------------------------------------------------------------------------
(* Writing the pointer of the current symbol. *)
LEMMA PointKeepsIInv ==
  ASSUME IInv, pc = "refptr", si \in DOMAIN symbols,
         NEW k, k = symbols[si].section_index, k \in DOMAIN sections,
         NEW target, target = RefptrTarget[symbols[si].name], target # NoName,
         ~ LookupFaults(target), AddressOf(target) # NULL,
         memory' = [memory EXCEPT ![<<k, symbols[si].offset>>] = AddressOf(target)],
         si' = si + 1, UNCHANGED << artifact, pc, error, ri, space >>
  PROVE  IInv'
<1> USE DEF IInv
<1>1. /\ external_segment' = external_segment /\ segments' = segments
      /\ protection' = protection /\ unprotected' = unprotected /\ artifact' = artifact
      /\ pc' = "refptr" /\ si' = si + 1 /\ ri' = ri /\ error' = error
  BY DEF space
<1>2. TypeOK /\ si \in RefptrSymbols /\ si \in Nat \ {0}
  BY DEF RefptrSymbols, TypeOK
<1>3. AddressOf(target) \in Nat
  <2>1. GetAddress(target) \in Nat
    BY <1>2, GetAddressType
  <2>2. CASE GetAddress(target) # NULL
    BY <2>1, <2>2 DEF AddressOf
  <2>3. CASE GetAddress(target) = NULL
    <3>1. AddressOf(target) = FindName(target)
      BY <2>3 DEF AddressOf
    <3>2. IsProvided(target)
      BY <3>1 DEF FindName
    <3>3. QED
      BY <1>2, <3>1, <3>2, FindNameType
  <2>4. QED
    BY <2>2, <2>3
<1>4. <<k, symbols[si].offset>> = PointerSite(si) /\ PointerSite(si) \in Sites
  BY <1>2, SymbolParts DEF PointerSite
<1>5. /\ memory'[PointerSite(si)] = AddressOf(target)
      /\ \A site \in Sites : site # PointerSite(si) => memory'[site] = memory[site]
      /\ memory' \in [Sites -> Nat]
  <2>1. memory \in [Sites -> Nat]
    BY DEF TypeOK
  <2>2. memory' = [memory EXCEPT ![PointerSite(si)] = AddressOf(target)]
    BY <1>4
  <2>3. QED
    BY <1>3, <1>4, <2>1, <2>2
<1>6. TypeOK'
  BY <1>1, <1>2, <1>5, SameArtifact DEF TypeOK
<1>7. /\ UnmappedIsEmpty' /\ IgnoredIsUnmapped' /\ ProtectionFollows' /\ UnmappedSoFar'
      /\ StartsFromFirst' /\ WaitingHoldContent'
  BY <1>1, SameArtifact DEF UnmappedIsEmpty, IgnoredIsUnmapped, ProtectionFollows,
     UnmappedSoFar, StartsFromFirst, WaitingHoldContent, Final,
     BeforeMapping, WhileWritable, AfterProtection, AfterUnmapping, IsWaiting
<1>8. \A ref \in RelocationRefs : IsBound(ref)
  BY DEF IsBound
<1>9. BoundAreResolved'
  BY <1>1, <1>8, SameArtifact DEF BoundAreResolved
<1>10. BoundHoldDistance'
  <2>1. SUFFICES ASSUME NEW ref \in RelocationRefs, OwnsSite(ref)
                 PROVE  memory'[SiteOf(ref)] = Truncated(Content(ref[1]) + Distance(ref))
    BY <1>1, SameArtifact, SamePlaces DEF BoundHoldDistance, Truncated
  <2>2. SiteOf(ref) \in Sites /\ SiteOf(ref) # PointerSite(si)
    BY <1>2, <2>1, RefParts DEF OwnsSite
  <2>3. QED
    BY <1>5, <1>8, <2>1, <2>2 DEF BoundHoldDistance
<1>11. PointersHoldAddress'
  <2>1. SUFFICES ASSUME NEW i \in RefptrSymbols, IsPointed(i)', OwnsPointer(i)
                 PROVE  memory'[PointerSite(i)] = AddressOf(RefptrTarget[symbols[i].name])
    BY <1>1, SameArtifact, SamePlaces DEF PointersHoldAddress
  <2>2. CASE i = si
    BY <1>5, <2>2
  <2>3. CASE i # si
    <3>1. i \in DOMAIN symbols /\ i \in Nat
      BY <1>2, SymbolParts DEF RefptrSymbols
    <3>2. PointerSite(i) \in Sites /\ PointerSite(i) # PointerSite(si)
      BY <1>2, <2>1, <2>3, <3>1, SymbolParts DEF OwnsPointer
    <3>3. IsPointed(i)
      BY <1>1, <1>2, <2>1, <2>3, <3>1 DEF IsPointed
    <3>4. QED
      BY <1>5, <2>1, <3>2, <3>3 DEF PointersHoldAddress
  <2>4. QED
    BY <2>2, <2>3
<1>12. UnprotectedSoFar' /\ RunsExecutable'
  BY <1>1 DEF UnprotectedSoFar, BeforeProtecting, RunsExecutable
<1>13. QED
  BY <1>6, <1>7, <1>9, <1>10, <1>11, <1>12

LEMMA InitRefptrKeepsIInv ==
  ASSUME IInv, InitRefptr
  PROVE  IInv'
<1> DEFINE target == RefptrTarget[symbols[si].name]
           k == symbols[si].section_index
<1>1. pc = "refptr" /\ si \in DOMAIN symbols /\ TypeOK /\ si \in Nat \ {0} /\ ri \in Nat \ {0}
  BY DEF InitRefptr, IInv, TypeOK
<1>2. CASE /\ target = NoName /\ si' = si + 1
           /\ UNCHANGED << artifact, pc, error, ri, space, memory >>
  <2>1. /\ pc' = pc /\ si' = si + 1 /\ ri' = ri /\ error' = error
        /\ UNCHANGED << artifact, space, memory >>
    BY <1>2
  <2>2. \A j \in DOMAIN sections :
          /\ ~ BeforeMapping(j)' /\ ~ AfterUnmapping(j)' /\ WhileWritable(j)
          /\ ~ AfterProtection(j)'
    BY <1>1, <2>1 DEF BeforeMapping, AfterUnmapping, WhileWritable, AfterProtection
  <2>3. \A ref \in RelocationRefs : ~ IsWaiting(ref)' /\ IsBound(ref)
    BY <1>1, <2>1 DEF IsWaiting, IsBound
  <2>4. \A i \in RefptrSymbols : IsPointed(i)' => IsPointed(i)
    <3>1. \A i \in RefptrSymbols : i # si /\ i \in Nat
      BY <1>1, <1>2, SymbolParts DEF RefptrSymbols
    <3>2. QED
      BY <1>1, <2>1, <3>1 DEF IsPointed
  <2>5. QED
    BY <1>1, <2>1, <2>2, <2>3, <2>4, QuietKeepsIInv
  DEF TypeOK, BeforeProtecting, Ending, Terminal
<1>3. CASE Crash("fault") \/ Crash("ignored") \/ Crash("unmapped")
  BY <1>3, CrashKeepsIInv
<1>4. CASE Fail("refptr")
  BY <1>4, FailKeepsIInv
<1>5. CASE /\ target # NoName /\ ~ LookupFaults(target)
           /\ AddressOf(target) # NULL /\ k \in DOMAIN sections
           /\ memory' = [memory EXCEPT ![<<k, symbols[si].offset>>] = AddressOf(target)]
           /\ si' = si + 1
           /\ UNCHANGED << artifact, pc, error, ri, space >>
  BY <1>1, <1>5, PointKeepsIInv
<1>6. QED
  BY <1>2, <1>3, <1>4, <1>5 DEF InitRefptr

LEMMA RefptrsDoneKeepsIInv ==
  ASSUME IInv, RefptrsDone
  PROVE  IInv'
<1>1. /\ pc = "refptr" /\ si > Len(symbols) /\ pc' = "protect" /\ si' = 1 /\ ri' = 1
      /\ error' = error /\ UNCHANGED << artifact, space, memory >>
  BY DEF RefptrsDone, Proceed
<1>2. TypeOK /\ si \in Nat \ {0}
  BY DEF IInv, TypeOK
<1>3. \A k \in DOMAIN sections :
        /\ ~ BeforeMapping(k)' /\ ~ AfterUnmapping(k)' /\ WhileWritable(k)
        /\ ~ AfterProtection(k)'
  BY <1>1, <1>2, SectionParts
  DEF BeforeMapping, AfterUnmapping, WhileWritable, AfterProtection
<1>4. \A ref \in RelocationRefs : ~ IsWaiting(ref)' /\ IsBound(ref)
  BY <1>1 DEF IsWaiting, IsBound
<1>5. \A i \in RefptrSymbols : IsPointed(i)
  BY <1>1, <1>2, ArtifactParts, SymbolParts DEF IsPointed, RefptrSymbols
<1>6. pc \in BeforeProtecting /\ pc' \notin BeforeProtecting /\ pc \notin Ending
      /\ pc' # "run" /\ pc' # "enter"
  BY <1>1 DEF BeforeProtecting, Ending, Terminal
<1>7. /\ pc' \in {"start", "parse", "map", "relocate", "refptr", "protect", "enter", "run",
                  "unmap"} \union Terminal
      /\ error' \in {"none", "unreadable", "read", "external", "reach", "unmapped",
                     "ignored", "fault", "refptr", "entry"}
      /\ si' \in Nat \ {0} /\ ri' \in Nat \ {0}
  BY <1>1, <1>2 DEF TypeOK
<1>8. /\ UNCHANGED << artifact, space, memory >>
      /\ pc' \in {"enter", "run"} => si' = 1
      /\ pc' \in BeforeProtecting => pc \in BeforeProtecting
      /\ pc' = "protect" => pc \in BeforeProtecting \/ (pc = "protect" /\ si' = si)
      /\ pc \in Ending => pc' \in Ending
      /\ pc' = "run" => pc = "run" \/ EntryIsExecutable
  <2>1. UNCHANGED << artifact, space, memory >>
    BY <1>1
  <2>2. pc' \in {"enter", "run"} => si' = 1
    BY <1>1
  <2>3. QED
    BY <1>6, <2>1, <2>2, Zenon
<1>9. /\ \A k \in DOMAIN sections :
           /\ BeforeMapping(k)' => BeforeMapping(k)
           /\ AfterUnmapping(k)' => AfterUnmapping(k)
           /\ segments[k] # NULL =>
                /\ WhileWritable(k)' => WhileWritable(k)
                /\ AfterProtection(k)' => AfterProtection(k)
      /\ \A ref \in RelocationRefs :
           /\ IsWaiting(ref)' /\ segments[ref[1]] # NULL => IsWaiting(ref)
           /\ IsBound(ref)' => IsBound(ref)
      /\ \A i \in RefptrSymbols : IsPointed(i)' => IsPointed(i)
  BY <1>3, <1>4, <1>5
<1>10. QED
  BY <1>7, <1>8, <1>9, QuietKeepsIInv

-------------------------------------------------------------------------------
LEMMA ProtectSectionKeepsIInv ==
  ASSUME IInv, ProtectSection
  PROVE  IInv'
<1> USE DEF IInv
<1>1. /\ pc = "protect" /\ pc' = pc /\ si \in DOMAIN sections /\ si' = si + 1
      /\ artifact' = artifact /\ external_segment' = external_segment /\ error' = error
      /\ segments' = segments /\ memory' = memory /\ ri' = ri
  BY DEF ProtectSection
<1>2. TypeOK /\ si \in Nat \ {0} /\ si # Table
  BY DEF TypeOK, Table
<1> SUFFICES ASSUME NEW here \in DOMAIN sections, here = si
             PROVE  IInv'
  BY <1>1
<1>3. /\ \A k \in DOMAIN sections \ {here} : protection'[k] = protection[k]
      /\ \A k \in DOMAIN sections \ {here} : k \in unprotected' <=> k \in unprotected
      /\ segments[here] # NULL => protection'[here] = Final(here)'
      /\ protection' \in [DOMAIN sections -> SUBSET {BARF_FLAG_WRITE, BARF_FLAG_EXEC}]
      /\ \/ unprotected' = unprotected
         \/ segments[here] # NULL /\ unprotected' = unprotected \union {here}
  <2>1. MemFlags(here) \in SUBSET {BARF_FLAG_WRITE, BARF_FLAG_EXEC}
    BY DEF MemFlags
  <2>2. here \notin unprotected
    BY <1>1, <1>2 DEF UnprotectedSoFar
  <2>3. Final(here)' = IF here \in unprotected' THEN {BARF_FLAG_WRITE} ELSE MemFlags(here)
    BY <1>1, SameArtifact DEF Final
  <2>4. protection \in [DOMAIN sections -> SUBSET {BARF_FLAG_WRITE, BARF_FLAG_EXEC}]
    BY <1>2 DEF TypeOK
  <2>5. CASE /\ protection' = [protection EXCEPT ![here] = MemFlags(here)]
             /\ unprotected' = unprotected
    BY <2>1, <2>2, <2>3, <2>4, <2>5
  <2>6. CASE /\ segments[here] # NULL
             /\ unprotected' = unprotected \union {here}
             /\ protection' = protection
    <3>1. protection[here] = {BARF_FLAG_WRITE}
      BY <1>1, <1>2, <2>6 DEF ProtectionFollows, WhileWritable
    <3>2. QED
      BY <2>3, <2>4, <2>6, <3>1
  <2>7. CASE /\ IsIgnored(here) \/ segments[here] = NULL
             /\ protection' = protection /\ unprotected' = unprotected
    <3>1. segments[here] = NULL
      BY <2>7 DEF IgnoredIsUnmapped
    <3>2. QED
      BY <2>4, <2>7, <3>1
  <2>8. QED
    BY <2>5, <2>6, <2>7 DEF ProtectSection
<1>4. TypeOK'
  BY <1>1, <1>2, <1>3, SameArtifact DEF TypeOK
<1>5. ProtectionFollows'
  <2>1. SUFFICES ASSUME NEW k \in DOMAIN sections, segments[k] # NULL
                 PROVE  /\ WhileWritable(k)' => protection'[k] = {BARF_FLAG_WRITE}
                        /\ AfterProtection(k)' => protection'[k] = Final(k)'
    BY <1>1, SameArtifact DEF ProtectionFollows
  <2>2. k \in Nat
    BY <1>2, SectionParts
  <2>3. CASE k = here
    <3>1. ~ WhileWritable(k)'
      BY <1>1, <1>2, <2>2, <2>3 DEF WhileWritable
    <3>2. QED
      BY <1>3, <2>1, <2>3, <3>1
  <2>4. CASE k # here
    <3>1. /\ WhileWritable(k)' => WhileWritable(k)
          /\ AfterProtection(k)' => AfterProtection(k)
      BY <1>1, <1>2, <2>2, <2>4 DEF WhileWritable, AfterProtection
    <3>2. Final(k)' = Final(k) /\ protection'[k] = protection[k]
      BY <1>1, <1>3, <2>4, SameArtifact DEF Final
    <3>3. QED
      BY <2>1, <3>1, <3>2 DEF ProtectionFollows
  <2>5. QED
    BY <2>3, <2>4
<1>6. /\ UnmappedIsEmpty' /\ IgnoredIsUnmapped' /\ WaitingHoldContent' /\ UnmappedSoFar'
      /\ StartsFromFirst'
  BY <1>1, SameArtifact DEF UnmappedIsEmpty, IgnoredIsUnmapped, WaitingHoldContent,
     UnmappedSoFar, StartsFromFirst, BeforeMapping, IsWaiting, AfterUnmapping
<1>7. BoundAreResolved' /\ BoundHoldDistance'
  <2>1. \A ref : IsBound(ref)' <=> IsBound(ref)
    BY <1>1 DEF IsBound
  <2>2. QED
    BY <1>1, <2>1, SameArtifact, SamePlaces DEF BoundAreResolved, BoundHoldDistance, Truncated
<1>8. PointersHoldAddress'
  <2>1. \A i : IsPointed(i)' <=> IsPointed(i)
    BY <1>1 DEF IsPointed
  <2>2. QED
    BY <1>1, <2>1, SameArtifact, SamePlaces DEF PointersHoldAddress
<1>9. UnprotectedSoFar' /\ RunsExecutable'
  <2>1. unprotected \subseteq {Table} \union DOMAIN sections
    BY <1>2 DEF TypeOK
  <2>2. \A k \in unprotected : k \in Nat /\ k < si
    BY <1>1, <1>2, <2>1, SectionParts DEF UnprotectedSoFar, Table
  <2>3. \A k \in unprotected' : k < si + 1
    BY <1>2, <1>3, <2>2
  <2>4. \A k \in unprotected' \ {Table} : segments[k] # NULL
    BY <1>1, <1>3 DEF UnprotectedSoFar, Ending, Terminal
  <2>5. QED
    BY <1>1, <2>3, <2>4 DEF UnprotectedSoFar, BeforeProtecting, RunsExecutable
<1>10. QED
  BY <1>4, <1>5, <1>6, <1>7, <1>8, <1>9

LEMMA ProtectedKeepsIInv ==
  ASSUME IInv, Protected
  PROVE  IInv'
<1>1. /\ pc = "protect" /\ si > Len(sections) /\ pc' = "enter" /\ si' = 1 /\ ri' = 1
      /\ error' = error /\ UNCHANGED << artifact, space, memory >>
  BY DEF Protected, Proceed
<1>2. TypeOK /\ si \in Nat \ {0}
  BY DEF IInv, TypeOK
<1>3. \A k \in DOMAIN sections :
        /\ ~ BeforeMapping(k)' /\ ~ AfterUnmapping(k)' /\ ~ WhileWritable(k)'
        /\ AfterProtection(k)
  BY <1>1, <1>2, ArtifactParts, SectionParts
  DEF BeforeMapping, AfterUnmapping, WhileWritable, AfterProtection
<1>4. \A ref \in RelocationRefs : ~ IsWaiting(ref)' /\ IsBound(ref)
  BY <1>1 DEF IsWaiting, IsBound
<1>5. \A i \in RefptrSymbols : IsPointed(i)
  BY <1>1 DEF IsPointed
<1>6. QED
  BY <1>1, <1>2, <1>3, <1>4, <1>5, QuietKeepsIInv
  DEF TypeOK, BeforeProtecting, Ending, Terminal

(* ba_entry is called where it may be executed: there is one first global   *)
(* of the name.                                                             *)
LEMMA EnteredExecutable ==
  ASSUME Enter, TypeOK, pc' = "run"
  PROVE  EntryIsExecutable
<1>1. ~ LookupFaults(EntryName)
  BY DEF Enter, Crash, Stop
<1>2. PICK i \in DOMAIN symbols :
        /\ IsGlobalNamed(i, EntryName)
        /\ BARF_FLAG_EXEC \in protection[symbols[i].section_index]
  BY DEF Enter, Fail, Crash, Stop
<1>3. ASSUME NEW j \in DOMAIN symbols, IsGlobalNamed(j, EntryName)
      PROVE  j = i
  <2>1. i \in Nat \ {0} /\ j \in Nat \ {0}
    BY SymbolParts
  <2>2. ~ (i \in 1 .. j - 1) /\ ~ (j \in 1 .. i - 1)
    BY <1>2, <1>3 DEF IsGlobalNamed
  <2>3. QED
    BY <2>1, <2>2
<1>4. QED
  BY <1>1, <1>2, <1>3 DEF EntryIsExecutable, LookupFaults

LEMMA EnterKeepsIInv ==
  ASSUME IInv, Enter
  PROVE  IInv'
<1>1. CASE Crash("fault") \/ Crash("entry")
  BY <1>1, CrashKeepsIInv
<1>2. CASE Fail("entry")
  BY <1>2, FailKeepsIInv
<1>3. CASE pc = "enter" /\ Stop("run", error)
  <2>1. /\ pc = "enter" /\ pc' = "run" /\ si' = si /\ ri' = ri /\ error' = error
        /\ UNCHANGED << artifact, space, memory >>
    BY <1>3 DEF Stop
  <2>2. TypeOK /\ si \in Nat \ {0} /\ ri \in Nat \ {0} /\ si = 1
    BY <2>1 DEF IInv, TypeOK, StartsFromFirst
  <2>3. \A k \in DOMAIN sections :
          /\ ~ BeforeMapping(k)' /\ ~ AfterUnmapping(k)' /\ ~ WhileWritable(k)'
          /\ AfterProtection(k)
    BY <2>1 DEF BeforeMapping, AfterUnmapping, WhileWritable, AfterProtection
  <2>4. \A ref \in RelocationRefs : ~ IsWaiting(ref)' /\ IsBound(ref)
    BY <2>1 DEF IsWaiting, IsBound
  <2>5. \A i \in RefptrSymbols : IsPointed(i)
    BY <2>1 DEF IsPointed
  <2>6. EntryIsExecutable
    BY <2>1, <2>2, EnteredExecutable
  <2>7. QED
    BY <2>1, <2>2, <2>3, <2>4, <2>5, <2>6, QuietKeepsIInv
  DEF TypeOK, BeforeProtecting, Ending, Terminal
<1>4. QED
  BY <1>1, <1>2, <1>3 DEF Enter

LEMMA ReturnKeepsIInv ==
  ASSUME IInv, Return
  PROVE  IInv'
<1>1. /\ pc = "run" /\ pc' = "unmap" /\ si' = si /\ ri' = ri /\ error' = error
      /\ UNCHANGED << artifact, space, memory >>
  BY DEF Return, Stop
<1>2. TypeOK /\ si \in Nat \ {0} /\ ri \in Nat \ {0} /\ si = 1
  BY <1>1 DEF IInv, TypeOK, StartsFromFirst
<1>3. \A k \in DOMAIN sections :
        /\ ~ BeforeMapping(k)' /\ ~ AfterUnmapping(k)' /\ ~ WhileWritable(k)'
        /\ ~ AfterProtection(k)'
  BY <1>1, <1>2, SectionParts
  DEF BeforeMapping, AfterUnmapping, WhileWritable, AfterProtection
<1>4. \A ref \in RelocationRefs : ~ IsWaiting(ref)' /\ ~ IsBound(ref)'
  BY <1>1 DEF IsWaiting, IsBound
<1>5. \A i \in RefptrSymbols : ~ IsPointed(i)'
  BY <1>1 DEF IsPointed
<1>6. QED
  BY <1>1, <1>2, <1>3, <1>4, <1>5, QuietKeepsIInv
  DEF TypeOK, BeforeProtecting, Ending, Terminal

LEMMA UnmapSectionKeepsIInv ==
  ASSUME IInv, UnmapSection
  PROVE  IInv'
<1> USE DEF IInv
<1>1. /\ pc = "unmap" /\ pc' = pc /\ si \in DOMAIN sections /\ si' = si + 1
      /\ artifact' = artifact /\ external_segment' = external_segment /\ error' = error
      /\ memory' = memory /\ ri' = ri /\ unprotected' = unprotected
  BY DEF UnmapSection
<1>2. TypeOK /\ si \in Nat \ {0}
  BY DEF TypeOK
<1>3. /\ segments' \in [DOMAIN sections -> Bases \union {NULL}]
      /\ protection' \in [DOMAIN sections -> SUBSET {BARF_FLAG_WRITE, BARF_FLAG_EXEC}]
      /\ segments'[si] = NULL
      /\ \A k \in DOMAIN sections : segments'[k] = NULL \/ segments'[k] = segments[k]
  <2>1. CASE IsIgnored(si) /\ UNCHANGED << segments, protection >>
    BY <1>1, <2>1 DEF TypeOK, IgnoredIsUnmapped
  <2>2. CASE /\ segments' = [segments EXCEPT ![si] = NULL]
             /\ protection' = [protection EXCEPT ![si] = {}]
    BY <1>1, <2>2 DEF TypeOK
  <2>3. QED
    BY <2>1, <2>2 DEF UnmapSection
<1>4. TypeOK'
  BY <1>1, <1>2, <1>3, SameArtifact DEF TypeOK
<1>5. IgnoredIsUnmapped'
  BY <1>1, <1>3, SameArtifact DEF IgnoredIsUnmapped
<1>6. UnmappedSoFar'
  <2>1. SUFFICES ASSUME NEW k \in DOMAIN sections, AfterUnmapping(k)'
                 PROVE  segments'[k] = NULL
    BY SameArtifact, <1>1 DEF UnmappedSoFar
  <2>2. k = si \/ AfterUnmapping(k)
    BY <1>1, <1>2, <2>1, SectionParts DEF AfterUnmapping
  <2>3. QED
    BY <1>3, <2>2 DEF UnmappedSoFar
<1>7. /\ UnmappedIsEmpty' /\ WaitingHoldContent' /\ BoundAreResolved' /\ BoundHoldDistance'
      /\ PointersHoldAddress' /\ ProtectionFollows' /\ StartsFromFirst'
      /\ UnprotectedSoFar' /\ RunsExecutable'
  BY <1>1 DEF UnmappedIsEmpty, WaitingHoldContent, BoundAreResolved, BoundHoldDistance,
     PointersHoldAddress, ProtectionFollows, StartsFromFirst, BeforeMapping, IsWaiting,
     IsBound, IsPointed, WhileWritable, AfterProtection, UnprotectedSoFar, BeforeProtecting,
     Ending, RunsExecutable
<1>8. QED
  BY <1>4, <1>5, <1>6, <1>7

LEMMA UnmappedKeepsIInv ==
  ASSUME IInv, Unmapped
  PROVE  IInv'
<1>1. /\ pc = "unmap" /\ si > Len(sections) /\ pc' = "done" /\ si' = 1 /\ ri' = 1
      /\ error' = error /\ UNCHANGED << artifact, space, memory >>
  BY DEF Unmapped, Proceed
<1>2. TypeOK /\ si \in Nat \ {0}
  BY DEF IInv, TypeOK
<1>3. \A k \in DOMAIN sections :
        /\ ~ BeforeMapping(k)' /\ AfterUnmapping(k) /\ ~ WhileWritable(k)'
        /\ ~ AfterProtection(k)'
  BY <1>1, <1>2, ArtifactParts, SectionParts
  DEF BeforeMapping, AfterUnmapping, WhileWritable, AfterProtection
<1>4. \A ref \in RelocationRefs : ~ IsWaiting(ref)' /\ ~ IsBound(ref)'
  BY <1>1 DEF IsWaiting, IsBound
<1>5. \A i \in RefptrSymbols : ~ IsPointed(i)'
  BY <1>1 DEF IsPointed
<1>6. QED
  BY <1>1, <1>2, <1>3, <1>4, <1>5, QuietKeepsIInv
  DEF TypeOK, Terminal, BeforeProtecting, Ending

LEMMA StutterKeepsIInv ==
  ASSUME IInv, UNCHANGED vars
  PROVE  IInv'
<1>1. /\ pc' = pc /\ si' = si /\ ri' = ri /\ error' = error
      /\ UNCHANGED << artifact, space, memory >>
  BY DEF vars
<1>2. \A k \in DOMAIN sections :
        /\ BeforeMapping(k)' <=> BeforeMapping(k)
        /\ AfterUnmapping(k)' <=> AfterUnmapping(k)
        /\ WhileWritable(k)' <=> WhileWritable(k)
        /\ AfterProtection(k)' <=> AfterProtection(k)
  BY <1>1 DEF BeforeMapping, AfterUnmapping, WhileWritable, AfterProtection
<1>3. \A ref : (IsWaiting(ref)' <=> IsWaiting(ref)) /\ (IsBound(ref)' <=> IsBound(ref))
  BY <1>1 DEF IsWaiting, IsBound
<1>4. \A i : IsPointed(i)' <=> IsPointed(i)
  BY <1>1 DEF IsPointed
<1>5. TypeOK /\ StartsFromFirst
  BY DEF IInv
<1>6. QED
  BY <1>1, <1>2, <1>3, <1>4, <1>5, QuietKeepsIInv
  DEF TypeOK, StartsFromFirst, BeforeProtecting, Ending, Terminal

LEMMA ArtifactIsGiven == Next => UNCHANGED artifact
BY DEF Next, Step, Start, Parse, MapSection, CloseFile, ApplyRelocation, BindExternal,
   BindDefined, BindNowhere, Bind, NextSection, Relocated, InitRefptr, RefptrsDone,
   ProtectSection, Protected, Enter, Return, UnmapSection, Unmapped, Proceed, Fail, Crash,
   Stop

LEMMA StepKeepsIInv == IInv /\ [Next]_vars => IInv'
<1>1. SUFFICES ASSUME IInv, [Next]_vars
               PROVE  IInv'
  OBVIOUS
<1>2. CASE Start \/ Parse \/ MapSection \/ CloseFile
  BY <1>1, <1>2, StartKeepsIInv, ParseKeepsIInv, MapSectionKeepsIInv, CloseFileKeepsIInv
<1>3. CASE ApplyRelocation \/ NextSection \/ Relocated
  BY <1>1, <1>3, ApplyRelocationKeepsIInv, NextSectionKeepsIInv, RelocatedKeepsIInv
<1>4. CASE InitRefptr \/ RefptrsDone
  BY <1>1, <1>4, InitRefptrKeepsIInv, RefptrsDoneKeepsIInv
<1>5. CASE ProtectSection \/ Protected \/ Enter \/ Return
  BY <1>1, <1>5, ProtectSectionKeepsIInv, ProtectedKeepsIInv, EnterKeepsIInv,
     ReturnKeepsIInv
<1>6. CASE UnmapSection \/ Unmapped
  BY <1>1, <1>6, UnmapSectionKeepsIInv, UnmappedKeepsIInv
<1>7. CASE UNCHANGED vars
  BY <1>1, <1>7, StutterKeepsIInv
<1>8. QED
  BY <1>1, <1>2, <1>3, <1>4, <1>5, <1>6, <1>7 DEF Next, Step

(* The inductive invariant holds in every reachable state. *)
THEOREM Invariance == Spec => []IInv
BY InitIInv, StepKeepsIInv, PTL DEF Spec

-------------------------------------------------------------------------------
(* Words hold numbers modulo 2 * Half. *)
LEMMA WrapAround ==
  ASSUME NEW w \in Nat \ {0}, NEW x \in Int
  PROVE  /\ 0 <= x /\ x < w => x % w = x
         /\ - w <= x /\ x < 0 => x % w = x + w
         /\ w <= x /\ x < 2 * w => x % w = x - w
<1> DEFINE q == x \div w
           r == x % w
<1>1. q \in Int /\ r \in 0 .. w - 1 /\ x = w * q + r
  OBVIOUS
<1>2. q >= 1 => w * q >= w
  BY <1>1
<1>3. q >= 2 => w * q >= 2 * w
  BY <1>1
<1>4. q <= -1 => w * q <= - w
  BY <1>1
<1>5. q <= -2 => w * q <= - 2 * w
  BY <1>1
<1>6. q = 0 => w * q = 0
  BY <1>1
<1>7. q = 1 => w * q = w
  BY <1>1
<1>8. q = -1 => w * q = - w
  BY <1>1
<1> DEFINE p == w * q
<1>9. p \in Int
  BY <1>1
<1> HIDE DEF p
<1>10. /\ x = p + r
       /\ q >= 1 => p >= w
       /\ q >= 2 => p >= 2 * w
       /\ q <= -1 => p <= - w
       /\ q <= -2 => p <= - 2 * w
       /\ q = 0 => p = 0
       /\ q = 1 => p = w
       /\ q = -1 => p = - w
  BY <1>1, <1>2, <1>3, <1>4, <1>5, <1>6, <1>7, <1>8 DEF p
<1> HIDE DEF q, r
<1>11. /\ 0 <= x /\ x < w => r = x
       /\ - w <= x /\ x < 0 => r = x + w
       /\ w <= x /\ x < 2 * w => r = x - w
  BY <1>1, <1>9, <1>10
<1>12. QED
  BY <1>11 DEF r

(* A word that was added to reads, as a displacement, as the sum of what it *)
(* read as before and what was added, if a word can hold that.              *)
LEMMA SignedSum ==
  ASSUME NEW c \in Nat, c < 2 * Half, NEW d \in Int, Representable(Signed(c) + d)
  PROVE  Signed(Truncated(c + d)) = Signed(c) + d
<1> DEFINE w == 2 * Half
           n == Signed(c) + d
<1>1. /\ Half \in Nat \ {0} /\ w \in Nat \ {0} /\ n \in Int /\ c + d \in Int
      /\ - Half <= n /\ n < Half
      /\ c + d = n \/ c + d = n + w
      /\ w = 2 * Half
  BY AddressAssumption DEF Signed, Representable
<1> DEFINE x == c + d
           r == x % w
<1>2. /\ x \in Int /\ (x = n \/ x = n + w)
      /\ 0 <= x /\ x < w => r = x
      /\ - w <= x /\ x < 0 => r = x + w
      /\ w <= x /\ x < 2 * w => r = x - w
  <2> HIDE DEF w
  <2>1. QED
    BY <1>1, WrapAround
<1>3. Signed(Truncated(c + d)) = IF r < Half THEN r ELSE r - w
  BY DEF Signed, Truncated
<1> HIDE DEF w, n, x, r
<1>4. r = IF n >= 0 THEN n ELSE n + w
  BY <1>1, <1>2
<1>5. (IF r < Half THEN r ELSE r - w) = n
  BY <1>1, <1>4
<1>6. QED
  BY <1>3, <1>5 DEF n

(* SegmentsAreInOrder: the program runs with its segments protected as the  *)
(* artifact's flags say, or as they were mapped where the system refused    *)
(* the change; ba_entry is in one that may be executed; and none is left    *)
(* mapped when it has returned.                                             *)
THEOREM SegmentsInOrder == Spec => []SegmentsAreInOrder
<1>1. IInv => SegmentsAreInOrder
  <2>1. SUFFICES ASSUME IInv
                 PROVE  SegmentsAreInOrder
    OBVIOUS
  <2>2. TypeOK
    BY <2>1 DEF IInv
  <2>3. ProtectionIsApplied
    <3>1. SUFFICES ASSUME pc = "run"
                   PROVE  ProtectionIsApplied
      BY DEF ProtectionIsApplied
    <3>2. ASSUME NEW k \in DOMAIN sections, segments[k] # NULL
          PROVE  protection[k] = Final(k)
      BY <2>1, <3>1, <3>2 DEF IInv, ProtectionFollows, AfterProtection
    <3>3. ASSUME NEW i \in DOMAIN symbols, IsGlobalNamed(i, EntryName)
          PROVE  symbols[i].section_index \notin unprotected
      <4> DEFINE k == symbols[i].section_index
      <4>1. k \in DOMAIN sections /\ BARF_FLAG_EXEC \in protection[k]
        BY <2>1, <3>1, <3>3 DEF IInv, RunsExecutable, EntryIsExecutable
      <4>2. k # Table
        BY <2>2, <4>1, SectionParts DEF Table
      <4>3. k \in unprotected => protection[k] = {BARF_FLAG_WRITE}
        BY <2>1, <3>1, <3>2, <4>1, <4>2 DEF IInv, UnprotectedSoFar, Ending, Terminal, Final
      <4>4. QED
        BY <4>1, <4>3 DEF BARF_FLAG_WRITE, BARF_FLAG_EXEC
    <3>4. ASSUME NEW k \in DOMAIN sections, segments[k] # NULL, k \notin unprotected
          PROVE  protection[k] = MemFlags(k)
      BY <3>2, <3>4 DEF Final
    <3>5. ASSUME NEW k \in DOMAIN sections, segments[k] # NULL, k \in unprotected
          PROVE  protection[k] = {BARF_FLAG_WRITE}
      BY <3>2, <3>5 DEF Final
    <3>6. QED
      BY <3>3, <3>4, <3>5
      DEF ProtectionIsApplied, MemFlags, BARF_FLAG_WRITE, BARF_FLAG_EXEC
  <2>4. ReleasedWhenDone
    BY <2>1 DEF IInv, ReleasedWhenDone, UnmappedSoFar, AfterUnmapping
  <2>5. QED
    BY <2>2, <2>3, <2>4 DEF SegmentsAreInOrder
<1>2. QED
  BY <1>1, Invariance, PTL

(* What is bound leads where it should when the program runs.              *)
LEMMA BoundResolve == IInv => ReferencesResolve
<1>1. SUFFICES ASSUME IInv, pc = "run"
               PROVE  JumpsLeadToTargets /\ RelocatedAreKnown /\ RefptrsPoint
  BY DEF ReferencesResolve, JumpsLeadToTargets, RelocatedAreKnown, RefptrsPoint
<1>2. /\ TypeOK
      /\ \A ref \in RelocationRefs : IsBound(ref)
      /\ \A i \in RefptrSymbols : IsPointed(i)
  BY <1>1 DEF IInv, IsBound, IsPointed
<1>3. JumpsLeadToTargets
  <2>1. SUFFICES ASSUME NEW ref \in RelocationRefs, OwnsSite(ref),
                        Representable(Displacement(ref))
                 PROVE  Signed(memory[SiteOf(ref)]) = Displacement(ref)
    BY DEF JumpsLeadToTargets
  <2>2. memory[SiteOf(ref)] = Truncated(Content(ref[1]) + Distance(ref))
    BY <1>1, <1>2, <2>1 DEF IInv, BoundHoldDistance
  <2>3. TargetOf(ref) \in Nat /\ Distance(ref) \in Int
    BY <1>1, <1>2, DistanceType DEF IInv, BoundAreResolved
  <2>4. Content(ref[1]) \in Nat /\ Content(ref[1]) < 2 * Half
    BY <1>2, RefParts, SectionParts, AddressAssumption DEF Content
  <2>5. Signed(Content(ref[1])) = Addend(ref[1]) /\ Addend(ref[1]) \in Int
    BY <1>2, RefParts, SectionParts, AddressAssumption DEF Content, Addend, Signed
  <2>6. Displacement(ref) = Signed(Content(ref[1])) + Distance(ref)
    <3>1. segments[ref[1]] \in Nat /\ sections[ref[1]].relocations[ref[2]].offset \in Nat
      BY <1>2, RefParts, SectionParts
    <3>2. QED
      BY <2>3, <2>5, <3>1 DEF Displacement, Distance
  <2>7. QED
    BY <2>1, <2>2, <2>3, <2>4, <2>6, SignedSum
<1>4. RelocatedAreKnown
  BY <1>1, <1>2 DEF IInv, BoundAreResolved, IsResolved, RelocatedAreKnown
<1>5. RefptrsPoint
  BY <1>1, <1>2 DEF IInv, PointersHoldAddress, OwnsPointer, RefptrsPoint
<1>6. QED
  BY <1>3, <1>4, <1>5

(* ReferencesResolve: when ba_entry runs, every jump, every .refptr pointer *)
(* and every use of the loader's functions leads to what it names, and no   *)
(* relocated symbol is in no section of the artifact unless the loader      *)
(* provides it, whatever type the symbol says.                              *)
THEOREM References == Spec => []ReferencesResolve
BY BoundResolve, Invariance, PTL

(* WrittenWhileWritable: no step writes to a site whose pages are not       *)
(* writable at that moment; binding comes before the protection.            *)
THEOREM Writes == Spec => WrittenWhileWritable
<1> DEFINE Good == \A site \in Sites :
                     memory'[site] # memory[site] => BARF_FLAG_WRITE \in protection'[site[1]]
<1>1. IInv /\ [Next]_vars => [Good]_vars
  <2>1. SUFFICES ASSUME IInv, Next, NEW site \in Sites, memory'[site] # memory[site]
                 PROVE  BARF_FLAG_WRITE \in protection'[site[1]]
    BY DEF vars
  <2>2. TypeOK /\ memory' # memory
    BY <2>1 DEF IInv
  <2>3. CASE MapSection
    <3>1. PICK base \in Bases \union {NULL} :
            /\ protection' = [protection EXCEPT ![si] =
                                IF base = NULL THEN {} ELSE FirstProtection(si)]
            /\ memory' = [s \in Sites |->
                 IF s[1] = si /\ base # NULL /\ ~ (BARF_FLAG_ZEROED \in sections[si].flags)
                 THEN sections[si].content
                 ELSE memory[s]]
            /\ si \in DOMAIN sections
      BY <2>2, <2>3 DEF MapSection, Free, Crash, Stop
    <3>2. site[1] = si /\ base # NULL
      BY <2>1, <3>1
    <3>3. QED
      BY <2>2, <3>1, <3>2 DEF TypeOK, FirstProtection
  <2>4. CASE ApplyRelocation
    <3>1. /\ pc = "relocate" /\ si \in DOMAIN sections /\ segments[si] # NULL
          /\ memory' = [memory EXCEPT ![CurrentSite] = memory'[CurrentSite]]
          /\ protection' = protection
      BY <2>2, <2>4 DEF ApplyRelocation, BindExternal, BindDefined, BindNowhere, Bind,
         Crash, Fail, Stop, space, TypeOK
    <3>2. site = CurrentSite
      BY <2>1, <2>2, <3>1 DEF TypeOK
    <3>3. QED
      BY <2>1, <3>1, <3>2 DEF IInv, ProtectionFollows, WhileWritable, CurrentSite
  <2>5. CASE InitRefptr
    <3> DEFINE k == symbols[si].section_index
               there == <<k, symbols[si].offset>>
    <3>1. /\ pc = "refptr" /\ k \in DOMAIN sections /\ segments[k] # NULL
          /\ memory' = [memory EXCEPT ![there] = memory'[there]]
          /\ protection' = protection
      BY <2>2, <2>5 DEF InitRefptr, Crash, Fail, Stop, space, TypeOK
    <3>2. site = there
      BY <2>1, <2>2, <3>1 DEF TypeOK
    <3>3. QED
      BY <2>1, <3>1, <3>2 DEF IInv, ProtectionFollows, WhileWritable
  <2>6. CASE ~ (MapSection \/ ApplyRelocation \/ InitRefptr)
    BY <2>1, <2>2, <2>6 DEF Next, Step, Start, Parse, CloseFile, NextSection, Relocated,
       RefptrsDone, ProtectSection, Protected, Enter, Return, UnmapSection, Unmapped,
       Proceed, Fail, Crash, Stop
  <2>7. QED
    BY <2>3, <2>4, <2>5, <2>6
<1>2. QED
  BY <1>1, Invariance, PTL DEF Spec, WrittenWhileWritable

===============================================================================
