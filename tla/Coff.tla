---------------------------------- MODULE Coff ----------------------------------
(***************************************************************************)
(* barf_convert_from_coff, src/barf/format.c:210-521: one COFF object file *)
(* becomes one artifact.  Three loops build it in memory - sections, then  *)
(* symbols, then the relocations of each section - and a fourth writes it. *)
(* What they share are two mappings, from the file's sections and from the *)
(* records of its symbol table to those of the artifact, because both may  *)
(* leave some out.                                                         *)
(*                                                                         *)
(* A record of the symbol table is a symbol or an auxiliary record of the  *)
(* one before; an auxiliary record is given by what its bytes say when     *)
(* they are read as a symbol.  Sections, records and relocations count     *)
(* from 1 here.  The handles are the subject of module Session.            *)
(***************************************************************************)
EXTENDS ObjectFile, FiniteSets, Functions

CONSTANTS NameSize   (* name -> bytes of its string, with the zero         *)

(* COFF_File_Header.Machine and the target it becomes. *)
MachineTarget ==
  [AMD64 |-> "x86_64", I386 |-> "x86", ARM |-> "arm", ARM64 |-> "aarch64"]

OtherMachine == "other"

(* The Characteristics of a section that the converter looks at. *)
IMAGE_SCN_MEM_EXECUTE            == "MEM_EXECUTE"
IMAGE_SCN_MEM_WRITE              == "MEM_WRITE"
IMAGE_SCN_LNK_INFO               == "LNK_INFO"
IMAGE_SCN_CNT_UNINITIALIZED_DATA == "CNT_UNINITIALIZED_DATA"

Characteristic ==
  { IMAGE_SCN_MEM_EXECUTE, IMAGE_SCN_MEM_WRITE, IMAGE_SCN_LNK_INFO,
    IMAGE_SCN_CNT_UNINITIALIZED_DATA }

IMAGE_SYM_CLASS_STATIC == "STATIC"
StorageClass == {IMAGE_SYM_CLASS_STATIC, "EXTERNAL", "FILE", "NULL"}

IMAGE_REL_AMD64_REL32 == "REL32"
RelocationType == {IMAGE_REL_AMD64_REL32, "ADDR32NB"}

MaxNameLength == 31   \* sizeof(sec->name) - 1

COFF_Relocation == [SymbolTableIndex : Nat \ {0}, VirtualAddress : Nat, Type : RelocationType]

Section_Header ==
  [ name_length : Nat, SizeOfRawData : Nat, PointerToRawData : Nat,
    Characteristics : SUBSET Characteristic, align : 0 .. 15,
    relocations : Seq(COFF_Relocation) ]

Symbol_Record ==
  [ Name : DOMAIN NameSize, Value : Nat, SectionNumber : Int,
    StorageClass : StorageClass, NumberOfAuxSymbols : Nat ]

(* The section of a symbol and the symbol of a relocation are in the file:  *)
(* both numbers are indices the converter uses as they are.                 *)
NumbersExist(file) ==
  /\ \A r \in DOMAIN file.symbols :
       file.symbols[r].SectionNumber > 0 => file.symbols[r].SectionNumber \in DOMAIN file.sections
  /\ \A s \in DOMAIN file.sections : \A r \in DOMAIN file.sections[s].relocations :
       file.sections[s].relocations[r].SymbolTableIndex \in DOMAIN file.symbols

(* "reads" is how far reading the file gets: it is missing, shorter than a  *)
(* header, cut while it is read, or whole.                                  *)
COFF_File ==
  { file \in
      [ reads : {"missing", "short", "cut", "whole"},
        Machine : DOMAIN MachineTarget \union {OtherMachine},
        SizeOfOptionalHeader : Nat, size : Nat, string_table : Nat,
        sections : Seq(Section_Header), symbols : Seq(Symbol_Record) ] : NumbersExist(file) }

ASSUME NameSizeAssumption == \A n \in DOMAIN NameSize : NameSize[n] \in Nat \ {0}

(* symbol_infos of a record the second loop never comes to.                 *)
Skipped == -1

VARIABLES
  coff,            (* the input, given                                       *)
  output_opens,    (* will fs__open of the output succeed                    *)
  pc, i,           (* the loop being run and its counter                     *)
  target, sections, symbols, string_size,   (* object->...                   *)
  section_infos,   (* section of the file -> section of the artifact or None *)
  symbol_infos,    (* record of the file -> symbol, None, or Skipped         *)
  relocations,     (* object->relocations                                    *)
  written          (* the relocations of each section in the output          *)

given  == << coff, output_opens >>
object == << target, sections, symbols, string_size, section_infos, symbol_infos, relocations >>
vars   == << given, pc, i, object, written >>

Init ==
  /\ output_opens \in BOOLEAN
  /\ pc = "read" /\ i = 1
  /\ target = "" /\ sections = << >> /\ symbols = << >> /\ string_size = 0
  /\ section_infos = [s \in DOMAIN coff.sections |-> None]
  /\ symbol_infos = [r \in DOMAIN coff.symbols |-> Skipped]
  /\ relocations = [s \in DOMAIN coff.sections |-> << >>]
  /\ written = << >>

Goto(label) == pc' = label /\ i' = 1

(* The end of the function, or of the process. *)
End(how) ==
  /\ Goto(how)
  /\ UNCHANGED << given, object, written >>

-------------------------------------------------------------------------------
IsCoff ==
  /\ coff.reads \in {"cut", "whole"}
  /\ coff.Machine # OtherMachine
  /\ Len(coff.sections) \in 1 .. 256
  /\ coff.SizeOfOptionalHeader = 0

(* fs__close of FS_INVALID_HANDLE, which the cleanup takes for a handle,    *)
(* reaches handles[0xFFFFFFFF].                                             *)
Read ==
  /\ pc = "read"
  /\ \/ coff.reads = "missing" /\ End("crashed")
     \/ coff.reads # "missing" /\ ~ (IsCoff /\ coff.reads = "whole") /\ End("refused")
     \/ /\ IsCoff /\ coff.reads = "whole"
        /\ target' = MachineTarget[coff.Machine]
        /\ Goto("sections")
        /\ UNCHANGED << given, sections, symbols, string_size, section_infos,
                        symbol_infos, relocations, written >>

(* u16 alignment = 1 << (bits - 1); without bits the shift is by -1, which  *)
(* the processor takes for 31, and nothing of it is left in 16 bits.        *)
Alignment(bits) == IF bits = 0 THEN 0 ELSE 2 ^ (bits - 1)

Flags(characteristics) ==
  {BARF_FLAG_EXEC   : c \in characteristics \intersect {IMAGE_SCN_MEM_EXECUTE}} \union
  {BARF_FLAG_WRITE  : c \in characteristics \intersect {IMAGE_SCN_MEM_WRITE}} \union
  {BARF_FLAG_IGNORE : c \in characteristics \intersect {IMAGE_SCN_LNK_INFO}} \union
  {BARF_FLAG_ZEROED : c \in characteristics \intersect {IMAGE_SCN_CNT_UNINITIALIZED_DATA}}

LeftOut(header) == header.name_length > MaxNameLength \/ header.SizeOfRawData = 0

Converted(header) ==
  [ flags |-> Flags(header.Characteristics), alignment |-> Alignment(header.align),
    data_size |-> header.SizeOfRawData, data_offset |-> header.PointerToRawData,
    relocation_count |-> 0 ]

MapSection(s) == [section_infos EXCEPT ![s] = Len(sections) + 1]

ConvertSection ==
  /\ pc = "sections" /\ i \in DOMAIN coff.sections
  /\ IF LeftOut(coff.sections[i])
     THEN UNCHANGED << sections, section_infos >>
     ELSE /\ sections' = Append(sections, Converted(coff.sections[i]))
          /\ section_infos' = MapSection(i)
  /\ i' = i + 1
  /\ UNCHANGED << given, pc, target, symbols, string_size, symbol_infos, relocations, written >>

Proceed(from, count, to) ==
  /\ pc = from /\ i > count
  /\ Goto(to)
  /\ UNCHANGED << given, object, written >>

-------------------------------------------------------------------------------
Record == coff.symbols[i]

SectionOf(record) == section_infos[record.SectionNumber]

Type(record) ==
  IF record.SectionNumber = 0 THEN "external"
  ELSE IF record.StorageClass = IMAGE_SYM_CLASS_STATIC THEN "local" ELSE "global"

LeaveOut(next) ==
  /\ symbol_infos' = [symbol_infos EXCEPT ![i] = None]
  /\ i' = next
  /\ UNCHANGED << given, pc, target, sections, symbols, string_size, section_infos,
                  relocations, written >>

(* A symbol of no section at all: passed over with its auxiliary records.   *)
PassOver ==
  /\ Record.SectionNumber < 0
  /\ LeaveOut(i + 1 + Record.NumberOfAuxSymbols)

(* A symbol of a section that was left out: "continue" goes to the record   *)
(* after it, whatever that is.                                              *)
DropSymbol ==
  /\ Record.SectionNumber > 0 /\ SectionOf(Record) = None
  /\ LeaveOut(i + 1)

StringSize(name) == NameSize[name]

AddSymbolOf(record, next) ==
  /\ record.SectionNumber = 0 \/ (record.SectionNumber > 0 /\ SectionOf(record) # None)
  /\ symbols' = Append(symbols,
       [ type |-> Type(record), name |-> record.Name, offset |-> record.Value,
         section_index |-> IF record.SectionNumber = 0 THEN None ELSE SectionOf(record) ])
  /\ symbol_infos' = [symbol_infos EXCEPT ![i] = Len(symbols) + 1]
  /\ string_size' = string_size + StringSize(record.Name)
  /\ i' = next
  /\ UNCHANGED << given, pc, target, sections, section_infos, relocations, written >>

AddSymbol == AddSymbolOf(Record, i + 1 + Record.NumberOfAuxSymbols)

ConvertSymbol ==
  /\ pc = "symbols" /\ i \in DOMAIN coff.symbols
  /\ PassOver \/ DropSymbol \/ AddSymbol

-------------------------------------------------------------------------------
KeptAt(s) ==
  { r \in DOMAIN coff.sections[s].relocations :
      coff.sections[s].relocations[r].Type = IMAGE_REL_AMD64_REL32 }

(* Where one that is kept goes: relocation_count counts it.                 *)
PlaceOf(s, r) == Cardinality({q \in KeptAt(s) : q <= r})

(* Slip: the relocations of other types are counted too. *)
CountAll(s) == Len(coff.sections[s].relocations)

Count(s) == Cardinality(KeptAt(s))

Kept(s) ==
  [k \in 1 .. Cardinality(KeptAt(s)) |->
     coff.sections[s].relocations[CHOOSE r \in KeptAt(s) : PlaceOf(s, r) = k]]

(* The number of a record that was skipped is the 0 of memset, that of the  *)
(* first symbol.                                                            *)
SymbolIndex(r) == IF symbol_infos[r] = Skipped THEN 1 ELSE symbol_infos[r]

Renumbered(list) ==
  [r \in DOMAIN list |->
     [ symbol_index |-> SymbolIndex(list[r].SymbolTableIndex),
       offset |-> list[r].VirtualAddress ]]

(* Every symbol a relocation names is read, whatever its type; one that was *)
(* left out has the index 0xFFFFFFFF.                                       *)
NamesLeftOut(s) ==
  \E r \in DOMAIN coff.sections[s].relocations :
    symbol_infos[coff.sections[s].relocations[r].SymbolTableIndex] = None

(* A list as long as in the file, of zeroes behind the relocations kept. *)
ZeroRelocation == [symbol_index |-> 1, offset |-> 0]

Allocated(s) ==
  [r \in DOMAIN coff.sections[s].relocations |->
     IF r \in DOMAIN Kept(s) THEN Renumbered(Kept(s))[r] ELSE ZeroRelocation]

(* The list is stored under the section's index in the file, its length in  *)
(* the section of the artifact.                                             *)
ConvertRelocations ==
  /\ pc = "relocations" /\ i \in DOMAIN coff.sections
  /\ \/ /\ section_infos[i] # None /\ ~ NamesLeftOut(i)
        /\ relocations' = [relocations EXCEPT ![i] = Allocated(i)]
        /\ sections' = [sections EXCEPT ![section_infos[i]].relocation_count = Count(i)]
        /\ i' = i + 1
        /\ UNCHANGED << given, pc, target, symbols, string_size, section_infos,
                        symbol_infos, written >>
     \/ /\ section_infos[i] = None
        /\ i' = i + 1
        /\ UNCHANGED << given, pc, object, written >>
     \/ section_infos[i] # None /\ NamesLeftOut(i) /\ End("crashed")

-------------------------------------------------------------------------------
(* What is written for the k-th section is the list stored under k, read to *)
(* the length of that section: NULL, or memory of whatever content behind a *)
(* list that is shorter.                                                    *)
Heap == [symbol_index |-> None, offset |-> 0]

Listed(k) ==
  [r \in 1 .. sections[k].relocation_count |->
     IF r \in DOMAIN relocations[k] THEN relocations[k][r] ELSE Heap]

TablesEnd == TableEnd(sections, symbols, string_size)

WriteFaults ==
  \E k \in DOMAIN sections :
    \/ sections[k].alignment = 0
    \/ relocations[k] = << >> /\ sections[k].relocation_count > 0

Write ==
  /\ pc = "write"
  /\ \/ /\ output_opens /\ ~ WriteFaults
        /\ written' = [k \in DOMAIN sections |-> Listed(k)]
        /\ Goto("converted")
        /\ UNCHANGED << given, object >>
     \/ ~ output_opens /\ End("crashed")   \* the cleanup closes FS_INVALID_HANDLE
     \/ /\ WriteFaults \/ \E k \in DOMAIN sections : ReadsBeyond(sections[k], coff.size)
        /\ End("crashed")

Next ==
  \/ Read
  \/ ConvertSection
  \/ Proceed("sections", Len(coff.sections), "symbols")
  \/ ConvertSymbol
  \/ Proceed("symbols", Len(coff.symbols), "relocations")
  \/ ConvertRelocations
  \/ Proceed("relocations", Len(coff.sections), "write")
  \/ Write

Spec == Init /\ [][Next]_vars
-------------------------------------------------------------------------------
(* What the file says.  A record is a symbol if it is the first, or the     *)
(* next one behind a symbol and its auxiliary records; the symbols are the  *)
(* least set of which that is true.                                         *)
Behind(r) == r + 1 + coff.symbols[r].NumberOfAuxSymbols

HasAllSymbols(set) ==
  /\ 1 \in DOMAIN coff.symbols => 1 \in set
  /\ \A r \in set : Behind(r) \in DOMAIN coff.symbols => Behind(r) \in set

IsSymbol(r) == \A set \in SUBSET DOMAIN coff.symbols : HasAllSymbols(set) => r \in set

(* A symbol of a section with nothing in it, or with a long name. *)
OfLeftOut(record) ==
  record.SectionNumber > 0 /\ LeftOut(coff.sections[record.SectionNumber])

(* The auxiliary records that are taken for symbols because they lie behind *)
(* one left out ask for no record to be skipped.                            *)
AuxiliariesAskForNone ==
  \A r \in DOMAIN coff.symbols : IsSymbol(r) /\ OfLeftOut(coff.symbols[r]) =>
    \A q \in (r + 1 .. Behind(r) - 1) \intersect DOMAIN coff.symbols :
      coff.symbols[q].NumberOfAuxSymbols = 0

Carried(r) == symbol_infos[r] \notin {None, Skipped}

LeavesOut == {s \in DOMAIN coff.sections : LeftOut(coff.sections[s])}

Targets == {MachineTarget[m] : m \in DOMAIN MachineTarget}

TypeOK ==
  /\ coff \in COFF_File /\ output_opens \in BOOLEAN
  /\ pc \in {"read", "sections", "symbols", "relocations", "write"} \union Terminal
  /\ i \in Nat /\ i > 0 /\ target \in Targets \union {""}
  /\ sections \in Seq(ConvertedSection) /\ string_size \in Nat
  /\ section_infos \in [DOMAIN coff.sections -> 0 .. Len(sections)]
  /\ symbol_infos \in [DOMAIN coff.symbols -> {Skipped} \union 0 .. Len(symbols)]
  /\ DOMAIN relocations = DOMAIN coff.sections
  /\ written # << >> => DOMAIN written = DOMAIN sections

(* Names of more than eight characters are in the file's string table.      *)
LongNames == {r \in DOMAIN coff.symbols : NameSize[coff.symbols[r].Name] > 9}

SizeOfNames(records) ==
  SumFunctionOnSet([r \in DOMAIN coff.symbols |-> NameSize[coff.symbols[r].Name]], records)

(* The strings fit in the buffer that is allocated for them before they are *)
(* counted: the file's own string table, and nine bytes for every record    *)
(* (format.c:287), whatever is left out or taken for a symbol, as long as   *)
(* long names have their bytes of the table for themselves.                 *)
StringsFitUnlessShared ==
  SizeOfNames(LongNames) <= coff.string_table =>
    string_size <= coff.string_table + 9 * Len(coff.symbols)

(* A relocation that gets into memory is bound to the symbol its record     *)
(* names, at the section and offset of the file, although auxiliary records *)
(* and symbols left out have shifted the numbers (format.c:355, 438-449).   *)
(* Only the number of a skipped record would be that of another symbol.     *)
RelocationsKeepTheirSymbols ==
  AuxiliariesAskForNone =>
    \A s \in DOMAIN relocations : \A r \in KeptAt(s) :
      LET relocation == coff.sections[s].relocations[r]
          placed == relocations[s][PlaceOf(s, r)]
          origin == coff.symbols[relocation.SymbolTableIndex]
          symbol == symbols[placed.symbol_index]
      IN  relocations[s] # << >> /\ IsSymbol(relocation.SymbolTableIndex) =>
            /\ placed.symbol_index \in DOMAIN symbols
            /\ symbol.name = origin.Name /\ symbol.offset = origin.Value
            /\ symbol.section_index = IF origin.SectionNumber = 0 THEN None
                                      ELSE section_infos[origin.SectionNumber]
            /\ placed.offset = relocation.VirtualAddress

(* The lists are written by another index than they are stored under        *)
(* (format.c:435, 492), which is the same as long as no section was left    *)
(* out in front: such a section keeps exactly its own relocations.          *)
SectionsInFrontKeepRelocations ==
  pc = "converted" =>
    \A s \in DOMAIN coff.sections :
      (\A t \in LeavesOut : t > s) =>
        written[section_infos[s]] = Renumbered(Kept(s))

(* No symbol of the artifact is an auxiliary record, except the ones right  *)
(* behind a symbol of a section that was left out (format.c:397-400).       *)
AuxiliaryOnlyBehindLeftOut ==
  \A r \in DOMAIN coff.symbols :
    Carried(r) /\ ~ IsSymbol(r) =>
      \E q \in 1 .. r - 1 : IsSymbol(q) /\ OfLeftOut(coff.symbols[q])

(* In the written file the data of each section is aligned, and neither it  *)
(* nor the relocations behind it reach into the tables or a neighbour.      *)
ExtentsSeparate ==
  pc = "converted" =>
    LET place == Places(sections, TablesEnd)
    IN  \A k \in DOMAIN sections :
          /\ place[k].data % sections[k].alignment = 0
          /\ place[k].data >= (IF k = 1 THEN TablesEnd ELSE place[k - 1].next)
          /\ place[k].relocations >= place[k].data + sections[k].data_size
          /\ place[k].relocations % 8 = 0

(* What an object file is usually like: the sections that have contents say *)
(* their alignment, no uninitialized one is larger than the file, nothing   *)
(* is left out in front of relocations, what they name are symbols and not  *)
(* left out, and no symbol is skipped.                                      *)
Ordinary ==
  /\ \A s \in DOMAIN coff.sections \ LeavesOut :
        /\ coff.sections[s].align > 0
        /\ ~ ReadsBeyond(Converted(coff.sections[s]), coff.size)
  /\ \A s \in LeavesOut, t \in DOMAIN coff.sections : t > s => coff.sections[t].relocations = << >>
  /\ \A s \in DOMAIN coff.sections : \A r \in DOMAIN coff.sections[s].relocations :
        LET index == coff.sections[s].relocations[r].SymbolTableIndex
            record == coff.symbols[index]
        IN  IsSymbol(index) /\ record.SectionNumber >= 0 /\ ~ OfLeftOut(record)
  /\ AuxiliariesAskForNone

(* Every whole file of that kind is converted, and neither refused nor the  *)
(* end of the process.                                                      *)
OrdinaryFilesConvert ==
  IsCoff /\ coff.reads = "whole" /\ output_opens /\ Ordinary => pc \notin {"refused", "crashed"}

-------------------------------------------------------------------------------
(* Three claims of the repository that the code does not keep.              *)

(* include/barf/barf.h:57 says the function "Returns false if it wasn't     *)
(* coff".                                                                   *)
ReturnsFalseIfNotCoff == ~ IsCoff => pc # "crashed"

(* format.c:355 says that "aux symbols aren't carried over".                *)
AuxiliariesNotCarriedOver ==
  \A r \in DOMAIN coff.symbols : Carried(r) => IsSymbol(r)

(* docs/ba_format.md:94: "Each section has an array of relocations", its    *)
(* own ones, and conversion loses none of the section's.                    *)
EverySectionItsRelocations ==
  pc = "converted" =>
    \A s \in DOMAIN coff.sections \ LeavesOut :
      written[section_infos[s]] = Renumbered(Kept(s))
===============================================================================
