---------------------------------- MODULE Elf ----------------------------------
(***************************************************************************)
(* barf_convert_from_elf, src/barf/format.c:522-875: one ELF object file   *)
(* becomes one artifact, in loops like those of module Coff.  What differs *)
(* is where things go wrong: the search for the section a relocation       *)
(* section belongs to, the section of a symbol that is in none, and the    *)
(* size of the strings, which is the sum of the file's string tables.      *)
(*                                                                         *)
(* Sections and symbols count from 1 here: section 1 is the null section,  *)
(* symbol 1 the null symbol.  The handles are the subject of module        *)
(* Session.                                                                *)
(***************************************************************************)
EXTENDS ObjectFile, FiniteSets, Functions

CONSTANTS Stray   (* what a read behind section_infos may find              *)

MachineTarget ==
  [EM_X86_64 |-> "x86_64", EM_386 |-> "x86", EM_ARM |-> "arm", EM_AARCH64 |-> "aarch64"]

SHT_STRTAB   == "STRTAB"
SHT_SYMTAB   == "SYMTAB"
SHT_PROGBITS == "PROGBITS"
SHT_NOBITS   == "NOBITS"
SHT_NOTE     == "NOTE"
RelocationTable == {"RELA", "REL"}

(* "other" are the types the converter does not know, the constructors of   *)
(* SHT_INIT_ARRAY among them, and the null section's.                       *)
SectionType ==
  {SHT_STRTAB, SHT_SYMTAB, SHT_PROGBITS, SHT_NOBITS, SHT_NOTE, "other"} \union RelocationTable

SHF_WRITE     == "SHF_WRITE"
SHF_ALLOC     == "SHF_ALLOC"
SHF_EXECINSTR == "SHF_EXECINSTR"

Elf64_Shdr ==
  [ name_length : Nat, sh_type : SectionType, sh_flags : SUBSET {SHF_WRITE, SHF_ALLOC, SHF_EXECINSTR},
    sh_offset : Nat, sh_size : Nat, sh_addralign : Nat ]

STB_LOCAL  == "STB_LOCAL"
STB_GLOBAL == "STB_GLOBAL"

SHN_UNDEF     == 1
SHN_LORESERVE == 65280 + 1   \* 0xff00
SHN_ABS       == 65521 + 1
SectionNumber == 1 .. 65536   \* 16 bits
Reserved      == SHN_LORESERVE .. 65536

(* A symbol's string has its place in the string table: "length" bytes from *)
(* st_name on, with the zero.                                               *)
Elf64_Sym ==
  [ st_name : Nat, length : Nat \ {0}, bind : {STB_LOCAL, STB_GLOBAL, "STB_WEAK"},
    st_shndx : SectionNumber, st_value : Nat ]

MaxNameLength == 31   \* sizeof(sec->name) - 1

(* e_ident is that of a 64-bit, little-endian file of version 1, or not.    *)
(* The section of a symbol is in the file unless it is a reserved one.      *)
ELF_File ==
  { file \in
      [ reads : {"missing", "short", "cut", "whole"}, elf64 : BOOLEAN,
        e_machine : DOMAIN MachineTarget \union {"other"}, size : Nat,
        sections : Seq(Elf64_Shdr), symbols : Seq(Elf64_Sym) ] :
      \A r \in DOMAIN file.symbols :
        file.symbols[r].st_shndx \in DOMAIN file.sections \union Reserved }

StrayAssumption == Stray \subseteq Nat \ {0}

VARIABLES
  elf,             (* the input, given                                       *)
  output_opens,    (* will fs__open of the output succeed                    *)
  pc, i,           (* the loop being run and its counter                     *)
  target, sections, symbols, string_size,   (* object->...                   *)
  section_infos,   (* section of the file -> section of the artifact or None *)
  estimated        (* estimated_string_table_size                            *)

given  == << elf, output_opens >>
object == << target, sections, symbols, string_size, section_infos, estimated >>
vars   == << given, pc, i, object >>

Init ==
  /\ output_opens \in BOOLEAN
  /\ pc = "read" /\ i = 1
  /\ target = "" /\ sections = << >> /\ symbols = << >> /\ string_size = 0
  /\ section_infos = [s \in DOMAIN elf.sections |-> None]
  /\ estimated = 0

Goto(label) == pc' = label /\ i' = 1

End(how) == Goto(how) /\ UNCHANGED << given, object >>

-------------------------------------------------------------------------------
IsElf == elf.reads \in {"cut", "whole"} /\ elf.elf64

(* As in Coff: a file that cannot be opened ends in fs__close of            *)
(* FS_INVALID_HANDLE.                                                       *)
Read ==
  /\ pc = "read"
  /\ \/ elf.reads = "missing" /\ End("crashed")
     \/ elf.reads # "missing" /\ ~ (IsElf /\ elf.reads = "whole") /\ End("refused")
     \/ /\ IsElf /\ elf.reads = "whole"
        /\ target' = IF elf.e_machine \in DOMAIN MachineTarget
                     THEN MachineTarget[elf.e_machine] ELSE "unknown"
        /\ Goto("sections")
        /\ UNCHANGED << given, sections, symbols, string_size, section_infos, estimated >>

LeftOut(header) ==
  \/ header.name_length > MaxNameLength
  \/ header.sh_size = 0
  \/ header.sh_type \notin {SHT_NOTE, SHT_NOBITS, SHT_PROGBITS}

Flags(header) ==
  IF header.sh_type = SHT_NOTE \/ SHF_ALLOC \notin header.sh_flags THEN {BARF_FLAG_IGNORE}
  ELSE {BARF_FLAG_ZEROED : t \in {header.sh_type} \intersect {SHT_NOBITS}} \union
       {BARF_FLAG_WRITE  : f \in header.sh_flags \intersect {SHF_WRITE}} \union
       {BARF_FLAG_EXEC   : f \in header.sh_flags \intersect {SHF_EXECINSTR}}

(* Slip: the alignment is kept in a byte. *)
AlignmentInByte(header) == header.sh_addralign % 2 ^ 8

(* The alignment has 64 bits in the file and 16 in the artifact. *)
Alignment(header) == header.sh_addralign % 2 ^ 16

Converted(header) ==
  [ flags |-> Flags(header), alignment |-> Alignment(header), data_size |-> header.sh_size,
    data_offset |-> header.sh_offset, relocation_count |-> 0 ]

(* Slip: the count is not yet that of the new section. *)
MapSectionBefore(s) == [section_infos EXCEPT ![s] = Len(sections)]

MapSection(s) == [section_infos EXCEPT ![s] = Len(sections) + 1]

Strings(header) == IF header.sh_type = SHT_STRTAB THEN header.sh_size ELSE 0

(* A table of relocations: its section is looked for by comparing names,    *)
(* but "current->sh_name", an offset, is taken for a string; that of the    *)
(* null section is NULL.  (Where a section were found, found_index would be *)
(* set to -1, the value it has already: rel_index and rela_index stay -1    *)
(* for every section, and the conversion of relocations, lines 772-809, is  *)
(* never reached.)                                                          *)
SearchSection ==
  /\ elf.sections[i].sh_type \in RelocationTable
  /\ End("crashed")

ConvertSection ==
  /\ pc = "sections" /\ i \in DOMAIN elf.sections
  /\ \/ SearchSection
     \/ LET header == elf.sections[i] IN
        /\ header.sh_type \notin RelocationTable
        /\ estimated' = estimated + Strings(header)
        /\ IF LeftOut(header)
           THEN UNCHANGED << sections, section_infos >>
           ELSE sections' = Append(sections, Converted(header)) /\ section_infos' = MapSection(i)
        /\ i' = i + 1
        /\ UNCHANGED << given, pc, target, symbols, string_size >>

HasSymbolTable == \E s \in DOMAIN elf.sections : elf.sections[s].sh_type = SHT_SYMTAB

(* Without a symbol table the pointer to it is NULL. *)
FindSymbols ==
  /\ pc = "sections" /\ i > Len(elf.sections)
  /\ \/ HasSymbolTable /\ Goto("symbols") /\ UNCHANGED << given, object >>
     \/ ~ HasSymbolTable /\ End("crashed")

-------------------------------------------------------------------------------
Symbol == elf.symbols[i]

(* Neither undefined nor weak symbols have a type of their own: an          *)
(* undefined one is global, a weak one has the 0 of memset, local.          *)
Type(symbol) == IF symbol.bind = STB_GLOBAL THEN "global" ELSE "local"

StringSize(symbol) == symbol.length

AddSymbol(section_index) ==
  /\ symbols' = Append(symbols,
       [ type |-> Type(Symbol), name |-> Symbol.st_name, offset |-> Symbol.st_value,
         section_index |-> section_index ])
  /\ string_size' = string_size + StringSize(Symbol)
  /\ i' = i + 1
  /\ UNCHANGED << given, pc, target, sections, section_infos, estimated >>

(* section_infos[st_shndx] is far outside for a reserved index: no memory,  *)
(* or what happens to be there.                                             *)
ConvertSymbol ==
  /\ pc = "symbols" /\ i \in DOMAIN elf.symbols
  /\ \/ Symbol.st_shndx \notin Reserved /\ AddSymbol(section_infos[Symbol.st_shndx])
     \/ Symbol.st_shndx \in Reserved /\ \E stray \in Stray : AddSymbol(stray)
     \/ Symbol.st_shndx \in Reserved /\ End("crashed")

(* The loop over the sections' relocations finds none. *)
ConvertRelocations ==
  /\ pc = "symbols" /\ i > Len(elf.symbols)
  /\ Goto("write")
  /\ UNCHANGED << given, object >>

Write ==
  /\ pc = "write"
  /\ \/ /\ output_opens /\ \A k \in DOMAIN sections : sections[k].alignment > 0
        /\ End("converted")
     \/ ~ output_opens /\ End("crashed")
     \/ /\ \E k \in DOMAIN sections :
              sections[k].alignment = 0 \/ ReadsBeyond(sections[k], elf.size)
        /\ End("crashed")

Next ==
  \/ Read
  \/ ConvertSection
  \/ FindSymbols
  \/ ConvertSymbol
  \/ ConvertRelocations
  \/ Write

Spec == Init /\ [][Next]_vars
-------------------------------------------------------------------------------
Targets == {MachineTarget[m] : m \in DOMAIN MachineTarget}

TypeOK ==
  /\ elf \in ELF_File /\ output_opens \in BOOLEAN
  /\ pc \in {"read", "sections", "symbols", "write"} \union Terminal
  /\ i \in Nat /\ i > 0 /\ string_size \in Nat /\ estimated \in Nat
  /\ target \in Targets \union {"", "unknown"}
  /\ sections \in Seq(ConvertedSection)
  /\ section_infos \in [DOMAIN elf.sections -> 0 .. Len(sections)]
  /\ \A k \in DOMAIN symbols : symbols[k].section_index \in 0 .. Len(sections) \union Stray

SizeOf(numbers) ==
  SumFunctionOnSet([s \in DOMAIN elf.sections |-> elf.sections[s].sh_size], numbers)

Tables == {s \in DOMAIN elf.sections : elf.sections[s].sh_type = SHT_STRTAB}

Unnamed(symbol) == symbol.st_name = 0

(* No two names share a byte of the string table, as they do when the       *)
(* linker or assembler lets one be the end of another.                      *)
NamesApart ==
  \A r, q \in DOMAIN elf.symbols :
    ~ Unnamed(elf.symbols[r]) /\ elf.symbols[r].st_name < elf.symbols[q].st_name =>
      elf.symbols[r].st_name + elf.symbols[r].length <= elf.symbols[q].st_name

NamesOnce ==
  \A r, q \in DOMAIN elf.symbols :
    elf.symbols[r].st_name = elf.symbols[q].st_name => r = q \/ Unnamed(elf.symbols[r])

(* Every symbol's string is copied, while the block for them is as large as *)
(* the file's string tables together (format.c:636, 709, 748).  It is large *)
(* enough as long as names have their bytes for themselves and the symbols  *)
(* without a name, which share one byte there and get one each, are not     *)
(* more than the table of the sections' names has bytes.                    *)
StringsFitUnlessShared ==
  /\ NamesApart /\ NamesOnce
  /\ \E table \in Tables :
       /\ \A r \in DOMAIN elf.symbols :
            /\ elf.symbols[r].st_name + elf.symbols[r].length <= elf.sections[table].sh_size
            /\ Unnamed(elf.symbols[r]) => elf.symbols[r].length = 1
       /\ Cardinality({r \in DOMAIN elf.symbols : Unnamed(elf.symbols[r])})
            <= 1 + SizeOf(Tables \ {table})
  => (pc \in {"symbols", "write"} => string_size <= estimated)

(* A symbol of a section that is in the artifact is at home there, however  *)
(* many sections were left out in front: its section has that section's     *)
(* size and place in the file.                                              *)
SymbolsKeepTheirSections ==
  \A r \in DOMAIN symbols :
    LET shndx == elf.symbols[r].st_shndx IN
    shndx \notin Reserved /\ ~ LeftOut(elf.sections[shndx]) =>
      /\ symbols[r].section_index \in DOMAIN sections
      /\ LET section == sections[symbols[r].section_index] IN
         /\ section.data_size = elf.sections[shndx].sh_size
         /\ section.data_offset = elf.sections[shndx].sh_offset

(* What is going to be mapped are the bytes of the file's allocated         *)
(* sections, notes excepted: each of them is a section of its own, of its   *)
(* size, from its place in the file, and nothing else is to be mapped.      *)
MappedIsAllocated ==
  LET allocated ==
        { s \in DOMAIN elf.sections :
            /\ elf.sections[s].sh_type \in {SHT_PROGBITS, SHT_NOBITS}
            /\ SHF_ALLOC \in elf.sections[s].sh_flags
            /\ elf.sections[s].sh_size > 0 /\ elf.sections[s].name_length <= MaxNameLength }
      mapped == {k \in DOMAIN sections : BARF_FLAG_IGNORE \notin sections[k].flags}
  IN  pc \in {"symbols", "write", "converted"} =>
        /\ {section_infos[s] : s \in allocated} = mapped
        /\ \A s, t \in allocated : section_infos[s] = section_infos[t] => s = t
        /\ \A s \in allocated :
             /\ sections[section_infos[s]].data_size = elf.sections[s].sh_size
             /\ sections[section_infos[s]].data_offset = elf.sections[s].sh_offset

(* What a file has to be like to be converted: one with symbols, without    *)
(* relocations and without symbols of reserved sections, its sections       *)
(* aligned by 1 to 2^15 and, uninitialized or not, within its length.       *)
Convertible ==
  /\ HasSymbolTable
  /\ \A s \in DOMAIN elf.sections :
       /\ elf.sections[s].sh_type \notin RelocationTable
       /\ ~ LeftOut(elf.sections[s]) =>
            /\ elf.sections[s].sh_addralign \in 1 .. 2 ^ 15
            /\ ~ ReadsBeyond(Converted(elf.sections[s]), elf.size)
  /\ \A r \in DOMAIN elf.symbols : elf.symbols[r].st_shndx \notin Reserved

(* Such a file is converted, and no step on the way ends otherwise.         *)
ConvertibleFilesConvert ==
  IsElf /\ elf.reads = "whole" /\ output_opens /\ Convertible => pc \notin {"refused", "crashed"}

-------------------------------------------------------------------------------
(* Two claims of the repository that the code does not keep.                *)

(* README.md:22-25 compiles a program that calls log__printf with "gcc -c   *)
(* main.c" and converts it: files with relocations, or with the symbol of   *)
(* the source file that gcc writes, convert.                                *)
CompiledFilesConvert ==
  /\ IsElf /\ elf.reads = "whole" /\ output_opens /\ HasSymbolTable
  /\ \A s \in DOMAIN elf.sections : ~ LeftOut(elf.sections[s]) =>
       /\ elf.sections[s].sh_addralign \in 1 .. 2 ^ 15
       /\ ~ ReadsBeyond(Converted(elf.sections[s]), elf.size)
  => pc # "crashed"

(* docs/ba_format.md:79: "If symbol is external then it cannot be located   *)
(* in this artifact"; a symbol the file does not define is external.        *)
UndefinedIsExternal ==
  \A r \in DOMAIN symbols :
    r > 1 /\ elf.symbols[r].st_shndx = SHN_UNDEF => symbols[r].type = "external"
===============================================================================
