----------------------------- MODULE MCConverters -----------------------------
(* COFF files of up to three sections, of which any may be empty, and a     *)
(* symbol table of section symbols with an auxiliary record each, as gas    *)
(* writes it, a function and an undefined symbol.  ELF files of a null      *)
(* section, three sections that may be empty, long, unaligned or of types   *)
(* that are left out, and the tables; symbols as gas writes them: null, the *)
(* source file, a section, functions.                                       *)
EXTENDS Converters

MCNameSize == [sec |-> 6, main |-> 5, puts |-> 5, long |-> 14, file |-> 6, raw |-> 2]

Rel(index, type) == [SymbolTableIndex |-> index, VirtualAddress |-> 4 * index, Type |-> type]

Lists == { << >>, << Rel(6, "REL32") >>, << Rel(1, "ADDR32NB"), Rel(5, "REL32"), Rel(6, "REL32") >> }

Section(size, flags, align, list) ==
  [ name_length |-> 5, SizeOfRawData |-> size, PointerToRawData |-> 200,
    Characteristics |-> flags, align |-> align, relocations |-> list ]

First == {Section(size, {"MEM_EXECUTE"}, 5, list) : size \in {0, 32}, list \in Lists}
Second == { Section(0, {"MEM_WRITE"}, 5, << >>), Section(12, {"MEM_WRITE"}, 3, << >>),
            Section(400, {"MEM_WRITE", "CNT_UNINITIALIZED_DATA"}, 3, << >>),
            Section(12, {}, 0, << >>), Section(12, {}, 3, << Rel(3, "ADDR32NB") >>),
            [Section(12, {}, 1, << >>) EXCEPT !.name_length = 32] }
Third == { Section(20, {"MEM_EXECUTE"}, 6, list) : list \in Lists \union {<< Rel(2, "REL32") >>} }
           \union { Section(9, {"LNK_INFO"}, 1, << >>) }

Symbol(name, value, section, class, aux) ==
  [ Name |-> name, Value |-> value, SectionNumber |-> section,
    StorageClass |-> class, NumberOfAuxSymbols |-> aux ]

(* An auxiliary record of a section: its length is where a symbol has its   *)
(* name, and everything that says otherwise is zero.                        *)
Aux == Symbol("raw", 0, 0, "NULL", 0)

AuxAskingForOne == [Aux EXCEPT !.NumberOfAuxSymbols = 1]

Tables ==
  { << Symbol("sec", 0, 1, "STATIC", 1), Aux, Symbol("sec", 0, 2, "STATIC", 1), Aux,
       Symbol("main", 4, main, "EXTERNAL", 0), puts >> :
      main \in {1, 3}, puts \in { Symbol("puts", 0, 0, "EXTERNAL", 0), Symbol("long", 8, 3, "STATIC", 0),
                                  Symbol("sec", 0, 2, "STATIC", 0) } }
  \union
  { << Symbol("file", 0, -2, "FILE", 1), Aux, Symbol("sec", 0, 1, "STATIC", 1), Aux,
       Symbol("main", 4, 1, "EXTERNAL", 0), Symbol("puts", 0, 0, "EXTERNAL", 0) >>,
    << Symbol("sec", 0, 3, "STATIC", 1), Aux, Symbol("sec", 0, 2, "STATIC", 1), AuxAskingForOne,
       Symbol("main", 4, 3, "EXTERNAL", 0), Symbol("puts", 0, 0, "EXTERNAL", 0) >> }

MCWhole ==
  { [ reads |-> "whole", Machine |-> "AMD64", SizeOfOptionalHeader |-> 0, size |-> 500,
      string_table |-> 18, sections |-> << first, second, third >>, symbols |-> table ] :
      first \in First, second \in Second, third \in Third, table \in Tables }

Any == CHOOSE file \in MCWhole : TRUE

MCCoffFiles ==
  MCWhole
  \union {[Any EXCEPT !.reads = reads] : reads \in {"missing", "short", "cut"}}
  \union {[Any EXCEPT !.Machine = machine] : machine \in {"ARM64", OtherMachine}}
  \union {[Any EXCEPT !.SizeOfOptionalHeader = 240], [Any EXCEPT !.sections = << >>, !.symbols = << >>]}

-------------------------------------------------------------------------------
MCStray == {7}

Header(type, flags, size, align) ==
  [ name_length |-> 5, sh_type |-> type, sh_flags |-> flags, sh_offset |-> 64,
    sh_size |-> size, sh_addralign |-> align ]

NullHeader == Header("other", {}, 0, 0)
Text == {E!SHF_ALLOC, E!SHF_EXECINSTR}
Data == {E!SHF_ALLOC, E!SHF_WRITE}

ElfFirst  == {Header("PROGBITS", Text, size, 1) : size \in {0, 21}}
ElfSecond == { Header("PROGBITS", Data, 0, 4), Header("NOBITS", Data, 8, 256), Header("NOBITS", Data, 900, 4),
            Header("other", Data, 8, 8), [Header("PROGBITS", Data, 8, 8) EXCEPT !.name_length = 32],
            Header("PROGBITS", Data, 8, 0), Header("PROGBITS", Data, 8, 2 ^ 16) }
ElfThird  == { Header("PROGBITS", {E!SHF_ALLOC}, 13, 8), Header("NOTE", {E!SHF_ALLOC}, 32, 8),
            Header("PROGBITS", {}, 18, 1), Header("RELA", {}, 24, 8), Header("REL", {}, 16, 8) }

LastOf(strings) ==
  { << Header("SYMTAB", {}, 120, 8), Header("STRTAB", {}, strings, 1), Header("STRTAB", {}, 2, 1) >>,
    << Header("STRTAB", {}, strings, 1), Header("STRTAB", {}, 2, 1) >> }

Symbol0 == [st_name |-> 0, length |-> 1, bind |-> E!STB_LOCAL, st_shndx |-> E!SHN_UNDEF, st_value |-> 0]

SymbolNamed(name, length, bind, section) ==
  [st_name |-> name, length |-> length, bind |-> bind, st_shndx |-> section, st_value |-> name]

(* "main" at 1, "puts" at 6; in the second table "in", the end of "main".   *)
SymbolLists ==
  { << Symbol0, second, SymbolNamed(1, 5, bind, 4), third >> :
      second \in {[Symbol0 EXCEPT !.st_shndx = 2], SymbolNamed(11, 4, E!STB_LOCAL, E!SHN_ABS)},
      bind \in {E!STB_GLOBAL, "STB_WEAK"},
      third \in {SymbolNamed(6, 5, E!STB_GLOBAL, E!SHN_UNDEF), SymbolNamed(3, 3, E!STB_GLOBAL, 3)} }
  \union { << Symbol0, SymbolNamed(1, 5, E!STB_GLOBAL, 4), SymbolNamed(3, 3, E!STB_LOCAL, 2), SymbolNamed(1, 5, E!STB_GLOBAL, 2) >>,
           << Symbol0, [Symbol0 EXCEPT !.st_shndx = 2], [Symbol0 EXCEPT !.st_shndx = 4], SymbolNamed(1, 14, E!STB_GLOBAL, 4) >> }

MCElfWhole ==
  { [ reads |-> "whole", elf64 |-> TRUE, e_machine |-> "EM_X86_64", size |-> 600,
      sections |-> << NullHeader, first, second, third >> \o last, symbols |-> list ] :
      first \in ElfFirst, second \in ElfSecond, third \in ElfThird, last \in LastOf(15), list \in SymbolLists }

AnyElf == CHOOSE file \in MCElfWhole : TRUE

MCElfFiles ==
  MCElfWhole
  \union {[AnyElf EXCEPT !.reads = reads] : reads \in {"missing", "short", "cut"}}
  \union {[AnyElf EXCEPT !.elf64 = FALSE], [AnyElf EXCEPT !.e_machine = "other"]}

(* A COFF file is never an ELF file.  An ELF file that is missing was there *)
(* a moment before.                                                         *)
MCViews ==
  LET no_elf == [AnyElf EXCEPT !.elf64 = FALSE]
      no_coff == [Any EXCEPT !.Machine = OtherMachine]
  IN  {[coff |-> file, elf |-> no_elf] : file \in MCCoffFiles}
      \union {[coff |-> no_coff, elf |-> file] : file \in MCElfFiles}
===============================================================================
