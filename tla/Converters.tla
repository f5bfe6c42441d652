------------------------------ MODULE Converters ------------------------------
(***************************************************************************)
(* What becomes of an input that may be an object file, src/barf/format.c: *)
(* 926-934: it is given to barf_convert_from_coff, and if that one refuses *)
(* it to barf_convert_from_elf.  Both write to the same path.              *)
(*                                                                         *)
(* This module extends Coff; the variables of Elf have the prefix "elf_".  *)
(***************************************************************************)
EXTENDS Coff

CONSTANTS
  Stray,
  Views    (* the inputs: what each of the two converters takes one for     *)

VARIABLES
  elf,     (* the input, as the second converter sees it                    *)
  elf_pc, elf_i, elf_target, elf_sections, elf_symbols, elf_string_size,
  elf_section_infos, estimated

E == INSTANCE Elf WITH
       pc <- elf_pc, i <- elf_i, target <- elf_target, sections <- elf_sections,
       symbols <- elf_symbols, string_size <- elf_string_size,
       section_infos <- elf_section_infos

elf_vars == << elf, elf_pc, elf_i, elf_target, elf_sections, elf_symbols, elf_string_size,
               elf_section_infos, estimated >>

ASSUME ViewsAssumption == Views \subseteq [coff : COFF_File, elf : E!ELF_File]
ASSUME StrayAssumption == E!StrayAssumption

ConvertersInit ==
  /\ \E view \in Views : coff = view.coff /\ elf = view.elf
  /\ Init /\ E!Init

ConvertFromCoff == Next /\ UNCHANGED elf_vars

ConvertFromElf == pc = "refused" /\ E!Next /\ UNCHANGED << pc, i, coff, object, written >>

ConvertersNext == ConvertFromCoff \/ ConvertFromElf

ConvertersSpec == ConvertersInit /\ [][ConvertersNext]_<< vars, elf_vars >>

-------------------------------------------------------------------------------
(* What is carried over of a COFF file refers to what it did: a relocation  *)
(* to its symbol and a section to its relocations, although sections and    *)
(* symbols are left out and renumbered, and auxiliary records are taken for *)
(* symbols only behind a symbol that was left out (format.c:397-441).       *)
ReferencesSurvive ==
  /\ RelocationsKeepTheirSymbols
  /\ SectionsInFrontKeepRelocations
  /\ AuxiliaryOnlyBehindLeftOut

(* Symbols of an ELF file stay in their sections although others are left   *)
(* out, and what will be mapped is what the file wants mapped               *)
(* (format.c:594-633, 743).                                                 *)
SectionsSurvive == E!SymbolsKeepTheirSections /\ E!MappedIsAllocated

(* Whatever was left out, tables, data and strings of the artifact have     *)
(* room in what was allocated for them and share no byte of the file; the   *)
(* strings of symbols only as long as their names share none                *)
(* (format.c:476-516, 636, 748).                                            *)
WhatIsWrittenFits ==
  /\ TypeOK /\ StringsFitUnlessShared /\ ExtentsSeparate
  /\ E!TypeOK /\ E!StringsFitUnlessShared

(* The object files that need nothing the converters lack are converted; an *)
(* ELF file as long as the first converter does not take it for its own     *)
(* (format.c:926-934).  That the names they share have room, too, is not    *)
(* said here: see WhatIsWrittenFits.                                        *)
ConvertibleFilesConvert ==
  /\ OrdinaryFilesConvert
  /\ pc = "refused" => E!ConvertibleFilesConvert

(* Two claims of Elf that the code does not keep: README.md:22-25 compiles  *)
(* with "gcc -c main.c" and converts what comes out; docs/ba_format.md:79   *)
(* knows externals.                                                         *)
CompiledFilesConvert == pc = "refused" => E!CompiledFilesConvert
UndefinedIsExternal == pc = "refused" => E!UndefinedIsExternal
===============================================================================
