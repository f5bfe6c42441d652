------------------------------- MODULE MCLoader -------------------------------
(* Small artifacts for Loader: a code section, a second section of every    *)
(* kind, and three symbols of which the second and third vary.              *)
EXTENDS Loader

MCName ==
  {"ba_entry", "f", "fs__open", "log__printf", ".refptr.f", ".refptr.fs__open"}
MCOffset        == {0, 8}
MCExternalNames == << "fs__open", "log__printf" >>
MCRefptrTarget  == 
  [name \in MCName |-> CASE name = ".refptr.f" -> "f"
                         [] name = ".refptr.fs__open" -> "fs__open"
                         [] OTHER -> "none"]

(* Room for the jump table, of 24 bytes, and two segments of 16, 62 bytes   *)
(* between the first and the last: a backward jump over them passes the     *)
(* check of the distance (below 63) and needs -66, which a word of 7 bits   *)
(* cannot hold; from 8 bytes further the check refuses it.                  *)
MCBases == {8, 32, 70}

Rel(i, offset) == [type |-> BARF_RELOC_REL32, symbol_index |-> i, offset |-> offset]

(* No relocation, one of each symbol (4 is none), two, at one site or two,  *)
(* and a type the loader does not know.                                     *)
CodeRelocations ==
  { << >>, << Rel(2, 0) >>, << Rel(4, 0) >>,
    << Rel(2, 0), Rel(3, 8) >>, << Rel(2, 8), Rel(1, 8) >>,
    << [Rel(2, 0) EXCEPT !.type = OtherRelocation] >> }

(* -4 in every word of the code, as an assembler leaves it.                 *)
Code ==
  { [flags |-> {BARF_FLAG_EXEC}, data_size |-> 16, content |-> 124, relocations |-> relocations] :
      relocations \in CodeRelocations }
  \union
  { [flags |-> {BARF_FLAG_EXEC, BARF_FLAG_WRITE}, data_size |-> 16, content |-> 0,
     relocations |-> << Rel(2, 0) >>] }

Other ==
  { [flags |-> flags, data_size |-> 16, content |-> 0, relocations |-> relocations] :
      flags \in {{}, {BARF_FLAG_WRITE}, {BARF_FLAG_ZEROED, BARF_FLAG_WRITE},
                 {BARF_FLAG_IGNORE}, {BARF_FLAG_IGNORE, BARF_FLAG_WRITE}},
      relocations \in {<< >>, << Rel(1, 0) >>} }
  \union
  { [flags |-> {}, data_size |-> 0, content |-> 0, relocations |-> << >>] }

Sym(type, name, section, offset) ==
  [type |-> type, name |-> name, section_index |-> section, offset |-> offset]

Entry == { Sym(BARF_SYMBOL_GLOBAL, "ba_entry", 1, 0), Sym(BARF_SYMBOL_GLOBAL, "ba_entry", 2, 8),
           Sym(BARF_SYMBOL_LOCAL, "ba_entry", 1, 0) }

(* "f" defined, undefined as COFF and as ELF inputs have it, or misplaced;  *)
(* or external and yet in a section.                                        *)
Second == { Sym(BARF_SYMBOL_GLOBAL, "f", 2, 0), Sym(BARF_SYMBOL_GLOBAL, "f", 1, 8),
            Sym(BARF_SYMBOL_EXTERNAL, "f", NoSection, 0),
            Sym(BARF_SYMBOL_EXTERNAL, "f", 2, 0),
            Sym(BARF_SYMBOL_GLOBAL, "f", NoSection, 0),
            Sym(BARF_SYMBOL_LOCAL, "f", 3, 0),
            Sym(BARF_SYMBOL_EXTERNAL, "log__printf", NoSection, 0) }

Third == { Sym(BARF_SYMBOL_LOCAL, ".refptr.f", 2, 8), Sym(BARF_SYMBOL_LOCAL, ".refptr.f", 1, 0),
           Sym(BARF_SYMBOL_GLOBAL, ".refptr.fs__open", 2, 0),
           Sym(BARF_SYMBOL_EXTERNAL, "fs__open", NoSection, 0) }

MCArtifactSet ==
  { [readable |-> TRUE, sections |-> << code, other >>, symbols |-> << entry, second, third >>] :
      code \in Code, other \in Other, entry \in Entry, second \in Second, third \in Third }
  \union {[readable |-> FALSE, sections |-> << >>, symbols |-> << >>]}
===============================================================================
