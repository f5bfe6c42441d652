------------------------------- MODULE Artifact -------------------------------
(***************************************************************************)
(* The Binary Artifact as include/barf/ba_format.h declares it and         *)
(* barf_parse_header_from_file (src/barf/format.c:23-114) hands it to the  *)
(* rest of the program: a target, a section table, a symbol table, and the *)
(* relocations of each section.                                            *)
(*                                                                         *)
(* Tables are sequences, so every index here is the index of the source    *)
(* plus one, and 0 stands for the (u32)-1 that means "no section".  Names, *)
(* offsets and section contents are members of small sets.                 *)
(***************************************************************************)
EXTENDS Integers, Sequences

BARF_SYMBOL_LOCAL    == "local"
BARF_SYMBOL_GLOBAL   == "global"
BARF_SYMBOL_EXTERNAL == "external"
UnknownType          == "unknown"   \* any other value of the u8; nothing rejects it

SymbolType ==
  {BARF_SYMBOL_LOCAL, BARF_SYMBOL_GLOBAL, BARF_SYMBOL_EXTERNAL, UnknownType}

NoSection == 0   \* section_index (u32)-1

BarfSymbol(Name, Offset) ==
  [type : SymbolType, name : Name, section_index : Nat, offset : Offset]

BarfRelocation(Offset) == [symbol_index : Nat, offset : Offset]

BarfSection(Data, Offset) ==
  [data : Data, relocations : Seq(BarfRelocation(Offset))]

(* One input of the program.  "readable" says whether the parser returns an *)
(* object or NULL for it; "string_size" is that field of its header.        *)
BarfObject(Target, Data, Name, Offset) ==
  [ readable : BOOLEAN,
    target   : Target,
    sections : Seq(BarfSection(Data, Offset)),
    symbols  : Seq(BarfSymbol(Name, Offset)),
    string_size : Nat ]

-------------------------------------------------------------------------------
(* Where something is in a list of objects: the b-th object's k-th section, *)
(* the b-th object's k-th symbol, the r-th relocation of that section.      *)
SectionRef(objects) ==
  UNION {{b} \X DOMAIN objects[b].sections : b \in DOMAIN objects}

SymbolRef(objects) ==
  UNION {{b} \X DOMAIN objects[b].symbols : b \in DOMAIN objects}

RelocationRef(objects) ==
  UNION {{ref} \X DOMAIN objects[ref[1]].sections[ref[2]].relocations :
           ref \in SectionRef(objects)}

SectionAt(objects, ref)    == objects[ref[1]].sections[ref[2]]
SymbolAt(objects, ref)     == objects[ref[1]].symbols[ref[2]]
RelocationAt(objects, ref) == SectionAt(objects, ref[1]).relocations[ref[2]]

(* The symbols that other artifacts can see, by name. *)
Visible(symbol) == symbol.type \in {BARF_SYMBOL_GLOBAL, BARF_SYMBOL_EXTERNAL}

(* The symbols that claim a place in a section. *)
Defines(symbol) == symbol.type \in {BARF_SYMBOL_LOCAL, BARF_SYMBOL_GLOBAL}

-------------------------------------------------------------------------------
(* What a relocation is bound to: a place in a section of one of the        *)
(* inputs, a name left to the loader, or nothing at all.                    *)
Place(section, offset) == [to |-> "place", section |-> section, offset |-> offset]
Named(name)            == [to |-> "name", name |-> name]
Nothing                == [to |-> "nothing"]

(* How combining a list of artifacts can end. *)
Pending  == [status |-> "pending"]
Rejected == [status |-> "rejected"]
Aborted  == [status |-> "aborted"]   \* the process died

LinkedAs(data, binding, where) ==
  [status |-> "linked", data |-> data, binding |-> binding, where |-> where]

===============================================================================
