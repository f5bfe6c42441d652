----------------------------- MODULE MCLinkAndLoad -----------------------------
(* Two inputs of a code section and perhaps a data section, with a jump to  *)
(* each of their two symbols; one of them has ba_entry, or both.            *)
EXTENDS LinkAndLoad, SequencesExt

MCName   == {"ba_entry", "f", "fs__open", "log__printf", ".refptr.f", ".refptr.fs__open"}
MCOffset == {0, 8}
MCNameSize == [name \in MCName |-> 1]
MCExternalNames == << "log__printf", "fs__open" >>
MCRefptrTarget ==
  [name \in MCName |-> CASE name = ".refptr.f" -> "f"
                         [] name = ".refptr.fs__open" -> "fs__open"
                         [] OTHER -> "none"]

(* The jump table of 24 bytes, and four segments of 16.                     *)
MCBases == {8, 32, 48, 64, 80}

CodeData  == [flags |-> {"exec"}, data_size |-> 16, content |-> 252]
OtherData == [flags |-> {"write"}, data_size |-> 16, content |-> 0]
MCData == {CodeData, OtherData}

Sym(type, name, section, offset) ==
  [type |-> type, name |-> name, section_index |-> section, offset |-> offset]

First ==
  { Sym("global", "ba_entry", 1, 0), Sym("local", "f", 1, 0), Sym("external", "f", 0, 0) }
Second ==
  { Sym("global", "f", 1, 8), Sym("global", "f", 2, 0), Sym("external", "f", 0, 0),
    Sym("external", "fs__open", 0, 0), Sym("global", "fs__open", 1, 8),
    Sym("local", ".refptr.f", 2, 0), Sym("global", ".refptr.fs__open", 2, 0) }

Rel(i, offset) == [symbol_index |-> i, offset |-> offset]

Object(first, second) ==
  [ readable |-> TRUE, target |-> "x64", symbols |-> << first, second >>, string_size |-> 2,
    sections |->
      << [data |-> CodeData, relocations |-> << Rel(1, 0), Rel(2, 8) >>] >> \o
      IF 2 \in {first.section_index, second.section_index}
      THEN << [data |-> OtherData, relocations |-> << >>] >> ELSE << >> ]

Objects == {Object(first, second) : first \in First, second \in Second}

HasEntry(object) == object.symbols[1].name = "ba_entry"

MCInputSet == {pair \in [1 .. 2 -> Objects] : \E n \in 1 .. 2 : HasEntry(pair[n])}
===============================================================================
