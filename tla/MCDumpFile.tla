------------------------------ MODULE MCDumpFile ------------------------------
(* Artifacts of two sections, two symbols and three relocations: as they    *)
(* are written, with the strings in front of the symbols, cut at every      *)
(* boundary and within an entry, with nothing in them.  Their symbols are   *)
(* of every type, in a section, in none, and in one there is not; their     *)
(* relocations are to any of the symbols, and to one there is not.          *)
EXTENDS DumpFile

At(kind, offset, entries) == [kind |-> kind, offset |-> offset, entries |-> entries]

(* 96 + 2 * 72 = 240, + 2 * 16 = 272, + 10 = 282; data; relocations at 296 and 328. *)
Relocations == {At("relocations", 296, << "r1", "r2" >>), At("relocations", 328, << "r3" >>)}

Written ==
  { At("sections", 96, << ".text", ".data" >>), At("symbols", 240, << "s1", "s2" >>),
    At("strings", 272, << "strings" >>) } \union Relocations

StringsFirst ==
  { At("sections", 96, << ".text", ".data" >>), At("strings", 240, << "strings" >>),
    At("symbols", 250, << "s1", "s2" >>) } \union Relocations

Sound ==
  [ opens |-> TRUE, handle |-> 0, size |-> 340, magic |-> TRUE,
    section_count |-> 2, symbol_count |-> 2, string_size |-> 10, tables |-> Written,
    places |-> [name \in {".text", ".data"} |->
                  IF name = ".text" THEN [offset |-> 296, count |-> 2] ELSE [offset |-> 328, count |-> 1]] ]

MCFiles ==
  { [Sound EXCEPT !.handle = handle, !.size = size, !.tables = where, !.magic = magic] :
      handle \in {0, 1}, size \in {0, 95, 96, 168, 200, 240, 256, 272, 275, 300, 308, 330, 340},
      where \in {Written, StringsFirst}, magic \in BOOLEAN }
  \union { [Sound EXCEPT !.opens = FALSE], [Sound EXCEPT !.section_count = 0],
           [Sound EXCEPT !.string_size = 0, !.symbol_count = 0],
           [Sound EXCEPT !.places[".text"].count = 0] }

-------------------------------------------------------------------------------
SectionNamed(name) == [name |-> name, flags |-> {}]

SectionMeaning ==
  [ entry \in {".text", ".data", Zero, Torn, Misread} |-> SectionNamed(entry) ]

Symbol(name, type, section) == [name |-> name, type |-> type, section_index |-> section]

Symbols(name) ==
  { Symbol(name, type, section) :
      type \in {"local", "global", "external", "unknown"}, section \in {0, 1, 2} }

(* Of zeros is a local symbol of the first section, and a relocation to the *)
(* first symbol.                                                            *)
SymbolMeanings ==
  { [ entry \in {"s1", "s2", Zero, Torn, Misread} |->
        CASE entry = "s1" -> s1 [] entry = "s2" -> s2
          [] entry \in {Zero, Torn} -> Symbol(entry, "local", 1)
          [] entry = Misread -> Symbol(entry, "unknown", 0) ] :
      s1 \in Symbols("s1"),
      s2 \in {Symbol("s2", "global", 2), Symbol("s2", "external", 0), Symbol("s2", "local", 3)} }

RelocationMeanings ==
  { [ entry \in {"r1", "r2", "r3", Zero, Torn, Misread} |->
        CASE entry = "r1" -> r1 [] entry = "r2" -> 2 [] entry = "r3" -> r3
          [] entry \in {Zero, Torn} -> 1 [] entry = Misread -> 9 ] :
      r1 \in {1, 2}, r3 \in {1, 2, 3} }

MCMeanings ==
  { [sections |-> SectionMeaning, symbols |-> symbol, relocations |-> relocation] :
      symbol \in SymbolMeanings, relocation \in RelocationMeanings }
===============================================================================
