------------------------------- MODULE MCCombine -------------------------------
(***************************************************************************)
(* Instances of Combine.  An object of the pools has two sections, the     *)
(* first with one relocation to each of its symbols, so that what a symbol *)
(* became is seen through a relocation.                                    *)
(***************************************************************************)
EXTENDS Combine, SequencesExt

CONSTANTS a, b, x64, arm

MCTarget == {x64, arm}
MCName   == {a, b}
MCData   == {"text", "data"}
MCOffset == 0 .. 2

(* The strings differ in length, so that one counted twice cannot hide      *)
(* behind one left out.                                                     *)
MCNameSize == a :> 2 @@ b :> 3

Symbol(type, name, k, offset) ==
  [type |-> type, name |-> name, section_index |-> k, offset |-> offset]

(* The symbols of an object: local or global in either section, external,   *)
(* of a type this version does not know, and a local of a section that the  *)
(* conversion left out.                                                     *)
Placements == {BARF_SYMBOL_LOCAL, BARF_SYMBOL_GLOBAL} \X {1, 2}
                \union {<<BARF_SYMBOL_EXTERNAL, NoSection>>}

SoundSymbols(offset) == {Symbol(p[1], name, p[2], offset) : p \in Placements, name \in MCName}

AnySymbols(offset) ==
  SoundSymbols(offset)
    \union {Symbol(UnknownType, a, 1, offset), Symbol(BARF_SYMBOL_LOCAL, a, NoSection, offset)}

Tables(most) ==
  {<< >>} \union {<<s>> : s \in AnySymbols(1)}
    \union (IF most < 2 THEN {}
            ELSE {<<s, t>> : s \in AnySymbols(1), t \in SoundSymbols(2)})

RelocationsTo(n) == [i \in 1 .. n |-> [symbol_index |-> i, offset |-> i]]

(* The converters write one string for each symbol (format.c:408-409,       *)
(* 748-749), and so does Combine.                                           *)
StringSize(table) == FoldLeft(LAMBDA size, s : size + MCNameSize[s.name], 0, table)

Object(target, table) ==
  [ readable |-> TRUE, target |-> target, symbols |-> table,
    string_size |-> StringSize(table),
    sections |-> << [data |-> "text", relocations |-> RelocationsTo(Len(table))],
                    [data |-> "data", relocations |-> << >>] >> ]

Unreadable ==
  [ readable |-> FALSE, target |-> x64, symbols |-> << >>, string_size |-> 0,
    sections |-> << >> ]

(* A relocation that names no symbol: the converted COFF relocation to a    *)
(* symbol of a section left out (format.c:441-450).                         *)
Dangling ==
  [Object(x64, << >>) EXCEPT !.sections[1].relocations =
     << [symbol_index |-> 0, offset |-> 0] >>]

Objects(most) == {Object(x64, table) : table \in Tables(most)}

(* Two inputs of up to two symbols each. *)
MCPairs == [1 .. 2 -> Objects(2)]

(* One to three inputs of up to one symbol each, any of them unreadable, of *)
(* another target, or with a relocation to nothing; and no input at all.    *)
MCSmall == Objects(1) \union {Unreadable, Object(arm, << >>), Dangling}
MCMany  == UNION {[1 .. n -> MCSmall] : n \in 0 .. 3}

MCInputs == MCPairs \union MCMany
===============================================================================
