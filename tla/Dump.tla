---------------------------------- MODULE Dump ----------------------------------
(***************************************************************************)
(* barf_dump, src/barf/format.c:131-208: an object as it was parsed is     *)
(* printed, its sections with their relocations and then its symbols.  Two *)
(* places look up the section of a symbol, and only one asks whether there *)
(* is such a section.                                                      *)
(*                                                                         *)
(* A line of the output is the record of what it says; layout and the      *)
(* numbers that are only passed on are left out.                           *)
(***************************************************************************)
EXTENDS Artifact, FiniteSets

VARIABLES
  object,    (* its sections, their relocations, and symbols                *)
  i, ri,     (* the section or symbol, and the relocation, printed next     *)
  lines,     (* what was printed                                            *)
  pc

vars == << object, i, ri, lines, pc >>

(* A section is its name, its flags and its relocations.                    *)
SectionLine(section) == [says |-> "section", of |-> section.name, flags |-> section.flags]

(* What a line says of a symbol's section: its name, or one of these.       *)
BadIndex == "bad index"
NotSaid  == "not said"

RelocationLine(symbol, section) == [says |-> "relocation", of |-> symbol.name, section |-> section]

SymbolLine(symbol, section) ==
  [says |-> "symbol", of |-> symbol.name, type |-> symbol.type, section |-> section]

Init == i = 1 /\ ri = 1 /\ lines = << >> /\ pc = "sections"

-------------------------------------------------------------------------------
log(line) == lines' = Append(lines, line)

Undefined == pc' = "undefined" /\ UNCHANGED << object, i, ri, lines >>

HasSection(symbol) == symbol.section_index \in DOMAIN object.sections

PrintSection ==
  /\ pc = "sections" /\ i <= Len(object.sections)
  /\ log(SectionLine(object.sections[i]))
  /\ pc' = "relocations"
  /\ UNCHANGED << object, i, ri >>

Relocations == object.sections[i].relocations

(* For a relocation only a global's section is printed.                     *)
SectionPrinted(symbol) ==
  IF symbol.type # BARF_SYMBOL_GLOBAL THEN NotSaid
  ELSE IF HasSection(symbol) THEN object.sections[symbol.section_index].name ELSE BadIndex

PrintRelocation ==
  /\ pc = "relocations" /\ ri <= Len(Relocations)
  /\ LET index == Relocations[ri].symbol_index IN
     \/ index \notin DOMAIN object.symbols /\ Undefined
     \/ /\ index \in DOMAIN object.symbols
        /\ LET symbol == object.symbols[index] IN log(RelocationLine(symbol, SectionPrinted(symbol)))
        /\ ri' = ri + 1
        /\ UNCHANGED << object, i, pc >>

(* Slip: the counter of the relocations is not set back. *)
FirstRelocationKept == ri

FirstRelocation == 1

EndSection ==
  /\ pc = "relocations" /\ ri > Len(Relocations)
  /\ i' = i + 1 /\ ri' = FirstRelocation /\ pc' = "sections"
  /\ UNCHANGED << object, lines >>

EndSections ==
  /\ pc = "sections" /\ i > Len(object.sections)
  /\ i' = 1 /\ pc' = "symbols"
  /\ UNCHANGED << object, ri, lines >>

InSection(symbol) == symbol.type # BARF_SYMBOL_EXTERNAL

PrintSymbol ==
  /\ pc = "symbols" /\ i <= Len(object.symbols)
  /\ LET symbol == object.symbols[i] IN
     \/ InSection(symbol) /\ ~ HasSection(symbol) /\ Undefined
     \/ /\ InSection(symbol) => HasSection(symbol)
        /\ log(SymbolLine(symbol,
             IF InSection(symbol) THEN object.sections[symbol.section_index].name ELSE NotSaid))
        /\ i' = i + 1
        /\ UNCHANGED << object, ri, pc >>

AllSymbols == i > Len(object.symbols)

EndSymbols ==
  /\ pc = "symbols" /\ AllSymbols
  /\ pc' = "done"
  /\ UNCHANGED << object, i, ri, lines >>

Next ==
  \/ PrintSection \/ PrintRelocation \/ EndSection \/ EndSections
  \/ PrintSymbol \/ EndSymbols

Spec == Init /\ [][Next]_vars
-------------------------------------------------------------------------------
TypeOK ==
  /\ pc \in {"sections", "relocations", "symbols", "done", "undefined"}
  /\ i \in 1 .. Len(object.sections) + Len(object.symbols) + 1
  /\ pc \in {"sections", "symbols", "done"} => ri = 1

(* Where a line belongs: a section has one and one for each relocation, and *)
(* the symbols are behind all sections.                                     *)
LinesUpto(s) ==
  Cardinality(UNION {{k} \X (0 .. Len(object.sections[k].relocations)) : k \in 1 .. s})

LineOfSection(s)       == LinesUpto(s - 1) + 1
LineOfRelocation(s, r) == LineOfSection(s) + r
LineOfSymbol(n)        == LinesUpto(Len(object.sections)) + n

Shows(n, what, of) == lines[n].says = what /\ lines[n].of = of

(* All that is in the object is printed, each section with its own          *)
(* relocations behind it: nothing is left out and nothing printed twice.    *)
DumpIsComplete ==
  pc = "done" =>
    /\ Len(lines) = LineOfSymbol(Len(object.symbols))
    /\ \A s \in DOMAIN object.sections :
         /\ Shows(LineOfSection(s), "section", object.sections[s].name)
         /\ \A r \in DOMAIN object.sections[s].relocations :
              Shows(LineOfRelocation(s, r), "relocation",
                    object.symbols[object.sections[s].relocations[r].symbol_index].name)
    /\ \A n \in DOMAIN object.symbols :
         Shows(LineOfSymbol(n), "symbol", object.symbols[n].name)

(* What a line about a relocation says of a symbol's section is what the    *)
(* symbol's own line says.                                                  *)
LinesAgree ==
  pc = "done" =>
    \A s \in DOMAIN object.sections : \A r \in DOMAIN object.sections[s].relocations :
      LET of_relocation == lines[LineOfRelocation(s, r)]
          of_symbol     == lines[LineOfSymbol(object.sections[s].relocations[r].symbol_index)]
      IN  of_relocation.section # NotSaid => of_relocation.section = of_symbol.section

WellFormed ==
  /\ \A s \in DOMAIN object.sections : \A r \in DOMAIN object.sections[s].relocations :
       object.sections[s].relocations[r].symbol_index \in DOMAIN object.symbols
  /\ \A n \in DOMAIN object.symbols :
       object.symbols[n].type # BARF_SYMBOL_EXTERNAL => HasSection(object.symbols[n])

(* A well-formed object is dumped to its end, externals without a section   *)
(* included.                                                                *)
WellFormedIsDumped == WellFormed => pc # "undefined"

-------------------------------------------------------------------------------
(* A claim of the repository that the code does not keep.                   *)

(* format.c:183 prints "in section index %d, bad index": an index of no     *)
(* section is reported, and the dump goes on.                               *)
BadIndexIsReported ==
  (\A s \in DOMAIN object.sections : \A r \in DOMAIN object.sections[s].relocations :
     object.sections[s].relocations[r].symbol_index \in DOMAIN object.symbols)
  => pc # "undefined"
===============================================================================
