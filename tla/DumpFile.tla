-------------------------------- MODULE DumpFile --------------------------------
(***************************************************************************)
(* "barf -d file", src/barf/main.c:81-90: a file is parsed, dumped and     *)
(* freed.  This module extends Parse; the variables of Dump have the       *)
(* prefix "dump_".                                                         *)
(*                                                                         *)
(* Parse hands over entries whose contents it has not looked at.  What     *)
(* they say is chosen when they are first looked at, which is by Dump.     *)
(***************************************************************************)
EXTENDS Parse

CONSTANTS
  Meanings    (* functions from the entries of each kind to what they say   *)

ASSUME MeaningsAssumption ==
  \A m \in Meanings : \A table \in {m.sections, m.symbols, m.relocations} :
    {Zero, Torn, Misread} \subseteq DOMAIN table

VARIABLES
  meaning,
  dump_i, dump_ri, lines, dump_pc

(* The object, as the dump reads it.                                        *)
Object ==
  [ sections |-> [s \in DOMAIN sections |->
      [ name |-> meaning.sections[sections[s]].name, flags |-> meaning.sections[sections[s]].flags,
        relocations |-> [r \in DOMAIN relocations[s] |->
          [symbol_index |-> meaning.relocations[relocations[s][r]]]] ]],
    symbols |-> [n \in DOMAIN symbols |-> meaning.symbols[symbols[n]]] ]

D == INSTANCE Dump WITH object <- Object, i <- dump_i, ri <- dump_ri, pc <- dump_pc

dump_vars == << dump_i, dump_ri, lines, dump_pc >>

DumpFileInit ==
  /\ Init /\ D!Init
  /\ meaning = [sections |-> << >>, symbols |-> << >>, relocations |-> << >>]

ParseFile ==
  /\ pc # "parsed" /\ Next
  /\ IF pc' = "parsed" THEN meaning' \in Meanings ELSE UNCHANGED meaning
  /\ UNCHANGED dump_vars

DumpObject == pc = "parsed" /\ UNCHANGED << vars, meaning >> /\ D!Next

FreeDumped == dump_pc = "done" /\ FreeObject /\ UNCHANGED << meaning, dump_vars >>

DumpFileNext == ParseFile \/ DumpObject \/ FreeDumped

DumpFileSpec == DumpFileInit /\ [][DumpFileNext]_<< vars, meaning, dump_vars >>

-------------------------------------------------------------------------------
Parsed == pc = "parsed"

(* What the parser hands on, of any file, is what stands in the file one    *)
(* table behind the other from the end of the header on, and zero where the *)
(* file ends early, never what was in the heap; of a file as the writers    *)
(* write it that is the tables they wrote.  A file that is refused leaves   *)
(* no memory behind, and no stream but one of the handle 0; one that has a  *)
(* section, the magic and the length of its section table is not refused    *)
(* while there is memory (format.c:22-122).                                 *)
ParsedIsTheFile ==
  /\ TypeOK
  /\ NothingUnwritten /\ TablesInARow /\ WrittenIsRead
  /\ RefusedLeavesNothing /\ SoundFilesParse

(* Of a file as the writers write it the dump shows the file's own tables,  *)
(* every relocation under the section that the file lists it for.           *)
ShowsItsTables ==
  Parsed /\ AsWritten /\ dump_pc = "done" =>
    LET the_sections == TableOf("sections").entries
        the_symbols  == TableOf("symbols").entries
        name(n)      == meaning.symbols[the_symbols[n]].name
    IN  /\ \A n \in DOMAIN the_symbols : D!Shows(D!LineOfSymbol(n), "symbol", name(n))
        /\ \A s \in DOMAIN the_sections :
             /\ D!Shows(D!LineOfSection(s), "section", meaning.sections[the_sections[s]].name)
             /\ \A r \in DOMAIN Listed(s) :
                  D!Shows(D!LineOfRelocation(s, r), "relocation",
                          name(meaning.relocations[Listed(s)[r]]))

(* A dump that gets to its end has printed all that is in the object once,  *)
(* each relocation agreeing with its symbol's own line; it gets there for   *)
(* every well-formed object, externals without a section included, and for  *)
(* a file of the writers it has printed that file (format.c:149-207).       *)
DumpShowsTheFile ==
  /\ Parsed => D!TypeOK /\ D!DumpIsComplete /\ D!LinesAgree /\ D!WellFormedIsDumped
  /\ ShowsItsTables

(* The claim of Dump that the code does not keep: format.c:183 reports a    *)
(* bad index and goes on.                                                   *)
BadIndexIsReported == Parsed => D!BadIndexIsReported
===============================================================================
