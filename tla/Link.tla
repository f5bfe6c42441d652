---------------------------------- MODULE Link ----------------------------------
(***************************************************************************)
(* What combining artifacts promises (docs/usage.md:62-71 and              *)
(* docs/ba_format.md:92-104), in one step and without symbol tables,       *)
(* indexes or an order of inputs: the artifacts are either rejected for a  *)
(* reason that is in the inputs, or linked.  Linked means that every       *)
(* section keeps its data and that every relocation is bound to the very   *)
(* place its own artifact named, or, through an external name, to the one  *)
(* definition of that name, or stays bound to the name alone.              *)
(*                                                                         *)
(* Combine is shown to implement this module.                              *)
(***************************************************************************)
EXTENDS Artifact

CONSTANT InputSet   (* the lists of inputs the program may be given *)

VARIABLES
  inputs,         (* the input artifacts                               *)
  output_opens,   (* can the output file be created                    *)
  result          (* pending, rejected, aborted or linked with a value *)

vars == << inputs, output_opens, result >>

-------------------------------------------------------------------------------
GlobalsNamed(name) ==
  {ref \in SymbolRef(inputs) :
     /\ SymbolAt(inputs, ref).type = BARF_SYMBOL_GLOBAL
     /\ SymbolAt(inputs, ref).name = name}

NoDuplicateGlobal ==
  \A ref \in SymbolRef(inputs) :
    \A g, h \in GlobalsNamed(SymbolAt(inputs, ref).name) : g = h

SameTarget == \A b, c \in DOMAIN inputs : inputs[b].target = inputs[c].target

Linkable ==
  /\ inputs # << >>
  /\ \A b \in DOMAIN inputs : inputs[b].readable
  /\ SameTarget
  /\ NoDuplicateGlobal

PlaceOf(ref) ==
  Place(<<ref[1], SymbolAt(inputs, ref).section_index>>, SymbolAt(inputs, ref).offset)

BoundTo(rel) ==
  LET ref    == <<rel[1][1], RelocationAt(inputs, rel).symbol_index>>
      symbol == SymbolAt(inputs, ref)
  IN  CASE Defines(symbol) -> PlaceOf(ref)
        [] symbol.type = BARF_SYMBOL_EXTERNAL ->
             IF GlobalsNamed(symbol.name) = {}
             THEN Named(symbol.name)
             ELSE PlaceOf(CHOOSE g \in GlobalsNamed(symbol.name) : TRUE)
        [] OTHER -> Nothing

Linked ==
  LinkedAs([ref \in SectionRef(inputs) |-> SectionAt(inputs, ref).data],
           [rel \in RelocationRef(inputs) |-> BoundTo(rel)],
           [rel \in RelocationRef(inputs) |-> RelocationAt(inputs, rel).offset])

-------------------------------------------------------------------------------
Init ==
  /\ inputs \in InputSet
  /\ output_opens \in BOOLEAN
  /\ result = Pending

LinkAll ==
  /\ result = Pending
  /\ Linkable /\ output_opens
  /\ result' = Linked
  /\ UNCHANGED << inputs, output_opens >>

Reject ==
  /\ result = Pending
  /\ ~ (Linkable /\ output_opens)
  /\ result' = Rejected
  /\ UNCHANGED << inputs, output_opens >>

(* The process may die instead of answering.  Combine says when it does.    *)
Abort ==
  /\ result = Pending
  /\ result' = Aborted
  /\ UNCHANGED << inputs, output_opens >>

Next == LinkAll \/ Reject \/ Abort

Spec == Init /\ [][Next]_vars

(* Combining ends in one of the three ways. *)
Ends == <>(result # Pending)
===============================================================================
