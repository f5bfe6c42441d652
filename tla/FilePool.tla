-------------------------------- MODULE FilePool --------------------------------
(***************************************************************************)
(* What the platform layer promises of its file handles: a client that     *)
(* opens a file owns a stream nobody else owns, keeps that very stream     *)
(* until it closes it itself, and may be refused at any time.  There is no *)
(* table here; HandleTable is shown to implement this module.              *)
(***************************************************************************)
CONSTANTS Client, Stream, NULL

VARIABLE owner   (* client -> the stream it reads and writes, or NULL *)

Init == owner = [c \in Client |-> NULL]

Acquire(c) ==
  /\ owner[c] = NULL
  /\ \E s \in Stream :
       /\ \A d \in Client : owner[d] # s
       /\ owner' = [owner EXCEPT ![c] = s]

Release(c) ==
  /\ owner[c] # NULL
  /\ owner' = [owner EXCEPT ![c] = NULL]

Next == \E c \in Client : Acquire(c) \/ Release(c)

Spec == Init /\ [][Next]_owner
===============================================================================
