----------------------------- MODULE MCHandleTable -----------------------------
(* An instance of HandleTable with one slot less than clients, so that the  *)
(* table fills up, is refused, and is drained in every order.               *)
EXTENDS HandleTable

===============================================================================
