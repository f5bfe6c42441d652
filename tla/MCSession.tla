------------------------------- MODULE MCSession -------------------------------
(* Three calls with up to two inputs of any kind, and slots for two as      *)
(* FirstCallHasRoom counts them.                                            *)
EXTENDS Session

===============================================================================
