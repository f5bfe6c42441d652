--------------------------------- MODULE MCPages ---------------------------------
(* Four pages of two bytes, and numbers below 8: every size from none to    *)
(* the largest number, whose rounding has no place in a number.             *)
EXTENDS Pages

MCSizes == {0, 1, 2, 3, 4, 7}
===============================================================================
