------------------------------ MODULE MCNearby ------------------------------
(* The pipeline and the search over what it indexed.  A bus that passes by   *)
(* and leaves: close at 0, farther at 1, out of the radius at 2; and another *)
(* bus, once.                                                                *)
EXTENDS Nearby
CONSTANTS f1, f2, f3, f4, b1, b2
MCBusOf    == [f \in Fixes |-> IF f = f3 THEN b2 ELSE b1]
MCTakenAt  == [f \in Fixes |-> CASE f \in {f1, f3} -> 0 [] f = f2 -> 1 [] OTHER -> 2]
MCDistance == [f \in Fixes |-> CASE f = f1 -> 1 [] f = f2 -> 3 [] f = f3 -> 2 [] OTHER -> 9]
=============================================================================
