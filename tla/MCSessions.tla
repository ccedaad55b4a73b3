----------------------------- MODULE MCSessions -----------------------------
(* Sessions with a few requests and tokens.                                 *)
EXTENDS Sessions, TLC
Symmetry == Permutations(Requests)
=============================================================================
