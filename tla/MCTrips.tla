------------------------------ MODULE MCTrips -------------------------------
(* Trips with two helpers, two buses and two requests at a time. *)
EXTENDS Trips, TLC
Symmetry == Permutations(Helpers) \cup Permutations(Buses) \cup Permutations(Requests)
=============================================================================
