----------------------------- MODULE MCBoarding -----------------------------
(* Boarding on one ticket; the codes carry one passenger and two, or two    *)
(* each, so that they may stand for one another.                            *)
EXTENDS Boarding, TLC
CONSTANTS c1, c2, Rides, LastSlice
MCCountOf == [c \in Codes |-> IF c = c1 THEN 1 ELSE 2]
MCPairs == [c \in Codes |-> 2]
MCTicketOf == [c \in Codes |-> CHOOSE k \in Tickets : TRUE]
MCRidesOf == [k \in Tickets |-> Rides]
MCValidTo == [k \in Tickets |-> LastSlice]
PairsSymmetry == Permutations(Devices) \cup Permutations(Requests) \cup Permutations(Codes)
=============================================================================
