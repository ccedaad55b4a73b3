---------------------------- MODULE MCSettlement ----------------------------
(* Settlement on small sets of orders and requests; every order costs 1.   *)
EXTENDS Settlement, TLC
MCPrice == [o \in Orders |-> 1]
Right == [amount |-> 1, risky |-> FALSE]
MCGood == {Right}
MCAll == {Right, [amount |-> 1, risky |-> TRUE], [amount |-> 2, risky |-> FALSE]}
HandlerSymmetry == Permutations(Taps) \cup Permutations(Settlers)
=============================================================================
