------------------------------ MODULE Purchase ------------------------------
(***************************************************************************)
(* What selling a ticket promises, with no handlers, no worker and no       *)
(* order status: a ticket is issued at most once per order, never taken     *)
(* back, and only against money of the order's price: the order's own, or,  *)
(* where the report of a payment named another order's, that one's.         *)
(* Settlement implements it.                                                *)
(***************************************************************************)
CONSTANTS Orders, Price, Sold

VARIABLES taken,     \* the unflagged money the gateway took for each order, or 0
          held,      \* orders whose ticket exists
          misnamed   \* orders whose last report was of no payment of theirs
pvars == <<taken, held, misnamed>>

Init == /\ taken = [o \in Orders |-> IF o \in Sold THEN Price[o] ELSE 0]
        /\ held = Sold
        /\ misnamed = {}

TakeMoney(o) ==
    /\ taken[o] = 0
    /\ taken' = [taken EXCEPT ![o] = taken'[o]]           \* any amount
    /\ UNCHANGED <<held, misnamed>>

OwnMoney(o) == taken[o] = Price[o]
OthersMoney(o) == o \in misnamed' /\ \E p \in Orders \ {o} : taken[p] = Price[o]

(* Reports come in, and tickets are issued on them, or on none: one          *)
(* reconciler pass may issue several in one commit.                          *)
IssueTickets(S) ==
    /\ S \cap held = {}
    /\ \A o \in S : OwnMoney(o) \/ OthersMoney(o)
    /\ held' = held \cup S
    /\ misnamed' \in SUBSET Orders
    /\ UNCHANGED taken

Next == \/ \E o \in Orders : TakeMoney(o)
        \/ \E S \in SUBSET Orders : IssueTickets(S)

Spec == Init /\ [][Next]_pvars
=============================================================================
