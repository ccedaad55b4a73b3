----------------------------- MODULE Settlement -----------------------------
(***************************************************************************)
(* Orders, payments and tickets: the create_order endpoint, the settlement  *)
(* of gateway reports (browser return and IPN) and the payment reconciler,  *)
(* against one database and one payment gateway.                            *)
(*                                                                          *)
(* Every await is an interleaving point.  A session loads a row once and    *)
(* keeps that snapshot (expire_on_commit=False, no row lock anywhere); its  *)
(* commit writes only the columns it changed, over whatever is there now.   *)
(***************************************************************************)
EXTENDS FiniteSets, Integers

CONSTANTS Orders,    \* idempotency keys, each with the order it can create
          Taps,      \* create_order requests in flight at one time
          Settlers,  \* return / IPN requests in flight at one time
          Price,     \* amount_paisa and currency of each order, as one number
          Payments,  \* what the gateway may take: an amount, perhaps flagged
          Sold,      \* orders settled well before the time that is modelled
          Batch      \* orders one reconciler pass looks at (BATCH)

ASSUME OrdersAssumption == IsFiniteSet(Orders)
ASSUME PriceAssumption  == /\ Price \in [Orders -> Nat \ {0}]
                           /\ Payments \subseteq [amount : Nat \ {0}, risky : BOOLEAN]
                           /\ Sold \subseteq Orders
ASSUME BatchAssumption  == Batch \in Nat \ {0} /\ "unknown" \notin Orders

VARIABLES
    row,      \* orders table: status, and what raw_payload is about
    older,    \* for each order, the orders created before it
    age,      \* of an order's created_at: below GRACE_S, past it, past ABANDON_H
    tickets,  \* orders that have a row in tickets (order_id is unique)
    money,    \* at the gateway: the payment taken under an order's tran_id
    page,     \* orders for which a student was handed a checkout page
    tap,      \* the create_order requests
    settler,  \* the _settle requests
    pass      \* the reconciler's pass

vars == <<row, older, age, tickets, money, page, tap, settler, pass>>

Status   == {"absent", "initiated", "pending", "paid", "failed", "cancelled"}
Open     == {"initiated", "pending"}
Declined == {"failed", "cancelled"}
Payload  == {"null", "own", "other"}   \* "other": of no payment of the order

Exists(o) == row[o].status # "absent"

NoMoney  == [amount |-> 0, risky |-> FALSE]
Paid(o)  == money[o].amount > 0

Idle     == [pc |-> "idle", order |-> "none", seen |-> "absent"]
NoReport == [pc |-> "idle", order |-> "none", seen |-> "absent", val |-> "unknown"]
IdlePass == [running |-> FALSE, left |-> {}, aged |-> {},
             seen    |-> [o \in Orders |-> "absent"],
             staged  |-> [o \in Orders |-> "nothing"]]

Init ==
    /\ row      = [o \in Orders |-> IF o \in Sold THEN [status |-> "paid", payload |-> "own"]
                                   ELSE [status |-> "absent", payload |-> "null"]]
    /\ older    = [o \in Orders |-> {}]
    /\ age      = [o \in Orders |-> IF o \in Sold THEN "old" ELSE "fresh"]
    /\ tickets  = Sold
    /\ money    = [o \in Orders |-> IF o \in Sold THEN [amount |-> Price[o], risky |-> FALSE]
                                   ELSE NoMoney]
    /\ page     = Sold
    /\ tap      = [t \in Taps |-> Idle]
    /\ settler  = [s \in Settlers |-> NoReport]
    /\ pass     = IdlePass

-----------------------------------------------------------------------------
(* Deciding what an answer of the gateway means, and flushing a session.    *)

(* What the answer about a payment says of an order.  A val_id names a       *)
(* payment, of this order or of another, or none that the gateway confirms;  *)
(* amount and currency are compared with the order's, the tran_id is not.    *)
Verdict(o, val) ==
    CASE val = "unknown"              -> "refused"
      [] money[val].amount = 0        -> "refused"
      [] money[val].amount # Price[o] -> "short"
      [] money[val].risky             -> "risky"
      [] OTHER                        -> "ok"

(* (Variants with a fault, here and below, are never part of Next: they show *)
(* which mistake each property would catch.)                                 *)
ApplyValidationStoringOutcome(v) ==
    CASE v = "ok" -> "paid" [] v = "risky" -> "under_review" [] OTHER -> "failed"
ApplyValidationIgnoringRisk(v) == IF v \in {"ok", "risky"} THEN "paid" ELSE "failed"
ApplyValidation(v) ==
    CASE v = "ok"    -> "paid"
      [] v = "risky" -> "pending"
      [] OTHER       -> "failed"

IssuesTicketForAnyAmount(v) == v \in {"ok", "short"}
IssuesTicket(v) == v = "ok"

(* Only a status that differs from the loaded one reaches the UPDATE.       *)
Flush(r, seen, new) == [r EXCEPT !.status = IF new = seen THEN @ ELSE new]

Confirm(r, seen, v, about) ==
    [Flush(r, seen, ApplyValidation(v)) EXCEPT !.payload = about]

-----------------------------------------------------------------------------
(* create_order, in one session: look the key up, insert when there is no   *)
(* row, read the row back, open a checkout at the money, mark it pending. *)

TapLookup(t, o) ==
    /\ tap[t].pc = "idle"
    /\ row[o].status # "paid"                        \* 409 Order already paid
    /\ tap' = [tap EXCEPT ![t] =
                 [pc    |-> IF Exists(o) THEN "checkout" ELSE "insert",
                  order |-> o, seen |-> row[o].status]]
    /\ UNCHANGED <<row, older, age, tickets, page, money, settler, pass>>

(* The unique idempotency_key lets one of two inserts through; the loser    *)
(* rolls back.  Both then read the row.                                     *)
TapInsert(t) ==
    LET o == tap[t].order IN
    /\ tap[t].pc = "insert"
    /\ tap' = [tap EXCEPT ![t].pc = "reload"]
    /\ IF Exists(o)
       THEN UNCHANGED <<row, older>>
       ELSE /\ row'   = [row EXCEPT ![o].status = "initiated"]
            /\ older' = [older EXCEPT ![o] = {p \in Orders : Exists(p)}]
    /\ UNCHANGED <<age, tickets, page, money, settler, pass>>

(* db.refresh of the inserted row, or the loser's second lookup: neither    *)
(* looks at the status it finds.                                            *)
TapReload(t) ==
    /\ tap[t].pc = "reload"
    /\ tap' = [tap EXCEPT ![t].pc = "checkout", ![t].seen = row[tap[t].order].status]
    /\ UNCHANGED <<row, older, age, tickets, page, money, settler, pass>>

OpenCheckout(t) ==
    LET o == tap[t].order IN
    /\ tap[t].pc = "checkout"
    /\ row'  = [row EXCEPT ![o] = Flush(@, tap[t].seen, "pending")]
    /\ page' = page \cup {o}
    /\ tap'  = [tap EXCEPT ![t] = Idle]
    /\ UNCHANGED <<older, age, tickets, money, settler, pass>>

(* GatewayError (502), a closed connection, a restarted process.            *)
TapDies(t) ==
    /\ tap[t].pc # "idle"
    /\ tap' = [tap EXCEPT ![t] = Idle]
    /\ UNCHANGED <<row, older, age, tickets, page, money, settler, pass>>

-----------------------------------------------------------------------------
(* The gateway and the passage of time.  Of the attempts under a tran_id at  *)
(* most one takes money, the right amount or another, flagged as a risk or   *)
(* not; of the attempts that take none only the reports matter.              *)

Pay(o, payment) ==
    /\ o \in page /\ ~Paid(o)
    /\ money' = [money EXCEPT ![o] = payment]
    /\ UNCHANGED <<row, older, age, tickets, page, tap, settler, pass>>

(* The val_ids a return or an IPN can carry, for whichever order it names: a *)
(* payment made by now, or one that the gateway does not confirm (that of a  *)
(* declined attempt, or of nothing).                                         *)
ValIds == {p \in Orders : Paid(p)} \cup {"unknown"}

(* An older order reaches each age first.                                   *)
GrowOlder(o) ==
    /\ Exists(o)
    /\ \/ /\ age[o] = "fresh"
          /\ \A p \in older[o] : age[p] # "fresh"
          /\ age' = [age EXCEPT ![o] = "due"]
       \/ /\ age[o] = "due"
          /\ \A p \in older[o] : age[p] = "old"
          /\ age' = [age EXCEPT ![o] = "old"]
    /\ UNCHANGED <<row, older, tickets, page, money, tap, settler, pass>>

-----------------------------------------------------------------------------
(* _settle: look the order up by tran_id, stop if it is paid, write a        *)
(* declined report straight to the order, validate any other with the        *)
(* gateway and commit what the answer means.                                 *)

(* Nothing vouches for a report: it may say anything of any order, late,     *)
(* more than once, or never come.                                            *)
SettleLookup(s, o, says, val) ==
    /\ settler[s].pc = "idle"
    /\ row[o].status \notin {"absent", "paid"}         \* 404; already settled
    /\ says \in Declined => val = "unknown"            \* not read then
    /\ settler' = [settler EXCEPT ![s] =
                     [pc |-> says, order |-> o, seen |-> row[o].status, val |-> val]]
    /\ UNCHANGED <<row, older, age, tickets, page, money, tap, pass>>

SettleDeclinedKeepingReport(s) ==
    LET o == settler[s].order IN
    /\ settler[s].pc \in Declined
    /\ row'     = [row EXCEPT ![o] = [Flush(@, settler[s].seen, settler[s].pc)
                                        EXCEPT !.payload = "own"]]
    /\ settler' = [settler EXCEPT ![s] = NoReport]
    /\ UNCHANGED <<older, age, tickets, page, money, tap, pass>>

SettleDeclined(s) ==
    LET o == settler[s].order IN
    /\ settler[s].pc \in Declined
    /\ row'     = [row EXCEPT ![o] = Flush(@, settler[s].seen, settler[s].pc)]
    /\ settler' = [settler EXCEPT ![s] = NoReport]
    /\ UNCHANGED <<older, age, tickets, page, money, tap, pass>>

(* The ticket and the status are one commit: a ticket that already exists    *)
(* makes the INSERT fail and the whole session roll back.                    *)
SettleValidated(s) ==
    LET o == settler[s].order
        v == Verdict(o, settler[s].val)
        about == IF settler[s].val = o THEN "own" ELSE "other"
    IN
    /\ settler[s].pc = "valid"
    /\ settler' = [settler EXCEPT ![s] = NoReport]
    /\ IF IssuesTicket(v) /\ o \in tickets
       THEN UNCHANGED <<row, tickets>>
       ELSE /\ row'     = [row EXCEPT ![o] = Confirm(@, settler[s].seen, v, about)]
            /\ tickets' = IF IssuesTicket(v) THEN tickets \cup {o} ELSE tickets
    /\ UNCHANGED <<older, age, page, money, tap, pass>>

(* GatewayError (502) or a lost process: the session ends with no write.     *)
SettlerDies(s) ==
    /\ settler[s].pc # "idle"
    /\ settler' = [settler EXCEPT ![s] = NoReport]
    /\ UNCHANGED <<row, older, age, tickets, page, money, tap, pass>>

-----------------------------------------------------------------------------
(* reconcile_once: load a batch, query the gateway for each order in turn,   *)
(* stage what the answers mean, commit once.                                 *)

UnsettledTrustingReports(o) == age[o] # "fresh" /\ row[o].status \in Open

Unsettled(o) ==
    /\ age[o] # "fresh"
    /\ \/ row[o].status \in Open
       \/ row[o].status \in Declined /\ row[o].payload = "null"

(* ORDER BY created_at LIMIT Batch.                                          *)
NextBatch ==
    LET due == {o \in Orders : Unsettled(o)} IN
    {o \in due : Cardinality(due \cap older[o]) < Batch}

StartPass ==
    /\ ~pass.running
    /\ pass' = [IdlePass EXCEPT !.running = TRUE,
                                !.left = NextBatch,
                                !.aged = {o \in NextBatch : age[o] = "old"},
                                !.seen = [o \in Orders |->
                                            IF o \in NextBatch THEN row[o].status ELSE "absent"]]
    /\ UNCHANGED <<row, older, age, tickets, page, money, tap, settler>>

IsNext(o) == o \in pass.left /\ older[o] \cap pass.left = {}

(* An element that took money settles the order; with none, an order past    *)
(* ABANDON_H is closed, unless it was cancelled when the pass loaded it.     *)
Staging(o) ==
    IF Paid(o) THEN Verdict(o, o)
    ELSE IF o \in pass.aged /\ pass.seen[o] # "cancelled" THEN "abandon"
    ELSE "nothing"

QueryAnswers(o) ==
    /\ pass.running /\ IsNext(o)
    /\ pass' = [pass EXCEPT !.left = @ \ {o}, !.staged[o] = Staging(o)]
    /\ UNCHANGED <<row, older, age, tickets, page, money, tap, settler>>

QueryFails(o) ==
    /\ pass.running /\ IsNext(o)
    /\ pass' = [pass EXCEPT !.left = @ \ {o}]
    /\ UNCHANGED <<row, older, age, tickets, page, money, tap, settler>>

Issuing == {o \in Orders : IssuesTicket(pass.staged[o])}

ReconciledForGood(o) ==
    CASE pass.staged[o] = "nothing" -> row[o]
      [] pass.staged[o] = "abandon" ->
           [Flush(row[o], pass.seen[o], "failed") EXCEPT !.payload = "own"]
      [] OTHER -> Confirm(row[o], pass.seen[o], pass.staged[o], "own")

Reconciled(o) ==
    CASE pass.staged[o] = "nothing" -> row[o]
      [] pass.staged[o] = "abandon" -> Flush(row[o], pass.seen[o], "failed")
      [] OTHER -> Confirm(row[o], pass.seen[o], pass.staged[o], "own")

CommitPassKeepingStatus ==
    /\ pass.running /\ pass.left = {}
    /\ pass' = IdlePass
    /\ row'     = [o \in Orders |-> Reconciled(o)]
    /\ tickets' = IF Issuing \cap tickets # {} THEN tickets ELSE tickets \cup Issuing
    /\ UNCHANGED <<older, age, page, money, tap, settler>>

CommitPass ==
    /\ pass.running /\ pass.left = {}
    /\ pass' = IdlePass
    /\ IF Issuing \cap tickets # {}
       THEN UNCHANGED <<row, tickets>>
       ELSE /\ row'     = [o \in Orders |-> Reconciled(o)]
            /\ tickets' = tickets \cup Issuing
    /\ UNCHANGED <<older, age, page, money, tap, settler>>

(* The worker stops, or run() catches an exception: nothing is written.      *)
PassDies ==
    /\ pass.running
    /\ pass' = IdlePass
    /\ UNCHANGED <<row, older, age, tickets, page, money, tap, settler>>

-----------------------------------------------------------------------------
TapStep(t) == \/ \E o \in Orders : TapLookup(t, o)
              \/ TapInsert(t) \/ TapReload(t) \/ OpenCheckout(t) \/ TapDies(t)

SettleStep(s) == \/ \E o \in Orders, says \in Declined \cup {"valid"}, val \in ValIds :
                       SettleLookup(s, o, says, val)
                 \/ SettleDeclined(s) \/ SettleValidated(s) \/ SettlerDies(s)

ReconcilerStep == \/ StartPass
                  \/ \E o \in Orders : QueryAnswers(o) \/ QueryFails(o)
                  \/ CommitPass \/ PassDies

EnvStep == \E o \in Orders : \/ \E payment \in Payments : Pay(o, payment)
                              \/ GrowOlder(o)

Next == \/ \E t \in Taps : TapStep(t)
        \/ \E s \in Settlers : SettleStep(s)
        \/ ReconcilerStep
        \/ EnvStep

Spec == Init /\ [][Next]_vars

-----------------------------------------------------------------------------
(* Properties.                                                               *)

Verdicts == {"ok", "short", "risky", "refused"}
TapRecord == [pc : {"idle", "insert", "reload", "checkout"},
              order : Orders \cup {"none"}, seen : Status]
SettlerRecord == [pc : {"idle", "valid"} \cup Declined, order : Orders \cup {"none"},
                  seen : Status, val : Orders \cup {"unknown"}]
PassRecord == [running : BOOLEAN, left : SUBSET Orders, aged : SUBSET Orders,
               seen : [Orders -> Status],
               staged : [Orders -> {"nothing", "abandon"} \cup Verdicts]]

(* Every variable has its type, and a handler that is not idle works on an   *)
(* order.                                                                    *)
TypeOK ==
    /\ row \in [Orders -> [status : Status, payload : Payload]]
    /\ older \in [Orders -> SUBSET Orders]
    /\ age \in [Orders -> {"fresh", "due", "old"}]
    /\ tickets \subseteq Orders
    /\ money \in [Orders -> [amount : Nat, risky : BOOLEAN]]
    /\ page \subseteq Orders
    /\ tap \in [Taps -> TapRecord]
    /\ settler \in [Settlers -> SettlerRecord]
    /\ pass \in PassRecord
    /\ \A t \in Taps : tap[t].pc # "idle" => tap[t].order \in Orders
    /\ \A s \in Settlers : settler[s].pc # "idle" => settler[s].order \in Orders

(* A student who sees `paid` holds the ticket: however return, IPN, double   *)
(* tap and reconciler interleave and whichever of them rolls back, no order  *)
(* is paid without its ticket (apply_validation and issue_ticket commit      *)
(* together).                                                                *)
PaidHasTicket == \A o \in Orders : row[o].status = "paid" => o \in tickets

(* Good for its own order: what the student of the order is owed a ticket for.*)
Good(o) == Verdict(o, o) = "ok"

(* Money that should have become a ticket and has not is never out of the    *)
(* reconciler's reach: no order of late declines, stale writes, rollbacks    *)
(* and abandonments leaves such an order where _unsettled cannot match it,   *)
(* but for one whose report carried a val_id of no payment of the order: the *)
(* answer about that one is its raw_payload.                                 *)
MoneyInReach ==
    \A o \in Orders : Good(o) /\ o \notin tickets =>
        \/ row[o].status \in Open
        \/ row[o].status \in Declined /\ row[o].payload \in {"null", "other"}

(* The store as a whole sells tickets as Purchase says: once, never          *)
(* withdrawn, and each against good money of its own order, or, where a      *)
(* report named another payment, against that one, of the same price.        *)
P == INSTANCE Purchase WITH
         taken    <- [o \in Orders |-> IF money[o].risky THEN 0 ELSE money[o].amount],
         held     <- tickets,
         misnamed <- {o \in Orders : row[o].payload = "other"}
SellsOnce == P!Spec

(* Fairness: the worker's loop goes on (run() survives every exception), and *)
(* the gateway's outages and the worker's restarts come to an end.  (A pass  *)
(* with nothing staged ends in the same state whether it commits or dies.)   *)
OutagesEnd == <>[][/\ PassDies => CommitPass
                   /\ \A o \in Orders : QueryFails(o) => QueryAnswers(o)]_vars
Fairness == /\ WF_vars(StartPass) /\ WF_vars(CommitPass)
            /\ \A o \in Orders : WF_vars(QueryAnswers(o)) /\ WF_vars(GrowOlder(o))
            /\ OutagesEnd
FairSpec == Spec /\ Fairness

(* An order that has its ticket and still looks unsettled makes the ticket   *)
(* INSERT of every pass that takes it up fail.                               *)
Poisoned(o) == o \in tickets /\ row[o].status \in Open

(* With room in the batch for every order, the reconciler gets each payment  *)
(* its ticket though no report ever arrives, unless a poisoned order is in   *)
(* the way.                                                                  *)
PaidGetsTicketUnlessPoisoned ==
    \A o \in Orders : Good(o) ~> (o \in tickets \/ \E p \in Orders : Poisoned(p))

(* The module docstring of the reconciler: "If the gateway says the money    *)
(* moved, the ticket is issued now, late but correct."  Asked once students  *)
(* have stopped tapping.                                                     *)
TapsCease == <>[](\A t \in Taps : tap[t].pc = "idle")
PaidGetsTicket == TapsCease => \A o \in Orders : Good(o) ~> o \in tickets
=============================================================================
