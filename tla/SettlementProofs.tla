-------------------------- MODULE SettlementProofs --------------------------
(***************************************************************************)
(* Proofs about Settlement, for every set of orders and requests and every  *)
(* batch size.                                                              *)
(***************************************************************************)
EXTENDS Settlement, TLAPS

(* raw_payload is about the order's own payment only if there is one, and if *)
(* that one is good the ticket was committed together with it.               *)
OwnMeans == \A o \in Orders : row[o].payload = "own" =>
    Paid(o) /\ (Good(o) => o \in tickets)

(* Payments need a checkout page, and pages, running requests and the       *)
(* reconciler's batch need an order that exists.                            *)
PagesHaveOrders == \A o \in Orders :
    /\ Paid(o) => o \in page
    /\ o \in page => Exists(o)
TapsHaveOrders == \A t \in Taps : tap[t].pc \in {"reload", "checkout"} => Exists(tap[t].order)
SettlersHaveOrders == \A s \in Settlers :
    /\ settler[s].pc # "idle" => Exists(settler[s].order)
    /\ settler[s].val \in Orders => Paid(settler[s].val)
PassHasOrders == \A o \in Orders : o \in pass.left \/ pass.staged[o] # "nothing" => Exists(o)

(* What the pass has staged from an answer is what the gateway still says.  *)
StagedIsTrue == \A o \in Orders :
    pass.staged[o] \in {"nothing", "abandon"} \/ (Paid(o) /\ pass.staged[o] = Verdict(o, o))

IInv == /\ TypeOK
        /\ PaidHasTicket /\ OwnMeans
        /\ PagesHaveOrders /\ TapsHaveOrders /\ SettlersHaveOrders /\ PassHasOrders
        /\ StagedIsTrue

-----------------------------------------------------------------------------
(* A flush and a validated answer turn a row into a row: a flush touches     *)
(* the status alone and leaves it or writes the new one.                     *)
LEMMA FlushWrites ==
    ASSUME NEW r \in [status : Status, payload : Payload],
           NEW seen \in Status, NEW new \in Status
    PROVE  /\ Flush(r, seen, new) \in [status : Status, payload : Payload]
           /\ Flush(r, seen, new).payload = r.payload
           /\ Flush(r, seen, new).status \in {r.status, new}
  BY DEF Flush

(* An answer of the gateway becomes one of three statuses, `paid` only for   *)
(* good money.                                                               *)
LEMMA VerdictStatus ==
    ASSUME NEW v
    PROVE  /\ ApplyValidation(v) \in {"paid", "pending", "failed"}
           /\ ApplyValidation(v) = "paid" <=> v = "ok"
  BY DEF ApplyValidation

(* A verdict is one of four, and `ok` only of an unflagged payment of the    *)
(* order's price.                                                            *)
LEMMA VerdictMeans ==
    ASSUME TypeOK, NEW o \in Orders, NEW val \in Orders \cup {"unknown"}
    PROVE  /\ Verdict(o, val) \in Verdicts
           /\ Verdict(o, val) = "ok" <=>
                 val \in Orders /\ money[val].amount = Price[o] /\ ~money[val].risky
  <1>1. val \in Orders => money[val].amount \in Nat /\ money[val].risky \in BOOLEAN
    BY DEF TypeOK
  <1>2. Price[o] \in Nat /\ Price[o] # 0
    BY PriceAssumption
  <1>3. "unknown" \notin Orders
    BY BatchAssumption
  <1> QED
    BY <1>1, <1>2, <1>3 DEF Verdict, Verdicts

(* Applying an answer writes what it was about.                              *)
LEMMA ConfirmWrites ==
    ASSUME NEW r \in [status : Status, payload : Payload],
           NEW seen \in Status, NEW v, NEW about \in Payload
    PROVE  /\ Confirm(r, seen, v, about) \in [status : Status, payload : Payload]
           /\ Confirm(r, seen, v, about).payload = about
           /\ Confirm(r, seen, v, about).status \in {r.status, ApplyValidation(v)}
  <1>1. ApplyValidation(v) \in Status
    BY VerdictStatus DEF Status
  <1>2. Flush(r, seen, ApplyValidation(v)) \in [status : Status, payload : Payload]
        /\ Flush(r, seen, ApplyValidation(v)).status \in {r.status, ApplyValidation(v)}
    BY <1>1, FlushWrites
  <1> QED
    BY <1>2 DEF Confirm

(* What a commit of the pass makes of a row.                                 *)
LEMMA ReconciledRow ==
    ASSUME TypeOK, NEW o \in Orders
    PROVE  /\ Reconciled(o) \in [status : Status, payload : Payload]
           /\ Reconciled(o).status \in {row[o].status, "failed", "pending", "paid"}
           /\ Reconciled(o).status = "paid" =>
                 row[o].status = "paid" \/ pass.staged[o] = "ok"
           /\ \/ Reconciled(o).payload = row[o].payload
              \/ Reconciled(o).payload = "own" /\ pass.staged[o] \notin {"nothing", "abandon"}
           /\ pass.staged[o] = "nothing" => Reconciled(o) = row[o]
  <1>1. /\ row[o] \in [status : Status, payload : Payload]
        /\ pass.seen[o] \in Status
        /\ "failed" \in Status /\ "own" \in Payload
    BY DEF TypeOK, PassRecord, Status, Payload
  <1>2. CASE pass.staged[o] = "nothing"
    BY <1>1, <1>2 DEF Reconciled
  <1>3. CASE pass.staged[o] = "abandon"
    BY <1>1, <1>3, FlushWrites DEF Reconciled
  <1>4. CASE pass.staged[o] \notin {"nothing", "abandon"}
    <2>1. Reconciled(o) = Confirm(row[o], pass.seen[o], pass.staged[o], "own")
      BY <1>4 DEF Reconciled
    <2> DEFINE v == pass.staged[o]
    <2>2. /\ Confirm(row[o], pass.seen[o], v, "own") \in [status : Status, payload : Payload]
          /\ Confirm(row[o], pass.seen[o], v, "own").status \in {row[o].status, ApplyValidation(v)}
          /\ Confirm(row[o], pass.seen[o], v, "own").payload = "own"
      BY <1>1, ConfirmWrites
    <2>3. ApplyValidation(v) \in {"paid", "pending", "failed"}
          /\ (ApplyValidation(v) = "paid" <=> v = "ok")
      BY VerdictStatus
    <2> HIDE DEF v
    <2> QED
      BY <1>4, <2>1, <2>2, <2>3 DEF v
  <1> QED
    BY <1>2, <1>3, <1>4

-----------------------------------------------------------------------------
(* No step of a request, of the reconciler or of the gateway leaves the      *)
(* types.                                                                    *)
LEMMA TypeStep == TypeOK /\ [Next]_vars => TypeOK'
  <1> SUFFICES ASSUME TypeOK, [Next]_vars PROVE TypeOK'
    OBVIOUS
  <1> USE DEF TypeOK
  <1>a. {"pending", "initiated", "failed", "cancelled"} \subseteq Status
    BY DEF Status
  <1>b. \A o \in Orders : row[o] \in [status : Status, payload : Payload]
    OBVIOUS
  <1>1. ASSUME NEW t \in Taps, NEW o \in Orders, TapLookup(t, o) PROVE TypeOK'
    BY <1>1, <1>b DEF TapLookup, TapRecord
  <1>2. ASSUME NEW t \in Taps, TapInsert(t) PROVE TypeOK'
    <2>1. tap[t].order \in Orders /\ tap' \in [Taps -> TapRecord]
          /\ \A u \in Taps : tap'[u].order = tap[u].order /\ (tap'[u].pc # "idle" => tap[u].pc # "idle")
      BY <1>2 DEF TapInsert, TapRecord
    <2>2. row' \in [Orders -> [status : Status, payload : Payload]]
          /\ older' \in [Orders -> SUBSET Orders]
      <3>1. CASE Exists(tap[t].order)
        BY <1>2, <3>1 DEF TapInsert
      <3>2. CASE ~Exists(tap[t].order)
        <4>1. row' = [row EXCEPT ![tap[t].order].status = "initiated"]
              /\ older' = [older EXCEPT ![tap[t].order] = {p \in Orders : Exists(p)}]
          BY <1>2, <3>2 DEF TapInsert
        <4>2. row[tap[t].order].payload \in Payload
          BY <1>b, <2>1
        <4>3. [row[tap[t].order] EXCEPT !.status = "initiated"]
                 \in [status : Status, payload : Payload]
          BY <1>a, <1>b, <2>1, <4>2
        <4> QED
          BY <2>1, <4>1, <4>3
      <3> QED
        BY <3>1, <3>2
    <2> QED
      BY <1>2, <2>1, <2>2 DEF TapInsert
  <1>3. ASSUME NEW t \in Taps, TapReload(t) PROVE TypeOK'
    <2>1. tap[t].order \in Orders /\ row[tap[t].order].status \in Status
      BY <1>3, <1>b DEF TapReload
    <2> DEFINE rec == [tap[t] EXCEPT !.pc = "checkout", !.seen = row[tap[t].order].status]
    <2>2. rec \in TapRecord /\ rec.order = tap[t].order
      BY <2>1 DEF TapRecord
    <2>3. tap' = [tap EXCEPT ![t] = rec]
      BY <1>3 DEF TapReload
    <2> HIDE DEF rec
    <2>4. tap' \in [Taps -> TapRecord] /\ \A u \in Taps : tap'[u].pc # "idle" => tap'[u].order \in Orders
      BY <2>1, <2>2, <2>3
    <2>5. UNCHANGED <<row, older, age, tickets, page, money, settler, pass>>
      BY <1>3 DEF TapReload
    <2> QED
      BY <2>4, <2>5
  <1>4. ASSUME NEW t \in Taps, OpenCheckout(t) PROVE TypeOK'
    <2>1. tap[t].order \in Orders /\ tap[t].seen \in Status
      BY <1>4 DEF OpenCheckout, TapRecord
    <2>2. Flush(row[tap[t].order], tap[t].seen, "pending")
             \in [status : Status, payload : Payload]
      BY <1>a, <1>b, <2>1, FlushWrites
    <2>3. tap' \in [Taps -> TapRecord] /\ \A u \in Taps : tap'[u].pc # "idle" => tap'[u] = tap[u]
      BY <1>4 DEF OpenCheckout, TapRecord, Idle, Status
    <2> QED
      BY <1>4, <2>1, <2>2, <2>3 DEF OpenCheckout
  <1>5. ASSUME NEW t \in Taps, TapDies(t) PROVE TypeOK'
    BY <1>5 DEF TapDies, TapRecord, Idle, Status
  <1>6. ASSUME NEW s \in Settlers, NEW o \in Orders, NEW says \in Declined \cup {"valid"},
               NEW val \in ValIds, SettleLookup(s, o, says, val)
        PROVE  TypeOK'
    BY <1>6, <1>b DEF SettleLookup, SettlerRecord, ValIds
  <1>7. ASSUME NEW s \in Settlers, SettleDeclined(s) PROVE TypeOK'
    <2>1. /\ settler[s].order \in Orders /\ settler[s].seen \in Status
          /\ settler[s].pc \in Status
      BY <1>7, <1>a DEF SettleDeclined, SettlerRecord, Declined
    <2>2. Flush(row[settler[s].order], settler[s].seen, settler[s].pc)
             \in [status : Status, payload : Payload]
      BY <1>b, <2>1, FlushWrites
    <2>3. settler' \in [Settlers -> SettlerRecord]
          /\ \A u \in Settlers : settler'[u].pc # "idle" => settler'[u] = settler[u]
      BY <1>7 DEF SettleDeclined, SettlerRecord, NoReport, Status
    <2> QED
      BY <1>7, <2>1, <2>2, <2>3 DEF SettleDeclined
  <1>8. ASSUME NEW s \in Settlers, SettleValidated(s) PROVE TypeOK'
    <2>1. settler[s].order \in Orders /\ settler[s].seen \in Status
      BY <1>8 DEF SettleValidated, SettlerRecord
    <2>2. ASSUME NEW about \in Payload
          PROVE  Confirm(row[settler[s].order], settler[s].seen,
                         Verdict(settler[s].order, settler[s].val), about)
                   \in [status : Status, payload : Payload]
      BY <1>b, <2>1, ConfirmWrites
    <2>3. settler' \in [Settlers -> SettlerRecord]
          /\ \A u \in Settlers : settler'[u].pc # "idle" => settler'[u] = settler[u]
      BY <1>8 DEF SettleValidated, SettlerRecord, NoReport, Status
    <2>4. row' \in [Orders -> [status : Status, payload : Payload]] /\ tickets' \subseteq Orders
      BY <1>8, <2>1, <2>2 DEF SettleValidated, Payload
    <2> QED
      BY <1>8, <2>3, <2>4 DEF SettleValidated
  <1>9. ASSUME NEW s \in Settlers, SettlerDies(s) PROVE TypeOK'
    BY <1>9 DEF SettlerDies, SettlerRecord, NoReport, Status
  <1>10. IdlePass \in PassRecord
    BY DEF IdlePass, PassRecord, Status
  <1>11. CASE StartPass
    <2>1. NextBatch \subseteq Orders
      BY DEF NextBatch
    <2>2. pass' \in PassRecord
      BY <1>11, <1>10, <1>b, <2>1 DEF StartPass, PassRecord, Status
    <2> QED
      BY <1>11, <2>2 DEF StartPass
  <1>12. ASSUME NEW o \in Orders, QueryAnswers(o) PROVE TypeOK'
    <2>1. Staging(o) \in {"nothing", "abandon"} \cup Verdicts
      BY VerdictMeans DEF Staging
    <2> QED
      BY <1>12, <2>1 DEF QueryAnswers, PassRecord
  <1>13. ASSUME NEW o \in Orders, QueryFails(o) PROVE TypeOK'
    BY <1>13 DEF QueryFails, PassRecord
  <1>14. CASE CommitPass
    BY <1>14, <1>10, ReconciledRow DEF CommitPass, Issuing
  <1>15. CASE PassDies
    BY <1>15, <1>10 DEF PassDies
  <1>16. ASSUME NEW o \in Orders, NEW payment \in Payments, Pay(o, payment) PROVE TypeOK'
    BY <1>16, PriceAssumption DEF Pay
  <1>17. ASSUME NEW o \in Orders, GrowOlder(o) PROVE TypeOK'
    BY <1>17 DEF GrowOlder
  <1>18. CASE UNCHANGED vars
    BY <1>18 DEF vars
  <1> QED
    BY <1>1, <1>2, <1>3, <1>4, <1>5, <1>6, <1>7, <1>8, <1>9, <1>11, <1>12, <1>13, <1>14,
       <1>15, <1>16, <1>17, <1>18
       DEF Next, TapStep, SettleStep, ReconcilerStep, EnvStep

(* The initial state is well typed.                                          *)
LEMMA InitTyped == Init => TypeOK
  <1> SUFFICES ASSUME Init PROVE TypeOK
    OBVIOUS
  <1>1. /\ row \in [Orders -> [status : Status, payload : Payload]]
        /\ age \in [Orders -> {"fresh", "due", "old"}]
        /\ older \in [Orders -> SUBSET Orders]
    BY DEF Init, Status, Payload
  <1>2. /\ money \in [Orders -> [amount : Nat, risky : BOOLEAN]]
        /\ tickets \subseteq Orders /\ page \subseteq Orders
    BY PriceAssumption DEF Init, NoMoney
  <1>3. pass \in PassRecord
    BY DEF Init, PassRecord, IdlePass, Status
  <1>4. tap \in [Taps -> TapRecord] /\ settler \in [Settlers -> SettlerRecord]
    BY DEF Init, TapRecord, SettlerRecord, Idle, NoReport, Status
  <1> QED
    BY <1>1, <1>2, <1>3, <1>4 DEF Init, TypeOK, Idle, NoReport

(* Type correctness of every behaviour.                                      *)
THEOREM TypeCorrect == Spec => []TypeOK
  BY InitTyped, TypeStep, PTL DEF Spec

-----------------------------------------------------------------------------
(* Payments are final, so what an answer about one says of an order is final *)
(* as well.                                                                  *)
LEMMA VerdictStays ==
    ASSUME NEW o \in Orders, money'[o] = money[o]
    PROVE  /\ Verdict(o, o)' = Verdict(o, o)
           /\ Paid(o)' <=> Paid(o)
           /\ Good(o)' <=> Good(o)
  BY DEF Verdict, Paid, Good

(* The inductive step, one step per action.  What ties it together: an       *)
(* answer staged or read earlier is still true at the commit.                *)
LEMMA InvStep == IInv /\ [Next]_vars => IInv'
  <1> SUFFICES ASSUME IInv, [Next]_vars PROVE IInv'
    OBVIOUS
  <1>0. TypeOK /\ TypeOK'
    BY TypeStep DEF IInv
  <1> USE <1>0 DEF IInv
  <1>b. \A o \in Orders : /\ row[o] \in [status : Status, payload : Payload]
                          /\ row'[o] \in [status : Status, payload : Payload]
    BY DEF TypeOK
  (* What no change of the rows, the tickets and the money disturbs.       *)
  <1>k. ASSUME UNCHANGED <<row, tickets, money>>
        PROVE  PaidHasTicket' /\ OwnMeans' /\ \A o \in Orders : Exists(o)' <=> Exists(o)
    BY <1>k, VerdictStays DEF PaidHasTicket, OwnMeans, Exists
  (* Nor, of the pass and of the pages, as long as no order disappears.    *)
  <1>l. ASSUME UNCHANGED <<money, pass>>, \A o \in Orders : Exists(o) => Exists(o)'
        PROVE  PassHasOrders' /\ StagedIsTrue'
    BY <1>l, VerdictStays DEF PassHasOrders, StagedIsTrue
  <1>p. ASSUME UNCHANGED <<money, page>>, \A o \in Orders : Exists(o) => Exists(o)'
        PROVE  PagesHaveOrders'
    BY <1>p, VerdictStays DEF PagesHaveOrders
  <1>s. ASSUME UNCHANGED <<money, settler>>, \A o \in Orders : Exists(o) => Exists(o)'
        PROVE  SettlersHaveOrders'
    BY <1>s, VerdictStays DEF SettlersHaveOrders, TypeOK, SettlerRecord
  <1>t. ASSUME UNCHANGED tap, \A o \in Orders : Exists(o) => Exists(o)'
        PROVE  TapsHaveOrders'
    BY <1>t DEF TapsHaveOrders, TypeOK
  (* Steps that only move one request along.                               *)
  <1>c. ASSUME UNCHANGED <<row, tickets, money, page, settler, pass>>, TapsHaveOrders'
        PROVE  IInv'
    BY <1>c, <1>k, <1>l, <1>p, <1>s
  <1>1. ASSUME NEW t \in Taps, NEW o \in Orders, TapLookup(t, o) PROVE IInv'
    BY <1>1, <1>c DEF TapLookup, TapsHaveOrders, Exists, TypeOK
  <1>3. ASSUME NEW t \in Taps, TapReload(t) PROVE IInv'
    <2>1. \A u \in Taps : tap'[u].pc \in {"checkout", tap[u].pc} /\ tap'[u].order = tap[u].order
      BY <1>3 DEF TapReload, TypeOK, TapRecord
    <2>2. tap[t].pc = "reload" /\ \A u \in Taps : u # t => tap'[u] = tap[u]
      BY <1>3 DEF TapReload, TypeOK
    <2>3. TapsHaveOrders' /\ UNCHANGED <<row, tickets, money, page, settler, pass>>
      BY <1>3, <2>1, <2>2 DEF TapReload, TapsHaveOrders, Exists
    <2> QED
      BY <2>3, <1>c
  <1>5. ASSUME NEW t \in Taps, TapDies(t) PROVE IInv'
    BY <1>5, <1>c DEF TapDies, TapsHaveOrders, Exists, TypeOK, Idle
  <1>2. ASSUME NEW t \in Taps, TapInsert(t) PROVE IInv'
    <2> DEFINE o == tap[t].order
    <2>1. o \in Orders
      BY <1>2 DEF TapInsert, TypeOK
    <2>2. CASE Exists(o)
      BY <1>2, <2>1, <2>2, <1>c DEF TapInsert, TapsHaveOrders, Exists, TypeOK, TapRecord
    <2>3. CASE ~Exists(o)
      <3>1. /\ \A p \in Orders : p # o => row'[p] = row[p]
            /\ row'[o].status = "initiated" /\ row'[o].payload = row[o].payload
        BY <1>2, <2>1, <2>3, <1>b DEF TapInsert, TypeOK
      <3>2. UNCHANGED <<tickets, money, page, settler, pass>>
        BY <1>2 DEF TapInsert
      <3>3. \A p \in Orders : Exists(p) => Exists(p)'
        BY <3>1 DEF Exists
      <3>4. TapsHaveOrders'
        BY <1>2, <2>1, <3>1, <3>3 DEF TapInsert, TapsHaveOrders, Exists, TypeOK, TapRecord
      <3>5. PaidHasTicket' /\ OwnMeans'
        BY <3>1, <3>2, VerdictStays DEF PaidHasTicket, OwnMeans
      <3> QED
        BY <3>2, <3>3, <3>4, <3>5, <1>l, <1>p, <1>s
    <2> QED
      BY <2>2, <2>3
  (* Steps that rewrite the status of one order without issuing a ticket.  *)
  <1>d. ASSUME NEW o \in Orders, NEW new \in Status \ {"absent", "paid"},
               \A p \in Orders : p # o => row'[p] = row[p],
               row'[o].status \in {row[o].status, new},
               row'[o].payload = row[o].payload,
               Exists(o), UNCHANGED <<tickets, money, pass>>
        PROVE  /\ \A p \in Orders : Exists(p) => Exists(p)'
               /\ PaidHasTicket' /\ OwnMeans' /\ PassHasOrders' /\ StagedIsTrue'
    <2>1. \A p \in Orders : Exists(p) => Exists(p)'
      BY <1>d DEF Exists
    <2>2. PaidHasTicket' /\ OwnMeans'
      BY <1>d, VerdictStays DEF PaidHasTicket, OwnMeans
    <2> QED
      BY <1>d, <2>1, <2>2, <1>l
  <1>4. ASSUME NEW t \in Taps, OpenCheckout(t) PROVE IInv'
    <2> DEFINE o == tap[t].order
    <2>1. o \in Orders /\ tap[t].seen \in Status /\ Exists(o)
      BY <1>4 DEF OpenCheckout, TypeOK, TapRecord, TapsHaveOrders
    <2>2. /\ row'[o] = Flush(row[o], tap[t].seen, "pending")
          /\ \A p \in Orders : p # o => row'[p] = row[p]
      BY <1>4, <2>1 DEF OpenCheckout, TypeOK
    <2>3. row'[o].status \in {row[o].status, "pending"} /\ row'[o].payload = row[o].payload
      BY <1>b, <2>1, <2>2, FlushWrites DEF Status
    <2>4. UNCHANGED <<tickets, money, pass, settler>>
      BY <1>4 DEF OpenCheckout
    <2>5. /\ \A p \in Orders : Exists(p) => Exists(p)'
          /\ PaidHasTicket' /\ OwnMeans' /\ PassHasOrders' /\ StagedIsTrue'
      BY <2>1, <2>2, <2>3, <2>4, <1>d DEF Status
    <2>6. PagesHaveOrders'
      BY <1>4, <2>1, <2>4, <2>5, VerdictStays DEF OpenCheckout, PagesHaveOrders
    <2>7. SettlersHaveOrders'
      BY <2>4, <2>5, <1>s
    <2>8. TapsHaveOrders'
      BY <1>4, <2>5 DEF OpenCheckout, TapsHaveOrders, TypeOK, Idle
    <2> QED
      BY <2>5, <2>6, <2>7, <2>8
  <1>e. ASSUME UNCHANGED <<row, tickets, money, page, tap, pass>>, SettlersHaveOrders'
        PROVE  IInv'
    BY <1>e, <1>k, <1>l, <1>p, <1>t
  (* A settler that ends leaves the others as they were.                   *)
  <1>r. ASSUME NEW s \in Settlers, settler' = [settler EXCEPT ![s] = NoReport],
               UNCHANGED money, \A o \in Orders : Exists(o) => Exists(o)'
        PROVE  SettlersHaveOrders'
    <2>1. ASSUME NEW u \in Settlers PROVE settler'[u] = settler[u] \/ settler'[u] = NoReport
      BY <1>r DEF TypeOK
    <2> QED
      BY <1>r, <2>1, VerdictStays, BatchAssumption
         DEF SettlersHaveOrders, NoReport, TypeOK, SettlerRecord
  <1>6. ASSUME NEW s \in Settlers, NEW o \in Orders, NEW says \in Declined \cup {"valid"},
               NEW val \in ValIds, SettleLookup(s, o, says, val)
        PROVE  IInv'
    <2>1. Exists(o) /\ (val \in Orders => Paid(val))
      BY <1>6, BatchAssumption DEF SettleLookup, ValIds, Exists
    <2>2. /\ settler'[s].order = o /\ settler'[s].val = val
          /\ \A u \in Settlers : u # s => settler'[u] = settler[u]
          /\ UNCHANGED <<row, tickets, money, page, tap, pass>>
      BY <1>6 DEF SettleLookup, TypeOK
    <2>3. SettlersHaveOrders'
      BY <2>1, <2>2, VerdictStays DEF SettlersHaveOrders, Exists, TypeOK, SettlerRecord
    <2> QED
      BY <2>2, <2>3, <1>e
  <1>9. ASSUME NEW s \in Settlers, SettlerDies(s) PROVE IInv'
    <2>1. UNCHANGED <<row, tickets, money, page, tap, pass>>
          /\ settler' = [settler EXCEPT ![s] = NoReport]
      BY <1>9 DEF SettlerDies
    <2> QED
      BY <2>1, <1>e, <1>k, <1>r
  <1>7. ASSUME NEW s \in Settlers, SettleDeclined(s) PROVE IInv'
    <2> DEFINE o == settler[s].order
    <2>1. /\ o \in Orders /\ settler[s].seen \in Status /\ Exists(o)
          /\ settler[s].pc \in Status \ {"absent", "paid"}
      BY <1>7 DEF SettleDeclined, TypeOK, SettlerRecord, SettlersHaveOrders, Declined, Status
    <2>2. /\ row'[o] = Flush(row[o], settler[s].seen, settler[s].pc)
          /\ \A p \in Orders : p # o => row'[p] = row[p]
      BY <1>7, <2>1 DEF SettleDeclined, TypeOK
    <2>3. row'[o].status \in {row[o].status, settler[s].pc} /\ row'[o].payload = row[o].payload
      BY <1>b, <2>1, <2>2, FlushWrites
    <2>4. /\ UNCHANGED <<tickets, money, page, pass, tap>>
          /\ settler' = [settler EXCEPT ![s] = NoReport]
      BY <1>7 DEF SettleDeclined
    <2>5. /\ \A p \in Orders : Exists(p) => Exists(p)'
          /\ PaidHasTicket' /\ OwnMeans' /\ PassHasOrders' /\ StagedIsTrue'
      BY <2>1, <2>2, <2>3, <2>4, <1>d
    <2> QED
      BY <2>4, <2>5, <1>p, <1>t, <1>r
  <1>8. ASSUME NEW s \in Settlers, SettleValidated(s) PROVE IInv'
    <2> DEFINE o == settler[s].order
               val == settler[s].val
               v == Verdict(o, val)
               about == IF val = o THEN "own" ELSE "other"
    <2>1. o \in Orders /\ settler[s].seen \in Status /\ Exists(o) /\ (val \in Orders => Paid(val))
      BY <1>8 DEF SettleValidated, TypeOK, SettlerRecord, SettlersHaveOrders
    <2>2. UNCHANGED <<money, page, pass, tap>> /\ settler' = [settler EXCEPT ![s] = NoReport]
      BY <1>8 DEF SettleValidated
    <2>3. CASE IssuesTicket(v) /\ o \in tickets
      <3>1. UNCHANGED <<row, tickets>>
        BY <1>8, <2>3 DEF SettleValidated
      <3> QED
        BY <1>e, <1>k, <1>r, <2>2, <3>1
    <2>4. CASE ~(IssuesTicket(v) /\ o \in tickets)
      <3>1. /\ row'[o] = Confirm(row[o], settler[s].seen, v, about)
            /\ \A p \in Orders : p # o => row'[p] = row[p]
            /\ tickets' = IF v = "ok" THEN tickets \cup {o} ELSE tickets
        BY <1>8, <2>1, <2>4 DEF SettleValidated, TypeOK, IssuesTicket
      <3>2. row'[o].status \in {row[o].status, ApplyValidation(v)} /\ row'[o].payload = about
        <4>0. about \in Payload
          BY DEF Payload
        <4>1. /\ Confirm(row[o], settler[s].seen, v, about).payload = about
              /\ Confirm(row[o], settler[s].seen, v, about).status
                    \in {row[o].status, ApplyValidation(v)}
          BY <1>b, <2>1, <4>0, ConfirmWrites
        <4> QED
          BY <3>1, <4>1
      <3>3. /\ ApplyValidation(v) \in {"paid", "pending", "failed"}
            /\ (ApplyValidation(v) = "paid" <=> v = "ok")
        BY VerdictStatus
      <3>4. \A p \in Orders : Exists(p) => Exists(p)'
        BY <3>1, <3>2, <3>3 DEF Exists
      <3>6. PaidHasTicket'
        BY <2>1, <3>1, <3>2, <3>3 DEF PaidHasTicket
      <3>7. OwnMeans'
        <4>1. about = "own" => Paid(o) /\ v = Verdict(o, o)
          BY <2>1
        <4>2. \A p \in Orders : (Paid(p)' <=> Paid(p)) /\ (Good(p)' <=> Good(p))
          BY <2>2, VerdictStays
        <4>3. row'[o].payload = "own" => Paid(o) /\ (Good(o) => o \in tickets')
          BY <3>1, <3>2, <4>1 DEF Good
        <4> QED
          BY <2>1, <3>1, <4>2, <4>3 DEF OwnMeans
      <3> QED
        BY <2>2, <3>4, <3>6, <3>7, <1>l, <1>p, <1>t, <1>r
    <2> QED
      BY <2>3, <2>4
  (* Steps that only move the pass along.                                  *)
  <1>f. ASSUME UNCHANGED <<row, tickets, money, page, tap, settler>>,
               PassHasOrders', StagedIsTrue'
        PROVE  IInv'
    BY <1>f, <1>k, <1>p, <1>s, <1>t
  <1>10. CASE StartPass
    <2>1. \A o \in NextBatch : Exists(o)
      BY DEF NextBatch, Unsettled, Exists, Open, Declined
    <2>2. pass'.left = NextBatch /\ pass'.staged = [o \in Orders |-> "nothing"] /\ UNCHANGED row
      BY <1>10 DEF StartPass, IdlePass
    <2>3. PassHasOrders' /\ StagedIsTrue'
      BY <2>1, <2>2 DEF PassHasOrders, StagedIsTrue, Exists
    <2> QED
      BY <1>10, <1>f, <2>3 DEF StartPass
  <1>11. ASSUME NEW o \in Orders, QueryAnswers(o) PROVE IInv'
    <2>1. /\ o \in pass.left
          /\ pass'.left = pass.left \ {o}
          /\ pass'.staged = [pass.staged EXCEPT ![o] = Staging(o)]
          /\ UNCHANGED <<row, money>>
      BY <1>11 DEF QueryAnswers, IsNext, TypeOK, PassRecord
    <2>2. Staging(o) \in {"nothing", "abandon"} \/ (Paid(o) /\ Staging(o) = Verdict(o, o))
      BY DEF Staging
    <2>3. pass.staged \in [Orders -> {"nothing", "abandon"} \cup Verdicts]
      BY DEF TypeOK, PassRecord
    <2>4. PassHasOrders'
      BY <2>1, <2>3 DEF PassHasOrders, Exists
    <2>5. StagedIsTrue'
      BY <2>1, <2>2, <2>3, VerdictStays DEF StagedIsTrue
    <2> QED
      BY <1>11, <1>f, <2>4, <2>5 DEF QueryAnswers
  <1>12. ASSUME NEW o \in Orders, QueryFails(o) PROVE IInv'
    <2>1. /\ pass'.left = pass.left \ {o} /\ pass'.staged = pass.staged
          /\ UNCHANGED <<row, money>>
      BY <1>12 DEF QueryFails, TypeOK, PassRecord
    <2>2. PassHasOrders' /\ StagedIsTrue'
      BY <2>1, VerdictStays DEF PassHasOrders, StagedIsTrue, Exists
    <2> QED
      BY <1>12, <1>f, <2>2 DEF QueryFails
  <1>13. CASE PassDies
    BY <1>13, <1>f DEF PassDies, IdlePass, PassHasOrders, StagedIsTrue
  <1>14. CASE CommitPass
    <2>1. UNCHANGED <<money, page, tap, settler>> /\ PassHasOrders' /\ StagedIsTrue'
      BY <1>14 DEF CommitPass, IdlePass, PassHasOrders, StagedIsTrue
    <2>2. CASE Issuing \cap tickets # {}
      BY <1>14, <1>f, <2>1, <2>2 DEF CommitPass
    <2>3. CASE Issuing \cap tickets = {}
      <3>1. (\A o \in Orders : row'[o] = Reconciled(o)) /\ tickets' = tickets \cup Issuing
        BY <1>14, <2>3 DEF CommitPass
      <3>2. \A o \in Orders : Exists(o) => Exists(o)'
        BY <3>1, ReconciledRow DEF Exists
      <3>4. PaidHasTicket'
        BY <3>1, ReconciledRow DEF PaidHasTicket, Issuing, IssuesTicket
      <3>5. OwnMeans'
        <4> SUFFICES ASSUME NEW o \in Orders, row'[o].payload = "own"
                     PROVE  Paid(o) /\ (Good(o) => o \in tickets')
          BY <2>1, VerdictStays DEF OwnMeans
        <4>1. CASE row[o].payload = "own"
          BY <4>1, <3>1 DEF OwnMeans
        <4>2. CASE pass.staged[o] \notin {"nothing", "abandon"}
          <5>1. Paid(o) /\ pass.staged[o] = Verdict(o, o)
            BY <4>2 DEF StagedIsTrue
          <5> QED
            BY <5>1, <3>1 DEF Good, Issuing, IssuesTicket
        <4> QED
          BY <4>1, <4>2, <3>1, ReconciledRow
      <3> QED
        BY <2>1, <3>2, <3>4, <3>5, <1>p, <1>s, <1>t
    <2> QED
      BY <2>2, <2>3
  <1>15. ASSUME NEW o \in Orders, NEW payment \in Payments, Pay(o, payment) PROVE IInv'
    <2>1. /\ o \in page /\ ~Paid(o)
          /\ money'[o] = payment /\ \A p \in Orders : p # o => money'[p] = money[p]
          /\ UNCHANGED <<row, tickets, page, tap, settler, pass>>
      BY <1>15 DEF Pay, TypeOK
    <2>2. Paid(o)'
      BY <2>1, PriceAssumption DEF Paid
    <2>3. PaidHasTicket' /\ OwnMeans'
      BY <2>1, VerdictStays DEF PaidHasTicket, OwnMeans
    <2>4. \A p \in Orders : (Paid(p) => Paid(p)') /\ (Exists(p)' <=> Exists(p))
      BY <2>1, <2>2, VerdictStays DEF Exists
    <2>5. PagesHaveOrders' /\ TapsHaveOrders' /\ PassHasOrders'
      BY <2>1, <2>4, VerdictStays DEF PagesHaveOrders, TapsHaveOrders, PassHasOrders, TypeOK
    <2>6. SettlersHaveOrders'
      BY <2>1, <2>4 DEF SettlersHaveOrders, TypeOK, SettlerRecord
    <2>7. StagedIsTrue'
      BY <2>1, VerdictStays DEF StagedIsTrue
    <2> QED
      BY <2>3, <2>5, <2>6, <2>7
  <1>16. ASSUME NEW o \in Orders, GrowOlder(o) PROVE IInv'
    BY <1>16, <1>c DEF GrowOlder, TapsHaveOrders, Exists
  <1>17. CASE UNCHANGED vars
    BY <1>17, <1>c DEF vars, TapsHaveOrders, Exists
  <1> QED
    BY <1>1, <1>2, <1>3, <1>4, <1>5, <1>6, <1>7, <1>8, <1>9, <1>10, <1>11, <1>12, <1>13, <1>14,
       <1>15, <1>16, <1>17
       DEF Next, TapStep, SettleStep, ReconcilerStep, EnvStep

-----------------------------------------------------------------------------
(* The strengthening holds of every behaviour.                               *)
THEOREM Inductive == Spec => []IInv
  <1>1. Init => IInv
    <2> SUFFICES ASSUME Init PROVE IInv
      OBVIOUS
    <2>1. TypeOK
      BY InitTyped
    <2>2. \A o \in Orders :
            /\ o \in Sold => Paid(o) /\ Exists(o) /\ o \in tickets /\ o \in page
            /\ o \notin Sold => /\ ~Paid(o) /\ o \notin page
                                /\ row[o].status = "absent" /\ row[o].payload = "null"
      BY PriceAssumption DEF Init, NoMoney, Paid, Exists
    <2>3. PaidHasTicket /\ OwnMeans /\ PagesHaveOrders
      BY <2>2 DEF PaidHasTicket, OwnMeans, PagesHaveOrders
    <2>4. TapsHaveOrders /\ SettlersHaveOrders
      BY BatchAssumption DEF Init, TapsHaveOrders, SettlersHaveOrders, Idle, NoReport
    <2>5. PassHasOrders /\ StagedIsTrue
      BY DEF Init, PassHasOrders, StagedIsTrue, IdlePass
    <2> QED
      BY <2>1, <2>3, <2>4, <2>5 DEF IInv
  <1> QED
    BY <1>1, InvStep, PTL DEF Spec

(* No interleaving of return, IPN, double tap and reconciler leaves an order  *)
(* `paid` without its ticket.                                                *)
THEOREM PaidIsTicketed == Spec => []PaidHasTicket
  BY Inductive, PTL DEF IInv

(* Good money without a ticket always stays where _unsettled can find it,    *)
(* unless a report named no payment of the order.                            *)
THEOREM NoMoneyLost == Spec => []MoneyInReach
  <1>1. IInv => MoneyInReach
    <2> SUFFICES ASSUME IInv, NEW o \in Orders, Good(o), o \notin tickets
                 PROVE  /\ row[o].status \in Open \cup Declined
                        /\ row[o].payload \in {"null", "other"}
      BY DEF MoneyInReach
    <2>1. row[o].payload \in {"null", "other"}
      BY DEF IInv, OwnMeans, TypeOK, Payload
    <2>2. Paid(o)
      <3>1. o \in Orders \cup {"unknown"}
        OBVIOUS
      <3>2. money[o].amount = Price[o]
        BY <3>1, VerdictMeans DEF Good, IInv
      <3> QED
        BY <3>2, PriceAssumption DEF Paid
    <2>3. row[o].status \in Status \ {"absent", "paid"}
      BY <2>2 DEF IInv, TypeOK, PaidHasTicket, PagesHaveOrders, Exists
    <2> QED
      BY <2>1, <2>3 DEF Status, Open, Declined
  <1> QED
    BY <1>1, Inductive, PTL

(* Every step of the store takes money, issues tickets not issued before, or *)
(* leaves both alone, and a ticket has good money behind it: its own order's *)
(* or, where the report named another payment, that one: the store           *)
(* implements Purchase.                                                      *)
THEOREM ImplementsPurchase == Spec => SellsOnce
  <1> DEFINE Taken == [o \in Orders |-> IF money[o].risky THEN 0 ELSE money[o].amount]
             Misnamed == {o \in Orders : row[o].payload = "other"}
  <1>1. Init => P!Init
    <2> SUFFICES ASSUME Init PROVE P!Init
      OBVIOUS
    <2>1. Taken = [o \in Orders |-> IF o \in Sold THEN Price[o] ELSE 0]
      BY DEF Init, NoMoney
    <2>2. Misnamed = {} /\ tickets = Sold
      BY DEF Init
    <2> QED
      BY <2>1, <2>2 DEF P!Init
  <1>2. IInv /\ [Next]_vars => [P!Next]_(P!pvars)
    <2> SUFFICES ASSUME IInv, [Next]_vars PROVE [P!Next]_(P!pvars)
      OBVIOUS
    (* Money of the order's price stands behind a good verdict.            *)
    <2>a. ASSUME NEW o \in Orders, NEW p \in Orders, Verdict(o, p) = "ok"
          PROVE  Taken[p] = Price[o]
      <3>1. money[p].amount = Price[o] /\ ~money[p].risky
        BY <2>a, VerdictMeans DEF IInv
      <3> QED
        BY <3>1
    <2>1. ASSUME NEW o \in Orders, NEW payment \in Payments, Pay(o, payment)
          PROVE  [P!Next]_(P!pvars)
      <3>1. /\ ~Paid(o) /\ money' = [money EXCEPT ![o] = payment]
            /\ money \in [Orders -> [amount : Nat, risky : BOOLEAN]]
            /\ UNCHANGED <<row, tickets>>
        BY <2>1 DEF Pay, IInv, TypeOK
      <3>2. Taken[o] = 0 /\ \A p \in Orders : p # o => Taken'[p] = Taken[p]
        BY <3>1 DEF Paid
      <3>3. Taken' = [Taken EXCEPT ![o] = Taken'[o]]
        BY <3>2
      <3>4. P!TakeMoney(o)
        BY <3>1, <3>2, <3>3 DEF P!TakeMoney
      <3> QED
        BY <3>4 DEF P!Next
    (* Every other step leaves the money and issues tickets, or none.      *)
    <2>3. ASSUME NEW S \in SUBSET Orders, UNCHANGED money, tickets' = tickets \cup S,
                 S \cap tickets = {},
                 \A o \in S : \/ Verdict(o, o) = "ok"
                              \/ /\ row'[o].payload = "other"
                                 /\ \E p \in Orders \ {o} : Verdict(o, p) = "ok"
          PROVE  [P!Next]_(P!pvars)
      <3>1. Taken' = Taken /\ Misnamed' \in SUBSET Orders
        BY <2>3
      <3>2. \A o \in S : Taken[o] = Price[o]
               \/ (o \in Misnamed' /\ \E p \in Orders \ {o} : Taken[p] = Price[o])
        BY <2>3, <2>a
      <3>3. P!IssueTickets(S)
        BY <2>3, <3>1, <3>2 DEF P!IssueTickets, P!OwnMoney, P!OthersMoney
      <3> QED
        BY <3>3 DEF P!Next
    <2>2. ASSUME UNCHANGED <<money, tickets>> PROVE [P!Next]_(P!pvars)
      <3>1. tickets' = tickets \cup {} /\ {} \cap tickets = {} /\ {} \in SUBSET Orders
        BY <2>2
      <3> QED
        BY <2>2, <2>3, <3>1
    <2>4. ASSUME NEW s \in Settlers, SettleValidated(s) PROVE [P!Next]_(P!pvars)
      <3> DEFINE o == settler[s].order
                 val == settler[s].val
      <3>1. /\ o \in Orders /\ settler[s].seen \in Status /\ UNCHANGED money
            /\ val \in Orders \cup {"unknown"}
            /\ row[o] \in [status : Status, payload : Payload]
        BY <2>4 DEF SettleValidated, IInv, TypeOK, SettlerRecord
      <3>2. CASE tickets' = tickets
        BY <2>2, <3>1, <3>2
      <3>3. CASE tickets' # tickets
        <4>1. /\ Verdict(o, val) = "ok" /\ o \notin tickets /\ tickets' = tickets \cup {o}
              /\ row'[o] = Confirm(row[o], settler[s].seen, Verdict(o, val),
                                   IF val = o THEN "own" ELSE "other")
          BY <2>4, <3>1, <3>3 DEF SettleValidated, IssuesTicket, IInv, TypeOK
        <4>2. val \in Orders
          BY <3>1, <4>1, VerdictMeans DEF IInv
        <4>3. val # o => row'[o].payload = "other"
          BY <3>1, <4>1, ConfirmWrites DEF Payload
        <4>4. {o} \in SUBSET Orders /\ {o} \cap tickets = {}
          BY <3>1, <4>1
        <4>5. \/ Verdict(o, o) = "ok"
              \/ /\ row'[o].payload = "other"
                 /\ \E p \in Orders \ {o} : Verdict(o, p) = "ok"
          BY <4>1, <4>2, <4>3
        <4> HIDE DEF o
        <4> QED
          BY <2>3, <3>1, <4>1, <4>4, <4>5
      <3> QED
        BY <3>2, <3>3
    <2>5. CASE CommitPass
      <3>1. UNCHANGED money
        BY <2>5 DEF CommitPass
      <3>2. CASE tickets' = tickets
        BY <2>2, <3>1, <3>2
      <3>3. CASE tickets' # tickets
        <4>1. tickets' = tickets \cup Issuing /\ Issuing \cap tickets = {}
          BY <2>5, <3>3 DEF CommitPass
        <4>2. Issuing \subseteq Orders /\ \A o \in Issuing : Verdict(o, o) = "ok"
          BY DEF Issuing, IssuesTicket, IInv, StagedIsTrue
        <4> QED
          BY <2>3, <3>1, <4>1, <4>2
      <3> QED
        BY <3>2, <3>3
    <2>6. CASE UNCHANGED vars
      BY <2>2, <2>6 DEF vars
    <2> QED
      BY <2>1, <2>2, <2>4, <2>5, <2>6
         DEF Next, TapStep, SettleStep, ReconcilerStep, EnvStep, TapLookup, TapInsert, TapReload,
             OpenCheckout, TapDies, SettleLookup, SettleDeclined, SettlerDies, StartPass,
             QueryAnswers, QueryFails, PassDies, GrowOlder
  <1> QED
    BY <1>1, <1>2, Inductive, PTL DEF Spec, SellsOnce, P!Spec
=============================================================================
