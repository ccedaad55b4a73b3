--------------------------- MODULE BoardingProofs ---------------------------
(***************************************************************************)
(* Proofs about Boarding, for any tickets, codes, devices and requests.      *)
(***************************************************************************)
EXTENDS Boarding, FiniteSetTheorems, WellFoundedInduction, TLAPS

(* A session that judges an item, or keeps a ticket between items, has a     *)
(* copy that may be stale, but never one of a ticket that came back to       *)
(* active: no code path restores a ticket.                                   *)
Closed(row) == row.status # "active"
NotAhead(r) ==
    /\ req[r].pc \in {"look", "write"} /\ Closed(req[r].snap) => Closed(ticket[TicketOf[req[r].code]])
    /\ req[r].pc = "next" /\ req[r].held \in Tickets /\ Closed(req[r].snap) => Closed(ticket[req[r].held])
CopiesNotAhead == \A r \in Requests : NotAhead(r)

(* What the sweep is about to suspend has not been alerted for, and what has *)
(* been is closed.                                                           *)
AlertsClose == \A k \in Tickets :
    /\ alerts[k] \in {0, 1}
    /\ alerts[k] = 1 => Closed(ticket[k])
    /\ k \in sweep.suspending => alerts[k] = 0

IInv == TypeOK /\ EmptyIsClosed /\ CopiesNotAhead /\ AlertsClose

-----------------------------------------------------------------------------
(* A deduction leaves a ticket row.                                          *)
LEMMA DeductType ==
    ASSUME NEW row \in TicketRow, NEW copy \in TicketRow, NEW n \in Nat
    PROVE  Deduct(row, copy, n) \in TicketRow
  <1>1. copy.remaining # Unlimited => copy.remaining \in Nat
    BY DEF TicketRow
  <1>2. CASE n = 0 \/ copy.remaining = Unlimited
    BY <1>2 DEF Deduct
  <1>3. CASE ~(n = 0 \/ copy.remaining = Unlimited)
    <2>1. (IF copy.remaining > n THEN copy.remaining - n ELSE 0) \in Nat
      BY <1>1, <1>3
    <2>2. row.status \in Statuses /\ "exhausted" \in Statuses
      BY DEF TicketRow, Statuses
    <2> QED
      BY <1>3, <2>1, <2>2 DEF Deduct, TicketRow
  <1> QED
    BY <1>2, <1>3

(* A deduction never reopens a ticket, and closes one it empties provided    *)
(* the copy it is computed on is not ahead of the row.                       *)
LEMMA DeductCloses ==
    ASSUME NEW row \in TicketRow, NEW copy \in TicketRow, NEW n \in Nat,
           Closed(copy) => Closed(row)
    PROVE  /\ Closed(row) => Closed(Deduct(row, copy, n))
           /\ Closed(Deduct(copy, copy, n)) => Closed(Deduct(row, copy, n))
           /\ n # 0 /\ copy.remaining # Unlimited /\ Deduct(row, copy, n).remaining = 0
                => Closed(Deduct(row, copy, n))
           /\ n = 0 \/ copy.remaining = Unlimited => Deduct(row, copy, n) = row
  <1>1. copy.remaining # Unlimited => copy.remaining \in Nat
    BY DEF TicketRow
  <1> QED
    BY <1>1 DEF Deduct, Closed

(* What the records of the module look like.                                 *)
LEMMA Records == NoTicket \in TicketRow /\ NoReq \in Request
  BY DEF NoTicket, NoReq, Request, TicketRow, Statuses, Flags

(* Answering an item touches one request, which goes back to `next`.         *)
LEMMA AnsweredShape ==
    ASSUME TypeOK, NEW r \in Requests, NEW h \in Tickets \cup {"none"}, NEW t \in TicketRow,
           req[r].code \in Codes, req[r].pc \in {"look", "write"}, Answered(r, h, t)
    PROVE  /\ req' \in [Requests -> Request]
           /\ \A q \in Requests : q # r => req'[q] = req[q]
           /\ req'[r].pc = "next" /\ req'[r].held = h /\ req'[r].snap = t
           /\ req'[r].device = req[r].device
  <1>1. req[r] \in Request
    BY DEF TypeOK
  <1>2. [req[r] EXCEPT !.pc = "next", !.done = @ \cup {req[r].code}, !.code = "none", !.flag = "ok",
                       !.held = h, !.snap = t] \in Request
    BY <1>1 DEF Request, Flags
  <1>3. req' = [req EXCEPT ![r] = [req[r] EXCEPT !.pc = "next", !.done = @ \cup {req[r].code},
                                                 !.code = "none", !.flag = "ok",
                                                 !.held = h, !.snap = t]]
    BY DEF Answered
  <1>4. req \in [Requests -> Request]
    BY DEF TypeOK
  <1> QED
    BY <1>1, <1>2, <1>3, <1>4 DEF Request

(* The copy kept after an item is a ticket row.                              *)
LEMMA CopyType ==
    ASSUME TypeOK, NEW r \in Requests, NEW rows \in [Tickets -> TicketRow], NEW k \in Tickets, NEW n \in Nat
    PROVE  Copy(r, rows, k, n) \in TicketRow
  <1>1. req[r].snap \in TicketRow
    BY DEF TypeOK, Request
  <1> QED
    BY <1>1, DeductType DEF Copy

-----------------------------------------------------------------------------
(* No step of a door, of a sync or of the sweep leaves the types.            *)
LEMMA TypeStep == TypeOK /\ [Next]_vars => TypeOK'
  <1> SUFFICES ASSUME TypeOK, [Next]_vars PROVE TypeOK'
    OBVIOUS
  <1> USE DEF TypeOK
  <1>1. CASE Tick
    BY <1>1, CodesAssumption DEF Tick, marks
  <1>2. ASSUME NEW c \in Codes, Show(c) PROVE TypeOK'
    BY <1>2 DEF Show, marks
  <1>3. ASSUME NEW d \in Devices, NEW c \in Codes, Scan(d, c) PROVE TypeOK'
    BY <1>3 DEF Scan, marks
  <1>4. ASSUME NEW r \in Requests, NEW d \in Devices, SyncStart(r, d) PROVE TypeOK'
    <2>1. [NoReq EXCEPT !.pc = "next", !.device = d, !.todo = outbox[d]] \in Request
      BY Records DEF Request
    <2>2. /\ req' = [req EXCEPT ![r] = [NoReq EXCEPT !.pc = "next", !.device = d, !.todo = outbox[d]]]
          /\ UNCHANGED <<clock, shown, outbox, scanned, ticket, redemptions, sweep, alerts, missed, crossed>>
      BY <1>4 DEF SyncStart, doors, marks
    <2>3. req' \in [Requests -> Request] /\ req'[r].device = d /\ req'[r].pc = "next"
          /\ \A q \in Requests : q # r => req'[q] = req[q]
      BY <2>1, <2>2 DEF NoReq
    <2> QED
      BY <2>2, <2>3
  <1>5. ASSUME NEW r \in Requests, NEW c \in Codes, ItemLoad(r, c) PROVE TypeOK'
    <2>1. Loaded(r, TicketOf[c]) \in TicketRow
      BY CodesAssumption DEF Loaded, Request
    <2>2. /\ req' = [req EXCEPT ![r] = [req[r] EXCEPT !.pc = "look", !.todo = @ \ {c}, !.code = c,
                                                     !.snap = Loaded(r, TicketOf[c])]]
          /\ req[r].pc = "next"
          /\ UNCHANGED <<clock, shown, outbox, scanned, ticket, redemptions, sweep, alerts, missed, crossed>>
      BY <1>5 DEF ItemLoad, doors, marks
    <2>3. req[r] \in Request
      OBVIOUS
    <2>4. [req[r] EXCEPT !.pc = "look", !.todo = @ \ {c}, !.code = c,
                         !.snap = Loaded(r, TicketOf[c])] \in Request
      BY <2>1, <2>3 DEF Request
    <2>5. /\ req' \in [Requests -> Request]
          /\ req'[r].device = req[r].device /\ req'[r].code = c
          /\ \A q \in Requests : q # r => req'[q] = req[q]
      BY <2>2, <2>3, <2>4 DEF Request
    <2> QED
      BY <2>2, <2>5
  <1>6. ASSUME NEW r \in Requests, NEW c \in Codes, ItemRefused(r, c) PROVE TypeOK'
    <2>1. /\ req' = [req EXCEPT ![r] = [req[r] EXCEPT !.todo = @ \ {c}, !.done = @ \cup {c},
                                                     !.held = "none", !.snap = NoTicket]]
          /\ req[r].pc = "next"
          /\ UNCHANGED <<clock, shown, outbox, scanned, ticket, redemptions, sweep, alerts, missed, crossed>>
      BY <1>6 DEF ItemRefused, doors, marks
    <2>2. req[r] \in Request
      OBVIOUS
    <2>3. [req[r] EXCEPT !.todo = @ \ {c}, !.done = @ \cup {c},
                         !.held = "none", !.snap = NoTicket] \in Request
      BY <2>2, Records DEF Request
    <2>4. /\ req' \in [Requests -> Request]
          /\ req'[r].device = req[r].device /\ req'[r].pc = "next"
          /\ \A q \in Requests : q # r => req'[q] = req[q]
      BY <2>1, <2>2, <2>3 DEF Request
    <2> QED
      BY <2>1, <2>4
  <1>7. ASSUME NEW r \in Requests, FirstSighting(r) PROVE TypeOK'
    <2>1. CASE Covers(req[r].snap, req[r].code)
      <3>1. /\ req' = [req EXCEPT ![r] = [req[r] EXCEPT !.pc = "write"]]
            /\ req[r].pc = "look" /\ req[r] \in Request
        BY <1>7, <2>1 DEF FirstSighting
      <3>2. [req[r] EXCEPT !.pc = "write"] \in Request
        BY <3>1 DEF Request
      <3>3. /\ req' \in [Requests -> Request]
            /\ req'[r].device = req[r].device /\ req'[r].code = req[r].code
            /\ \A q \in Requests : q # r => req'[q] = req[q]
        BY <3>1, <3>2 DEF Request
      <3> QED
        BY <1>7, <3>1, <3>3 DEF FirstSighting, doors, marks
    <2>2. CASE ~Covers(req[r].snap, req[r].code)
      <3>1. /\ Answered(r, "none", NoTicket)
            /\ req[r].pc = "look" /\ req[r].code \in Codes
        BY <1>7, <2>2 DEF FirstSighting
      <3>2. req' \in [Requests -> Request] /\ req'[r].pc = "next" /\ req'[r].device = req[r].device
            /\ \A q \in Requests : q # r => req'[q] = req[q]
        BY <3>1, Records, AnsweredShape
      <3> QED
        BY <1>7, <3>1, <3>2 DEF FirstSighting, doors, marks
    <2> QED
      BY <2>1, <2>2
  <1>8. ASSUME NEW r \in Requests, OwnSighting(r) PROVE TypeOK'
    <2> DEFINE k == TicketOf[req[r].code]
    <2>1. req[r].pc = "look" /\ req[r].code \in Codes /\ k \in Tickets
      BY <1>8, CodesAssumption DEF OwnSighting
    <2>2. Copy(r, ticket, k, 0) \in TicketRow
      BY <2>1, CopyType
    <2>3. Answered(r, k, Copy(r, ticket, k, 0))
      BY <1>8 DEF OwnSighting
    <2>4. req' \in [Requests -> Request] /\ req'[r].pc = "next" /\ req'[r].device = req[r].device
          /\ \A q \in Requests : q # r => req'[q] = req[q]
      BY <2>1, <2>2, <2>3, AnsweredShape
    <2> QED
      BY <1>8, <2>1, <2>4 DEF OwnSighting, doors, marks
  <1>9. ASSUME NEW r \in Requests, OtherSighting(r) PROVE TypeOK'
    <2>1. req[r] \in Request /\ "duplicate_suspect" \in Flags
      BY DEF Flags
    <2>2. [req[r] EXCEPT !.pc = "write", !.flag = "duplicate_suspect"] \in Request
      BY <2>1 DEF Request
    <2>3. /\ req' = [req EXCEPT ![r] = [req[r] EXCEPT !.pc = "write", !.flag = "duplicate_suspect"]]
          /\ UNCHANGED <<clock, shown, outbox, scanned, ticket, redemptions, sweep, alerts, missed, crossed>>
          /\ req[r].pc = "look"
      BY <1>9, <2>1 DEF OtherSighting, doors, marks, Request
    <2>4. /\ req' \in [Requests -> Request]
          /\ req'[r].device = req[r].device /\ req'[r].code = req[r].code
          /\ \A q \in Requests : q # r => req'[q] = req[q]
      BY <2>1, <2>2, <2>3 DEF Request
    <2> QED
      BY <2>3, <2>4
  <1>10. ASSUME NEW r \in Requests, Write(r) PROVE TypeOK'
    <2> DEFINE c == req[r].code
               k == TicketOf[c]
               n == IF req[r].flag = "ok" THEN CountOf[c] ELSE 0
    <2>1. /\ req[r].pc = "write" /\ c \in Codes /\ k \in Tickets /\ n \in Nat
          /\ req[r].snap \in TicketRow /\ req[r].flag \in Flags /\ req[r].device \in Devices
      <3>1. req[r].pc = "write" /\ req[r] \in Request /\ c \in Codes /\ req[r].device \in Devices
        BY <1>10 DEF Write
      <3>2. k \in Tickets /\ CountOf[c] \in Nat
        BY <3>1, CodesAssumption
      <3>3. n \in Nat
        BY <3>2
      <3> QED
        BY <3>1, <3>2, <3>3 DEF Request
    <2>2. \E h \in Tickets \cup {"none"}, t \in TicketRow :
             Answered(r, h, t) /\ ticket' \in [Tickets -> TicketRow]
             /\ redemptions' \subseteq [device : Devices, code : Codes, flag : Flags]
      <3>1. CASE \E x \in Sightings(c) : x.device = req[r].device
        BY <1>10, <3>1, Records DEF Write
      <3>2. CASE ~\E x \in Sightings(c) : x.device = req[r].device
        <4>1. /\ ticket' = [ticket EXCEPT ![k] = Deduct(@, req[r].snap, n)]
              /\ redemptions' = redemptions \cup
                   {[device |-> req[r].device, code |-> c, flag |-> req[r].flag]}
              /\ Answered(r, k, Copy(r, ticket', k, n))
          BY <1>10, <3>2 DEF Write
        <4>2. Deduct(ticket[k], req[r].snap, n) \in TicketRow
          BY <2>1, DeductType
        <4>3. ticket' \in [Tickets -> TicketRow]
          BY <4>1, <4>2
        <4>4. Copy(r, ticket', k, n) \in TicketRow
          BY <2>1, <4>3, CopyType
        <4> QED
          BY <2>1, <4>1, <4>3, <4>4
      <3> QED
        BY <3>1, <3>2
    <2>3. req' \in [Requests -> Request] /\ req'[r].pc = "next" /\ req'[r].device = req[r].device
          /\ \A q \in Requests : q # r => req'[q] = req[q]
      BY <2>1, <2>2, AnsweredShape
    <2>4. missed' \subseteq Codes /\ crossed' \subseteq Tickets
      BY <1>10, <2>1 DEF Write, MarkRaces, marks
    <2> QED
      BY <1>10, <2>1, <2>2, <2>3, <2>4 DEF Write, doors
  <1>11. ASSUME NEW r \in Requests, Reply(r) PROVE TypeOK'
    BY <1>11, Records DEF Reply, NoReq, marks
  <1>12. ASSUME NEW r \in Requests, SyncDies(r) PROVE TypeOK'
    BY <1>12, Records DEF SyncDies, NoReq, doors, marks
  <1>13. CASE SweepLoad
    <2>1. PICK E \in SUBSET Evidence :
             sweep' = [NoSweep EXCEPT !.running = TRUE, !.todo = {TicketOf[c] : c \in E}]
      BY <1>13 DEF SweepLoad
    <2>2. {TicketOf[c] : c \in E} \subseteq Tickets
      BY CodesAssumption DEF Evidence
    <2>3. sweep' \in [running : BOOLEAN, todo : SUBSET Tickets, suspending : SUBSET Tickets]
      BY <2>1, <2>2 DEF NoSweep
    <2> QED
      BY <1>13, <2>3 DEF SweepLoad, doors, marks
  <1>14. ASSUME NEW k \in Tickets, SweepGet(k) PROVE TypeOK'
    <2>1. sweep' \in [running : BOOLEAN, todo : SUBSET Tickets, suspending : SUBSET Tickets]
      BY <1>14 DEF SweepGet
    <2> QED
      BY <1>14, <2>1 DEF SweepGet, doors, marks
  <1>15. CASE SweepCommit
    <2>1. ticket' \in [Tickets -> TicketRow]
      BY <1>15 DEF SweepCommit, TicketRow, Statuses
    <2>2. alerts' \in [Tickets -> Nat]
      BY <1>15 DEF SweepCommit
    <2> QED
      BY <1>15, <2>1, <2>2 DEF SweepCommit, NoSweep, doors, marks
  <1>16. CASE SweepDies
    BY <1>16 DEF SweepDies, NoSweep, doors, marks
  <1>17. CASE UNCHANGED vars
    BY <1>17 DEF vars, marks
  <1> QED
    BY <1>1, <1>2, <1>3, <1>4, <1>5, <1>6, <1>7, <1>8, <1>9, <1>10, <1>11, <1>12, <1>13, <1>14,
       <1>15, <1>16, <1>17 DEF Next, DoorStep, SyncStep, ItemStep, SweepStep

-----------------------------------------------------------------------------
(* A step that changes one request, and closes tickets but opens none, need  *)
(* only look at that request's copy.                                         *)
LEMMA OneCopy ==
    ASSUME IInv, NEW r \in Requests,
           \A q \in Requests : q # r => req'[q] = req[q],
           \A k \in Tickets : Closed(ticket[k]) => Closed(ticket'[k]),
           NotAhead(r)'
    PROVE  CopiesNotAhead'
  <1> SUFFICES ASSUME NEW q \in Requests, q # r PROVE NotAhead(q)'
    BY DEF CopiesNotAhead
  <1>1. NotAhead(q) /\ req'[q] = req[q]
    BY DEF IInv, CopiesNotAhead
  <1>2. req[q].pc \in {"look", "write"} => TicketOf[req[q].code] \in Tickets
    BY CodesAssumption DEF IInv, TypeOK
  <1> QED
    BY <1>1, <1>2 DEF NotAhead

(* The sweep's conjunct and the empty tickets look at these variables only.  *)
LEMMA RowsKept ==
    ASSUME IInv, UNCHANGED <<ticket, sweep, alerts>>
    PROVE  EmptyIsClosed' /\ AlertsClose'
  <1>1. ticket' = ticket /\ sweep' = sweep /\ alerts' = alerts
    OBVIOUS
  <1>2. EmptyIsClosed'
    BY <1>1 DEF IInv, EmptyIsClosed
  <1>3. AlertsClose'
    BY <1>1 DEF IInv, AlertsClose, Closed
  <1> QED
    BY <1>2, <1>3

(* A recorded item: the row, the copy it was computed on and the one kept.   *)
LEMMA WriteStep ==
    ASSUME IInv, TypeOK', NEW r \in Requests, Write(r)
    PROVE  EmptyIsClosed' /\ AlertsClose' /\ CopiesNotAhead'
  <1> DEFINE c == req[r].code
             k == TicketOf[c]
             n == IF req[r].flag = "ok" THEN CountOf[c] ELSE 0
             copy == req[r].snap
  <1>1. /\ TypeOK /\ req[r].pc = "write" /\ c \in Codes /\ k \in Tickets /\ n \in Nat
        /\ copy \in TicketRow /\ ticket[k] \in TicketRow
        /\ UNCHANGED <<sweep, alerts>>
    <2>1. TypeOK /\ req[r].pc = "write" /\ UNCHANGED <<sweep, alerts>>
      BY DEF IInv, Write
    <2>2. c \in Codes /\ req[r] \in Request
      BY <2>1 DEF TypeOK
    <2>3. k \in Tickets /\ n \in Nat
      BY <2>2, CodesAssumption
    <2> QED
      BY <2>1, <2>2, <2>3 DEF TypeOK, Request
  <1>2. Closed(copy) => Closed(ticket[k])
    BY <1>1 DEF IInv, CopiesNotAhead, NotAhead
  <1>3. CASE \E x \in Sightings(c) : x.device = req[r].device
    <2>1. Answered(r, "none", NoTicket) /\ UNCHANGED <<ticket, redemptions>>
      BY <1>3 DEF Write
    <2>2. /\ \A q \in Requests : q # r => req'[q] = req[q]
          /\ req'[r].pc = "next" /\ req'[r].held = "none" /\ req'[r].snap = NoTicket
      BY <1>1, <2>1, Records, AnsweredShape
    <2>3. NotAhead(r)'
      BY <2>2 DEF NotAhead, Closed, NoTicket
    <2> QED
      BY <1>1, <2>1, <2>2, <2>3, OneCopy, RowsKept
  <1>4. CASE ~\E x \in Sightings(c) : x.device = req[r].device
    <2>1. /\ ticket' = [ticket EXCEPT ![k] = Deduct(@, copy, n)]
          /\ Answered(r, k, Copy(r, ticket', k, n))
      BY <1>4 DEF Write
    <2>2. /\ ticket'[k] = Deduct(ticket[k], copy, n)
          /\ \A j \in Tickets : j # k => ticket'[j] = ticket[j]
          /\ ticket' \in [Tickets -> TicketRow]
      BY <1>1, <2>1 DEF TypeOK
    <2>3. /\ Closed(ticket[k]) => Closed(ticket'[k])
          /\ Closed(Deduct(copy, copy, n)) => Closed(ticket'[k])
          /\ n # 0 /\ copy.remaining # Unlimited /\ ticket'[k].remaining = 0 => Closed(ticket'[k])
          /\ n = 0 \/ copy.remaining = Unlimited => ticket'[k] = ticket[k]
      BY <1>1, <1>2, <2>2, DeductCloses
    <2>4. \A j \in Tickets : Closed(ticket[j]) => Closed(ticket'[j])
      BY <2>2, <2>3
    <2>5. EmptyIsClosed'
      BY <2>2, <2>3 DEF IInv, EmptyIsClosed, Closed
    <2>6. AlertsClose'
      BY <1>1, <2>4 DEF IInv, AlertsClose
    <2>7. Copy(r, ticket', k, n) \in TicketRow
      BY <1>1, <2>2, CopyType
    <2>8. /\ \A q \in Requests : q # r => req'[q] = req[q]
          /\ req'[r].pc = "next" /\ req'[r].held = k /\ req'[r].snap = Copy(r, ticket', k, n)
      BY <1>1, <2>1, <2>7, AnsweredShape
    <2>9. Closed(Copy(r, ticket', k, n)) => Closed(ticket'[k])
      BY <2>3 DEF Copy
    <2>10. NotAhead(r)'
      BY <2>8, <2>9 DEF NotAhead
    <2> QED
      BY <2>4, <2>5, <2>6, <2>8, <2>10, OneCopy
  <1> QED
    BY <1>3, <1>4

(* Every step keeps the invariant.                                           *)
LEMMA InvStep == IInv /\ [Next]_vars => IInv'
  <1> SUFFICES ASSUME IInv, [Next]_vars PROVE EmptyIsClosed' /\ AlertsClose' /\ CopiesNotAhead'
    BY TypeStep DEF IInv
  <1> USE CodesAssumption
  <1>1. TypeOK /\ TypeOK'
    BY TypeStep DEF IInv
  <1>2. CASE DoorStep \/ UNCHANGED vars
    <2>1. UNCHANGED <<ticket, req, sweep, alerts>>
      BY <1>2 DEF DoorStep, Tick, Show, Scan, vars
    <2>2. CopiesNotAhead'
      BY <2>1 DEF IInv, CopiesNotAhead, NotAhead, Closed
    <2> QED
      BY <2>1, <2>2, RowsKept
  <1>3. ASSUME NEW r \in Requests, NEW d \in Devices, SyncStart(r, d)
        PROVE  EmptyIsClosed' /\ AlertsClose' /\ CopiesNotAhead'
    <2>1. /\ req' = [req EXCEPT ![r] = [NoReq EXCEPT !.pc = "next", !.device = d, !.todo = outbox[d]]]
          /\ UNCHANGED <<ticket, sweep, alerts>>
      BY <1>3 DEF SyncStart
    <2>2. /\ \A q \in Requests : q # r => req'[q] = req[q]
          /\ req'[r].pc = "next" /\ req'[r].snap = NoTicket
      BY <1>1, <2>1 DEF TypeOK, NoReq
    <2>3. NotAhead(r)'
      BY <2>2 DEF NotAhead, Closed, NoTicket
    <2> QED
      BY <2>1, <2>2, <2>3, OneCopy, RowsKept
  <1>4. ASSUME NEW r \in Requests, NEW c \in Codes, ItemLoad(r, c)
        PROVE  EmptyIsClosed' /\ AlertsClose' /\ CopiesNotAhead'
    <2> DEFINE k == TicketOf[c]
    <2>1. /\ req' = [req EXCEPT ![r] = [req[r] EXCEPT !.pc = "look", !.todo = @ \ {c}, !.code = c,
                                                     !.snap = Loaded(r, k)]]
          /\ req[r].pc = "next"
          /\ UNCHANGED <<ticket, sweep, alerts>>
      BY <1>4 DEF ItemLoad
    <2>2. req[r] \in Request /\ req \in [Requests -> Request]
      BY <1>1 DEF TypeOK
    <2>3. /\ \A q \in Requests : q # r => req'[q] = req[q]
          /\ req'[r].pc = "look" /\ req'[r].snap = Loaded(r, k) /\ req'[r].code = c
      BY <2>1, <2>2 DEF Request
    <2>4. Closed(Loaded(r, k)) => Closed(ticket[k])
      BY <2>1 DEF Loaded, IInv, CopiesNotAhead, NotAhead
    <2>5. NotAhead(r)'
      BY <2>1, <2>3, <2>4 DEF NotAhead, Closed
    <2> QED
      BY <2>1, <2>3, <2>5, OneCopy, RowsKept
  <1>5. ASSUME NEW r \in Requests, NEW c \in Codes, ItemRefused(r, c)
        PROVE  EmptyIsClosed' /\ AlertsClose' /\ CopiesNotAhead'
    <2>1. /\ req' = [req EXCEPT ![r] = [req[r] EXCEPT !.todo = @ \ {c}, !.done = @ \cup {c},
                                                     !.held = "none", !.snap = NoTicket]]
          /\ req[r].pc = "next"
          /\ UNCHANGED <<ticket, sweep, alerts>>
      BY <1>5 DEF ItemRefused
    <2>2. req[r] \in Request /\ req \in [Requests -> Request]
      BY <1>1 DEF TypeOK
    <2>3. /\ \A q \in Requests : q # r => req'[q] = req[q]
          /\ req'[r].pc = "next" /\ req'[r].snap = NoTicket
      BY <2>1, <2>2 DEF Request
    <2>4. NotAhead(r)'
      BY <2>3 DEF NotAhead, Closed, NoTicket
    <2> QED
      BY <2>1, <2>3, <2>4, OneCopy, RowsKept
  <1>6. ASSUME NEW r \in Requests, FirstSighting(r)
        PROVE  EmptyIsClosed' /\ AlertsClose' /\ CopiesNotAhead'
    <2>1. /\ req[r].pc = "look" /\ req[r].code \in Codes /\ NotAhead(r)
          /\ req[r] \in Request /\ req \in [Requests -> Request]
          /\ UNCHANGED <<ticket, sweep, alerts>>
      BY <1>1, <1>6 DEF FirstSighting, TypeOK, IInv, CopiesNotAhead
    <2>2. CASE Covers(req[r].snap, req[r].code)
      <3>1. /\ \A q \in Requests : q # r => req'[q] = req[q]
            /\ req'[r] = [req[r] EXCEPT !.pc = "write"]
        BY <1>6, <2>1, <2>2 DEF FirstSighting
      <3>2. req'[r].pc = "write" /\ req'[r].snap = req[r].snap /\ req'[r].code = req[r].code
        BY <2>1, <3>1 DEF Request
      <3>3. NotAhead(r)'
        BY <2>1, <3>2 DEF NotAhead, Closed
      <3> QED
        BY <2>1, <3>1, <3>3, OneCopy, RowsKept
    <2>3. CASE ~Covers(req[r].snap, req[r].code)
      <3>1. Answered(r, "none", NoTicket)
        BY <1>6, <2>3 DEF FirstSighting
      <3>2. /\ \A q \in Requests : q # r => req'[q] = req[q]
            /\ req'[r].pc = "next" /\ req'[r].snap = NoTicket
        BY <1>1, <2>1, <3>1, Records, AnsweredShape
      <3>3. NotAhead(r)'
        BY <3>2 DEF NotAhead, Closed, NoTicket
      <3> QED
        BY <2>1, <3>2, <3>3, OneCopy, RowsKept
    <2> QED
      BY <2>2, <2>3
  <1>7. ASSUME NEW r \in Requests, OwnSighting(r)
        PROVE  EmptyIsClosed' /\ AlertsClose' /\ CopiesNotAhead'
    <2> DEFINE k == TicketOf[req[r].code]
               kept == Copy(r, ticket, k, 0)
    <2>1. /\ req[r].pc = "look" /\ req[r].code \in Codes /\ k \in Tickets /\ NotAhead(r)
          /\ UNCHANGED <<ticket, sweep, alerts>>
          /\ Answered(r, k, kept) /\ ticket \in [Tickets -> TicketRow]
      BY <1>1, <1>7 DEF OwnSighting, TypeOK, IInv, CopiesNotAhead
    <2>2. kept \in TicketRow
      BY <1>1, <2>1, CopyType
    <2>3. /\ \A q \in Requests : q # r => req'[q] = req[q]
          /\ req'[r].pc = "next" /\ req'[r].held = k /\ req'[r].snap = kept
      BY <1>1, <2>1, <2>2, AnsweredShape
    <2>4. Closed(kept) => Closed(ticket[k])
      BY <2>1 DEF Copy, Deduct, NotAhead
    <2>5. NotAhead(r)'
      BY <2>1, <2>3, <2>4 DEF NotAhead, Closed
    <2> QED
      BY <2>1, <2>3, <2>5, OneCopy, RowsKept
  <1>8. ASSUME NEW r \in Requests, OtherSighting(r)
        PROVE  EmptyIsClosed' /\ AlertsClose' /\ CopiesNotAhead'
    <2>1. /\ req[r].pc = "look" /\ req[r] \in Request /\ req \in [Requests -> Request] /\ NotAhead(r)
          /\ UNCHANGED <<ticket, sweep, alerts>>
      BY <1>1, <1>8 DEF OtherSighting, TypeOK, IInv, CopiesNotAhead
    <2>2. /\ \A q \in Requests : q # r => req'[q] = req[q]
          /\ req'[r].pc = "write" /\ req'[r].snap = req[r].snap /\ req'[r].code = req[r].code
      BY <1>8, <2>1 DEF OtherSighting, Request
    <2>3. NotAhead(r)'
      BY <2>1, <2>2 DEF NotAhead, Closed
    <2> QED
      BY <2>1, <2>2, <2>3, OneCopy, RowsKept
  <1>9. ASSUME NEW r \in Requests, Write(r)
        PROVE  EmptyIsClosed' /\ AlertsClose' /\ CopiesNotAhead'
    BY <1>1, <1>9, WriteStep
  <1>10. ASSUME NEW r \in Requests, Reply(r) \/ SyncDies(r)
         PROVE  EmptyIsClosed' /\ AlertsClose' /\ CopiesNotAhead'
    <2>1. req' = [req EXCEPT ![r] = NoReq] /\ UNCHANGED <<ticket, sweep, alerts>>
      BY <1>10 DEF Reply, SyncDies
    <2>2. /\ \A q \in Requests : q # r => req'[q] = req[q]
          /\ req'[r].pc = "idle"
      BY <1>1, <2>1 DEF TypeOK, NoReq
    <2>3. NotAhead(r)'
      BY <2>2 DEF NotAhead
    <2> QED
      BY <2>1, <2>2, <2>3, OneCopy, RowsKept
  <1>11. CASE SweepLoad
    <2>1. UNCHANGED <<ticket, req, alerts>>
      BY <1>11 DEF SweepLoad
    <2>2. sweep'.suspending = {}
      BY <1>11 DEF SweepLoad, NoSweep
    <2>3. AlertsClose'
      BY <2>1, <2>2 DEF IInv, AlertsClose, Closed
    <2>4. EmptyIsClosed' /\ CopiesNotAhead'
      BY <2>1 DEF IInv, EmptyIsClosed, CopiesNotAhead, NotAhead, Closed
    <2> QED
      BY <2>3, <2>4
  <1>12. ASSUME NEW k \in Tickets, SweepGet(k)
         PROVE  EmptyIsClosed' /\ AlertsClose' /\ CopiesNotAhead'
    <2>1. UNCHANGED <<ticket, req, alerts>>
      BY <1>12 DEF SweepGet
    <2>2. /\ sweep'.suspending = sweep.suspending \/ ~Closed(ticket[k])
          /\ sweep'.suspending \subseteq sweep.suspending \cup {k}
      BY <1>1, <1>12 DEF SweepGet, Closed, TypeOK
    <2>3. AlertsClose'
      BY <2>1, <2>2 DEF IInv, AlertsClose, Closed
    <2>4. EmptyIsClosed' /\ CopiesNotAhead'
      BY <2>1 DEF IInv, EmptyIsClosed, CopiesNotAhead, NotAhead, Closed
    <2> QED
      BY <2>3, <2>4
  <1>13. CASE SweepCommit
    <2>1. /\ \A k \in Tickets : IF k \in sweep.suspending
                                THEN /\ ticket'[k].status = "suspended"
                                     /\ ticket'[k].remaining = ticket[k].remaining
                                     /\ alerts'[k] = alerts[k] + 1
                                ELSE ticket'[k] = ticket[k] /\ alerts'[k] = alerts[k]
          /\ sweep' = NoSweep /\ req' = req
      <3>1. \A k \in Tickets : ticket[k] \in TicketRow /\ alerts[k] \in Nat
        BY <1>1 DEF TypeOK
      <3> QED
        BY <1>13, <3>1 DEF SweepCommit, TicketRow
    <2>2. \A k \in Tickets : Closed(ticket[k]) => Closed(ticket'[k])
      BY <2>1 DEF Closed
    <2>3. EmptyIsClosed'
      BY <2>1 DEF IInv, EmptyIsClosed
    <2>4. AlertsClose'
      BY <2>1 DEF IInv, AlertsClose, Closed, NoSweep
    <2>5. \A r \in Requests : req[r].pc \in {"look", "write"} => TicketOf[req[r].code] \in Tickets
      BY <1>1 DEF TypeOK
    <2>6. CopiesNotAhead'
      BY <2>1, <2>2, <2>5 DEF IInv, CopiesNotAhead, NotAhead
    <2> QED
      BY <2>3, <2>4, <2>6
  <1>14. CASE SweepDies
    <2>1. UNCHANGED <<ticket, req, alerts>> /\ sweep' = NoSweep
      BY <1>14 DEF SweepDies
    <2>2. AlertsClose'
      BY <2>1 DEF IInv, AlertsClose, Closed, NoSweep
    <2>3. EmptyIsClosed' /\ CopiesNotAhead'
      BY <2>1 DEF IInv, EmptyIsClosed, CopiesNotAhead, NotAhead, Closed
    <2> QED
      BY <2>2, <2>3
  <1> QED
    BY <1>2, <1>3, <1>4, <1>5, <1>6, <1>7, <1>8, <1>9, <1>10, <1>11, <1>12, <1>13, <1>14
    DEF Next, SyncStep, ItemStep, SweepStep

(* Nothing is recorded, held or alerted for at the start.                    *)
LEMMA InitInv == Init => IInv
  <1> SUFFICES ASSUME Init PROVE IInv
    OBVIOUS
  <1>1. \A k \in Tickets : ticket[k] = [status |-> "active", remaining |-> RidesOf[k]]
    BY DEF Init
  <1>2. TypeOK
    <2>1. ticket \in [Tickets -> TicketRow]
      BY CodesAssumption DEF Init, TicketRow, Statuses
    <2>2. req \in [Requests -> Request] /\ \A r \in Requests : req[r].pc = "idle"
      BY Records DEF Init, NoReq
    <2> QED
      BY <2>1, <2>2 DEF Init, TypeOK, NoSweep, Unshown
  <1>3. EmptyIsClosed
    <2>1. ASSUME NEW k \in Tickets PROVE ticket[k].remaining = RidesOf[k]
      <3>1. ticket[k] = [status |-> "active", remaining |-> RidesOf[k]]
        BY <1>1
      <3> QED
        BY <3>1
    <2> QED
      BY <2>1, Zenon DEF EmptyIsClosed
  <1>4. CopiesNotAhead
    <2>1. \A r \in Requests : req[r].pc = "idle"
      BY DEF Init, NoReq
    <2> QED
      BY <2>1 DEF CopiesNotAhead, NotAhead
  <1>5. AlertsClose
    <2>1. sweep.suspending = {} /\ \A k \in Tickets : alerts[k] = 0
      BY DEF Init, NoSweep
    <2> QED
      BY <2>1 DEF AlertsClose
  <1> QED
    BY <1>2, <1>3, <1>4, <1>5 DEF IInv

(* The inductive invariant: types, empty tickets closed, no copy ahead of    *)
(* its row, every alerted ticket closed.                                     *)
THEOREM Inductive == Spec => []IInv
  <1> QED
    BY InitInv, InvStep, PTL DEF Spec

(* Type correctness of the sync and of the sweep.                            *)
THEOREM TypeCorrect == Spec => []TypeOK
  <1>1. IInv => TypeOK
    BY DEF IInv
  <1> QED
    BY <1>1, Inductive, PTL

(* However many syncs and sweeps interleave, and on whatever stale copies    *)
(* redeem computes, a ticket it empties does not stay active.                *)
THEOREM EmptyTicketsClosed == Spec => []EmptyIsClosed
  <1>1. IInv => EmptyIsClosed
    BY DEF IInv
  <1> QED
    BY <1>1, Inductive, PTL

(* The sweep alerts at most once for a ticket: an alerted ticket is closed,  *)
(* and no write of redeem opens it again for Evidence to find.               *)
THEOREM AlertsOnce == Spec => []AlertedOnce
  <1>1. IInv => AlertedOnce
    BY DEF IInv, AlertsClose, AlertedOnce
  <1> QED
    BY <1>1, Inductive, PTL


-----------------------------------------------------------------------------
(* A sync that is about to record a code as clean looked when nobody had     *)
(* reported it, and nobody has since unless the two crossed; one about to    *)
(* record a duplicate looked when somebody had.                              *)
StillUnseen == \A r \in Requests :
    req[r].pc = "write" /\ req[r].flag = "ok" =>
        Sightings(req[r].code) = {} \/ req[r].code \in missed
SeenBefore == \A r \in Requests :
    req[r].pc = "write" /\ req[r].flag # "ok" => Sightings(req[r].code) # {}
OnceLooked == \A r \in Requests : req[r].pc # "write" => req[r].flag = "ok"
SightInv == StillUnseen /\ SeenBefore /\ OnceLooked /\ OneCleanSighting

(* No step of a sync, of a door or of the sweep breaks that.                 *)
LEMMA SightStep == TypeOK /\ SightInv /\ [Next]_vars => SightInv'
  <1> SUFFICES ASSUME TypeOK, SightInv, [Next]_vars PROVE SightInv'
    OBVIOUS
  <1>t. req \in [Requests -> Request]
    BY DEF TypeOK
  <1>s. \A r \in Requests : req[r] \in Request
    BY <1>t
  <1>1. CASE UNCHANGED <<redemptions, req, missed>>
    BY <1>1 DEF SightInv, StillUnseen, SeenBefore, OnceLooked, OneCleanSighting, Sightings
  (* Where nothing is recorded only the request that moves matters.        *)
  <1>2. ASSUME NEW r \in Requests, UNCHANGED <<redemptions, missed>>,
               \A q \in Requests : q # r => req'[q] = req[q],
               req'[r].pc # "write" => req'[r].flag = "ok",
               req'[r].pc = "write" =>
                   IF req'[r].flag = "ok" THEN Sightings(req'[r].code) = {}
                   ELSE Sightings(req'[r].code) # {}
        PROVE  SightInv'
    <2>1. \A c : Sightings(c)' = Sightings(c)
      BY <1>2 DEF Sightings
    <2>2. ASSUME NEW q \in Requests, req'[q].pc = "write"
          PROVE  IF req'[q].flag = "ok"
                 THEN Sightings(req'[q].code) = {} \/ req'[q].code \in missed
                 ELSE Sightings(req'[q].code) # {}
      BY <1>2, <2>2 DEF SightInv, StillUnseen, SeenBefore
    <2>3. StillUnseen' /\ SeenBefore' /\ OnceLooked'
      BY <1>2, <2>1, <2>2 DEF SightInv, StillUnseen, SeenBefore, OnceLooked
    <2>4. OneCleanSighting'
      BY <1>2 DEF SightInv, OneCleanSighting
    <2> QED
      BY <2>3, <2>4 DEF SightInv
  <1>3. ASSUME NEW r \in Requests, NEW d \in Devices, SyncStart(r, d) PROVE SightInv'
    <2>1. /\ req' = [req EXCEPT ![r] = [NoReq EXCEPT !.pc = "next", !.device = d, !.todo = outbox[d]]]
          /\ UNCHANGED <<redemptions, missed>>
      BY <1>3 DEF SyncStart, marks
    <2>2. /\ \A q \in Requests : q # r => req'[q] = req[q]
          /\ req'[r].pc = "next" /\ req'[r].flag = "ok"
      BY <1>t, <2>1 DEF NoReq
    <2> QED
      BY <1>2, <2>1, <2>2
  <1>4. ASSUME NEW r \in Requests, NEW c \in Codes, ItemLoad(r, c) PROVE SightInv'
    <2>1. /\ \A q \in Requests : q # r => req'[q] = req[q]
          /\ req'[r].pc = "look" /\ req'[r].flag = req[r].flag /\ req[r].pc = "next" /\ UNCHANGED <<redemptions, missed>>
      BY <1>4, <1>t, <1>s DEF ItemLoad, Request, marks
    <2> QED
      BY <1>2, <2>1 DEF SightInv, OnceLooked
  <1>5. ASSUME NEW r \in Requests, NEW c \in Codes, ItemRefused(r, c) PROVE SightInv'
    <2>1. /\ \A q \in Requests : q # r => req'[q] = req[q]
          /\ req'[r].pc = "next" /\ req'[r].flag = req[r].flag /\ req[r].pc = "next"
          /\ UNCHANGED <<redemptions, missed>>
      BY <1>5, <1>t, <1>s DEF ItemRefused, Request, marks
    <2> QED
      BY <1>2, <2>1 DEF SightInv, OnceLooked
  (* An item that is answered is behind its request.                       *)
  <1>a. ASSUME NEW r \in Requests, NEW h, NEW snap, Answered(r, h, snap)
        PROVE  /\ req'[r].pc = "next" /\ req'[r].flag = "ok"
               /\ \A q \in Requests : q # r => req'[q] = req[q]
    BY <1>a, <1>s, <1>t DEF Answered, Request
  <1>6. ASSUME NEW r \in Requests, FirstSighting(r) PROVE SightInv'
    <2>1. UNCHANGED <<redemptions, missed>> /\ Sightings(req[r].code) = {}
      BY <1>6 DEF FirstSighting, marks
    <2>2. CASE Covers(req[r].snap, req[r].code)
      <3>1. req' = [req EXCEPT ![r] = [req[r] EXCEPT !.pc = "write"]] /\ req[r] \in Request
        BY <1>6, <1>t, <2>2 DEF FirstSighting
      <3>2. /\ \A q \in Requests : q # r => req'[q] = req[q]
            /\ req'[r].pc = "write"
            /\ req'[r].code = req[r].code /\ req'[r].flag = req[r].flag
        BY <1>t, <3>1 DEF Request
      <3>3. req'[r].flag = "ok" => SightInv'
        BY <1>2, <2>1, <3>2
      <3>4. req[r].flag = "ok"
        BY <1>6 DEF FirstSighting, SightInv, OnceLooked
      <3> QED
        BY <3>2, <3>3, <3>4
    <2>3. CASE ~Covers(req[r].snap, req[r].code)
      <3>1. Answered(r, "none", NoTicket)
        BY <1>6, <2>3 DEF FirstSighting
      <3>2. req'[r].pc = "next" /\ req'[r].flag = "ok" /\ \A q \in Requests : q # r => req'[q] = req[q]
        BY <3>1, <1>a
      <3> QED
        BY <1>2, <2>1, <3>2
    <2> QED
      BY <2>2, <2>3
  <1>7. ASSUME NEW r \in Requests, OwnSighting(r) PROVE SightInv'
    <2>1. /\ UNCHANGED <<redemptions, missed>>
          /\ Answered(r, TicketOf[req[r].code], Copy(r, ticket, TicketOf[req[r].code], 0))
      BY <1>7 DEF OwnSighting, marks
    <2>2. req'[r].pc = "next" /\ req'[r].flag = "ok" /\ \A q \in Requests : q # r => req'[q] = req[q]
      BY <2>1, <1>a
    <2> QED
      BY <1>2, <2>1, <2>2
  <1>8. ASSUME NEW r \in Requests, OtherSighting(r) PROVE SightInv'
    <2>1. /\ UNCHANGED <<redemptions, missed>> /\ Sightings(req[r].code) # {}
          /\ req' = [req EXCEPT ![r].pc = "write", ![r].flag = "duplicate_suspect"]
      BY <1>8 DEF OtherSighting, marks
    <2>2. /\ req'[r].pc = "write" /\ req'[r].flag # "ok" /\ req'[r].code = req[r].code
          /\ \A q \in Requests : q # r => req'[q] = req[q]
      BY <1>s, <1>t, <2>1 DEF Request
    <2> QED
      BY <1>2, <2>1, <2>2
  <1>9. ASSUME NEW r \in Requests, Write(r) PROVE SightInv'
    <2>1. req[r].pc = "write" /\ \E h, t : Answered(r, h, t)
      BY <1>9 DEF Write
    <2>2. req'[r].pc = "next" /\ req'[r].flag = "ok" /\ \A q \in Requests : q # r => req'[q] = req[q]
      BY <2>1, <1>a
    <2>3. CASE UNCHANGED <<redemptions, marks>>
      BY <1>2, <2>2, <2>3 DEF marks
    <2>4. CASE /\ redemptions' = redemptions \cup
                    {[device |-> req[r].device, code |-> req[r].code, flag |-> req[r].flag]}
               /\ MarkRaces(r, req[r].code, TicketOf[req[r].code])
      <3> DEFINE c == req[r].code
      <3>1. missed \subseteq missed'
        BY <2>4 DEF MarkRaces
      <3>2. \A x : x \in redemptions => x \in redemptions'
        BY <2>4
      <3>3. ASSUME NEW q \in Requests, req'[q].pc = "write"
            PROVE  /\ q # r /\ req'[q] = req[q]
                   /\ req'[q].flag = "ok" =>
                        \/ \A x \in redemptions' : x.code # req'[q].code
                        \/ req'[q].code \in missed'
                   /\ req'[q].flag # "ok" => \E x \in redemptions' : x.code = req'[q].code
        <4>1. q # r /\ req'[q] = req[q]
          BY <2>2, <3>3
        <4>2. ASSUME req[q].flag # "ok" PROVE \E x \in redemptions' : x.code = req[q].code
          <5>1. PICK x \in redemptions : x.code = req[q].code
            BY <3>3, <4>1, <4>2 DEF SightInv, SeenBefore, Sightings
          <5> QED
            BY <3>2, <5>1
        <4>3. ASSUME req[q].flag = "ok", req[q].code \notin missed'
              PROVE  \A x \in redemptions' : x.code # req[q].code
          <5>1. \A x \in redemptions : x.code # req[q].code
            BY <3>1, <3>3, <4>1, <4>3 DEF SightInv, StillUnseen, Sightings
          <5>2. CASE req[q].code # c
            BY <2>4, <5>1, <5>2
          <5>3. CASE req[q].code = c /\ req[r].flag = "ok"
            <6>1. q \in Requests \ {r} /\ Unrecorded(q, c)
              BY <3>3, <4>1, <4>3, <5>3 DEF Unrecorded
            <6>2. c \in missed'
              BY <2>4, <5>3, <6>1 DEF MarkRaces
            <6> QED
              BY <4>3, <5>3, <6>2
          <5>4. CASE req[q].code = c /\ req[r].flag # "ok"
            <6>1. Sightings(c) # {}
              BY <2>1, <5>4 DEF SightInv, SeenBefore
            <6> QED
              BY <5>1, <5>4, <6>1 DEF Sightings
          <5> QED
            BY <5>2, <5>3, <5>4
        <4> QED
          BY <4>1, <4>2, <4>3
      <3>4. StillUnseen' /\ SeenBefore' /\ OnceLooked'
        BY <2>2, <3>3 DEF StillUnseen, SeenBefore, OnceLooked, Sightings, SightInv
      <3>5. OneCleanSighting'
        <4>1. req[r].flag = "ok" => c \in missed' \/ \A x \in redemptions : x.code # c
          BY <2>1, <3>1 DEF SightInv, StillUnseen, Sightings
        <4> QED
          BY <2>4, <3>1, <4>1 DEF SightInv, OneCleanSighting
      <3> QED
        BY <3>4, <3>5 DEF SightInv
    <2> QED
      BY <1>9, <2>3, <2>4 DEF Write
  <1>10. ASSUME NEW r \in Requests, Reply(r) \/ SyncDies(r) PROVE SightInv'
    <2>1. req' = [req EXCEPT ![r] = NoReq] /\ UNCHANGED <<redemptions, missed>>
      BY <1>10 DEF Reply, SyncDies, marks
    <2>2. req'[r].pc = "idle" /\ req'[r].flag = "ok" /\ \A q \in Requests : q # r => req'[q] = req[q]
      BY <1>t, <2>1 DEF NoReq
    <2> QED
      BY <1>2, <2>1, <2>2
  <1>12. CASE DoorStep
    BY <1>1, <1>12 DEF DoorStep, Tick, Show, Scan, marks
  <1>13. CASE SweepStep
    BY <1>1, <1>13 DEF SweepStep, SweepLoad, SweepGet, SweepCommit, SweepDies, marks
  <1> QED
    BY <1>1, <1>3, <1>4, <1>5, <1>6, <1>7, <1>8, <1>9, <1>10, <1>12, <1>13
    DEF Next, SyncStep, ItemStep, vars, marks

(* One code is one clean boarding, whatever answers are lost and whatever    *)
(* batches are sent again, in any number of syncs at once (redeem's lookup   *)
(* and the unique (device, nonce)), but for the codes that two of them       *)
(* looked for before either had recorded it.                                 *)
THEOREM OneCleanBoarding == Spec => []OneCleanSighting
  <1>1. Init => SightInv
    BY DEF Init, NoReq, SightInv, StillUnseen, SeenBefore, OnceLooked, OneCleanSighting
  <1>2. TypeOK /\ SightInv /\ [Next]_vars => SightInv'
    BY SightStep
  <1>3. SightInv => OneCleanSighting
    BY DEF SightInv
  <1> QED
    BY <1>1, <1>2, <1>3, TypeCorrect, PTL DEF Spec

-----------------------------------------------------------------------------
(* The ledger: what the rows and the records say of each other.  The sum of  *)
(* the passengers of a set of records is the number of its riders, whatever  *)
(* order the fold takes them in; were there a counterexample there would be  *)
(* a smallest one, and taking any record out of it leaves a smaller one.     *)

(* A passenger of a recorded ride.                                           *)
Riders(S) == {p \in S \X (1..60) : p[2] <= CountOf[p[1].code]}

(* A set of numbers has a least element.                                     *)
LEMMA LeastNumber ==
    ASSUME NEW X \in SUBSET Nat, X # {}
    PROVE  \E x \in X : \A y \in X : x <= y
  <1>1. PICK x \in X : \A y \in X : ~(<<y, x>> \in OpToRel(<, Nat))
    BY NatLessThanWellFounded, WFMin
  <1>2. \A y \in X : x <= y
    <2> TAKE y \in X
    <2>1. ~(y < x)
      BY <1>1 DEF OpToRel
    <2> QED
      BY <2>1
  <1> QED
    BY <1>2

(* One more record brings its passengers.                                    *)
LEMMA RidersAdd ==
    ASSUME NEW S, IsFiniteSet(S), NEW x, x \notin S, x.code \in Codes
    PROVE  /\ IsFiniteSet(Riders(S)) /\ Cardinality(Riders(S)) \in Nat
           /\ Cardinality(Riders(S \cup {x})) = CountOf[x.code] + Cardinality(Riders(S))
  <1> DEFINE n == CountOf[x.code]
             N == {x} \X (1..n)
  <1>1. n \in 1..60
    BY CodesAssumption
  <1>2. IsFiniteSet(Riders(S))
    <2>0. 1 \in Int /\ 60 \in Int
      OBVIOUS
    <2>1. IsFiniteSet(1..60)
      BY ONLY <2>0, FS_Interval
    <2>2. IsFiniteSet(S \X (1..60))
      BY <2>1, FS_Product
    <2>3. Riders(S) \subseteq S \X (1..60)
      BY DEF Riders
    <2> QED
      BY <2>2, <2>3, FS_Subset
  <1>3. IsFiniteSet(N) /\ Cardinality(N) = n
    <2>1. IsFiniteSet({x}) /\ Cardinality({x}) = 1
      BY FS_Singleton
    <2> HIDE DEF n
    <2>2. IsFiniteSet(1..n) /\ Cardinality(1..n) = n
      <3>1. 1 \in Int /\ n \in Int /\ ~(1 > n) /\ n - 1 + 1 = n
        BY <1>1
      <3> QED
        BY <3>1, FS_Interval
    <2>3. /\ IsFiniteSet(N)
          /\ Cardinality(N) = Cardinality({x}) * Cardinality(1..n)
      BY ONLY <2>1, <2>2, FS_Product
    <2>4. Cardinality(N) = 1 * n
      BY ONLY <2>1, <2>2, <2>3
    <2>5. 1 * n = n
      BY ONLY <1>1
    <2> QED
      BY ONLY <2>3, <2>4, <2>5
  <1>4. Riders(S \cup {x}) = Riders(S) \cup N
    <2>1. ASSUME NEW p \in Riders(S \cup {x}) PROVE p \in Riders(S) \cup N
      BY <1>1 DEF Riders
    <2>2. ASSUME NEW p \in Riders(S) PROVE p \in Riders(S \cup {x})
      BY DEF Riders
    <2>3. ASSUME NEW p \in N PROVE p \in Riders(S \cup {x})
      BY <1>1 DEF Riders
    <2> QED
      BY <2>1, <2>2, <2>3
  <1>5. Riders(S) \cap N = {}
    BY DEF Riders
  <1> HIDE DEF N, n
  <1>6. Cardinality(Riders(S) \cap N) = 0
    BY <1>5, FS_EmptySet
  <1>7. Cardinality(Riders(S)) \in Nat
    BY <1>2, FS_CardinalityType
  <1>8. Cardinality(Riders(S) \cup N) = Cardinality(Riders(S)) + n - 0
    BY <1>2, <1>3, <1>6, FS_Union
  <1>9. Cardinality(Riders(S) \cup N) = n + Cardinality(Riders(S))
    BY <1>1, <1>7, <1>8
  <1> QED
    BY <1>2, <1>4, <1>7, <1>9 DEF n

(* The sum of the passengers, taken in whatever order, is their number.      *)
LEMMA SumCounts ==
    ASSUME NEW S, IsFiniteSet(S), \A x \in S : x.code \in Codes
    PROVE  Passengers(S) = Cardinality(Riders(S))
  <1> DEFINE some(s) == CHOOSE x \in s : TRUE
             Sums(g) == g = [s \in SUBSET S |-> IF s = {} THEN 0
                                                ELSE CountOf[some(s).code] + g[s \ {some(s)}]]
             it == CHOOSE g : Sums(g)
             heads == [s \in SUBSET S |-> Cardinality(Riders(s))]
  <1>1. Passengers(S) = it[S]
    BY DEF Passengers, MapThenSumSet, MapThenFoldSet
  <1>2. \A s \in SUBSET S : IsFiniteSet(s)
    BY FS_Subset
  <1>3. ASSUME NEW s \in SUBSET S, s # {}
        PROVE  /\ some(s) \in s /\ s \ {some(s)} \in SUBSET S
               /\ Cardinality(Riders(s)) = CountOf[some(s).code] + Cardinality(Riders(s \ {some(s)}))
               /\ Cardinality(s \ {some(s)}) < Cardinality(s)
    <2>1. some(s) \in s
      BY <1>3
    <2> HIDE DEF some
    <2> DEFINE x == some(s)
               t == s \ {x}
    <2>2. IsFiniteSet(t) /\ x \notin t /\ t \cup {x} = s /\ x.code \in Codes /\ t \in SUBSET S
      BY <1>2, <2>1
    <2> HIDE DEF t, x
    <2>3. Cardinality(Riders(t \cup {x})) = CountOf[x.code] + Cardinality(Riders(t))
      BY <2>2, RidersAdd
    <2>4. Cardinality(s) \in Nat /\ Cardinality(s \ {some(s)}) = Cardinality(s) - 1
      BY <1>2, <2>1, FS_RemoveElement, FS_CardinalityType
    <2>5. Cardinality(s \ {some(s)}) < Cardinality(s)
      BY <2>4
    <2> QED
      BY <2>1, <2>2, <2>3, <2>5 DEF t, x
  <1>4. Cardinality(Riders({})) = 0
    <2>1. Riders({}) = {}
      BY DEF Riders
    <2> QED
      BY <2>1, FS_EmptySet
  <1> HIDE DEF some
  <1>5. Sums(heads)
    <2>1. \A s \in SUBSET S : heads[s] = IF s = {} THEN 0
                                         ELSE CountOf[some(s).code] + heads[s \ {some(s)}]
      BY <1>3, <1>4
    <2> DEFINE rhs == [s \in SUBSET S |-> IF s = {} THEN 0
                                          ELSE CountOf[some(s).code] + heads[s \ {some(s)}]]
    <2>2. heads = rhs
      BY <2>1
    <2> QED
      BY <2>2
  <1>6. Sums(it)
    <2> HIDE DEF Sums, heads
    <2> QED
      BY <1>5
  <1> DEFINE Wrong == {n \in Nat : \E s \in SUBSET S : Cardinality(s) = n /\ it[s] # Cardinality(Riders(s))}
  <1>7. Wrong = {}
    <2> SUFFICES ASSUME Wrong # {} PROVE FALSE
      OBVIOUS
    <2>1. PICK n \in Wrong : \A m \in Wrong : n <= m
      BY LeastNumber
    <2>2. PICK s \in SUBSET S : Cardinality(s) = n /\ it[s] # Cardinality(Riders(s))
      BY <2>1
    <2>3. it[s] = IF s = {} THEN 0 ELSE CountOf[some(s).code] + it[s \ {some(s)}]
      <3> HIDE DEF it
      <3> QED
        BY <1>6
    <2> HIDE DEF it
    <2>4. s # {}
      BY <2>2, <2>3, <1>4
    <2>5. /\ s \ {some(s)} \in SUBSET S /\ Cardinality(s \ {some(s)}) < n
          /\ it[s \ {some(s)}] # Cardinality(Riders(s \ {some(s)}))
      BY <1>3, <2>2, <2>3, <2>4
    <2>6. Cardinality(s \ {some(s)}) \in Nat /\ n \in Nat
      BY <1>2, <2>5, FS_CardinalityType
    <2>7. Cardinality(s \ {some(s)}) \in Wrong
      BY <2>5, <2>6
    <2> QED
      BY <2>1, <2>5, <2>6, <2>7
  <1>8. it[S] = Cardinality(Riders(S))
    <2>1. S \in SUBSET S /\ Cardinality(S) \in Nat
      BY FS_CardinalityType
    <2> HIDE DEF it
    <2> QED
      BY <1>7, <2>1
  <1> QED
    BY <1>1, <1>8

-----------------------------------------------------------------------------
(* No row of a ticket and no session's copy of it is behind what the records *)
(* account for; and until two syncs cross on the ticket none is ahead of it. *)
Owes(k, row) == RidesOf[k] # Unlimited =>
    /\ row.remaining # Unlimited
    /\ row.remaining >= RidesOf[k] - CleanRides(k)
    /\ k \notin crossed => row.remaining = RidesOf[k] - CleanRides(k)

CopyOwes(r) ==
    /\ req[r].pc \in {"look", "write"} => Owes(TicketOf[req[r].code], req[r].snap)
    /\ req[r].pc = "next" /\ req[r].held \in Tickets => Owes(req[r].held, req[r].snap)
    /\ req[r].pc = "write" /\ req[r].flag = "ok" => Covers(req[r].snap, req[r].code)

LedgerInv ==
    /\ IsFiniteSet(redemptions)
    /\ \A k \in Tickets : Owes(k, ticket[k])
    /\ \A r \in Requests : CopyOwes(r)

(* The rides of a ticket are counted, and a step that records nothing leaves *)
(* them as they were.                                                        *)
LEMMA RidesCounted ==
    ASSUME TypeOK, IsFiniteSet(redemptions), NEW k \in Tickets
    PROVE  /\ IsFiniteSet(Clean(k)) /\ CleanRides(k) = Cardinality(Riders(Clean(k)))
           /\ \A x \in Clean(k) : x.code \in Codes
  <1>1. IsFiniteSet(Clean(k))
    <2>1. Clean(k) \subseteq redemptions
      BY DEF Clean
    <2> QED
      BY <2>1, FS_Subset
  <1>2. \A x \in Clean(k) : x.code \in Codes
    BY DEF TypeOK, Clean
  <1>3. Passengers(Clean(k)) = Cardinality(Riders(Clean(k)))
    BY <1>1, <1>2, SumCounts
  <1> QED
    BY <1>1, <1>2, <1>3 DEF CleanRides

(* A new record adds its passengers to its ticket if it is clean.            *)
LEMMA RidesNext ==
    ASSUME TypeOK, IsFiniteSet(redemptions),
           NEW x \in [device : Devices, code : Codes, flag : Flags], x \notin redemptions,
           redemptions' = redemptions \cup {x}, NEW k \in Tickets
    PROVE  /\ CleanRides(k) \in Nat
           /\ CleanRides(k)' = CleanRides(k) +
                (IF x.flag = "ok" /\ TicketOf[x.code] = k THEN CountOf[x.code] ELSE 0)
  <1>1. /\ IsFiniteSet(Clean(k)) /\ CleanRides(k) = Cardinality(Riders(Clean(k)))
        /\ \A y \in Clean(k) : y.code \in Codes
    BY RidesCounted
  <1>2. x.code \in Codes /\ x \notin Clean(k) /\ CountOf[x.code] \in Nat
    BY CodesAssumption DEF Clean
  <1>3. /\ Cardinality(Riders(Clean(k))) \in Nat
        /\ Cardinality(Riders(Clean(k) \cup {x})) = CountOf[x.code] + Cardinality(Riders(Clean(k)))
    BY <1>1, <1>2, RidersAdd
  <1>4. CASE x.flag = "ok" /\ TicketOf[x.code] = k
    <2>1. Clean(k)' = Clean(k) \cup {x}
      BY <1>4 DEF Clean
    <2>2. IsFiniteSet(Clean(k) \cup {x}) /\ \A y \in Clean(k) \cup {x} : y.code \in Codes
      BY <1>1, <1>2, FS_AddElement
    <2>3. Passengers(Clean(k) \cup {x}) = Cardinality(Riders(Clean(k) \cup {x}))
      BY <2>2, SumCounts
    <2>4. CleanRides(k)' = Cardinality(Riders(Clean(k) \cup {x}))
      BY <2>1, <2>3 DEF CleanRides
    <2> QED
      BY <1>1, <1>2, <1>3, <1>4, <2>4
  <1>5. CASE ~(x.flag = "ok" /\ TicketOf[x.code] = k)
    <2>1. Clean(k)' = Clean(k)
      BY <1>5 DEF Clean
    <2>2. CleanRides(k)' = CleanRides(k)
      BY <2>1 DEF CleanRides
    <2> QED
      BY <1>1, <1>3, <1>5, <2>2
  <1> QED
    BY <1>4, <1>5

(* What is owed changes only with the records.                               *)
LEMMA RidesSame ==
    ASSUME UNCHANGED <<redemptions, crossed>>, NEW k, NEW row
    PROVE  Owes(k, row)' <=> Owes(k, row)
  <1>1. CleanRides(k)' = CleanRides(k)
    BY DEF CleanRides, Clean
  <1> QED
    BY <1>1 DEF Owes

(* Where nothing is recorded and one request moves, only its copy matters.   *)
LEMMA LedgerOne ==
    ASSUME LedgerInv, NEW r \in Requests, UNCHANGED <<redemptions, crossed>>,
           \A k \in Tickets : ticket'[k].remaining = ticket[k].remaining,
           \A q \in Requests : q # r => req'[q] = req[q],
           CopyOwes(r)'
    PROVE  LedgerInv'
  <1>1. \A k \in Tickets : Owes(k, ticket[k])'
    <2> SUFFICES ASSUME NEW k \in Tickets PROVE Owes(k, ticket[k])'
      OBVIOUS
    <2>1. CleanRides(k)' = CleanRides(k) /\ ticket'[k].remaining = ticket[k].remaining
      BY DEF CleanRides, Clean
    <2> QED
      BY <2>1 DEF LedgerInv, Owes
  <1>2. ASSUME NEW q \in Requests, q # r PROVE CopyOwes(q)'
    <2>1. CopyOwes(q) /\ req'[q] = req[q]
      BY <1>2 DEF LedgerInv
    <2>2. \A k : CleanRides(k)' = CleanRides(k)
      BY DEF CleanRides, Clean
    <2> QED
      BY <2>1, <2>2 DEF CopyOwes, Owes, Covers
  <1> QED
    BY <1>1, <1>2 DEF LedgerInv

(* What is deducted on a copy that is not behind leaves a row that is not.   *)
LEMMA DeductOwes ==
    ASSUME NEW k \in Tickets, NEW row \in TicketRow, NEW copy \in TicketRow, NEW n \in Nat,
           Owes(k, row), Owes(k, copy), crossed \subseteq crossed',
           n # 0 => copy.remaining = Unlimited \/ copy.remaining >= n,
           CleanRides(k) \in Nat, CleanRides(k)' = CleanRides(k) + n
    PROVE  Owes(k, Deduct(row, copy, n))'
  <1> SUFFICES ASSUME RidesOf[k] # Unlimited
               PROVE  LET new == Deduct(row, copy, n) IN
                      /\ new.remaining # Unlimited
                      /\ new.remaining >= RidesOf[k] - CleanRides(k)'
                      /\ k \notin crossed' => new.remaining = RidesOf[k] - CleanRides(k)'
    BY DEF Owes
  <1>1. /\ RidesOf[k] \in Nat /\ row.remaining \in Nat /\ copy.remaining \in Nat
        /\ row.remaining >= RidesOf[k] - CleanRides(k)
        /\ copy.remaining >= RidesOf[k] - CleanRides(k)
        /\ k \notin crossed' =>
                   /\ row.remaining = RidesOf[k] - CleanRides(k)
                   /\ copy.remaining = RidesOf[k] - CleanRides(k)
    BY CodesAssumption DEF Owes, TicketRow
  <1>2. CASE n = 0
    <2>1. Deduct(row, copy, n) = row /\ CleanRides(k)' = CleanRides(k)
      BY <1>2 DEF Deduct
    <2>2. row.remaining # Unlimited
      BY <1>1, CodesAssumption
    <2> QED
      BY <1>1, <2>1, <2>2
  <1>3. CASE n # 0
    <2>1. copy.remaining # Unlimited
      BY <1>1, CodesAssumption
    <2>2. Deduct(row, copy, n).remaining = IF copy.remaining > n THEN copy.remaining - n ELSE 0
      BY <1>3, <2>1 DEF Deduct
    <2>3. Deduct(row, copy, n).remaining = copy.remaining - n
      BY <1>1, <1>3, <2>1, <2>2
    <2>4. copy.remaining - n \in Int /\ copy.remaining - n # Unlimited
      <3>1. copy.remaining - n \in Int
        BY <1>1
      <3> QED
        BY <3>1, CodesAssumption
    <2> QED
      BY <1>1, <2>3, <2>4
  <1> QED
    BY <1>2, <1>3

(* A recorded item.                                                          *)
LEMMA LedgerWrite ==
    ASSUME TypeOK, LedgerInv, NEW r \in Requests, Write(r)
    PROVE  LedgerInv'
  <1>t. ticket \in [Tickets -> TicketRow] /\ req \in [Requests -> Request]
    BY DEF TypeOK
  <1>1. PICK c \in Codes, d \in Devices, f \in Flags, copy \in TicketRow :
           c = req[r].code /\ d = req[r].device /\ f = req[r].flag /\ copy = req[r].snap
    <2>1. req[r].code \in Codes /\ req[r].device \in Devices /\ req[r] \in Request
      BY DEF Write, TypeOK
    <2> QED
      BY <2>1 DEF Request
  <1>2. PICK k \in Tickets, n \in Nat :
           k = TicketOf[c] /\ n = (IF f = "ok" THEN CountOf[c] ELSE 0)
    <2>1. TicketOf[c] \in Tickets /\ CountOf[c] \in Nat
      BY CodesAssumption
    <2>2. (IF f = "ok" THEN CountOf[c] ELSE 0) \in Nat
      BY <2>1
    <2> QED
      BY <2>1, <2>2
  <1>3. /\ req[r].pc = "write" /\ Owes(k, copy)
        /\ n # 0 => copy.remaining = Unlimited \/ copy.remaining >= n
    <2>1. req[r].pc = "write" /\ CopyOwes(r)
      BY DEF Write, LedgerInv
    <2>2. Owes(k, copy) /\ f = "ok" => Covers(copy, c)
      BY <1>1, <1>2, <2>1 DEF CopyOwes
    <2>3. Owes(k, copy)
      BY <1>1, <1>2, <2>1 DEF CopyOwes
    <2>4. f = "ok" => copy.remaining = Unlimited \/ copy.remaining >= CountOf[c]
      BY <1>1, <2>1 DEF CopyOwes, Covers
    <2>5. n # 0 => f = "ok" /\ n = CountOf[c]
      BY <1>2
    <2> QED
      BY <2>1, <2>3, <2>4, <2>5
  <1>4. CASE \E y \in Sightings(c) : y.device = d
    <2>1. Answered(r, "none", NoTicket) /\ UNCHANGED <<ticket, redemptions, crossed>>
      BY <1>1, <1>4 DEF Write, marks
    <2>2. /\ \A q \in Requests : q # r => req'[q] = req[q]
          /\ req'[r].pc = "next" /\ req'[r].held = "none"
      BY <1>1, <1>3, <2>1, Records, AnsweredShape
    <2>3. CopyOwes(r)'
      BY <2>2, CodesAssumption DEF CopyOwes
    <2> QED
      BY <2>1, <2>2, <2>3, LedgerOne
  <1>5. CASE ~\E y \in Sightings(c) : y.device = d
    <2>1. PICK x \in [device : Devices, code : Codes, flag : Flags] :
             x = [device |-> d, code |-> c, flag |-> f]
      OBVIOUS
    <2>2. x \notin redemptions /\ x.flag = f /\ x.code = c
      BY <1>5, <2>1 DEF Sightings
    <2>3. /\ ticket' = [ticket EXCEPT ![k] = Deduct(@, copy, n)]
          /\ redemptions' = redemptions \cup {x}
          /\ Answered(r, k, Copy(r, ticket', k, n))
          /\ MarkRaces(r, c, k)
      BY <1>1, <1>2, <1>5, <2>1 DEF Write
    <2>c. /\ crossed \subseteq crossed'
          /\ f = "ok" => \A q \in Requests \ {r} : Copied(q, k) => k \in crossed'
      BY <1>1, <2>3 DEF MarkRaces
    <2>4. IsFiniteSet(redemptions) /\ IsFiniteSet(redemptions')
      BY <2>3, FS_AddElement DEF LedgerInv
    <2>5. \A j \in Tickets :
            /\ CleanRides(j) \in Nat
            /\ CleanRides(j)' = CleanRides(j) + (IF x.flag = "ok" /\ TicketOf[x.code] = j
                                                THEN CountOf[x.code] ELSE 0)
      BY <2>2, <2>3, <2>4, RidesNext
    <2>6. CleanRides(k) \in Nat /\ CleanRides(k)' = CleanRides(k) + n
      <3>1. (IF x.flag = "ok" /\ TicketOf[x.code] = k THEN CountOf[x.code] ELSE 0) = n
        BY <1>2, <2>2
      <3> QED
        BY <2>5, <3>1
    <2>7. \A j \in Tickets : j # k => CleanRides(j)' = CleanRides(j)
      BY <1>2, <2>2, <2>5
    <2>8. PICK row \in TicketRow : row = ticket[k]
      BY <1>t
    <2>9. Deduct(row, copy, n) \in TicketRow /\ Deduct(copy, copy, n) \in TicketRow
      BY DeductType
    <2>10. /\ ticket'[k] = Deduct(row, copy, n)
           /\ \A j \in Tickets : j # k => ticket'[j] = ticket[j]
           /\ ticket' \in [Tickets -> TicketRow]
      BY <1>t, <2>3, <2>8, <2>9
    <2>11. Owes(k, Deduct(row, copy, n))'
      <3>1. Owes(k, row)
        BY <2>8 DEF LedgerInv
      <3> QED
        BY <1>3, <2>6, <2>c, <3>1, DeductOwes
    <2>12. Owes(k, Deduct(copy, copy, n))'
      BY <1>3, <2>6, <2>c, DeductOwes
    <2>13. ASSUME NEW j \in Tickets PROVE Owes(j, ticket[j])'
      <3>1. CASE j = k
        BY <2>10, <2>11, <3>1 DEF Owes
      <3>2. CASE j # k
        BY <2>7, <2>10, <2>c, <3>2 DEF LedgerInv, Owes
      <3> QED
        BY <3>1, <3>2
    <2>14. PICK kept \in TicketRow : kept = Copy(r, ticket', k, n)
      BY <2>10, CopyType
    <2>15. /\ \A q \in Requests : q # r => req'[q] = req[q]
           /\ req'[r].pc = "next" /\ req'[r].held = k /\ req'[r].snap = kept
      BY <1>1, <1>3, <2>3, <2>14, AnsweredShape
    <2>16. kept = Deduct(copy, copy, n) \/ kept = ticket'[k]
      BY <1>1, <2>14 DEF Copy
    <2>17. Owes(k, kept)'
      <3>1. CASE kept = Deduct(copy, copy, n)
        BY <2>12, <3>1 DEF Owes
      <3>2. CASE kept = ticket'[k]
        BY <2>10, <2>11, <3>2 DEF Owes
      <3> QED
        BY <2>16, <3>1, <3>2
    <2>18. CopyOwes(r)'
      BY <2>15, <2>17 DEF CopyOwes, Owes
    <2>19. ASSUME NEW q \in Requests, q # r PROVE CopyOwes(q)'
      <3>1. CopyOwes(q) /\ req'[q] = req[q] /\ req[q] \in Request
        BY <1>t, <2>15, <2>19 DEF LedgerInv
      <3>2. ASSUME NEW j \in Tickets, NEW old \in TicketRow, Owes(j, old), Copied(q, j)
            PROVE  Owes(j, old)'
        <4>1. CleanRides(j) \in Nat /\ CleanRides(j)' \in Nat /\ CleanRides(j)' >= CleanRides(j)
          <5>1. CASE j = k
            <6>1. CleanRides(k)' \in Nat /\ CleanRides(k)' >= CleanRides(k)
              BY <2>6
            <6> QED
              BY <2>6, <5>1, <6>1
          <5>2. CASE j # k
            <6>1. CleanRides(j) \in Nat
              BY <2>5
            <6>2. CleanRides(j)' = CleanRides(j)
              BY <2>7, <5>2
            <6> QED
              BY <6>1, <6>2
          <5> QED
            BY <5>1, <5>2
        <4>c. j \notin crossed' => j \notin crossed /\ CleanRides(j)' = CleanRides(j)
          <5>1. CASE j # k
            BY <2>7, <2>c, <5>1
          <5>2. CASE j = k /\ f = "ok"
            BY <2>19, <2>c, <3>2, <5>2
          <5>3. CASE j = k /\ f # "ok"
            <6>1. CleanRides(k)' = CleanRides(k)
              BY <1>2, <2>6, <5>3
            <6> QED
              BY <2>c, <5>3, <6>1
          <5> QED
            BY <5>1, <5>2, <5>3
        <4> SUFFICES ASSUME RidesOf[j] # Unlimited
                     PROVE  /\ old.remaining # Unlimited
                            /\ old.remaining >= RidesOf[j] - CleanRides(j)'
                            /\ j \notin crossed' => old.remaining = RidesOf[j] - CleanRides(j)'
          BY DEF Owes
        <4>2. /\ old.remaining # Unlimited /\ old.remaining >= RidesOf[j] - CleanRides(j)
              /\ j \notin crossed' => old.remaining = RidesOf[j] - CleanRides(j)'
          BY <3>2, <4>c DEF Owes
        <4>3. old.remaining \in Nat /\ RidesOf[j] \in Nat
          BY <4>2, CodesAssumption DEF TicketRow
        <4> QED
          BY <4>1, <4>2, <4>3
      <3>3. PICK old \in TicketRow : old = req[q].snap
        BY <3>1 DEF Request
      <3>4. ASSUME req[q].pc \in {"look", "write"}
            PROVE  Owes(TicketOf[req[q].code], req[q].snap)'
        <4>1. PICK j \in Tickets : j = TicketOf[req[q].code]
          BY <3>4, CodesAssumption DEF TypeOK
        <4>2. Owes(j, old)'
          BY <3>1, <3>2, <3>3, <3>4, <4>1 DEF CopyOwes, Copied
        <4> QED
          BY <3>1, <3>3, <4>1, <4>2 DEF Owes
      <3>5. ASSUME req[q].pc = "next", req[q].held \in Tickets
            PROVE  Owes(req[q].held, req[q].snap)'
        <4>1. PICK j \in Tickets : j = req[q].held
          BY <3>5
        <4>2. Owes(j, old)'
          BY <3>1, <3>2, <3>3, <3>5, <4>1 DEF CopyOwes, Copied
        <4> QED
          BY <3>1, <3>3, <4>1, <4>2 DEF Owes
      <3> QED
        BY <3>1, <3>4, <3>5 DEF CopyOwes, Owes, Covers
    <2> QED
      BY <2>4, <2>13, <2>18, <2>19 DEF LedgerInv
  <1> QED
    BY <1>4, <1>5

(* A request that has no item and keeps no ticket owes nothing.              *)
LEMMA NothingHeld ==
    ASSUME LedgerInv, NEW r \in Requests, UNCHANGED <<ticket, redemptions, crossed>>,
           \A q \in Requests : q # r => req'[q] = req[q],
           req'[r].pc = "idle" \/ (req'[r].pc = "next" /\ req'[r].held = "none")
    PROVE  LedgerInv'
  <1>1. CopyOwes(r)'
    BY CodesAssumption DEF CopyOwes
  <1> QED
    BY <1>1, LedgerOne

(* No step puts a row or a copy behind the records.                          *)
LEMMA LedgerStep == TypeOK /\ LedgerInv /\ [Next]_vars => LedgerInv'
  <1> SUFFICES ASSUME TypeOK, LedgerInv, [Next]_vars PROVE LedgerInv'
    OBVIOUS
  <1>t. /\ req \in [Requests -> Request] /\ ticket \in [Tickets -> TicketRow]
        /\ \A r \in Requests : req[r] \in Request
    BY DEF TypeOK
  <1>s. ASSUME NEW k, NEW row, UNCHANGED <<redemptions, crossed>> PROVE Owes(k, row)' <=> Owes(k, row)
    BY <1>s, RidesSame
  <1>1. ASSUME UNCHANGED <<redemptions, req, crossed>>,
               \A k \in Tickets : ticket'[k].remaining = ticket[k].remaining
        PROVE  LedgerInv'
    <2>1. \A k : CleanRides(k)' = CleanRides(k)
      BY <1>1 DEF CleanRides, Clean
    <2>2. \A k \in Tickets : Owes(k, ticket[k])'
      BY <1>1, <2>1 DEF LedgerInv, Owes
    <2>3. \A r \in Requests : CopyOwes(r)'
      BY <1>1, <2>1 DEF LedgerInv, CopyOwes, Owes, Covers
    <2> QED
      BY <1>1, <2>2, <2>3 DEF LedgerInv
  <1>2. CASE DoorStep \/ UNCHANGED vars
    BY <1>1, <1>2 DEF DoorStep, Tick, Show, Scan, vars, marks
  <1>3. ASSUME NEW r \in Requests, NEW d \in Devices, SyncStart(r, d) PROVE LedgerInv'
    <2>1. /\ req' = [req EXCEPT ![r] = [NoReq EXCEPT !.pc = "next", !.device = d, !.todo = outbox[d]]]
          /\ UNCHANGED <<ticket, redemptions, crossed>>
      BY <1>3 DEF SyncStart, marks
    <2>2. /\ \A q \in Requests : q # r => req'[q] = req[q]
          /\ req'[r].pc = "next" /\ req'[r].held = "none"
      BY <1>t, <2>1 DEF NoReq
    <2> QED
      BY <2>1, <2>2, NothingHeld
  <1>4. ASSUME NEW r \in Requests, NEW c \in Codes, ItemLoad(r, c) PROVE LedgerInv'
    <2>1. /\ req' = [req EXCEPT ![r] = [req[r] EXCEPT !.pc = "look", !.todo = @ \ {c}, !.code = c,
                                                     !.snap = Loaded(r, TicketOf[c])]]
          /\ req[r].pc = "next" /\ UNCHANGED <<ticket, redemptions, crossed>>
      BY <1>4 DEF ItemLoad, marks
    <2>2. PICK k \in Tickets : k = TicketOf[c]
      BY CodesAssumption
    <2>3. /\ \A q \in Requests : q # r => req'[q] = req[q]
          /\ req'[r].pc = "look" /\ req'[r].snap = Loaded(r, k) /\ req'[r].code = c
      BY <1>t, <2>1, <2>2 DEF Request
    <2>4. PICK snap : snap = Loaded(r, k)
      OBVIOUS
    <2>5. Owes(k, snap)
      BY <2>1, <2>4 DEF Loaded, LedgerInv, CopyOwes
    <2>6. Owes(k, snap)'
      BY <2>1, <2>5, <1>s
    <2>7. CopyOwes(r)'
      BY <2>2, <2>3, <2>4, <2>6 DEF CopyOwes, Owes
    <2> QED
      BY <2>1, <2>3, <2>7, LedgerOne
  <1>5. ASSUME NEW r \in Requests, NEW c \in Codes, ItemRefused(r, c) PROVE LedgerInv'
    <2>1. /\ req' = [req EXCEPT ![r] = [req[r] EXCEPT !.todo = @ \ {c}, !.done = @ \cup {c},
                                                     !.held = "none", !.snap = NoTicket]]
          /\ req[r].pc = "next" /\ UNCHANGED <<ticket, redemptions, crossed>>
      BY <1>5 DEF ItemRefused, marks
    <2>2. /\ \A q \in Requests : q # r => req'[q] = req[q]
          /\ req'[r].pc = "next" /\ req'[r].held = "none"
      BY <1>t, <2>1 DEF Request
    <2> QED
      BY <2>1, <2>2, NothingHeld
  <1>6. ASSUME NEW r \in Requests, FirstSighting(r) PROVE LedgerInv'
    <2>1. /\ req[r].pc = "look" /\ req[r].code \in Codes
          /\ UNCHANGED <<ticket, redemptions, crossed>>
      BY <1>6 DEF FirstSighting, TypeOK, marks
    <2>2. CASE Covers(req[r].snap, req[r].code)
      <3>1. /\ \A q \in Requests : q # r => req'[q] = req[q]
            /\ req'[r] = [req[r] EXCEPT !.pc = "write"]
        BY <1>6, <1>t, <2>2 DEF FirstSighting
      <3>2. req'[r].pc = "write" /\ req'[r].snap = req[r].snap /\ req'[r].code = req[r].code
        BY <1>t, <3>1 DEF Request
      <3>3. Covers(req'[r].snap, req'[r].code)
        BY <2>2, <3>2
      <3>4. CopyOwes(r)'
        <4>1. PICK k, snap : k = TicketOf[req[r].code] /\ snap = req[r].snap
          OBVIOUS
        <4>2. Owes(k, snap)'
          BY <2>1, <4>1, <1>s DEF LedgerInv, CopyOwes
        <4> QED
          BY <3>2, <3>3, <4>1, <4>2 DEF CopyOwes, Owes, Covers
      <3> QED
        BY <2>1, <3>1, <3>4, LedgerOne
    <2>3. CASE ~Covers(req[r].snap, req[r].code)
      <3>1. Answered(r, "none", NoTicket)
        BY <1>6, <2>3 DEF FirstSighting
      <3>2. /\ \A q \in Requests : q # r => req'[q] = req[q]
            /\ req'[r].pc = "next" /\ req'[r].held = "none"
        BY <2>1, <3>1, Records, AnsweredShape
      <3> QED
        BY <2>1, <3>2, NothingHeld
    <2> QED
      BY <2>2, <2>3
  <1>7. ASSUME NEW r \in Requests, OwnSighting(r) PROVE LedgerInv'
    <2>1. req[r].pc = "look" /\ req[r].code \in Codes /\ UNCHANGED <<ticket, redemptions, crossed>>
      BY <1>7 DEF OwnSighting, TypeOK, marks
    <2>2. PICK k \in Tickets : k = TicketOf[req[r].code]
      BY <2>1, CodesAssumption
    <2>3. PICK kept \in TicketRow : kept = Copy(r, ticket, k, 0)
      BY <1>t, CopyType
    <2>4. Answered(r, k, kept)
      BY <1>7, <2>2, <2>3 DEF OwnSighting
    <2>5. /\ \A q \in Requests : q # r => req'[q] = req[q]
          /\ req'[r].pc = "next" /\ req'[r].held = k /\ req'[r].snap = kept
      BY <2>1, <2>4, AnsweredShape
    <2>6. kept = req[r].snap \/ kept = ticket[k]
      BY <2>3 DEF Copy, Deduct
    <2>7. Owes(k, kept)
      BY <2>1, <2>2, <2>6 DEF LedgerInv, CopyOwes
    <2>8. Owes(k, kept)'
      BY <2>1, <2>7, <1>s
    <2>9. CopyOwes(r)'
      BY <2>5, <2>8 DEF CopyOwes, Owes
    <2> QED
      BY <2>1, <2>5, <2>9, LedgerOne
  <1>8. ASSUME NEW r \in Requests, OtherSighting(r) PROVE LedgerInv'
    <2>1. req[r].pc = "look" /\ UNCHANGED <<ticket, redemptions, crossed>>
      BY <1>8 DEF OtherSighting, marks
    <2>2. /\ \A q \in Requests : q # r => req'[q] = req[q]
          /\ req'[r].pc = "write" /\ req'[r].flag = "duplicate_suspect"
          /\ req'[r].snap = req[r].snap /\ req'[r].code = req[r].code
      BY <1>8, <1>t DEF OtherSighting, Request
    <2>3. PICK k, snap : k = TicketOf[req[r].code] /\ snap = req[r].snap
      OBVIOUS
    <2>4. Owes(k, snap)'
      BY <2>1, <2>3, <1>s DEF LedgerInv, CopyOwes
    <2>5. CopyOwes(r)'
      BY <2>2, <2>3, <2>4 DEF CopyOwes, Owes
    <2> QED
      BY <2>1, <2>2, <2>5, LedgerOne
  <1>9. ASSUME NEW r \in Requests, Write(r) PROVE LedgerInv'
    BY <1>9, LedgerWrite
  <1>10. ASSUME NEW r \in Requests, Reply(r) \/ SyncDies(r) PROVE LedgerInv'
    <2>1. req' = [req EXCEPT ![r] = NoReq] /\ UNCHANGED <<ticket, redemptions, crossed>>
      BY <1>10 DEF Reply, SyncDies, marks
    <2>2. /\ \A q \in Requests : q # r => req'[q] = req[q]
          /\ req'[r].pc = "idle"
      BY <1>t, <2>1 DEF NoReq
    <2> QED
      BY <2>1, <2>2, NothingHeld
  <1>11. CASE SweepLoad \/ (\E k \in Tickets : SweepGet(k)) \/ SweepDies
    BY <1>1, <1>11 DEF SweepLoad, SweepGet, SweepDies, marks
  <1>12. CASE SweepCommit
    <2>1. UNCHANGED <<redemptions, req, crossed>> /\ \A k \in Tickets : ticket[k] \in TicketRow
      BY <1>12, <1>t DEF SweepCommit, marks
    <2>2. \A k \in Tickets : ticket'[k].remaining = ticket[k].remaining
      BY <1>12, <2>1 DEF SweepCommit, TicketRow
    <2> QED
      BY <1>1, <2>1, <2>2
  <1> QED
    BY <1>2, <1>3, <1>4, <1>5, <1>6, <1>7, <1>8, <1>9, <1>10, <1>11, <1>12
    DEF Next, SyncStep, ItemStep, SweepStep

(* At the start nothing is recorded and every ticket has its rides.          *)
LEMMA LedgerInit == Init => LedgerInv
  <1> SUFFICES ASSUME Init PROVE LedgerInv
    OBVIOUS
  <1>1. IsFiniteSet(redemptions)
    BY FS_EmptySet DEF Init
  <1>2. \A r \in Requests : CopyOwes(r)
    BY DEF Init, NoReq, CopyOwes
  <1>3. ASSUME NEW k \in Tickets PROVE Owes(k, ticket[k])
    <2>1. ticket[k] = [status |-> "active", remaining |-> RidesOf[k]]
      BY DEF Init
    <2>2. ticket[k].remaining = RidesOf[k]
      BY <2>1
    <2>3. CleanRides(k) = Cardinality(Riders(Clean(k)))
      BY InitInv, <1>1, RidesCounted DEF IInv
    <2>4. Clean(k) = {}
      BY DEF Init, Clean
    <2>5. Riders({}) = {}
      BY DEF Riders
    <2>6. CleanRides(k) = 0
      BY <2>3, <2>4, <2>5, FS_EmptySet
    <2>7. RidesOf[k] # Unlimited => RidesOf[k] \in Nat /\ RidesOf[k] - CleanRides(k) = RidesOf[k]
      BY <2>6, CodesAssumption
    <2> QED
      BY <2>2, <2>7 DEF Owes
  <1> QED
    BY <1>1, <1>2, <1>3 DEF LedgerInv

(* The inductive invariant of the ledger: no ticket row, and no copy a       *)
(* session judges its next item on, is behind the recorded clean rides.      *)
THEOREM LedgerInductive == Spec => [](TypeOK /\ LedgerInv)
  <1>1. Init => LedgerInv
    BY LedgerInit
  <1>2. TypeOK /\ LedgerInv /\ [Next]_vars => LedgerInv'
    BY LedgerStep
  <1> QED
    BY <1>1, <1>2, TypeCorrect, PTL DEF Spec

(* Whatever is retried, answered twice, raced or lost, a ticket loses no     *)
(* more rides than its clean boardings carried (redeem's deduction).         *)
THEOREM NoOvercharges == Spec => []NoOvercharge
  <1>1. LedgerInv => NoOvercharge
    BY DEF LedgerInv, Owes, NoOvercharge
  <1> QED
    BY <1>1, LedgerInductive, PTL

(* The rows and the records agree exactly, through lost answers, repeated    *)
(* batches, rollbacks and sweeps, in any number of syncs, until a clean      *)
(* boarding of the ticket is recorded while another sync has its row loaded. *)
THEOREM LedgerAgrees == Spec => []LedgerExact
  <1>1. LedgerInv => LedgerExact
    BY DEF LedgerInv, Owes, LedgerExact
  <1> QED
    BY <1>1, LedgerInductive, PTL
=============================================================================
