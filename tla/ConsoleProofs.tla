--------------------------- MODULE ConsoleProofs ----------------------------
(***************************************************************************)
(* Proofs about the desks of the console, for any number of requests at      *)
(* each: Incidents, RouteStops, Registry and Credentials; about the live     *)
(* map, for any devices, trips, connections and durations; and then about    *)
(* the five in MCConsole.                                                    *)
(***************************************************************************)
EXTENDS MCConsole, FiniteSetTheorems, WellFoundedInduction, TLAPS

(* A set of numbers has a least element.                                     *)
LEMMA LeastNumber ==
    ASSUME NEW X \in SUBSET Nat, X # {}
    PROVE  \E x \in X : \A y \in X : x <= y
  <1>1. PICK x \in X : \A y \in X : ~(<<y, x>> \in OpToRel(<, Nat))
    BY NatLessThanWellFounded, WFMin
  <1>2. \A y \in X : x <= y
    <2> TAKE y \in X
    <2>1. ~(y < x)
      BY <1>1 DEF OpToRel
    <2> QED
      BY <2>1
  <1> QED
    BY <1>2

(* Incidents.  A console request that works on an alert nobody raced for has *)
(* read the row as it is; whatever it read, an admin named then is still one *)
(* named now.                                                                *)
ReadsHold == \A d \in Admins : desk[d].pc = "read" =>
    LET a == desk[d].on IN
    /\ desk[d].kind \in {"acknowledge", "resolve"}
    /\ desk[d].read.status \in {"open", "acknowledged"}
    /\ desk[d].kind = "acknowledge" => desk[d].read.status = "open"
    /\ desk[d].read.by # "nobody" => alert[a].by # "nobody"
    /\ alert[a].status # "unraised"
    /\ a \notin raced => desk[d].read = alert[a]

(* An alert is being raised by one phone, which holds it until it publishes. *)
RaisedOnce ==
    /\ \A p \in Phones : /\ phone[p].pc = "idle" => phone[p].on = "nobody"
                         /\ phone[p].on \in Alerts /\ phone[p].pc = "flushed"
                              => alert[phone[p].on] = I!Unraised
                         /\ phone[p].on \in Alerts /\ phone[p].pc = "committed"
                              => alert[phone[p].on].status # "unraised"
    /\ \A p, q \in Phones : phone[p].on = phone[q].on /\ phone[p].on \in Alerts => p = q

(* Seat counts on their way are of reports on record; and without doubt only *)
(* one is, the last.                                                         *)
LastOnItsWay == \A p \in I!Publishing :
    /\ phone[p].number \in 1..latest
    /\ ~doubt => phone[p].number = latest /\ I!Publishing = {p}

IncidentInv == I!TypeOK /\ IncidentKept /\ SeatsFollowReports
               /\ ReadsHold /\ RaisedOnce /\ LastOnItsWay

-----------------------------------------------------------------------------
USE DEF I!Nobody, I!None

(* An instance counts as the library does.                                   *)
LEMMA SameCount == \A X : I!Cardinality(X) = Cardinality(X)
  BY DEF I!Cardinality, Cardinality

(* The records Incidents begins with.                                        *)
LEMMA IncidentRecords ==
    /\ I!Fresh \in I!Row /\ I!Unraised \in I!Row
    /\ I!Unraised.status = "unraised" /\ I!Unraised.by = "nobody" /\ I!Unraised.closer = "nobody"
    /\ I!Fresh.status = "open" /\ I!Fresh.by = "nobody" /\ I!Fresh.closer = "nobody"
  BY DEF I!Fresh, I!Unraised, I!Row

(* A phone's request, and the steps it takes.                                *)
PhoneRequest == [pc : {"idle", "flushed", "committed"},
                 on : Alerts \cup {"nobody"}, number : 0..MaxReports]

(* A step of one phone leaves the others as they were.                       *)
LEMMA PhoneShape ==
    ASSUME I!TypeOK, NEW p \in Phones, NEW q \in PhoneRequest,
           phone' = [phone EXCEPT ![p] = q]
    PROVE  /\ phone' \in [Phones -> PhoneRequest]
           /\ phone'[p] = q
           /\ \A x \in Phones : x # p => phone'[x] = phone[x]
  BY DEF I!TypeOK, PhoneRequest

(* At first nothing is raised, read or reported.                             *)
LEMMA InitIncident == I!Init => IncidentInv
  <1> SUFFICES ASSUME I!Init PROVE IncidentInv
    OBVIOUS
  <1>1. I!TypeOK
    <2>1. I!NoRequest \in [pc : {"idle", "read"}, kind : {"none", "acknowledge", "resolve"},
                           on : Alerts \cup {"nobody"}, read : I!Row]
      BY IncidentRecords DEF I!NoRequest
    <2>2. I!NoReport \in PhoneRequest
      BY DesksAssumption DEF I!NoReport, PhoneRequest
    <2>3. alert \in [Alerts -> I!Row] /\ told \in [Alerts -> SUBSET Admins]
      BY IncidentRecords DEF I!Init
    <2>4. \A d \in Admins : desk[d].pc = "idle"
      BY DEF I!Init, I!NoRequest
    <2>5. latest \in 0..MaxReports /\ seats \in 0..MaxReports
      BY DesksAssumption DEF I!Init
    <2>6. onTrip \in BOOLEAN /\ doubt \in BOOLEAN
      BY DEF I!Init
    <2> QED
      BY <2>1, <2>2, <2>3, <2>4, <2>5, <2>6 DEF I!Init, I!TypeOK, PhoneRequest
  <1>2. IncidentKept
    BY IncidentRecords, FS_EmptySet, SameCount, <1>1 DEF I!Init, IncidentKept, I!IncidentKept, I!TypeOK
  <1>3. SeatsFollowReports
    BY DEF I!Init, SeatsFollowReports, I!SeatsFollowReports
  <1>4. ReadsHold /\ RaisedOnce /\ LastOnItsWay
    BY DesksAssumption DEF I!Init, ReadsHold, RaisedOnce, LastOnItsWay, I!Publishing, I!NoRequest, I!NoReport
  <1> QED
    BY <1>1, <1>2, <1>3, <1>4 DEF IncidentInv

(* A console request, and the steps it takes.                                *)
DeskRequest == [pc : {"idle", "read"}, kind : {"none", "acknowledge", "resolve"},
                on : Alerts \cup {"nobody"}, read : I!Row]

(* A step of one admin leaves the others as they were.                       *)
LEMMA DeskShape ==
    ASSUME I!TypeOK, NEW d \in Admins, NEW q \in DeskRequest,
           desk' = [desk EXCEPT ![d] = q]
    PROVE  /\ desk' \in [Admins -> DeskRequest]
           /\ desk'[d] = q
           /\ \A x \in Admins : x # d => desk'[x] = desk[x]
  BY DEF I!TypeOK, DeskRequest

(* The records of a desk and a phone at rest.                                *)
LEMMA IdleRecords == I!NoRequest \in DeskRequest /\ I!NoReport \in PhoneRequest
                     /\ I!NoRequest.pc = "idle" /\ I!NoReport.pc = "idle" /\ I!NoReport.on = "nobody"
  BY IncidentRecords, DesksAssumption DEF I!NoRequest, I!NoReport, DeskRequest, PhoneRequest

(* What a console's write does to the row and to who was told.               *)
LEMMA RowWrite ==
    ASSUME I!TypeOK, NEW d \in Admins, I!CommitAcknowledge(d) \/ I!CommitResolve(d)
    PROVE  LET a == desk[d].on
               by == IF I!CommitAcknowledge(d) \/ desk[d].read.by = "nobody" THEN d ELSE alert[a].by
           IN
           /\ a \in Alerts
           /\ alert' \in [Alerts -> I!Row] /\ told' \in [Alerts -> SUBSET Admins]
           /\ \A b \in Alerts : b # a => alert'[b] = alert[b] /\ told'[b] = told[b]
           /\ alert'[a].by = by
           /\ I!CommitAcknowledge(d) =>
                 /\ alert'[a].status = "acknowledged" /\ alert'[a].closer = alert[a].closer
                 /\ told'[a] = told[a] \cup {d} /\ desk[d].kind = "acknowledge"
           /\ ~I!CommitAcknowledge(d) =>
                 /\ alert'[a].status = "resolved" /\ alert'[a].closer = d
                 /\ told'[a] = told[a] /\ desk[d].kind = "resolve"
  <1>1. desk[d].on \in Alerts /\ alert[desk[d].on] \in I!Row
    BY DEF I!TypeOK, I!CommitAcknowledge, I!CommitResolve
  <1>2. CASE I!CommitAcknowledge(d)
    BY <1>1, <1>2 DEF I!TypeOK, I!CommitAcknowledge, I!Row
  <1>3. CASE ~I!CommitAcknowledge(d)
    <2>1. I!CommitResolve(d)
      BY <1>3
    <2>2. /\ desk[d].kind = "resolve" /\ told' = told
          /\ alert' = [alert EXCEPT ![desk[d].on].status = "resolved", ![desk[d].on].closer = d,
                  ![desk[d].on].by = IF desk[d].read.by = "nobody" THEN d ELSE @]
      BY <2>1 DEF I!CommitResolve
    <2>3. [alert[desk[d].on] EXCEPT !.status = "resolved", !.closer = d,
                  !.by = IF desk[d].read.by = "nobody" THEN d ELSE @] \in I!Row
      BY <1>1 DEF I!Row
    <2>4. alert' \in [Alerts -> I!Row] /\ told' \in [Alerts -> SUBSET Admins]
      BY <2>2, <2>3 DEF I!TypeOK
    <2>5. \A b \in Alerts : b # desk[d].on => alert'[b] = alert[b] /\ told'[b] = told[b]
      BY <2>2 DEF I!TypeOK
    <2>6. /\ alert'[desk[d].on].status = "resolved" /\ alert'[desk[d].on].closer = d
          /\ alert'[desk[d].on].by = IF desk[d].read.by = "nobody" THEN d ELSE alert[desk[d].on].by
      BY <1>1, <2>2 DEF I!TypeOK, I!Row
    <2> QED
      BY <1>1, <1>3, <2>2, <2>4, <2>5, <2>6
  <1> QED
    BY <1>2, <1>3

(* Every step of the phones and of the console keeps the types.              *)
LEMMA IncidentTypes == I!TypeOK /\ [I!Next]_I!vars => I!TypeOK'
  <1> SUFFICES ASSUME I!TypeOK, [I!Next]_I!vars PROVE I!TypeOK'
    OBVIOUS
  <1> USE DesksAssumption, IdleRecords DEF I!incident, I!counting
  <1>p. ASSUME UNCHANGED <<alert, raced, desk, told>>, announced' \subseteq Alerts,
               onTrip' \in BOOLEAN, doubt' \in BOOLEAN,
               latest' \in 0..MaxReports, seats' \in 0..MaxReports,
               phone' \in [Phones -> PhoneRequest]
        PROVE  I!TypeOK'
    BY <1>p DEF I!TypeOK, PhoneRequest
  <1>t. /\ announced \subseteq Alerts /\ onTrip \in BOOLEAN /\ doubt \in BOOLEAN
        /\ latest \in 0..MaxReports /\ seats \in 0..MaxReports
        /\ phone \in [Phones -> PhoneRequest]
    BY DEF I!TypeOK, PhoneRequest
  <1>1. CASE I!Trip
    <2>1. onTrip' \in BOOLEAN
      BY <1>1 DEF I!Trip
    <2> QED
      BY <1>1, <1>p, <1>t, <2>1 DEF I!Trip
  <1>2. CASE I!SeatsExpire
    <2>1. seats' \in 0..MaxReports
      BY <1>2 DEF I!SeatsExpire
    <2> QED
      BY <1>2, <1>p, <1>t, <2>1 DEF I!SeatsExpire
  <1>3. ASSUME NEW p \in Phones, NEW a \in Alerts, I!Raise(p, a) PROVE I!TypeOK'
    <2>1. [I!NoReport EXCEPT !.pc = "flushed", !.on = a] \in PhoneRequest
      BY DEF PhoneRequest
    <2>2. phone' \in [Phones -> PhoneRequest]
      BY <1>3, <2>1, PhoneShape DEF I!Raise
    <2> QED
      BY <1>3, <1>p, <1>t, <2>2 DEF I!Raise
  <1>4. ASSUME NEW p \in Phones, I!CommitAlert(p) PROVE I!TypeOK'
    <2>1. phone[p].on \in Alerts
      BY <1>4 DEF I!CommitAlert, I!TypeOK
    <2>2. phone' \in [Phones -> PhoneRequest]
      BY <1>4, <1>t DEF I!CommitAlert, PhoneRequest
    <2> QED
      BY <1>4, <2>1, <2>2, IncidentRecords DEF I!CommitAlert, I!TypeOK, PhoneRequest
  <1>5. ASSUME NEW p \in Phones, I!PublishAlert(p) PROVE I!TypeOK'
    <2>1. phone[p].on \in Alerts
      BY <1>5 DEF I!PublishAlert, I!TypeOK
    <2>2. phone' \in [Phones -> PhoneRequest]
      BY <1>5, PhoneShape DEF I!PublishAlert
    <2>3. announced' \subseteq Alerts
      BY <1>5, <1>t, <2>1 DEF I!PublishAlert
    <2> QED
      BY <1>5, <1>p, <1>t, <2>2, <2>3 DEF I!PublishAlert
  <1>6. ASSUME NEW p \in Phones, I!ReportSeats(p) PROVE I!TypeOK'
    <2>1. [I!NoReport EXCEPT !.pc = "flushed"] \in PhoneRequest
      BY DEF PhoneRequest
    <2>2. phone' \in [Phones -> PhoneRequest]
      BY <1>6, <2>1, PhoneShape DEF I!ReportSeats
    <2> QED
      BY <1>6, <1>p, <1>t, <2>2 DEF I!ReportSeats
  <1>7. ASSUME NEW p \in Phones, I!CommitSeats(p) PROVE I!TypeOK'
    <2>1. latest' \in 0..MaxReports
      BY <1>7, <1>t DEF I!CommitSeats
    <2>2. phone' \in [Phones -> PhoneRequest]
      BY <1>7, <1>t, <2>1 DEF I!CommitSeats, PhoneRequest
    <2>3. doubt' \in BOOLEAN
      BY <1>7 DEF I!CommitSeats
    <2> QED
      BY <1>7, <1>p, <1>t, <2>1, <2>2, <2>3 DEF I!CommitSeats
  <1>8. ASSUME NEW p \in Phones, I!PublishSeats(p) PROVE I!TypeOK'
    <2>1. seats' \in 0..MaxReports
      BY <1>8, <1>t DEF I!PublishSeats, PhoneRequest
    <2>2. phone' \in [Phones -> PhoneRequest]
      BY <1>8, PhoneShape DEF I!PublishSeats
    <2>3. doubt' \in BOOLEAN
      BY <1>8 DEF I!PublishSeats
    <2> QED
      BY <1>8, <1>p, <1>t, <2>1, <2>2, <2>3 DEF I!PublishSeats
  <1>9. ASSUME NEW p \in Phones, I!PhoneFails(p) PROVE I!TypeOK'
    <2>1. phone' \in [Phones -> PhoneRequest]
      BY <1>9, PhoneShape DEF I!PhoneFails
    <2>2. doubt' \in BOOLEAN
      BY <1>9 DEF I!PhoneFails
    <2> QED
      BY <1>9, <1>p, <1>t, <2>1, <2>2 DEF I!PhoneFails
  <1>d. ASSUME UNCHANGED <<announced, onTrip, doubt, latest, seats, phone>>,
               alert' \in [Alerts -> I!Row], told' \in [Alerts -> SUBSET Admins],
               raced' \subseteq Alerts, desk' \in [Admins -> DeskRequest],
               \A d \in Admins : desk'[d].pc = "read" => desk'[d].on \in Alerts
        PROVE  I!TypeOK'
    BY <1>d DEF I!TypeOK, DeskRequest
  <1>s. /\ alert \in [Alerts -> I!Row] /\ told \in [Alerts -> SUBSET Admins] /\ raced \subseteq Alerts
        /\ \A d \in Admins : desk[d].pc = "read" => desk[d].on \in Alerts
    BY DEF I!TypeOK
  <1>10. ASSUME NEW d \in Admins, NEW a \in Alerts, NEW kind \in {"acknowledge", "resolve"},
                I!Begin(d, a, kind)
         PROVE  I!TypeOK'
    <2>1. [pc |-> "read", kind |-> kind, on |-> a, read |-> alert[a]] \in DeskRequest
      BY <1>s DEF DeskRequest
    <2>2. desk' = [desk EXCEPT ![d] = [pc |-> "read", kind |-> kind, on |-> a, read |-> alert[a]]]
      BY <1>10 DEF I!Begin
    <2>3. /\ desk' \in [Admins -> DeskRequest]
          /\ \A x \in Admins : desk'[x].pc = "read" => desk'[x].on \in Alerts
      BY <1>s, <2>1, <2>2, DeskShape
    <2> QED
      BY <1>10, <1>d, <1>s, <2>3 DEF I!Begin
  <1>11. ASSUME NEW d \in Admins, I!CommitAcknowledge(d) \/ I!CommitResolve(d) PROVE I!TypeOK'
    <2>1. I!Leave(d, desk[d].on) /\ desk[d].on \in Alerts
      BY <1>11, <1>s DEF I!CommitAcknowledge, I!CommitResolve
    <2>2. /\ desk' \in [Admins -> DeskRequest]
          /\ \A x \in Admins : desk'[x].pc = "read" => desk'[x].on \in Alerts
      BY <1>s, <2>1, DeskShape DEF I!Leave
    <2>3. raced' \subseteq Alerts
      BY <1>s, <2>1 DEF I!Leave
    <2>4. alert' \in [Alerts -> I!Row] /\ told' \in [Alerts -> SUBSET Admins]
      BY <1>11, RowWrite
    <2> QED
      BY <1>d, <2>1, <2>2, <2>3, <2>4 DEF I!Leave
  <1>12. ASSUME NEW d \in Admins, I!DeskFails(d) PROVE I!TypeOK'
    <2>1. /\ desk' \in [Admins -> DeskRequest]
          /\ \A x \in Admins : desk'[x].pc = "read" => desk'[x].on \in Alerts
      BY <1>12, <1>s, DeskShape DEF I!DeskFails
    <2> QED
      BY <1>12, <1>d, <1>s, <2>1 DEF I!DeskFails
  <1>13. CASE UNCHANGED I!vars
    BY <1>13, <1>p, <1>t DEF I!vars
  <1> QED
    BY <1>1, <1>2, <1>3, <1>4, <1>5, <1>6, <1>7, <1>8, <1>9, <1>10, <1>11, <1>12, <1>13
    DEF I!Next, I!PhoneStep, I!DeskStep, I!BeginAcknowledge, I!BeginResolve

(* What IncidentKept says of one alert, told at most one being: no one, or   *)
(* one.                                                                      *)
KeptAlert(a) ==
    /\ alert[a].status \in {"unraised", "open"} <=> alert[a].by = "nobody"
    /\ alert[a].status = "resolved" => alert[a].closer # "nobody"
    /\ a \notin raced =>
          /\ Cardinality(told[a]) <= 1
          /\ alert[a].closer # "nobody" => alert[a].status = "resolved"
          /\ told[a] # {} => alert[a].by \in told[a]

(* IncidentKept says the same of each alert,                                 *)
LEMMA KeptAll == IncidentKept <=> \A a \in Alerts : KeptAlert(a)
  BY SameCount DEF IncidentKept, I!IncidentKept, KeptAlert

(* and does so of the next state.                                            *)
LEMMA KeptAllNext == IncidentKept' <=> \A a \in Alerts : KeptAlert(a)'
  BY SameCount DEF IncidentKept, I!IncidentKept, KeptAlert

(* An incident stays what the console was told of it.                        *)
LEMMA DeskStep == IncidentInv /\ [I!Next]_I!vars => IncidentKept' /\ ReadsHold'
  <1> SUFFICES ASSUME IncidentInv, [I!Next]_I!vars PROVE IncidentKept' /\ ReadsHold'
    OBVIOUS
  <1> USE DesksAssumption, IdleRecords DEF I!incident, I!counting
  <1>i. /\ I!TypeOK /\ ReadsHold /\ RaisedOnce
        /\ \A a \in Alerts : KeptAlert(a)
    BY KeptAll DEF IncidentInv
  <1>t. /\ \A a \in Alerts : alert[a] \in I!Row /\ told[a] \subseteq Admins
        /\ \A d \in Admins : desk[d].pc = "read" => desk[d].on \in Alerts
    BY <1>i DEF I!TypeOK
  <1>f. ASSUME UNCHANGED <<alert, raced, told, desk>> PROVE IncidentKept' /\ ReadsHold'
    <2>1. \A a \in Alerts : KeptAlert(a)'
      BY <1>f, <1>i DEF KeptAlert
    <2>2. ReadsHold'
      BY <1>f, <1>i DEF ReadsHold
    <2> QED
      BY <2>1, <2>2, KeptAllNext
  <1>1. ASSUME NEW p \in Phones, I!CommitAlert(p) PROVE IncidentKept' /\ ReadsHold'
    <2>a. PICK a \in Alerts : a = phone[p].on
      BY <1>1, <1>i DEF I!CommitAlert, I!TypeOK
    <2>1. /\ a \in Alerts /\ alert[a] = I!Unraised
          /\ alert' = [alert EXCEPT ![a] = I!Fresh]
          /\ UNCHANGED <<raced, told, desk>>
      BY <1>1, <1>i, <2>a DEF I!CommitAlert, RaisedOnce
    <2>2. alert'[a] = I!Fresh /\ \A b \in Alerts : b # a => alert'[b] = alert[b]
      BY <2>1, <1>i DEF I!TypeOK
    <2>3. KeptAlert(a)'
      BY <2>1, <2>2, <1>i, <1>t, IncidentRecords DEF KeptAlert
    <2>4. \A b \in Alerts : b # a => KeptAlert(b)'
      BY <2>1, <2>2, <1>i DEF KeptAlert
    <2>5. \A d \in Admins : desk[d].pc = "read" => desk[d].on # a
      BY <2>1, <1>i, IncidentRecords DEF ReadsHold
    <2>6. ReadsHold'
      BY <2>1, <2>2, <2>5, <1>i, <1>t DEF ReadsHold
    <2> QED
      BY <2>3, <2>4, <2>6, KeptAllNext
  <1>2. ASSUME NEW d \in Admins, NEW a \in Alerts, I!BeginAcknowledge(d, a) \/ I!BeginResolve(d, a)
        PROVE  IncidentKept' /\ ReadsHold'
    <2>1. PICK kind \in {"acknowledge", "resolve"} :
              /\ I!Begin(d, a, kind)
              /\ alert[a].status \in {"open", "acknowledged"}
              /\ kind = "acknowledge" => alert[a].status = "open"
      BY <1>2 DEF I!BeginAcknowledge, I!BeginResolve
    <2> DEFINE q == [pc |-> "read", kind |-> kind, on |-> a, read |-> alert[a]]
    <2>2. desk' = [desk EXCEPT ![d] = q] /\ UNCHANGED <<alert, raced, told>>
      BY <2>1 DEF I!Begin
    <2>3. q \in DeskRequest
      BY <1>t DEF DeskRequest
    <2>4. desk'[d] = q /\ \A x \in Admins : x # d => desk'[x] = desk[x]
      BY <2>2, <2>3, <1>i, DeskShape
    <2>5. ReadsHold'
      BY <2>1, <2>2, <2>4, <1>i DEF ReadsHold
    <2>6. \A b \in Alerts : KeptAlert(b)'
      BY <2>2, <1>i DEF KeptAlert
    <2> QED
      BY <2>5, <2>6, KeptAllNext
  <1>3. ASSUME NEW d \in Admins, I!CommitAcknowledge(d) \/ I!CommitResolve(d)
        PROVE  IncidentKept' /\ ReadsHold'
    <2>a. PICK a \in Alerts : a = desk[d].on
      BY <1>3, <1>t DEF I!CommitAcknowledge, I!CommitResolve
    <2>1. desk[d].pc = "read" /\ I!Leave(d, a) /\ a \in Alerts
      BY <1>3, <2>a DEF I!CommitAcknowledge, I!CommitResolve
    <2>2. desk'[d].pc = "idle" /\ \A x \in Admins : x # d => desk'[x] = desk[x]
      BY <2>1, <1>i, DeskShape DEF I!Leave
    <2>3. \A b \in Alerts : b # a => alert'[b] = alert[b] /\ told'[b] = told[b]
                                     /\ (b \in raced' <=> b \in raced)
      BY <1>3, <1>i, <2>1, RowWrite, <2>a DEF I!Leave
    <2>4. a \notin raced' => a \notin raced /\ I!Racing(d) = {}
      BY <2>1 DEF I!Leave
    <2>5. alert'[a].by # "nobody" /\ alert'[a].status \in {"acknowledged", "resolved"}
      BY <1>3, <1>i, <2>1, RowWrite, <2>a DEF ReadsHold
    <2>6. KeptAlert(a)'
      <3>1. CASE a \in raced'
        <4>1. alert'[a].status = "resolved" => alert'[a].closer # "nobody"
          BY <1>3, <1>i, RowWrite, <2>a
        <4> QED
          BY <3>1, <4>1, <2>5 DEF KeptAlert
      <3>2. CASE a \notin raced'
        <4>1. desk[d].read = alert[a] /\ alert[a].status \in {"open", "acknowledged"}
              /\ (desk[d].kind = "acknowledge" => alert[a].status = "open")
          BY <3>2, <2>4, <2>1, <2>a, <1>i DEF ReadsHold
        <4>2. KeptAlert(a) /\ a \notin raced
          BY <2>1, <1>i, <2>4, <3>2
        <4>3. CASE I!CommitAcknowledge(d)
          <5>1. /\ alert'[a].status = "acknowledged" /\ alert'[a].closer = alert[a].closer
                /\ told'[a] = told[a] \cup {d} /\ alert'[a].by = d /\ desk[d].kind = "acknowledge"
            BY <4>3, <1>i, RowWrite, <2>a
          <5>2. told[a] = {} /\ alert[a].closer = "nobody"
            BY <4>1, <4>2, <5>1, <1>t, <2>1 DEF KeptAlert
          <5>3. told'[a] = {d} /\ Cardinality({d}) <= 1
            BY <5>1, <5>2, FS_Singleton
          <5> QED
            BY <5>1, <5>2, <5>3 DEF KeptAlert
        <4>4. CASE ~I!CommitAcknowledge(d)
          <5>1. /\ alert'[a].status = "resolved" /\ alert'[a].closer = d /\ told'[a] = told[a]
                /\ alert'[a].by = IF alert[a].by = "nobody" THEN d ELSE alert[a].by
            BY <4>4, <4>1, <1>3, <1>i, RowWrite, <2>a
          <5>2. told[a] # {} => alert[a].by # "nobody" /\ alert[a].by \in told[a]
            BY <4>2, <1>t, <2>1 DEF KeptAlert
          <5> QED
            BY <4>2, <5>1, <5>2 DEF KeptAlert
        <4> QED
          BY <4>3, <4>4
      <3> QED
        BY <3>1, <3>2
    <2>7. \A b \in Alerts : b # a => KeptAlert(b)'
      BY <2>3, <1>i DEF KeptAlert
    <2>8. ReadsHold'
      <3> SUFFICES ASSUME NEW e \in Admins, desk'[e].pc = "read"
                   PROVE  LET b == desk'[e].on IN
                          /\ desk'[e].kind \in {"acknowledge", "resolve"}
                          /\ desk'[e].read.status \in {"open", "acknowledged"}
                          /\ desk'[e].kind = "acknowledge" => desk'[e].read.status = "open"
                          /\ desk'[e].read.by # "nobody" => alert'[b].by # "nobody"
                          /\ alert'[b].status # "unraised"
                          /\ b \notin raced' => desk'[e].read = alert'[b]
        BY DEF ReadsHold
      <3>1. e # d /\ desk'[e] = desk[e] /\ desk[e].on \in Alerts
        BY <2>2, <1>t
      <3>2. CASE desk[e].on = a
        <4>1. e \in I!Racing(d)
          BY <3>1, <3>2, <2>a DEF I!Racing
        <4>2. a \in raced'
          BY <4>1, <2>4
        <4> QED
          BY <3>1, <3>2, <4>2, <2>5, <1>i DEF ReadsHold
      <3>3. CASE desk[e].on # a
        BY <3>1, <3>3, <2>3, <1>i DEF ReadsHold
      <3> QED
        BY <3>2, <3>3
    <2> QED
      BY <2>6, <2>7, <2>8, KeptAllNext
  <1>4. ASSUME NEW d \in Admins, I!DeskFails(d) PROVE IncidentKept' /\ ReadsHold'
    <2>1. desk'[d].pc = "idle" /\ \A x \in Admins : x # d => desk'[x] = desk[x]
      BY <1>4, <1>i, DeskShape DEF I!DeskFails
    <2>2. ReadsHold'
      BY <1>4, <2>1, <1>i DEF ReadsHold, I!DeskFails
    <2>3. \A b \in Alerts : KeptAlert(b)'
      BY <1>4, <1>i DEF KeptAlert, I!DeskFails
    <2> QED
      BY <2>2, <2>3, KeptAllNext
  <1> QED
    <2>1. CASE I!Trip \/ I!SeatsExpire \/ UNCHANGED I!vars
      BY <2>1, <1>f DEF I!Trip, I!SeatsExpire, I!vars
    <2>2. ASSUME NEW p \in Phones, I!PhoneStep(p), ~I!CommitAlert(p)
          PROVE  UNCHANGED <<alert, raced, told, desk>>
      BY <2>2 DEF I!PhoneStep, I!Raise, I!PublishAlert, I!ReportSeats,
                  I!CommitSeats, I!PublishSeats, I!PhoneFails
    <2>3. CASE \E p \in Phones : I!PhoneStep(p)
      BY <2>2, <2>3, <1>f, <1>1
    <2>4. CASE \E d \in Admins : I!DeskStep(d)
      BY <2>4, <1>2, <1>3, <1>4 DEF I!DeskStep
    <2> QED
      BY <2>1, <2>3, <2>4 DEF I!Next

(* Once raised an alert stays raised.                                        *)
LEMMA RaisedStays ==
    ASSUME IncidentInv, [I!Next]_I!vars
    PROVE  \A a \in Alerts : alert[a].status # "unraised" => alert'[a].status # "unraised"
  <1>1. ASSUME NEW p \in Phones, I!CommitAlert(p)
        PROVE  \A a \in Alerts : alert[a].status # "unraised" => alert'[a].status # "unraised"
    BY <1>1, IncidentRecords DEF I!CommitAlert, IncidentInv, I!TypeOK
  <1>2. ASSUME NEW d \in Admins, I!CommitAcknowledge(d) \/ I!CommitResolve(d)
        PROVE  \A a \in Alerts : alert[a].status # "unraised" => alert'[a].status # "unraised"
    BY <1>2, RowWrite DEF IncidentInv
  <1>3. \/ UNCHANGED alert
        \/ \E p \in Phones : I!CommitAlert(p)
        \/ \E d \in Admins : I!CommitAcknowledge(d) \/ I!CommitResolve(d)
    BY DEF I!Next, I!PhoneStep, I!DeskStep, I!Trip, I!SeatsExpire, I!Raise, I!PublishAlert,
           I!ReportSeats, I!CommitSeats, I!PublishSeats, I!PhoneFails, I!BeginAcknowledge,
           I!BeginResolve, I!Begin, I!DeskFails, I!vars, I!incident
  <1> QED
    BY <1>1, <1>2, <1>3

(* A phone holds the alert it raises, alone, until it has published it.      *)
LEMMA RaiseStep == IncidentInv /\ [I!Next]_I!vars => RaisedOnce' /\ announced' \subseteq
                       {a \in Alerts : alert'[a].status # "unraised"}
  <1> SUFFICES ASSUME IncidentInv, [I!Next]_I!vars
               PROVE  /\ RaisedOnce'
                      /\ announced' \subseteq {a \in Alerts : alert'[a].status # "unraised"}
    OBVIOUS
  <1> USE DesksAssumption, IdleRecords DEF I!incident, I!counting
  <1> DEFINE Raised == {a \in Alerts : alert[a].status # "unraised"}
             Goal == RaisedOnce' /\ announced' \subseteq {a \in Alerts : alert'[a].status # "unraised"}
  <1>i. /\ I!TypeOK /\ RaisedOnce /\ ReadsHold /\ announced \subseteq Raised
    BY DEF IncidentInv, SeatsFollowReports, I!SeatsFollowReports, I!TypeOK
  <1>r. \A a \in Raised : alert'[a].status # "unraised"
    BY RaisedStays
  <1>q. \A p \in Phones : phone[p] \in PhoneRequest
    BY <1>i DEF I!TypeOK, PhoneRequest
  <1>0. ASSUME announced' = announced, phone' = phone,
               \A a \in Alerts : alert[a] = I!Unraised => alert'[a] = alert[a]
        PROVE  Goal
    BY <1>0, <1>i, <1>r DEF RaisedOnce
  <1>1. ASSUME NEW p \in Phones, NEW a \in Alerts, I!Raise(p, a) PROVE Goal
    <2>1. /\ phone' = [phone EXCEPT ![p] = [I!NoReport EXCEPT !.pc = "flushed", !.on = a]]
          /\ [I!NoReport EXCEPT !.pc = "flushed", !.on = a] \in PhoneRequest
          /\ UNCHANGED <<alert, announced>> /\ alert[a] = I!Unraised
          /\ \A q \in Phones : phone[q].on # a
      BY <1>1 DEF I!Raise, PhoneRequest
    <2>2. /\ phone'[p].pc = "flushed" /\ phone'[p].on = a
          /\ \A x \in Phones : x # p => phone'[x] = phone[x]
      BY <2>1, <1>i, PhoneShape DEF PhoneRequest
    <2> QED
      BY <2>1, <2>2, <1>i DEF RaisedOnce
  <1>2. ASSUME NEW p \in Phones, I!CommitAlert(p) PROVE Goal
    <2>1. /\ phone[p].on \in Alerts
          /\ alert' = [alert EXCEPT ![phone[p].on] = I!Fresh] /\ UNCHANGED announced
          /\ phone' = [phone EXCEPT ![p].pc = "committed"]
      BY <1>2, <1>i DEF I!CommitAlert, I!TypeOK
    <2>2. /\ phone'[p].pc = "committed" /\ phone'[p].on = phone[p].on
          /\ \A x \in Phones : x # p => phone'[x] = phone[x]
      BY <2>1, <1>i DEF I!TypeOK
    <2>3. /\ alert'[phone[p].on] = I!Fresh
          /\ \A b \in Alerts : b # phone[p].on => alert'[b] = alert[b]
      BY <2>1, <1>i DEF I!TypeOK
    <2>4. RaisedOnce'
      BY <2>1, <2>2, <2>3, <1>i, IncidentRecords DEF RaisedOnce
    <2> QED
      BY <2>1, <2>4, <1>i, <1>r
  <1>3. ASSUME NEW p \in Phones, UNCHANGED alert, phone' = [phone EXCEPT ![p] = I!NoReport],
               announced' \subseteq announced \cup
                   (IF phone[p].pc = "committed" THEN {phone[p].on} \cap Alerts ELSE {})
        PROVE  Goal
    <2>1. phone'[p] = I!NoReport /\ \A x \in Phones : x # p => phone'[x] = phone[x]
      BY <1>3, <1>i, PhoneShape
    <2>2. RaisedOnce'
      BY <1>3, <2>1, <1>i DEF RaisedOnce
    <2>3. announced' \subseteq Raised
      BY <1>3, <1>i DEF RaisedOnce
    <2> QED
      BY <2>2, <2>3, <1>3
  <1>4. ASSUME NEW p \in Phones, I!PublishAlert(p) PROVE Goal
    <2>1. phone[p].on \in Alerts /\ phone[p].pc = "committed"
      BY <1>4, <1>i DEF I!PublishAlert, I!TypeOK
    <2> QED
      BY <1>3, <1>4, <2>1 DEF I!PublishAlert
  <1>5. ASSUME NEW p \in Phones, I!PublishSeats(p) \/ I!PhoneFails(p) PROVE Goal
    BY <1>3, <1>5 DEF I!PublishSeats, I!PhoneFails
  <1>6. ASSUME NEW p \in Phones, I!ReportSeats(p) PROVE Goal
    <2>1. /\ phone' = [phone EXCEPT ![p] = [I!NoReport EXCEPT !.pc = "flushed"]]
          /\ [I!NoReport EXCEPT !.pc = "flushed"] \in PhoneRequest
          /\ UNCHANGED <<alert, announced>>
      BY <1>6 DEF I!ReportSeats, PhoneRequest
    <2>2. /\ phone'[p].on = "nobody" /\ phone'[p].pc = "flushed"
          /\ \A x \in Phones : x # p => phone'[x] = phone[x]
      BY <2>1, <1>i, PhoneShape DEF PhoneRequest
    <2>3. RaisedOnce'
      BY <2>1, <2>2, <1>i DEF RaisedOnce
    <2> QED
      BY <2>1, <2>3, <1>i
  <1>7. ASSUME NEW p \in Phones, I!CommitSeats(p) PROVE Goal
    <2>1. /\ phone[p].on = "nobody" /\ UNCHANGED <<alert, announced>>
          /\ phone' = [phone EXCEPT ![p].pc = "committed", ![p].number = latest']
      BY <1>7 DEF I!CommitSeats
    <2>2. /\ phone'[p].on = "nobody" /\ phone'[p].pc = "committed"
          /\ \A x \in Phones : x # p => phone'[x] = phone[x]
      BY <2>1, <1>i, <1>q DEF I!TypeOK, PhoneRequest
    <2>u. UNCHANGED alert
      BY <2>1
    <2>3. RaisedOnce'
      BY <2>u, <2>2, <1>i DEF RaisedOnce
    <2> QED
      BY <2>1, <2>3, <1>i
  <1>8. ASSUME NEW d \in Admins, I!CommitAcknowledge(d) \/ I!CommitResolve(d) PROVE Goal
    <2>1. desk[d].on \in Alerts /\ alert[desk[d].on].status # "unraised"
      BY <1>8, <1>i DEF I!TypeOK, ReadsHold, I!CommitAcknowledge, I!CommitResolve
    <2>2. \A a \in Alerts : alert[a] = I!Unraised => alert'[a] = alert[a]
      BY <1>8, <2>1, <1>i, RowWrite, IncidentRecords
    <2> QED
      BY <1>0, <1>8, <2>2 DEF I!CommitAcknowledge, I!CommitResolve, I!Leave
  <1>9. CASE \/ I!Trip \/ I!SeatsExpire \/ UNCHANGED I!vars
             \/ \E d \in Admins : \/ I!DeskFails(d)
                                  \/ \E a \in Alerts : I!BeginAcknowledge(d, a) \/ I!BeginResolve(d, a)
    BY <1>0, <1>9 DEF I!Trip, I!SeatsExpire, I!vars, I!DeskFails, I!BeginAcknowledge,
                      I!BeginResolve, I!Begin
  <1> QED
    BY <1>1, <1>2, <1>4, <1>5, <1>6, <1>7, <1>8, <1>9 DEF I!Next, I!PhoneStep, I!DeskStep

(* The live count is of the last report, or is known not to be.              *)
LEMMA SeatStep ==
    ASSUME IncidentInv, [I!Next]_I!vars, I!TypeOK'
    PROVE  /\ LastOnItsWay'
           /\ seats' <= latest'
           /\ \/ seats' \in {0, latest'} \/ doubt'
              \/ \E p \in I!Publishing' : phone'[p].number > seats'
  <1> USE DesksAssumption, IdleRecords DEF I!incident, I!counting
  <1> DEFINE P == I!Publishing
             Follows == /\ seats <= latest
                        /\ \/ seats \in {0, latest} \/ doubt
                           \/ \E p \in I!Publishing : phone[p].number > seats
  <1>i. /\ I!TypeOK /\ LastOnItsWay /\ Follows
    BY DEF IncidentInv, SeatsFollowReports, I!SeatsFollowReports
  <1>q. \A p \in Phones : phone[p] \in PhoneRequest
    BY <1>i DEF I!TypeOK, PhoneRequest
  <1>n. latest \in Nat /\ seats \in Nat
    BY <1>i DEF I!TypeOK
  <1> SUFFICES LastOnItsWay' /\ Follows'
    OBVIOUS
  <1>0. ASSUME latest' = latest, doubt' <=> doubt, seats' \in {seats, 0},
               I!Publishing' = I!Publishing, \A p \in I!Publishing : phone'[p].number = phone[p].number
        PROVE  LastOnItsWay' /\ Follows'
    <2>1. LastOnItsWay'
      BY <1>0, <1>i DEF LastOnItsWay
    <2>2. Follows'
      BY <1>0, <1>i, <1>n
    <2> QED
      BY <2>1, <2>2
  <1>1. ASSUME NEW p \in Phones, NEW q \in PhoneRequest, p \notin I!Publishing,
               phone' = [phone EXCEPT ![p] = q], q.pc = "committed" => q.on # "nobody",
               UNCHANGED <<latest, doubt, seats>>
        PROVE  LastOnItsWay' /\ Follows'
    <2>1. phone'[p] = q /\ \A x \in Phones : x # p => phone'[x] = phone[x]
      BY <1>1, <1>i, PhoneShape
    <2>2. I!Publishing' = I!Publishing
      BY <1>1, <2>1 DEF I!Publishing
    <2>3. \A x \in I!Publishing : phone'[x].number = phone[x].number
      BY <1>1, <2>1 DEF I!Publishing
    <2> QED
      BY <1>0, <1>1, <2>2, <2>3
  <1>2. ASSUME NEW p \in Phones, NEW a \in Alerts, I!Raise(p, a) PROVE LastOnItsWay' /\ Follows'
    <2>1. /\ [I!NoReport EXCEPT !.pc = "flushed", !.on = a] \in PhoneRequest
          /\ [I!NoReport EXCEPT !.pc = "flushed", !.on = a].pc = "flushed"
      BY DEF PhoneRequest
    <2> QED
      BY <1>1, <1>2, <2>1 DEF I!Raise, I!Publishing
  <1>3. ASSUME NEW p \in Phones, I!CommitAlert(p) PROVE LastOnItsWay' /\ Follows'
    <2>1. /\ [phone[p] EXCEPT !.pc = "committed"] \in PhoneRequest
          /\ phone' = [phone EXCEPT ![p] = [phone[p] EXCEPT !.pc = "committed"]]
          /\ phone[p].on # "nobody" /\ p \notin I!Publishing
      BY <1>3, <1>q, <1>i DEF I!CommitAlert, PhoneRequest, I!Publishing, I!TypeOK
    <2> QED
      BY <1>1, <1>3, <1>q, <2>1 DEF I!CommitAlert, PhoneRequest
  <1>4. ASSUME NEW p \in Phones, I!PublishAlert(p) PROVE LastOnItsWay' /\ Follows'
    BY <1>1, <1>4 DEF I!PublishAlert, I!Publishing
  <1>5. ASSUME NEW p \in Phones, I!ReportSeats(p) PROVE LastOnItsWay' /\ Follows'
    <2>1. /\ [I!NoReport EXCEPT !.pc = "flushed"] \in PhoneRequest
          /\ [I!NoReport EXCEPT !.pc = "flushed"].pc = "flushed"
      BY DEF PhoneRequest
    <2> QED
      BY <1>1, <1>5, <2>1 DEF I!ReportSeats, I!Publishing
  <1>6. ASSUME NEW p \in Phones, I!CommitSeats(p) PROVE LastOnItsWay' /\ Follows'
    <2>1. /\ phone[p].on = "nobody" /\ phone[p].pc = "flushed" /\ UNCHANGED seats
          /\ latest' = latest + 1 /\ doubt' = (doubt \/ I!Publishing # {})
          /\ phone' = [phone EXCEPT ![p].pc = "committed", ![p].number = latest']
      BY <1>6 DEF I!CommitSeats
    <2>2. /\ phone'[p].pc = "committed" /\ phone'[p].on = "nobody" /\ phone'[p].number = latest'
          /\ \A x \in Phones : x # p => phone'[x] = phone[x]
      BY <2>1, <1>i, <1>q DEF I!TypeOK, PhoneRequest
    <2>3. I!Publishing' = I!Publishing \cup {p} /\ p \notin I!Publishing
      BY <2>1, <2>2 DEF I!Publishing
    <2>4. \A x \in I!Publishing : phone'[x] = phone[x] /\ phone[x].number \in 1..latest
      BY <2>2, <2>3, <1>i DEF LastOnItsWay, I!Publishing
    <2>5. \A x \in I!Publishing' : phone'[x].number \in 1..latest'
      <3>n. 1..latest \subseteq 1..latest'
        BY <2>1, <1>n
      <3>1. \A x \in I!Publishing : phone'[x].number \in 1..latest'
        BY <2>4, <3>n
      <3>2. phone'[p].number \in 1..latest'
        BY <2>1, <2>2, <1>n
      <3> QED
        BY <2>3, <3>1, <3>2
    <2>6. ~doubt' => I!Publishing = {}
      BY <2>1
    <2>7. LastOnItsWay'
      BY <2>2, <2>3, <2>5, <2>6 DEF LastOnItsWay
    <2>8. seats' <= latest' /\ phone'[p].number > seats' /\ p \in I!Publishing'
      BY <2>1, <2>2, <2>3, <1>i, <1>n
    <2> QED
      BY <2>7, <2>8
  <1>7. ASSUME NEW p \in Phones, phone' = [phone EXCEPT ![p] = I!NoReport]
        PROVE  /\ I!Publishing' = I!Publishing \ {p}
               /\ \A x \in I!Publishing' : phone'[x] = phone[x]
    <2>1. phone'[p] = I!NoReport /\ \A x \in Phones : x # p => phone'[x] = phone[x]
      BY <1>7, <1>i, PhoneShape
    <2> QED
      BY <2>1 DEF I!Publishing
  <1>8. ASSUME NEW p \in Phones, I!PublishSeats(p) PROVE LastOnItsWay' /\ Follows'
    <2>1. /\ p \in I!Publishing /\ seats' = phone[p].number /\ latest' = latest
          /\ doubt' = (doubt /\ ~(phone[p].number = latest /\ I!Publishing = {p}))
          /\ phone' = [phone EXCEPT ![p] = I!NoReport]
      BY <1>8 DEF I!PublishSeats
    <2>2. ~doubt' => phone[p].number = latest /\ I!Publishing = {p}
      BY <2>1, <1>i DEF LastOnItsWay
    <2>3. LastOnItsWay'
      BY <1>7, <2>1, <2>2, <1>i DEF LastOnItsWay
    <2>4. seats' <= latest'
      BY <2>1, <1>i, <1>n DEF LastOnItsWay
    <2> QED
      BY <2>1, <2>2, <2>3, <2>4
  <1>9. ASSUME NEW p \in Phones, I!PhoneFails(p) PROVE LastOnItsWay' /\ Follows'
    <2>1. /\ doubt' = (doubt \/ p \in I!Publishing) /\ UNCHANGED <<latest, seats>>
          /\ phone' = [phone EXCEPT ![p] = I!NoReport]
      BY <1>9 DEF I!PhoneFails
    <2>2. CASE p \notin I!Publishing
      <3>1. I!Publishing' = I!Publishing /\ (doubt' <=> doubt)
        BY <1>7, <2>1, <2>2
      <3> QED
        BY <1>0, <1>7, <2>1, <3>1
    <2>3. CASE p \in I!Publishing
      <3>1. doubt'
        BY <2>1, <2>3
      <3>2. LastOnItsWay'
        BY <1>7, <2>1, <3>1, <1>i DEF LastOnItsWay
      <3> QED
        BY <2>1, <3>1, <3>2, <1>i
    <2> QED
      BY <2>2, <2>3
  <1>10. ASSUME UNCHANGED <<phone, latest, doubt>>, seats' \in {seats, 0}
         PROVE  LastOnItsWay' /\ Follows'
    BY <1>0, <1>10 DEF I!Publishing
  <1>11. CASE \/ I!Trip \/ I!SeatsExpire \/ UNCHANGED I!vars \/ \E d \in Admins : I!DeskStep(d)
    BY <1>10, <1>11 DEF I!Trip, I!SeatsExpire, I!vars, I!DeskStep, I!DeskFails, I!BeginAcknowledge,
         I!BeginResolve, I!Begin, I!CommitAcknowledge, I!CommitResolve, I!Leave
  <1> QED
    BY <1>2, <1>3, <1>4, <1>5, <1>6, <1>8, <1>9, <1>11 DEF I!Next, I!PhoneStep

(* What the console was told, and the live seats, in any behaviour.          *)
LEMMA IncidentStep == IncidentInv /\ [I!Next]_I!vars => IncidentInv'
  <1> SUFFICES ASSUME IncidentInv, [I!Next]_I!vars PROVE IncidentInv'
    OBVIOUS
  <1>1. I!TypeOK'
    BY IncidentTypes DEF IncidentInv
  <1>2. SeatsFollowReports'
    BY <1>1, RaiseStep, SeatStep DEF SeatsFollowReports, I!SeatsFollowReports
  <1> QED
    BY <1>1, <1>2, DeskStep, RaiseStep, SeatStep DEF IncidentInv

(* Incidents and seat counts hold together.                                  *)
THEOREM IncidentsHold == I!Spec => []IncidentInv
  BY InitIncident, IncidentStep, PTL DEF I!Spec

HIDE DEF I!Nobody, I!None

-----------------------------------------------------------------------------
(* RouteStops.  A request replaces rows of one insertion, and has its list;  *)
(* what its DELETE is after, or got, are all the rows the route now has, or  *)
(* none of them.                                                             *)
DeletesWhole == \A e \in Editors :
    /\ edit[e].pc \in {"checked", "deleting", "deleted"} => edit[e].list \in S!Lists
    /\ \A x, y \in edit[e].victims : x.generation = y.generation
    /\ edit[e].pc \in {"deleting", "deleted"} =>
          \/ edit[e].victims \cap rows[edit[e].route] = {}
          \/ rows[edit[e].route] \subseteq edit[e].victims

StopInv == S!TypeOK /\ RouteWhole /\ DeletesWhole

-----------------------------------------------------------------------------
EditRequest == [pc : {"idle", "checked", "deleting", "deleted", "unused"},
                route : Routes \cup {"none"}, stop : Stops \cup {"none"},
                list : S!Lists \cup {<<>>}, victims : SUBSET S!RouteRow]

(* Editors are finitely many.                                                *)
LEMMA SameEditors == S!Cardinality(Editors) \in Nat /\ S!Cardinality(Editors) = Cardinality(Editors)
  <1>1. S!Cardinality(Editors) = Cardinality(Editors)
    BY DEF S!Cardinality, Cardinality
  <1> QED
    BY <1>1, DesksAssumption, FS_CardinalityType

(* A step of one editor leaves the others as they were.                      *)
LEMMA EditShape ==
    ASSUME S!TypeOK, NEW e \in Editors, NEW q \in EditRequest, edit' = [edit EXCEPT ![e] = q]
    PROVE  /\ edit' \in [Editors -> EditRequest]
           /\ edit'[e] = q
           /\ \A x \in Editors : x # e => edit'[x] = edit[x]
  BY DEF S!TypeOK, EditRequest

(* The record of an editor at rest.                                          *)
LEMMA NoEditType == S!NoEdit \in EditRequest /\ S!NoEdit.pc = "idle" /\ S!NoEdit.victims = {}
  BY DEF S!NoEdit, EditRequest

(* The rows of a list are rows, with its stops, of one insertion.            *)
LEMMA RowsOfType ==
    ASSUME NEW list \in S!Lists \cup {<<>>}, NEW g \in S!Generations
    PROVE  /\ S!RowsOf(list, g) \subseteq S!RouteRow
           /\ \A x \in S!RowsOf(list, g) : x.generation = g
           /\ {x.stop : x \in S!RowsOf(list, g)} = S!ToSet(list)
           /\ list \in S!Lists => \E x \in S!RowsOf(list, g) : x.seq = 1
           /\ list = <<>> => S!RowsOf(list, g) = {}
  <1>1. PICK n \in Nat : DOMAIN list = 1..n /\ n <= MaxLength /\ (list = <<>> <=> n = 0)
    <2>1. CASE list = <<>>
      BY <2>1, DesksAssumption
    <2>2. CASE list \in S!Lists
      <3>1. PICK m \in 1..MaxLength : list \in [1..m -> Stops]
        BY <2>2 DEF S!Lists
      <3>2. DOMAIN list = 1..m /\ m \in Nat /\ m # 0 /\ m <= MaxLength
        BY <3>1, DesksAssumption
      <3>3. 1 \in DOMAIN list
        BY <3>2
      <3> QED
        BY <3>2, <3>3
    <2> QED
      BY <2>1, <2>2
  <1>2. \A i \in DOMAIN list : list[i] \in Stops /\ i \in 1..MaxLength
    <2>1. CASE list = <<>>
      BY <2>1
    <2>2. CASE list \in S!Lists
      <3>1. PICK m \in 1..MaxLength : list \in [1..m -> Stops]
        BY <2>2 DEF S!Lists
      <3> QED
        BY <3>1, DesksAssumption
    <2> QED
      BY <2>1, <2>2
  <1>3. S!RowsOf(list, g) = {[stop |-> list[i], seq |-> i, generation |-> g] : i \in DOMAIN list}
    BY DEF S!RowsOf
  <1>4. S!RowsOf(list, g) \subseteq S!RouteRow
    BY <1>2, <1>3 DEF S!RouteRow
  <1>5. {x.stop : x \in S!RowsOf(list, g)} = S!ToSet(list)
    <2>1. S!ToSet(list) = {list[i] : i \in DOMAIN list}
      BY DEF S!ToSet
    <2>2. \A i \in DOMAIN list :
              LET x == [stop |-> list[i], seq |-> i, generation |-> g]
              IN  x \in S!RowsOf(list, g) /\ x.stop = list[i]
      BY <1>3
    <2>3. \A x \in S!RowsOf(list, g) : \E i \in DOMAIN list : x.stop = list[i]
      BY <1>3
    <2> QED
      BY <2>1, <2>2, <2>3
  <1>6. ASSUME list \in S!Lists PROVE 1 \in DOMAIN list
    <2>1. PICK m \in 1..MaxLength : list \in [1..m -> Stops]
      BY <1>6 DEF S!Lists
    <2> QED
      BY <2>1, DesksAssumption
  <1>7. list \in S!Lists => \E x \in S!RowsOf(list, g) : x.seq = 1
    <2>1. ASSUME list \in S!Lists
          PROVE  [stop |-> list[1], seq |-> 1, generation |-> g] \in S!RowsOf(list, g)
      BY <1>6, <1>3, <2>1
    <2>2. [stop |-> list[1], seq |-> 1, generation |-> g].seq = 1
      OBVIOUS
    <2> QED
      BY <2>1, <2>2
  <1>8. list = <<>> => S!RowsOf(list, g) = {}
    BY <1>3
  <1> QED
    BY <1>3, <1>4, <1>5, <1>7, <1>8

(* Min gives a number of the set.                                            *)
LEMMA LeastIsIn ==
    ASSUME NEW X \in SUBSET Nat, X # {}
    PROVE  S!Min(X) \in X
  <1>1. \E x \in X : \A y \in X : x <= y
    BY LeastNumber
  <1> QED
    BY <1>1 DEF S!Min

(* There is always a number no row in play has: at most one of the route's   *)
(* rows and one of each request's are taken, and there are two more.         *)
LEMMA RoomLeft ==
    ASSUME StopInv, NEW r \in Routes
    PROVE  S!NewGeneration(r) \in S!Generations \ S!InUseNow(r)
  <1> DEFINE G == S!Generations
             n == Cardinality(Editors)
  <1>1. n \in Nat /\ G = 1..(n + 2)
    BY SameEditors DEF S!Generations
  <1>2. PICK z : z \notin Editors
    BY NoSetContainsEverything
  <1>3. IsFiniteSet(Editors \cup {z}) /\ Cardinality(Editors \cup {z}) = n + 1
    BY <1>2, DesksAssumption, FS_AddElement
  <1>4. IsFiniteSet(G) /\ Cardinality(G) = n + 2
    BY <1>1, FS_Interval
  <1>5. ~(G \subseteq S!InUseNow(r))
    <2> SUFFICES ASSUME G \subseteq S!InUseNow(r) PROVE FALSE
      OBVIOUS
    <2> DEFINE Holder(g) == IF \E x \in rows[r] : x.generation = g THEN z
                            ELSE CHOOSE e \in Editors : \E x \in edit[e].victims : x.generation = g
               f == [g \in G |-> Holder(g)]
    <2>1. \A g \in G : \/ \E x \in rows[r] : x.generation = g
                       \/ \E e \in Editors : \E x \in edit[e].victims : x.generation = g
      BY DEF S!InUseNow
    <2>2. \A g \in G : /\ Holder(g) \in Editors \cup {z}
                       /\ Holder(g) = z => \E x \in rows[r] : x.generation = g
                       /\ Holder(g) # z => \E x \in edit[Holder(g)].victims : x.generation = g
      BY <2>1, <1>2
    <2>3. f \in [G -> Editors \cup {z}]
      BY <2>2
    <2>4. Cardinality(Editors \cup {z}) < Cardinality(G)
      BY <1>1, <1>3, <1>4
    <2> HIDE DEF f, G, Holder
    <2>5. PICK g, h \in G : g # h /\ f[g] = f[h]
      BY <2>3, <2>4, <1>3, <1>4, FS_PigeonHole
    <2>6. Holder(g) = Holder(h)
      BY <2>5 DEF f
    <2>7. \A x, y \in rows[r] : x.generation = y.generation
      <3>1. PICK k \in S!Generations : rows[r] = S!RowsOf(saved[r], k)
        BY DEF StopInv, RouteWhole, S!RouteWhole
      <3> QED
        BY <3>1 DEF S!RowsOf
    <2>8. \A e \in Editors : \A x, y \in edit[e].victims : x.generation = y.generation
      BY DEF StopInv, DeletesWhole
    <2>9. CASE Holder(g) = z
      <3>1. PICK x \in rows[r] : x.generation = g
        BY <2>2, <2>9
      <3>2. PICK y \in rows[r] : y.generation = h
        BY <2>2, <2>6, <2>9
      <3> QED
        BY <2>5, <2>7, <3>1, <3>2
    <2>10. CASE Holder(g) # z
      <3>1. Holder(g) \in Editors
        BY <2>2, <2>10
      <3>2. PICK x \in edit[Holder(g)].victims : x.generation = g
        BY <2>2, <2>10
      <3>3. PICK y \in edit[Holder(g)].victims : y.generation = h
        BY <2>2, <2>6, <2>10
      <3> QED
        BY <2>5, <2>8, <3>1, <3>2, <3>3
    <2> QED
      BY <2>9, <2>10
  <1>6. G \ S!InUseNow(r) # {} /\ G \ S!InUseNow(r) \in SUBSET Nat
    BY <1>1, <1>5
  <1> QED
    BY <1>6, LeastIsIn DEF S!NewGeneration

(* At first no route has a stop and nobody edits.                            *)
LEMMA InitStop == S!Init => StopInv
  <1> SUFFICES ASSUME S!Init PROVE StopInv
    OBVIOUS
  <1>1. S!TypeOK
    <2>1. edit \in [Editors -> EditRequest] /\ \A e \in Editors : edit[e].pc = "idle"
      BY NoEditType DEF S!Init
    <2> QED
      BY <2>1 DEF S!Init, S!TypeOK, EditRequest
  <1>2. RouteWhole
    <2>1. 1 \in S!Generations
      BY SameEditors DEF S!Generations
    <2>2. S!RowsOf(<<>>, 1) = {}
      BY <2>1, RowsOfType
    <2>3. S!ToSet(<<>>) = {}
      BY DEF S!ToSet
    <2> QED
      BY <2>1, <2>2, <2>3 DEF S!Init, RouteWhole, S!RouteWhole
  <1>3. DeletesWhole
    BY NoEditType DEF S!Init, DeletesWhole
  <1> QED
    BY <1>1, <1>2, <1>3 DEF StopInv

(* A list whose rows meet the route's unique constraints beside what a       *)
(* DELETE left of the old list, left nothing of it.                          *)
LEMMA InsertReplaces ==
    ASSUME StopInv, NEW e \in Editors, edit[e].pc = "deleted",
           S!Unique((rows[edit[e].route] \ edit[e].victims)
                    \cup S!RowsOf(edit[e].list, S!NewGeneration(edit[e].route)))
    PROVE  rows[edit[e].route] \subseteq edit[e].victims
  <1> DEFINE r == edit[e].route
             g == S!NewGeneration(r)
             V == edit[e].victims
  <1>1. r \in Routes /\ edit[e].list \in S!Lists
    BY DEF StopInv, S!TypeOK, DeletesWhole
  <1>2. g \in S!Generations \ S!InUseNow(r)
    BY <1>1, RoomLeft
  <1>3. PICK k \in S!Generations : rows[r] = S!RowsOf(saved[r], k)
    BY <1>1 DEF StopInv, RouteWhole, S!RouteWhole
  <1>4. saved[r] \in S!Lists \cup {<<>>}
    BY <1>1 DEF StopInv, S!TypeOK
  <1>5. V \cap rows[r] = {} \/ rows[r] \subseteq V
    BY DEF StopInv, DeletesWhole
  <1>6. CASE rows[r] = {}
    BY <1>6
  <1>7. CASE rows[r] # {}
    <2>1. saved[r] \in S!Lists
      BY <1>3, <1>4, <1>7, RowsOfType
    <2>2. PICK x \in rows[r] : x.seq = 1
      BY <1>3, <2>1, RowsOfType
    <2>3. PICK y \in S!RowsOf(edit[e].list, g) : y.seq = 1
      BY <1>1, <1>2, RowsOfType
    <2>4. y.generation = g /\ x.generation \in S!InUseNow(r)
      BY <1>1, <1>2, <2>3, RowsOfType DEF S!InUseNow
    <2>5. x \notin rows[r] \ V
      BY <1>2, <2>2, <2>3, <2>4 DEF S!Unique
    <2> QED
      BY <1>5, <2>2, <2>5
  <1> QED
    BY <1>6, <1>7

(* Every step of an operator's request keeps the types and the lists whole.  *)
LEMMA StopStep == StopInv /\ [S!Next]_S!vars => StopInv'
  <1> SUFFICES ASSUME StopInv, [S!Next]_S!vars PROVE StopInv'
    OBVIOUS
  <1>i. S!TypeOK /\ RouteWhole /\ DeletesWhole
    BY DEF StopInv
  <1>t. /\ stops \subseteq Stops /\ rows \in [Routes -> SUBSET S!RouteRow]
        /\ saved \in [Routes -> S!Lists \cup {<<>>}] /\ edit \in [Editors -> EditRequest]
        /\ \A e \in Editors : /\ edit[e] \in EditRequest
                              /\ edit[e].pc \in {"checked", "deleting", "deleted"} => edit[e].route \in Routes
                              /\ edit[e].pc = "unused" => edit[e].stop \in Stops
    BY <1>i DEF S!TypeOK, EditRequest
  <1>w. \A r \in Routes : /\ \E g \in S!Generations : rows[r] = S!RowsOf(saved[r], g)
                          /\ S!ToSet(saved[r]) \subseteq stops
    BY <1>i DEF RouteWhole, S!RouteWhole
  <1>e. ASSUME NEW e \in Editors, NEW q \in EditRequest, edit' = [edit EXCEPT ![e] = q],
               UNCHANGED <<stops, rows, saved>>,
               q.pc \in {"checked", "deleting", "deleted"} => q.route \in Routes /\ q.list \in S!Lists,
               q.pc = "unused" => q.stop \in Stops,
               \A x, y \in q.victims : x.generation = y.generation,
               q.pc \in {"deleting", "deleted"} =>
                   q.victims \cap rows[q.route] = {} \/ rows[q.route] \subseteq q.victims
        PROVE  StopInv'
    <2>1. /\ edit' \in [Editors -> EditRequest] /\ edit'[e] = q
          /\ \A x \in Editors : x # e => edit'[x] = edit[x]
      BY <1>e, <1>i, EditShape
    <2>2. S!TypeOK'
      BY <1>e, <1>t, <2>1 DEF S!TypeOK, EditRequest
    <2>3. RouteWhole'
      BY <1>e, <1>w DEF RouteWhole, S!RouteWhole
    <2>4. DeletesWhole'
      BY <1>e, <1>i, <2>1 DEF DeletesWhole
    <2> QED
      BY <2>2, <2>3, <2>4 DEF StopInv
  <1>n. ASSUME NEW e \in Editors, edit' = [edit EXCEPT ![e] = S!NoEdit]
        PROVE  /\ edit' \in [Editors -> EditRequest]
               /\ \A x \in Editors : edit'[x] = edit[x] \/ edit'[x] = S!NoEdit
    BY <1>n, <1>i, NoEditType, EditShape
  <1>1. ASSUME NEW s \in Stops, S!CreateStop(s) PROVE StopInv'
    <2>1. S!TypeOK' /\ RouteWhole'
      BY <1>1, <1>t, <1>w DEF S!CreateStop, S!TypeOK, EditRequest, RouteWhole, S!RouteWhole
    <2>2. DeletesWhole'
      BY <1>1, <1>i DEF S!CreateStop, DeletesWhole
    <2> QED
      BY <2>1, <2>2 DEF StopInv
  <1>2. ASSUME NEW e \in Editors, NEW r \in Routes, NEW list \in S!Lists, S!BeginSave(e, r, list)
        PROVE  StopInv'
    <2> DEFINE q == [S!NoEdit EXCEPT !.pc = "checked", !.route = r, !.list = list]
    <2>1. q \in EditRequest /\ q.pc = "checked" /\ q.route = r /\ q.list = list /\ q.victims = {}
      BY DEF S!NoEdit, EditRequest
    <2>2. edit' = [edit EXCEPT ![e] = q] /\ UNCHANGED <<stops, rows, saved>>
      BY <1>2 DEF S!BeginSave
    <2> HIDE DEF q
    <2> QED
      BY <1>e, <2>1, <2>2
  <1>3. ASSUME NEW e \in Editors, S!StartDelete(e) PROVE StopInv'
    <2> DEFINE q == [edit[e] EXCEPT !.pc = "deleting", !.victims = rows[edit[e].route]]
    <2>1. /\ edit[e].pc = "checked" /\ edit' = [edit EXCEPT ![e] = q]
          /\ UNCHANGED <<stops, rows, saved>>
      BY <1>3, <1>t DEF S!StartDelete
    <2>2. edit[e].route \in Routes /\ edit[e].list \in S!Lists
      BY <2>1, <1>t, <1>i DEF DeletesWhole
    <2>3. /\ q \in EditRequest /\ q.pc = "deleting" /\ q.route = edit[e].route
          /\ q.list = edit[e].list /\ q.victims = rows[edit[e].route]
      BY <1>t, <2>2 DEF EditRequest
    <2>4. \A x, y \in rows[edit[e].route] : x.generation = y.generation
      <3>1. PICK k \in S!Generations : rows[edit[e].route] = S!RowsOf(saved[edit[e].route], k)
        BY <1>w, <2>2
      <3>2. saved[edit[e].route] \in S!Lists \cup {<<>>}
        BY <2>2, <1>t
      <3>3. \A x \in S!RowsOf(saved[edit[e].route], k) : x.generation = k
        BY <3>2, RowsOfType
      <3> QED
        BY <3>1, <3>3
    <2> HIDE DEF q
    <2> QED
      BY <1>e, <2>1, <2>2, <2>3, <2>4
  <1>4. ASSUME NEW e \in Editors, S!FinishDelete(e) PROVE StopInv'
    <2> DEFINE q == [edit[e] EXCEPT !.pc = "deleted", !.victims = @ \cap rows[edit[e].route]]
    <2>1. /\ edit[e].pc = "deleting" /\ edit' = [edit EXCEPT ![e] = q]
          /\ UNCHANGED <<stops, rows, saved>>
      BY <1>4, <1>t DEF S!FinishDelete
    <2>2. edit[e].route \in Routes /\ edit[e].list \in S!Lists
      BY <2>1, <1>t, <1>i DEF DeletesWhole
    <2>3. /\ q \in EditRequest /\ q.pc = "deleted" /\ q.route = edit[e].route
          /\ q.list = edit[e].list /\ q.victims = edit[e].victims \cap rows[edit[e].route]
      BY <1>t, <2>2 DEF EditRequest
    <2>4. \A x, y \in q.victims : x.generation = y.generation
      BY <2>3, <1>i DEF DeletesWhole
    <2>5. q.victims \cap rows[q.route] = {} \/ rows[q.route] \subseteq q.victims
      BY <2>1, <2>3, <1>i DEF DeletesWhole
    <2> HIDE DEF q
    <2> QED
      BY <1>e, <2>1, <2>2, <2>3, <2>4, <2>5
  <1>5. ASSUME NEW e \in Editors, S!Insert(e) PROVE StopInv'
    <2>a. PICK r \in Routes, list \in S!Lists : r = edit[e].route /\ list = edit[e].list
      BY <1>5, <1>t, <1>i DEF S!Insert, DeletesWhole
    <2>b. PICK g \in S!Generations : g = S!NewGeneration(r) /\ g \notin S!InUseNow(r)
      BY RoomLeft
    <2> DEFINE after == (rows[r] \ edit[e].victims) \cup S!RowsOf(list, g)
    <2>1. /\ edit' = [edit EXCEPT ![e] = S!NoEdit] /\ UNCHANGED stops /\ edit[e].pc = "deleted"
          /\ \/ /\ S!Unique(after) /\ S!ToSet(list) \subseteq stops
                /\ rows' = [rows EXCEPT ![r] = after] /\ saved' = [saved EXCEPT ![r] = list]
             \/ UNCHANGED <<rows, saved>>
      BY <1>5, <2>a, <2>b DEF S!Insert
    <2>2. CASE UNCHANGED <<rows, saved>>
      BY <1>e, <2>1, <2>2, NoEditType
    <2>3. CASE /\ S!Unique(after) /\ S!ToSet(list) \subseteq stops
               /\ rows' = [rows EXCEPT ![r] = after] /\ saved' = [saved EXCEPT ![r] = list]
      <3>1. after = S!RowsOf(list, g)
        BY <2>a, <2>b, <2>1, <2>3, InsertReplaces
      <3>2. S!RowsOf(list, g) \subseteq S!RouteRow /\ \A x \in S!RowsOf(list, g) : x.generation = g
        BY RowsOfType
      <3>3. /\ rows' \in [Routes -> SUBSET S!RouteRow] /\ rows'[r] = S!RowsOf(list, g)
            /\ \A x \in Routes : x # r => rows'[x] = rows[x]
        BY <1>t, <2>3, <3>1, <3>2
      <3>4. /\ saved' \in [Routes -> S!Lists \cup {<<>>}] /\ saved'[r] = list
            /\ \A x \in Routes : x # r => saved'[x] = saved[x]
        BY <1>t, <2>3
      <3>5. /\ edit' \in [Editors -> EditRequest]
            /\ \A x \in Editors : edit'[x] = edit[x] \/ edit'[x] = S!NoEdit
        BY <2>1, <1>n
      <3>6. S!TypeOK'
        BY <1>t, <2>1, <3>3, <3>4, <3>5, NoEditType DEF S!TypeOK, EditRequest
      <3>7. RouteWhole'
        <4> SUFFICES ASSUME NEW x \in Routes
                     PROVE  /\ \E k \in S!Generations : rows'[x] = S!RowsOf(saved'[x], k)
                            /\ S!ToSet(saved'[x]) \subseteq stops'
          BY DEF RouteWhole, S!RouteWhole
        <4>1. CASE x = r
          BY <4>1, <2>1, <2>3, <3>3, <3>4
        <4>2. CASE x # r
          BY <4>2, <2>1, <3>3, <3>4, <1>w
        <4> QED
          BY <4>1, <4>2
      <3>8. \A x \in Editors : edit[x].victims \cap S!RowsOf(list, g) = {}
        <4> SUFFICES ASSUME NEW x \in Editors, NEW y \in edit[x].victims, y \in S!RowsOf(list, g)
                     PROVE  FALSE
          OBVIOUS
        <4>1. y.generation = g
          BY <3>2
        <4>2. y.generation \in S!InUseNow(r)
          BY DEF S!InUseNow
        <4> QED
          BY <4>1, <4>2, <2>b
      <3>9. DeletesWhole'
        BY <1>i, <1>t, <3>3, <3>5, <3>8, NoEditType DEF DeletesWhole
      <3> QED
        BY <3>6, <3>7, <3>9 DEF StopInv
    <2> QED
      BY <2>1, <2>2, <2>3
  <1>6. ASSUME NEW e \in Editors, NEW s \in Stops, S!BeginDeleteStop(e, s) PROVE StopInv'
    <2> DEFINE q == [S!NoEdit EXCEPT !.pc = "unused", !.stop = s]
    <2>1. q \in EditRequest /\ q.pc = "unused" /\ q.stop = s /\ q.victims = {}
      BY DEF S!NoEdit, EditRequest
    <2>2. edit' = [edit EXCEPT ![e] = q] /\ UNCHANGED <<stops, rows, saved>>
      BY <1>6 DEF S!BeginDeleteStop
    <2> HIDE DEF q
    <2> QED
      BY <1>e, <2>1, <2>2
  <1>7. ASSUME NEW e \in Editors, S!DeleteStop(e) PROVE StopInv'
    <2>1. /\ edit' = [edit EXCEPT ![e] = S!NoEdit] /\ UNCHANGED <<rows, saved>>
          /\ stops' = IF S!Served(edit[e].stop) THEN stops ELSE stops \ {edit[e].stop}
      BY <1>7 DEF S!DeleteStop
    <2>2. /\ edit' \in [Editors -> EditRequest]
          /\ \A x \in Editors : edit'[x] = edit[x] \/ edit'[x] = S!NoEdit
      BY <2>1, <1>n
    <2>3. S!TypeOK'
      BY <1>t, <2>1, <2>2, NoEditType DEF S!TypeOK, EditRequest
    <2>4. \A r \in Routes : S!ToSet(saved[r]) \subseteq stops'
      <3> SUFFICES ASSUME NEW r \in Routes, ~S!Served(edit[e].stop)
                   PROVE  edit[e].stop \notin S!ToSet(saved[r])
        BY <2>1, <1>w
      <3>1. PICK g \in S!Generations : rows[r] = S!RowsOf(saved[r], g)
        BY <1>w
      <3>2. {x.stop : x \in rows[r]} = S!ToSet(saved[r])
        BY <3>1, <1>t, RowsOfType
      <3> QED
        BY <3>2 DEF S!Served
    <2>5. RouteWhole'
      BY <1>w, <2>1, <2>4 DEF RouteWhole, S!RouteWhole
    <2>6. DeletesWhole'
      BY <1>i, <2>1, <2>2, NoEditType DEF DeletesWhole
    <2> QED
      BY <2>3, <2>5, <2>6 DEF StopInv
  <1>8. ASSUME NEW e \in Editors, S!Fails(e) PROVE StopInv'
    BY <1>8, <1>e, NoEditType DEF S!Fails
  <1>9. CASE UNCHANGED S!vars
    BY <1>9, <1>i DEF S!vars, StopInv, S!TypeOK, RouteWhole, S!RouteWhole, DeletesWhole
  <1> QED
    BY <1>1, <1>2, <1>3, <1>4, <1>5, <1>6, <1>7, <1>8, <1>9 DEF S!Next, S!Step

(* The stop lists hold together.                                             *)
THEOREM ListsHold == S!Spec => []StopInv
  BY InitStop, StopStep, PTL DEF S!Spec

-----------------------------------------------------------------------------
(* Registry.  A row is of a table or of none; a request adds to a table, and *)
(* edits a row that there is, of the table it says.                          *)
RequestsMeanRows ==
    /\ \A i \in Ids : row[i] = R!Absent \/ row[i].table \in {"bus", "route"}
    /\ \A c \in Clerks :
          /\ request[c].pc = "adding" => request[c].table \in {"bus", "route"}
          /\ request[c].pc = "editing" => /\ request[c].id \in Ids
                                          /\ row[request[c].id] # R!Absent
                                          /\ request[c].table = row[request[c].id].table

NamesDiffer == \A i, j \in Ids : row[i] # R!Absent /\ row[i].table = row[j].table
                                 /\ row[i].name = row[j].name => i = j

RegisterInv == R!TypeOK /\ RequestsMeanRows /\ NamesDiffer

-----------------------------------------------------------------------------
RegisterRequest == [pc : {"idle", "adding", "editing"}, table : {"none", "bus", "route"},
                    names : SUBSET Names, id : Ids \cup {"none"}, read : R!Row,
                    name : Names \cup {"same"}, state : R!States \cup {"same"}]

(* The records of a register: no row, and a request at rest.                 *)
LEMMA RegisterRecords ==
    /\ R!Absent \in R!Row /\ R!Absent.table = "none"
    /\ R!Idle \in RegisterRequest /\ R!Idle.pc = "idle"
  BY DEF R!Absent, R!Row, R!Idle, R!Same, R!States, RegisterRequest

(* A step of one clerk leaves the others as they were.                       *)
LEMMA RequestShape ==
    ASSUME R!TypeOK, NEW c \in Clerks, NEW q \in RegisterRequest,
           request' = [request EXCEPT ![c] = q]
    PROVE  /\ request' \in [Clerks -> RegisterRequest]
           /\ request'[c] = q
           /\ \A x \in Clerks : x # c => request'[x] = request[x]
  BY DEF R!TypeOK, RegisterRequest, R!Same

(* At first the registers are empty.                                         *)
LEMMA InitRegister == R!Init => RegisterInv
  <1> SUFFICES ASSUME R!Init PROVE RegisterInv
    OBVIOUS
  <1>1. R!TypeOK
    <2>1. row \in [Ids -> R!Row] /\ request \in [Clerks -> RegisterRequest]
          /\ \A c \in Clerks : request[c].pc = "idle"
      BY RegisterRecords DEF R!Init
    <2> QED
      BY <2>1 DEF R!TypeOK, RegisterRequest, R!Same
  <1>2. RequestsMeanRows /\ NamesDiffer
    BY RegisterRecords DEF R!Init, RequestsMeanRows, NamesDiffer
  <1> QED
    BY <1>1, <1>2 DEF RegisterInv

(* What a committed addition does to the rows.                               *)
LEMMA Additions ==
    ASSUME RegisterInv, NEW c \in Clerks, R!CommitAdd(c), row' # row
    PROVE  LET q == request[c] IN
           \E at \in [q.names -> R!Unused] :
              /\ \A m, n \in q.names : at[m] = at[n] => m = n
              /\ q.names \cap R!Taken(q.table) = {}
              /\ q.table \in {"bus", "route"} /\ q.names \subseteq Names
              /\ row' \in [Ids -> R!Row]
              /\ \A n \in q.names : /\ row'[at[n]].table = q.table /\ row'[at[n]].name = n
                                    /\ row[at[n]] = R!Absent /\ at[n] \in Ids
              /\ \A i \in Ids : (\E n \in q.names : at[n] = i) \/ row'[i] = row[i]
  <1> DEFINE q == request[c]
  <1>1. /\ q.table \in {"bus", "route"} /\ q.names \subseteq Names /\ row \in [Ids -> R!Row]
    BY DEF RegisterInv, RequestsMeanRows, R!TypeOK, R!CommitAdd
  <1>2. PICK at \in [q.names -> R!Unused] :
              /\ \A m, n \in q.names : at[m] = at[n] => m = n
              /\ q.names \cap R!Taken(q.table) = {}
              /\ row' = [i \in Ids |->
                    IF \E n \in q.names : at[n] = i
                    THEN [table |-> q.table, name |-> CHOOSE n \in q.names : at[n] = i,
                          state |-> "active"]
                    ELSE row[i]]
    BY DEF R!CommitAdd
  <1> HIDE DEF q
  <1>3. \A n \in q.names : at[n] \in Ids /\ row[at[n]] = R!Absent
    BY <1>2 DEF R!Unused
  <1>4. \A n \in q.names : (CHOOSE m \in q.names : at[m] = at[n]) = n
    BY <1>2
  <1>5. \A n \in q.names : row'[at[n]] = [table |-> q.table, name |-> n, state |-> "active"]
    BY <1>2, <1>3, <1>4
  <1>6. \A i \in Ids : (\E n \in q.names : at[n] = i) \/ row'[i] = row[i]
    BY <1>2
  <1>7. \A n \in q.names : row'[at[n]] \in R!Row
    <2> SUFFICES ASSUME NEW n \in q.names
                 PROVE  [table |-> q.table, name |-> n, state |-> "active"] \in R!Row
      BY <1>5
    <2>1. n \in Names /\ q.table \in {"none", "bus", "route"} /\ "active" \in R!States
      BY <1>1 DEF R!States
    <2> QED
      BY <2>1 DEF R!Row
  <1>8. row' \in [Ids -> R!Row]
    <2>1. \A i \in Ids : row'[i] \in R!Row
      BY <1>1, <1>6, <1>7
    <2> QED
      BY <1>2, <2>1
  <1>9. \A n \in q.names : row'[at[n]].table = q.table /\ row'[at[n]].name = n
    <2> SUFFICES ASSUME NEW n \in q.names
                 PROVE  row'[at[n]].table = q.table /\ row'[at[n]].name = n
      OBVIOUS
    <2>1. row'[at[n]] = [table |-> q.table, name |-> n, state |-> "active"]
      BY <1>5
    <2> HIDE DEF q
    <2> QED
      BY <2>1
  <1> QED
    BY <1>1, <1>2, <1>3, <1>6, <1>8, <1>9 DEF q

(* What a committed edit does to the rows.                                   *)
LEMMA Edits ==
    ASSUME RegisterInv, NEW c \in Clerks, R!CommitEdit(c), row' # row
    PROVE  LET q == request[c] IN
           /\ q.id \in Ids /\ row[q.id] # R!Absent /\ row' \in [Ids -> R!Row]
           /\ \A i \in Ids : i # q.id => row'[i] = row[i]
           /\ row'[q.id].table = row[q.id].table
           /\ row'[q.id].name \in {row[q.id].name, q.name}
           /\ row'[q.id].state \in {row[q.id].state, q.state}
           /\ ~\E i \in Ids \ {q.id} : row[i].table = row[q.id].table /\ row[i].name = row'[q.id].name
  <1> DEFINE q == request[c]
             new == [row[q.id] EXCEPT !.name = R!Written(q.read.name, q.name, @),
                                      !.state = R!Written(q.read.state, q.state, @)]
  <1>1. /\ q.id \in Ids /\ row[q.id] # R!Absent /\ q.table = row[q.id].table
        /\ row \in [Ids -> R!Row] /\ q \in RegisterRequest
    BY DEF RegisterInv, RequestsMeanRows, R!TypeOK, R!CommitEdit, RegisterRequest, R!Same
  <1>2. /\ ~\E i \in Ids \ {q.id} : row[i].table = q.table /\ row[i].name = new.name
        /\ row' = [row EXCEPT ![q.id] = new]
    BY DEF R!CommitEdit
  <1>3. /\ new.table = row[q.id].table
        /\ new.name \in {row[q.id].name, q.name}
        /\ new.state \in {row[q.id].state, q.state}
        /\ q.name = "same" => new.name = row[q.id].name
        /\ q.state = "same" => new.state = row[q.id].state
    BY <1>1 DEF R!Written, R!Same, R!Row
  <1>4. new \in R!Row
    BY <1>1, <1>3 DEF R!Row, RegisterRequest
  <1> HIDE DEF new
  <1>5. row' \in [Ids -> R!Row] /\ row'[q.id] = new /\ \A i \in Ids : i # q.id => row'[i] = row[i]
    BY <1>1, <1>2, <1>4
  <1> QED
    BY <1>1, <1>2, <1>3, <1>5

(* The steps that change a row are the two commits.                          *)
LEMMA RowsByCommit ==
    ASSUME [R!Next]_R!vars
    PROVE  \/ row' = row
           \/ \E c \in Clerks : R!CommitAdd(c) /\ row' # row
           \/ \E c \in Clerks : R!CommitEdit(c) /\ row' # row
  BY DEF R!Next, R!Step, R!BeginAdd, R!BeginBatch, R!BeginEdit, R!Begin, R!Fails, R!vars

(* What a request, or its end, may be.                                       *)
LEMMA RegisterCases ==
    ASSUME [R!Next]_R!vars
    PROVE  \/ \E c \in Clerks, t \in {"bus", "route"}, N \in SUBSET Names :
                R!Begin(c, [R!Idle EXCEPT !.pc = "adding", !.table = t, !.names = N])
           \/ \E c \in Clerks, i \in Ids, n \in Names \cup {"same"}, s \in R!States \cup {"same"} :
                R!BeginEdit(c, i, n, s)
           \/ \E c \in Clerks : R!CommitAdd(c) \/ R!CommitEdit(c) \/ R!Fails(c)
           \/ UNCHANGED R!vars
  <1>1. ASSUME NEW c \in Clerks, NEW t \in {"bus", "route"}, NEW n \in Names, R!BeginAdd(c, t, n)
        PROVE  \E N \in SUBSET Names :
                 R!Begin(c, [R!Idle EXCEPT !.pc = "adding", !.table = t, !.names = N])
    <2>1. {n} \in SUBSET Names
      OBVIOUS
    <2> QED
      BY <1>1, <2>1 DEF R!BeginAdd
  <1>2. ASSUME NEW c \in Clerks, NEW N \in SUBSET Names, R!BeginBatch(c, N)
        PROVE  R!Begin(c, [R!Idle EXCEPT !.pc = "adding", !.table = "bus", !.names = N])
    BY <1>2 DEF R!BeginBatch
  <1> QED
    BY <1>1, <1>2 DEF R!Next, R!Step, R!Same

(* Rows and requests keep their types.                                       *)
LEMMA RegisterTypes == RegisterInv /\ [R!Next]_R!vars => R!TypeOK'
  <1> SUFFICES ASSUME RegisterInv, [R!Next]_R!vars PROVE R!TypeOK'
    OBVIOUS
  <1>t. /\ R!TypeOK /\ row \in [Ids -> R!Row] /\ request \in [Clerks -> RegisterRequest]
        /\ \A c \in Clerks : request[c].pc = "editing" => request[c].id \in Ids
    BY DEF RegisterInv, R!TypeOK, RegisterRequest, R!Same
  <1>1. row' \in [Ids -> R!Row]
    BY <1>t, RowsByCommit, Additions, Edits
  <1>2. ASSUME NEW c \in Clerks, NEW q \in RegisterRequest, request' = [request EXCEPT ![c] = q],
               q.pc = "editing" => q.id \in Ids
        PROVE  R!TypeOK'
    <2>1. /\ request' \in [Clerks -> RegisterRequest]
          /\ \A x \in Clerks : request'[x].pc = "editing" => request'[x].id \in Ids
      BY <1>t, <1>2, RequestShape
    <2> QED
      BY <1>1, <2>1 DEF R!TypeOK, RegisterRequest, R!Same
  <1>3. ASSUME NEW c \in Clerks, NEW t \in {"bus", "route"}, NEW N \in SUBSET Names,
               R!Begin(c, [R!Idle EXCEPT !.pc = "adding", !.table = t, !.names = N])
        PROVE  R!TypeOK'
    <2> DEFINE q == [R!Idle EXCEPT !.pc = "adding", !.table = t, !.names = N]
    <2>1. q \in RegisterRequest /\ q.pc = "adding"
      BY RegisterRecords DEF RegisterRequest
    <2>2. request' = [request EXCEPT ![c] = q]
      BY <1>3 DEF R!Begin
    <2> HIDE DEF q
    <2> QED
      BY <1>2, <2>1, <2>2
  <1>4. ASSUME NEW c \in Clerks, NEW i \in Ids, NEW n \in Names \cup {"same"},
               NEW s \in R!States \cup {"same"}, R!BeginEdit(c, i, n, s)
        PROVE  R!TypeOK'
    <2> DEFINE q == [R!Idle EXCEPT !.pc = "editing", !.table = row[i].table, !.id = i,
                                   !.read = row[i], !.name = n, !.state = s]
    <2>1. q \in RegisterRequest /\ q.pc = "editing" /\ q.id = i
      BY RegisterRecords, <1>t DEF RegisterRequest, R!Row
    <2>2. request' = [request EXCEPT ![c] = q]
      BY <1>4 DEF R!BeginEdit, R!Begin
    <2> HIDE DEF q
    <2> QED
      BY <1>2, <2>1, <2>2
  <1>5. ASSUME NEW c \in Clerks, R!CommitAdd(c) \/ R!CommitEdit(c) \/ R!Fails(c) PROVE R!TypeOK'
    BY <1>2, <1>5, RegisterRecords DEF R!CommitAdd, R!CommitEdit, R!Fails
  <1>6. CASE UNCHANGED R!vars
    BY <1>6, <1>t DEF R!vars, R!TypeOK
  <1> QED
    BY <1>3, <1>4, <1>5, <1>6, RegisterCases

(* Rows do not change table; requests go on meaning rows there are.          *)
LEMMA RegisterStep == RegisterInv /\ [R!Next]_R!vars => RegisterInv'
  <1> SUFFICES ASSUME RegisterInv, [R!Next]_R!vars PROVE RegisterInv'
    OBVIOUS
  <1>i. R!TypeOK /\ RequestsMeanRows /\ NamesDiffer
    BY DEF RegisterInv
  <1>t. /\ row \in [Ids -> R!Row] /\ request \in [Clerks -> RegisterRequest] /\ R!TypeOK'
    BY <1>i, RegisterTypes DEF R!TypeOK, RegisterRequest, R!Same
  <1>1. \A i \in Ids : row[i] # R!Absent => row'[i] # R!Absent /\ row'[i].table = row[i].table
    <2>1. ASSUME NEW c \in Clerks, R!CommitAdd(c), row' # row
          PROVE  \A i \in Ids : row[i] # R!Absent => row'[i] = row[i]
      BY <2>1, Additions
    <2>2. ASSUME NEW c \in Clerks, R!CommitEdit(c), row' # row
          PROVE  \A i \in Ids : row[i] # R!Absent => row'[i].table = row[i].table
      BY <2>2, Edits
    <2>3. \A i \in Ids : row[i] # R!Absent => row'[i].table = row[i].table
      BY <2>1, <2>2, RowsByCommit
    <2>4. \A i \in Ids : row[i] # R!Absent => row[i].table # "none"
      BY <1>i DEF RequestsMeanRows
    <2> QED
      BY <2>3, <2>4, RegisterRecords
  <1>2. \A i \in Ids : row'[i] = R!Absent \/ row'[i].table \in {"bus", "route"}
    <2>1. ASSUME NEW i \in Ids, row[i] = R!Absent, row'[i] # row[i]
          PROVE  row'[i].table \in {"bus", "route"}
      <3>1. ASSUME NEW c \in Clerks, R!CommitAdd(c), row' # row PROVE row'[i].table \in {"bus", "route"}
        BY <2>1, <3>1, Additions
      <3>2. ASSUME NEW c \in Clerks, R!CommitEdit(c), row' # row PROVE row'[i] = row[i]
        BY <2>1, <3>2, Edits
      <3> QED
        BY <2>1, <3>1, <3>2, RowsByCommit
    <2> QED
      BY <1>1, <2>1, <1>i DEF RequestsMeanRows
  <1>3. \A c \in Clerks :
          /\ request'[c].pc = "adding" => request'[c].table \in {"bus", "route"}
          /\ request'[c].pc = "editing" => /\ request'[c].id \in Ids
                                           /\ row'[request'[c].id] # R!Absent
                                           /\ request'[c].table = row'[request'[c].id].table
    <2> DEFINE Means(q) ==
          /\ q.pc = "adding" => q.table \in {"bus", "route"}
          /\ q.pc = "editing" => /\ q.id \in Ids /\ row'[q.id] # R!Absent
                                 /\ q.table = row'[q.id].table
    <2>1. \A c \in Clerks : Means(request[c])
      BY <1>1, <1>i DEF RequestsMeanRows
    <2>2. ASSUME NEW c \in Clerks, NEW q \in RegisterRequest, request' = [request EXCEPT ![c] = q],
                 Means(q)
          PROVE  \A x \in Clerks : Means(request'[x])
      BY <1>i, <2>1, <2>2, RequestShape
    <2>3. ASSUME NEW c \in Clerks, NEW tb \in {"bus", "route"}, NEW N \in SUBSET Names,
                 R!Begin(c, [R!Idle EXCEPT !.pc = "adding", !.table = tb, !.names = N])
          PROVE  \A x \in Clerks : Means(request'[x])
      <3> DEFINE q == [R!Idle EXCEPT !.pc = "adding", !.table = tb, !.names = N]
      <3>1. q \in RegisterRequest /\ q.pc = "adding" /\ q.table = tb
        BY RegisterRecords DEF RegisterRequest
      <3>2. request' = [request EXCEPT ![c] = q]
        BY <2>3 DEF R!Begin
      <3> HIDE DEF q
      <3> QED
        BY <2>2, <3>1, <3>2
    <2>4. ASSUME NEW c \in Clerks, NEW i \in Ids, NEW n \in Names \cup {"same"},
                 NEW s \in R!States \cup {"same"}, R!BeginEdit(c, i, n, s)
          PROVE  \A x \in Clerks : Means(request'[x])
      <3> DEFINE q == [R!Idle EXCEPT !.pc = "editing", !.table = row[i].table, !.id = i,
                                     !.read = row[i], !.name = n, !.state = s]
      <3>1. q \in RegisterRequest /\ q.pc = "editing" /\ q.id = i /\ q.table = row[i].table
        BY RegisterRecords, <1>t DEF RegisterRequest, R!Row
      <3>2. request' = [request EXCEPT ![c] = q] /\ row[i] # R!Absent
        BY <2>4 DEF R!BeginEdit, R!Begin
      <3> HIDE DEF q
      <3> QED
        BY <1>1, <2>2, <3>1, <3>2
    <2>5. ASSUME NEW c \in Clerks, R!CommitAdd(c) \/ R!CommitEdit(c) \/ R!Fails(c)
          PROVE  \A x \in Clerks : Means(request'[x])
      <3>1. request' = [request EXCEPT ![c] = R!Idle]
        BY <2>5 DEF R!CommitAdd, R!CommitEdit, R!Fails
      <3>2. Means(R!Idle)
        BY RegisterRecords
      <3> HIDE DEF Means
      <3> QED
        BY <2>2, <3>1, <3>2, RegisterRecords
    <2>6. ASSUME UNCHANGED R!vars PROVE \A x \in Clerks : Means(request'[x])
      BY <2>1, <2>6 DEF R!vars
    <2>7. \A x \in Clerks : Means(request'[x])
      <3>1. CASE \E c \in Clerks, tb \in {"bus", "route"}, N \in SUBSET Names :
                   R!Begin(c, [R!Idle EXCEPT !.pc = "adding", !.table = tb, !.names = N])
        <4>1. PICK c \in Clerks, tb \in {"bus", "route"}, N \in SUBSET Names :
                R!Begin(c, [R!Idle EXCEPT !.pc = "adding", !.table = tb, !.names = N])
          BY <3>1
        <4> QED
          BY <2>3, <4>1
      <3>2. CASE \E c \in Clerks, i \in Ids, n \in Names \cup {"same"},
                    s \in R!States \cup {"same"} : R!BeginEdit(c, i, n, s)
        <4>1. PICK c \in Clerks, i \in Ids, n \in Names \cup {"same"},
                   s \in R!States \cup {"same"} : R!BeginEdit(c, i, n, s)
          BY <3>2
        <4> QED
          BY <2>4, <4>1
      <3>3. CASE \E c \in Clerks : R!CommitAdd(c) \/ R!CommitEdit(c) \/ R!Fails(c)
        <4>1. PICK c \in Clerks : R!CommitAdd(c) \/ R!CommitEdit(c) \/ R!Fails(c)
          BY <3>3
        <4> QED
          BY <2>5, <4>1
      <3> HIDE DEF Means
      <3> QED
        BY <2>6, <3>1, <3>2, <3>3, RegisterCases
    <2> QED
      BY <2>7
  <1>4. NamesDiffer'
    <2>1. ASSUME NEW c \in Clerks, R!CommitAdd(c), row' # row PROVE NamesDiffer'
      <3> DEFINE q == request[c]
      <3>1. PICK at \in [q.names -> R!Unused] :
              /\ \A m, n \in q.names : at[m] = at[n] => m = n
              /\ q.names \cap R!Taken(q.table) = {}
              /\ q.table \in {"bus", "route"} /\ q.names \subseteq Names
              /\ row' \in [Ids -> R!Row]
              /\ \A n \in q.names : /\ row'[at[n]].table = q.table /\ row'[at[n]].name = n
                                    /\ row[at[n]] = R!Absent /\ at[n] \in Ids
              /\ \A i \in Ids : (\E n \in q.names : at[n] = i) \/ row'[i] = row[i]
        BY <2>1, Additions
      <3> HIDE DEF q
      <3>2. \A n \in q.names : row'[at[n]].table = q.table /\ row'[at[n]].name = n
        BY <3>1
      <3>3. \A j \in Ids : row[j].table = q.table => row[j].name \notin q.names
        BY <3>1 DEF R!Taken
      <3> SUFFICES ASSUME NEW i \in Ids, NEW j \in Ids, row'[i] # R!Absent,
                          row'[i].table = row'[j].table, row'[i].name = row'[j].name
                   PROVE  i = j
        BY DEF NamesDiffer
      <3>4. CASE (\E n \in q.names : at[n] = i) /\ (\E n \in q.names : at[n] = j)
        BY <3>2, <3>4
      <3>5. CASE (\E n \in q.names : at[n] = i) /\ row'[j] = row[j]
        BY <3>2, <3>3, <3>5
      <3>6. CASE (\E n \in q.names : at[n] = j) /\ row'[i] = row[i]
        BY <3>2, <3>3, <3>6
      <3>7. CASE row'[i] = row[i] /\ row'[j] = row[j]
        BY <3>7, <1>i DEF NamesDiffer
      <3> QED
        BY <3>1, <3>4, <3>5, <3>6, <3>7
    <2>2. ASSUME NEW c \in Clerks, R!CommitEdit(c), row' # row PROVE NamesDiffer'
      <3> SUFFICES ASSUME NEW i \in Ids, NEW j \in Ids, row'[i] # R!Absent,
                          row'[i].table = row'[j].table, row'[i].name = row'[j].name
                   PROVE  i = j
        BY DEF NamesDiffer
      <3> QED
        BY <2>2, <1>i, Edits DEF NamesDiffer
    <2>3. CASE row' = row
      BY <2>3, <1>i DEF NamesDiffer
    <2> QED
      BY <2>1, <2>2, <2>3, RowsByCommit
  <1> QED
    BY <1>t, <1>2, <1>3, <1>4 DEF RegisterInv, RequestsMeanRows

(* A column changes to what a request that ends asked for.                   *)
LEMMA ColumnsAsAsked ==
    ASSUME RegisterInv, [R!Next]_R!vars, NEW i \in Ids, row[i] # R!Absent
    PROVE  /\ row'[i].name # row[i].name => R!Asked(i, "name")
           /\ row'[i].state # row[i].state => R!Asked(i, "state")
  <1>1. CASE row' = row
    BY <1>1
  <1>2. ASSUME NEW c \in Clerks, R!CommitAdd(c), row' # row PROVE row'[i] = row[i]
    BY <1>2, Additions
  <1>3. ASSUME NEW c \in Clerks, R!CommitEdit(c), row' # row
        PROVE  /\ row'[i].name # row[i].name => R!Asked(i, "name")
               /\ row'[i].state # row[i].state => R!Asked(i, "state")
    <2>1. /\ request[c].pc = "editing" /\ request' = [request EXCEPT ![c] = R!Idle]
      BY <1>3 DEF R!CommitEdit
    <2>2. request'[c].pc = "idle"
      BY <2>1, RequestShape, RegisterRecords DEF RegisterInv
    <2>3. CASE i # request[c].id
      BY <2>3, <1>3, Edits
    <2>4. CASE i = request[c].id
      <3>1. row'[i].name # row[i].name => row'[i].name = request[c].name
        BY <2>4, <1>3, Edits
      <3>2. row'[i].state # row[i].state => row'[i].state = request[c].state
        BY <2>4, <1>3, Edits
      <3>3. request[c].name = request[c]["name"] /\ request[c].state = request[c]["state"]
            /\ row'[i].name = row'[i]["name"] /\ row'[i].state = row'[i]["state"]
        OBVIOUS
      <3> QED
        BY <2>1, <2>2, <2>4, <3>1, <3>2, <3>3 DEF R!Asked
    <2> QED
      BY <2>3, <2>4
  <1> QED
    BY <1>1, <1>2, <1>3, RowsByCommit

(* Rows that come to be are all those of one request.                        *)
LEMMA AddedWhole ==
    ASSUME RegisterInv, [R!Next]_R!vars, R!Added # {}
    PROVE  \E c \in Clerks : {row'[i].name : i \in R!Added} = request[c].names
  <1>1. PICK k \in Ids : row[k] = R!Absent /\ row'[k] # R!Absent
    BY DEF R!Added
  <1>2. ASSUME NEW c \in Clerks, R!CommitEdit(c), row' # row PROVE row'[k] = row[k]
    BY <1>1, <1>2, Edits
  <1>3. PICK c \in Clerks : R!CommitAdd(c) /\ row' # row
    BY <1>1, <1>2, RowsByCommit
  <1> DEFINE q == request[c]
  <1>4. PICK at \in [q.names -> R!Unused] :
          /\ q.table \in {"bus", "route"}
          /\ \A n \in q.names : /\ row'[at[n]].table = q.table /\ row'[at[n]].name = n
                                /\ row[at[n]] = R!Absent /\ at[n] \in Ids
          /\ \A i \in Ids : (\E n \in q.names : at[n] = i) \/ row'[i] = row[i]
    BY <1>3, Additions
  <1> HIDE DEF q
  <1>5. \A n \in q.names : at[n] \in R!Added /\ row'[at[n]].name = n
    BY <1>4, RegisterRecords DEF R!Added
  <1>6. \A i \in R!Added : \E n \in q.names : at[n] = i
    BY <1>4 DEF R!Added
  <1>7. {row'[i].name : i \in R!Added} = q.names
    BY <1>5, <1>6
  <1> QED
    BY <1>7 DEF q

(* The registers are as operators edited them.                               *)
THEOREM RegistersHold == R!Spec => R!RegisterIsAsEdited
  <1>1. RegisterInv /\ [R!Next]_R!vars =>
          [\A i \in Ids : row[i] # R!Absent =>
             /\ row'[i].name # row[i].name => R!Asked(i, "name")
             /\ row'[i].state # row[i].state => R!Asked(i, "state")]_R!vars
    BY ColumnsAsAsked
  <1>2. RegisterInv /\ [R!Next]_R!vars =>
          [R!Added # {} => \E c \in Clerks : {row'[i].name : i \in R!Added} = request[c].names]_R!vars
    BY AddedWhole
  <1>3. RegisterInv =>
          \A i, j \in Ids : row[i] # R!Absent /\ row[i].table = row[j].table
                            /\ row[i].name = row[j].name => i = j
    BY DEF RegisterInv, NamesDiffer
  <1> QED
    BY <1>1, <1>2, <1>3, InitRegister, RegisterStep, PTL DEF R!Spec, R!RegisterIsAsEdited

(* So the registers keep their types.                                        *)
THEOREM RegisterTyped == R!Spec => []R!TypeOK
  <1>1. RegisterInv => R!TypeOK
    BY DEF RegisterInv
  <1> QED
    BY <1>1, InitRegister, RegisterStep, PTL DEF R!Spec

-----------------------------------------------------------------------------
(* Credentials.  A request holds a link from the check to the denylist; the  *)
(* mail and its key are set together.                                        *)
VisitRecord == [pc : {"idle", "inserting", "asking", "checked", "committed"},
                kind : C!Kinds \cup {"none"}, link : Links \cup {"none"}]
LinkRecord == [life : 0..Life, denied : 0..Life]
MailRecord == [age : 0..Cooldown, by : {"nobody"} \cup C!Senders]

VisitsTyped ==
    /\ visit \in [Visits -> VisitRecord]
    /\ \A v \in Visits : IF visit[v].pc \in {"checked", "committed"} THEN visit[v].link \in Links
                         ELSE visit[v].link = "none"
    /\ \A v \in Visits : visit[v].pc = "asking" => visit[v].kind \in C!Kinds

MailsTyped ==
    /\ account \in {"none", "pending_email", "active"}
    /\ cooldown \in [C!Kinds -> 0..Cooldown] /\ sent \in [C!Kinds -> MailRecord]
    /\ crowded \subseteq C!Senders

LinksTyped ==
    /\ link \in [Links -> LinkRecord] /\ uses \in [Links -> 0..2] /\ excused \subseteq Links

(* The key of a kind lives until the cooldown has passed of the last mail    *)
(* that was asked for.                                                       *)
Spaced(mail, left) ==
    /\ mail.by = "request" => mail.age + left >= Cooldown
    /\ mail.by = "nobody" => mail.age = Cooldown

MailsSpaced ==
    /\ \A k \in C!Kinds : Spaced(sent[k], cooldown[k])
    /\ MailsAreSpaced

(* A link that nothing excuses is in one request's hands; it has set no      *)
(* password while only checked, and when it has set one it is dead, on the   *)
(* denylist for as long as it lives, or about to be put there.               *)
Held(l, pc) == \E v \in Visits : visit[v].link = l /\ visit[v].pc = pc

OneHolder(l) == \A v, w \in Visits : visit[v].link = l /\ visit[w].link = l => v = w

Spent(l) ==
    /\ uses[l] # 2
    /\ Held(l, "checked") => uses[l] = 0
    /\ uses[l] = 1 => Held(l, "committed") \/ link[l].life <= link[l].denied

Clean(l) == OneHolder(l) /\ Spent(l)

CredentialInv ==
    /\ VisitsTyped /\ MailsTyped /\ LinksTyped
    /\ MailsSpaced
    /\ \A l \in Links : l \notin excused => Clean(l)

-----------------------------------------------------------------------------
(* The record of a request at rest.                                          *)
LEMMA IdleVisit ==
    /\ C!Idle \in VisitRecord /\ C!Idle.pc = "idle" /\ C!Idle.link = "none"
    /\ C!NoLink = [life |-> 0, denied |-> 0]
  BY DEF C!Idle, VisitRecord, C!NoLink

(* A step of one request leaves the others as they were.                     *)
LEMMA VisitShape ==
    ASSUME visit \in [Visits -> VisitRecord], NEW v \in Visits, NEW q \in VisitRecord,
           visit' = [visit EXCEPT ![v] = q]
    PROVE  visit' \in [Visits -> VisitRecord] /\ visit'[v] = q /\ \A w \in Visits : w # v => visit'[w] = visit[w]
  OBVIOUS

(* What a step of a request does to the requests.                            *)
LEMMA VisitMoves ==
    ASSUME CredentialInv, NEW v \in Visits, C!Step(v)
    PROVE  \E q \in VisitRecord :
             /\ visit' = [visit EXCEPT ![v] = q]
             /\ IF q.pc \in {"checked", "committed"} THEN q.link \in Links ELSE q.link = "none"
             /\ q.pc = "asking" => q.kind \in C!Kinds
  <1>t. visit[v] \in VisitRecord /\ (visit[v].pc = "checked" => visit[v].link \in Links)
    BY DEF CredentialInv, VisitsTyped
  <1>1. CASE C!BeginRegister(v)
    <2> DEFINE q == [C!Idle EXCEPT !.pc = "inserting"]
    <2>1. q \in VisitRecord /\ q.pc = "inserting" /\ q.link = "none"
      BY IdleVisit DEF VisitRecord
    <2>2. visit' = [visit EXCEPT ![v] = q]
      BY <1>1 DEF C!BeginRegister
    <2> HIDE DEF q
    <2> QED
      BY <2>1, <2>2
  <1>2. ASSUME NEW k \in C!Kinds, C!AskForMail(v, k)
        PROVE  \E q \in VisitRecord :
             /\ visit' = [visit EXCEPT ![v] = q]
             /\ IF q.pc \in {"checked", "committed"} THEN q.link \in Links ELSE q.link = "none"
             /\ q.pc = "asking" => q.kind \in C!Kinds
    <2> DEFINE q == [C!Idle EXCEPT !.pc = "asking", !.kind = k]
    <2>1. q \in VisitRecord /\ q.pc = "asking" /\ q.link = "none" /\ q.kind = k
      BY IdleVisit DEF VisitRecord
    <2>2. visit' = [visit EXCEPT ![v] = q]
      BY <1>2 DEF C!AskForMail
    <2> HIDE DEF q
    <2> QED
      BY <2>1, <2>2
  <1>3. ASSUME NEW l \in Links, C!BeginReset(v, l)
        PROVE  \E q \in VisitRecord :
             /\ visit' = [visit EXCEPT ![v] = q]
             /\ IF q.pc \in {"checked", "committed"} THEN q.link \in Links ELSE q.link = "none"
             /\ q.pc = "asking" => q.kind \in C!Kinds
    <2> DEFINE q == [C!Idle EXCEPT !.pc = "checked", !.link = l]
    <2>1. q \in VisitRecord /\ q.pc = "checked" /\ q.link = l
      BY IdleVisit DEF VisitRecord
    <2>2. visit' = [visit EXCEPT ![v] = q]
      BY <1>3 DEF C!BeginReset
    <2> HIDE DEF q
    <2> QED
      BY <2>1, <2>2
  <1>4. CASE C!CommitReset(v)
    <2> DEFINE q == [visit[v] EXCEPT !.pc = "committed"]
    <2>1. visit' = [visit EXCEPT ![v] = q] /\ visit[v].pc = "checked"
      BY <1>4 DEF C!CommitReset, C!At
    <2>2. q \in VisitRecord /\ q.pc = "committed" /\ q.link = visit[v].link
      BY <1>t DEF VisitRecord
    <2> HIDE DEF q
    <2> QED
      BY <1>t, <2>1, <2>2
  <1>5. CASE C!CommitRegister(v) \/ C!Grant(v) \/ C!GrantBlind(v) \/ C!Suppress(v) \/ C!Deny(v) \/ C!Dies(v)
    <2>1. visit' = [visit EXCEPT ![v] = C!Idle]
      BY <1>5 DEF C!CommitRegister, C!Grant, C!GrantBlind, C!Suppress, C!Deny, C!Dies, C!Leave
    <2> QED
      BY <2>1, IdleVisit
  <1> QED
    BY <1>1, <1>2, <1>3, <1>4, <1>5 DEF C!Step

(* Requests keep their types, and hold a link just while they reset.         *)
LEMMA VisitsStay == CredentialInv /\ [C!Next]_C!vars => VisitsTyped'
  <1> SUFFICES ASSUME CredentialInv, [C!Next]_C!vars PROVE VisitsTyped'
    OBVIOUS
  <1>1. ASSUME NEW v \in Visits, C!Step(v) PROVE VisitsTyped'
    <2>1. PICK q \in VisitRecord :
             /\ visit' = [visit EXCEPT ![v] = q]
             /\ IF q.pc \in {"checked", "committed"} THEN q.link \in Links ELSE q.link = "none"
             /\ q.pc = "asking" => q.kind \in C!Kinds
      BY <1>1, VisitMoves
    <2> QED
      BY <2>1, VisitShape DEF CredentialInv, VisitsTyped
  <1>2. CASE C!Tick \/ C!VerifyEmail \/ UNCHANGED C!vars
    <2>1. visit' = visit
      BY <1>2 DEF C!Tick, C!VerifyEmail, C!vars
    <2> QED
      BY <2>1 DEF CredentialInv, VisitsTyped
  <1> QED
    BY <1>1, <1>2 DEF C!Next

-----------------------------------------------------------------------------
(* A mail that has just gone out, for a request or for a registration.       *)
LEMMA NewMail ==
    /\ \A s \in C!Senders : C!Mail(s) \in MailRecord
    /\ Spaced(C!Mail("request"), Cooldown)
    /\ \A left \in Nat : Spaced(C!Mail("register"), left)
    /\ C!NoMail \in MailRecord /\ \A left \in Nat : Spaced(C!NoMail, left)
  BY DesksAssumption DEF C!Mail, C!NoMail, C!Senders, MailRecord, Spaced

(* A tick takes as much from the key as it adds to the mail's age.           *)
LEMMA MailAges ==
    ASSUME NEW m \in MailRecord, NEW left \in 0..Cooldown, Spaced(m, left)
    PROVE  C!Aged(m) \in MailRecord /\ C!Less(left) \in 0..Cooldown /\ Spaced(C!Aged(m), C!Less(left))
  <1>1. m.age \in 0..Cooldown /\ Cooldown \in Nat /\ m.by \in {"nobody"} \cup C!Senders
    BY DesksAssumption DEF MailRecord
  <1>2. C!Less(left) \in 0..Cooldown /\ (left > 0 => C!Less(left) = left - 1)
    BY <1>1 DEF C!Less
  <1>3. CASE m.age + 1 < Cooldown
    <2>1. C!Aged(m) = [age |-> m.age + 1, by |-> m.by]
      BY <1>3 DEF C!Aged, MailRecord
    <2>2. m.by = "request" => left > 0 /\ m.age + 1 + (left - 1) >= Cooldown
      BY <1>1, <1>3 DEF Spaced
    <2>3. m.by # "nobody"
      BY <1>1, <1>3 DEF Spaced
    <2> QED
      BY <1>1, <1>2, <1>3, <2>1, <2>2, <2>3 DEF MailRecord, Spaced
  <1>4. CASE ~(m.age + 1 < Cooldown)
    <2>1. C!Aged(m) = C!NoMail
      BY <1>4 DEF C!Aged
    <2> QED
      BY <1>2, <2>1, NewMail
  <1> QED
    BY <1>3, <1>4

(* The mails of a kind keep their distance.                                  *)
LEMMA MailsStay == CredentialInv /\ [C!Next]_C!vars => MailsTyped' /\ MailsSpaced'
  <1> SUFFICES ASSUME CredentialInv, [C!Next]_C!vars PROVE MailsTyped' /\ MailsSpaced'
    OBVIOUS
  <1>t. /\ MailsTyped /\ MailsSpaced
        /\ \A v \in Visits : visit[v].pc = "asking" => visit[v].kind \in C!Kinds
    BY DEF CredentialInv, VisitsTyped
  <1>n. Cooldown \in Nat
    BY DesksAssumption
  <1>1. ASSUME NEW v \in Visits, C!Grant(v) PROVE MailsTyped' /\ MailsSpaced'
    <2>1. PICK k \in C!Kinds : k = visit[v].kind
      BY <1>1, <1>t DEF C!Grant, C!At
    <2>2. /\ cooldown[k] = 0 /\ cooldown' = [cooldown EXCEPT ![k] = Cooldown]
          /\ sent' = [sent EXCEPT ![k] = C!Mail("request")] /\ account' = account
          /\ crowded' = crowded \cup C!TooSoon(k)
      BY <1>1, <2>1 DEF C!Grant
    <2>3. sent[k] \in MailRecord /\ Spaced(sent[k], 0)
      BY <1>t, <2>2 DEF MailsTyped, MailsSpaced
    <2>4. C!TooSoon(k) \subseteq {"register"}
      <3>1. sent[k].by = "request" => ~(sent[k].age < Cooldown)
        BY <1>n, <2>3 DEF Spaced, MailRecord
      <3>2. sent[k].by = "nobody" => ~(sent[k].age < Cooldown)
        BY <1>n, <2>3 DEF Spaced
      <3> QED
        BY <2>3, <3>1, <3>2 DEF C!TooSoon, C!Senders, MailRecord
    <2>5. crowded' \subseteq C!Senders /\ MailsAreSpaced'
      BY <1>t, <2>2, <2>4 DEF MailsTyped, MailsSpaced, MailsAreSpaced, C!MailsAreSpaced, C!Senders
    <2>6. cooldown' \in [C!Kinds -> 0..Cooldown] /\ sent' \in [C!Kinds -> MailRecord]
      BY <1>t, <1>n, <2>2, NewMail DEF MailsTyped, C!Senders
    <2>7. \A j \in C!Kinds : Spaced(sent'[j], cooldown'[j])
      BY <1>t, <2>2, NewMail DEF MailsTyped, MailsSpaced
    <2> QED
      BY <1>t, <2>2, <2>5, <2>6, <2>7 DEF MailsTyped, MailsSpaced
  <1>2. CASE C!Tick
    <2>1. /\ account' = account /\ crowded' = crowded
          /\ cooldown' = [k \in C!Kinds |-> C!Less(cooldown[k])]
          /\ sent' = [k \in C!Kinds |-> C!Aged(sent[k])]
      BY <1>2 DEF C!Tick
    <2>2. ASSUME NEW k \in C!Kinds
          PROVE  /\ cooldown'[k] \in 0..Cooldown /\ sent'[k] \in MailRecord
                 /\ Spaced(sent'[k], cooldown'[k])
      BY <1>t, <2>1, MailAges DEF MailsTyped, MailsSpaced
    <2> QED
      BY <1>t, <2>1, <2>2 DEF MailsTyped, MailsSpaced, MailsAreSpaced, C!MailsAreSpaced
  <1>3. ASSUME NEW v \in Visits, C!CommitRegister(v) PROVE MailsTyped' /\ MailsSpaced'
    <2>1. /\ cooldown' = cooldown /\ crowded' = crowded
          /\ account' \in {account, "pending_email"}
          /\ sent' = sent \/ sent' = [sent EXCEPT !["confirm"] = C!Mail("register")]
      BY <1>3 DEF C!CommitRegister
    <2>2. \A k \in C!Kinds : cooldown[k] \in Nat
      BY <1>t, <1>n DEF MailsTyped
    <2>3. /\ sent' \in [C!Kinds -> MailRecord]
          /\ \A k \in C!Kinds : Spaced(sent'[k], cooldown[k])
      BY <1>t, <2>1, <2>2, NewMail DEF MailsTyped, MailsSpaced, C!Senders
    <2> QED
      BY <1>t, <2>1, <2>3 DEF MailsTyped, MailsSpaced, MailsAreSpaced, C!MailsAreSpaced
  <1>4. CASE C!VerifyEmail
    BY <1>t, <1>4 DEF C!VerifyEmail, MailsTyped, MailsSpaced, MailsAreSpaced, C!MailsAreSpaced
  <1>5. CASE UNCHANGED C!mailing
    BY <1>t, <1>5 DEF C!mailing, MailsTyped, MailsSpaced, MailsAreSpaced, C!MailsAreSpaced
  <1>6. ASSUME NEW v \in Visits, C!Step(v), ~C!Grant(v), ~C!CommitRegister(v)
        PROVE  UNCHANGED C!mailing
    BY <1>6 DEF C!Step, C!BeginRegister, C!AskForMail, C!GrantBlind, C!Suppress, C!BeginReset,
                C!CommitReset, C!Deny, C!Dies
  <1>7. CASE UNCHANGED C!vars
    BY <1>5, <1>7 DEF C!vars
  <1> QED
    BY <1>1, <1>2, <1>3, <1>4, <1>5, <1>6, <1>7 DEF C!Next

-----------------------------------------------------------------------------
(* The records of a link.                                                    *)
LEMMA LinkShape ==
    ASSUME LinksTyped, NEW l \in Links, NEW x \in LinkRecord, link' = [link EXCEPT ![l] = x]
    PROVE  link' \in [Links -> LinkRecord] /\ link'[l] = x /\ \A m \in Links : m # l => link'[m] = link[m]
  BY DEF LinksTyped

(* Minting makes a clean link of one nobody holds, and touches no other.     *)
LEMMA Minted ==
    ASSUME CredentialInv, NEW k \in C!Kinds, C!Mint(k)
    PROVE  /\ LinksTyped'
           /\ \/ UNCHANGED <<link, uses, excused>>
              \/ \E l \in Links :
                   /\ \A v \in Visits : visit[v].link # l
                   /\ uses'[l] = 0 /\ excused' = excused \ {l}
                   /\ \A m \in Links : m # l => link'[m] = link[m] /\ uses'[m] = uses[m]
  <1>t. LinksTyped
    BY DEF CredentialInv
  <1>1. CASE k = "confirm"
    <2>1. UNCHANGED <<link, uses, excused>>
      BY <1>1 DEF C!Mint, C!using
    <2> QED
      BY <1>t, <2>1 DEF LinksTyped
  <1>2. CASE k # "confirm"
    <2>1. PICK l \in Links : /\ ~C!InUse(l)
                             /\ link' = [link EXCEPT ![l] = [life |-> Life, denied |-> 0]]
                             /\ uses' = [uses EXCEPT ![l] = 0]
                             /\ excused' = excused \ {l}
      BY <1>2 DEF C!Mint
    <2>2. [life |-> Life, denied |-> 0] \in LinkRecord
      BY DesksAssumption DEF LinkRecord
    <2>3. link' \in [Links -> LinkRecord] /\ \A m \in Links : m # l => link'[m] = link[m]
      BY <1>t, <2>1, <2>2, LinkShape
    <2>4. uses' \in [Links -> 0..2] /\ uses'[l] = 0 /\ \A m \in Links : m # l => uses'[m] = uses[m]
      BY <1>t, <2>1 DEF LinksTyped
    <2>5. \A v \in Visits : visit[v].link # l
      BY <2>1 DEF C!InUse
    <2> QED
      BY <1>t, <2>1, <2>3, <2>4, <2>5 DEF LinksTyped
  <1> QED
    BY <1>1, <1>2

(* A link that a step leaves as it was stays clean when a request that was   *)
(* not about to deny it lets go.                                             *)
LEMMA StaysClean ==
    ASSUME VisitsTyped, NEW v \in Visits, NEW q \in VisitRecord, NEW l \in Links,
           visit' = [visit EXCEPT ![v] = q], q.link # l, Clean(l),
           visit[v].link = l => visit[v].pc # "committed",
           uses'[l] = uses[l], link'[l] = link[l]
    PROVE  Clean(l)'
  <1>1. /\ visit'[v] = q
        /\ \A w \in Visits : w # v => visit'[w] = visit[w]
    BY DEF VisitsTyped
  <1>2. OneHolder(l)'
    BY <1>1 DEF Clean, OneHolder
  <1>3. Held(l, "checked")' => Held(l, "checked")
    BY <1>1 DEF Held
  <1>4. Held(l, "committed") => Held(l, "committed")'
    BY <1>1 DEF Held
  <1>5. Spent(l)'
    BY <1>3, <1>4 DEF Clean, Spent
  <1> QED
    BY <1>2, <1>5 DEF Clean

(* Nobody holds it and it has set no password: clean.                        *)
LEMMA FreshIsClean ==
    ASSUME NEW l \in Links, \A v \in Visits : visit'[v].link # l, uses'[l] = 0
    PROVE  Clean(l)'
  BY DEF Clean, OneHolder, Spent, Held

(* A mail with a new link, and one without.                                  *)
LEMMA GrantsKeepClean ==
    ASSUME CredentialInv, NEW v \in Visits, C!Grant(v) \/ C!GrantBlind(v)
    PROVE  LinksTyped' /\ \A l \in Links : l \notin excused' => Clean(l)'
  <1> DEFINE k == visit[v].kind
  <1>1. k \in C!Kinds /\ C!Mint(k) /\ visit[v].pc = "asking" /\ visit' = [visit EXCEPT ![v] = C!Idle]
    BY DEF CredentialInv, VisitsTyped, C!Grant, C!GrantBlind, C!At, C!Leave
  <1> HIDE DEF k
  <1>t. VisitsTyped /\ \A l \in Links : l \notin excused => Clean(l)
    BY DEF CredentialInv
  <1>l. visit[v].link = "none" /\ "none" \notin Links
    BY <1>t, <1>1, DesksAssumption DEF VisitsTyped
  <1>2. LinksTyped'
    BY <1>1, Minted
  <1>3. ASSUME NEW l \in Links, Clean(l), uses'[l] = uses[l], link'[l] = link[l]
        PROVE  Clean(l)'
    BY <1>1, <1>3, <1>t, <1>l, IdleVisit, StaysClean
  <1>4. CASE UNCHANGED <<link, uses, excused>>
    <2>1. excused' = excused /\ link' = link /\ uses' = uses
      BY <1>4
    <2> QED
      BY <1>2, <1>3, <1>t, <2>1
  <1>5. CASE ~UNCHANGED <<link, uses, excused>>
    <2>1. PICK l \in Links :
             /\ \A w \in Visits : visit[w].link # l
             /\ uses'[l] = 0 /\ excused' = excused \ {l}
             /\ \A m \in Links : m # l => link'[m] = link[m] /\ uses'[m] = uses[m]
      BY <1>1, <1>5, Minted
    <2>2. \A w \in Visits : visit'[w].link # l
      BY <1>1, <1>t, <1>l, <2>1, IdleVisit DEF VisitsTyped
    <2>3. Clean(l)'
      BY <2>1, <2>2, FreshIsClean
    <2>4. \A m \in Links : m # l /\ m \notin excused' => Clean(m)'
      BY <1>3, <1>t, <2>1
    <2> QED
      BY <1>2, <2>3, <2>4
  <1> QED
    BY <1>4, <1>5

(* A reset that presents its link.                                           *)
LEMMA BeginsKeepClean ==
    ASSUME CredentialInv, NEW v \in Visits, NEW p \in Links, C!BeginReset(v, p)
    PROVE  LinksTyped' /\ \A l \in Links : l \notin excused' => Clean(l)'
  <1> DEFINE q == [C!Idle EXCEPT !.pc = "checked", !.link = p]
  <1>1. q \in VisitRecord /\ q.pc = "checked" /\ q.link = p
    BY IdleVisit DEF VisitRecord
  <1>2. /\ visit' = [visit EXCEPT ![v] = q] /\ visit[v].pc = "idle" /\ link[p].life > 0
        /\ excused' = IF C!Presented(p) \/ link[p].denied > 0 THEN excused \cup {p} ELSE excused
        /\ link' = link /\ uses' = uses
    BY DEF C!BeginReset, C!At
  <1> HIDE DEF q
  <1>t. VisitsTyped /\ LinksTyped /\ \A l \in Links : l \notin excused => Clean(l)
    BY DEF CredentialInv
  <1>3. LinksTyped'
    BY <1>2, <1>t DEF LinksTyped
  <1>4. \A l \in Links : l # p /\ l \notin excused' => Clean(l)'
    BY <1>1, <1>2, <1>t, StaysClean
  <1>5. ASSUME p \notin excused' PROVE Clean(p)'
    <2>1. /\ ~C!Presented(p) /\ ~(link[p].denied > 0) /\ Clean(p)
      BY <1>2, <1>5, <1>t
    <2>2. link[p] \in LinkRecord /\ uses[p] \in 0..2
      BY <1>t DEF LinksTyped
    <2>3. ~(link[p].life <= link[p].denied)
      BY <1>2, <2>1, <2>2, DesksAssumption DEF LinkRecord
    <2>4. ~Held(p, "committed")
      BY <2>1 DEF C!Presented, Held
    <2>5. uses[p] = 0
      BY <2>1, <2>2, <2>3, <2>4 DEF Clean, Spent
    <2>6. \A w \in Visits : visit'[w].link = p => w = v
      BY <1>1, <1>2, <1>t, <2>1 DEF C!Presented, VisitsTyped
    <2> QED
      BY <1>2, <2>5, <2>6 DEF Clean, OneHolder, Spent
  <1> QED
    BY <1>3, <1>4, <1>5

(* A reset that sets the password.                                           *)
LEMMA CommitsKeepClean ==
    ASSUME CredentialInv, NEW v \in Visits, C!CommitReset(v)
    PROVE  LinksTyped' /\ \A l \in Links : l \notin excused' => Clean(l)'
  <1>t. /\ VisitsTyped /\ LinksTyped /\ visit[v] \in VisitRecord
        /\ \A l \in Links : l \notin excused => Clean(l)
    BY DEF CredentialInv, VisitsTyped
  <1>1. visit[v].pc = "checked" /\ link' = link /\ excused' = excused
    BY DEF C!CommitReset, C!At
  <1>2. PICK p \in Links : p = visit[v].link
    BY <1>t, <1>1 DEF VisitsTyped
  <1> DEFINE q == [visit[v] EXCEPT !.pc = "committed"]
  <1>3. q \in VisitRecord /\ q.pc = "committed" /\ q.link = p
    BY <1>t, <1>2 DEF VisitRecord
  <1>4. /\ visit' = [visit EXCEPT ![v] = q]
        /\ uses' = [uses EXCEPT ![p] = IF uses[p] = 2 THEN 2 ELSE uses[p] + 1]
    BY <1>2 DEF C!CommitReset
  <1> HIDE DEF q
  <1>5. LinksTyped'
    BY <1>1, <1>4, <1>t DEF LinksTyped
  <1>6. \A l \in Links : l # p => uses'[l] = uses[l]
    BY <1>4, <1>t DEF LinksTyped
  <1>7. \A l \in Links : l # p /\ l \notin excused' => Clean(l)'
    BY <1>1, <1>3, <1>4, <1>6, <1>t, StaysClean
  <1>8. ASSUME p \notin excused' PROVE Clean(p)'
    <2>1. Clean(p) /\ Held(p, "checked")
      BY <1>1, <1>2, <1>8, <1>t DEF Held
    <2>2. uses'[p] = 1
      BY <1>4, <2>1, <1>t DEF Clean, Spent, LinksTyped
    <2>3. visit'[v] = q /\ \A w \in Visits : w # v => visit'[w] = visit[w]
      BY <1>t, <1>4 DEF VisitsTyped
    <2>4. \A w \in Visits : visit'[w].link = p => w = v
      BY <1>2, <2>1, <2>3 DEF Clean, OneHolder
    <2>5. Held(p, "committed")' /\ ~Held(p, "checked")'
      BY <1>3, <2>3, <2>4 DEF Held
    <2> QED
      BY <2>2, <2>4, <2>5 DEF Clean, OneHolder, Spent
  <1> QED
    BY <1>5, <1>7, <1>8

(* A reset that has the token denied, or fails to.                           *)
LEMMA DenialsKeepClean ==
    ASSUME CredentialInv, NEW v \in Visits, C!Deny(v)
    PROVE  LinksTyped' /\ \A l \in Links : l \notin excused' => Clean(l)'
  <1>t. /\ VisitsTyped /\ LinksTyped /\ visit[v] \in VisitRecord
        /\ \A l \in Links : l \notin excused => Clean(l)
    BY DEF CredentialInv, VisitsTyped
  <1>1. /\ visit[v].pc = "committed" /\ uses' = uses
        /\ visit' = [visit EXCEPT ![v] = C!Idle]
    BY DEF C!Deny, C!At, C!Leave
  <1>2. PICK p \in Links : p = visit[v].link
    BY <1>t, <1>1 DEF VisitsTyped
  <1>n. "none" \notin Links
    BY DesksAssumption
  <1>3. \A l \in Links : l # p /\ link'[l] = link[l] /\ Clean(l) => Clean(l)'
    BY <1>1, <1>2, <1>n, <1>t, IdleVisit, StaysClean
  <1>4. CASE /\ link' = [link EXCEPT ![p].denied = IF link[p].life > 0 THEN link[p].life ELSE 1]
             /\ excused' = excused
    <2> DEFINE x == [link[p] EXCEPT !.denied = IF link[p].life > 0 THEN link[p].life ELSE 1]
    <2>0. link[p] \in LinkRecord
      BY <1>t DEF LinksTyped
    <2>1. x \in LinkRecord /\ x.life <= x.denied
      BY <2>0, DesksAssumption DEF LinkRecord
    <2>2. link' = [link EXCEPT ![p] = x]
      BY <1>4
    <2> HIDE DEF x
    <2>3. link' \in [Links -> LinkRecord] /\ link'[p] = x /\ \A l \in Links : l # p => link'[l] = link[l]
      BY <1>t, <2>1, <2>2, LinkShape
    <2>4. LinksTyped'
      BY <1>1, <1>4, <1>t, <2>3 DEF LinksTyped
    <2>5. ASSUME p \notin excused PROVE Clean(p)'
      <3>1. Clean(p) /\ Held(p, "committed")
        BY <1>1, <1>2, <1>t, <2>5 DEF Held
      <3>2. \A w \in Visits : visit'[w].link # p
        BY <1>1, <1>2, <1>n, <1>t, <3>1, IdleVisit DEF Clean, OneHolder, VisitsTyped
      <3>3. uses'[p] # 2
        BY <1>1, <3>1 DEF Clean, Spent
      <3> QED
        BY <2>1, <2>3, <3>2, <3>3 DEF Clean, OneHolder, Spent, Held
    <2> QED
      BY <1>3, <1>4, <1>t, <2>3, <2>4, <2>5
  <1>5. CASE excused' = excused \cup {p} /\ link' = link
    <2>1. LinksTyped'
      BY <1>1, <1>5, <1>t DEF LinksTyped
    <2> QED
      BY <1>3, <1>5, <1>t, <2>1
  <1> QED
    BY <1>2, <1>4, <1>5 DEF C!Deny

(* A process that dies with a password set and the token not denied excuses  *)
(* the link.                                                                 *)
LEMMA DeathsKeepClean ==
    ASSUME CredentialInv, NEW v \in Visits, C!Dies(v)
    PROVE  LinksTyped' /\ \A l \in Links : l \notin excused' => Clean(l)'
  <1>t. /\ VisitsTyped /\ LinksTyped
        /\ \A l \in Links : l \notin excused => Clean(l)
    BY DEF CredentialInv
  <1>1. /\ link' = link /\ uses' = uses
        /\ visit' = [visit EXCEPT ![v] = C!Idle]
        /\ excused' = IF visit[v].pc = "committed" THEN excused \cup {visit[v].link} ELSE excused
    BY DEF C!Dies, C!At, C!Leave
  <1>n. "none" \notin Links
    BY DesksAssumption
  <1>2. LinksTyped'
    BY <1>1, <1>t DEF LinksTyped, VisitsTyped
  <1>3. \A l \in Links : l \notin excused' => (visit[v].link = l => visit[v].pc # "committed") /\ l \notin excused
    BY <1>1
  <1> QED
    BY <1>1, <1>2, <1>3, <1>n, <1>t, IdleVisit, StaysClean

(* An hour that passes takes as much from the link's life as from its entry. *)
LEMMA TicksKeepClean ==
    ASSUME CredentialInv, C!Tick
    PROVE  LinksTyped' /\ \A l \in Links : l \notin excused' => Clean(l)'
  <1>t. LinksTyped /\ \A l \in Links : l \notin excused => Clean(l)
    BY DEF CredentialInv
  <1>1. /\ link' = [l \in Links |-> [life |-> C!Less(link[l].life), denied |-> C!Less(link[l].denied)]]
        /\ visit' = visit /\ uses' = uses /\ excused' = excused
    BY DEF C!Tick, C!using
  <1>2. ASSUME NEW l \in Links
        PROVE  link'[l] \in LinkRecord
               /\ (link[l].life <= link[l].denied => link'[l].life <= link'[l].denied)
    <2> DEFINE x == [life |-> C!Less(link[l].life), denied |-> C!Less(link[l].denied)]
    <2>0. link[l].life \in 0..Life /\ link[l].denied \in 0..Life
      BY <1>t DEF LinksTyped, LinkRecord
    <2>1. x.life \in 0..Life /\ x.denied \in 0..Life
          /\ (link[l].life <= link[l].denied => x.life <= x.denied)
      BY <2>0, DesksAssumption DEF C!Less
    <2>2. x \in LinkRecord
      BY <2>1 DEF LinkRecord
    <2>3. link'[l] = x
      BY <1>1
    <2> HIDE DEF x
    <2> QED
      BY <2>1, <2>2, <2>3
  <1>3. LinksTyped'
    BY <1>1, <1>2, <1>t DEF LinksTyped
  <1>4. ASSUME NEW l \in Links, Clean(l) PROVE Clean(l)'
    <2>1. OneHolder(l)' /\ (Held(l, "checked")' <=> Held(l, "checked"))
          /\ (Held(l, "committed")' <=> Held(l, "committed"))
      BY <1>1, <1>4 DEF Clean, OneHolder, Held
    <2>2. Spent(l)'
      BY <1>1, <1>2, <1>4, <2>1 DEF Clean, Spent
    <2> QED
      BY <2>1, <2>2 DEF Clean
  <1> QED
    BY <1>1, <1>3, <1>4, <1>t

(* Any other step moves a request that holds no committed link.              *)
LEMMA LinksStay ==
    CredentialInv /\ [C!Next]_C!vars =>
      LinksTyped' /\ \A l \in Links : l \notin excused' => Clean(l)'
  <1> SUFFICES ASSUME CredentialInv, [C!Next]_C!vars
               PROVE  LinksTyped' /\ \A l \in Links : l \notin excused' => Clean(l)'
    OBVIOUS
  <1>t. /\ VisitsTyped /\ LinksTyped
        /\ \A l \in Links : l \notin excused => Clean(l)
    BY DEF CredentialInv
  <1>n. "none" \notin Links
    BY DesksAssumption
  <1>1. ASSUME UNCHANGED <<link, uses, excused>> PROVE LinksTyped'
    BY <1>1, <1>t DEF LinksTyped
  <1>2. ASSUME NEW v \in Visits,
               C!BeginRegister(v) \/ C!CommitRegister(v) \/ C!Suppress(v)
                 \/ \E k \in C!Kinds : C!AskForMail(v, k)
        PROVE  LinksTyped' /\ \A l \in Links : l \notin excused' => Clean(l)'
    <2>1. /\ link' = link /\ uses' = uses /\ excused' = excused
          /\ visit[v].pc \in {"idle", "inserting", "asking"}
      BY <1>2 DEF C!BeginRegister, C!CommitRegister, C!Suppress, C!AskForMail, C!using, C!At
    <2>2. PICK q \in VisitRecord : visit' = [visit EXCEPT ![v] = q] /\ q.link = "none"
      <3>1. ASSUME NEW k \in C!Kinds \cup {"none"}
            PROVE  /\ [C!Idle EXCEPT !.pc = "asking", !.kind = k] \in VisitRecord
                   /\ [C!Idle EXCEPT !.pc = "asking", !.kind = k].link = "none"
        BY IdleVisit DEF VisitRecord
      <3>2. /\ [C!Idle EXCEPT !.pc = "inserting"] \in VisitRecord
            /\ [C!Idle EXCEPT !.pc = "inserting"].link = "none"
        BY IdleVisit DEF VisitRecord
      <3>3. CASE C!BeginRegister(v)
        BY <3>2, <3>3 DEF C!BeginRegister
      <3>4. CASE C!CommitRegister(v) \/ C!Suppress(v)
        BY <3>4, IdleVisit DEF C!CommitRegister, C!Suppress, C!Leave
      <3>5. ASSUME NEW k \in C!Kinds, C!AskForMail(v, k)
            PROVE  \E q \in VisitRecord : visit' = [visit EXCEPT ![v] = q] /\ q.link = "none"
        BY <3>1, <3>5 DEF C!AskForMail
      <3> QED
        BY <1>2, <3>3, <3>4, <3>5
    <2> QED
      BY <1>1, <1>n, <1>t, <2>1, <2>2, StaysClean
  <1>3. ASSUME C!VerifyEmail \/ UNCHANGED C!vars
        PROVE  LinksTyped' /\ \A l \in Links : l \notin excused' => Clean(l)'
    <2>1. UNCHANGED <<link, visit, uses, excused>>
      BY <1>3 DEF C!VerifyEmail, C!vars, C!using
    <2>2. \A l \in Links : Clean(l) => Clean(l)'
      BY <2>1 DEF Clean, OneHolder, Spent, Held
    <2> QED
      BY <1>1, <1>t, <2>1, <2>2
  <1>4. ASSUME NEW v \in Visits, C!Step(v)
        PROVE  LinksTyped' /\ \A l \in Links : l \notin excused' => Clean(l)'
    <2>1. CASE C!Grant(v) \/ C!GrantBlind(v)
      BY <2>1, GrantsKeepClean
    <2>2. CASE \E l \in Links : C!BeginReset(v, l)
      BY <2>2, BeginsKeepClean
    <2>3. CASE C!CommitReset(v)
      BY <2>3, CommitsKeepClean
    <2>4. CASE C!Deny(v)
      BY <2>4, DenialsKeepClean
    <2>5. CASE C!Dies(v)
      BY <2>5, DeathsKeepClean
    <2> QED
      BY <1>2, <1>4, <2>1, <2>2, <2>3, <2>4, <2>5 DEF C!Step
  <1> QED
    BY <1>3, <1>4, TicksKeepClean DEF C!Next

(* At first there is no request and no link.                                 *)
LEMMA InitCredential == C!Init => CredentialInv
  <1> SUFFICES ASSUME C!Init PROVE CredentialInv
    OBVIOUS
  <1>n. "none" \notin Links /\ Cooldown \in Nat /\ Life \in Nat
    BY DesksAssumption
  <1>1. VisitsTyped
    BY IdleVisit DEF C!Init, VisitsTyped
  <1>2. C!NoLink \in LinkRecord
    BY IdleVisit, <1>n DEF LinkRecord
  <1>3. MailsTyped
    <2>1. 0 \in 0..Cooldown
      BY <1>n
    <2> QED
      BY <2>1, NewMail DEF C!Init, MailsTyped
  <1>6. LinksTyped
    BY <1>2 DEF C!Init, LinksTyped
  <1>4. MailsSpaced
    <2>1. \A k \in C!Kinds : sent[k] = C!NoMail /\ cooldown[k] \in Nat
      BY DEF C!Init
    <2>2. MailsAreSpaced
      BY DEF C!Init, MailsAreSpaced, C!MailsAreSpaced
    <2> QED
      BY <2>1, <2>2, NewMail DEF MailsSpaced
  <1>5. \A l \in Links : Clean(l)
    BY <1>n, IdleVisit DEF C!Init, Clean, OneHolder, Spent, Held
  <1> QED
    BY <1>1, <1>3, <1>4, <1>5, <1>6 DEF CredentialInv

(* One link sets one password unless excused, and mails are spaced.          *)
THEOREM CredentialsHold == C!Spec => []CredentialInv
  <1>1. CredentialInv /\ [C!Next]_C!vars => CredentialInv'
    BY VisitsStay, MailsStay, LinksStay DEF CredentialInv
  <1> QED
    BY <1>1, InitCredential, PTL DEF C!Spec

(* What the run checks follows.                                              *)
LEMMA CredentialFacts == CredentialInv => C!TypeOK /\ LinksAreSingleUse /\ MailsAreSpaced
  <1> SUFFICES ASSUME CredentialInv PROVE C!TypeOK /\ LinksAreSingleUse /\ MailsAreSpaced
    OBVIOUS
  <1>1. C!TypeOK
    BY DEF CredentialInv, VisitsTyped, MailsTyped, LinksTyped, C!TypeOK, VisitRecord, LinkRecord, MailRecord
  <1>2. LinksAreSingleUse /\ MailsAreSpaced
    BY DEF CredentialInv, MailsSpaced, Clean, Spent, LinksAreSingleUse, C!LinksAreSingleUse
  <1> QED
    BY <1>1, <1>2

-----------------------------------------------------------------------------
(* LiveMap.  How far a frame may be behind.                                  *)
Lag == RosterTtl + QueryTime

(* The cached roster is as good as the query that was stored last.           *)
CacheDated ==
    roster.stored =>
        roster.at <= clock /\ Current(roster.refs, roster.at - QueryTime)

(* A roster query was asked within its loop, is not overdue, and its answer  *)
(* describes the route as it was when it was asked or later.                 *)
QueryDated ==
    \A c \in Clients :
        /\ conn[c].now <= clock
        /\ conn[c].pc = "query" =>
             /\ conn[c].now <= conn[c].asked
             /\ conn[c].asked <= clock
             /\ clock <= conn[c].asked + QueryTime
             /\ Current(conn[c].refs, conn[c].asked)
        /\ conn[c].pc = "read" => Current(conn[c].refs, conn[c].now - Lag)

FrameDated ==
    \A c \in Clients : frame[c].built =>
        frame[c].at <= clock /\ Current(frame[c].shown, frame[c].at - Lag)

MapInv == TypeOK /\ CacheDated /\ QueryDated /\ FrameDated /\ PinIsFresh

-----------------------------------------------------------------------------
(* Current, whatever the trips do.                                           *)

(* What describes the route as of x also describes it as of any time before. *)
LEMMA CurrentEarlier ==
    ASSUME TypeOK, NEW T, NEW x \in Int, NEW y \in Int, y <= x, Current(T, x)
    PROVE  Current(T, y)
  BY DEF Current, TypeOK, Running

(* Nothing that happens to the fleet makes a roster wrong about the past.    *)
LEMMA FleetKeeps ==
    ASSUME TypeOK, [Next]_vars
    PROVE  \A T : \A x \in Int : x <= clock /\ Current(T, x) => Current(T, x)'
  <1> SUFFICES ASSUME NEW T, NEW x \in Int, x <= clock, Current(T, x)
               PROVE  Current(T, x)'
    OBVIOUS
  <1>1. ASSUME NEW t \in Trips, StartTrip(t) PROVE Current(T, x)'
    BY <1>1 DEF StartTrip, Current, Running, TypeOK
  <1>2. ASSUME NEW t \in Trips, EndTrip(t) PROVE Current(T, x)'
    BY <1>2 DEF EndTrip, Current, Running, TypeOK
  <1>3. CASE UNCHANGED <<begun, from, over, to>>
    BY <1>3 DEF Current, Running
  <1>4. QED
    BY <1>1, <1>2, <1>3 DEF Next, vars, fleet, FleetStep, HandshakeStep, StreamStep, Tick, Fix, Knock, CheckRoute,
       PoolTimeout, Accept, RouteNotFound, Hangup, Loop, Hit, Miss, Store, QueryFails, Read, ReadFails,
       Send, NextFrame, Leave, Restart

-----------------------------------------------------------------------------
(* Types and the pool.                                                       *)

(* At first nobody watches.                                                  *)
LEMMA InitTyped == Init => TypeOK
  <1> SUFFICES ASSUME Init PROVE TypeOK
    OBVIOUS
  <1>1. Away \in Handler /\ NoFrame \in Frame /\ Lost \in Int
    BY DEF Away, Handler, NoFrame, Frame, Lost
  <1>2. held = Streams \cup {c \in Clients : conn[c].pc = "check"}
    BY DEF Init, Streams, Away
  <1>3. Cardinality(held) <= Pool
    BY FS_EmptySet, NumberAssumption DEF Init
  <1>4. QED
    BY <1>1, <1>2, <1>3 DEF Init, TypeOK, NoRoster

(* A pool that gives connections back is not overdrawn.                      *)
LEMMA PoolShrinks ==
    ASSUME TypeOK, held' \subseteq held
    PROVE  Cardinality(held') <= Pool
  <1>1. held \subseteq Clients
    BY DEF TypeOK, Streams
  <1>2. IsFiniteSet(held)
    BY <1>1, ClientsAssumption, FS_Subset
  <1>3. Cardinality(held') <= Cardinality(held) /\ Cardinality(held) \in Nat /\ Cardinality(held') \in Nat
    BY <1>2, FS_Subset, FS_CardinalityType
  <1>4. QED
    BY <1>3, NumberAssumption DEF TypeOK

(* What a handler's step does to its own entry is all there is to know of    *)
(* which sessions hold a connection.                                         *)
LEMMA HeldFollows ==
    ASSUME TypeOK, NEW c \in Clients,
           \A d \in Clients \ {c} : conn'[d] = conn[d],
           held' = IF conn'[c].pc \in {"roster", "query", "read", "wait", "check"}
                   THEN held \cup {c} ELSE held \ {c}
    PROVE  held' = Streams' \cup {d \in Clients : conn'[d].pc = "check"}
  BY DEF TypeOK, Streams

(* The fleet takes no connection.                                            *)
LEMMA FleetTyped ==
    ASSUME TypeOK, FleetStep
    PROVE  TypeOK'
  <1>1. UNCHANGED <<held, conn>>
    BY DEF FleetStep, StartTrip, EndTrip, Fix, Tick
  <1>2. (held = Streams \cup {c \in Clients : conn[c].pc = "check"} /\ Cardinality(held) <= Pool)'
    BY <1>1 DEF TypeOK, Streams
  <1>3. CASE Tick
    BY <1>2, <1>3 DEF Tick, TypeOK
  <1>4. ASSUME NEW t \in Trips, StartTrip(t) PROVE TypeOK'
    BY <1>2, <1>4 DEF StartTrip, TypeOK
  <1>5. ASSUME NEW t \in Trips, EndTrip(t) PROVE TypeOK'
    BY <1>2, <1>5 DEF EndTrip, TypeOK, Running
  <1>6. ASSUME NEW t \in Trips, Fix(t) PROVE TypeOK'
    BY <1>2, <1>6, BusAssumption DEF Fix, TypeOK, Running
  <1>7. QED
    BY <1>3, <1>4, <1>5, <1>6 DEF FleetStep

(* A stream that begins a round keeps its connection.                        *)
LEMMA LoopTyped ==
    ASSUME TypeOK, NEW c \in Clients, c \in held, Loop(c)
    PROVE  TypeOK'
  <1>1. conn' \in [Clients -> Handler] /\ conn'[c].pc = "roster"
    BY DEF Loop, TypeOK, Away, Handler
  <1>2. frame' \in [Clients -> Frame]
    BY DEF Loop, TypeOK, NoFrame, Frame, Lost
  <1>3. held' = Streams' \cup {d \in Clients : conn'[d].pc = "check"}
    BY <1>1, HeldFollows DEF Loop, TypeOK
  <1>4. QED
    BY <1>1, <1>2, <1>3 DEF Loop, fleet, TypeOK

(* One that ends gives it back.                                              *)
LEMMA HangupTyped ==
    ASSUME TypeOK, NEW c \in Clients, Hangup(c)
    PROVE  TypeOK'
  <1>1. conn' \in [Clients -> Handler] /\ conn'[c].pc = "away"
    BY DEF Hangup, TypeOK, Away, Handler
  <1>2. frame' \in [Clients -> Frame]
    BY DEF Hangup, TypeOK, NoFrame, Frame, Lost
  <1>3. held' = Streams' \cup {d \in Clients : conn'[d].pc = "check"}
    BY <1>1, HeldFollows DEF Hangup, TypeOK
  <1>4. Cardinality(held') <= Pool
    BY PoolShrinks DEF Hangup
  <1>5. QED
    BY <1>1, <1>2, <1>3, <1>4 DEF Hangup, fleet, TypeOK

(* A handshake takes a connection only where one is left.                    *)
LEMMA HandshakeTyped ==
    ASSUME TypeOK, NEW c \in Clients, HandshakeStep(c)
    PROVE  TypeOK'
  <1>1. CASE Knock(c) \/ PoolTimeout(c)
    <2>1. /\ conn' \in [Clients -> Handler]
          /\ conn'[c].pc \in {"knock", "shut"} /\ c \notin held
          /\ \A d \in Clients \ {c} : conn'[d] = conn[d]
      <3>1. PICK pc \in {"knock", "shut"} : conn' = [conn EXCEPT ![c].pc = pc]
        BY <1>1 DEF Knock, PoolTimeout
      <3>2. conn[c] \in Handler /\ conn \in [Clients -> Handler]
        BY DEF TypeOK
      <3>3. [conn[c] EXCEPT !.pc = pc] \in Handler
        BY <3>2 DEF Handler
      <3>4. c \notin held
        BY <1>1 DEF Knock, PoolTimeout, TypeOK, Streams
      <3> QED
        BY <3>1, <3>2, <3>3, <3>4
    <2>2. held' = Streams' \cup {d \in Clients : conn'[d].pc = "check"}
      <3>1. held' = held \ {c}
        BY <1>1, <2>1 DEF Knock, PoolTimeout
      <3> QED
        BY <2>1, <3>1, HeldFollows
    <2>3. QED
      BY <1>1, <2>1, <2>2 DEF Knock, PoolTimeout, fleet, TypeOK
  <1>2. CASE CheckRoute(c)
    <2>1. conn' \in [Clients -> Handler] /\ conn'[c].pc = "check"
      BY <1>2 DEF CheckRoute, TypeOK, Handler
    <2>2. held' = Streams' \cup {d \in Clients : conn'[d].pc = "check"}
      BY <1>2, <2>1, HeldFollows DEF CheckRoute, TypeOK
    <2>3. IsFiniteSet(held)
      BY ClientsAssumption, FS_Subset DEF TypeOK, Streams
    <2>4. /\ Cardinality(held \cup {c}) = Cardinality(held) \/ Cardinality(held \cup {c}) = Cardinality(held) + 1
          /\ Cardinality(held) \in Nat
      BY <2>3, FS_AddElement, FS_CardinalityType
    <2>5. Cardinality(held') <= Pool
      BY <1>2, <2>4, NumberAssumption DEF CheckRoute
    <2>6. QED
      BY <1>2, <2>1, <2>2, <2>5 DEF CheckRoute, fleet, TypeOK
  <1>3. CASE Accept(c)
    BY <1>3, LoopTyped DEF Accept, TypeOK
  <1>4. CASE RouteNotFound(c)
    BY <1>4, HangupTyped DEF RouteNotFound
  <1>5. QED
    BY <1>1, <1>2, <1>3, <1>4 DEF HandshakeStep

(* A stream keeps the one it has.                                            *)
LEMMA StreamTyped ==
    ASSUME TypeOK, NEW c \in Clients, StreamStep(c)
    PROVE  TypeOK'
  <1>1. CASE Hit(c) \/ Miss(c) \/ Store(c)
    <2>1. conn' \in [Clients -> Handler] /\ conn'[c].pc \in {"query", "read"} /\ c \in held
      <3>1. c \in held
        BY <1>1 DEF Hit, Miss, Store, TypeOK, Streams
      <3>2. CASE Hit(c)
        <4>1. conn[c] \in Handler /\ roster.refs \subseteq Trips
          BY DEF TypeOK
        <4>2. [conn[c] EXCEPT !.pc = "read", !.refs = roster.refs] \in Handler
          BY <4>1 DEF Handler
        <4> QED
          BY <3>1, <3>2, <4>2 DEF Hit, TypeOK
      <3>3. CASE Miss(c)
        <4>1. conn[c] \in Handler /\ clock \in Nat /\ Running \subseteq Trips
          BY DEF TypeOK, Running
        <4>2. [conn[c] EXCEPT !.pc = "query", !.asked = clock, !.refs = Running] \in Handler
          BY <4>1 DEF Handler
        <4> QED
          BY <3>1, <3>3, <4>2 DEF Miss, TypeOK
      <3>4. CASE Store(c)
        <4>1. conn[c] \in Handler
          BY DEF TypeOK
        <4>2. [conn[c] EXCEPT !.pc = "read", !.asked = 0] \in Handler
          BY <4>1 DEF Handler
        <4> QED
          BY <3>1, <3>4, <4>2 DEF Store, TypeOK
      <3> QED
        BY <1>1, <3>2, <3>3, <3>4
    <2>2. held' = Streams' \cup {d \in Clients : conn'[d].pc = "check"}
      BY <1>1, <2>1, HeldFollows DEF Hit, Miss, Store, TypeOK
    <2>3. roster' \in [stored : BOOLEAN, at : Nat, refs : SUBSET Trips]
      <3>1. CASE Store(c)
        BY <3>1 DEF Store, TypeOK, Handler
      <3>2. QED
        BY <1>1, <3>1 DEF Hit, Miss, fleet, TypeOK
    <2>4. QED
      BY <1>1, <2>1, <2>2, <2>3 DEF Hit, Miss, Store, fleet, TypeOK
  <1>2. ASSUME NEW pin \in [Trips -> Nat \cup {Lost}], Send(c, pin) PROVE TypeOK'
    <2>1. conn' \in [Clients -> Handler] /\ conn'[c].pc = "wait" /\ c \in held
      BY <1>2 DEF Send, TypeOK, Handler, Away, Streams
    <2>2. held' = Streams' \cup {d \in Clients : conn'[d].pc = "check"}
      BY <1>2, <2>1, HeldFollows DEF Send, TypeOK
    <2>3. Assemble(c, pin) \in Frame
      BY <1>2 DEF Assemble, Classify, Frame, TypeOK, Handler
    <2>4. frame' \in [Clients -> Frame]
      BY <1>2, <2>3 DEF Send, TypeOK
    <2>5. QED
      BY <1>2, <2>1, <2>2, <2>4 DEF Send, fleet, TypeOK
  <1>3. CASE Read(c)
    BY <1>2, <1>3, BusAssumption DEF Read, Position, TypeOK
  <1>4. CASE ReadFails(c)
    BY <1>2, <1>4 DEF ReadFails
  <1>5. CASE NextFrame(c)
    BY <1>5, LoopTyped DEF NextFrame, TypeOK, Streams
  <1>6. CASE QueryFails(c) \/ Leave(c)
    BY <1>6, HangupTyped DEF QueryFails, Leave
  <1>7. QED
    BY <1>1, <1>3, <1>4, <1>5, <1>6 DEF StreamStep

(* So do all steps keep the types.                                           *)
LEMMA StaysTyped ==
    ASSUME TypeOK, [Next]_vars
    PROVE  TypeOK'
  <1>1. CASE UNCHANGED vars
    BY <1>1 DEF vars, TypeOK, Streams
  <1>2. CASE Restart
    <2>1. Away \in Handler /\ NoFrame \in Frame
      BY DEF Away, Handler, NoFrame, Frame, Lost
    <2>2. held' = Streams' \cup {d \in Clients : conn'[d].pc = "check"}
      BY <1>2 DEF Restart, Streams, Away
    <2>3. Cardinality(held') <= Pool
      BY <1>2, PoolShrinks DEF Restart
    <2>4. QED
      BY <1>2, <2>1, <2>2, <2>3 DEF Restart, NoRoster, fleet, TypeOK
  <1>3. QED
    BY <1>1, <1>2, FleetTyped, HandshakeTyped, StreamTyped DEF Next

-----------------------------------------------------------------------------
(* How old what the streams hold may be.                                     *)

(* At first there is no roster and no frame.                                 *)
LEMMA InitDated == Init => MapInv
  <1> SUFFICES ASSUME Init PROVE MapInv
    OBVIOUS
  <1>1. CacheDated
    BY DEF Init, CacheDated, NoRoster
  <1>2. QueryDated
    BY DEF Init, QueryDated, Away
  <1>3. FrameDated /\ PinIsFresh
    BY DEF Init, FrameDated, PinIsFresh, NoFrame
  <1>4. QED
    BY <1>1, <1>2, <1>3, InitTyped DEF MapInv

(* A step that leaves the cache, the handlers and the frames alone.          *)
LEMMA FleetDated ==
    ASSUME MapInv, FleetStep
    PROVE  CacheDated' /\ QueryDated' /\ FrameDated' /\ PinIsFresh'
  <1> USE NumberAssumption
  <1>1. UNCHANGED <<roster, conn, frame>> /\ clock <= clock' /\ clock' \in Nat
    BY DEF FleetStep, StartTrip, EndTrip, Fix, Tick, MapInv, TypeOK
  <1>2. \A T : \A x \in Int : x <= clock /\ Current(T, x) => Current(T, x)'
    BY FleetKeeps DEF Next, MapInv
  <1>3. CacheDated'
    BY <1>1, <1>2 DEF CacheDated, MapInv, TypeOK
  <1>4. \A c \in Clients : conn[c].pc = "query" => clock' <= conn[c].asked + QueryTime
    BY <1>1 DEF FleetStep, StartTrip, EndTrip, Fix, Tick, MapInv, TypeOK, Handler, QueryDated
  <1>5. QueryDated'
    BY <1>1, <1>2, <1>4 DEF QueryDated, MapInv, TypeOK, Handler, Lag
  <1>6. FrameDated'
    BY <1>1, <1>2 DEF FrameDated, MapInv, TypeOK, Frame, Lag
  <1>7. PinIsFresh'
    BY <1>1 DEF PinIsFresh, MapInv
  <1>8. QED
    BY <1>3, <1>5, <1>6, <1>7

(* A step of one handler, which passes no time: its own entry and frame are  *)
(* all there is to look at.                                                  *)
QueryDatedOf(c) ==
    /\ conn[c].now <= clock
    /\ conn[c].pc = "query" =>
         /\ conn[c].now <= conn[c].asked
         /\ conn[c].asked <= clock
         /\ clock <= conn[c].asked + QueryTime
         /\ Current(conn[c].refs, conn[c].asked)
    /\ conn[c].pc = "read" => Current(conn[c].refs, conn[c].now - Lag)

FrameDatedOf(c) ==
    frame[c].built => frame[c].at <= clock /\ Current(frame[c].shown, frame[c].at - Lag)

PinIsFreshOf(c) ==
    \A t \in Trips :
        /\ frame[c].pin[t] # Lost => frame[c].at - frame[c].pin[t] < PosTtl
        /\ frame[c].freshness[t] = "live" <=> frame[c].pin[t] # Lost

LEMMA OneHandler ==
    ASSUME MapInv, UNCHANGED <<clock, fleet>>, NEW c \in Clients,
           conn' = [conn EXCEPT ![c] = conn'[c]], frame' = [frame EXCEPT ![c] = frame'[c]],
           QueryDatedOf(c)', FrameDatedOf(c)', PinIsFreshOf(c)'
    PROVE  QueryDated' /\ FrameDated' /\ PinIsFresh'
  <1>1. \A T, x : Current(T, x)' <=> Current(T, x)
    BY DEF fleet, Current, Running
  <1>2. \A d \in Clients \ {c} : conn'[d] = conn[d] /\ frame'[d] = frame[d]
    BY DEF MapInv, TypeOK
  <1>3. ASSUME NEW d \in Clients PROVE QueryDatedOf(d)' /\ FrameDatedOf(d)' /\ PinIsFreshOf(d)'
    <2>1. CASE d = c
      BY <2>1
    <2>2. CASE d # c
      <3>1. QueryDatedOf(d)'
        BY <1>1, <1>2, <2>2 DEF QueryDatedOf, QueryDated, MapInv
      <3>2. FrameDatedOf(d)' /\ PinIsFreshOf(d)'
        BY <1>1, <1>2, <2>2 DEF FrameDatedOf, PinIsFreshOf, FrameDated, PinIsFresh, MapInv
      <3>3. QED
        BY <3>1, <3>2
    <2>3. QED
      BY <2>1, <2>2
  <1>4. QED
    BY <1>3 DEF QueryDatedOf, FrameDatedOf, PinIsFreshOf, QueryDated, FrameDated, PinIsFresh

(* Steps that leave a handler with neither roster nor frame: nothing to date.*)
LEMMA BlankDated ==
    ASSUME MapInv, NEW c \in Clients, Loop(c) \/ Hangup(c)
    PROVE  CacheDated' /\ QueryDated' /\ FrameDated' /\ PinIsFresh'
  <1>1. UNCHANGED <<clock, fleet, roster>> /\ frame' = [frame EXCEPT ![c] = NoFrame] /\ frame'[c] = NoFrame
    BY DEF Loop, Hangup, MapInv, TypeOK
  <1>2. conn' = [conn EXCEPT ![c] = conn'[c]] /\ conn'[c].now <= clock' /\ conn'[c].pc \in {"roster", "away"}
    <2>1. clock \in Nat /\ conn \in [Clients -> Handler]
      BY DEF MapInv, TypeOK
    <2>2. CASE Loop(c)
      BY <2>1, <2>2 DEF Loop, Away
    <2>3. CASE Hangup(c)
      BY <1>1, <2>1, <2>3 DEF Hangup, Away
    <2>4. QED
      BY <2>2, <2>3
  <1>3. QueryDatedOf(c)'
    BY <1>2 DEF QueryDatedOf
  <1>4. FrameDatedOf(c)' /\ PinIsFreshOf(c)'
    BY <1>1 DEF FrameDatedOf, PinIsFreshOf, NoFrame
  <1>5. CacheDated'
    BY <1>1 DEF CacheDated, Current, Running, fleet, MapInv
  <1>6. QED
    BY <1>1, <1>2, <1>3, <1>4, <1>5, OneHandler

(* A handshake dates nothing.                                                *)
LEMMA HandshakeDated ==
    ASSUME MapInv, NEW c \in Clients, HandshakeStep(c)
    PROVE  CacheDated' /\ QueryDated' /\ FrameDated' /\ PinIsFresh'
  <1>1. CASE Knock(c) \/ CheckRoute(c) \/ PoolTimeout(c)
    <2>1. /\ UNCHANGED <<clock, fleet, roster, frame>>
          /\ conn' = [conn EXCEPT ![c] = conn'[c]]
          /\ conn'[c].pc \in {"knock", "check", "shut"} /\ conn'[c].now = conn[c].now
      BY <1>1 DEF Knock, CheckRoute, PoolTimeout, MapInv, TypeOK, Handler
    <2>2. CacheDated'
      BY <2>1 DEF CacheDated, Current, Running, fleet, MapInv
    <2>3. QueryDatedOf(c)'
      BY <2>1 DEF QueryDatedOf, QueryDated, MapInv
    <2>4. FrameDatedOf(c)' /\ PinIsFreshOf(c)'
      BY <2>1 DEF FrameDatedOf, PinIsFreshOf, FrameDated, PinIsFresh, Current, Running, fleet, MapInv
    <2>5. frame' = [frame EXCEPT ![c] = frame'[c]]
      BY <2>1 DEF MapInv, TypeOK
    <2>6. QED
      BY <2>1, <2>2, <2>3, <2>4, <2>5, OneHandler
  <1>2. CASE Accept(c) \/ RouteNotFound(c)
    BY <1>2, BlankDated DEF Accept, RouteNotFound
  <1>3. QED
    BY <1>1, <1>2 DEF HandshakeStep

(* A roster in hand, from the cache or from a query, is at most Lag behind   *)
(* the round of the loop that will show it.                                  *)
LEMMA RosterDated ==
    ASSUME MapInv, NEW c \in Clients, Hit(c) \/ Miss(c) \/ Store(c)
    PROVE  CacheDated' /\ QueryDated' /\ FrameDated' /\ PinIsFresh'
  <1> USE NumberAssumption
  <1>1. /\ UNCHANGED <<clock, fleet, frame>>
        /\ conn' = [conn EXCEPT ![c] = conn'[c]]
        /\ conn'[c].now = conn[c].now
    BY DEF Hit, Miss, Store, MapInv, TypeOK, Handler, fleet
  <1>2. \A T, x : Current(T, x)' <=> Current(T, x)
    BY <1>1 DEF fleet, Current, Running
  <1>3. /\ clock \in Nat /\ conn[c] \in Handler /\ conn[c].now <= clock
        /\ conn[c].now \in Nat /\ conn[c].asked \in Nat /\ roster.at \in Nat
        /\ Lag \in Nat /\ QueryTime \in Nat /\ RosterTtl \in Nat
    BY DEF MapInv, TypeOK, Handler, QueryDated, Lag
  <1>4. ASSUME Hit(c) PROVE QueryDatedOf(c)' /\ CacheDated'
    <2>1. conn'[c].pc = "read" /\ conn'[c].refs = roster.refs /\ roster' = roster
      BY <1>4 DEF Hit, MapInv, TypeOK, Handler
    <2>2. Current(roster.refs, roster.at - QueryTime) /\ conn[c].now - Lag <= roster.at - QueryTime
      BY <1>3, <1>4 DEF Hit, Cached, CacheDated, MapInv, Lag
    <2>3. Current(roster.refs, conn[c].now - Lag)
      BY <1>3, <2>2, CurrentEarlier DEF MapInv
    <2>4. QueryDatedOf(c)'
      BY <1>1, <1>2, <1>3, <2>1, <2>3 DEF QueryDatedOf
    <2>5. CacheDated'
      BY <1>1, <1>2, <2>1 DEF CacheDated, MapInv
    <2>6. QED
      BY <2>4, <2>5
  <1>5. ASSUME Miss(c) PROVE QueryDatedOf(c)' /\ CacheDated'
    <2>1. conn'[c].pc = "query" /\ conn'[c].refs = Running /\ conn'[c].asked = clock /\ roster' = roster
      BY <1>5 DEF Miss, MapInv, TypeOK, Handler
    <2>2. Current(Running, clock)
      BY DEF Current, Running, MapInv, TypeOK
    <2>3. QueryDatedOf(c)'
      BY <1>1, <1>2, <1>3, <2>1, <2>2 DEF QueryDatedOf
    <2>4. CacheDated'
      BY <1>1, <1>2, <2>1 DEF CacheDated, MapInv
    <2>5. QED
      BY <2>3, <2>4
  <1>6. ASSUME Store(c) PROVE QueryDatedOf(c)' /\ CacheDated'
    <2>1. /\ conn'[c].pc = "read" /\ conn'[c].refs = conn[c].refs
          /\ roster'.at = clock /\ roster'.refs = conn[c].refs
      BY <1>6 DEF Store, MapInv, TypeOK, Handler
    <2>2. /\ Current(conn[c].refs, conn[c].asked)
          /\ clock - QueryTime <= conn[c].asked /\ conn[c].now - Lag <= conn[c].asked
      BY <1>3, <1>6 DEF Store, QueryDated, MapInv, Lag
    <2>3. Current(conn[c].refs, clock - QueryTime) /\ Current(conn[c].refs, conn[c].now - Lag)
      BY <1>3, <2>2, CurrentEarlier DEF MapInv
    <2>4. QueryDatedOf(c)'
      BY <1>1, <1>2, <1>3, <2>1, <2>3 DEF QueryDatedOf
    <2>5. CacheDated'
      BY <1>1, <1>2, <1>3, <2>1, <2>3 DEF CacheDated
    <2>6. QED
      BY <2>4, <2>5
  <1>7. FrameDatedOf(c)' /\ PinIsFreshOf(c)'
    BY <1>1, <1>2 DEF FrameDatedOf, PinIsFreshOf, FrameDated, PinIsFresh, MapInv
  <1>8. frame' = [frame EXCEPT ![c] = frame'[c]]
    BY <1>1 DEF MapInv, TypeOK
  <1>9. QueryDatedOf(c)' /\ CacheDated'
    BY <1>4, <1>5, <1>6
  <1>10. QED
    BY <1>1, <1>7, <1>8, <1>9, OneHandler

(* A frame shows no pin that is older than the expiry at its generated_at.   *)
LEMMA SendDated ==
    ASSUME MapInv, NEW c \in Clients, NEW pin \in [Trips -> Nat \cup {Lost}], Send(c, pin),
           \A t \in Trips : pin[t] # Lost => clock - pin[t] < PosTtl
    PROVE  CacheDated' /\ QueryDated' /\ FrameDated' /\ PinIsFresh'
  <1> USE NumberAssumption
  <1>1. /\ UNCHANGED <<clock, fleet, roster>>
        /\ conn' = [conn EXCEPT ![c] = conn'[c]] /\ conn'[c].pc = "wait" /\ conn'[c].now = 0
        /\ frame' = [frame EXCEPT ![c] = frame'[c]] /\ frame'[c] = Assemble(c, pin)
    BY DEF Send, MapInv, TypeOK, Away
  <1>2. clock \in Nat /\ conn[c].now \in Nat /\ conn[c].now <= clock
    BY DEF MapInv, TypeOK, Handler, QueryDated
  <1>3. CacheDated'
    BY <1>1 DEF CacheDated, Current, Running, fleet, MapInv
  <1>4. QueryDatedOf(c)'
    BY <1>1, <1>2 DEF QueryDatedOf
  <1>5. FrameDatedOf(c)'
    <2>1. Current(conn[c].refs, conn[c].now - Lag)
      BY DEF Send, QueryDated, MapInv
    <2>2. QED
      BY <1>1, <1>2, <2>1 DEF FrameDatedOf, Assemble, Current, Running, fleet
  <1>6. PinIsFreshOf(c)'
    <2>1. ASSUME NEW t \in Trips
          PROVE  /\ pin[t] # Lost => conn[c].now - pin[t] < PosTtl
                 /\ Classify(pin[t], conn[c].now) = "live" <=> pin[t] # Lost
      BY <1>2 DEF Classify, Age, Lost
    <2>2. QED
      BY <1>1, <2>1 DEF PinIsFreshOf, Assemble
  <1>7. QED
    BY <1>1, <1>3, <1>4, <1>5, <1>6, OneHandler

(* A stream's steps, one by one.                                             *)
LEMMA StreamDated ==
    ASSUME MapInv, NEW c \in Clients, StreamStep(c)
    PROVE  CacheDated' /\ QueryDated' /\ FrameDated' /\ PinIsFresh'
  <1>1. CASE Hit(c) \/ Miss(c) \/ Store(c)
    BY <1>1, RosterDated
  <1>2. CASE Read(c)
    <2> DEFINE pin == [t \in Trips |-> IF t \in conn[c].refs THEN Position(BusOf[t]) ELSE Lost]
    <2>1. pin \in [Trips -> Nat \cup {Lost}] /\ \A t \in Trips : pin[t] # Lost => clock - pin[t] < PosTtl
      BY BusAssumption DEF Position, MapInv, TypeOK
    <2>2. Send(c, pin)
      BY <1>2 DEF Read
    <2>3. QED
      BY <2>1, <2>2, SendDated
  <1>3. CASE ReadFails(c)
    <2>1. [t \in Trips |-> Lost] \in [Trips -> Nat \cup {Lost}]
      OBVIOUS
    <2>2. QED
      BY <1>3, <2>1, SendDated DEF ReadFails
  <1>4. CASE QueryFails(c) \/ NextFrame(c) \/ Leave(c)
    BY <1>4, BlankDated DEF QueryFails, NextFrame, Leave
  <1>5. QED
    BY <1>1, <1>2, <1>3, <1>4 DEF StreamStep

(* So every step keeps what is dated dated.                                  *)
LEMMA StaysDated ==
    ASSUME MapInv, [Next]_vars
    PROVE  MapInv'
  <1>1. TypeOK'
    BY StaysTyped DEF MapInv
  <1>2. CASE UNCHANGED vars
    BY <1>1, <1>2 DEF vars, MapInv, CacheDated, QueryDated, FrameDated, PinIsFresh, Current, Running
  <1>3. CASE Restart
    <2>1. CacheDated' /\ FrameDated' /\ PinIsFresh'
      BY <1>3 DEF Restart, CacheDated, FrameDated, PinIsFresh, NoRoster, NoFrame
    <2>2. QueryDated'
      BY <1>3 DEF Restart, QueryDated, Away, MapInv, TypeOK
    <2>3. QED
      BY <1>1, <2>1, <2>2 DEF MapInv
  <1>4. QED
    BY <1>1, <1>2, <1>3, FleetDated, HandshakeDated, StreamDated DEF Next, MapInv

-----------------------------------------------------------------------------
(* MapInv holds always: rosters and queries are dated, and frames with them. *)
THEOREM MapInductive == Spec => []MapInv
  <1>1. Init => MapInv
    BY InitDated
  <1>2. MapInv /\ [Next]_vars => MapInv'
    BY StaysDated
  <1>3. QED
    BY <1>1, <1>2, PTL DEF Spec

(* The types, and that no more sessions hold a connection than the pool has, *)
(* each of them one that checks the route or streams it.                     *)
THEOREM MapTyped == Spec => []TypeOK
  <1>1. MapInv => TypeOK
    BY DEF MapInv
  <1>2. QED
    BY <1>1, MapInductive, PTL

(* However many streams share the cache, and however their queries overlap,  *)
(* a frame is behind by at most the roster's time to live and one query.     *)
THEOREM RosterIsBounded == Spec => []RosterBounded
  <1>1. MapInv => RosterBounded
    BY DEF MapInv, FrameDated, RosterBounded, Lag
  <1>2. QED
    BY <1>1, MapInductive, PTL

(* No pin on a map is older than the expiry, and none is missing yet live.   *)
THEOREM PinsAreFresh == Spec => []PinIsFresh
  <1>1. MapInv => PinIsFresh
    BY DEF MapInv
  <1>2. QED
    BY <1>1, MapInductive, PTL

-----------------------------------------------------------------------------
(* MCConsole.  A behaviour of the five is, for each, one of its own.         *)
LEMMA DesksApart == ConsoleSpec => Spec /\ I!Spec /\ S!Spec /\ R!Spec /\ C!Spec
  <1>1. ConsoleInit => Init /\ I!Init /\ S!Init /\ R!Init /\ C!Init
    BY DEF ConsoleInit
  <1>6. [ConsoleNext]_consoleVars => [Next]_vars
    BY DEF ConsoleNext, consoleVars, vars
  <1>2. [ConsoleNext]_consoleVars => [I!Next]_I!vars
    BY DEF ConsoleNext, consoleVars, desks, incidents, I!vars, I!incident, I!counting
  <1>3. [ConsoleNext]_consoleVars => [S!Next]_S!vars
    BY DEF ConsoleNext, consoleVars, desks, lists, S!vars
  <1>4. [ConsoleNext]_consoleVars => [R!Next]_R!vars
    BY DEF ConsoleNext, consoleVars, desks, registers, R!vars
  <1>5. [ConsoleNext]_consoleVars => [C!Next]_C!vars
    BY DEF ConsoleNext, consoleVars, desks, credentials, C!vars, C!mailing, C!using
  <1> QED
    BY <1>1, <1>2, <1>3, <1>4, <1>5, <1>6, PTL DEF ConsoleSpec, Spec, I!Spec, S!Spec, R!Spec, C!Spec

(* The map and every desk keep their types.                                  *)
THEOREM ConsoleTyped == ConsoleSpec => []ConsoleTypeOK
  <1>1. MapInv /\ IncidentInv /\ StopInv /\ R!TypeOK /\ CredentialInv => ConsoleTypeOK
    BY CredentialFacts DEF MapInv, IncidentInv, StopInv, ConsoleTypeOK
  <1> QED
    BY <1>1, DesksApart, MapInductive, IncidentsHold, ListsHold, RegisterTyped, CredentialsHold, PTL

(* An acknowledgement is not lost and an alert is closed once, unless a      *)
(* request raced for it.                                                     *)
THEOREM IncidentsKept == ConsoleSpec => []IncidentKept
  <1>1. IncidentInv => IncidentKept
    BY DEF IncidentInv
  <1> QED
    BY <1>1, DesksApart, IncidentsHold, PTL

(* The seats shown are the last reported once what is on its way is in.      *)
THEOREM SeatsFollow == ConsoleSpec => []SeatsFollowReports
  <1>1. IncidentInv => SeatsFollowReports
    BY DEF IncidentInv
  <1> QED
    BY <1>1, DesksApart, IncidentsHold, PTL

(* A route has one list, of stops that are there, each once, numbered apart. *)
THEOREM RoutesWhole == ConsoleSpec => []RouteWhole
  <1>1. StopInv => RouteWhole
    BY DEF StopInv
  <1> QED
    BY <1>1, DesksApart, ListsHold, PTL

(* Edits change what they were asked to, and batches come whole.             *)
THEOREM RegistersAsEdited == ConsoleSpec => RegisterIsAsEdited
  BY DesksApart, RegistersHold, PTL DEF RegisterIsAsEdited

(* A link sets one password, but for overlaps and faults.                    *)
THEOREM LinksSingleUse == ConsoleSpec => []LinksAreSingleUse
  BY CredentialFacts, DesksApart, CredentialsHold, PTL

(* Mails keep their distance, but for the one that registration sends.       *)
THEOREM MailsSpacedOut == ConsoleSpec => []MailsAreSpaced
  BY CredentialFacts, DesksApart, CredentialsHold, PTL
=============================================================================
