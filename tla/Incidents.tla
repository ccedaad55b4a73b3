----------------------------- MODULE Incidents ------------------------------
(***************************************************************************)
(* What a helper reports by hand: how full the bus is, and that something    *)
(* went wrong; and the emergency console, where admins claim and close what  *)
(* was raised.                                                               *)
(*                                                                           *)
(* A report is committed first and pushed to Redis afterwards, in a call of  *)
(* its own.  A console request reads the alert's row, awaits, and commits    *)
(* the columns that differ from what it read.                                *)
(***************************************************************************)
EXTENDS FiniteSets, Naturals

CONSTANTS Alerts,      \* incidents that may come to be raised
          Admins,      \* console requests in flight, each of another admin
          Phones,      \* requests of the phones of one bus, in flight
          MaxReports   \* bound on the seat reports of one behaviour

VARIABLES
    alert,       \* alerts table: status, acknowledged_by (by), and whose
                 \* resolved_at and resolved_note it has (closer)
    announced,   \* alerts published on alerts:critical
    desk,        \* the console's requests: what each read
    told,        \* admins answered that they hold the alert (history)
    raced,       \* alerts written under another request's read (history)
    onTrip,      \* the helper has a live trip
    latest,      \* seat_reports: the number of the last one committed
    seats,       \* bus:{id}:seats: the report it shows, or None
    phone,       \* the phones' requests
    doubt        \* two reports were published at once, or one was not (history)

incident == <<alert, announced, desk, told, raced>>
counting == <<onTrip, latest, seats, doubt>>
vars == <<incident, counting, phone>>

Nobody == "nobody"
None   == 0
Fresh  == [status |-> "open", by |-> Nobody, closer |-> Nobody]
Unraised == [Fresh EXCEPT !.status = "unraised"]
NoRequest == [pc |-> "idle", kind |-> "none", on |-> Nobody, read |-> Unraised]
NoReport  == [pc |-> "idle", on |-> Nobody, number |-> None]

Init ==
    /\ alert = [a \in Alerts |-> Unraised]
    /\ announced = {} /\ raced = {}
    /\ desk = [d \in Admins |-> NoRequest]
    /\ told = [a \in Alerts |-> {}]
    /\ onTrip = FALSE
    /\ latest = None /\ seats = None /\ doubt = FALSE
    /\ phone = [p \in Phones |-> NoReport]

-----------------------------------------------------------------------------
(* The phones.  An alert is taken with or without a trip, a seat count only  *)
(* on one.  The row is flushed, then committed, then published.              *)

Trip ==
    /\ onTrip' = ~onTrip
    /\ UNCHANGED <<incident, latest, seats, phone, doubt>>

Raise(p, a) ==
    /\ phone[p].pc = "idle" /\ alert[a] = Unraised
    /\ \A q \in Phones : phone[q].on # a
    /\ phone' = [phone EXCEPT ![p] = [NoReport EXCEPT !.pc = "flushed", !.on = a]]
    /\ UNCHANGED <<incident, counting>>

CommitAlert(p) ==
    LET a == phone[p].on IN
    /\ phone[p].pc = "flushed" /\ a # Nobody
    /\ alert' = [alert EXCEPT ![a] = Fresh]
    /\ phone' = [phone EXCEPT ![p].pc = "committed"]
    /\ UNCHANGED <<announced, desk, told, raced, counting>>

(* publish_alert: an error of Redis is swallowed.                            *)
PublishAlert(p) ==
    /\ phone[p].pc = "committed" /\ phone[p].on # Nobody
    /\ announced' \in {announced, announced \cup {phone[p].on}}
    /\ phone' = [phone EXCEPT ![p] = NoReport]
    /\ UNCHANGED <<alert, desk, told, raced, counting>>

(* (Variants with a fault, here and below, are never part of Next: they show *)
(* which mistake each property would catch.)                                 *)
ReportSeatsPublishing(p) ==
    /\ phone[p].pc = "idle" /\ onTrip /\ latest < MaxReports
    /\ phone' = [phone EXCEPT ![p] = [NoReport EXCEPT !.pc = "flushed"]]
    /\ seats' = latest + 1
    /\ UNCHANGED <<incident, onTrip, latest, doubt>>

ReportSeats(p) ==
    /\ phone[p].pc = "idle" /\ onTrip
    /\ phone' = [phone EXCEPT ![p] = [NoReport EXCEPT !.pc = "flushed"]]
    /\ UNCHANGED <<incident, counting>>

Publishing == {p \in Phones : phone[p].pc = "committed" /\ phone[p].on = Nobody}

CommitSeats(p) ==
    /\ phone[p].pc = "flushed" /\ phone[p].on = Nobody /\ latest < MaxReports
    /\ latest' = latest + 1
    /\ phone' = [phone EXCEPT ![p].pc = "committed", ![p].number = latest']
    /\ doubt' = (doubt \/ Publishing # {})
    /\ UNCHANGED <<incident, onTrip, seats>>

(* publish_seats: HSET over whatever is there, and EXPIRE.                   *)
PublishSeats(p) ==
    /\ p \in Publishing
    /\ seats' = phone[p].number
    /\ doubt' = (doubt /\ ~(phone[p].number = latest /\ Publishing = {p}))
    /\ phone' = [phone EXCEPT ![p] = NoReport]
    /\ UNCHANGED <<incident, onTrip, latest>>

(* The commit or the HSET fails (a 500, whatever was committed), or the      *)
(* process stops.                                                            *)
PhoneFails(p) ==
    /\ phone[p].pc # "idle"
    /\ doubt' = (doubt \/ p \in Publishing)
    /\ phone' = [phone EXCEPT ![p] = NoReport]
    /\ UNCHANGED <<incident, onTrip, latest, seats>>

SeatsExpire ==
    /\ seats # None
    /\ seats' = None
    /\ UNCHANGED <<incident, onTrip, latest, phone, doubt>>

-----------------------------------------------------------------------------
(* The emergency console.                                                    *)

Begin(d, a, kind) ==
    /\ desk[d].pc = "idle"
    /\ desk' = [desk EXCEPT ![d] = [pc |-> "read", kind |-> kind, on |-> a, read |-> alert[a]]]
    /\ UNCHANGED <<alert, announced, told, raced, counting, phone>>

BeginAcknowledgeUnlessClosed(d, a) ==
    /\ alert[a].status \in {"open", "acknowledged"}
    /\ Begin(d, a, "acknowledge")

BeginAcknowledge(d, a) ==
    /\ alert[a].status = "open"
    /\ Begin(d, a, "acknowledge")

(* Nothing ever writes the status `dismissed`.                               *)
BeginResolve(d, a) ==
    /\ alert[a].status \in {"open", "acknowledged"}
    /\ Begin(d, a, "resolve")

Racing(d) == {e \in Admins \ {d} : desk[e].pc = "read" /\ desk[e].on = desk[d].on}

Leave(d, a) ==
    /\ desk' = [desk EXCEPT ![d] = NoRequest]
    /\ raced' = IF Racing(d) # {} THEN raced \cup {a} ELSE raced
    /\ UNCHANGED <<announced, counting, phone>>

CommitAcknowledge(d) ==
    LET a == desk[d].on IN
    /\ desk[d].pc = "read" /\ desk[d].kind = "acknowledge"
    /\ alert' = [alert EXCEPT ![a].status = "acknowledged", ![a].by = d]
    /\ told' = [told EXCEPT ![a] = @ \cup {d}]
    /\ Leave(d, a)

(* acknowledged_by is set only where the row, as it was read, has none.      *)
CommitResolve(d) ==
    LET a == desk[d].on IN
    /\ desk[d].pc = "read" /\ desk[d].kind = "resolve"
    /\ alert' = [alert EXCEPT ![a].status = "resolved", ![a].closer = d,
                              ![a].by = IF desk[d].read.by = Nobody THEN d ELSE @]
    /\ Leave(d, a)
    /\ UNCHANGED told

DeskFails(d) ==
    /\ desk[d].pc = "read"
    /\ desk' = [desk EXCEPT ![d] = NoRequest]
    /\ UNCHANGED <<alert, announced, told, raced, counting, phone>>

-----------------------------------------------------------------------------
PhoneStep(p) == \/ \E a \in Alerts : Raise(p, a)
                \/ CommitAlert(p) \/ PublishAlert(p)
                \/ ReportSeats(p) \/ CommitSeats(p) \/ PublishSeats(p) \/ PhoneFails(p)

DeskStep(d) == \/ \E a \in Alerts : BeginAcknowledge(d, a) \/ BeginResolve(d, a)
               \/ CommitAcknowledge(d) \/ CommitResolve(d) \/ DeskFails(d)

Next == \/ Trip \/ SeatsExpire
        \/ \E p \in Phones : PhoneStep(p)
        \/ \E d \in Admins : DeskStep(d)

Spec == Init /\ [][Next]_vars

-----------------------------------------------------------------------------
(* Properties.                                                               *)

Row == [status : {"unraised", "open", "acknowledged", "resolved"},
        by : Admins \cup {Nobody}, closer : Admins \cup {Nobody}]

(* Every variable has its type; a console request at work is about an alert. *)
TypeOK ==
    /\ alert \in [Alerts -> Row]
    /\ announced \subseteq Alerts /\ raced \subseteq Alerts
    /\ desk \in [Admins -> [pc : {"idle", "read"}, kind : {"none", "acknowledge", "resolve"},
                            on : Alerts \cup {Nobody}, read : Row]]
    /\ told \in [Alerts -> SUBSET Admins]
    /\ onTrip \in BOOLEAN /\ doubt \in BOOLEAN
    /\ latest \in 0..MaxReports /\ seats \in 0..MaxReports
    /\ phone \in [Phones -> [pc : {"idle", "flushed", "committed"},
                             on : Alerts \cup {Nobody}, number : 0..MaxReports]]
    /\ \A d \in Admins : desk[d].pc = "read" => desk[d].on \in Alerts

(* "Claim an alert so two admins do not work the same incident", "a resolved *)
(* alert keeps who acknowledged it and why".  Three columns that two         *)
(* handlers write from what they read before: an alert is open exactly while *)
(* nobody has touched it, a closed one says when; and unless two requests    *)
(* for it were under way at once, one admin is told to have it, a closed one *)
(* stays closed, and its row names who was told.                             *)
IncidentKept ==
    \A a \in Alerts :
        /\ alert[a].status \in {"unraised", "open"} <=> alert[a].by = Nobody
        /\ alert[a].status = "resolved" => alert[a].closer # Nobody
        /\ a \notin raced =>
              /\ Cardinality(told[a]) <= 1
              /\ alert[a].closer # Nobody => alert[a].status = "resolved"
              /\ told[a] # {} => alert[a].by \in told[a]

(* "The console never sees a number the database has not durably recorded",  *)
(* nor an alert; and the live seat count is the bus's last report, but while *)
(* a later one is being published, once two were published at once (the      *)
(* older may land last), or after a publish that failed.                     *)
SeatsFollowReports ==
    /\ seats <= latest
    /\ \A a \in announced : alert[a].status # "unraised"
    /\ seats \in {None, latest} \/ doubt \/ \E p \in Publishing : phone[p].number > seats
=============================================================================
