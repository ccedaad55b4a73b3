------------------------------ MODULE Boarding ------------------------------
(***************************************************************************)
(* Turning scanned codes into recorded rides: the redemption sync of the     *)
(* helpers' devices and the fraud sweep, against one database.               *)
(*                                                                           *)
(* A sync answers its items one by one, each committed or rolled back on its *)
(* own.  Between items the session keeps the ticket of the last recorded     *)
(* item (a local variable of the handler, expire_on_commit=False), so the    *)
(* next item of that ticket is judged on that copy; a rollback discards it.  *)
(***************************************************************************)
EXTENDS FiniteSetsExt, Integers

CONSTANTS Tickets, Devices, Requests,
          Codes,        \* signed codes; a code stands for its nonce
          TicketOf,     \* the ticket each code is for
          CountOf,      \* its passenger_count
          RidesOf,      \* rides_total of each ticket; Unlimited for a pass
          Unlimited,
          ValidTo,      \* the last slice each ticket is valid in
          MaxClock,     \* bound on the number of 30-second slices
          SweepBatch    \* evidence one sweep looks at (BATCH)

ASSUME CodesAssumption ==
    /\ TicketOf \in [Codes -> Tickets]
    /\ CountOf \in [Codes -> 1..60]
    /\ Unlimited \notin Int /\ "none" \notin Tickets
    /\ RidesOf \in [Tickets -> Nat \cup {Unlimited}]
    /\ ValidTo \in [Tickets -> Nat]
    /\ MaxClock \in Nat /\ SweepBatch \in Nat \ {0}

VARIABLES
    clock,        \* server time, in slices
    shown,        \* for a code shown at a door, the slice it was signed in
    outbox,       \* per device: codes it accepted and has no answer for
    scanned,      \* per device: its own nonce log
    ticket,       \* tickets table: status and rides_remaining
    redemptions,  \* redemptions table, unique in (device, code)
    req,          \* the sync requests
    sweep,        \* the fraud sweep
    alerts,       \* tickets an alert was raised for, one entry per alert
    missed,       \* (history) codes recorded as clean while another sync that had
                  \* looked for them in vain was about to do the same
    crossed       \* (history) tickets a clean boarding of which was recorded while
                  \* another sync worked on a copy of its own

marks == <<missed, crossed>>
vars == <<clock, shown, outbox, scanned, ticket, redemptions, req, sweep, alerts, marks>>
doors == <<clock, shown, outbox, scanned>>

Tolerance == 1
Statuses == {"active", "exhausted", "suspended"}
Flags == {"ok", "duplicate_suspect"}
Unshown == -10

NoTicket == [status |-> "active", remaining |-> Unlimited]
NoReq == [pc |-> "idle", device |-> "none", todo |-> {}, done |-> {}, code |-> "none",
          held |-> "none", snap |-> NoTicket, flag |-> "ok"]
NoSweep == [running |-> FALSE, todo |-> {}, suspending |-> {}]

Init ==
    /\ clock = 0
    /\ shown = [c \in Codes |-> Unshown]
    /\ outbox = [d \in Devices |-> {}]
    /\ scanned = [d \in Devices |-> {}]
    /\ ticket = [k \in Tickets |-> [status |-> "active", remaining |-> RidesOf[k]]]
    /\ redemptions = {}
    /\ req = [r \in Requests |-> NoReq]
    /\ sweep = NoSweep
    /\ alerts = [k \in Tickets |-> 0]
    /\ missed = {} /\ crossed = {}

-----------------------------------------------------------------------------
(* The doors.  A student's device signs a code for the current slice; a      *)
(* helper's device accepts it once if the slice is fresh, with no server.    *)

Tick ==
    /\ clock < MaxClock
    /\ clock' = clock + 1
    /\ UNCHANGED <<shown, outbox, scanned, ticket, redemptions, req, sweep, alerts, marks>>

Show(c) ==
    /\ shown[c] = Unshown
    /\ shown' = [shown EXCEPT ![c] = clock]
    /\ UNCHANGED <<clock, outbox, scanned, ticket, redemptions, req, sweep, alerts, marks>>

Fresh(c) == clock - shown[c] \in -Tolerance..Tolerance

Scan(d, c) ==
    /\ Fresh(c) /\ c \notin scanned[d]
    /\ scanned' = [scanned EXCEPT ![d] = @ \cup {c}]
    /\ outbox' = [outbox EXCEPT ![d] = @ \cup {c}]
    /\ UNCHANGED <<clock, shown, ticket, redemptions, req, sweep, alerts, marks>>

-----------------------------------------------------------------------------
(* One sync request: sync_redemptions and redeem.                            *)

SyncStart(r, d) ==
    /\ req[r].pc = "idle" /\ outbox[d] # {}
    /\ req' = [req EXCEPT ![r] = [NoReq EXCEPT !.pc = "next", !.device = d, !.todo = outbox[d]]]
    /\ UNCHANGED <<doors, ticket, redemptions, sweep, alerts, marks>>

(* What the session knows of a ticket when an item starts.                   *)
Loaded(r, k) == IF req[r].held = k THEN req[r].snap ELSE ticket[k]

(* verify_qr's freshness and _check_valid_window.                            *)
Boardable(c, snap) ==
    /\ Fresh(c)
    /\ snap.status # "suspended"
    /\ clock <= ValidTo[TicketOf[c]]

(* The item is answered; from here the session holds a copy `snap` of `held`.*)
Answered(r, held, snap) ==
    req' = [req EXCEPT ![r] = [req[r] EXCEPT !.pc = "next", !.done = @ \cup {req[r].code},
                                        !.code = "none", !.flag = "ok",
                                        !.held = held, !.snap = snap]]

ItemLoad(r, c) ==
    LET snap == Loaded(r, TicketOf[c]) IN
    /\ req[r].pc = "next" /\ c \in req[r].todo
    /\ Boardable(c, snap)
    /\ req' = [req EXCEPT ![r] = [req[r] EXCEPT !.pc = "look", !.todo = @ \ {c}, !.code = c,
                                           !.snap = snap]]
    /\ UNCHANGED <<doors, ticket, redemptions, sweep, alerts, marks>>

ItemRefused(r, c) ==
    /\ req[r].pc = "next" /\ c \in req[r].todo
    /\ ~Boardable(c, Loaded(r, TicketOf[c]))
    /\ req' = [req EXCEPT ![r] = [req[r] EXCEPT !.todo = @ \ {c}, !.done = @ \cup {c},
                                           !.held = "none", !.snap = NoTicket]]
    /\ UNCHANGED <<doors, ticket, redemptions, sweep, alerts, marks>>

Sightings(c) == {x \in redemptions : x.code = c}

(* (Variants with a fault, here and below, are never part of Next: they show *)
(* which mistake each property would catch.)                                 *)
CoversAnyGroup(snap, c) == snap.remaining = Unlimited \/ snap.remaining > 0

Covers(snap, c) == snap.remaining = Unlimited \/ snap.remaining >= CountOf[c]

DeductSavingCopy(row, copy, n) ==
    IF n = 0 \/ copy.remaining = Unlimited THEN row
    ELSE [status    |-> IF copy.remaining <= n THEN "exhausted" ELSE copy.status,
          remaining |-> IF copy.remaining > n THEN copy.remaining - n ELSE 0]

(* What n clean passengers write over a ticket row, computed on a copy.      *)
Deduct(row, copy, n) ==
    IF n = 0 \/ copy.remaining = Unlimited THEN row
    ELSE [status    |-> IF copy.remaining <= n /\ copy.status # "exhausted"
                        THEN "exhausted" ELSE row.status,
          remaining |-> IF copy.remaining > n THEN copy.remaining - n ELSE 0]

(* The copy held once the item is recorded: the one held before it with this *)
(* item's changes, or else a fresh one.                                      *)
Copy(r, rows, k, n) ==
    IF req[r].held = k THEN Deduct(req[r].snap, req[r].snap, n) ELSE rows[k]

FirstSightingHere(r) ==
    LET c == req[r].code IN
    /\ req[r].pc = "look" /\ ~\E x \in Sightings(c) : x.device = req[r].device
    /\ IF Covers(req[r].snap, c) THEN req' = [req EXCEPT ![r].pc = "write"]
       ELSE Answered(r, "none", NoTicket)
    /\ UNCHANGED <<doors, ticket, redemptions, sweep, alerts, marks>>

(* The nonce lookup, first case: nobody reported this code.                  *)
FirstSighting(r) ==
    LET c == req[r].code IN
    /\ req[r].pc = "look" /\ Sightings(c) = {}
    /\ IF Covers(req[r].snap, c)
       THEN req' = [req EXCEPT ![r].pc = "write"]
       ELSE Answered(r, "none", NoTicket)                  \* rolled back
    /\ UNCHANGED <<doors, ticket, redemptions, sweep, alerts, marks>>

(* Second: the row found, any of them, is this device's own.                 *)
OwnSighting(r) ==
    LET c == req[r].code IN
    /\ req[r].pc = "look"
    /\ \E x \in Sightings(c) : x.device = req[r].device
    /\ Answered(r, TicketOf[c], Copy(r, ticket, TicketOf[c], 0))
    /\ UNCHANGED <<doors, ticket, redemptions, sweep, alerts, marks>>

(* Third: it is another device's.                                            *)
OtherSighting(r) ==
    /\ req[r].pc = "look"
    /\ \E x \in Sightings(req[r].code) : x.device # req[r].device
    /\ req' = [req EXCEPT ![r].pc = "write", ![r].flag = "duplicate_suspect"]
    /\ UNCHANGED <<doors, ticket, redemptions, sweep, alerts, marks>>

WriteDeductingAlways(r) ==
    LET c == req[r].code
        k == TicketOf[c]
    IN
    /\ req[r].pc = "write"
    /\ ~\E x \in Sightings(c) : x.device = req[r].device
    /\ ticket' = [ticket EXCEPT ![k] = Deduct(@, req[r].snap, CountOf[c])]
    /\ redemptions' = redemptions \cup
         {[device |-> req[r].device, code |-> c, flag |-> req[r].flag]}
    /\ Answered(r, k, Copy(r, ticket', k, CountOf[c]))
    /\ UNCHANGED <<doors, sweep, alerts, marks>>

(* What another sync has in hand of a code, and of a ticket.                  *)
Unrecorded(q, c) == req[q].pc = "write" /\ req[q].flag = "ok" /\ req[q].code = c
Copied(q, k) == \/ req[q].pc \in {"look", "write"} /\ TicketOf[req[q].code] = k
                \/ req[q].pc = "next" /\ req[q].held = k

MarkRaces(r, c, k) ==
    LET clean == req[r].flag = "ok"
        others == Requests \ {r}
    IN
    /\ missed'  = IF clean /\ \E q \in others : Unrecorded(q, c) THEN missed \cup {c} ELSE missed
    /\ crossed' = IF clean /\ \E q \in others : Copied(q, k) THEN crossed \cup {k} ELSE crossed

(* Flush and commit; the unique (device, nonce) turns a repeat into a        *)
(* rollback answered "already recorded".                                     *)
Write(r) ==
    LET c == req[r].code
        k == TicketOf[c]
        n == IF req[r].flag = "ok" THEN CountOf[c] ELSE 0
    IN
    /\ req[r].pc = "write"
    /\ IF \E x \in Sightings(c) : x.device = req[r].device
       THEN /\ Answered(r, "none", NoTicket)
            /\ UNCHANGED <<ticket, redemptions, marks>>
       ELSE /\ ticket' = [ticket EXCEPT ![k] = Deduct(@, req[r].snap, n)]
            /\ redemptions' = redemptions \cup
                 {[device |-> req[r].device, code |-> c, flag |-> req[r].flag]}
            /\ Answered(r, k, Copy(r, ticket', k, n))
            /\ MarkRaces(r, c, k)
    /\ UNCHANGED <<doors, sweep, alerts>>

(* The answers reach the device, which drops the items they are for.         *)
Reply(r) ==
    /\ req[r].pc = "next" /\ req[r].todo = {}
    /\ outbox' = [outbox EXCEPT ![req[r].device] = @ \ req[r].done]
    /\ req' = [req EXCEPT ![r] = NoReq]
    /\ UNCHANGED <<clock, shown, scanned, ticket, redemptions, sweep, alerts, marks>>

(* The response is lost, the request times out, or the process dies.         *)
SyncDies(r) ==
    /\ req[r].pc # "idle"
    /\ req' = [req EXCEPT ![r] = NoReq]
    /\ UNCHANGED <<doors, ticket, redemptions, sweep, alerts, marks>>

-----------------------------------------------------------------------------
(* The fraud sweep: codes seen on two devices whose ticket is active, up to  *)
(* a batch of them; suspend those tickets and raise one alert each.          *)

DevicesOf(c) == {x.device : x \in Sightings(c)}

EvidenceFlagged == {c \in Codes : /\ ticket[TicketOf[c]].status = "active"
                                 /\ Cardinality({x.device : x \in {y \in Sightings(c) :
                                         y.flag = "duplicate_suspect"}}) >= 2}
Evidence == {c \in Codes : ticket[TicketOf[c]].status = "active" /\ Cardinality(DevicesOf(c)) >= 2}

SweepLoad ==
    /\ ~sweep.running
    /\ \E E \in SUBSET Evidence :
         /\ Cardinality(E) <= SweepBatch
         /\ E = Evidence \/ Cardinality(E) = SweepBatch
         /\ sweep' = [NoSweep EXCEPT !.running = TRUE, !.todo = {TicketOf[c] : c \in E}]
    /\ UNCHANGED <<doors, ticket, redemptions, req, alerts, marks>>

(* Each ticket is loaded in turn and skipped if it is no longer active.      *)
SweepGet(k) ==
    /\ k \in sweep.todo
    /\ sweep' = [sweep EXCEPT !.todo = @ \ {k},
                             !.suspending = IF ticket[k].status = "active" THEN @ \cup {k} ELSE @]
    /\ UNCHANGED <<doors, ticket, redemptions, req, alerts, marks>>

SweepCommitRevoking ==
    /\ sweep.running /\ sweep.todo = {}
    /\ ticket' = [k \in Tickets |->
                    IF k \in sweep.suspending THEN [ticket[k] EXCEPT !.status = "revoked"]
                    ELSE ticket[k]]
    /\ sweep' = NoSweep
    /\ UNCHANGED <<doors, redemptions, req, alerts, marks>>

SweepCommit ==
    /\ sweep.running /\ sweep.todo = {}
    /\ ticket' = [k \in Tickets |->
                    IF k \in sweep.suspending THEN [ticket[k] EXCEPT !.status = "suspended"]
                    ELSE ticket[k]]
    /\ alerts' = [k \in Tickets |-> alerts[k] + (IF k \in sweep.suspending THEN 1 ELSE 0)]
    /\ sweep' = NoSweep
    /\ UNCHANGED <<doors, redemptions, req, marks>>

SweepDies ==
    /\ sweep.running
    /\ sweep' = NoSweep
    /\ UNCHANGED <<doors, ticket, redemptions, req, alerts, marks>>

-----------------------------------------------------------------------------
DoorStep == \/ Tick
            \/ \E c \in Codes : Show(c) \/ \E d \in Devices : Scan(d, c)

ItemStep(r) == \/ \E c \in Codes : ItemLoad(r, c) \/ ItemRefused(r, c)
               \/ FirstSighting(r) \/ OwnSighting(r) \/ OtherSighting(r) \/ Write(r)

SyncStep(r) == \/ \E d \in Devices : SyncStart(r, d)
               \/ ItemStep(r) \/ Reply(r) \/ SyncDies(r)

SweepStep == SweepLoad \/ (\E k \in Tickets : SweepGet(k)) \/ SweepCommit \/ SweepDies

Next == DoorStep \/ SweepStep \/ \E r \in Requests : SyncStep(r)

Spec == Init /\ [][Next]_vars

-----------------------------------------------------------------------------
(* Properties.                                                               *)

TicketRow == [status : Statuses, remaining : Nat \cup {Unlimited}]
Request == [pc : {"idle", "next", "look", "write"}, device : Devices \cup {"none"},
            todo : SUBSET Codes, done : SUBSET Codes, code : Codes \cup {"none"},
            held : Tickets \cup {"none"}, snap : TicketRow, flag : Flags]

(* Every variable has its type; a request at work has a device, one judging  *)
(* an item has the item's code.                                              *)
TypeOK ==
    /\ clock \in Nat
    /\ shown \in [Codes -> Int]
    /\ outbox \in [Devices -> SUBSET Codes]
    /\ scanned \in [Devices -> SUBSET Codes]
    /\ ticket \in [Tickets -> TicketRow]
    /\ redemptions \subseteq [device : Devices, code : Codes, flag : Flags]
    /\ req \in [Requests -> Request]
    /\ sweep \in [running : BOOLEAN, todo : SUBSET Tickets, suspending : SUBSET Tickets]
    /\ alerts \in [Tickets -> Nat]
    /\ missed \subseteq Codes /\ crossed \subseteq Tickets
    /\ \A r \in Requests : req[r].pc # "idle" => req[r].device \in Devices
    /\ \A r \in Requests : req[r].pc \in {"look", "write"} => req[r].code \in Codes

Clean(k) == {x \in redemptions : x.flag = "ok" /\ TicketOf[x.code] = k}
Passengers(S) == MapThenSumSet(LAMBDA x : CountOf[x.code], S)
CleanRides(k) == Passengers(Clean(k))

(* Nobody pays for a boarding that is not on record as clean: whatever is    *)
(* retried, answered twice, raced or lost, a ticket loses no more rides than *)
(* its clean boardings carried (redeem's deduction).                         *)
NoOvercharge ==
    \A k \in Tickets : RidesOf[k] # Unlimited =>
        ticket[k].remaining >= RidesOf[k] - CleanRides(k)

(* The ticket and the records agree exactly, through lost answers, repeated  *)
(* batches, duplicates and the sweep, until a clean boarding of the ticket   *)
(* is recorded while another sync has loaded its row too: that one's copy is *)
(* out of date, and its own write would undo the deduction.                  *)
LedgerExact ==
    \A k \in Tickets \ crossed : RidesOf[k] # Unlimited =>
        ticket[k].remaining = RidesOf[k] - CleanRides(k)

(* Two columns written by separate sessions: a ticket with nothing left is   *)
(* never one the manifest still lists as active.                             *)
EmptyIsClosed ==
    \A k \in Tickets : ticket[k].remaining = 0 => RidesOf[k] = 0 \/ ticket[k].status # "active"

(* One code is one clean boarding ("the ride is *not* deducted twice"), on   *)
(* however many devices and in however many syncs it is reported, but for    *)
(* two syncs that both looked for it before either had recorded it.          *)
OneCleanSighting ==
    \A x, y \in redemptions :
        x.code = y.code /\ x.flag = "ok" /\ y.flag = "ok" => x = y \/ x.code \in missed

(* The sweep's claim of idempotence: "the same evidence is not re-alerted".  *)
AlertedOnce == \A k \in Tickets : alerts[k] <= 1

(* The sweep's loop goes on, and the database stays up long enough.          *)
SweepGoesOn == <>[][SweepDies => SweepCommit]_vars
FairSpec == /\ Spec /\ SweepGoesOn
            /\ WF_vars(SweepLoad) /\ WF_vars(SweepCommit)
            /\ \A k \in Tickets : WF_vars(SweepGet(k))

(* The sweep's promise: a code accepted on two devices closes its ticket,    *)
(* whatever batches it takes and however often it dies.                      *)
DuplicateIsClosed ==
    \A c \in Codes : Cardinality(DevicesOf(c)) >= 2 ~> ticket[TicketOf[c]].status # "active"
=============================================================================
