------------------------------- MODULE Trips --------------------------------
(***************************************************************************)
(* Trips and the GPS fixes bound to them: starting and ending a trip, the    *)
(* cache of each helper's live trip, and the ingest that files a batch of    *)
(* fixes under the live trip, or under the one that has just ended.          *)
(*                                                                           *)
(* Trips are numbered as they start, fixes as they are taken.  A batch is    *)
(* one fix: the points of a batch travel and are bound together.             *)
(***************************************************************************)
EXTENDS Integers, FiniteSets

CONSTANTS Helpers, Buses,
          Requests,            \* requests in flight
          MaxTrips, MaxFixes,  \* bounds on the trips started and the fixes taken
          Nobody,              \* the helper and the bus of a trip that is not there
          Faults               \* what may go wrong

ASSUME FaultsAssumption == Faults \subseteq {"redis", "crash", "loss"}
ASSUME BoundsAssumption == MaxTrips \in Nat /\ MaxFixes \in Nat
ASSUME NobodyAssumption == Nobody \notin Helpers \cup Buses

VARIABLES
    trip,     \* the rows of trips
    cache,    \* helper:{id}:trip, or 0
    pos,      \* the trip in bus:{id}:pos, or 0
    filed,    \* the entries of gps_ingest: a fix and the trip it is filed under
    fix,      \* the fixes the apps have taken
    driving,  \* the trip each app takes itself to be on, or 0
    req,      \* the requests
    doubt     \* trips whose end may have left a stale cache entry (history)

vars == <<trip, cache, pos, filed, fix, driving, req, doubt>>

Trips  == 1..MaxTrips
Fixes  == 1..MaxFixes
NoTrip == [status |-> "none", helper |-> Nobody, bus |-> Nobody, recent |-> FALSE]
NoFix  == [state |-> "none", helper |-> Nobody, bus |-> Nobody, trip |-> 0]
NoReq  == [pc |-> "idle", ask |-> FALSE, helper |-> Nobody, bus |-> Nobody, trip |-> 0, fix |-> 0]

Init ==
    /\ trip = [t \in Trips |-> NoTrip]
    /\ cache = [h \in Helpers |-> 0]
    /\ pos = [b \in Buses |-> 0]
    /\ filed = {}
    /\ fix = [n \in Fixes |-> NoFix]
    /\ driving = [h \in Helpers |-> 0]
    /\ req = [r \in Requests |-> NoReq]
    /\ doubt = {}

Live(t)        == trip[t].status = "live"
LiveOf(h)      == {t \in Trips : Live(t) /\ trip[t].helper = h}
LiveOn(b)      == {t \in Trips : Live(t) /\ trip[t].bus = b}
At(r, pc)      == req[r].pc = pc
Done(r)        == req' = [req EXCEPT ![r] = NoReq]
GoTo(r, pc, t) == req' = [req EXCEPT ![r].pc = pc, ![r].trip = t]
Begins(r, q)   == At(r, "idle") /\ req' = [req EXCEPT ![r] = q]
RedisFails     == "redis" \in Faults

(* The next row, or fix, to be made.                                         *)
IsNext(used, i) == i \notin used /\ \A j \in 1..(i - 1) : j \in used

-----------------------------------------------------------------------------
(* Start.  An INSERT waits for one that conflicts with it, so what it finds  *)
(* is committed; it is read by nobody before its own commit.                 *)

BeginStart(r, h, b) ==
    /\ driving[h] = 0
    /\ Begins(r, [NoReq EXCEPT !.pc = "insert", !.helper = h, !.bus = b])
    /\ UNCHANGED <<trip, cache, pos, filed, fix, driving, doubt>>

(* start_trip: the partial unique indexes allow a live trip to a bus, and to *)
(* a helper.                                                                 *)
Insert(r) ==
    /\ At(r, "insert")
    /\ LiveOf(req[r].helper) = {} /\ LiveOn(req[r].bus) = {}
    /\ \E t \in Trips :
          /\ IsNext({u \in Trips : trip[u].status # "none"}, t)
          /\ trip' = [trip EXCEPT ![t] = [status |-> "live", helper |-> req[r].helper,
                                          bus |-> req[r].bus, recent |-> TRUE]]
          /\ GoTo(r, "warm", t)
    /\ UNCHANGED <<cache, pos, filed, fix, driving, doubt>>

InsertConflicts(r) ==
    /\ At(r, "insert")
    /\ LiveOf(req[r].helper) # {} \/ LiveOn(req[r].bus) # {}
    /\ Done(r)
    /\ UNCHANGED <<trip, cache, pos, filed, fix, driving, doubt>>

(* cache_active_trip passes an error over; the app learns of its trip.       *)
Warm(r) ==
    /\ At(r, "warm")
    /\ \/ cache' = [cache EXCEPT ![req[r].helper] = req[r].trip]
       \/ RedisFails /\ UNCHANGED cache
    /\ \/ driving' = [driving EXCEPT ![req[r].helper] = req[r].trip]
       \/ "loss" \in Faults /\ UNCHANGED driving
    /\ Done(r)
    /\ UNCHANGED <<trip, pos, filed, fix, doubt>>

-----------------------------------------------------------------------------
(* End.  The app stops its sensor first.                                     *)

BeginEnd(r, h) ==
    /\ \E t \in LiveOf(h) :
          Begins(r, [NoReq EXCEPT !.pc = "close", !.helper = h, !.trip = t])
    /\ driving' = [driving EXCEPT ![h] = 0]
    /\ UNCHANGED <<trip, cache, pos, filed, fix, doubt>>

EndNothing(h) ==
    /\ LiveOf(h) = {} /\ driving[h] # 0
    /\ driving' = [driving EXCEPT ![h] = 0]
    /\ UNCHANGED <<trip, cache, pos, filed, fix, req, doubt>>

(* The commit of end_trip.  Whoever is about to cache the trip does not see  *)
(* it.                                                                       *)
Close(r) ==
    /\ At(r, "close")
    /\ trip' = [trip EXCEPT ![req[r].trip].status = "completed"]
    /\ GoTo(r, "clear", req[r].trip)
    /\ doubt' = doubt \cup {t \in {req[r].trip} : \E q \in Requests : /\ req[q].pc \in {"fill", "warm"}
                                                                    /\ req[q].trip = t}
    /\ UNCHANGED <<cache, pos, filed, fix, driving>>

(* (Variants with a fault, here and below, are never part of Next: they show *)
(* which mistake each property would catch.)                                 *)
ClearByUserId(r) ==
    /\ At(r, "clear")
    /\ Done(r)
    /\ UNCHANGED <<trip, cache, pos, filed, fix, driving, doubt>>

(* clear_active_trip; an error of its DEL is the request's.                  *)
Clear(r) ==
    /\ At(r, "clear")
    /\ \/ cache' = [cache EXCEPT ![req[r].helper] = 0] /\ UNCHANGED doubt
       \/ RedisFails /\ doubt' = doubt \cup {req[r].trip} /\ UNCHANGED cache
    /\ Done(r)
    /\ UNCHANGED <<trip, pos, filed, fix, driving>>

-----------------------------------------------------------------------------
(* The app takes fixes while it drives, keeps them in its outbox until they  *)
(* are answered for, and drops the ones refused.  After a restart it asks    *)
(* which trip it is on.                                                      *)

Take(h) ==
    /\ driving[h] # 0
    /\ \E n \in Fixes :
          /\ IsNext({m \in Fixes : fix[m].state # "none"}, n)
          /\ fix' = [fix EXCEPT ![n] = [state |-> "queued", helper |-> h,
                                        bus |-> trip[driving[h]].bus, trip |-> driving[h]]]
    /\ UNCHANGED <<trip, cache, pos, filed, driving, req, doubt>>

Send(r, n) ==
    /\ fix[n].state = "queued"
    /\ Begins(r, [NoReq EXCEPT !.pc = "get", !.helper = fix[n].helper, !.bus = fix[n].bus,
                               !.fix = n])
    /\ UNCHANGED <<trip, cache, pos, filed, fix, driving, doubt>>

AskActive(r, h) ==
    /\ Begins(r, [NoReq EXCEPT !.pc = "get", !.helper = h, !.ask = TRUE])
    /\ UNCHANGED <<trip, cache, pos, filed, fix, driving, doubt>>

-----------------------------------------------------------------------------
(* get_active_trip, and what ingest_gps and GET /trips/active make of it.    *)

Refused(r) ==
    /\ fix' = [fix EXCEPT ![req[r].fix].state = "dropped"]
    /\ Done(r)

(* An active trip: the batch must be for its bus.                            *)
Resolved(r, t) ==
    \/ /\ req[r].ask /\ Done(r)
       /\ driving' = [driving EXCEPT ![req[r].helper] = t]
       /\ UNCHANGED fix
    \/ /\ ~req[r].ask /\ trip[t].bus = req[r].bus
       /\ GoTo(r, "push", t)
       /\ UNCHANGED <<driving, fix>>
    \/ /\ ~req[r].ask /\ trip[t].bus # req[r].bus
       /\ Refused(r)
       /\ UNCHANGED driving

Hit(r) ==
    /\ At(r, "get") /\ cache[req[r].helper] # 0
    /\ Resolved(r, cache[req[r].helper])
    /\ UNCHANGED <<trip, cache, pos, filed, doubt>>

Miss(r) ==
    /\ At(r, "get")
    /\ cache[req[r].helper] = 0 \/ RedisFails
    /\ GoTo(r, "lookup", 0)
    /\ UNCHANGED <<trip, cache, pos, filed, fix, driving, doubt>>

(* _live_trip_from_db.                                                       *)
Lookup(r) ==
    /\ At(r, "lookup")
    /\ \E t \in LiveOf(req[r].helper) : GoTo(r, "fill", t)
    /\ UNCHANGED <<trip, cache, pos, filed, fix, driving, doubt>>

LookupNothing(r) ==
    /\ At(r, "lookup") /\ LiveOf(req[r].helper) = {}
    /\ \/ /\ req[r].ask /\ Done(r)
          /\ driving' = [driving EXCEPT ![req[r].helper] = 0]
       \/ /\ ~req[r].ask /\ GoTo(r, "late", 0)
          /\ UNCHANGED driving
    /\ UNCHANGED <<trip, cache, pos, filed, fix, doubt>>

Fill(r) ==
    /\ At(r, "fill")
    /\ \/ cache' = [cache EXCEPT ![req[r].helper] = req[r].trip]
       \/ RedisFails /\ UNCHANGED cache
    /\ Resolved(r, req[r].trip)
    /\ UNCHANGED <<trip, pos, filed, doubt>>

JustEndedAnyHelper(h, b) ==
    {t \in Trips : trip[t].status = "completed" /\ trip[t].recent /\ trip[t].bus = b}

(* recently_ended_trip: the newest of this helper's, on this bus, within     *)
(* GPS_DRAIN_GRACE.  A helper's trips end in the order they started.         *)
JustEnded(h, b) ==
    {t \in Trips : /\ trip[t].status = "completed" /\ trip[t].recent
                   /\ trip[t].helper = h /\ trip[t].bus = b}

LateOldest(r) ==
    /\ At(r, "late")
    /\ \E t \in JustEnded(req[r].helper, req[r].bus) :
          (\A u \in JustEnded(req[r].helper, req[r].bus) : t <= u) /\ GoTo(r, "file", t)
    /\ UNCHANGED <<trip, cache, pos, filed, fix, driving, doubt>>

LateUnchecked(r) ==
    /\ At(r, "late")
    /\ GoTo(r, "file", IF JustEnded(req[r].helper, req[r].bus) = {} THEN 0
                       ELSE CHOOSE t \in JustEnded(req[r].helper, req[r].bus) : TRUE)
    /\ UNCHANGED <<trip, cache, pos, filed, fix, driving, doubt>>

Late(r) ==
    /\ At(r, "late")
    /\ LET ended == JustEnded(req[r].helper, req[r].bus)
       IN  \/ /\ \E t \in ended : (\A u \in ended : u <= t) /\ GoTo(r, "file", t)
              /\ UNCHANGED fix
           \/ /\ ended = {}
              /\ Refused(r)
    /\ UNCHANGED <<trip, cache, pos, filed, driving, doubt>>

(* The pipeline: the live position for a live trip, and the stream.  An      *)
(* answer that is lost leaves the fix in the outbox, to be sent again.       *)
Push(r) ==
    /\ req[r].pc \in {"push", "file"}
    /\ filed' = filed \cup {[fix |-> req[r].fix, trip |-> req[r].trip]}
    /\ pos' = IF At(r, "push") THEN [pos EXCEPT ![req[r].bus] = req[r].trip] ELSE pos
    /\ \/ fix' = [fix EXCEPT ![req[r].fix].state = "sent"]
       \/ "loss" \in Faults /\ UNCHANGED fix
    /\ Done(r)
    /\ UNCHANGED <<trip, cache, driving, doubt>>

-----------------------------------------------------------------------------
(* A process that stops, a Redis that refuses the pipeline.                  *)
Dies(r) ==
    /\ \/ "crash" \in Faults /\ ~At(r, "idle")
       \/ RedisFails /\ req[r].pc \in {"push", "file"}
    /\ Done(r)
    /\ doubt' = doubt \cup {t \in {req[r].trip} : At(r, "clear")}
    /\ UNCHANGED <<trip, cache, pos, filed, fix, driving>>

(* ACTIVE_TRIP_TTL_S, the position's 60 seconds, and GPS_DRAIN_GRACE.        *)
CacheExpires(h) ==
    /\ cache[h] # 0 /\ cache' = [cache EXCEPT ![h] = 0]
    /\ UNCHANGED <<trip, pos, filed, fix, driving, req, doubt>>

PosExpires(b) ==
    /\ pos[b] # 0 /\ pos' = [pos EXCEPT ![b] = 0]
    /\ UNCHANGED <<trip, cache, filed, fix, driving, req, doubt>>

GraceOver(t) ==
    /\ trip[t].status = "completed" /\ trip[t].recent
    /\ \A u \in 1..(t - 1) : ~(trip[u].helper = trip[t].helper /\ trip[u].recent)
    /\ trip' = [trip EXCEPT ![t].recent = FALSE]
    /\ UNCHANGED <<cache, pos, filed, fix, driving, req, doubt>>

-----------------------------------------------------------------------------
LifecycleStep(r) == \/ Insert(r) \/ InsertConflicts(r) \/ Warm(r) \/ Close(r) \/ Clear(r)
IngestStep(r)    == \/ Hit(r) \/ Miss(r) \/ Lookup(r) \/ LookupNothing(r) \/ Fill(r)
                    \/ Late(r) \/ Push(r)
AppStep(r)       == \/ \E h \in Helpers : BeginEnd(r, h) \/ AskActive(r, h)
                    \/ \E h \in Helpers, b \in Buses : BeginStart(r, h, b)
                    \/ \E n \in Fixes : Send(r, n)

Next == \/ \E r \in Requests : AppStep(r) \/ LifecycleStep(r) \/ IngestStep(r) \/ Dies(r)
        \/ \E h \in Helpers : EndNothing(h) \/ Take(h) \/ CacheExpires(h)
        \/ \E b \in Buses : PosExpires(b)
        \/ \E t \in Trips : GraceOver(t)

Spec == Init /\ [][Next]_vars

-----------------------------------------------------------------------------
(* Properties.                                                               *)

TripRecord == [status : {"none", "live", "completed"}, helper : Helpers \cup {Nobody},
               bus : Buses \cup {Nobody}, recent : BOOLEAN]
FixRecord  == [state : {"none", "queued", "sent", "dropped"}, helper : Helpers \cup {Nobody},
               bus : Buses \cup {Nobody}, trip : 0..MaxTrips]
Pcs        == {"idle", "insert", "warm", "close", "clear", "get", "lookup", "fill", "late", "push",
               "file"}
ReqRecord  == [pc : Pcs, ask : BOOLEAN, helper : Helpers \cup {Nobody}, bus : Buses \cup {Nobody},
               trip : 0..MaxTrips, fix : 0..MaxFixes]

(* Every variable has its type; a request past its lookup holds a trip of    *)
(* its helper, and one for a fix carries that fix.                           *)
TypeOK ==
    /\ trip \in [Trips -> TripRecord]
    /\ cache \in [Helpers -> 0..MaxTrips]
    /\ pos \in [Buses -> 0..MaxTrips]
    /\ filed \subseteq [fix : Fixes, trip : Trips]
    /\ fix \in [Fixes -> FixRecord]
    /\ driving \in [Helpers -> 0..MaxTrips]
    /\ req \in [Requests -> ReqRecord]
    /\ doubt \subseteq Trips

(* "Every fix must belong to a trip this helper actually drove": whatever    *)
(* the cache says, a fix is filed under a trip of the helper that took it,   *)
(* on the bus it was taken on, and a bus's live position comes from its own  *)
(* trips.                                                                    *)
FiledRight ==
    /\ \A e \in filed : /\ trip[e.trip].helper = fix[e.fix].helper
                        /\ trip[e.trip].bus = fix[e.fix].bus
    /\ \A b \in Buses : pos[b] # 0 => trip[pos[b]].bus = b

(* "A finished trip stops binding a draining outbox's fixes": a cached trip  *)
(* is live, unless its end is about to drop it, or something was about to    *)
(* cache it as it ended, or the DEL was lost.                                *)
EndUnderWay(t) == \E r \in Requests : At(r, "clear") /\ req[r].trip = t

StaleHasCause ==
    \A h \in Helpers : cache[h] # 0 => Live(cache[h]) \/ cache[h] \in doubt \/ EndUnderWay(cache[h])

(* A fix taken on one trip is never filed under an earlier one: not by the   *)
(* cache, the lookup or the grace window, but for an end in doubt.           *)
BindsForward ==
    [][\A r \in Requests :
          req'[r].pc \in {"push", "file"} /\ ~(req[r].pc \in {"push", "file"}) =>
              \/ req'[r].trip >= fix[req[r].fix].trip
              \/ req'[r].trip \in doubt \/ EndUnderWay(req'[r].trip)]_vars
=============================================================================
