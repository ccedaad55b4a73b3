---------------------------- MODULE TripsProofs -----------------------------
(***************************************************************************)
(* Proofs about Trips, for any helpers, buses, requests, bounds and faults.  *)
(***************************************************************************)
EXTENDS Trips, TLAPS

Started(t) == trip[t].status # "none"

(* A helper's trips follow one another: all but the newest are over, and the *)
(* grace window closes on them in order.                                     *)
InOrder ==
    /\ \A t \in Trips : Started(t) => trip[t].helper \in Helpers /\ trip[t].bus \in Buses
    /\ \A t, u \in Trips : t < u /\ Started(u) =>
          /\ Started(t)
          /\ trip[t].helper = trip[u].helper =>
                trip[t].status = "completed" /\ (trip[t].recent => trip[u].recent)

(* Trips held by the cache, an app, a position or a request are rows, of the *)
(* helper, or of the bus, they are held for.                                 *)
OfHelper(t, h) == t \in Trips /\ Started(t) /\ trip[t].helper = h

HoldsTrip(r) == req[r].pc \in {"warm", "close", "clear", "fill", "push", "file"}
ForFix(r)    == \/ req[r].pc \in {"get", "lookup", "fill"} /\ ~req[r].ask
                \/ req[r].pc \in {"late", "push", "file"}

Owned ==
    /\ \A h \in Helpers : /\ cache[h] # 0 => OfHelper(cache[h], h)
                          /\ driving[h] # 0 => OfHelper(driving[h], h)
    /\ \A b \in Buses : pos[b] # 0 => pos[b] \in Trips /\ Started(pos[b]) /\ trip[pos[b]].bus = b

FixesOwned ==
    \A n \in Fixes : fix[n].state # "none" =>
        /\ fix[n].helper \in Helpers
        /\ OfHelper(fix[n].trip, fix[n].helper) /\ trip[fix[n].trip].bus = fix[n].bus

HeldBy(r) ==
    /\ req[r].pc # "idle" => req[r].helper \in Helpers
    /\ req[r].pc = "insert" => req[r].bus \in Buses
    /\ HoldsTrip(r) => OfHelper(req[r].trip, req[r].helper)
    /\ req[r].pc \in {"push", "file"} => trip[req[r].trip].bus = req[r].bus
    /\ ForFix(r) => /\ req[r].fix \in Fixes /\ fix[req[r].fix].state # "none"
                    /\ req[r].helper = fix[req[r].fix].helper
                    /\ req[r].bus = fix[req[r].fix].bus

Held == \A r \in Requests : HeldBy(r)

FiledRows == \A e \in filed : Started(e.trip) /\ fix[e.fix].state # "none"

(* What is about to be cached is live, or ended meanwhile.                   *)
FillsFresh ==
    \A r \in Requests : req[r].pc \in {"fill", "warm"} => Live(req[r].trip) \/ req[r].trip \in doubt

(* A fix whose helper had no live trip was taken on one that is over.        *)
LateIsOver ==
    \A r \in Requests : req[r].pc = "late" => trip[fix[req[r].fix].trip].status = "completed"

Binding == /\ TypeOK /\ InOrder /\ Owned /\ FixesOwned /\ Held /\ FiledRows
           /\ FillsFresh /\ LateIsOver

IInv == Binding /\ FiledRight /\ StaleHasCause

(* What no step changes.                                                     *)
TripsKeep ==
    \A t \in Trips : Started(t) =>
        /\ trip'[t].status # "none"
        /\ trip'[t].helper = trip[t].helper /\ trip'[t].bus = trip[t].bus
        /\ trip[t].status = "completed" => trip'[t].status = "completed"
        /\ trip'[t].recent => trip[t].recent

OfHelperNext(t, h) == t \in Trips /\ trip'[t].status # "none" /\ trip'[t].helper = h

FixesKeep ==
    \A n \in Fixes : fix[n].state # "none" =>
        /\ fix'[n].state # "none"
        /\ fix'[n].helper = fix[n].helper /\ fix'[n].bus = fix[n].bus
        /\ fix'[n].trip = fix[n].trip

-----------------------------------------------------------------------------
(* The records of nothing are records.                                       *)
LEMMA Records == NoReq \in ReqRecord /\ NoTrip \in TripRecord /\ NoFix \in FixRecord
  BY BoundsAssumption DEF NoReq, ReqRecord, Pcs, NoTrip, TripRecord, NoFix, FixRecord

(* What the steps of a request do to its record.                             *)
LEMMA GoToType ==
    ASSUME TypeOK, NEW r \in Requests, NEW pc \in Pcs, NEW t \in 0..MaxTrips, GoTo(r, pc, t)
    PROVE  /\ req' \in [Requests -> ReqRecord]
           /\ req'[r].pc = pc /\ req'[r].trip = t /\ req'[r].ask = req[r].ask
           /\ req'[r].helper = req[r].helper /\ req'[r].bus = req[r].bus /\ req'[r].fix = req[r].fix
           /\ \A q \in Requests : q # r => req'[q] = req[q]
  BY DEF TypeOK, GoTo, ReqRecord

(* An answered request is idle, and no other changes.                        *)
LEMMA DoneType ==
    ASSUME TypeOK, NEW r \in Requests, Done(r)
    PROVE  /\ req' \in [Requests -> ReqRecord]
           /\ req'[r] = NoReq /\ req'[r].pc = "idle"
           /\ \A q \in Requests : q # r => req'[q] = req[q]
  BY Records DEF TypeOK, Done, NoReq

(* A request that begins is the one given.                                   *)
LEMMA BeginsType ==
    ASSUME TypeOK, NEW r \in Requests, NEW q \in ReqRecord, Begins(r, q)
    PROVE  /\ req' \in [Requests -> ReqRecord]
           /\ req'[r] = q
           /\ \A p \in Requests : p # r => req'[p] = req[p]
  BY DEF TypeOK, Begins

(* The fields of a request.                                                  *)
LEMMA RequestType ==
    ASSUME TypeOK, NEW r \in Requests
    PROVE  /\ req[r] \in ReqRecord /\ req[r].pc \in Pcs /\ req[r].ask \in BOOLEAN
           /\ req[r].helper \in Helpers \cup {Nobody} /\ req[r].bus \in Buses \cup {Nobody}
           /\ req[r].trip \in 0..MaxTrips /\ req[r].fix \in 0..MaxFixes
  BY DEF TypeOK, ReqRecord

(* The fields of a fix.                                                      *)
LEMMA FixType ==
    ASSUME TypeOK, NEW n \in Fixes
    PROVE  /\ fix[n] \in FixRecord /\ fix[n].helper \in Helpers \cup {Nobody}
           /\ fix[n].bus \in Buses \cup {Nobody} /\ fix[n].trip \in 0..MaxTrips
  BY DEF TypeOK, FixRecord

(* The requests that begin.                                                  *)
LEMMA Beginnings ==
    ASSUME NEW pc \in Pcs, NEW h \in Helpers \cup {Nobody}, NEW b \in Buses \cup {Nobody},
           NEW t \in 0..MaxTrips, NEW n \in 0..MaxFixes
    PROVE  /\ [NoReq EXCEPT !.pc = pc, !.helper = h, !.bus = b] \in ReqRecord
           /\ [NoReq EXCEPT !.pc = pc, !.helper = h, !.trip = t] \in ReqRecord
           /\ [NoReq EXCEPT !.pc = pc, !.helper = h, !.ask = TRUE] \in ReqRecord
           /\ [NoReq EXCEPT !.pc = pc, !.helper = h, !.bus = b, !.fix = n] \in ReqRecord
  <1>1. NoReq \in ReqRecord
    BY Records
  <1>2. [NoReq EXCEPT !.pc = pc, !.helper = h, !.bus = b] \in ReqRecord
    BY <1>1 DEF ReqRecord
  <1>3. [NoReq EXCEPT !.pc = pc, !.helper = h, !.trip = t] \in ReqRecord
    BY <1>1 DEF ReqRecord
  <1>4. [NoReq EXCEPT !.pc = pc, !.helper = h, !.ask = TRUE] \in ReqRecord
    BY <1>1 DEF ReqRecord
  <1>5. [NoReq EXCEPT !.pc = pc, !.helper = h, !.bus = b, !.fix = n] \in ReqRecord
    BY <1>1 DEF ReqRecord
  <1> QED
    BY <1>2, <1>3, <1>4, <1>5

(* The requests the apps make.                                               *)
LEMMA NewRequests ==
    ASSUME TypeOK, NEW h \in Helpers
    PROVE  /\ \A b \in Buses : [NoReq EXCEPT !.pc = "insert", !.helper = h, !.bus = b] \in ReqRecord
           /\ \A t \in Trips : [NoReq EXCEPT !.pc = "close", !.helper = h, !.trip = t] \in ReqRecord
           /\ [NoReq EXCEPT !.pc = "get", !.helper = h, !.ask = TRUE] \in ReqRecord
           /\ \A n \in Fixes : [NoReq EXCEPT !.pc = "get", !.helper = fix[n].helper,
                                             !.bus = fix[n].bus, !.fix = n] \in ReqRecord
  <1>1. {"insert", "close", "get"} \subseteq Pcs /\ Trips \subseteq 0..MaxTrips
           /\ Fixes \subseteq 0..MaxFixes /\ 0 \in 0..MaxTrips /\ 0 \in 0..MaxFixes
    BY BoundsAssumption DEF Pcs, Trips, Fixes
  <1> QED
    BY <1>1, Beginnings, FixType

(* A fix that is answered for.                                               *)
LEMMA FixStates ==
    ASSUME TypeOK, NEW n \in Fixes, NEW st \in {"sent", "dropped"},
           fix' = [fix EXCEPT ![n].state = st]
    PROVE  fix' \in [Fixes -> FixRecord]
  BY DEF TypeOK, FixRecord

(* The answer of get_active_trip.                                            *)
LEMMA ResolvedType ==
    ASSUME TypeOK, Held, NEW r \in Requests, NEW t \in 0..MaxTrips, Resolved(r, t),
           req[r].pc \in {"get", "fill"}
    PROVE  /\ req' \in [Requests -> ReqRecord]
           /\ fix' \in [Fixes -> FixRecord]
           /\ driving' \in [Helpers -> 0..MaxTrips]
  <1>1. req[r].helper \in Helpers /\ (~req[r].ask => req[r].fix \in Fixes)
    BY DEF Held, HeldBy, ForFix
  <1>2. CASE Done(r) /\ driving' = [driving EXCEPT ![req[r].helper] = t] /\ UNCHANGED fix
    BY <1>1, <1>2, DoneType DEF TypeOK
  <1>3. CASE GoTo(r, "push", t) /\ UNCHANGED <<driving, fix>>
    BY <1>3, GoToType DEF TypeOK, Pcs
  <1>4. CASE ~req[r].ask /\ Refused(r) /\ UNCHANGED driving
    BY <1>1, <1>4, DoneType, FixStates DEF Refused, TypeOK
  <1> QED
    BY <1>2, <1>3, <1>4 DEF Resolved

(* The steps within a request.                                               *)
LEMMA MovesType ==
    ASSUME TypeOK, NEW r \in Requests, NEW t \in 0..MaxTrips,
           \E pc \in {"warm", "clear", "lookup", "fill", "late", "push", "file"} : GoTo(r, pc, t)
    PROVE  req' \in [Requests -> ReqRecord]
  <1>1. {"warm", "clear", "lookup", "fill", "late", "push", "file"} \subseteq Pcs
    BY DEF Pcs
  <1> QED
    BY <1>1, GoToType

(* The typing of each step.                                                  *)
LEMMA TypePreserved ==
    ASSUME TypeOK, Held, Owned, FixesOwned, [Next]_vars
    PROVE  TypeOK'
  <1> USE BoundsAssumption DEF TypeOK, Trips, Fixes
  <1>1. ASSUME NEW r \in Requests, NEW h \in Helpers, NEW b \in Buses, BeginStart(r, h, b) PROVE TypeOK'
    BY <1>1, BeginsType, NewRequests DEF BeginStart
  <1>2. ASSUME NEW r \in Requests, Insert(r) PROVE TypeOK'
    <2>1. PICK t \in Trips :
              /\ trip' = [trip EXCEPT ![t] = [status |-> "live", helper |-> req[r].helper,
                                              bus |-> req[r].bus, recent |-> TRUE]]
              /\ GoTo(r, "warm", t)
      BY <1>2 DEF Insert
    <2>2. trip' \in [Trips -> TripRecord]
      BY <2>1, RequestType DEF TripRecord
    <2>3. req' \in [Requests -> ReqRecord]
      BY <2>1, MovesType
    <2> QED
      BY <1>2, <2>2, <2>3 DEF Insert
  <1>3. ASSUME NEW r \in Requests, InsertConflicts(r) PROVE TypeOK'
    BY <1>3, DoneType DEF InsertConflicts
  <1>4. ASSUME NEW r \in Requests, Warm(r) PROVE TypeOK'
    BY <1>4, DoneType, RequestType DEF Warm, At
  <1>5. ASSUME NEW r \in Requests, NEW h \in Helpers, BeginEnd(r, h) PROVE TypeOK'
    <2>1. PICK t \in Trips : Begins(r, [NoReq EXCEPT !.pc = "close", !.helper = h, !.trip = t])
      BY <1>5 DEF BeginEnd, LiveOf
    <2>2. req' \in [Requests -> ReqRecord]
      BY <2>1, BeginsType, NewRequests
    <2> QED
      BY <1>5, <2>2 DEF BeginEnd
  <1>6. ASSUME NEW h \in Helpers, EndNothing(h) PROVE TypeOK'
    BY <1>6 DEF EndNothing
  <1>7. ASSUME NEW r \in Requests, Close(r) PROVE TypeOK'
    <2>1. req[r].trip \in Trips
      BY <1>7 DEF Close, At, Held, HeldBy, HoldsTrip, OfHelper
    <2>2. trip' \in [Trips -> TripRecord]
      <3>1. [trip[req[r].trip] EXCEPT !.status = "completed"] \in TripRecord
        <4>1. trip[req[r].trip] \in TripRecord
          BY <2>1
        <4> HIDE DEF TypeOK
        <4> QED
          BY <4>1 DEF TripRecord
      <3>2. trip' = [trip EXCEPT ![req[r].trip] = [trip[req[r].trip] EXCEPT !.status = "completed"]]
        BY <1>7 DEF Close
      <3> QED
        BY <2>1, <3>1, <3>2
    <2>3. req' \in [Requests -> ReqRecord]
      BY <1>7, <2>1, MovesType DEF Close
    <2>4. doubt' \subseteq Trips
      BY <1>7, <2>1 DEF Close
    <2> QED
      BY <1>7, <2>2, <2>3, <2>4 DEF Close
  <1>8. ASSUME NEW r \in Requests, Clear(r) PROVE TypeOK'
    <2>1. req[r].trip \in Trips /\ req[r].helper \in Helpers
      BY <1>8 DEF Clear, At, Held, HeldBy, HoldsTrip, OfHelper
    <2>2. req' \in [Requests -> ReqRecord]
      BY <1>8, DoneType DEF Clear
    <2>3. cache' \in [Helpers -> 0..MaxTrips]
      BY <1>8, <2>1 DEF Clear
    <2>4. doubt' \subseteq Trips
      <3>1. doubt' = doubt \/ doubt' = doubt \cup {req[r].trip}
        BY <1>8 DEF Clear
      <3>2. doubt \subseteq Trips
        OBVIOUS
      <3> QED
        BY <2>1, <3>1, <3>2
    <2> QED
      BY <1>8, <2>2, <2>3, <2>4 DEF Clear
  <1>9. ASSUME NEW h \in Helpers, Take(h) PROVE TypeOK'
    <2>1. PICK n \in Fixes : fix' = [fix EXCEPT ![n] = [state |-> "queued", helper |-> h,
                                        bus |-> trip[driving[h]].bus, trip |-> driving[h]]]
      BY <1>9 DEF Take
    <2>2. trip[driving[h]].bus \in Buses \cup {Nobody}
      BY <1>9 DEF Take, Owned, OfHelper, TripRecord
    <2>3. fix' \in [Fixes -> FixRecord]
      BY <2>1, <2>2 DEF FixRecord
    <2> QED
      BY <1>9, <2>3 DEF Take
  <1>10. ASSUME NEW r \in Requests, NEW n \in Fixes, Send(r, n) PROVE TypeOK'
    <2>1. fix[n].helper \in Helpers
      BY <1>10 DEF Send, FixesOwned
    <2> QED
      BY <1>10, <2>1, BeginsType, NewRequests DEF Send
  <1>11. ASSUME NEW r \in Requests, NEW h \in Helpers, AskActive(r, h) PROVE TypeOK'
    BY <1>11, BeginsType, NewRequests DEF AskActive
  <1>12. ASSUME NEW r \in Requests, Hit(r) PROVE TypeOK'
    <2>1. req[r].helper \in Helpers
      BY <1>12 DEF Hit, At, Held, HeldBy
    <2> QED
      BY <1>12, <2>1, ResolvedType DEF Hit, At
  <1>13. ASSUME NEW r \in Requests, Miss(r) PROVE TypeOK'
    <2>1. req' \in [Requests -> ReqRecord]
      BY <1>13, MovesType DEF Miss
    <2> QED
      BY <1>13, <2>1 DEF Miss
  <1>14. ASSUME NEW r \in Requests, Lookup(r) PROVE TypeOK'
    <2>1. PICK t \in Trips : GoTo(r, "fill", t)
      BY <1>14 DEF Lookup, LiveOf
    <2>2. req' \in [Requests -> ReqRecord]
      BY <2>1, MovesType
    <2> QED
      BY <1>14, <2>2 DEF Lookup
  <1>15. ASSUME NEW r \in Requests, LookupNothing(r) PROVE TypeOK'
    <2>1. req[r].helper \in Helpers
      BY <1>15 DEF LookupNothing, At, Held, HeldBy
    <2>2. req' \in [Requests -> ReqRecord]
      <3>1. CASE Done(r)
        BY <3>1, DoneType
      <3>2. CASE GoTo(r, "late", 0)
        BY <3>2, MovesType
      <3> QED
        BY <1>15, <3>1, <3>2 DEF LookupNothing
    <2>3. driving' \in [Helpers -> 0..MaxTrips]
      BY <1>15, <2>1 DEF LookupNothing
    <2> QED
      BY <1>15, <2>2, <2>3 DEF LookupNothing
  <1>16. ASSUME NEW r \in Requests, Fill(r) PROVE TypeOK'
    <2>1. req[r].helper \in Helpers /\ req[r].trip \in 0..MaxTrips
      BY <1>16, RequestType DEF Fill, At, Held, HeldBy
    <2> QED
      BY <1>16, <2>1, ResolvedType DEF Fill, At
  <1>17. ASSUME NEW r \in Requests, Late(r) PROVE TypeOK'
    <2>1. CASE \E t \in JustEnded(req[r].helper, req[r].bus) : GoTo(r, "file", t) /\ UNCHANGED fix
      <3>1. PICK t \in Trips : GoTo(r, "file", t)
        BY <2>1 DEF JustEnded
      <3>2. req' \in [Requests -> ReqRecord]
        BY <3>1, MovesType
      <3> QED
        BY <1>17, <2>1, <3>2 DEF Late
    <2>2. CASE Refused(r)
      <3>1. req[r].fix \in Fixes
        BY <1>17 DEF Late, At, Held, HeldBy, ForFix
      <3> QED
        BY <1>17, <2>2, <3>1, DoneType, FixStates DEF Late, Refused
    <2> QED
      BY <1>17, <2>1, <2>2 DEF Late
  <1>18. ASSUME NEW r \in Requests, Push(r) PROVE TypeOK'
    <2>1. req[r].trip \in Trips /\ req[r].fix \in Fixes
      BY <1>18 DEF Push, Held, HeldBy, HoldsTrip, ForFix, OfHelper
    <2>2. fix' \in [Fixes -> FixRecord]
      BY <1>18, <2>1, FixStates DEF Push
    <2>3. pos' \in [Buses -> 0..MaxTrips]
      BY <1>18, <2>1, BoundsAssumption, RequestType DEF Push
    <2> QED
      BY <1>18, <2>1, <2>2, <2>3, DoneType DEF Push
  <1>19. ASSUME NEW r \in Requests, Dies(r) PROVE TypeOK'
    <2>1. At(r, "clear") => req[r].trip \in Trips
      BY DEF At, Held, HeldBy, HoldsTrip, OfHelper
    <2> QED
      BY <1>19, <2>1, DoneType DEF Dies
  <1>20. ASSUME NEW h \in Helpers, CacheExpires(h) PROVE TypeOK'
    BY <1>20 DEF CacheExpires
  <1>21. ASSUME NEW b \in Buses, PosExpires(b) PROVE TypeOK'
    BY <1>21 DEF PosExpires
  <1>22. ASSUME NEW t \in Trips, GraceOver(t) PROVE TypeOK'
    BY <1>22 DEF GraceOver, TripRecord
  <1>23. CASE UNCHANGED vars
    BY <1>23 DEF vars
  <1> QED
    BY <1>1, <1>2, <1>3, <1>4, <1>5, <1>6, <1>7, <1>8, <1>9, <1>10, <1>11, <1>12,
       <1>13, <1>14, <1>15, <1>16, <1>17, <1>18, <1>19, <1>20, <1>21, <1>22, <1>23
       DEF Next, AppStep, LifecycleStep, IngestStep

(* Who changes what.                                                         *)
LEMMA Movers ==
    ASSUME [Next]_vars
    PROVE
       /\ \/ UNCHANGED trip
          \/ \E r \in Requests : Insert(r) \/ Close(r)
          \/ \E t \in Trips : GraceOver(t)
       /\ \/ UNCHANGED fix
          \/ \E r \in Requests : Hit(r) \/ Fill(r) \/ Late(r) \/ Push(r)
          \/ \E h \in Helpers : Take(h)
       /\ \/ UNCHANGED filed
          \/ \E r \in Requests : Push(r)
       /\ \/ UNCHANGED <<filed, pos>>
          \/ \E r \in Requests : Push(r)
          \/ \E b \in Buses : PosExpires(b)
       /\ \/ UNCHANGED cache
          \/ \E r \in Requests : Warm(r) \/ Clear(r) \/ Fill(r)
          \/ \E h \in Helpers : CacheExpires(h)
       /\ \/ UNCHANGED <<cache, driving, pos>>
          \/ \E r \in Requests : Warm(r) \/ Clear(r) \/ Hit(r) \/ LookupNothing(r) \/ Fill(r) \/ Push(r)
          \/ \E r \in Requests : \E h \in Helpers : BeginEnd(r, h)
          \/ \E h \in Helpers : EndNothing(h)
          \/ \E h \in Helpers : CacheExpires(h)
          \/ \E b \in Buses : PosExpires(b)
       /\ \/ UNCHANGED doubt
          \/ \E r \in Requests : Close(r) \/ Clear(r) \/ Dies(r)
  <1>1. \/ UNCHANGED trip
        \/ \E r \in Requests : Insert(r) \/ Close(r)
        \/ \E t \in Trips : GraceOver(t)
    BY DEF Next, vars, AppStep, LifecycleStep, IngestStep,
           BeginStart, InsertConflicts, Warm, BeginEnd, EndNothing, Clear, Take,
           Send, AskActive, Hit, Miss, Lookup, LookupNothing, Fill, Late, Push,
           Dies, CacheExpires, PosExpires
  <1>2. \/ UNCHANGED fix
        \/ \E r \in Requests : Hit(r) \/ Fill(r) \/ Late(r) \/ Push(r)
        \/ \E h \in Helpers : Take(h)
    BY DEF Next, vars, AppStep, LifecycleStep, IngestStep,
           BeginStart, Insert, InsertConflicts, Warm, BeginEnd, EndNothing, Close,
           Clear, Send, AskActive, Miss, Lookup, LookupNothing, Dies,
           CacheExpires, PosExpires, GraceOver
  <1>3. \/ UNCHANGED filed
        \/ \E r \in Requests : Push(r)
    BY DEF Next, vars, AppStep, LifecycleStep, IngestStep,
           BeginStart, Insert, InsertConflicts, Warm, BeginEnd, EndNothing, Close,
           Clear, Take, Send, AskActive, Hit, Miss, Lookup, LookupNothing, Fill,
           Late, Dies, CacheExpires, PosExpires, GraceOver
  <1>4. \/ UNCHANGED <<filed, pos>>
        \/ \E r \in Requests : Push(r)
        \/ \E b \in Buses : PosExpires(b)
    BY DEF Next, vars, AppStep, LifecycleStep, IngestStep,
           BeginStart, Insert, InsertConflicts, Warm, BeginEnd, EndNothing, Close,
           Clear, Take, Send, AskActive, Hit, Miss, Lookup, LookupNothing, Fill,
           Late, Dies, CacheExpires, GraceOver
  <1>5. \/ UNCHANGED cache
        \/ \E r \in Requests : Warm(r) \/ Clear(r) \/ Fill(r)
        \/ \E h \in Helpers : CacheExpires(h)
    BY DEF Next, vars, AppStep, LifecycleStep, IngestStep,
           BeginStart, Insert, InsertConflicts, BeginEnd, EndNothing, Close, Take,
           Send, AskActive, Hit, Miss, Lookup, LookupNothing, Late, Push, Dies,
           PosExpires, GraceOver
  <1>6. \/ UNCHANGED <<cache, driving, pos>>
        \/ \E r \in Requests : Warm(r) \/ Clear(r) \/ Hit(r) \/ LookupNothing(r) \/ Fill(r) \/ Push(r)
        \/ \E r \in Requests : \E h \in Helpers : BeginEnd(r, h)
        \/ \E h \in Helpers : EndNothing(h)
        \/ \E h \in Helpers : CacheExpires(h)
        \/ \E b \in Buses : PosExpires(b)
    BY DEF Next, vars, AppStep, LifecycleStep, IngestStep,
           BeginStart, Insert, InsertConflicts, Close, Take, Send, AskActive,
           Miss, Lookup, Late, Dies, GraceOver
  <1>7. \/ UNCHANGED doubt
        \/ \E r \in Requests : Close(r) \/ Clear(r) \/ Dies(r)
    BY DEF Next, vars, AppStep, LifecycleStep, IngestStep,
           BeginStart, Insert, InsertConflicts, Warm, BeginEnd, EndNothing, Take,
           Send, AskActive, Hit, Miss, Lookup, LookupNothing, Fill, Late, Push,
           CacheExpires, PosExpires, GraceOver
  <1> QED
    BY <1>1, <1>2, <1>3, <1>4, <1>5, <1>6, <1>7

(* A row keeps its helper and its bus, and a trip that is over stays so.       *)
LEMMA TripsGrow ==
    ASSUME TypeOK, Held, [Next]_vars
    PROVE  TripsKeep
  <1> USE DEF TypeOK, TripsKeep, Started, Trips
  <1>1. ASSUME NEW r \in Requests, Insert(r) PROVE TripsKeep
    <2>1. PICK t \in Trips :
              /\ trip[t].status = "none"
              /\ trip' = [trip EXCEPT ![t] = [status |-> "live", helper |-> req[r].helper,
                                              bus |-> req[r].bus, recent |-> TRUE]]
      BY <1>1 DEF Insert, IsNext
    <2> QED
      BY <2>1
  <1>2. ASSUME NEW r \in Requests, Close(r) PROVE TripsKeep
    <2>1. trip' = [trip EXCEPT ![req[r].trip].status = "completed"]
      BY <1>2 DEF Close
    <2>2. req[r].trip \in Trips /\ Started(req[r].trip)
      BY <1>2 DEF Close, At, Held, HeldBy, HoldsTrip, OfHelper
    <2> QED
      BY <2>1, <2>2 DEF TripRecord
  <1>3. ASSUME NEW t \in Trips, GraceOver(t) PROVE TripsKeep
    BY <1>3 DEF GraceOver, TripRecord
  <1>4. CASE UNCHANGED trip
    BY <1>4
  <1> QED
    BY <1>1, <1>2, <1>3, <1>4, Movers

(* A fix keeps its helper, its bus and its trip.                              *)
LEMMA FixesGrow ==
    ASSUME TypeOK, [Next]_vars
    PROVE  FixesKeep
  <1> USE DEF TypeOK, FixesKeep
  <1>1. ASSUME NEW h \in Helpers, Take(h) PROVE FixesKeep
    BY <1>1 DEF Take, IsNext
  <1>2. ASSUME NEW r \in Requests, Hit(r) PROVE FixesKeep
    <2>1. CASE UNCHANGED fix
      BY <2>1
    <2>2. CASE Refused(r)
      BY <2>2 DEF Refused, FixRecord
    <2> QED
      BY <1>2, <2>1, <2>2 DEF Hit, Resolved
  <1>3. ASSUME NEW r \in Requests, Fill(r) PROVE FixesKeep
    <2>1. CASE UNCHANGED fix
      BY <2>1
    <2>2. CASE Refused(r)
      BY <2>2 DEF Refused, FixRecord
    <2> QED
      BY <1>3, <2>1, <2>2 DEF Fill, Resolved
  <1>4. ASSUME NEW r \in Requests, Late(r) PROVE FixesKeep
    <2>1. CASE UNCHANGED fix
      BY <2>1
    <2>2. CASE Refused(r)
      BY <2>2 DEF Refused, FixRecord
    <2> QED
      BY <1>4, <2>1, <2>2 DEF Late
  <1>5. ASSUME NEW r \in Requests, Push(r) PROVE FixesKeep
    <2>1. CASE UNCHANGED fix
      BY <2>1
    <2>2. CASE fix' = [fix EXCEPT ![req[r].fix].state = "sent"]
      BY <2>2 DEF FixRecord
    <2> QED
      BY <1>5, <2>1, <2>2 DEF Push
  <1>6. CASE UNCHANGED fix
    BY <1>6
  <1> QED
    BY <1>1, <1>2, <1>3, <1>4, <1>5, <1>6, Movers

(* Trips follow one another.                                                 *)
LEMMA InOrderPreserved ==
    ASSUME TypeOK, InOrder, Held, [Next]_vars
    PROVE  InOrder'
  <1> USE DEF TypeOK, InOrder, Started, Trips
  <1>1. ASSUME NEW r \in Requests, Insert(r) PROVE InOrder'
    <2>1. PICK t \in Trips :
              /\ IsNext({u \in Trips : trip[u].status # "none"}, t)
              /\ trip' = [trip EXCEPT ![t] = [status |-> "live", helper |-> req[r].helper,
                                              bus |-> req[r].bus, recent |-> TRUE]]
      BY <1>1 DEF Insert
    <2>2. req[r].helper \in Helpers /\ req[r].bus \in Buses
      BY <1>1 DEF Insert, At, Held, HeldBy
    <2>3. \A u \in Trips : trip[u].status = "live" => trip[u].helper # req[r].helper
      BY <1>1 DEF Insert, LiveOf, Live
    <2>4. trip[t].status = "none" /\ \A u \in 1..(t - 1) : u \in Trips /\ Started(u)
      BY <2>1, BoundsAssumption DEF IsNext
    <2>5. \A u \in Trips : Started(u) => u < t
      BY <2>4, BoundsAssumption
    <2>6. \A u \in Trips : trip[u].status \in {"none", "live", "completed"}
      BY DEF TripRecord
    <2> QED
      BY <2>1, <2>2, <2>3, <2>4, <2>5, <2>6, BoundsAssumption
  <1>2. ASSUME NEW r \in Requests, Close(r) PROVE InOrder'
    <2>1. trip' = [trip EXCEPT ![req[r].trip].status = "completed"]
      BY <1>2 DEF Close
    <2>2. req[r].trip \in Trips /\ Started(req[r].trip)
      BY <1>2 DEF Close, At, Held, HeldBy, HoldsTrip, OfHelper
    <2> QED
      BY <2>1, <2>2 DEF TripRecord
  <1>3. ASSUME NEW t \in Trips, GraceOver(t) PROVE InOrder'
    <2>1. /\ trip' = [trip EXCEPT ![t].recent = FALSE]
          /\ \A u \in 1..(t - 1) : ~(trip[u].helper = trip[t].helper /\ trip[u].recent)
      BY <1>3 DEF GraceOver
    <2> QED
      BY <2>1, BoundsAssumption DEF TripRecord
  <1>4. CASE UNCHANGED trip
    BY <1>4
  <1> QED
    BY <1>1, <1>2, <1>3, <1>4, Movers

(* Nothing is held for anyone else.                                          *)
LEMMA OwnedPreserved ==
    ASSUME TypeOK, Owned, Held, TripsKeep, [Next]_vars
    PROVE  Owned'
  <1> USE DEF TypeOK, Owned, TripsKeep, OfHelper, Started, Trips
  <1>1. ASSUME NEW r \in Requests, Warm(r) PROVE Owned'
    <2>1. OfHelper(req[r].trip, req[r].helper) /\ req[r].helper \in Helpers
      BY <1>1 DEF Warm, At, Held, HeldBy, HoldsTrip
    <2> QED
      BY <1>1, <2>1 DEF Warm
  <1>2. ASSUME NEW r \in Requests, NEW h \in Helpers, BeginEnd(r, h) PROVE Owned'
    BY <1>2 DEF BeginEnd
  <1>3. ASSUME NEW h \in Helpers, EndNothing(h) PROVE Owned'
    BY <1>3 DEF EndNothing
  <1>4. ASSUME NEW r \in Requests, Clear(r) PROVE Owned'
    <2>1. req[r].helper \in Helpers
      BY <1>4 DEF Clear, At, Held, HeldBy
    <2> QED
      BY <1>4, <2>1 DEF Clear
  <1>5. ASSUME NEW r \in Requests, Hit(r) PROVE Owned'
    <2>1. \/ UNCHANGED driving
          \/ driving' = [driving EXCEPT ![req[r].helper] = cache[req[r].helper]]
      BY <1>5 DEF Hit, Resolved, Refused
    <2>2. req[r].helper \in Helpers
      BY <1>5 DEF  Hit, At, Held, HeldBy
    <2> QED
      BY <1>5, <2>1, <2>2 DEF Hit
  <1>6. ASSUME NEW r \in Requests, LookupNothing(r) PROVE Owned'
    <2>1. \/ UNCHANGED driving
          \/ driving' = [driving EXCEPT ![req[r].helper] = 0]
      BY <1>6 DEF LookupNothing
    <2>2. req[r].helper \in Helpers
      BY <1>6 DEF LookupNothing, At, Held, HeldBy
    <2> QED
      BY <1>6, <2>1, <2>2 DEF LookupNothing
  <1>7. ASSUME NEW r \in Requests, Fill(r) PROVE Owned'
    <2>1. \/ UNCHANGED driving
          \/ driving' = [driving EXCEPT ![req[r].helper] = req[r].trip]
      BY <1>7 DEF Fill, Resolved, Refused
    <2>2. req[r].helper \in Helpers /\ OfHelper(req[r].trip, req[r].helper)
      BY <1>7 DEF Fill, At, Held, HeldBy, HoldsTrip
    <2>3. \/ UNCHANGED cache
          \/ cache' = [cache EXCEPT ![req[r].helper] = req[r].trip]
      BY <1>7 DEF Fill
    <2>4. UNCHANGED <<trip, pos>>
      BY <1>7 DEF Fill
    <2>5. ASSUME NEW h \in Helpers
          PROVE  /\ cache'[h] # 0 => OfHelper(cache'[h], h)
                 /\ driving'[h] # 0 => OfHelper(driving'[h], h)
      <3>1. h # req[r].helper => cache'[h] = cache[h] /\ driving'[h] = driving[h]
        BY <2>1, <2>3
      <3>2. /\ cache'[h] \in {cache[h], req[r].trip} /\ driving'[h] \in {driving[h], req[r].trip}
        BY <2>1, <2>3
      <3> QED
        BY <2>2, <3>1, <3>2
    <2> QED
      BY <2>4, <2>5
  <1>8. ASSUME NEW r \in Requests, Push(r) PROVE Owned'
    <2>1. /\ req[r].trip \in Trips /\ Started(req[r].trip)
          /\ trip[req[r].trip].bus = req[r].bus
      BY <1>8 DEF Push, Held, HeldBy, HoldsTrip, OfHelper
    <2> QED
      BY <1>8, <2>1 DEF Push
  <1>9. ASSUME NEW h \in Helpers, CacheExpires(h) PROVE Owned'
    BY <1>9 DEF CacheExpires
  <1>10. ASSUME NEW b \in Buses, PosExpires(b) PROVE Owned'
    BY <1>10 DEF PosExpires
  <1>11. CASE UNCHANGED <<cache, driving, pos>>
    <2>0. Owned /\ TripsKeep
      OBVIOUS
    <2> HIDE DEF TypeOK, Owned, TripsKeep, Trips
    <2>1. \A t \in Trips, h \in Helpers : OfHelper(t, h) => OfHelper(t, h)'
      BY <2>0 DEF TripsKeep
    <2>2. \A t \in Trips, b \in Buses : Started(t) /\ trip[t].bus = b =>
            Started(t)' /\ trip'[t].bus = b
      BY <2>0 DEF TripsKeep
    <2> HIDE DEF Started
    <2>3. \A t, h : OfHelper(t, h) => t \in Trips
      OBVIOUS
    <2> HIDE DEF OfHelper
    <2> QED
      BY <1>11, <2>0, <2>1, <2>2, <2>3 DEF Owned
  <1> QED
    BY <1>1, <1>2, <1>3, <1>4, <1>5, <1>6, <1>7, <1>8, <1>9, <1>10, <1>11, Movers

(* An answer makes no fix.                                                   *)
LEMMA FixesStart ==
    ASSUME TypeOK, Held, NEW r \in Requests,
           \/ UNCHANGED fix
           \/ ForFix(r) /\ Refused(r)
           \/ ForFix(r) /\ fix' = [fix EXCEPT ![req[r].fix].state = "sent"]
    PROVE  \A n \in Fixes : fix'[n].state # "none" => fix[n].state # "none"
  <1>1. ForFix(r) => req[r].fix \in Fixes /\ fix[req[r].fix].state # "none"
    BY DEF Held, HeldBy
  <1> QED
    BY <1>1 DEF TypeOK, FixRecord, Refused

(* Fixes are of their helper's trips.                                        *)
LEMMA FixesOwnedPreserved ==
    ASSUME TypeOK, Owned, Held, FixesOwned, TripsKeep, FixesKeep, [Next]_vars
    PROVE  FixesOwned'
  <1> USE DEF FixesOwned, TripsKeep, FixesKeep, OfHelper, Started
  <1>1. ASSUME NEW h \in Helpers, Take(h) PROVE FixesOwned'
    <2>1. PICK n \in Fixes : fix' = [fix EXCEPT ![n] = [state |-> "queued", helper |-> h,
                                        bus |-> trip[driving[h]].bus, trip |-> driving[h]]]
      BY <1>1 DEF Take
    <2>2. OfHelper(driving[h], h)
      BY <1>1 DEF Take, Owned
    <2>3. UNCHANGED trip
      BY <1>1 DEF Take
    <2> QED
      BY <2>1, <2>2, <2>3 DEF TypeOK
  <1>2. ASSUME NEW r \in Requests, Hit(r) PROVE FixesOwned'
    <2>1. \A n \in Fixes : fix'[n].state # "none" => fix[n].state # "none"
      BY <1>2, FixesStart DEF Hit, At, Resolved, ForFix
    <2> QED
      BY <2>1
  <1>3. ASSUME NEW r \in Requests, Fill(r) PROVE FixesOwned'
    <2>1. \A n \in Fixes : fix'[n].state # "none" => fix[n].state # "none"
      BY <1>3, FixesStart DEF Fill, At, Resolved, ForFix
    <2> QED
      BY <2>1
  <1>4. ASSUME NEW r \in Requests, Late(r) PROVE FixesOwned'
    <2>1. \A n \in Fixes : fix'[n].state # "none" => fix[n].state # "none"
      BY <1>4, FixesStart DEF Late, At, ForFix
    <2> QED
      BY <2>1
  <1>5. ASSUME NEW r \in Requests, Push(r) PROVE FixesOwned'
    <2>1. \A n \in Fixes : fix'[n].state # "none" => fix[n].state # "none"
      BY <1>5, FixesStart DEF Push, ForFix
    <2> QED
      BY <2>1
  <1>6. CASE UNCHANGED fix
    BY <1>6
  <1> QED
    BY <1>1, <1>2, <1>3, <1>4, <1>5, <1>6, Movers

(* What a request holds stays so while others step.                          *)
LEMMA OthersHold ==
    ASSUME Held, TripsKeep, FixesKeep, NEW q \in Requests, req'[q] = req[q]
    PROVE  HeldBy(q)'
  BY DEF Held, HeldBy, TripsKeep, FixesKeep, HoldsTrip, ForFix, OfHelper, Started

(* An answered request holds nothing.                                        *)
LEMMA HeldDone ==
    ASSUME TypeOK, Held, TripsKeep, FixesKeep, NEW r \in Requests, Done(r)
    PROVE  Held'
  <1>1. HeldBy(r)'
    BY DoneType DEF HeldBy, HoldsTrip, ForFix
  <1> QED
    BY <1>1, DoneType, OthersHold DEF Held, HeldBy

(* What a new request must hold.                                             *)
LEMMA HeldBegins ==
    ASSUME TypeOK, Held, TripsKeep, FixesKeep, NEW r \in Requests, NEW rec \in ReqRecord,
           Begins(r, rec), HeldBy(r)'
    PROVE  Held'
  BY BeginsType, OthersHold DEF Held, HeldBy

(* The apps' requests hold what they must.                                   *)
LEMMA BeginsHold ==
    ASSUME TypeOK, Held, TripsKeep, FixesKeep, NEW r \in Requests, NEW h \in Helpers,
           \/ \E b \in Buses : Begins(r, [NoReq EXCEPT !.pc = "insert", !.helper = h, !.bus = b])
           \/ /\ UNCHANGED trip
              /\ \E t \in Trips : /\ OfHelper(t, h)
                                 /\ Begins(r, [NoReq EXCEPT !.pc = "close", !.helper = h, !.trip = t])
           \/ Begins(r, [NoReq EXCEPT !.pc = "get", !.helper = h, !.ask = TRUE])
           \/ /\ UNCHANGED fix
              /\ \E n \in Fixes : /\ fix[n].state # "none" /\ fix[n].helper = h
                                 /\ Begins(r, [NoReq EXCEPT !.pc = "get", !.helper = fix[n].helper,
                                                           !.bus = fix[n].bus, !.fix = n])
    PROVE  Held'
  <1>1. ASSUME NEW b \in Buses, Begins(r, [NoReq EXCEPT !.pc = "insert", !.helper = h, !.bus = b])
        PROVE  Held'
    <2>3. [NoReq EXCEPT !.pc = "insert", !.helper = h, !.bus = b] \in ReqRecord
      BY NewRequests
    <2>1. req'[r] = [NoReq EXCEPT !.pc = "insert", !.helper = h, !.bus = b]
      BY <1>1, <2>3, BeginsType
    <2>2. HeldBy(r)'
      BY <2>1, Records DEF HeldBy, HoldsTrip, ForFix, ReqRecord
    <2> QED
      BY <1>1, <2>2, <2>3, HeldBegins
  <1>2. ASSUME UNCHANGED trip, NEW t \in Trips, OfHelper(t, h),
               Begins(r, [NoReq EXCEPT !.pc = "close", !.helper = h, !.trip = t])
        PROVE  Held'
    <2>3. [NoReq EXCEPT !.pc = "close", !.helper = h, !.trip = t] \in ReqRecord
      BY NewRequests
    <2>1. req'[r] = [NoReq EXCEPT !.pc = "close", !.helper = h, !.trip = t]
      BY <1>2, <2>3, BeginsType
    <2>2. HeldBy(r)'
      BY <1>2, <2>1, Records DEF HeldBy, HoldsTrip, ForFix, ReqRecord, OfHelper, Started
    <2> QED
      BY <1>2, <2>2, <2>3, HeldBegins
  <1>3. ASSUME Begins(r, [NoReq EXCEPT !.pc = "get", !.helper = h, !.ask = TRUE])
        PROVE  Held'
    <2>3. [NoReq EXCEPT !.pc = "get", !.helper = h, !.ask = TRUE] \in ReqRecord
      BY NewRequests
    <2>1. req'[r] = [NoReq EXCEPT !.pc = "get", !.helper = h, !.ask = TRUE]
      BY <1>3, <2>3, BeginsType
    <2>2. HeldBy(r)'
      BY <2>1, Records DEF HeldBy, HoldsTrip, ForFix, ReqRecord
    <2> QED
      BY <1>3, <2>2, <2>3, HeldBegins
  <1>4. ASSUME UNCHANGED fix, NEW n \in Fixes, fix[n].state # "none", fix[n].helper = h,
               Begins(r, [NoReq EXCEPT !.pc = "get", !.helper = fix[n].helper,
                                       !.bus = fix[n].bus, !.fix = n])
        PROVE  Held'
    <2>3. [NoReq EXCEPT !.pc = "get", !.helper = fix[n].helper,
                             !.bus = fix[n].bus, !.fix = n] \in ReqRecord
      BY NewRequests
    <2>1. req'[r] = [NoReq EXCEPT !.pc = "get", !.helper = fix[n].helper,
                                  !.bus = fix[n].bus, !.fix = n]
      BY <1>4, <2>3, BeginsType
    <2>2. HeldBy(r)'
      BY <1>4, <2>1, Records DEF HeldBy, HoldsTrip, ForFix, ReqRecord
    <2> QED
      BY <1>4, <2>2, <2>3, HeldBegins
  <1> QED
    BY <1>1, <1>2, <1>3, <1>4

(* What a step within a request must hold.                                   *)
LEMMA HeldGoTo ==
    ASSUME TypeOK, Held, TripsKeep, FixesKeep, NEW r \in Requests, NEW k \in Pcs,
           NEW t \in 0..MaxTrips, GoTo(r, k, t),
           k \notin {"idle", "insert", "get"}, req[r].pc # "idle",
           k \in {"warm", "close", "clear", "fill", "push", "file"} => OfHelperNext(t, req[r].helper),
           k \in {"push", "file"} => trip'[t].bus = req[r].bus,
           k \in {"lookup", "fill"} /\ ~req[r].ask => ForFix(r),
           k \in {"late", "push", "file"} => ForFix(r)
    PROVE  Held'
  <1>1. HeldBy(r)'
    <2>1. /\ req'[r].pc = k /\ req'[r].trip = t /\ req'[r].ask = req[r].ask
          /\ req'[r].helper = req[r].helper /\ req'[r].bus = req[r].bus /\ req'[r].fix = req[r].fix
      BY GoToType
    <2>2. HeldBy(r)
      BY DEF Held, HeldBy
    <2> QED
      BY <2>1, <2>2 DEF HeldBy, FixesKeep, OfHelper, OfHelperNext, HoldsTrip, ForFix, Started
  <1> QED
    BY <1>1, GoToType, OthersHold DEF Held, HeldBy

(* A trip that is resolved is held for its helper.                           *)
LEMMA HeldResolved ==
    ASSUME TypeOK, Held, TripsKeep, FixesKeep, NEW r \in Requests, NEW t \in Trips,
           Resolved(r, t), req[r].pc \in {"get", "fill"},
           OfHelper(t, req[r].helper), UNCHANGED trip
    PROVE  Held'
  <1>1. CASE Done(r)
    BY <1>1, HeldDone
  <1>2. CASE ~req[r].ask /\ trip[t].bus = req[r].bus /\ GoTo(r, "push", t)
    <2>1. "push" \in Pcs /\ t \in 0..MaxTrips
      BY BoundsAssumption DEF Pcs, Trips
    <2>2. OfHelperNext(t, req[r].helper) /\ trip'[t].bus = req[r].bus
      BY <1>2 DEF OfHelper, OfHelperNext, Started
    <2>3. ForFix(r)
      BY <1>2 DEF ForFix
    <2> QED
      BY <1>2, <2>1, <2>2, <2>3, HeldGoTo
  <1> QED
    BY <1>1, <1>2 DEF Resolved, Refused

(* What a request holds.                                                     *)
LEMMA HeldPreserved ==
    ASSUME TypeOK, Owned, FixesOwned, Held, TripsKeep, FixesKeep, [Next]_vars
    PROVE  Held'
  <1>1. ASSUME NEW r \in Requests, NEW h \in Helpers, NEW b \in Buses, BeginStart(r, h, b) PROVE Held'
    BY <1>1, BeginsHold DEF BeginStart
  <1>2. ASSUME NEW r \in Requests, Insert(r) PROVE Held'
    <2>1. PICK t \in Trips :
              /\ GoTo(r, "warm", t)
              /\ trip' = [trip EXCEPT ![t] = [status |-> "live", helper |-> req[r].helper,
                                              bus |-> req[r].bus, recent |-> TRUE]]
      BY <1>2 DEF Insert
    <2>2. OfHelperNext(t, req[r].helper)
      BY <2>1 DEF OfHelper, OfHelperNext, Started, TypeOK
    <2>3. t \in 0..MaxTrips /\ "warm" \in Pcs
      BY BoundsAssumption DEF Trips, Pcs
    <2> QED
      BY <1>2, <2>1, <2>2, <2>3, HeldGoTo DEF Insert, At
  <1>3. ASSUME NEW r \in Requests, InsertConflicts(r) PROVE Held'
    BY <1>3, HeldDone DEF InsertConflicts
  <1>4. ASSUME NEW r \in Requests, Warm(r) PROVE Held'
    BY <1>4, HeldDone DEF Warm
  <1>5. ASSUME NEW r \in Requests, NEW h \in Helpers, BeginEnd(r, h) PROVE Held'
    <2>1. PICK t \in LiveOf(h) : Begins(r, [NoReq EXCEPT !.pc = "close", !.helper = h, !.trip = t])
      BY <1>5 DEF BeginEnd
    <2>2. t \in Trips /\ OfHelper(t, h)
      BY <2>1 DEF LiveOf, Live, OfHelper, Started
    <2> QED
      BY <1>5, <2>1, <2>2, BeginsHold DEF BeginEnd
  <1>6. ASSUME NEW h \in Helpers, EndNothing(h) PROVE Held'
    BY <1>6, OthersHold DEF EndNothing, Held, HeldBy
  <1>7. ASSUME NEW r \in Requests, Close(r) PROVE Held'
    <2>1. GoTo(r, "clear", req[r].trip) /\ req[r].pc = "close"
      BY <1>7 DEF Close, At
    <2>2. OfHelper(req[r].trip, req[r].helper)
      BY <2>1 DEF Held, HeldBy, HoldsTrip
    <2>3. req[r].trip \in 0..MaxTrips /\ "clear" \in Pcs
      BY RequestType DEF Pcs
    <2>5. OfHelperNext(req[r].trip, req[r].helper)
      BY <2>2 DEF OfHelper, OfHelperNext, TripsKeep, Started
    <2>6. PICK t \in 0..MaxTrips : t = req[r].trip
      BY <2>3
    <2> QED
      BY <2>1, <2>3, <2>5, <2>6, HeldGoTo
  <1>8. ASSUME NEW r \in Requests, Clear(r) PROVE Held'
    BY <1>8, HeldDone DEF Clear
  <1>9. ASSUME NEW h \in Helpers, Take(h) PROVE Held'
    BY <1>9, OthersHold DEF Take, Held, HeldBy
  <1>10. ASSUME NEW r \in Requests, NEW n \in Fixes, Send(r, n) PROVE Held'
    <2>1. fix[n].helper \in Helpers /\ fix[n].state # "none"
      BY <1>10 DEF Send, FixesOwned
    <2> QED
      BY <1>10, <2>1, BeginsHold DEF Send
  <1>11. ASSUME NEW r \in Requests, NEW h \in Helpers, AskActive(r, h) PROVE Held'
    BY <1>11, BeginsHold DEF AskActive
  <1>12. ASSUME NEW r \in Requests, Hit(r) PROVE Held'
    <2>1. OfHelper(cache[req[r].helper], req[r].helper) /\ req[r].pc = "get"
      BY <1>12 DEF Hit, At, Held, HeldBy, Owned
    <2>2. cache[req[r].helper] \in Trips
      BY <2>1 DEF OfHelper
    <2> QED
      BY <1>12, <2>1, <2>2, HeldResolved DEF Hit
  <1>13. ASSUME NEW r \in Requests, Miss(r) PROVE Held'
    <2>1. GoTo(r, "lookup", 0) /\ req[r].pc = "get" /\ "lookup" \in Pcs /\ 0 \in 0..MaxTrips
      BY <1>13, BoundsAssumption DEF Miss, At, Pcs
    <2>2. ~req[r].ask => ForFix(r)
      BY <2>1 DEF ForFix
    <2> QED
      BY <2>1, <2>2, HeldGoTo
  <1>14. ASSUME NEW r \in Requests, Lookup(r) PROVE Held'
    <2>1. PICK t \in LiveOf(req[r].helper) : GoTo(r, "fill", t)
      BY <1>14 DEF Lookup
    <2>2. OfHelperNext(t, req[r].helper)
      BY <1>14, <2>1 DEF OfHelper, OfHelperNext, Started, LiveOf, Live, Lookup
    <2>3. t \in 0..MaxTrips /\ "fill" \in Pcs /\ req[r].pc = "lookup"
      BY <1>14, <2>1, BoundsAssumption DEF LiveOf, Trips, Pcs, Lookup, At
    <2>4. ~req[r].ask => ForFix(r)
      BY <2>3 DEF ForFix
    <2> QED
      BY <2>1, <2>2, <2>3, <2>4, HeldGoTo
  <1>15. ASSUME NEW r \in Requests, LookupNothing(r) PROVE Held'
    <2>1. CASE Done(r)
      BY <2>1, HeldDone
    <2>2. CASE ~req[r].ask /\ GoTo(r, "late", 0)
      <3>1. req[r].pc = "lookup" /\ "late" \in Pcs /\ 0 \in 0..MaxTrips
        BY <1>15, BoundsAssumption DEF LookupNothing, At, Pcs
      <3>2. ForFix(r)
        BY <2>2, <3>1 DEF ForFix
      <3> QED
        BY <2>2, <3>1, <3>2, HeldGoTo
    <2> QED
      BY <1>15, <2>1, <2>2 DEF LookupNothing
  <1>16. ASSUME NEW r \in Requests, Fill(r) PROVE Held'
    <2>1. OfHelper(req[r].trip, req[r].helper) /\ req[r].pc = "fill"
      BY <1>16 DEF Fill, At, Held, HeldBy, HoldsTrip
    <2>2. req[r].trip \in Trips
      BY <2>1 DEF OfHelper
    <2> QED
      BY <1>16, <2>1, <2>2, HeldResolved DEF Fill
  <1>17. ASSUME NEW r \in Requests, Late(r) PROVE Held'
    <2>1. CASE \E t \in JustEnded(req[r].helper, req[r].bus) : GoTo(r, "file", t)
      <3>1. PICK t \in JustEnded(req[r].helper, req[r].bus) : GoTo(r, "file", t)
        BY <2>1
      <3>2. OfHelperNext(t, req[r].helper) /\ trip'[t].bus = req[r].bus
        BY <1>17, <3>1 DEF OfHelper, OfHelperNext, Started, JustEnded, Late
      <3>3. t \in 0..MaxTrips /\ "file" \in Pcs /\ req[r].pc = "late"
        BY <1>17, <3>1, BoundsAssumption DEF JustEnded, Trips, Pcs, Late, At
      <3>4. ForFix(r)
        BY <3>3 DEF ForFix
      <3> QED
        BY <3>1, <3>2, <3>3, <3>4, HeldGoTo
    <2>2. CASE Done(r)
      BY <2>2, HeldDone
    <2> QED
      BY <1>17, <2>1, <2>2 DEF Late, Refused
  <1>18. ASSUME NEW r \in Requests, Push(r) PROVE Held'
    BY <1>18, HeldDone DEF Push
  <1>19. ASSUME NEW r \in Requests, Dies(r) PROVE Held'
    BY <1>19, HeldDone DEF Dies
  <1>20. ASSUME NEW h \in Helpers, CacheExpires(h) PROVE Held'
    BY <1>20, OthersHold DEF CacheExpires, Held, HeldBy
  <1>21. ASSUME NEW b \in Buses, PosExpires(b) PROVE Held'
    BY <1>21, OthersHold DEF PosExpires, Held, HeldBy
  <1>22. ASSUME NEW t \in Trips, GraceOver(t) PROVE Held'
    BY <1>22, OthersHold DEF GraceOver, Held, HeldBy
  <1>23. CASE UNCHANGED vars
    BY <1>23, OthersHold DEF vars, Held, HeldBy
  <1> QED
    BY <1>1, <1>2, <1>3, <1>4, <1>5, <1>6, <1>7, <1>8, <1>9, <1>10, <1>11, <1>12,
       <1>13, <1>14, <1>15, <1>16, <1>17, <1>18, <1>19, <1>20, <1>21, <1>22, <1>23
       DEF Next, AppStep, LifecycleStep, IngestStep

(* What is filed is a fix that was taken, under a trip that was started.       *)
LEMMA FiledRowsPreserved ==
    ASSUME TypeOK, Held, FiledRows, TripsKeep, FixesKeep, [Next]_vars
    PROVE  FiledRows'
  <1> USE DEF TypeOK, FiledRows, TripsKeep, FixesKeep, Started
  <1>1. ASSUME NEW r \in Requests, Push(r) PROVE FiledRows'
    <2>1. /\ filed' = filed \cup {[fix |-> req[r].fix, trip |-> req[r].trip]}
          /\ req[r].trip \in Trips /\ Started(req[r].trip)
          /\ req[r].fix \in Fixes /\ fix[req[r].fix].state # "none"
      BY <1>1 DEF Push, Held, HeldBy, HoldsTrip, ForFix, OfHelper
    <2> QED
      BY <2>1
  <1>2. CASE UNCHANGED filed
    BY <1>2
  <1> QED
    BY <1>1, <1>2, Movers

(* Fixes are filed under a trip of their helper, on their bus.                *)
LEMMA FiledRightPreserved ==
    ASSUME TypeOK, Held, Owned', FiledRows, FiledRight, TripsKeep, FixesKeep, [Next]_vars
    PROVE  FiledRight'
  <1> USE DEF TypeOK, FiledRight, FiledRows, TripsKeep, FixesKeep, Started, Owned
  <1>1. ASSUME NEW r \in Requests, Push(r) PROVE FiledRight'
    <2>1. /\ filed' = filed \cup {[fix |-> req[r].fix, trip |-> req[r].trip]}
          /\ UNCHANGED trip
          /\ req[r].trip \in Trips /\ req[r].fix \in Fixes
          /\ fix[req[r].fix].state # "none" /\ Started(req[r].trip)
          /\ trip[req[r].trip].helper = fix[req[r].fix].helper
          /\ trip[req[r].trip].bus = fix[req[r].fix].bus
      BY <1>1 DEF Push, Held, HeldBy, HoldsTrip, ForFix, OfHelper
    <2> QED
      BY <2>1
  <1>2. ASSUME NEW b \in Buses, PosExpires(b) PROVE FiledRight'
    BY <1>2 DEF PosExpires
  <1>3. CASE UNCHANGED <<filed, pos>>
    BY <1>3
  <1> QED
    BY <1>1, <1>2, <1>3, Movers

(* How a request comes to hold a trip to cache, to look for a trip that has    *)
(* ended, to be done with clearing the cache, and to bind a fix.             *)
Progress(q) ==
    /\ req'[q].pc = "late" =>
          /\ req'[q].fix = req[q].fix
          /\ \/ req[q].pc = "late"
             \/ /\ req[q].pc = "lookup" /\ ~req[q].ask /\ LiveOf(req[q].helper) = {}
                /\ UNCHANGED <<trip, fix>>
    /\ req'[q].pc \in {"fill", "warm"} =>
          \/ req[q].pc \in {"fill", "warm"} /\ req'[q].trip = req[q].trip
          \/ trip'[req'[q].trip].status = "live"
    /\ req[q].pc = "clear" =>
          \/ req'[q].pc = "clear" /\ req'[q].trip = req[q].trip
          \/ Clear(q) \/ Dies(q)
    /\ req'[q].pc \in {"push", "file"} =>
          req[q].pc \in {"push", "file"} \/ Hit(q) \/ Fill(q) \/ Late(q)

AllProgress == \A q \in Requests : Progress(q)

(* A request that does not change makes no progress to account for.          *)
LEMMA StillProgress == ASSUME NEW q \in Requests, req'[q] = req[q] PROVE Progress(q)
  BY DEF Progress

(* A request that is answered.                                               *)
LEMMA DoneProgress ==
    ASSUME TypeOK, NEW r \in Requests, Done(r), req[r].pc # "clear" \/ Clear(r) \/ Dies(r)
    PROVE  AllProgress
  BY DoneType, StillProgress DEF AllProgress, Progress

(* A request that begins.                                                    *)
LEMMA BeginsProgress ==
    ASSUME TypeOK, NEW r \in Requests, NEW rec \in ReqRecord, Begins(r, rec),
           rec.pc \in {"insert", "close", "get"}
    PROVE  AllProgress
  BY BeginsType, StillProgress DEF AllProgress, Progress, Begins, At

(* A step within a request.                                                  *)
LEMMA GoToProgress ==
    ASSUME TypeOK, NEW r \in Requests, NEW k \in Pcs, NEW t \in 0..MaxTrips, GoTo(r, k, t),
           req[r].pc # "clear",
           k = "late" => /\ req[r].pc = "lookup" /\ ~req[r].ask /\ LiveOf(req[r].helper) = {}
                         /\ UNCHANGED <<trip, fix>>,
           k \in {"fill", "warm"} => trip'[t].status = "live",
           k \in {"push", "file"} => Hit(r) \/ Fill(r) \/ Late(r)
    PROVE  AllProgress
  BY GoToType, StillProgress DEF AllProgress, Progress

(* A trip that is resolved.                                                  *)
LEMMA ResolvedProgress ==
    ASSUME TypeOK, NEW r \in Requests, NEW t \in 0..MaxTrips, Resolved(r, t), req[r].pc # "clear",
           Hit(r) \/ Fill(r)
    PROVE  AllProgress
  <1>1. CASE Done(r)
    BY <1>1, DoneProgress
  <1>2. CASE GoTo(r, "push", t)
    <2>1. "push" \in Pcs
      BY DEF Pcs
    <2> QED
      BY <1>2, <2>1, GoToProgress
  <1> QED
    BY <1>1, <1>2 DEF Resolved, Refused

(* Every step does.                                                          *)
LEMMA RequestSteps ==
    ASSUME TypeOK, Owned, FixesOwned, Held, [Next]_vars
    PROVE  AllProgress
  <1>1. ASSUME NEW r \in Requests, NEW h \in Helpers, NEW b \in Buses, BeginStart(r, h, b) PROVE AllProgress
    <2>1. [NoReq EXCEPT !.pc = "insert", !.helper = h, !.bus = b] \in ReqRecord
      BY NewRequests
    <2>2. [NoReq EXCEPT !.pc = "insert", !.helper = h, !.bus = b].pc = "insert"
      BY Records DEF ReqRecord
    <2> QED
      BY <1>1, <2>1, <2>2, BeginsProgress DEF BeginStart
  <1>2. ASSUME NEW r \in Requests, Insert(r) PROVE AllProgress
    <2>1. PICK t \in Trips :
              /\ GoTo(r, "warm", t)
              /\ trip' = [trip EXCEPT ![t] = [status |-> "live", helper |-> req[r].helper,
                                              bus |-> req[r].bus, recent |-> TRUE]]
      BY <1>2 DEF Insert
    <2>2. trip'[t].status = "live"
      BY <2>1 DEF TypeOK
    <2>3. t \in 0..MaxTrips /\ "warm" \in Pcs /\ req[r].pc # "clear"
      BY <1>2, BoundsAssumption DEF Trips, Pcs, Insert, At
    <2> QED
      BY <2>1, <2>2, <2>3, GoToProgress
  <1>3. ASSUME NEW r \in Requests, InsertConflicts(r) PROVE AllProgress
    BY <1>3, DoneProgress DEF InsertConflicts, At
  <1>4. ASSUME NEW r \in Requests, Warm(r) PROVE AllProgress
    BY <1>4, DoneProgress DEF Warm, At
  <1>5. ASSUME NEW r \in Requests, NEW h \in Helpers, BeginEnd(r, h) PROVE AllProgress
    <2>1. PICK t \in Trips : Begins(r, [NoReq EXCEPT !.pc = "close", !.helper = h, !.trip = t])
      BY <1>5 DEF BeginEnd, LiveOf
    <2>2. [NoReq EXCEPT !.pc = "close", !.helper = h, !.trip = t] \in ReqRecord
      BY NewRequests
    <2>3. [NoReq EXCEPT !.pc = "close", !.helper = h, !.trip = t].pc = "close"
      BY Records DEF ReqRecord
    <2> QED
      BY <2>1, <2>2, <2>3, BeginsProgress
  <1>6. ASSUME NEW h \in Helpers, EndNothing(h) PROVE AllProgress
    BY <1>6, StillProgress DEF EndNothing, AllProgress
  <1>7. ASSUME NEW r \in Requests, Close(r) PROVE AllProgress
    <2>1. GoTo(r, "clear", req[r].trip) /\ req[r].pc = "close"
      BY <1>7 DEF Close, At
    <2>2. req[r].trip \in 0..MaxTrips /\ "clear" \in Pcs
      BY RequestType DEF Pcs
    <2> QED
      BY <2>1, <2>2, GoToProgress
  <1>8. ASSUME NEW r \in Requests, Clear(r) PROVE AllProgress
    BY <1>8, DoneProgress DEF Clear, At
  <1>9. ASSUME NEW h \in Helpers, Take(h) PROVE AllProgress
    BY <1>9, StillProgress DEF Take, AllProgress
  <1>10. ASSUME NEW r \in Requests, NEW n \in Fixes, Send(r, n) PROVE AllProgress
    <2>1. fix[n].helper \in Helpers
      BY <1>10 DEF Send, FixesOwned
    <2>2. [NoReq EXCEPT !.pc = "get", !.helper = fix[n].helper, !.bus = fix[n].bus, !.fix = n]
              \in ReqRecord
      BY <2>1, NewRequests
    <2>3. [NoReq EXCEPT !.pc = "get", !.helper = fix[n].helper, !.bus = fix[n].bus, !.fix = n].pc
              = "get"
      BY Records DEF ReqRecord
    <2> QED
      BY <1>10, <2>2, <2>3, BeginsProgress DEF Send
  <1>11. ASSUME NEW r \in Requests, NEW h \in Helpers, AskActive(r, h) PROVE AllProgress
    <2>1. [NoReq EXCEPT !.pc = "get", !.helper = h, !.ask = TRUE] \in ReqRecord
      BY NewRequests
    <2>2. [NoReq EXCEPT !.pc = "get", !.helper = h, !.ask = TRUE].pc = "get"
      BY Records DEF ReqRecord
    <2> QED
      BY <1>11, <2>1, <2>2, BeginsProgress DEF AskActive
  <1>12. ASSUME NEW r \in Requests, Hit(r) PROVE AllProgress
    <2>1. req[r].helper \in Helpers /\ req[r].pc = "get"
      BY <1>12 DEF Hit, At, Held, HeldBy
    <2>2. cache[req[r].helper] \in 0..MaxTrips
      BY <2>1 DEF TypeOK
    <2> QED
      BY <1>12, <2>1, <2>2, ResolvedProgress DEF Hit
  <1>13. ASSUME NEW r \in Requests, Miss(r) PROVE AllProgress
    <2>1. GoTo(r, "lookup", 0) /\ req[r].pc = "get" /\ "lookup" \in Pcs /\ 0 \in 0..MaxTrips
      BY <1>13, BoundsAssumption DEF Miss, At, Pcs
    <2> QED
      BY <2>1, GoToProgress
  <1>14. ASSUME NEW r \in Requests, Lookup(r) PROVE AllProgress
    <2>1. PICK t \in LiveOf(req[r].helper) : GoTo(r, "fill", t)
      BY <1>14 DEF Lookup
    <2>2. trip'[t].status = "live"
      BY <1>14, <2>1 DEF LiveOf, Live, Lookup
    <2>3. t \in 0..MaxTrips /\ "fill" \in Pcs /\ req[r].pc = "lookup"
      BY <1>14, <2>1, BoundsAssumption DEF LiveOf, Trips, Pcs, Lookup, At
    <2> QED
      BY <2>1, <2>2, <2>3, GoToProgress
  <1>15. ASSUME NEW r \in Requests, LookupNothing(r) PROVE AllProgress
    <2>1. req[r].pc = "lookup" /\ "late" \in Pcs /\ 0 \in 0..MaxTrips
      BY <1>15, BoundsAssumption DEF LookupNothing, At, Pcs
    <2>2. CASE Done(r)
      BY <2>1, <2>2, DoneProgress
    <2>3. CASE ~req[r].ask /\ GoTo(r, "late", 0)
      BY <1>15, <2>1, <2>3, GoToProgress DEF LookupNothing
    <2> QED
      BY <1>15, <2>2, <2>3 DEF LookupNothing
  <1>16. ASSUME NEW r \in Requests, Fill(r) PROVE AllProgress
    <2>1. req[r].trip \in 0..MaxTrips /\ req[r].pc = "fill"
      BY <1>16, RequestType DEF Fill, At
    <2> QED
      BY <1>16, <2>1, ResolvedProgress DEF Fill
  <1>17. ASSUME NEW r \in Requests, Late(r) PROVE AllProgress
    <2>1. "file" \in Pcs /\ req[r].pc = "late"
      BY <1>17 DEF Late, At, Pcs
    <2>2. ASSUME NEW t \in JustEnded(req[r].helper, req[r].bus), GoTo(r, "file", t)
          PROVE  AllProgress
      <3>1. t \in 0..MaxTrips
        BY BoundsAssumption DEF JustEnded, Trips
      <3> QED
        BY <1>17, <2>1, <2>2, <3>1, GoToProgress
    <2>3. CASE Done(r)
      BY <2>1, <2>3, DoneProgress
    <2> QED
      BY <1>17, <2>2, <2>3 DEF Late, Refused
  <1>18. ASSUME NEW r \in Requests, Push(r) PROVE AllProgress
    BY <1>18, DoneProgress DEF Push
  <1>19. ASSUME NEW r \in Requests, Dies(r) PROVE AllProgress
    BY <1>19, DoneProgress DEF Dies, At
  <1>20. ASSUME NEW h \in Helpers, CacheExpires(h) PROVE AllProgress
    BY <1>20, StillProgress DEF CacheExpires, AllProgress
  <1>21. ASSUME NEW b \in Buses, PosExpires(b) PROVE AllProgress
    BY <1>21, StillProgress DEF PosExpires, AllProgress
  <1>22. ASSUME NEW t \in Trips, GraceOver(t) PROVE AllProgress
    BY <1>22, StillProgress DEF GraceOver, AllProgress
  <1>23. CASE UNCHANGED vars
    BY <1>23, StillProgress DEF vars, AllProgress
  <1> QED
    BY <1>1, <1>2, <1>3, <1>4, <1>5, <1>6, <1>7, <1>8, <1>9, <1>10, <1>11, <1>12,
       <1>13, <1>14, <1>15, <1>16, <1>17, <1>18, <1>19, <1>20, <1>21, <1>22, <1>23
       DEF Next, AppStep, LifecycleStep, IngestStep

EndsByClose ==
    \A t \in Trips : Live(t) =>
        trip'[t].status = "live" \/ \E q \in Requests : Close(q) /\ req[q].trip = t

(* Only Close ends a trip.                                                   *)
LEMMA Ends ==
    ASSUME TypeOK, [Next]_vars
    PROVE  EndsByClose
  <1> USE DEF TypeOK, Live, EndsByClose
  <1>1. ASSUME NEW r \in Requests, Insert(r) PROVE EndsByClose
    <2>1. PICK t \in Trips :
              trip' = [trip EXCEPT ![t] = [status |-> "live", helper |-> req[r].helper,
                                           bus |-> req[r].bus, recent |-> TRUE]]
      BY <1>1 DEF Insert
    <2> QED
      BY <2>1
  <1>2. ASSUME NEW r \in Requests, Close(r) PROVE EndsByClose
    <2>1. trip' = [trip EXCEPT ![req[r].trip].status = "completed"]
      BY <1>2 DEF Close
    <2> QED
      BY <1>2, <2>1
  <1>3. ASSUME NEW t \in Trips, GraceOver(t) PROVE EndsByClose
    BY <1>3 DEF GraceOver, TripRecord
  <1>4. CASE UNCHANGED trip
    BY <1>4
  <1> QED
    BY <1>1, <1>2, <1>3, <1>4, Movers

(* Nothing leaves doubt.                                                     *)
LEMMA DoubtGrows ==
    ASSUME TypeOK, [Next]_vars
    PROVE  doubt \subseteq doubt'
  <1>1. ASSUME NEW r \in Requests, Close(r) PROVE doubt \subseteq doubt'
    BY <1>1 DEF Close
  <1>2. ASSUME NEW r \in Requests, Clear(r) PROVE doubt \subseteq doubt'
    BY <1>2 DEF Clear
  <1>3. ASSUME NEW r \in Requests, Dies(r) PROVE doubt \subseteq doubt'
    BY <1>3 DEF Dies
  <1>4. CASE UNCHANGED doubt
    BY <1>4
  <1> QED
    BY <1>1, <1>2, <1>3, <1>4, Movers

CacheFrom ==
    \A h \in Helpers : cache'[h] # 0 =>
        \/ cache'[h] = cache[h]
        \/ /\ UNCHANGED <<trip, doubt>>
           /\ \E q \in Requests : req[q].pc \in {"fill", "warm"} /\ cache'[h] = req[q].trip

(* What is cached was, or is held by a request that is to cache it.           *)
LEMMA CacheSteps ==
    ASSUME TypeOK, Held, [Next]_vars
    PROVE  CacheFrom
  <1> USE DEF TypeOK, CacheFrom
  <1>1. ASSUME NEW r \in Requests, Warm(r) PROVE CacheFrom
    BY <1>1 DEF Warm, At
  <1>2. ASSUME NEW r \in Requests, Clear(r) PROVE CacheFrom
    BY <1>2 DEF Clear
  <1>3. ASSUME NEW r \in Requests, Fill(r) PROVE CacheFrom
    BY <1>3 DEF Fill, At
  <1>4. ASSUME NEW h \in Helpers, CacheExpires(h) PROVE CacheFrom
    BY <1>4 DEF CacheExpires
  <1>5. CASE UNCHANGED cache
    BY <1>5
  <1> QED
    BY <1>1, <1>2, <1>3, <1>4, <1>5, Movers

(* A fix is late only once its trip is over.                                 *)
LEMMA LateIsOverPreserved ==
    ASSUME TypeOK, FixesOwned, Held, LateIsOver, TripsKeep, FixesKeep,
           AllProgress
    PROVE  LateIsOver'
  <1> SUFFICES ASSUME NEW q \in Requests, req'[q].pc = "late"
               PROVE  trip'[fix'[req'[q].fix].trip].status = "completed"
    BY DEF LateIsOver
  <1>1. req'[q].fix = req[q].fix
    BY DEF AllProgress, Progress
  <1>2. /\ req[q].fix \in Fixes /\ fix[req[q].fix].state # "none"
        /\ fix[req[q].fix].helper = req[q].helper
    BY DEF AllProgress, Progress, Held, HeldBy, ForFix
  <1> DEFINE u == fix[req[q].fix].trip
  <1>3. OfHelper(u, req[q].helper)
    BY <1>2 DEF FixesOwned
  <1>4. fix'[req[q].fix].trip = u
    BY <1>2 DEF FixesKeep
  <1>5. trip'[u].status = "completed"
    <2>1. CASE req[q].pc = "late"
      BY <1>3, <2>1 DEF LateIsOver, TripsKeep, OfHelper
    <2>2. CASE LiveOf(req[q].helper) = {} /\ UNCHANGED trip
      BY <1>3, <2>2 DEF LiveOf, Live, OfHelper, Started, TypeOK, TripRecord
    <2> QED
      BY <2>1, <2>2 DEF AllProgress, Progress
  <1> QED
    BY <1>1, <1>4, <1>5

(* A trip about to be cached has not ended unseen.                           *)
LEMMA FillsFreshPreserved ==
    ASSUME TypeOK, Held, FillsFresh, [Next]_vars, AllProgress
    PROVE  FillsFresh'
  <1> SUFFICES ASSUME NEW q \in Requests, req'[q].pc \in {"fill", "warm"}
               PROVE  trip'[req'[q].trip].status = "live" \/ req'[q].trip \in doubt'
    BY DEF FillsFresh, Live
  <1>1. CASE trip'[req'[q].trip].status = "live"
    BY <1>1
  <1>2. CASE req[q].pc \in {"fill", "warm"} /\ req'[q].trip = req[q].trip
    <2>1. req[q].trip \in Trips
      BY <1>2 DEF Held, HeldBy, HoldsTrip, OfHelper
    <2>2. CASE req[q].trip \in doubt
      BY <1>2, <2>2, DoubtGrows
    <2>3. CASE Live(req[q].trip)
      <3>1. CASE trip'[req[q].trip].status = "live"
        BY <1>2, <3>1
      <3>2. ASSUME NEW p \in Requests, Close(p), req[p].trip = req[q].trip
            PROVE  req[q].trip \in doubt'
        BY <1>2, <3>2 DEF Close
      <3> QED
        BY <1>2, <2>1, <2>3, <3>1, <3>2, Ends DEF EndsByClose
    <2> QED
      BY <1>2, <2>2, <2>3 DEF FillsFresh
  <1> QED
    BY <1>1, <1>2 DEF AllProgress, Progress

(* A trip that ends leaves the cache, or a cause.                            *)
LEMMA StaleHasCausePreserved ==
    ASSUME TypeOK, Owned, Held, FillsFresh, StaleHasCause, [Next]_vars,
           AllProgress
    PROVE  StaleHasCause'
  <1> SUFFICES ASSUME NEW h \in Helpers, cache'[h] # 0
               PROVE  \/ trip'[cache'[h]].status = "live" \/ cache'[h] \in doubt'
                      \/ \E q \in Requests : req'[q].pc = "clear" /\ req'[q].trip = cache'[h]
    BY DEF StaleHasCause, Live, EndUnderWay, At
  <1>1. CASE /\ UNCHANGED <<trip, doubt>>
             /\ \E q \in Requests : req[q].pc \in {"fill", "warm"} /\ cache'[h] = req[q].trip
    BY <1>1 DEF FillsFresh, Live
  <1>2. CASE cache'[h] = cache[h]
    <2>1. cache[h] \in Trips /\ trip[cache[h]].helper = h
      BY <1>2 DEF Owned, OfHelper
    <2>2. CASE cache[h] \in doubt
      BY <1>2, <2>2, DoubtGrows
    <2>3. CASE Live(cache[h])
      <3>1. CASE trip'[cache[h]].status = "live"
        BY <1>2, <3>1
      <3>2. ASSUME NEW p \in Requests, Close(p), req[p].trip = cache[h]
            PROVE  req'[p].pc = "clear" /\ req'[p].trip = cache[h]
        <4>1. "clear" \in Pcs /\ req[p].trip \in 0..MaxTrips /\ GoTo(p, "clear", req[p].trip)
          BY <3>2, RequestType DEF Pcs, Close
        <4> QED
          BY <3>2, <4>1, GoToType
      <3> QED
        BY <1>2, <2>1, <2>3, <3>1, <3>2, Ends DEF EndsByClose
    <2>4. ASSUME NEW p \in Requests, req[p].pc = "clear", req[p].trip = cache[h]
          PROVE  \/ cache'[h] \in doubt'
                 \/ req'[p].pc = "clear" /\ req'[p].trip = cache'[h]
      <3>1. CASE req'[p].pc = "clear" /\ req'[p].trip = req[p].trip
        BY <1>2, <2>4, <3>1
      <3>2. CASE Clear(p)
        <4>1. req[p].helper = h
          BY <2>1, <2>4 DEF Held, HeldBy, HoldsTrip, OfHelper
        <4>2. CASE cache' = [cache EXCEPT ![req[p].helper] = 0]
          BY <4>1, <4>2 DEF TypeOK
        <4>3. CASE doubt' = doubt \cup {req[p].trip}
          BY <1>2, <2>4, <4>3
        <4> QED
          BY <3>2, <4>2, <4>3 DEF Clear
      <3>3. CASE Dies(p)
        BY <1>2, <2>4, <3>3 DEF Dies, At
      <3> QED
        BY <2>4, <3>1, <3>2, <3>3 DEF AllProgress, Progress
    <2> QED
      BY <1>2, <2>2, <2>3, <2>4 DEF StaleHasCause, EndUnderWay, At
  <1> QED
    BY <1>1, <1>2, CacheSteps DEF CacheFrom

(* The trip a fix is bound to.                                               *)
LEMMA BindStep ==
    ASSUME IInv, [Next]_vars, NEW q \in Requests,
           req'[q].pc \in {"push", "file"}, ~(req[q].pc \in {"push", "file"})
    PROVE  \/ req'[q].trip >= fix[req[q].fix].trip
           \/ req'[q].trip \in doubt \/ EndUnderWay(req'[q].trip)
  <1> USE DEF IInv, Binding
  <1>1. Hit(q) \/ Fill(q) \/ Late(q)
    BY RequestSteps DEF AllProgress, Progress
  <1> DEFINE u == fix[req[q].fix].trip
  <1>2. ASSUME ForFix(q)
        PROVE  /\ OfHelper(u, req[q].helper) /\ trip[u].bus = req[q].bus
               /\ u \in Trips
    BY <1>2 DEF Held, HeldBy, FixesOwned, OfHelper
  <1>3. ASSUME NEW t \in Trips, ForFix(q), OfHelper(t, req[q].helper), req'[q].trip = t, Live(t)
        PROVE  t >= u
    BY <1>2, <1>3, BoundsAssumption DEF InOrder, OfHelper, Started, Live, Trips
  <1>4. ASSUME NEW t \in Trips, Resolved(q, t), req[q].pc \in {"get", "fill"}
        PROVE  req'[q].trip = t /\ ForFix(q)
    <2>1. ~Done(q)
      BY DoneType
    <2>2. GoTo(q, "push", t) /\ ~req[q].ask
      BY <1>4, <2>1 DEF Resolved, Refused
    <2>3. "push" \in Pcs /\ t \in 0..MaxTrips
      BY BoundsAssumption DEF Pcs, Trips
    <2> QED
      BY <1>4, <2>2, <2>3, GoToType DEF ForFix
  <1>5. CASE Hit(q)
    <2>1. /\ req[q].pc = "get" /\ Resolved(q, cache[req[q].helper])
          /\ OfHelper(cache[req[q].helper], req[q].helper)
          /\ \/ Live(cache[req[q].helper]) \/ cache[req[q].helper] \in doubt
             \/ EndUnderWay(cache[req[q].helper])
      BY <1>5 DEF Hit, At, Held, HeldBy, Owned, StaleHasCause
    <2>2. PICK t \in Trips : t = cache[req[q].helper]
      BY <2>1 DEF OfHelper
    <2> QED
      BY <1>3, <1>4, <2>1, <2>2
  <1>6. CASE Fill(q)
    <2>1. /\ req[q].pc = "fill" /\ Resolved(q, req[q].trip)
          /\ OfHelper(req[q].trip, req[q].helper)
          /\ Live(req[q].trip) \/ req[q].trip \in doubt
      BY <1>6 DEF Fill, At, Held, HeldBy, HoldsTrip, FillsFresh
    <2>2. PICK t \in Trips : t = req[q].trip
      BY <2>1 DEF OfHelper
    <2> QED
      BY <1>3, <1>4, <2>1, <2>2
  <1>7. CASE Late(q)
    <2>1. ~Done(q)
      BY DoneType
    <2>2. PICK t \in JustEnded(req[q].helper, req[q].bus) :
              /\ \A v \in JustEnded(req[q].helper, req[q].bus) : v <= t
              /\ GoTo(q, "file", t)
      BY <1>7, <2>1 DEF Late, Refused
    <2>3. t \in Trips /\ t \in 0..MaxTrips /\ "file" \in Pcs
      BY BoundsAssumption DEF JustEnded, Trips, Pcs
    <2>4. req'[q].trip = t
      BY <2>2, <2>3, GoToType
    <2>5. req[q].pc = "late" /\ ForFix(q)
      BY <1>7 DEF Late, At, ForFix
    <2>6. trip[u].status = "completed" /\ u \in Trips /\ trip[u].helper = req[q].helper
            /\ trip[u].bus = req[q].bus
      BY <1>2, <2>5 DEF LateIsOver, OfHelper
    <2>7. t < u => u \in JustEnded(req[q].helper, req[q].bus)
      <3>1. trip[t].recent /\ trip[t].helper = req[q].helper
        BY <2>2 DEF JustEnded
      <3>2. ASSUME NEW v \in Trips, trip[v].status = "completed", trip[v].helper = req[q].helper, t < v
            PROVE  trip[v].recent
        BY <2>3, <3>1, <3>2 DEF InOrder, Started
      <3> QED
        BY <2>6, <3>2 DEF JustEnded
    <2> QED
      BY <2>2, <2>3, <2>4, <2>6, <2>7, BoundsAssumption DEF Trips
  <1> QED
    BY <1>1, <1>5, <1>6, <1>7

-----------------------------------------------------------------------------
(* The invariant is inductive: InOrder makes a live trip the newest of its     *)
(* helper's, Owned and Held keep what each actor holds its own, FillsFresh   *)
(* says what a slow fill of the cache may do, LateIsOver what the grace      *)
(* window is asked for.                                                      *)
THEOREM Inductive == Spec => []IInv
  <1>1. Init => IInv
    <2> SUFFICES ASSUME Init PROVE IInv
      OBVIOUS
    <2>1. TypeOK
      BY Records, BoundsAssumption DEF Init, TypeOK
    <2>2. InOrder /\ Owned /\ FixesOwned
      BY DEF Init, InOrder, Owned, FixesOwned, Started, NoTrip, NoFix, Trips
    <2>3. Held /\ FillsFresh /\ LateIsOver
      BY DEF Init, Held, HeldBy, HoldsTrip, ForFix, FillsFresh, LateIsOver, NoReq
    <2>4. FiledRows /\ FiledRight /\ StaleHasCause
      BY DEF Init, FiledRows, FiledRight, StaleHasCause
    <2> QED
      BY <2>1, <2>2, <2>3, <2>4 DEF IInv, Binding
  <1>2. IInv /\ [Next]_vars => IInv'
    <2> SUFFICES ASSUME IInv, [Next]_vars PROVE IInv'
      OBVIOUS
    <2> USE DEF IInv, Binding
    <2>1. TripsKeep /\ FixesKeep /\ AllProgress
      BY TripsGrow, FixesGrow, RequestSteps
    <2>2. TypeOK'
      BY TypePreserved
    <2>3. InOrder'
      BY InOrderPreserved
    <2>4. Owned'
      BY <2>1, OwnedPreserved
    <2>5. FixesOwned'
      BY <2>1, FixesOwnedPreserved
    <2>6. Held'
      BY <2>1, HeldPreserved
    <2>7. FiledRows'
      BY <2>1, FiledRowsPreserved
    <2>8. FiledRight'
      BY <2>1, <2>4, FiledRightPreserved
    <2>9. FillsFresh'
      BY <2>1, FillsFreshPreserved
    <2>10. LateIsOver'
      BY <2>1, LateIsOverPreserved
    <2>11. StaleHasCause'
      BY <2>1, StaleHasCausePreserved
    <2> QED
      BY <2>2, <2>3, <2>4, <2>5, <2>6, <2>7, <2>8, <2>9, <2>10, <2>11
  <1> QED
    BY <1>1, <1>2, PTL DEF Spec

(* Every variable keeps its type.                                            *)
THEOREM TypeCorrect == Spec => []TypeOK
  <1>1. IInv => TypeOK
    BY DEF IInv, Binding
  <1> QED
    BY <1>1, Inductive, PTL

(* A fix is filed under a trip of the helper that took it, on its bus, and a   *)
(* bus's live position is one of its own trips' (ingest_gps).                *)
THEOREM FixesFiledRight == Spec => []FiledRight
  <1>1. IInv => FiledRight
    BY DEF IInv
  <1> QED
    BY <1>1, Inductive, PTL

(* A trip that is over stays in the cache only while its end is under way, or  *)
(* with a cause recorded in doubt (get_active_trip, clear_active_trip).      *)
THEOREM StaleOnlyWithCause == Spec => []StaleHasCause
  <1>1. IInv => StaleHasCause
    BY DEF IInv
  <1> QED
    BY <1>1, Inductive, PTL

(* A fix is never filed under a trip before its own, but for an end in doubt   *)
(* (get_active_trip, recently_ended_trip).                                   *)
THEOREM NeverBindsBack == Spec => BindsForward
  <1>1. IInv /\ [Next]_vars =>
          [\A r \in Requests :
              req'[r].pc \in {"push", "file"} /\ ~(req[r].pc \in {"push", "file"}) =>
                  \/ req'[r].trip >= fix[req[r].fix].trip
                  \/ req'[r].trip \in doubt \/ EndUnderWay(req'[r].trip)]_vars
    BY BindStep
  <1> QED
    BY <1>1, Inductive, PTL DEF Spec, BindsForward
=============================================================================
