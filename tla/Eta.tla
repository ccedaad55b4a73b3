-------------------------------- MODULE Eta ---------------------------------
(***************************************************************************)
(* Arrival times of one trip: the bus and its recent fixes, the engine's     *)
(* pass over the trip, and the two Redis keys it keeps, the trip's progress  *)
(* and its arrivals.  (A pass treats the trips one after another and         *)
(* independently: an exception in one is caught.)                            *)
(*                                                                           *)
(* Time goes in ticks.  Every instant is kept as its age, so that a tick is  *)
(* the only action that passes time; ages stop at AgeCap, far enough for     *)
(* every estimate made from them to be clamped to "now".                     *)
(***************************************************************************)
EXTENDS FiniteSetsExt, Integers

CONSTANTS Stops,    \* the route's stops, by seq
          LastSeq,  \* no seq is greater
          Where,    \* where each stop is, on a line
          Mile,     \* how far each stop is from the first, stop to stop
          Offset,   \* scheduled_offset_min of a stop, or Unscheduled
          Unscheduled,
          Town,     \* where the bus can be
          Paces,    \* ticks per unit of road a moving bus can need
          Window,   \* age of the oldest fix looked at (SPEED_WINDOW_S)
          Ttl,      \* ETA_TTL_S
          Horizon,  \* MAX_HORIZON
          SpeedHorizonStops,  \* SPEED_HORIZON_STOPS
          FixLimit, \* FIX_LIMIT
          MaxFixes, \* bound on the fixes in the window
          MaxLate,  \* bound on the ticks one pass takes
          AgeCap,
          Faults    \* which of the engine's calls may fail

ASSUME RouteAssumption ==
    /\ LastSeq \in Nat /\ Stops \subseteq 1..LastSeq
    /\ Town \subseteq Int /\ Town # {} /\ Where \in [Stops -> Int]
    /\ Mile \in [Stops -> Nat]
    /\ Unscheduled \notin Int /\ Offset \in [Stops -> Nat \cup {Unscheduled}]
    /\ Paces \subseteq Nat \ {0}
ASSUME BoundsAssumption ==
    /\ Window \in Nat /\ Ttl \in Nat \ {0} /\ Horizon \in Nat
    /\ SpeedHorizonStops \in Nat /\ FixLimit \in Nat \ {0} /\ MaxFixes \in Nat /\ MaxLate \in Nat
    /\ AgeCap \in Nat /\ Window < AgeCap
    /\ \A s \in Stops : Offset[s] # Unscheduled => Offset[s] + MaxLate <= AgeCap
ASSUME FaultsAssumption == Faults \subseteq {"search", "load", "save", "crash"}

VARIABLES
    trip,      \* the trip's status, and the age of its actual_start
    fixes,     \* the trip's fixes in the index, with their ages
    progress,  \* trip:{id}:progress: furthest stop, age of `at`, time to live
    board,     \* trip:{id}:eta: arrivals, and time to live
    pass,      \* the engine's pass over this trip
    dropped,   \* the last pass left the board as it was (history)
    furthest   \* furthest stop a board was written past (history)

vars == <<trip, fixes, progress, board, pass, dropped, furthest>>
history == <<dropped, furthest>>

Unseen     == [seq |-> 0, age |-> 0]
NoProgress == [mark |-> Unseen, ttl |-> 0]
NoArrivals == [s \in {} |-> 0]
Forgotten  == -1  \* of furthest: the engine lost what it knew of the progress
NoBoard    == [arrivals |-> NoArrivals, ttl |-> 0]
NoPass     == [pc |-> "idle", late |-> 0, window |-> {},
               reached |-> Unseen]

Init ==
    /\ trip = [status |-> "live", age |-> 0]
    /\ fixes = {}
    /\ progress = NoProgress
    /\ board = NoBoard
    /\ pass = NoPass
    /\ dropped = FALSE /\ furthest = 0

-----------------------------------------------------------------------------
(* What the engine computes from the fixes it read.                          *)

Distance(a, b) == IF a < b THEN b - a ELSE a - b

(* The stops a fix is within the arrival radius of.                          *)
Near(f) == {s \in Stops : Where[s] = f.at}

(* Variants with a fault, here and below, are never part of Next: they show  *)
(* which mistake each property would catch.                                  *)
AdvanceToLastSeen(known, window) ==
    LET seen == UNION {Near(f) : f \in window} IN
    IF seen = {} THEN known ELSE [seq |-> Max(seen), age |-> 0]

(* advance_progress: the furthest stop beyond the known one that any fix of  *)
(* the window reaches, at the time of the first fix that reaches it.         *)
Advance(known, window) ==
    LET seen == {s \in UNION {Near(f) : f \in window} : s > known.seq} IN
    IF seen = {} THEN known
    ELSE [seq |-> Max(seen),
          age |-> Max({f.age : f \in {g \in window : Max(seen) \in Near(g)}})]

(* schedule_delay, from the age of an instant: how long after `now` the      *)
(* timetable, shifted by the delay, puts stop s.                             *)
Scheduled(s, reached, late) ==
    IF reached.seq \in Stops /\ Offset[reached.seq] # Unscheduled
    THEN Offset[s] - Offset[reached.seq] - (reached.age - late)
    ELSE Offset[s] - (trip.age - late)

Ahead(reached) == {s \in Stops : s > reached.seq}
Index(s, reached) == Cardinality({r \in Ahead(reached) : r < s})

(* Out to the next stop, then stop to stop.                                  *)
Road(s, position, reached) ==
    LET next == Min(Ahead(reached)) IN
    Distance(position, Where[next]) + Mile[s] - Mile[next]

(* A pace of 0 is no usable speed.                                           *)
Live(s, reached, pace) == pace # 0 /\ Index(s, reached) < SpeedHorizonStops

EstimatedIfMoving(reached, pace) == {s \in Ahead(reached) : Live(s, reached, pace)}

Estimated(reached, pace) ==
    {s \in Ahead(reached) : Live(s, reached, pace) \/ Offset[s] # Unscheduled}

EstimateInThePast(s, reached, last, pace, late) ==
    IF Live(s, reached, pace) THEN pace * Road(s, last, reached) ELSE Scheduled(s, reached, late)

Estimate(s, reached, last, pace, late) ==
    LET at == IF Live(s, reached, pace) THEN pace * Road(s, last, reached)
              ELSE Scheduled(s, reached, late)
    IN IF at < 0 THEN 0 ELSE at

(* estimate_arrivals and _monotonic: nothing beyond the horizon, and no stop *)
(* before one that the bus comes to earlier.                                 *)
Arrivals(reached, last, pace, late) ==
    LET kept == {s \in Estimated(reached, pace) :
                    Estimate(s, reached, last, pace, late) <= Horizon}
    IN [s \in kept |-> Max({Estimate(r, reached, last, pace, late) :
                              r \in {k \in kept : k <= s}})]

-----------------------------------------------------------------------------
(* The bus, its fixes and time.                                              *)

(* The bus goes where it likes; only where it is seen matters.               *)
Report(p) ==
    /\ trip.status = "live" /\ Cardinality(fixes) < MaxFixes
    /\ fixes' = fixes \cup {[at |-> p, age |-> 0]}
    /\ UNCHANGED <<trip, progress, board, pass, history>>

EndTrip ==
    /\ trip.status = "live"
    /\ trip' = [trip EXCEPT !.status = "ended"]
    /\ UNCHANGED <<fixes, progress, board, pass, history>>

Older(n) == IF n < AgeCap THEN n + 1 ELSE n
OlderFixes(F) == {[f EXCEPT !.age = Older(@)] : f \in F}
Aged(m) == IF m.seq = 0 THEN m ELSE [m EXCEPT !.age = Older(@)]

(* Redis drops a key whose time to live is over.                             *)
Tick ==
    /\ pass.pc # "idle" => pass.late < MaxLate
    /\ trip' = [trip EXCEPT !.age = Older(@)]
    /\ fixes' = {f \in OlderFixes(fixes) : f.age <= Window}
    /\ progress' = IF progress.ttl <= 1 THEN NoProgress
                   ELSE [mark |-> Aged(progress.mark), ttl |-> progress.ttl - 1]
    /\ board' = IF board.ttl <= 1 THEN NoBoard ELSE [board EXCEPT !.ttl = @ - 1]
    /\ pass' = IF pass.pc = "idle" THEN pass
               ELSE [pass EXCEPT !.late = @ + 1, !.window = OlderFixes(@),
                                 !.reached = Aged(@)]
    /\ furthest' = IF progress.ttl = 1 THEN Forgotten ELSE furthest
    /\ UNCHANGED dropped

-----------------------------------------------------------------------------
(* compute_once and compute_for_trip.                                        *)

StartPassOnAnyTrip ==
    /\ pass.pc = "idle"
    /\ pass' = [NoPass EXCEPT !.pc = "search"]
    /\ UNCHANGED <<trip, fixes, progress, board, history>>

StartPass ==
    /\ pass.pc = "idle" /\ trip.status = "live"
    /\ pass' = [NoPass EXCEPT !.pc = "search"]
    /\ UNCHANGED <<trip, fixes, progress, board, history>>

(* The search sorts oldest first and stops at FixLimit.                      *)
Oldest(F) ==
    /\ F \subseteq fixes
    /\ \A f \in F, g \in fixes \ F : g.age <= f.age
    /\ F = fixes \/ Cardinality(F) = FixLimit
    /\ Cardinality(F) <= FixLimit

Search(F) ==
    /\ pass.pc = "search" /\ Oldest(F)
    /\ pass' = [pass EXCEPT !.pc = "load", !.window = F]
    /\ UNCHANGED <<trip, fixes, progress, board, history>>

SearchFails ==
    /\ pass.pc = "search" /\ "search" \in Faults
    /\ pass' = [pass EXCEPT !.pc = "load"]
    /\ UNCHANGED <<trip, fixes, progress, board, history>>

Newest(F) == {f \in F : \A g \in F : f.age <= g.age}

(* With no fix there is no position, and no speed to use one with.           *)
Positions(F) == IF F = {} THEN {CHOOSE p \in Town : TRUE} ELSE {f.at : f \in Newest(F)}

(* rolling_speed_kmh: a bus that was seen in two places has a speed, if a    *)
(* plausible one; a pace of 0 is none.                                       *)
Speeds(F) == IF Cardinality({f.at : f \in F}) > 1 THEN Paces \cup {0} ELSE {0}

Loaded(known) ==
    LET reached == Advance(known, pass.window) IN
    pass' = [pass EXCEPT !.pc = IF reached = known THEN "write" ELSE "save",
                         !.reached = reached]

Load ==
    /\ pass.pc = "load"
    /\ Loaded(progress.mark)
    /\ UNCHANGED <<trip, fixes, progress, board, history>>

LoadFails ==
    /\ pass.pc = "load" /\ "load" \in Faults
    /\ Loaded(Unseen)
    /\ furthest' = Forgotten
    /\ UNCHANGED <<trip, fixes, progress, board, dropped>>

Save ==
    /\ pass.pc = "save"
    /\ progress' = [mark |-> pass.reached, ttl |-> Ttl]
    /\ pass' = [pass EXCEPT !.pc = "write"]
    /\ UNCHANGED <<trip, fixes, board, history>>

SaveFails ==
    /\ pass.pc = "save" /\ "save" \in Faults
    /\ pass' = [pass EXCEPT !.pc = "write"]
    /\ furthest' = Forgotten
    /\ UNCHANGED <<trip, fixes, progress, board, dropped>>

WriteAnswer(arrivals) ==
    /\ pass' = NoPass
    /\ IF DOMAIN arrivals = {}
       THEN dropped' = TRUE /\ UNCHANGED <<board, furthest>>
       ELSE /\ dropped' = FALSE
            /\ board' = [arrivals |-> arrivals, ttl |-> Ttl]
            /\ furthest' = IF furthest \in 0..pass.reached.seq THEN pass.reached.seq ELSE furthest
    /\ UNCHANGED <<trip, fixes, progress>>

Write ==
    /\ pass.pc = "write"
    /\ \E last \in Positions(pass.window), pace \in Speeds(pass.window) :
           WriteAnswer(Arrivals(pass.reached, last, pace, pass.late))

(* The process stops where it is; or, where it writes, the SET fails.        *)
Crash ==
    /\ pass.pc # "idle" /\ "crash" \in Faults
    /\ pass' = NoPass /\ dropped' = TRUE
    /\ UNCHANGED <<trip, fixes, progress, board, furthest>>

-----------------------------------------------------------------------------
Engine == \/ StartPass \/ (\E F \in SUBSET fixes : Search(F)) \/ SearchFails
          \/ Load \/ LoadFails \/ Save \/ SaveFails \/ Write \/ Crash

Next == \/ \E p \in Town : Report(p)
        \/ EndTrip \/ Tick
        \/ Engine

Spec == Init /\ [][Next]_vars

-----------------------------------------------------------------------------
(* Properties.                                                               *)

Promises == UNION {[S -> 0..Horizon] : S \in SUBSET Stops}
Mark == [seq : Stops \cup {0}, age : 0..AgeCap]

(* Every variable has its type, no arrival is promised in the past or beyond *)
(* the horizon, and what Redis holds has time to live.                       *)
TypeOK ==
    /\ trip \in [status : {"live", "ended"}, age : 0..AgeCap]
    /\ fixes \subseteq [at : Town, age : 0..Window]
    /\ progress \in [mark : Mark, ttl : 0..Ttl]
    /\ progress.mark.seq # 0 <=> progress.ttl # 0
    /\ board \in [arrivals : Promises, ttl : 0..Ttl]
    /\ DOMAIN board.arrivals # {} <=> board.ttl # 0
    /\ pass \in [pc : {"idle", "search", "load", "save", "write"}, late : 0..MaxLate,
                 window : SUBSET [at : Town, age : 0..AgeCap], reached : Mark]
    /\ furthest \in Stops \cup {0, Forgotten} /\ dropped \in BOOLEAN

(* The board never counts downwards along the route, whichever of the two    *)
(* estimators each stop's time comes from (_monotonic).                      *)
InOrder ==
    \A r, s \in DOMAIN board.arrivals : r < s => board.arrivals[r] <= board.arrivals[s]

(* Progress only moves forward: a board that a pass wrote offers no stop the *)
(* bus was ever seen to serve, back-tracking and late passes included, but   *)
(* for an engine that lost the progress it had (an expired key, or a Redis   *)
(* call that failed) or a pass that left an older board standing.            *)
OffersOnlyAhead ==
    ~dropped => \A s \in DOMAIN board.arrivals : s > furthest

(* Fairness: the engine's loop survives every exception and time passes; the *)
(* outages come to an end.  (A call that fails with nothing to lose ends in  *)
(* the same state as one that does not.)                                     *)
Searches == \E F \in SUBSET fixes : Search(F)
OutagesEnd == <>[][/\ SearchFails => Searches
                   /\ LoadFails => Load
                   /\ SaveFails => Save
                   /\ Crash => Write]_vars
FairSpec == /\ Spec /\ OutagesEnd
            /\ WF_vars(Tick) /\ WF_vars(StartPass) /\ WF_vars(Searches)
            /\ WF_vars(Load) /\ WF_vars(Save) /\ WF_vars(Write)

(* "would otherwise leave arrival times on the board forever": nothing       *)
(* deletes the arrivals of an ended trip, and they leave the board all the   *)
(* same; those of a trip that goes on come to it and come back to it, with   *)
(* fixes or without, until the bus is seen at the last stop (whose time is   *)
(* on the timetable).                                                        *)
BoardFollowsTrip ==
    []<>IF trip.status = "ended" THEN DOMAIN board.arrivals = {}
        ELSE DOMAIN board.arrivals # {} \/ progress.mark.seq = Max(Stops)
=============================================================================
