------------------------------ MODULE LiveMap ------------------------------
(***************************************************************************)
(* The live map of one route, pushed over WebSockets by one API process:    *)
(* track_route and its stream, the roster cache the streams share, and the  *)
(* connections of the database pool that their sessions hold.               *)
(*                                                                          *)
(* Time is a clock in steps.  Rosters of other routes are other entries of  *)
(* the same dictionary and take no part.                                    *)
(***************************************************************************)
EXTENDS FiniteSets, Integers

CONSTANTS Clients,   \* devices that may watch the route
          Trips,     \* trips of the route
          Buses,
          BusOf,     \* the bus of a trip
          Pool,      \* connections of the engine: pool_size and max_overflow
          RosterTtl, \* track_ws_roster_ttl_s
          QueryTime, \* how long the roster query takes at most
          PosTtl,    \* the expiry of bus:{id}:pos, and LIVE_MAX_AGE_S
          MaxClock,  \* bound: when time stops
          Faults     \* which of "redis", "database", "restart" may happen

ASSUME ClientsAssumption == IsFiniteSet(Clients)
ASSUME BusAssumption     == BusOf \in [Trips -> Buses]
ASSUME NumberAssumption  == {Pool, RosterTtl, QueryTime, PosTtl, MaxClock} \subseteq Nat

VARIABLES
    clock,
    begun,   \* trips that were started, and when
    from,
    over,    \* those of them that have ended, and when
    to,
    pos,     \* when the position in bus:{id}:pos was received, or Lost
    roster,  \* the cache's entry for the route
    held,    \* clients whose session has a database connection
    conn,    \* the connections' handlers
    frame    \* the frame a client is looking at

vars == <<clock, begun, from, over, to, pos, roster, held, conn, frame>>
fleet == <<begun, from, over, to, pos>>

Lost == -1
NoRoster == [stored |-> FALSE, at |-> 0, refs |-> {}]
Away == [pc |-> "away", now |-> 0, asked |-> 0, refs |-> {}]
NoFrame == [built |-> FALSE, at |-> 0, shown |-> {},
            pin |-> [t \in Trips |-> Lost], freshness |-> [t \in Trips |-> "lost"]]

Init ==
    /\ clock = 0
    /\ begun = {} /\ from = [t \in Trips |-> 0]
    /\ over = {}  /\ to = [t \in Trips |-> 0]
    /\ pos = [b \in Buses |-> Lost]
    /\ roster = NoRoster
    /\ held = {}
    /\ conn = [c \in Clients |-> Away]
    /\ frame = [c \in Clients |-> NoFrame]

-----------------------------------------------------------------------------
(* The fleet, as the trip endpoints and the ingest write it.                 *)

Running == begun \ over

StartTrip(t) ==
    /\ t \notin begun /\ \A u \in Running : BusOf[u] # BusOf[t]
    /\ begun' = begun \cup {t} /\ from' = [from EXCEPT ![t] = clock]
    /\ UNCHANGED <<clock, over, to, pos, roster, held, conn, frame>>

EndTrip(t) ==
    /\ t \in Running
    /\ over' = over \cup {t} /\ to' = [to EXCEPT ![t] = clock]
    /\ UNCHANGED <<clock, begun, from, pos, roster, held, conn, frame>>

Fix(t) ==
    /\ t \in Running
    /\ pos' = [pos EXCEPT ![BusOf[t]] = clock]
    /\ UNCHANGED <<clock, begun, from, over, to, roster, held, conn, frame>>

(* A roster query is answered within QueryTime.                              *)
Tick ==
    /\ clock < MaxClock
    /\ \A c \in Clients : conn[c].pc = "query" => clock < conn[c].asked + QueryTime
    /\ clock' = clock + 1
    /\ UNCHANGED <<begun, from, over, to, pos, roster, held, conn, frame>>

-----------------------------------------------------------------------------
(* The handshake.  The session takes a connection for its first query and,   *)
(* since nothing commits, keeps it until the handler is over.                *)

Streams == {c \in Clients : conn[c].pc \in {"roster", "query", "read", "wait"}}

(* A token that is missing, spent, revoked or of an inactive account is      *)
(* closed with 4401 and leaves no trace.  A device that was shut out of a    *)
(* full pool may come back.                                                  *)
Knock(c) ==
    /\ conn[c].pc \in {"away", "shut"}
    /\ conn' = [conn EXCEPT ![c].pc = "knock"]
    /\ UNCHANGED <<fleet, clock, roster, held, frame>>

(* (Variants with a fault, here and below, are never part of Next: they show *)
(* which mistake each property would catch.)                                 *)
CheckRouteUnpooled(c) ==
    /\ conn[c].pc = "knock"
    /\ held' = held \cup {c}
    /\ conn' = [conn EXCEPT ![c].pc = "check"]
    /\ UNCHANGED <<fleet, clock, roster, frame>>

CheckRoute(c) ==
    /\ conn[c].pc = "knock" /\ Cardinality(held) < Pool
    /\ held' = held \cup {c}
    /\ conn' = [conn EXCEPT ![c].pc = "check"]
    /\ UNCHANGED <<fleet, clock, roster, frame>>

(* No connection came free in the pool's 30 seconds, which only streams can  *)
(* fill: a check is over long before.                                        *)
PoolTimeout(c) ==
    /\ conn[c].pc = "knock"
    /\ Cardinality(held) >= Pool /\ held \subseteq Streams
    /\ conn' = [conn EXCEPT ![c].pc = "shut"]
    /\ UNCHANGED <<fleet, clock, roster, held, frame>>

(* One round of the loop; its `now` is the generated_at of the frame it is   *)
(* about to build.                                                           *)
Loop(c) ==
    /\ conn' = [conn EXCEPT ![c] = [Away EXCEPT !.pc = "roster", !.now = clock]]
    /\ frame' = [frame EXCEPT ![c] = NoFrame]
    /\ UNCHANGED <<fleet, clock, roster, held>>

Accept(c) == conn[c].pc = "check" /\ Loop(c)

Hangup(c) ==
    /\ conn' = [conn EXCEPT ![c] = Away]
    /\ held' = held \ {c}
    /\ frame' = [frame EXCEPT ![c] = NoFrame]
    /\ UNCHANGED <<fleet, clock, roster>>

RouteNotFound(c) == conn[c].pc = "check" /\ Hangup(c)

-----------------------------------------------------------------------------
(* RosterCache.get: the lock covers the look and the store, not the query    *)
(* between them, so several streams may query at once.                       *)

Cached == roster.stored /\ clock - roster.at < RosterTtl

HitRestamping(c) ==
    /\ conn[c].pc = "roster" /\ Cached
    /\ conn' = [conn EXCEPT ![c].pc = "read", ![c].refs = roster.refs]
    /\ roster' = [roster EXCEPT !.at = clock]
    /\ UNCHANGED <<fleet, clock, held, frame>>

Hit(c) ==
    /\ conn[c].pc = "roster" /\ Cached
    /\ conn' = [conn EXCEPT ![c].pc = "read", ![c].refs = roster.refs]
    /\ UNCHANGED <<fleet, clock, roster, held, frame>>

Miss(c) ==
    /\ conn[c].pc = "roster" /\ ~Cached
    /\ conn' = [conn EXCEPT ![c].pc = "query", ![c].asked = clock, ![c].refs = Running]
    /\ UNCHANGED <<fleet, clock, roster, held, frame>>

(* Stamped when stored, whatever was stored in the meantime; when it was     *)
(* asked no longer counts.                                                   *)
Store(c) ==
    /\ conn[c].pc = "query"
    /\ roster' = [stored |-> TRUE, at |-> clock, refs |-> conn[c].refs]
    /\ conn' = [conn EXCEPT ![c].pc = "read", ![c].asked = 0]
    /\ UNCHANGED <<fleet, clock, held, frame>>

(* The query raises and takes the stream with it.                            *)
QueryFails(c) == "database" \in Faults /\ conn[c].pc = "query" /\ Hangup(c)

-----------------------------------------------------------------------------
(* build_frame: the positions of the roster's buses in one pipeline, aged    *)
(* from the time they were received to the loop's `now`.                     *)

PositionWithoutExpiry(b) == pos[b]
Position(b) == IF pos[b] # Lost /\ clock - pos[b] < PosTtl THEN pos[b] ELSE Lost

(* A fix may come in after `now`.                                            *)
Age(p, now) == IF p > now THEN 0 ELSE now - p

Classify(p, now) == IF p = Lost THEN "lost"
                    ELSE IF Age(p, now) <= PosTtl THEN "live" ELSE "stale"

Assemble(c, pin) ==
    [built |-> TRUE, at |-> conn[c].now, shown |-> conn[c].refs, pin |-> pin,
     freshness |-> [t \in Trips |-> Classify(pin[t], conn[c].now)]]

Send(c, pin) ==
    /\ conn[c].pc = "read"
    /\ frame' = [frame EXCEPT ![c] = Assemble(c, pin)]
    /\ conn' = [conn EXCEPT ![c] = [Away EXCEPT !.pc = "wait"]]
    /\ UNCHANGED <<fleet, clock, roster, held>>

Read(c) == Send(c, [t \in Trips |-> IF t \in conn[c].refs THEN Position(BusOf[t]) ELSE Lost])

(* Redis fails: every bus of the frame is lost, and the stream goes on.      *)
ReadFails(c) == "redis" \in Faults /\ Send(c, [t \in Trips |-> Lost])

(* The interval is over, or, before that, the client sent something.         *)
NextFrame(c) == conn[c].pc = "wait" /\ Loop(c)

Leave(c) == conn[c].pc = "wait" /\ Hangup(c)

(* The process ends: its cache, its pool and every socket with it.           *)
Restart ==
    /\ "restart" \in Faults
    /\ roster' = NoRoster /\ held' = {}
    /\ conn' = [c \in Clients |-> Away] /\ frame' = [c \in Clients |-> NoFrame]
    /\ UNCHANGED <<fleet, clock>>

-----------------------------------------------------------------------------
FleetStep == Tick \/ \E t \in Trips : StartTrip(t) \/ EndTrip(t) \/ Fix(t)

HandshakeStep(c) == \/ Knock(c) \/ CheckRoute(c) \/ PoolTimeout(c)
                    \/ Accept(c) \/ RouteNotFound(c)

StreamStep(c) == \/ Hit(c) \/ Miss(c) \/ Store(c) \/ QueryFails(c)
                 \/ Read(c) \/ ReadFails(c) \/ NextFrame(c) \/ Leave(c)

Next == FleetStep \/ Restart \/ \E c \in Clients : HandshakeStep(c) \/ StreamStep(c)

Spec == Init /\ [][Next]_vars

-----------------------------------------------------------------------------
(* Properties.                                                               *)

Handler == [pc : {"away", "knock", "shut", "check", "roster", "query", "read", "wait"},
            now : Nat, asked : Nat, refs : SUBSET Trips]
Frame == [built : BOOLEAN, at : Nat, shown : SUBSET Trips, pin : [Trips -> Nat \cup {Lost}],
          freshness : [Trips -> {"live", "stale", "lost"}]]

(* Every variable has its type; a session with a connection is one that      *)
(* checks the route or streams, and there are no more of them than the pool  *)
(* has connections.                                                          *)
TypeOK ==
    /\ clock \in Nat
    /\ begun \subseteq Trips /\ over \subseteq begun
    /\ from \in [Trips -> Nat] /\ to \in [Trips -> Nat]
    /\ pos \in [Buses -> Nat \cup {Lost}]
    /\ roster \in [stored : BOOLEAN, at : Nat, refs : SUBSET Trips]
    /\ conn \in [Clients -> Handler]
    /\ frame \in [Clients -> Frame]
    /\ held = Streams \cup {c \in Clients : conn[c].pc = "check"}
    /\ Cardinality(held) <= Pool

(* A set of trips describes the route as it was at x or later.               *)
Current(S, x) ==
    /\ S \subseteq begun
    /\ \A t \in S \cap over : to[t] >= x
    /\ \A t \in Running : from[t] < x => t \in S

(* live_track.py: a trip that started takes "up to roster_ttl_s to appear"   *)
(* on the map and one that ended "that long to drop off".  However many      *)
(* streams query at once and store late and out of order, a frame is behind  *)
(* its generated_at by no more than that and the query's own time.           *)
RosterBounded ==
    \A c \in Clients : frame[c].built =>
        Current(frame[c].shown, frame[c].at - (RosterTtl + QueryTime))

(* A pin on the map was received less than a minute before the frame's       *)
(* generated_at, though a frame takes time to build and is dated from its    *)
(* start; and what the map does not show is not called live.                 *)
PinIsFresh ==
    \A c \in Clients : \A t \in Trips :
        /\ frame[c].pin[t] # Lost => frame[c].at - frame[c].pin[t] < PosTtl
        /\ frame[c].freshness[t] = "live" <=> frame[c].pin[t] # Lost
=============================================================================
