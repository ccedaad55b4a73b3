----------------------------- MODULE RouteStops -----------------------------
(***************************************************************************)
(* Stops, and the ordered stop list of each route.  An operator replaces a   *)
(* list as a whole: the handler checks that the stops exist, deletes the     *)
(* rows of the old list and inserts those of the new one, in one             *)
(* transaction.  Another operator may replace the same list, or delete one   *)
(* of its stops, at the same time.                                           *)
(*                                                                           *)
(* The database runs at READ COMMITTED: a statement sees what was committed  *)
(* when it began.  A DELETE waits for a transaction that has deleted a row   *)
(* it is after, and does not see the rows which that transaction inserted.   *)
(***************************************************************************)
EXTENDS Naturals, SequencesExt

CONSTANTS Stops,     \* stops that may come to exist
          Routes,
          Editors,   \* requests of operators in flight
          MaxLength  \* bound on the length of a list (max_length)

VARIABLES
    stops,    \* the stops table
    rows,     \* route_stops: stop, seq and generation of each route's rows
    saved,    \* the list last saved for each route (history)
    edit      \* the requests

vars == <<stops, rows, saved, edit>>

Lists == UNION {[1..n -> Stops] : n \in 1..MaxLength}

(* enumerate(body.stops, start=1).                                           *)
RowsOf(list, g) == {[stop |-> list[i], seq |-> i, generation |-> g] : i \in DOMAIN list}

NoEdit == [pc |-> "idle", route |-> "none", stop |-> "none", list |-> <<>>, victims |-> {}]

Init ==
    /\ stops = {}
    /\ rows = [r \in Routes |-> {}]
    /\ saved = [r \in Routes |-> <<>>]
    /\ edit = [e \in Editors |-> NoEdit]

(* A generation stands for the ids of the rows inserted together: two rows   *)
(* with one stop and seq are different rows.  The least one not in use.      *)
Generations == 1..(Cardinality(Editors) + 2)
InUseNow(r) == {x.generation : x \in rows[r] \cup UNION {edit[e].victims : e \in Editors}}
NewGeneration(r) == Min(Generations \ InUseNow(r))

CreateStop(s) ==
    /\ s \notin stops
    /\ stops' = stops \cup {s}
    /\ UNCHANGED <<rows, saved, edit>>

-----------------------------------------------------------------------------
(* replace_route_stops.                                                      *)

(* A list that is empty, repeats a stop or names an unknown one is refused.  *)
BeginSave(e, r, list) ==
    /\ edit[e].pc = "idle"
    /\ IsInjective(list) /\ ToSet(list) \subseteq stops
    /\ edit' = [edit EXCEPT ![e] = [NoEdit EXCEPT !.pc = "checked", !.route = r, !.list = list]]
    /\ UNCHANGED <<stops, rows, saved>>

(* clear_route_stops: the statement starts,                                  *)
StartDelete(e) ==
    /\ edit[e].pc = "checked"
    /\ edit' = [edit EXCEPT ![e].pc = "deleting", ![e].victims = rows[edit[e].route]]
    /\ UNCHANGED <<stops, rows, saved>>

Locked(e) == \E f \in Editors \ {e} :
                /\ edit[f].pc = "deleted" /\ edit[f].route = edit[e].route
                /\ edit[f].victims \cap edit[e].victims # {}

(* (A variant with a fault, never part of Next: it shows which mistake the   *)
(* properties would catch.)                                                  *)
ClearCommitting(e) ==
    LET r == edit[e].route IN
    /\ edit[e].pc = "deleting" /\ ~Locked(e)
    /\ rows' = [rows EXCEPT ![r] = @ \ edit[e].victims]
    /\ edit' = [edit EXCEPT ![e].pc = "deleted"]
    /\ UNCHANGED <<stops, saved>>

(* and gets every row it is after that is still there.                       *)
FinishDelete(e) ==
    /\ edit[e].pc = "deleting" /\ ~Locked(e)
    /\ edit' = [edit EXCEPT ![e].pc = "deleted", ![e].victims = @ \cap rows[edit[e].route]]
    /\ UNCHANGED <<stops, rows, saved>>

(* uq_route_stops_route_seq and uq_route_stops_route_stop.                   *)
Unique(R) == \A x, y \in R : x.seq = y.seq \/ x.stop = y.stop => x = y

(* The INSERTs and the COMMIT; a violated constraint rolls everything back.  *)
Insert(e) ==
    LET r     == edit[e].route
        list  == edit[e].list
        after == (rows[r] \ edit[e].victims) \cup RowsOf(list, NewGeneration(r))
    IN
    /\ edit[e].pc = "deleted"
    /\ IF Unique(after) /\ ToSet(list) \subseteq stops
       THEN /\ rows' = [rows EXCEPT ![r] = after]
            /\ saved' = [saved EXCEPT ![r] = list]
       ELSE UNCHANGED <<rows, saved>>
    /\ edit' = [edit EXCEPT ![e] = NoEdit]
    /\ UNCHANGED stops

-----------------------------------------------------------------------------
(* delete_stop.                                                              *)

Served(s) == \E r \in Routes : \E x \in rows[r] : x.stop = s

BeginDeleteStop(e, s) ==
    /\ edit[e].pc = "idle" /\ s \in stops /\ ~Served(s)
    /\ edit' = [edit EXCEPT ![e] = [NoEdit EXCEPT !.pc = "unused", !.stop = s]]
    /\ UNCHANGED <<stops, rows, saved>>

(* The foreign key has the last word: a stop taken into a list since the     *)
(* check stays (an IntegrityError nothing catches: 500).                     *)
DeleteStop(e) ==
    LET s == edit[e].stop IN
    /\ edit[e].pc = "unused"
    /\ stops' = IF Served(s) THEN stops ELSE stops \ {s}
    /\ edit' = [edit EXCEPT ![e] = NoEdit]
    /\ UNCHANGED <<rows, saved>>

(* The request dies, or loses its database, before its commit.               *)
Fails(e) ==
    /\ edit[e].pc # "idle"
    /\ edit' = [edit EXCEPT ![e] = NoEdit]
    /\ UNCHANGED <<stops, rows, saved>>

-----------------------------------------------------------------------------
Step(e) == \/ \E r \in Routes, list \in Lists : BeginSave(e, r, list)
           \/ StartDelete(e) \/ FinishDelete(e) \/ Insert(e)
           \/ \E s \in Stops : BeginDeleteStop(e, s)
           \/ DeleteStop(e) \/ Fails(e)

Next == \/ \E s \in Stops : CreateStop(s)
        \/ \E e \in Editors : Step(e)

Spec == Init /\ [][Next]_vars

-----------------------------------------------------------------------------
(* Properties.                                                               *)

RouteRow == [stop : Stops, seq : 1..MaxLength, generation : Generations]

(* Every variable has its type; a request past its check has its subject.    *)
TypeOK ==
    /\ stops \subseteq Stops
    /\ rows \in [Routes -> SUBSET RouteRow]
    /\ saved \in [Routes -> Lists \cup {<<>>}]
    /\ edit \in [Editors -> [pc : {"idle", "checked", "deleting", "deleted", "unused"},
                             route : Routes \cup {"none"}, stop : Stops \cup {"none"},
                             list : Lists \cup {<<>>}, victims : SUBSET RouteRow]]
    /\ \A e \in Editors :
          /\ edit[e].pc \in {"checked", "deleting", "deleted"} => edit[e].route \in Routes
          /\ edit[e].pc = "unused" => edit[e].stop \in Stops

(* "A bad stop id leaves the existing route untouched rather than wiping it",*)
(* "remove a stop that no route uses": whatever replaces, deletes and        *)
(* failures overlap, a reader finds each route whole, with the list of one   *)
(* request that succeeded, the last, and every stop of it exists.            *)
RouteWhole ==
    \A r \in Routes : /\ \E g \in Generations : rows[r] = RowsOf(saved[r], g)
                      /\ ToSet(saved[r]) \subseteq stops
=============================================================================
