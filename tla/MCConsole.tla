----------------------------- MODULE MCConsole ------------------------------
(* The live map of a route, of one bus that runs every trip, and the small   *)
(* desks beside it: incidents and seat counts, the stop lists, the registers *)
(* and the mailed links.  They have no variable in common, so that each is   *)
(* explored with the others at rest.                                         *)
EXTENDS LiveMap, TLC

CONSTANT b1
MCBusOf == [t \in Trips |-> b1]

CONSTANTS Alerts, Admins, Phones, MaxReports
VARIABLES alert, announced, desk, told, raced, onTrip, latest, seats, phone, doubt
I == INSTANCE Incidents

CONSTANTS Stops, Routes, Editors, MaxLength
VARIABLES stops, rows, saved, edit
S == INSTANCE RouteStops

CONSTANTS Ids, Names, Clerks
VARIABLES row, request
R == INSTANCE Registry

CONSTANTS Visits, Links, Cooldown, Life, MailFaults
VARIABLES account, cooldown, link, visit, sent, crowded, uses, excused
C == INSTANCE Credentials WITH Requests <- Visits, request <- visit, Faults <- MailFaults

ASSUME DesksAssumption ==
    /\ "nobody" \notin Alerts \cup Admins /\ MaxReports \in Nat
    /\ IsFiniteSet(Editors) /\ MaxLength \in Nat
    /\ Cooldown \in Nat /\ Life \in Nat \ {0} /\ "none" \notin Links

incidents   == <<alert, announced, desk, told, raced, onTrip, latest, seats, phone, doubt>>
lists       == <<stops, rows, saved, edit>>
registers   == <<row, request>>
credentials == <<account, cooldown, link, visit, sent, crowded, uses, excused>>
desks == <<incidents, lists, registers, credentials>>

VARIABLE active   \* the part that a behaviour explores
consoleVars == <<vars, desks, active>>

ConsoleInit ==
    /\ Init /\ I!Init /\ S!Init /\ R!Init /\ C!Init
    /\ active \in {"map", "incidents", "lists", "registers", "credentials"}

ConsoleNext ==
    /\ \/ active = "map" /\ Next
          /\ UNCHANGED desks
       \/ active = "incidents" /\ I!Next
          /\ UNCHANGED <<vars, lists, registers, credentials>>
       \/ active = "lists" /\ S!Next
          /\ UNCHANGED <<vars, incidents, registers, credentials>>
       \/ active = "registers" /\ R!Next
          /\ UNCHANGED <<vars, incidents, lists, credentials>>
       \/ active = "credentials" /\ C!Next
          /\ UNCHANGED <<vars, incidents, lists, registers>>
    /\ UNCHANGED active

ConsoleSpec == ConsoleInit /\ [][ConsoleNext]_consoleVars

Symmetry == Permutations(Stops \cup Clients)

(* The type invariants of the five modules.                                  *)
ConsoleTypeOK == TypeOK /\ I!TypeOK /\ S!TypeOK /\ R!TypeOK /\ C!TypeOK

(* Incidents, acknowledge_alert and resolve_alert under each other's reads.  *)
IncidentKept == I!IncidentKept

(* Incidents, publish_seats and publish_alert after the commit.              *)
SeatsFollowReports == I!SeatsFollowReports

(* RouteStops, replace_route_stops and delete_stop at once.                  *)
RouteWhole == S!RouteWhole

(* Registry, edits, additions and batches of buses and routes at once.       *)
RegisterIsAsEdited == R!RegisterIsAsEdited

(* Credentials, reset_password and the denylist.                             *)
LinksAreSingleUse == C!LinksAreSingleUse

(* Credentials, register_student and the two cooldowns.                      *)
MailsAreSpaced == C!MailsAreSpaced
=============================================================================
