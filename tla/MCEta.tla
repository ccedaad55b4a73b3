------------------------------- MODULE MCEta --------------------------------
(* Three stops on a road, and a place between the second and the third where *)
(* the bus can be seen.  No fix comes within the radius of the third, and    *)
(* the second has no time on the timetable.                                  *)
EXTENDS Eta
MCStops == 1..3
MCTown == 0..2
MCWhere == [s \in MCStops |-> CASE s = 1 -> 0 [] s = 2 -> 1 [] s = 3 -> 3]
MCMile == MCWhere
MCOffset == [s \in MCStops |-> CASE s = 1 -> 2 [] s = 2 -> Unscheduled [] s = 3 -> 4]
=============================================================================
