------------------------------- MODULE Nearby -------------------------------
(***************************************************************************)
(* "Which buses are near me, right now": the search over the GPS index that  *)
(* the indexer fills.  Fixes reach the index late and out of order, because  *)
(* a phone sends what it kept while offline, because the indexer was down,   *)
(* or twice, because an upload was retried.                                  *)
(***************************************************************************)
EXTENDS Indexer, Integers

CONSTANTS BusOf, TakenAt,   \* the bus and the time of each fix
          Distance,         \* how far from the student each fix lies
          Radius, Fresh,    \* radius_km and NEARBY_FRESH_S
          Limit,            \* the size of an answer
          MaxClock          \* bound on time

ASSUME NearbyAssumption ==
    /\ TakenAt \in [Fixes -> Nat] /\ Distance \in [Fixes -> Nat]
    /\ Radius \in Nat /\ Fresh \in Nat /\ Limit \in Nat

VARIABLES
    clock,    \* the time
    query,    \* the search under way: whether there is one, and its cutoff
    answer    \* the answer the student has, closest first

reader == <<clock, query, answer>>
allVars == <<vars, reader>>

NoQuery == [asked |-> FALSE, cutoff |-> 0]

NearbyInit == Init /\ clock = 0 /\ query = NoQuery /\ answer = <<>>

Tick ==
    /\ clock < MaxClock
    /\ clock' = clock + 1
    /\ UNCHANGED <<vars, query, answer>>

(* nearby_buses takes the time, builds the query and sends it.               *)
Ask ==
    /\ ~query.asked
    /\ query' = [asked |-> TRUE, cutoff |-> clock - Fresh]
    /\ UNCHANGED <<vars, clock, answer>>

-----------------------------------------------------------------------------
(* What Elasticsearch makes of build_nearby_query: filter, sort, collapse    *)
(* (of the hits of a bus the first is kept), and cut to size.                *)

Matches(f) == f \in es /\ Distance[f] <= Radius /\ TakenAt[f] >= query.cutoff

(* (Variants with a fault, here and below, are never part of Next: they show *)
(* which mistake each property would catch.)                                 *)
ClosestFirst(f, g) == \/ Distance[f] < Distance[g]
                      \/ Distance[f] = Distance[g] /\ TakenAt[f] > TakenAt[g]

Before(f, g) == \/ TakenAt[f] > TakenAt[g]
                \/ TakenAt[f] = TakenAt[g] /\ Distance[f] < Distance[g]

Hits == {f \in Fixes : Matches(f)}
Kept(f) == \A g \in Hits : BusOf[g] = BusOf[f] => ~Before(g, f)

(* The hits kept, newest first; which of two equals comes first is not said. *)
Pages == {p \in UNION {[1..n -> Fixes] : n \in 0..Limit} :
            /\ \A i \in DOMAIN p : p[i] \in Hits /\ Kept(p[i])
            /\ \A i, j \in DOMAIN p : i < j => BusOf[p[i]] # BusOf[p[j]] /\ ~Before(p[j], p[i])
            /\ \A f \in Hits : \/ \E i \in DOMAIN p : BusOf[p[i]] = BusOf[f]
                               \/ Len(p) = Limit /\ \A i \in DOMAIN p : ~Before(f, p[i])}

Listed(cards) == {cards[i] : i \in DOMAIN cards}

(* buses.sort: the same cards, closest first.                                *)
ByDistance(p) == CHOOSE q \in [DOMAIN p -> Listed(p)] :
    /\ Listed(q) = Listed(p)
    /\ \A i, j \in DOMAIN q : i < j => Distance[q[i]] <= Distance[q[j]]

Answer ==
    /\ query.asked
    /\ \E p \in Pages : answer' = ByDistance(p)
    /\ query' = NoQuery
    /\ UNCHANGED <<vars, clock>>

-----------------------------------------------------------------------------
(* The pipeline goes on beside the reader; a fix is added once taken.        *)
Pipeline ==
    /\ Next
    /\ \A f \in Entries' \ Entries : TakenAt[f] <= clock
    /\ UNCHANGED reader

NearbyNext == Pipeline \/ Tick \/ Ask \/ Answer

NearbySpec == NearbyInit /\ [][NearbyNext]_allVars /\ WF_vars(Work)

-----------------------------------------------------------------------------
(* Properties.                                                               *)

Newest(f) == f \in es /\ \A g \in es : BusOf[g] = BusOf[f] => TakenAt[g] <= TakenAt[f]

(* A card is recent as of the question, and a newer fix of its bus that the  *)
(* index has lies outside the radius, if there is one; it is never older     *)
(* than the one the last answer had; the cards are sorted; and with room for *)
(* all, no bus is left out whose latest fix is recent and around here.       *)
ShowsTheLatest ==
    /\ \A f \in Listed(answer') :
          /\ TakenAt[f] >= query.cutoff /\ Distance[f] <= Radius
          /\ \A g \in es : BusOf[g] = BusOf[f] /\ TakenAt[g] > TakenAt[f] => Distance[g] > Radius
          /\ \A g \in Listed(answer) : BusOf[g] = BusOf[f] => TakenAt[g] <= TakenAt[f]
    /\ \A i, j \in DOMAIN answer' : i < j => Distance[answer'[i]] <= Distance[answer'[j]]
    /\ Len(answer') < Limit =>
          \A f \in es : Newest(f) /\ Distance[f] <= Radius /\ TakenAt[f] >= query.cutoff
                          => \E g \in Listed(answer') : BusOf[g] = BusOf[f]

(* The docstring of build_nearby_query: not "the closest point that bus had  *)
(* ever recorded", and no bus that "stopped reporting" -- as far as the      *)
(* radius goes; a bus that drove out of it is the exception below.           *)
NearbyIsLatest == [][query.asked /\ ~query'.asked => ShowsTheLatest]_allVars

(* What nearby_buses says of itself: "Buses whose latest fix is within       *)
(* `radius_km`", of the fixes taken by the question that the index has.  The *)
(* filter comes before the sort, so a bus that has driven out of the radius  *)
(* is shown where it last was inside, until that fix is too old.             *)
ListsOnlyTheNear ==
    [][query.asked /\ ~query'.asked =>
        \A f \in Listed(answer') : \A g \in es :
            BusOf[g] = BusOf[f] /\ TakenAt[g] <= query.cutoff + Fresh => TakenAt[g] <= TakenAt[f]
      ]_allVars
=============================================================================
