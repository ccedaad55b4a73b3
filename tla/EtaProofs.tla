----------------------------- MODULE EtaProofs ------------------------------
(***************************************************************************)
(* For every route, timetable, window and time to live: the arrival board    *)
(* is well typed, in order along the route, and offers no stop that the      *)
(* engine knows to be served.                                                *)
(***************************************************************************)
EXTENDS Eta, TLAPS, WellFoundedInduction

-----------------------------------------------------------------------------
(* Least and greatest elements, from the well-founded order of Nat.          *)

(* A set of numbers has a least element, and Min gives it.                   *)
LEMMA HasLeast ==
  ASSUME NEW S \in SUBSET Nat, S # {}
  PROVE  Min(S) \in S /\ \A y \in S : Min(S) <= y
<1>1. PICK x \in S : \A y \in S : ~(<<y, x>> \in OpToRel(<, Nat))
  BY NatLessThanWellFounded, WFMin
<1>2. \A y \in S : x <= y
  <2> TAKE y \in S
  <2>1. ~(y < x)
    BY <1>1 DEF OpToRel
  <2> QED
    BY <2>1
<1> QED
  BY <1>2 DEF Min

(* A bounded set of numbers has a greatest element, and Max gives it.        *)
LEMMA HasGreatest ==
  ASSUME NEW n \in Nat, NEW S \in SUBSET (0..n), S # {}
  PROVE  Max(S) \in S /\ \A y \in S : y <= Max(S)
<1> DEFINE T == {n - x : x \in S}
<1>1. \A x \in S : x \in 0..n /\ n - x \in Nat
  OBVIOUS
<1>2. T \in SUBSET Nat /\ T # {}
  BY <1>1
<1>3. Min(T) \in T /\ \A y \in T : Min(T) <= y
  BY <1>2, HasLeast
<1>4. PICK x \in S : Min(T) = n - x
  BY <1>3
<1>5. \A y \in S : x >= y
  <2> TAKE y \in S
  <2>1. n - x <= n - y
    BY <1>3, <1>4
  <2> QED
    BY <1>1, <2>1
<1> QED
  BY <1>5 DEF Max

-----------------------------------------------------------------------------
(* What the engine computes.                                                 *)

USE DEF Mark, Unseen

(* A stop's seq is a number from 1 to the last.                              *)
LEMMA StopsAreNumbers ==
  /\ Stops \subseteq Nat
  /\ \A s \in Stops : s \in 0..LastSeq /\ s # 0
  BY RouteAssumption

(* A mark's seq is a number.                                                 *)
LEMMA MarkSeq == \A m \in Mark : m.seq \in Nat
<1>1. \A s \in Stops \cup {0} : s \in Nat
  BY StopsAreNumbers
<1>2. \A m \in Mark : m.seq \in Stops \cup {0}
  OBVIOUS
<1> QED
  BY <1>1, <1>2, Zenon

(* Stops are at a place, and so far along the route.                         *)
LEMMA RoutePlaces ==
  ASSUME NEW s \in Stops
  PROVE  Where[s] \in Int /\ Mile[s] \in Int
  BY RouteAssumption

(* So is the bus.                                                            *)
LEMMA TownPlaces == \A p \in Town : p \in Int
  BY RouteAssumption

(* advance_progress answers what is known or a stop beyond it.               *)
LEMMA AdvanceKeepsForward ==
  ASSUME NEW known \in Mark,
         NEW window \in SUBSET [at : Town, age : 0..AgeCap]
  PROVE  /\ Advance(known, window) \in Mark
         /\ Advance(known, window) = known \/ Advance(known, window).seq > known.seq
<1> DEFINE seen == {s \in UNION {Near(f) : f \in window} : s > known.seq}
<1> DEFINE first == {g \in window : Max(seen) \in Near(g)}
<1> DEFINE ages == {f.age : f \in first}
<1>1. CASE seen = {}
  BY <1>1 DEF Advance
<1>2. CASE seen # {}
  <2>1. seen \in SUBSET (0..LastSeq) /\ seen \subseteq Stops
    BY StopsAreNumbers DEF Near
  <2>2. Max(seen) \in seen
    BY <1>2, <2>1, HasGreatest, RouteAssumption
  <2>3. first # {}
    BY <2>2
  <2>4. ages \in SUBSET (0..AgeCap) /\ ages # {}
    <3>1. first \subseteq [at : Town, age : 0..AgeCap]
      OBVIOUS
    <3>2. \A f \in first : f.age \in 0..AgeCap
      BY <3>1
    <3> HIDE DEF first, seen
    <3> QED
      BY <2>3, <3>2
  <2>5. Max(ages) \in ages
    BY <2>4, HasGreatest, BoundsAssumption
  <2>6. Max(seen) > known.seq /\ Max(seen) \in Stops
    BY <2>1, <2>2
  <2>7. Advance(known, window) = [seq |-> Max(seen), age |-> Max(ages)]
    BY <1>2 DEF Advance
  <2>8. Max(ages) \in 0..AgeCap
    BY <2>4, <2>5
  <2> HIDE DEF seen, first, ages
  <2>9. Advance(known, window) \in Mark
    BY <2>6, <2>7, <2>8
  <2>10. Advance(known, window).seq > known.seq
    BY <2>6, <2>7
  <2> QED
    BY <2>9, <2>10
<1> QED
  BY <1>1, <1>2

(* An estimate is a number of ticks from now on, never in the past.          *)
LEMMA EstimateType ==
  ASSUME TypeOK, NEW reached \in Mark, NEW last \in Town, NEW pace \in Paces \cup {0},
         NEW late \in 0..MaxLate, NEW s \in Estimated(reached, pace)
  PROVE  Estimate(s, reached, last, pace, late) \in Nat
<1>1. s \in Stops /\ s \in Ahead(reached)
  BY DEF Estimated, Ahead
<1>2. CASE Live(s, reached, pace)
  <2>1. Ahead(reached) \in SUBSET Nat /\ Ahead(reached) # {} /\ Ahead(reached) \subseteq Stops
    BY <1>1, StopsAreNumbers DEF Ahead
  <2>2. Min(Ahead(reached)) \in Stops
    BY <2>1, HasLeast
  <2>3. Distance(last, Where[Min(Ahead(reached))]) \in Int
    BY <2>2, RoutePlaces, TownPlaces DEF Distance
  <2>4. Mile[s] \in Int /\ Mile[Min(Ahead(reached))] \in Int
    BY <1>1, <2>2, RoutePlaces
  <2>5. Road(s, last, reached) \in Int
    BY <2>3, <2>4 DEF Road
  <2>6. pace * Road(s, last, reached) \in Int
    BY <2>5, RouteAssumption
  <2> QED
    BY <1>2, <2>6 DEF Estimate
<1>3. CASE ~Live(s, reached, pace)
  <2>1. Offset[s] \in Nat
    BY <1>1, <1>3, RouteAssumption DEF Estimated
  <2>2. trip.age \in Int /\ reached.age \in Int /\ late \in Int
    BY DEF TypeOK
  <2>3. reached.seq \in Stops /\ Offset[reached.seq] # Unscheduled =>
           Offset[reached.seq] \in Nat
    BY RouteAssumption
  <2>4. Scheduled(s, reached, late) \in Int
    BY <2>1, <2>2, <2>3 DEF Scheduled
  <2> QED
    BY <1>3, <2>4 DEF Estimate
<1> QED
  BY <1>2, <1>3

(* The stops an answer is about lie ahead, within the horizon and in order.  *)
LEMMA ArrivalsInOrder ==
  ASSUME TypeOK, NEW reached \in Mark, NEW last \in Town, NEW pace \in Paces \cup {0},
         NEW late \in 0..MaxLate
  PROVE  LET A == Arrivals(reached, last, pace, late) IN
         /\ DOMAIN A \in SUBSET Stops
         /\ \A s \in DOMAIN A : s > reached.seq
         /\ A \in [DOMAIN A -> 0..Horizon]
         /\ \A r, s \in DOMAIN A : r < s => A[r] <= A[s]
<1> DEFINE E(s) == Estimate(s, reached, last, pace, late)
<1> DEFINE kept == {s \in Estimated(reached, pace) : E(s) <= Horizon}
<1> DEFINE upTo(s) == {E(r) : r \in {k \in kept : k <= s}}
<1> DEFINE A == [s \in kept |-> Max(upTo(s))]
<1>1. Arrivals(reached, last, pace, late) = A
  BY DEF Arrivals
<1>2. \A s \in kept : E(s) \in 0..Horizon
  <2> TAKE s \in kept
  <2>1. E(s) \in Nat
    BY EstimateType
  <2> HIDE DEF E
  <2> QED
    BY <2>1, BoundsAssumption
<1>3. kept \subseteq Stops /\ \A s \in kept : s > reached.seq
  BY DEF Estimated, Ahead
<1>4. kept \subseteq Nat
  BY <1>3, StopsAreNumbers
<1> HIDE DEF E, kept
<1>5. \A s \in kept : upTo(s) \in SUBSET (0..Horizon) /\ upTo(s) # {}
  <2> TAKE s \in kept
  <2>1. s <= s
    BY <1>4
  <2>2. E(s) \in upTo(s)
    BY <2>1
  <2> QED
    BY <1>2, <2>2
<1>6. \A s \in kept : Max(upTo(s)) \in upTo(s) /\ \A y \in upTo(s) : y <= Max(upTo(s))
  BY <1>5, HasGreatest, BoundsAssumption
<1>7. \A r, s \in kept : r < s => upTo(r) \subseteq upTo(s)
  BY <1>4
<1> HIDE DEF upTo
<1>8. \A r, s \in kept : r < s => Max(upTo(r)) <= Max(upTo(s))
  BY <1>6, <1>7
<1>9. \A s \in kept : Max(upTo(s)) \in 0..Horizon
  BY <1>5, <1>6
<1> QED
  BY <1>1, <1>3, <1>8, <1>9

-----------------------------------------------------------------------------
(* The inductive invariant: what the engine is about to save or to write     *)
(* from is at least as far as what it saved, and what it wrote from is what  *)
(* it has saved; unless it forgot.                                           *)

FurthestSaved == furthest # Forgotten => furthest <= progress.mark.seq
PassAhead ==
    furthest # Forgotten =>
        /\ pass.pc = "save" => progress.mark.seq <= pass.reached.seq
        /\ pass.pc = "write" => progress.mark.seq = pass.reached.seq
SavesStop == pass.pc = "save" => pass.reached.seq # 0
IInv == TypeOK /\ InOrder /\ OffersOnlyAhead /\ FurthestSaved /\ PassAhead /\ SavesStop

(* A key's mark ages and keeps its stop.                                     *)
LEMMA AgedMark ==
  ASSUME NEW m \in Mark
  PROVE  Aged(m) \in Mark /\ Aged(m).seq = m.seq
  BY BoundsAssumption DEF Aged, Older

(* So do the fixes a pass has read.                                          *)
LEMMA AgedFixes ==
  ASSUME NEW F \in SUBSET [at : Town, age : 0..AgeCap]
  PROVE  OlderFixes(F) \in SUBSET [at : Town, age : 0..AgeCap]
<1> SUFFICES ASSUME NEW f \in F PROVE [f EXCEPT !.age = Older(@)] \in [at : Town, age : 0..AgeCap]
  BY DEF OlderFixes
<1>1. Older(f.age) \in 0..AgeCap
  BY BoundsAssumption DEF Older
<1> QED
  BY <1>1

(* An empty answer promises nothing.                                         *)
LEMMA NothingPromised == NoArrivals \in Promises /\ DOMAIN NoArrivals = {}
  BY DEF Promises, NoArrivals

USE DEF TypeOK, NoProgress, NoArrivals, NoBoard, NoPass, Forgotten

(* In the initial state.                                                     *)
LEMMA InitInv == Init => IInv
<1> SUFFICES ASSUME Init PROVE IInv
  OBVIOUS
<1>1. TypeOK
  <2>1. NoArrivals \in Promises /\ DOMAIN NoArrivals = {}
    BY NothingPromised
  <2>2. board \in [arrivals : Promises, ttl : 0..Ttl]
    BY <2>1, BoundsAssumption DEF Init
  <2>3. trip \in [status : {"live", "ended"}, age : 0..AgeCap]
    BY BoundsAssumption DEF Init
  <2>4. progress \in [mark : Mark, ttl : 0..Ttl]
    BY BoundsAssumption DEF Init
  <2>5. NoPass \in [pc : {"idle", "search", "load", "save", "write"}, late : 0..MaxLate,
                    window : SUBSET [at : Town, age : 0..AgeCap], reached : Mark]
    BY BoundsAssumption
  <2> QED
    BY <2>1, <2>2, <2>3, <2>4, <2>5 DEF Init
<1> QED
  BY <1>1 DEF Init, IInv, InOrder, OffersOnlyAhead, FurthestSaved, PassAhead, SavesStop

-----------------------------------------------------------------------------
(* Every action keeps the invariant.                                         *)

PassRecord == [pc : {"idle", "search", "load", "save", "write"}, late : 0..MaxLate,
               window : SUBSET [at : Town, age : 0..AgeCap], reached : Mark]

(* No pass is a pass.                                                        *)
LEMMA NoPassType == NoPass \in PassRecord
  BY BoundsAssumption DEF PassRecord

(* An action that leaves the two keys, and what is known of them, alone.     *)
LEMMA KeysAlone ==
  ASSUME IInv, TypeOK',
         UNCHANGED <<progress, board, furthest>>, dropped' = dropped \/ dropped' = TRUE,
         pass'.pc \notin {"save", "write"} \/ UNCHANGED pass
  PROVE  IInv'
<1> USE DEF IInv
<1>1. InOrder' /\ OffersOnlyAhead'
  BY DEF InOrder, OffersOnlyAhead
<1>2. FurthestSaved' /\ PassAhead' /\ SavesStop'
  BY DEF FurthestSaved, PassAhead, SavesStop
<1> QED
  BY <1>1, <1>2

(* The board is about stops of the route.                                    *)
LEMMA BoardStops == TypeOK => DOMAIN board.arrivals \subseteq Stops
  BY DEF Promises

(* An action by which the engine loses what it knew.                         *)
LEMMA ForgetsAll ==
  ASSUME IInv, TypeOK', SavesStop', UNCHANGED <<board, dropped>>, furthest' = Forgotten
  PROVE  IInv'
<1> USE DEF IInv
<1>1. \A s \in Stops : s > Forgotten
  BY StopsAreNumbers
<1>2. DOMAIN board.arrivals \subseteq Stops
  BY BoardStops
<1>3. InOrder' /\ OffersOnlyAhead'
  BY <1>1, <1>2 DEF InOrder, OffersOnlyAhead
<1>4. FurthestSaved' /\ PassAhead'
  BY DEF FurthestSaved, PassAhead
<1> QED
  BY <1>3, <1>4

(* The bus is seen, or its trip ends.                                        *)
LEMMA BusInv ==
  ASSUME IInv, (\E p \in Town : Report(p)) \/ EndTrip
  PROVE  IInv'
<1>1. UNCHANGED <<progress, board, pass, history>>
  BY DEF Report, EndTrip
<1>2. fixes' \subseteq [at : Town, age : 0..Window]
  BY BoundsAssumption DEF IInv, Report, EndTrip
<1>3. trip' \in [status : {"live", "ended"}, age : 0..AgeCap]
  BY DEF IInv, Report, EndTrip
<1>4. TypeOK'
  BY <1>1, <1>2, <1>3 DEF IInv, history
<1> QED
  BY <1>1, <1>4, KeysAlone DEF history

(* Time passes.                                                              *)
LEMMA TickInv == IInv /\ Tick => IInv'
<1> SUFFICES ASSUME IInv, Tick PROVE IInv'
  OBVIOUS
<1> USE DEF IInv
<1>1. trip' \in [status : {"live", "ended"}, age : 0..AgeCap]
  <2>1. Older(trip.age) \in 0..AgeCap
    BY BoundsAssumption DEF Older
  <2> QED
    BY <2>1 DEF Tick
<1>2. fixes' \subseteq [at : Town, age : 0..Window]
  <2>1. fixes \in SUBSET [at : Town, age : 0..AgeCap]
    BY BoundsAssumption
  <2>2. OlderFixes(fixes) \in SUBSET [at : Town, age : 0..AgeCap]
    BY <2>1, AgedFixes
  <2> QED
    BY <2>2, BoundsAssumption DEF Tick
<1>3. /\ progress' \in [mark : Mark, ttl : 0..Ttl]
      /\ progress'.mark.seq # 0 <=> progress'.ttl # 0
      /\ progress' = NoProgress \/ progress'.mark.seq = progress.mark.seq
  <2>1. CASE progress.ttl <= 1
    BY <2>1, BoundsAssumption DEF Tick
  <2>2. CASE ~(progress.ttl <= 1)
    <3>1. progress' = [mark |-> Aged(progress.mark), ttl |-> progress.ttl - 1]
      BY <2>2 DEF Tick
    <3>2. Aged(progress.mark) \in Mark /\ Aged(progress.mark).seq = progress.mark.seq
      BY AgedMark
    <3>3. progress.ttl - 1 \in 0..Ttl /\ progress.ttl - 1 # 0 /\ progress.ttl # 0
      BY <2>2, BoundsAssumption
    <3> HIDE DEF Mark
    <3> QED
      BY <3>1, <3>2, <3>3
  <2> QED
    BY <2>1, <2>2
<1>4. /\ board' \in [arrivals : Promises, ttl : 0..Ttl]
      /\ DOMAIN board'.arrivals # {} <=> board'.ttl # 0
      /\ board'.arrivals = board.arrivals \/ board'.arrivals = NoArrivals
  <2>1. CASE board.ttl <= 1
    BY <2>1, NothingPromised, BoundsAssumption DEF Tick
  <2>2. CASE ~(board.ttl <= 1)
    BY <2>2, BoundsAssumption DEF Tick
  <2> QED
    BY <2>1, <2>2
<1>5. /\ pass' \in PassRecord
      /\ pass'.pc = pass.pc /\ pass'.reached.seq = pass.reached.seq
  <2>1. CASE pass.pc = "idle"
    BY <2>1 DEF Tick, PassRecord
  <2>2. CASE pass.pc # "idle"
    <3>1. pass' = [pass EXCEPT !.late = pass.late + 1, !.window = OlderFixes(pass.window),
                               !.reached = Aged(pass.reached)]
      BY <2>2 DEF Tick
    <3>2. pass.late + 1 \in 0..MaxLate
      <4>1. pass.late \in 0..MaxLate /\ pass.late < MaxLate
        BY <2>2 DEF Tick
      <4> QED
        BY <4>1, BoundsAssumption
    <3>3. OlderFixes(pass.window) \in SUBSET [at : Town, age : 0..AgeCap]
      BY AgedFixes
    <3>4. Aged(pass.reached) \in Mark /\ Aged(pass.reached).seq = pass.reached.seq
      BY AgedMark
    <3> HIDE DEF Mark
    <3> QED
      BY <3>1, <3>2, <3>3, <3>4 DEF PassRecord
  <2> QED
    BY <2>1, <2>2
<1>6. /\ furthest' = furthest /\ progress'.mark.seq = progress.mark.seq
      \/ furthest' = Forgotten
  <2>1. CASE progress.ttl = 1
    BY <2>1 DEF Tick
  <2>2. CASE progress.ttl = 0
    BY <2>2 DEF Tick
  <2>3. CASE progress.ttl \notin {0, 1}
    <3>1. progress.ttl \in 0..Ttl
      OBVIOUS
    <3>2. ~(progress.ttl <= 1)
      BY <2>3, <3>1, BoundsAssumption
    <3>3. progress'.mark = Aged(progress.mark) /\ furthest' = furthest
      BY <2>3, <3>2 DEF Tick
    <3>4. Aged(progress.mark).seq = progress.mark.seq
      BY AgedMark
    <3> QED
      BY <3>3, <3>4
  <2> QED
    BY <2>1, <2>2, <2>3
<1>7. TypeOK'
  <2>1. furthest' \in Stops \cup {0, Forgotten} /\ dropped' \in BOOLEAN
    BY <1>6 DEF Tick
  <2> QED
    BY <1>1, <1>2, <1>3, <1>4, <1>5, <2>1 DEF PassRecord
<1>8. InOrder'
  BY <1>4 DEF InOrder
<1>9. OffersOnlyAhead'
  <2>1. dropped' = dropped
    BY DEF Tick
  <2>2. \A s \in Stops : s > Forgotten
    BY StopsAreNumbers
  <2>3. DOMAIN board.arrivals \subseteq Stops
    BY BoardStops
  <2> QED
    BY <1>4, <1>6, <2>1, <2>2, <2>3 DEF OffersOnlyAhead
<1>10. FurthestSaved' /\ PassAhead' /\ SavesStop'
  BY <1>5, <1>6 DEF FurthestSaved, PassAhead, SavesStop
<1> QED
  BY <1>7, <1>8, <1>9, <1>10

(* A pass starts, reads the fixes, or dies.                                  *)
LEMMA PassStepInv ==
  ASSUME IInv, StartPass \/ (\E F \in SUBSET fixes : Search(F)) \/ SearchFails \/ Crash
  PROVE  IInv'
<1> USE DEF IInv
<1>1. UNCHANGED <<trip, fixes, progress, board, furthest>>
  BY DEF StartPass, Search, SearchFails, Crash, history
<1>2. dropped' \in BOOLEAN /\ (dropped' = dropped \/ dropped' = TRUE)
  BY DEF StartPass, Search, SearchFails, Crash, history
<1>3. pass' \in PassRecord /\ pass'.pc \notin {"save", "write"}
  <2>1. CASE StartPass
    BY <2>1, NoPassType DEF StartPass, PassRecord
  <2>2. ASSUME NEW F \in SUBSET fixes, Search(F)
        PROVE  pass' \in PassRecord /\ pass'.pc = "load"
    <3>1. F \in SUBSET [at : Town, age : 0..AgeCap]
      BY BoundsAssumption
    <3> QED
      BY <2>2, <3>1 DEF Search, PassRecord
  <2>3. CASE SearchFails
    BY <2>3 DEF SearchFails, PassRecord
  <2>4. CASE Crash
    BY <2>4, NoPassType DEF Crash
  <2> QED
    BY <2>1, <2>2, <2>3, <2>4
<1>4. TypeOK'
  BY <1>1, <1>2, <1>3 DEF PassRecord
<1> QED
  BY <1>1, <1>2, <1>3, <1>4, KeysAlone

(* What a pass does with the progress it read.                               *)
LEMMA LoadedInv ==
  ASSUME IInv, NEW known \in Mark, Loaded(known)
  PROVE  /\ pass' \in PassRecord
         /\ pass'.pc = "save" => pass'.reached.seq > known.seq /\ pass'.reached.seq # 0
         /\ pass'.pc = "write" => pass'.reached.seq = known.seq
         /\ pass'.pc \in {"save", "write"}
<1> DEFINE reached == Advance(known, pass.window)
<1>1. reached \in Mark /\ (reached = known \/ reached.seq > known.seq)
  BY AdvanceKeepsForward DEF IInv
<1>2. pass' = [pass EXCEPT !.pc = IF reached = known THEN "write" ELSE "save",
                           !.reached = reached]
  BY DEF Loaded
<1>3. known.seq \in Nat
  BY MarkSeq
<1>4. reached.seq > known.seq => reached.seq # 0
  BY <1>3
<1> HIDE DEF reached, Mark
<1> QED
  BY <1>1, <1>2, <1>4 DEF IInv, PassRecord

(* The pass reads the progress, or fails to.                                 *)
LEMMA LoadInv ==
  ASSUME IInv, Load \/ LoadFails
  PROVE  IInv'
<1> USE DEF IInv
<1>1. UNCHANGED <<trip, fixes, progress, board, dropped>>
  BY DEF Load, LoadFails, history
<1>2. progress.mark \in Mark /\ Unseen \in Mark
  BY BoundsAssumption
<1>3. CASE Load
  <2>1. furthest' = furthest
    BY <1>3 DEF Load, history
  <2>2. Loaded(progress.mark)
    BY <1>3 DEF Load
  <2>3. /\ pass' \in PassRecord
        /\ pass'.pc = "save" => pass'.reached.seq > progress.mark.seq /\ pass'.reached.seq # 0
        /\ pass'.pc = "write" => pass'.reached.seq = progress.mark.seq
    BY <1>2, <2>2, LoadedInv
  <2>4. TypeOK'
    BY <1>1, <2>1, <2>3 DEF PassRecord
  <2>5. InOrder' /\ OffersOnlyAhead' /\ FurthestSaved'
    BY <1>1, <2>1 DEF InOrder, OffersOnlyAhead, FurthestSaved
  <2>6. pass'.pc = "save" => progress.mark.seq <= pass'.reached.seq
    <3>1. progress.mark.seq \in Nat /\ pass'.reached.seq \in Nat
      BY <1>2, <2>3, MarkSeq DEF PassRecord
    <3> QED
      BY <2>3, <3>1
  <2>7. PassAhead' /\ SavesStop'
    BY <1>1, <2>1, <2>3, <2>6 DEF PassAhead, SavesStop
  <2> QED
    BY <2>4, <2>5, <2>7
<1>4. CASE LoadFails
  <2>1. furthest' = Forgotten /\ Loaded(Unseen)
    BY <1>4 DEF LoadFails
  <2>2. pass' \in PassRecord /\ SavesStop'
    BY <1>2, <2>1, LoadedInv DEF SavesStop
  <2>3. TypeOK'
    BY <1>1, <2>1, <2>2 DEF PassRecord
  <2> QED
    BY <1>1, <2>1, <2>2, <2>3, ForgetsAll
<1> QED
  BY <1>3, <1>4

(* The pass saves the progress it made, or fails to.                         *)
LEMMA SaveInv ==
  ASSUME IInv, Save \/ SaveFails
  PROVE  IInv'
<1> USE DEF IInv
<1>1. UNCHANGED <<trip, fixes, board, dropped>>
  BY DEF Save, SaveFails, history
<1>2. pass' = [pass EXCEPT !.pc = "write"] /\ pass.pc = "save"
  BY DEF Save, SaveFails
<1>3. pass' \in PassRecord /\ pass'.pc = "write" /\ pass'.reached = pass.reached
  BY <1>2 DEF PassRecord
<1>4. CASE Save
  <2>1. furthest' = furthest
    BY <1>4 DEF Save, history
  <2>2. progress' = [mark |-> pass.reached, ttl |-> Ttl]
    BY <1>4 DEF Save
  <2>3. pass.reached.seq # 0 /\ pass.reached \in Mark /\ Ttl \in 0..Ttl /\ Ttl # 0
    BY <1>2, BoundsAssumption DEF SavesStop
  <2>4. /\ progress' \in [mark : Mark, ttl : 0..Ttl]
        /\ progress'.mark.seq # 0 /\ progress'.ttl # 0
    BY <2>2, <2>3
  <2>5. TypeOK'
    BY <1>1, <1>3, <2>1, <2>4 DEF PassRecord
  <2>6. InOrder' /\ OffersOnlyAhead'
    BY <1>1, <2>1 DEF InOrder, OffersOnlyAhead
  <2>7. PassAhead' /\ SavesStop'
    BY <1>3, <2>2 DEF PassAhead, SavesStop
  <2>8. FurthestSaved'
    <3>1. furthest # Forgotten => furthest <= progress.mark.seq
                                  /\ progress.mark.seq <= pass.reached.seq
      BY <1>2 DEF FurthestSaved, PassAhead
    <3>2. furthest # Forgotten => furthest \in Nat
      BY StopsAreNumbers
    <3>3. progress.mark.seq \in Nat /\ pass.reached.seq \in Nat
      BY MarkSeq
    <3> QED
      BY <2>1, <2>2, <3>1, <3>2, <3>3 DEF FurthestSaved
  <2> QED
    BY <2>5, <2>6, <2>7, <2>8
<1>5. CASE SaveFails
  <2>1. furthest' = Forgotten /\ progress' = progress
    BY <1>5 DEF SaveFails
  <2>2. TypeOK'
    BY <1>1, <1>3, <2>1 DEF PassRecord
  <2>3. SavesStop'
    BY <1>3 DEF SavesStop
  <2> QED
    BY <1>1, <2>1, <2>2, <2>3, ForgetsAll
<1> QED
  BY <1>4, <1>5

(* Of the pace and the place of a pass.                                      *)
LEMMA PassPlaces ==
  ASSUME TypeOK, NEW last \in Positions(pass.window), NEW pace \in Speeds(pass.window)
  PROVE  last \in Town /\ pace \in Paces \cup {0}
<1>1. pace \in Paces \cup {0}
  BY DEF Speeds
<1>2. CASE pass.window = {}
  <2>1. (CHOOSE p \in Town : TRUE) \in Town
    BY RouteAssumption
  <2> QED
    BY <1>1, <1>2, <2>1 DEF Positions
<1>3. CASE pass.window # {}
  BY <1>1, <1>3 DEF Positions, Newest
<1> QED
  BY <1>2, <1>3

(* The pass writes the board, or has nothing to write.                       *)
LEMMA WriteInv ==
  ASSUME IInv, Write
  PROVE  IInv'
<1> USE DEF IInv
<1>1. PICK last \in Positions(pass.window), pace \in Speeds(pass.window) :
        WriteAnswer(Arrivals(pass.reached, last, pace, pass.late))
  BY DEF Write
<1> DEFINE A == Arrivals(pass.reached, last, pace, pass.late)
<1>2. /\ DOMAIN A \in SUBSET Stops
      /\ \A s \in DOMAIN A : s > pass.reached.seq
      /\ A \in [DOMAIN A -> 0..Horizon]
      /\ \A r, s \in DOMAIN A : r < s => A[r] <= A[s]
  <2>1. last \in Town /\ pace \in Paces \cup {0}
    BY PassPlaces
  <2>2. pass.reached \in Mark /\ pass.late \in 0..MaxLate
    OBVIOUS
  <2> QED
    BY <2>1, <2>2, ArrivalsInOrder
<1>3. A \in Promises
  BY <1>2 DEF Promises
<1>4. WriteAnswer(A) /\ pass.pc = "write"
  BY <1>1 DEF Write
<1> HIDE DEF A
<1>5. UNCHANGED <<trip, fixes, progress>> /\ pass' = NoPass
  BY <1>4 DEF WriteAnswer
<1>6. CASE DOMAIN A = {}
  <2>1. dropped' = TRUE /\ UNCHANGED <<board, furthest>>
    BY <1>4, <1>6 DEF WriteAnswer
  <2>2. TypeOK'
    BY <1>5, <2>1, NoPassType DEF PassRecord
  <2> QED
    BY <1>5, <2>1, <2>2, KeysAlone
<1>7. CASE DOMAIN A # {}
  <2>1. /\ dropped' = FALSE
        /\ board' = [arrivals |-> A, ttl |-> Ttl]
        /\ furthest' = IF furthest \in 0..pass.reached.seq THEN pass.reached.seq ELSE furthest
    BY <1>4, <1>7 DEF WriteAnswer
  <2>2. /\ board' \in [arrivals : Promises, ttl : 0..Ttl]
        /\ DOMAIN board'.arrivals # {} /\ board'.ttl # 0
    BY <1>3, <1>7, <2>1, BoundsAssumption
  <2>3. pass.reached.seq \in Stops \cup {0}
    OBVIOUS
  <2>4. CASE furthest = Forgotten
    <3>1. furthest' = Forgotten
      BY <2>1, <2>4, StopsAreNumbers
    <3>2. TypeOK'
      BY <1>5, <2>1, <2>2, <3>1, NoPassType DEF PassRecord
    <3>3. \A s \in Stops : s > Forgotten
      BY StopsAreNumbers
    <3>4. InOrder' /\ OffersOnlyAhead'
      BY <1>2, <2>1, <3>1, <3>3 DEF InOrder, OffersOnlyAhead
    <3> QED
      BY <1>5, <3>1, <3>2, <3>4 DEF FurthestSaved, PassAhead, SavesStop
  <2>5. CASE furthest # Forgotten
    <3>1. progress.mark.seq = pass.reached.seq /\ furthest <= progress.mark.seq
      BY <1>4, <2>5 DEF FurthestSaved, PassAhead
    <3>2. furthest \in Nat /\ pass.reached.seq \in Nat
      BY <2>5, MarkSeq, StopsAreNumbers
    <3>3. furthest' = pass.reached.seq
      BY <2>1, <3>1, <3>2
    <3>4. TypeOK'
      BY <1>5, <2>1, <2>2, <2>3, <3>3, NoPassType DEF PassRecord
    <3>5. InOrder' /\ OffersOnlyAhead'
      BY <1>2, <2>1, <3>3 DEF InOrder, OffersOnlyAhead
    <3>6. FurthestSaved' /\ PassAhead' /\ SavesStop'
      BY <1>5, <3>1, <3>2, <3>3 DEF FurthestSaved, PassAhead, SavesStop
    <3> QED
      BY <3>4, <3>5, <3>6
  <2> QED
    BY <2>4, <2>5
<1> QED
  BY <1>6, <1>7

-----------------------------------------------------------------------------
(* The theorems.                                                             *)

(* No step of the specification, stuttering included, breaks the invariant.  *)
LEMMA NextInv == IInv /\ [Next]_vars => IInv'
<1> SUFFICES ASSUME IInv, [Next]_vars PROVE IInv'
  OBVIOUS
<1>1. CASE \E p \in Town : Report(p)
  BY <1>1, BusInv
<1>2. CASE EndTrip
  BY <1>2, BusInv
<1>3. CASE Tick
  BY <1>3, TickInv
<1>4. CASE StartPass \/ (\E F \in SUBSET fixes : Search(F)) \/ SearchFails \/ Crash
  BY <1>4, PassStepInv
<1>5. CASE Load \/ LoadFails
  BY <1>5, LoadInv
<1>6. CASE Save \/ SaveFails
  BY <1>6, SaveInv
<1>7. CASE Write
  BY <1>7, WriteInv
<1>8. CASE UNCHANGED vars
  BY <1>8 DEF vars, IInv, InOrder, OffersOnlyAhead, FurthestSaved, PassAhead, SavesStop
<1> QED
  BY <1>1, <1>2, <1>3, <1>4, <1>5, <1>6, <1>7, <1>8 DEF Next, Engine

(* The invariant holds in every reachable state.                             *)
THEOREM Inductive == Spec => []IInv
  BY InitInv, NextInv, PTL DEF Spec

(* estimate_arrivals promises no time in the past or beyond the horizon, and *)
(* the keys in Redis have their types, on every route.                       *)
THEOREM TypeCorrect == Spec => []TypeOK
<1>1. IInv => TypeOK
  BY DEF IInv
<1> QED
  BY <1>1, Inductive, PTL

(* What _monotonic is for: times on the board never decrease along the       *)
(* route, whichever estimator each of them comes from.                       *)
THEOREM BoardInOrder == Spec => []InOrder
<1>1. IInv => InOrder
  BY DEF IInv
<1> QED
  BY <1>1, Inductive, PTL

(* What advance_progress and the saved progress are for: no pass offers a    *)
(* stop that an earlier one knew to be served.                               *)
THEOREM ServedNotOffered == Spec => []OffersOnlyAhead
<1>1. IInv => OffersOnlyAhead
  BY DEF IInv
<1> QED
  BY <1>1, Inductive, PTL
=============================================================================
