---------------------------- MODULE NearbyProofs -----------------------------
(***************************************************************************)
(* Proofs about the GPS pipeline and the search over what it indexed:        *)
(* Indexer and Nearby, for any fixes, batch and faults.                      *)
(***************************************************************************)
EXTENDS Nearby, FiniteSetTheorems, WellFoundedInduction, TLAPS

(* A set of numbers has a least element.                                     *)
LEMMA LeastNumber ==
    ASSUME NEW X \in SUBSET Nat, X # {}
    PROVE  \E x \in X : \A y \in X : x <= y
  <1>1. PICK x \in X : \A y \in X : ~(<<y, x>> \in OpToRel(<, Nat))
    BY NatLessThanWellFounded, WFMin
  <1>2. \A y \in X : x <= y
    <2> TAKE y \in X
    <2>1. ~(y < x)
      BY <1>1 DEF OpToRel
    <2> QED
      BY <2>1
  <1> QED
    BY <1>2

-----------------------------------------------------------------------------
(* Indexer.  What is about to be acknowledged has been indexed.              *)
AcksIndexed == worker.pc = "ack" => worker.entries \subseteq es

IndexerInv == TypeOK /\ AckedIsIndexed /\ AcksIndexed

-----------------------------------------------------------------------------
(* What a read delivers.                                                     *)
LEMMA NextReadType ==
    ASSUME TypeOK, group.read < Len(stream)
    PROVE  NextRead \in (group.read + 1)..Len(stream)
  BY BoundsAssumption DEF TypeOK, NextRead

(* Adding an entry changes none of those before it.                          *)
LEMMA AddKeeps ==
    ASSUME TypeOK, NEW f \in Fixes, stream' = Append(stream, f), group' = group
    PROVE  /\ stream' \in Seq(Fixes) /\ Len(stream') = Len(stream) + 1
           /\ Delivered' = Delivered
  <1>1. stream' \in Seq(Fixes) /\ Len(stream') = Len(stream) + 1
    BY DEF TypeOK
  <1>2. \A i \in 1..Len(stream) : stream'[i] = stream[i]
    BY DEF TypeOK
  <1>3. 1..group.read \subseteq 1..Len(stream)
    BY DEF TypeOK
  <1> QED
    BY <1>1, <1>2, <1>3 DEF Delivered

(* What is acknowledged was written.                                         *)
THEOREM IndexerInductive == Spec => []IndexerInv
  <1>1. Init => IndexerInv
    BY BoundsAssumption DEF Init, IndexerInv, TypeOK, AckedIsIndexed, AcksIndexed, NoGroup, Delivered
  <1>2. IndexerInv /\ [Next]_vars => IndexerInv'
    <2> SUFFICES ASSUME IndexerInv, [Next]_vars PROVE IndexerInv'
      OBVIOUS
    <2> USE BoundsAssumption DEF IndexerInv, TypeOK, AcksIndexed, At, GoTo
    <2>1. ASSUME NEW f \in Fixes, Add(f) PROVE IndexerInv'
      BY <2>1, AddKeeps DEF Add, AckedIsIndexed
    <2>2. ASSUME UNCHANGED stream, EnsureGroup, UNCHANGED <<pending, es>>
          PROVE  AckedIsIndexed' /\ group' \in [exists : BOOLEAN, read : 0..Len(stream)]
      BY <2>2 DEF EnsureGroup, AckedIsIndexed, Delivered
    <2>3. CASE Start
      BY <2>2, <2>3 DEF Start
    <2>4. ASSUME Deliver, UNCHANGED <<stream, es>>
          PROVE  /\ AckedIsIndexed'
                 /\ NextEntries \subseteq Fixes /\ NextEntries # {}
                 /\ pending' \subseteq Fixes /\ group' \in [exists : BOOLEAN, read : 0..Len(stream)]
      <3>1. NextRead \in (group.read + 1)..Len(stream)
        BY <2>4, NextReadType DEF Deliver
      <3>2. pending' = pending \cup NextEntries /\ group' = [group EXCEPT !.read = NextRead]
        BY <2>4 DEF Deliver
      <3>3. NextEntries \subseteq Fixes /\ NextEntries # {}
        BY <3>1 DEF NextEntries
      <3>4. Delivered' \subseteq Delivered \cup NextEntries
        BY <2>4, <3>1, <3>2 DEF Delivered, NextEntries
      <3> QED
        BY <2>4, <3>1, <3>2, <3>3, <3>4 DEF AckedIsIndexed
    <2>5. CASE Read
      BY <2>4, <2>5 DEF Read
    <2>6. CASE ReadTimesOut
      BY <2>4, <2>6 DEF ReadTimesOut, Fault
    <2>7. CASE Regroup
      BY <2>2, <2>7 DEF Regroup
    <2>8. CASE Bulk
      BY <2>8 DEF Bulk, AckedIsIndexed, Delivered
    <2>9. CASE Ack
      BY <2>9 DEF Ack, AckedIsIndexed, Delivered
    <2>10. CASE BulkFails
      BY <2>10 DEF BulkFails, Dies, Fault, AckedIsIndexed, Delivered
    <2>11. CASE Crash
      BY <2>11 DEF Crash, Dies, Fault, AckedIsIndexed, Delivered
    <2>12. CASE Restart
      BY <2>12 DEF Restart, AckedIsIndexed, Delivered
    <2>13. CASE GroupVanishes
      BY <2>13 DEF GroupVanishes, Fault, NoGroup, AckedIsIndexed, Delivered
    <2>14. CASE Wipe
      BY <2>14 DEF Wipe, Fault, NoGroup, AckedIsIndexed, Delivered, Entries
    <2>15. CASE UNCHANGED vars
      BY <2>15 DEF vars, AckedIsIndexed, Delivered
    <2> QED
      BY <2>1, <2>3, <2>5, <2>6, <2>7, <2>8, <2>9, <2>10, <2>11, <2>12, <2>13, <2>14, <2>15
         DEF Next, Work
  <1> QED
    BY <1>1, <1>2, PTL DEF Spec

(* The stream, the group, the consumer and the index keep their types.       *)
THEOREM IndexerTyped == Spec => []TypeOK
  <1>1. IndexerInv => TypeOK
    BY DEF IndexerInv
  <1> QED
    BY IndexerInductive, <1>1, PTL

(* No fix that was acknowledged is missing from the index.                   *)
THEOREM NothingAcknowledgedUnindexed == Spec => []AckedIsIndexed
  <1>1. IndexerInv => AckedIsIndexed
    BY DEF IndexerInv
  <1> QED
    BY IndexerInductive, <1>1, PTL

-----------------------------------------------------------------------------
(* Nearby.  The time of a question is a time, and the cards the student has  *)
(* are fixes of the index from around here.                                  *)
Around == {f \in es : Distance[f] <= Radius}

ReaderInv == /\ clock \in Nat /\ query.cutoff \in Int
             /\ Listed(answer) \subseteq Around

Closest(q) == \A i, j \in DOMAIN q : i < j => Distance[q[i]] <= Distance[q[j]]

(* One more card can be put into its place among the sorted.                 *)
LEMMA PutInPlace ==
    ASSUME NEW m \in Nat \ {0}, NEW x \in Fixes, NEW q \in [1..(m - 1) -> Fixes], Closest(q)
    PROVE  \E r \in [1..m -> Fixes] : Listed(r) = Listed(q) \cup {x} /\ Closest(r)
  <1> DEFINE d(i) == Distance[q[i]]
             Later == {i \in 1..m : i = m \/ d(i) > Distance[x]}
  <1>d. /\ \A i \in 1..(m - 1) : d(i) \in Nat
        /\ \A i, j \in 1..(m - 1) : i < j => d(i) <= d(j)
        /\ Distance[x] \in Nat
    BY NearbyAssumption DEF Closest
  <1>1. PICK k \in Later : \A i \in Later : k <= i
    <2>1. m \in Later /\ Later \subseteq Nat
      OBVIOUS
    <2> HIDE DEF Later
    <2> QED
      BY <2>1, LeastNumber
  <1>2. k \in 1..m /\ \A i \in 1..(k - 1) : d(i) <= Distance[x]
    <2>1. k \in 1..m
      OBVIOUS
    <2>2. ASSUME NEW i \in 1..(k - 1) PROVE d(i) <= Distance[x]
      <3>1. i \in 1..m /\ i # m /\ ~(k <= i) /\ i \in 1..(m - 1)
        BY <2>1
      <3>2. i \notin Later
        BY <1>1, <3>1
      <3> HIDE DEF d
      <3>3. ~(d(i) > Distance[x])
        BY <3>1, <3>2
      <3> QED
        BY <1>d, <3>1, <3>3
    <2> QED
      BY <2>1, <2>2
  <1>3. \A i \in k..(m - 1) : Distance[x] <= d(i)
    <2> SUFFICES ASSUME NEW i \in k..(m - 1) PROVE Distance[x] <= d(i)
      OBVIOUS
    <2>1. k \in 1..(m - 1) /\ i \in 1..(m - 1) /\ k # m
      BY <1>2
    <2> HIDE DEF d
    <2>2. d(k) > Distance[x]
      BY <1>1, <2>1
    <2>3. d(k) <= d(i)
      BY <1>d, <2>1
    <2> QED
      BY <1>d, <2>1, <2>2, <2>3
  <1> HIDE DEF Later
  <1> DEFINE r == [i \in 1..m |-> IF i < k THEN q[i] ELSE IF i = k THEN x ELSE q[i - 1]]
  <1>4. r \in [1..m -> Fixes]
    <2>1. \A i \in 1..m : /\ i < k => i \in 1..(m - 1)
                          /\ ~(i < k) /\ i # k => i - 1 \in 1..(m - 1)
      BY <1>2
    <2> QED
      BY <2>1
  <1>5. Listed(r) = Listed(q) \cup {x}
    <2>1. \A i \in 1..m : r[i] \in Listed(q) \cup {x}
      <3>1. \A i \in 1..m : /\ i < k => i \in 1..(m - 1)
                            /\ ~(i < k) /\ i # k => i - 1 \in 1..(m - 1)
        BY <1>2
      <3> QED
        BY <3>1 DEF Listed
    <2>2. \A i \in 1..(m - 1) : q[i] = IF i < k THEN r[i] ELSE r[i + 1]
      BY <1>2
    <2>3. \A i \in 1..(m - 1) : i \in 1..m /\ i + 1 \in 1..m
      OBVIOUS
    <2>4. x = r[k] /\ DOMAIN r = 1..m /\ DOMAIN q = 1..(m - 1)
      BY <1>2
    <2> HIDE DEF r
    <2> QED
      BY <1>2, <2>1, <2>2, <2>3, <2>4 DEF Listed
  <1>6. Closest(r)
    <2> SUFFICES ASSUME NEW i \in 1..m, NEW j \in 1..m, i < j
                 PROVE  Distance[r[i]] <= Distance[r[j]]
      BY DEF Closest
    <2> DEFINE at(n) == IF n < k THEN n ELSE n - 1
    <2>1. \A n \in 1..m : n # k => at(n) \in 1..(m - 1) /\ Distance[r[n]] = d(at(n))
      <3>1. \A n \in 1..m : n # k => at(n) \in 1..(m - 1)
        BY <1>2
      <3>2. \A n \in 1..m : n # k => r[n] = q[at(n)]
        OBVIOUS
      <3> QED
        BY <3>1, <3>2
    <2>2. r[k] = x
      BY <1>2
    <2> HIDE DEF r, d
    <2>3. CASE i # k /\ j # k
      <3>1. at(i) < at(j)
        BY <1>2, <2>3
      <3> HIDE DEF at
      <3> QED
        BY <1>d, <2>1, <2>3, <3>1
    <2>4. CASE i = k
      <3>1. at(j) \in k..(m - 1)
        BY <1>2, <2>4
      <3> HIDE DEF at
      <3> QED
        BY <1>3, <2>1, <2>2, <2>4, <3>1
    <2>5. CASE j = k
      <3>1. at(i) \in 1..(k - 1)
        BY <1>2, <2>5
      <3> HIDE DEF at
      <3> QED
        BY <1>2, <2>1, <2>2, <2>5, <3>1
    <2> QED
      BY <2>3, <2>4, <2>5
  <1> HIDE DEF r
  <1> QED
    BY <1>4, <1>5, <1>6

(* So there is a way to sort any page, and buses.sort finds one.             *)
LEMMA PagesSort ==
    ASSUME NEW n \in Nat, NEW p \in [1..n -> Fixes]
    PROVE  /\ ByDistance(p) \in [1..n -> Listed(p)]
           /\ Listed(ByDistance(p)) = Listed(p) /\ Closest(ByDistance(p))
  <1> DEFINE Sorts(c, r) == Listed(r) = Listed(c) /\ Closest(r)
             Unsorted == {m \in Nat : \E c \in [1..m -> Fixes] : \A r \in [1..m -> Fixes] : ~Sorts(c, r)}
  <1>1. Unsorted = {}
    <2> SUFFICES ASSUME Unsorted # {} PROVE FALSE
      OBVIOUS
    <2>1. PICK m \in Unsorted : \A k \in Unsorted : m <= k
      BY LeastNumber
    <2>2. m \in Nat
      OBVIOUS
    <2>3. PICK c \in [1..m -> Fixes] : \A r \in [1..m -> Fixes] : ~Sorts(c, r)
      BY <2>1
    <2>4. m # 0
      <3>1. m = 0 => Closest(c)
        BY DEF Closest
      <3> QED
        BY <2>3, <3>1
    <2>5. m - 1 \in Nat /\ ~(m <= m - 1)
      BY <2>2, <2>4
    <2>6. m - 1 \notin Unsorted
      BY <2>1, <2>5
    <2> DEFINE rest == [i \in 1..(m - 1) |-> c[i]]
    <2>7. rest \in [1..(m - 1) -> Fixes] /\ Listed(c) = Listed(rest) \cup {c[m]} /\ c[m] \in Fixes
      <3>1. 1..m = 1..(m - 1) \cup {m}
        BY <2>2, <2>4
      <3> QED
        BY <3>1 DEF Listed
    <2> HIDE DEF rest
    <2>8. PICK q \in [1..(m - 1) -> Fixes] : Sorts(rest, q)
      BY <2>5, <2>6, <2>7
    <2>9. PICK r \in [1..m -> Fixes] : Listed(r) = Listed(q) \cup {c[m]} /\ Closest(r)
      BY <2>2, <2>4, <2>7, <2>8, PutInPlace
    <2> QED
      BY <2>3, <2>7, <2>8, <2>9
  <1>2. PICK r \in [1..n -> Fixes] : Sorts(p, r)
    BY <1>1
  <1>3. r \in [DOMAIN p -> Listed(p)] /\ DOMAIN p = 1..n
    BY <1>2 DEF Listed
  <1> QED
    BY <1>2, <1>3 DEF ByDistance, Closest

(* A fix newer than the card of its bus lies outside the radius.             *)
LEMMA KeptIsLatest ==
    ASSUME TypeOK, query.cutoff \in Int, NEW f \in Hits, Kept(f),
           NEW g \in es, BusOf[g] = BusOf[f], Distance[g] <= Radius
    PROVE  ~(TakenAt[g] > TakenAt[f])
  <1>1. f \in Fixes /\ g \in Fixes /\ TakenAt[f] >= query.cutoff
    BY DEF TypeOK, Hits, Matches
  <1>2. TakenAt[f] \in Nat /\ TakenAt[g] \in Nat
    BY <1>1, NearbyAssumption
  <1>3. CASE TakenAt[g] >= query.cutoff
    <2>1. g \in Hits
      BY <1>1, <1>3 DEF Hits, Matches
    <2> QED
      BY <2>1 DEF Kept, Before
  <1>4. CASE ~(TakenAt[g] >= query.cutoff)
    BY <1>1, <1>2, <1>4
  <1> QED
    BY <1>3, <1>4

(* An answer lists hits that were kept.                                      *)
LEMMA AnswerLists ==
    ASSUME TypeOK, Answer
    PROVE  \E p \in Pages : /\ Listed(answer') = Listed(p) /\ Closest(answer')
                            /\ Len(answer') = Len(p)
                            /\ \A f \in Listed(answer') : f \in Hits /\ Kept(f)
  <1>1. PICK p \in Pages : answer' = ByDistance(p)
    BY DEF Answer
  <1>2. PICK n \in 0..Limit : p \in [1..n -> Fixes]
    BY DEF Pages
  <1>3. n \in Nat
    BY NearbyAssumption
  <1>4. /\ answer' \in [1..n -> Listed(p)] /\ Listed(answer') = Listed(p) /\ Closest(answer')
    BY <1>1, <1>2, <1>3, PagesSort
  <1>5. Len(answer') = n /\ Len(p) = n
    BY <1>2, <1>3, <1>4
  <1>6. \A f \in Listed(p) : f \in Hits /\ Kept(f)
    BY DEF Pages, Listed
  <1> QED
    BY <1>4, <1>5, <1>6

(* The pipeline takes nothing out of the index.                              *)
LEMMA IndexGrows == TypeOK /\ [Next]_vars => es \subseteq es'
  BY DEF Next, Work, Add, Start, Read, Regroup, Bulk, Ack, Restart, ReadTimesOut, BulkFails, Crash,
         Dies, GroupVanishes, Wipe, vars

(* Beside the search the pipeline is what it is without it.                  *)
LEMMA PipelineGoesOn == NearbySpec => Spec
  <1>1. NearbyInit => Init
    BY DEF NearbyInit
  <1>2. [NearbyNext]_allVars => [Next]_vars
    BY DEF NearbyNext, Pipeline, Tick, Ask, Answer, allVars
  <1> QED
    BY <1>1, <1>2, PTL DEF NearbySpec, Spec

(* What the student has stays in the index.                                  *)
LEMMA ReaderHolds == NearbySpec => []ReaderInv
  <1>1. NearbyInit => ReaderInv
    BY DEF NearbyInit, NoQuery, ReaderInv, Listed
  <1>2. TypeOK /\ ReaderInv /\ [NearbyNext]_allVars => ReaderInv'
    <2> SUFFICES ASSUME TypeOK, ReaderInv, [NearbyNext]_allVars PROVE ReaderInv'
      OBVIOUS
    <2>1. [Next]_vars
      BY DEF NearbyNext, Pipeline, Tick, Ask, Answer, allVars
    <2>2. Around \subseteq Around'
      BY <2>1, IndexGrows DEF Around
    <2>3. CASE Pipeline \/ UNCHANGED allVars
      BY <2>2, <2>3 DEF Pipeline, reader, allVars, ReaderInv
    <2>4. CASE Tick
      BY <2>2, <2>4 DEF Tick, ReaderInv
    <2>5. CASE Ask
      BY <2>2, <2>5, NearbyAssumption DEF Ask, ReaderInv
    <2>6. CASE Answer
      <3>1. Listed(answer') \subseteq Around
        BY <2>6, AnswerLists DEF Hits, Matches, Around
      <3>2. clock' = clock /\ query' = NoQuery
        BY <2>6 DEF Answer
      <3> QED
        BY <2>2, <3>1, <3>2 DEF ReaderInv, NoQuery
    <2> QED
      BY <2>3, <2>4, <2>5, <2>6 DEF NearbyNext
  <1> QED
    BY <1>1, <1>2, PipelineGoesOn, IndexerTyped, PTL DEF NearbySpec

(* A page with room left has a card of every bus that hit.                   *)
LEMMA RoomForAll ==
    ASSUME NEW p \in Pages, Len(p) < Limit
    PROVE  {BusOf[f] : f \in Hits} = {BusOf[f] : f \in Listed(p)}
  <1>1. \A f \in Hits : \E i \in DOMAIN p : BusOf[p[i]] = BusOf[f]
    BY NearbyAssumption DEF Pages
  <1>2. \A i \in DOMAIN p : p[i] \in Hits
    BY DEF Pages
  <1> QED
    BY <1>1, <1>2 DEF Listed

(* A fix of the index is of a time and at a distance.                        *)
LEMMA FixesMeasured == TypeOK => \A f \in es : TakenAt[f] \in Nat /\ Distance[f] \in Nat
  BY NearbyAssumption DEF TypeOK

(* Buses are shown where they last were around here, never back in time and  *)
(* closest first; and those whose latest fix is here are shown.              *)
THEOREM AnswersAreLatest == NearbySpec => NearbyIsLatest
  <1>1. TypeOK /\ ReaderInv /\ [NearbyNext]_allVars
          => [query.asked /\ ~query'.asked => ShowsTheLatest]_allVars
    <2> SUFFICES ASSUME TypeOK, ReaderInv, NearbyNext, query.asked, ~query'.asked
                 PROVE  ShowsTheLatest
      OBVIOUS
    <2>1. Answer
      BY DEF NearbyNext, Pipeline, reader, Tick, Ask
    <2>2. PICK p \in Pages : /\ Listed(answer') = Listed(p) /\ Closest(answer')
                             /\ Len(answer') = Len(p)
                             /\ \A f \in Listed(answer') : f \in Hits /\ Kept(f)
      BY <2>1, AnswerLists
    <2>3. \A f \in Listed(answer') :
            /\ f \in es /\ TakenAt[f] >= query.cutoff /\ Distance[f] <= Radius
            /\ \A g \in es : BusOf[g] = BusOf[f] /\ Distance[g] <= Radius => ~(TakenAt[g] > TakenAt[f])
      BY <2>2, KeptIsLatest DEF ReaderInv, Hits, Matches
    <2>4. \A f \in Listed(answer') : \A g \in es :
            BusOf[g] = BusOf[f] /\ TakenAt[g] > TakenAt[f] => Distance[g] > Radius
      BY <2>3, FixesMeasured, NearbyAssumption
    <2>5. \A f \in Listed(answer') :
            \A g \in Listed(answer) : BusOf[g] = BusOf[f] => TakenAt[g] <= TakenAt[f]
      BY <2>3, FixesMeasured DEF ReaderInv, Around
    <2>6. ASSUME Len(answer') < Limit, NEW f \in es, Distance[f] <= Radius, TakenAt[f] >= query.cutoff
          PROVE  \E g \in Listed(answer') : BusOf[g] = BusOf[f]
      <3>1. f \in Hits
        BY <2>6 DEF Hits, Matches, TypeOK
      <3>2. Len(p) < Limit
        BY <2>2, <2>6
      <3>3. {BusOf[g] : g \in Hits} \subseteq {BusOf[g] : g \in Listed(p)}
        BY <2>2, <3>2, RoomForAll
      <3>4. PICK g \in Listed(p) : BusOf[g] = BusOf[f]
        BY <3>1, <3>3
      <3> QED
        BY <2>2, <3>4
    <2> QED
      BY <2>2, <2>3, <2>4, <2>5, <2>6 DEF Closest, ShowsTheLatest
  <1> QED
    BY <1>1, PipelineGoesOn, IndexerTyped, ReaderHolds, PTL DEF NearbySpec, NearbyIsLatest
=============================================================================
