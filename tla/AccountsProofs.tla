--------------------------- MODULE AccountsProofs ---------------------------
(***************************************************************************)
(* Proofs about Accounts, for any accounts, handlers, requests and faults.   *)
(***************************************************************************)
EXTENDS Accounts, TLAPS

(* Whatever is at work on an account, or cached of it, is about one that has *)
(* registered; accounts are never deleted.                                   *)
Registered ==
    /\ \A a \in Ops : op[a].pc # "idle" => Exists(op[a].who)
    /\ \A r \in Requests : req[r].pc = "read" => Exists(req[r].who)
    /\ \A u \in Users : cache[u] # Nothing => Exists(u)

(* An account that still waits for its first approval was waiting when any   *)
(* handler at work read it: nothing returns to pending.                      *)
SeenPending ==
    \A a \in Ops : op[a].pc # "idle" /\ account[op[a].who].user = "pending_approval"
                     => op[a].user = "pending_approval" /\ op[a].helper = "pending"

(* A snapshot about to be cached is current, or its account is in doubt.     *)
ReadsFresh ==
    \A r \in Requests : req[r].pc = "read" =>
        req[r].snap = account[req[r].who] \/ req[r].who \in doubt

IInv == TypeOK /\ Registered /\ SeenPending /\ ReadsFresh /\ PendingTogether /\ StaleHasCause

-----------------------------------------------------------------------------
(* The records of nothing are records.                                       *)
LEMMA Records == Nothing \in Row /\ NoOp \in OpRecord /\ NoReq \in ReqRecord
  BY DEF Nothing, NoOp, NoReq, Row, OpRecord, ReqRecord, UserStatus, HelperStatus

(* What a commit leaves is a row.                                            *)
LEMMA WrittenType ==
    ASSUME NEW a \in Ops, NEW row \in Row
    PROVE  Written(a, row) \in Row
  BY DEF Written, Row, UserTarget, HelperTarget, UserStatus, HelperStatus

(* A commit never deletes an account or puts it back to pending, and takes   *)
(* both halves of one that was pending out together.                         *)
LEMMA WrittenLeavesPending ==
    ASSUME NEW a \in Ops, NEW row \in Row,
           row.user = "pending_approval" <=> row.helper = "pending",
           row.user = "pending_approval" =>
               op[a].user = "pending_approval" /\ op[a].helper = "pending"
    PROVE  /\ Written(a, row).user # "pending_approval"
           /\ Written(a, row).helper # "pending"
           /\ row.user # "absent" => Written(a, row).user # "absent"
  BY DEF Written, WritesUser, UserTarget, HelperTarget, Row

(* Putting a record about an account into op keeps its type; so does moving  *)
(* a handler on, which leaves the rest of its record and the others alone.   *)
LEMMA OpSet ==
    ASSUME NEW f \in [Ops -> OpRecord], NEW a \in Ops, NEW rec \in OpRecord,
           rec.who \in Users /\ rec.kind # "none",
           \A b \in Ops : f[b].pc # "idle" => f[b].who \in Users /\ f[b].kind # "none",
           NEW g, g = [f EXCEPT ![a] = rec]
    PROVE  /\ g \in [Ops -> OpRecord]
           /\ \A b \in Ops : g[b].pc # "idle" => g[b].who \in Users /\ g[b].kind # "none"
  OBVIOUS

LEMMA OpMoves ==
    ASSUME op \in [Ops -> OpRecord], NEW a \in Ops,
           NEW pc \in {"ready", "flushed", "committed", "leaving"}, op' = [op EXCEPT ![a].pc = pc]
    PROVE  /\ op' \in [Ops -> OpRecord]
           /\ op'[a].who = op[a].who /\ op'[a].kind = op[a].kind
           /\ \A b \in Ops : b # a => op'[b] = op[b]
  <1>1. [op[a] EXCEPT !.pc = pc] \in OpRecord
    BY DEF OpRecord
  <1>2. op' = [op EXCEPT ![a] = [op[a] EXCEPT !.pc = pc]]
    OBVIOUS
  <1> QED
    BY <1>1, <1>2 DEF OpRecord

(* Every state is well typed (the records the handlers keep between awaits). *)
THEOREM TypeCorrect == Spec => []TypeOK
  <1>1. Init => TypeOK
    BY Records DEF Init, TypeOK, NoOp, NoReq
  <1>2. TypeOK /\ [Next]_vars => TypeOK'
    <2> SUFFICES ASSUME TypeOK, [Next]_vars PROVE TypeOK'
      OBVIOUS
    <2> USE DEF TypeOK
    <2>1. ASSUME NEW u \in Users, RegisterStudent(u) PROVE TypeOK'
      BY <2>1 DEF RegisterStudent, Row, UserStatus
    <2>2. ASSUME NEW u \in Users, RegisterHelper(u) PROVE TypeOK'
      BY <2>2 DEF RegisterHelper, Row, UserStatus, HelperStatus
    <2>3. ASSUME NEW u \in Users, Expire(u) PROVE TypeOK'
      BY <2>3, Records DEF Expire
    <2>4. ASSUME NEW a \in Ops, NEW u \in Users,
                 NEW kind \in {"approve", "suspend", "reinstate", "verify"},
                 NEW pc \in {"helper read", "ready", "user read"}, Begin(a, u, kind, pc)
          PROVE  TypeOK'
      <3> DEFINE rec == [pc |-> pc, kind |-> kind, who |-> u,
                         user |-> account[u].user, helper |-> account[u].helper]
      <3>1. rec \in OpRecord /\ rec.who \in Users /\ rec.kind # "none"
        BY DEF OpRecord, Row
      <3>2. op' = [op EXCEPT ![a] = rec]
        BY <2>4 DEF Begin
      <3> HIDE DEF rec
      <3> QED
        BY <2>4, <3>1, <3>2, OpSet DEF Begin
    <2>5. ASSUME NEW a \in Ops, ReadUser(a) PROVE TypeOK'
      <3>1. op[a].who \in Users /\ op[a].kind # "none"
        BY <2>5 DEF ReadUser
      <3>2. account[op[a].who].user \in UserStatus
        BY <3>1 DEF Row
      <3> DEFINE rec == [op[a] EXCEPT !.pc = "ready", !.user = account[op[a].who].user]
      <3>3. rec \in OpRecord /\ rec.who = op[a].who /\ rec.kind = op[a].kind
        BY <3>2 DEF OpRecord
      <3>4. op' = [op EXCEPT ![a] = rec]
        BY <2>5 DEF ReadUser
      <3> HIDE DEF rec
      <3>5. /\ op' \in [Ops -> OpRecord]
            /\ \A b \in Ops : op'[b].pc # "idle" => op'[b].who \in Users /\ op'[b].kind # "none"
        BY <3>1, <3>3, <3>4, OpSet
      <3>6. UNCHANGED <<account, cache, req, doubt>>
        BY <2>5 DEF ReadUser
      <3> QED
        BY <3>5, <3>6
    <2>6. ASSUME NEW a \in Ops, FlushAndReadHelper(a) PROVE TypeOK'
      <3>1. op[a].who \in Users /\ op[a].kind # "none"
        BY <2>6 DEF FlushAndReadHelper
      <3>2. account[op[a].who].helper \in HelperStatus
        BY <3>1 DEF Row
      <3> DEFINE rec == [op[a] EXCEPT !.pc = "flushed", !.helper = account[op[a].who].helper]
      <3>3. rec \in OpRecord /\ rec.who = op[a].who /\ rec.kind = op[a].kind
        BY <3>2 DEF OpRecord
      <3>4. op' = [op EXCEPT ![a] = rec]
        BY <2>6 DEF FlushAndReadHelper
      <3> HIDE DEF rec
      <3>5. /\ op' \in [Ops -> OpRecord]
            /\ \A b \in Ops : op'[b].pc # "idle" => op'[b].who \in Users /\ op'[b].kind # "none"
        BY <3>1, <3>3, <3>4, OpSet
      <3>6. UNCHANGED <<account, cache, req, doubt>>
        BY <2>6 DEF FlushAndReadHelper
      <3> QED
        BY <3>5, <3>6
    <2>7. ASSUME NEW a \in Ops, Commit(a) PROVE TypeOK'
      <3>1. op[a].pc # "idle" /\ op[a].who \in Users /\ op[a].kind # "none"
        BY <2>7 DEF Commit, MayCommit
      <3>2. account' \in [Users -> Row]
        BY <2>7, <3>1, WrittenType DEF Commit
      <3>3. PICK pc \in {"leaving", "committed"} : op' = [op EXCEPT ![a].pc = pc]
        BY <2>7 DEF Commit
      <3>4. op' \in [Ops -> OpRecord] /\ op'[a].who = op[a].who /\ op'[a].kind = op[a].kind
            /\ \A b \in Ops : b # a => op'[b] = op[b]
        BY <3>3, OpMoves
      <3> QED
        BY <2>7, <3>1, <3>2, <3>4 DEF Commit
    <2>8. ASSUME NEW a \in Ops, Invalidate(a) PROVE TypeOK'
      <3>1. op' \in [Ops -> OpRecord] /\ op'[a].who = op[a].who /\ op'[a].kind = op[a].kind
            /\ \A b \in Ops : b # a => op'[b] = op[b]
        BY <2>8, OpMoves DEF Invalidate
      <3>2. cache' \in [Users -> Row]
        BY <2>8, Records DEF Invalidate
      <3> QED
        BY <2>8, <3>1, <3>2 DEF Invalidate
    <2>9. ASSUME NEW a \in Ops, Teardown(a) PROVE TypeOK'
      BY <2>9, Records DEF Teardown, NoOp
    <2>10. ASSUME NEW a \in Ops, OpDies(a) PROVE TypeOK'
      BY <2>10, Records DEF OpDies, NoOp
    <2>11. ASSUME NEW r \in Requests, NEW u \in Users, Hit(r, u) PROVE TypeOK'
      BY <2>11, Records DEF Hit, Decide, NoReq, ReqRecord
    <2>12. ASSUME NEW r \in Requests, NEW u \in Users, Miss(r, u) PROVE TypeOK'
      BY <2>12, Records DEF Miss, ReqRecord
    <2>13. ASSUME NEW r \in Requests, ReadRows(r) PROVE TypeOK'
      BY <2>13, Records DEF ReadRows, NoReq, ReqRecord
    <2>14. ASSUME NEW r \in Requests, Fill(r) PROVE TypeOK'
      <3>1. req[r].who \in Users /\ req[r].snap \in Row
        BY <2>14 DEF Fill, ReqRecord
      <3>2. req' \in [Requests -> ReqRecord]
        BY <2>14, <3>1, Records DEF Fill, Decide, ReqRecord
      <3> QED
        BY <2>14, <3>1, <3>2 DEF Fill, Decide, NoReq
    <2>15. ASSUME NEW r \in Requests, Finish(r) PROVE TypeOK'
      BY <2>15, Records DEF Finish, NoReq
    <2>16. CASE UNCHANGED vars
      BY <2>16 DEF vars
    <2> QED
      BY <2>1, <2>2, <2>3, <2>4, <2>5, <2>6, <2>7, <2>8, <2>9, <2>10, <2>11, <2>12, <2>13, <2>14,
         <2>15, <2>16
         DEF Next, OpStep, ReqStep, BeginApprove, BeginSuspend, BeginReinstate, BeginVerify
  <1> QED
    BY <1>1, <1>2, PTL DEF Spec

-----------------------------------------------------------------------------
(* Before anyone has registered, everything holds.                           *)
LEMMA Inits == Init => IInv
  <1> SUFFICES ASSUME Init PROVE IInv
    OBVIOUS
  <1>1. TypeOK
    BY Records DEF Init, TypeOK, NoOp, NoReq
  <1> QED
    BY <1>1 DEF Init, IInv, Registered, SeenPending, ReadsFresh, PendingTogether, StaleHasCause,
                Nothing, NoOp, NoReq

(* A handler that starts has read the account as it is.                      *)
LEMMA BeginKeeps ==
    ASSUME IInv, NEW a \in Ops, NEW u \in Users, NEW kind, NEW pc \in {"helper read", "ready", "user read"},
           Begin(a, u, kind, pc)
    PROVE  (Registered /\ SeenPending /\ ReadsFresh /\ PendingTogether /\ StaleHasCause)'
  <1> USE DEF IInv, TypeOK, Begin
  <1>1. /\ op'[a] = [pc |-> pc, kind |-> kind, who |-> u, user |-> account[u].user, helper |-> account[u].helper]
        /\ \A b \in Ops : b # a => op'[b] = op[b]
        /\ Exists(u)
    OBVIOUS
  <1>2. Registered'
    BY <1>1 DEF Registered, Exists
  <1>3. SeenPending'
    BY <1>1 DEF SeenPending, PendingTogether
  <1>4. StaleHasCause'
    <2>1. \A v \in Users : Invalidating(v) => Invalidating(v)'
      BY <1>1 DEF Invalidating
    <2> QED
      BY <2>1 DEF StaleHasCause
  <1> QED
    BY <1>2, <1>3, <1>4 DEF ReadsFresh, PendingTogether

(* A commit is the cause of whatever it makes stale.                         *)
LEMMA CommitKeeps ==
    ASSUME IInv, NEW a \in Ops, Commit(a)
    PROVE  (Registered /\ SeenPending /\ ReadsFresh /\ PendingTogether /\ StaleHasCause)'
  <1> DEFINE u == op[a].who
  <1> USE DEF IInv, TypeOK, Commit
  <1>1. op[a].pc # "idle" /\ u \in Users /\ Exists(u) /\ account[u] \in Row
    BY DEF MayCommit, Registered
  <1>2. /\ Written(a, account[u]).user # "pending_approval"
        /\ Written(a, account[u]).helper # "pending"
        /\ Written(a, account[u]).user # "absent"
    BY <1>1, WrittenLeavesPending DEF PendingTogether, SeenPending, Exists
  <1>3. /\ account'[u] = Written(a, account[u])
        /\ \A v \in Users : v # u => account'[v] = account[v]
    BY <1>1
  <1>4. /\ op'[a].pc \in {"committed", "leaving"} /\ op'[a].who = u
        /\ \A b \in Ops : b # a => op'[b] = op[b]
    OBVIOUS
  <1>5. \A v \in Users : Exists(v) => Exists(v)'
    BY <1>2, <1>3 DEF Exists
  <1>6. Registered'
    BY <1>1, <1>4, <1>5 DEF Registered
  <1>7. SeenPending'
    BY <1>1, <1>2, <1>3, <1>4 DEF SeenPending
  <1>8. PendingTogether'
    BY <1>2, <1>3 DEF PendingTogether
  <1>9. ReadsFresh'
    BY <1>3 DEF ReadsFresh, Reading
  <1>10. StaleHasCause'
    <2>1. \A v \in Users : Invalidating(v) => Invalidating(v)'
      BY <1>4 DEF Invalidating
    <2>2. Invalidating(u)'
      BY <1>4 DEF Invalidating
    <2>3. \A v \in Users : v # u => cache'[v] = cache[v] /\ account'[v] = account[v]
      BY <1>3
    <2>4. doubt \subseteq doubt'
      OBVIOUS
    <2> QED
      BY <2>1, <2>2, <2>3, <2>4 DEF StaleHasCause
  <1> QED
    BY <1>6, <1>7, <1>8, <1>9, <1>10

(* A step that touches neither accounts nor the cache, and moves a handler   *)
(* that has not committed, keeps everything.                                 *)
LEMMA ReadingKeeps ==
    ASSUME IInv, NEW a \in Ops, ReadUser(a) \/ FlushAndReadHelper(a)
    PROVE  (Registered /\ SeenPending /\ ReadsFresh /\ PendingTogether /\ StaleHasCause)'
  <1> USE DEF IInv, TypeOK, ReadUser, FlushAndReadHelper
  <1>1. /\ op[a].pc # "idle" /\ op'[a].pc # "idle" /\ op'[a].who = op[a].who
        /\ op[a].pc \notin {"committed", "leaving"}
        /\ \A b \in Ops : b # a => op'[b] = op[b]
        /\ op'[a].user \in {op[a].user, account[op[a].who].user}
        /\ op'[a].helper \in {op[a].helper, account[op[a].who].helper}
        /\ op[a].who \in Users /\ account' = account
    <2>1. op[a] \in OpRecord
      OBVIOUS
    <2>2. CASE ReadUser(a)
      <3>1. op' = [op EXCEPT ![a] = [op[a] EXCEPT !.pc = "ready",
                                                  !.user = account[op[a].who].user]]
        BY <2>2
      <3>2. op[a].pc = "helper read" /\ op \in [Ops -> OpRecord] /\ account' = account
        BY <2>2
      <3>3. op[a].who \in Users
        BY <3>2
      <3> HIDE DEF IInv, TypeOK, ReadUser, FlushAndReadHelper
      <3> QED
        BY <2>1, <3>1, <3>2, <3>3 DEF OpRecord
    <2>3. CASE FlushAndReadHelper(a)
      <3>1. op' = [op EXCEPT ![a] = [op[a] EXCEPT !.pc = "flushed",
                                                  !.helper = account[op[a].who].helper]]
        BY <2>3
      <3>2. op[a].pc = "user read" /\ op \in [Ops -> OpRecord] /\ account' = account
        BY <2>3
      <3>3. op[a].who \in Users
        BY <3>2
      <3> HIDE DEF IInv, TypeOK, ReadUser, FlushAndReadHelper
      <3> QED
        BY <2>1, <3>1, <3>2, <3>3 DEF OpRecord
    <2> QED
      BY <2>2, <2>3
  <1>2. Registered'
    <2>1. Registered /\ UNCHANGED <<account, cache, req>>
      OBVIOUS
    <2> HIDE DEF IInv, TypeOK, ReadUser, FlushAndReadHelper
    <2> QED
      BY <1>1, <2>1 DEF Registered, Exists
  <1>3. SeenPending'
    <2>0. SeenPending /\ PendingTogether
      OBVIOUS
    <2>1. account[op[a].who].user = "pending_approval" =>
            /\ account[op[a].who].helper = "pending"
            /\ op[a].user = "pending_approval" /\ op[a].helper = "pending"
      <3> HIDE DEF IInv, TypeOK, ReadUser, FlushAndReadHelper
      <3> QED
        BY <1>1, <2>0 DEF SeenPending, PendingTogether
    <2>2. account[op[a].who].user = "pending_approval" =>
            op'[a].user = "pending_approval" /\ op'[a].helper = "pending"
      BY <1>1, <2>1
    <2> HIDE DEF IInv, TypeOK, ReadUser, FlushAndReadHelper
    <2> QED
      BY <1>1, <2>0, <2>2 DEF SeenPending
  <1>4. StaleHasCause'
    <2>1. \A v \in Users : Invalidating(v) => Invalidating(v)'
      BY <1>1 DEF Invalidating
    <2>2. StaleHasCause /\ UNCHANGED <<account, cache, req, doubt>>
      OBVIOUS
    <2> HIDE DEF IInv, TypeOK, ReadUser, FlushAndReadHelper
    <2> QED
      BY <2>1, <2>2 DEF StaleHasCause
  <1>5. ReadsFresh' /\ PendingTogether'
    BY DEF ReadsFresh, PendingTogether
  <1> QED
    BY <1>2, <1>3, <1>4, <1>5

(* The two DELs: a handler stops being the cause of a stale entry only when  *)
(* the entry is gone or the account is in doubt.                             *)
LEMMA InvalidatingKeeps ==
    ASSUME IInv, NEW a \in Ops, Invalidate(a) \/ Teardown(a) \/ OpDies(a)
    PROVE  (Registered /\ SeenPending /\ ReadsFresh /\ PendingTogether /\ StaleHasCause)'
  <1> USE DEF IInv, TypeOK
  <1>u. PICK u \in Users : u = op[a].who
    BY DEF Invalidate, Teardown, OpDies
  <1>1. /\ \A b \in Ops : b # a => op'[b] = op[b]
        /\ op[a].pc # "idle" /\ u \in Users
        /\ \/ op'[a].pc = "idle"
           \/ /\ op'[a].pc = "leaving" /\ op[a].pc = "committed"
              /\ op'[a].who = u /\ op'[a].user = op[a].user /\ op'[a].helper = op[a].helper
        /\ UNCHANGED <<account, req>>
        /\ doubt \subseteq doubt'
    <2>1. CASE Invalidate(a)
      BY <1>u, <2>1 DEF Invalidate, OpRecord
    <2>2. CASE Teardown(a)
      BY <1>u, <2>2 DEF Teardown, NoOp
    <2>3. CASE OpDies(a)
      BY <1>u, <2>3 DEF OpDies, NoOp
    <2> QED
      BY <2>1, <2>2, <2>3
  <1>2. \A v \in Users : cache'[v] = cache[v] \/ cache'[v] = Nothing
    <2>1. cache' \in {cache, [cache EXCEPT ![u] = Nothing]}
      BY <1>u DEF Invalidate, Teardown, OpDies
    <2> QED
      BY <2>1
  <1>3. Registered'
    BY <1>u, <1>1, <1>2 DEF Registered, Exists
  <1>4. SeenPending'
    BY <1>u, <1>1 DEF SeenPending
  <1>5. ReadsFresh'
    BY <1>1 DEF ReadsFresh
  <1>6. StaleHasCause'
    <2>1. \A v \in Users : v # u => (Invalidating(v) => Invalidating(v)')
      BY <1>u, <1>1 DEF Invalidating
    <2>2. \/ op'[a].pc = "leaving" /\ op'[a].who = u
          \/ cache'[u] = Nothing
          \/ u \in doubt'
          \/ op[a].pc \notin {"committed", "leaving"}
      <3>1. CASE Invalidate(a)
        BY <1>u, <3>1 DEF Invalidate, OpRecord
      <3>2. CASE Teardown(a)
        BY <1>u, <1>1, <3>2 DEF Teardown
      <3>3. CASE OpDies(a)
        BY <1>u, <3>3 DEF OpDies
      <3> QED
        BY <3>1, <3>2, <3>3
    <2>3. ASSUME Invalidating(u) PROVE Invalidating(u)' \/ cache'[u] = Nothing \/ u \in doubt'
      <3>1. PICK b \in Ops : op[b].pc \in {"committed", "leaving"} /\ op[b].who = u
        BY <2>3 DEF Invalidating
      <3>2. CASE b = a
        BY <1>u, <1>1, <2>2, <3>1, <3>2 DEF Invalidating
      <3>3. CASE b # a
        BY <1>1, <3>1, <3>3 DEF Invalidating
      <3> QED
        BY <3>2, <3>3
    <2> SUFFICES ASSUME NEW v \in Users, cache'[v] # Nothing, cache'[v] # account'[v]
                 PROVE  Invalidating(v)' \/ v \in doubt'
      BY DEF StaleHasCause
    <2>4. Invalidating(v) \/ v \in doubt
      BY <1>1, <1>2 DEF StaleHasCause
    <2> QED
      BY <1>1, <2>1, <2>3, <2>4
  <1> QED
    BY <1>1, <1>3, <1>4, <1>5, <1>6 DEF PendingTogether

(* Requests that resolve an account.                                         *)
LEMMA RequestKeeps ==
    ASSUME IInv, NEW r \in Requests, NEW u \in Users,
           Hit(r, u) \/ Miss(r, u) \/ ReadRows(r) \/ Fill(r) \/ Finish(r)
    PROVE  (Registered /\ SeenPending /\ ReadsFresh /\ PendingTogether /\ StaleHasCause)'
  <1> USE DEF IInv, TypeOK
  <1>1. UNCHANGED <<account, op, doubt>>
    BY DEF Hit, Miss, ReadRows, Fill, Finish
  <1>2. \A q \in Requests : req'[q].pc = "read" =>
          \/ req'[q] = req[q]
          \/ /\ req'[q].who = req[q].who /\ req'[q].snap = account[req[q].who]
             /\ Exists(req[q].who)
    BY DEF Hit, Miss, ReadRows, Fill, Finish, Decide, NoReq
  <1>3. \A v \in Users : \/ cache'[v] = cache[v]
                         \/ cache'[v] = Nothing
                         \/ req[r].pc = "read" /\ req[r].who = v /\ cache'[v] = req[r].snap
    BY DEF Hit, Miss, ReadRows, Fill, Finish
  <1>4. Registered'
    BY <1>1, <1>2, <1>3 DEF Registered, Exists
  <1>5. ReadsFresh'
    BY <1>1, <1>2 DEF ReadsFresh
  <1>6. StaleHasCause'
    BY <1>1, <1>3 DEF StaleHasCause, ReadsFresh, Invalidating
  <1> QED
    BY <1>1, <1>4, <1>5, <1>6 DEF SeenPending, PendingTogether

(* Registering makes an account nobody has read yet.                         *)
LEMMA RegisterKeeps ==
    ASSUME IInv, NEW u \in Users, RegisterStudent(u) \/ RegisterHelper(u)
    PROVE  (Registered /\ SeenPending /\ ReadsFresh /\ PendingTogether /\ StaleHasCause)'
  <1> USE DEF IInv, TypeOK
  <1>1. /\ ~Exists(u) /\ Exists(u)'
        /\ \A v \in Users : v # u => account'[v] = account[v]
        /\ UNCHANGED <<cache, op, req, doubt>>
    BY DEF RegisterStudent, RegisterHelper, Exists, Row
  <1>2. account'[u].user = "pending_approval" <=> account'[u].helper = "pending"
    BY DEF RegisterStudent, RegisterHelper, PendingTogether, Row, Exists
  <1>3. /\ \A a \in Ops : op[a].pc # "idle" => op[a].who # u
        /\ \A r \in Requests : req[r].pc = "read" => req[r].who # u
        /\ cache[u] = Nothing
    BY <1>1 DEF Registered
  <1>4. Registered'
    BY <1>1, <1>3 DEF Registered, Exists
  <1>5. SeenPending'
    BY <1>1, <1>3 DEF SeenPending
  <1>6. ReadsFresh'
    BY <1>1, <1>3 DEF ReadsFresh
  <1>7. PendingTogether'
    BY <1>1, <1>2 DEF PendingTogether
  <1>8. StaleHasCause'
    BY <1>1, <1>3 DEF StaleHasCause, Invalidating
  <1> QED
    BY <1>4, <1>5, <1>6, <1>7, <1>8

(* The invariant is inductive.                                               *)
THEOREM Inductive == Spec => []IInv
  <1> DEFINE Rest == Registered /\ SeenPending /\ ReadsFresh /\ PendingTogether /\ StaleHasCause
  <1>1. IInv /\ [Next]_vars => Rest'
    <2> SUFFICES ASSUME IInv, [Next]_vars PROVE Rest'
      OBVIOUS
    <2>1. ASSUME NEW u \in Users, RegisterStudent(u) \/ RegisterHelper(u) PROVE Rest'
      BY <2>1, RegisterKeeps
    <2>2. ASSUME NEW a \in Ops, OpStep(a) PROVE Rest'
      <3>1. ASSUME NEW u \in Users, BeginApprove(a, u) \/ BeginSuspend(a, u)
                                      \/ BeginReinstate(a, u) \/ BeginVerify(a, u)
            PROVE  Rest'
        BY <3>1, BeginKeeps DEF BeginApprove, BeginSuspend, BeginReinstate, BeginVerify
      <3> QED
        BY <2>2, <3>1, ReadingKeeps, CommitKeeps, InvalidatingKeeps DEF OpStep
    <2>3. ASSUME NEW r \in Requests, ReqStep(r) PROVE Rest'
      <3>1. CASE \E u \in Users : Hit(r, u) \/ Miss(r, u)
        BY <3>1, RequestKeeps
      <3>2. CASE ReadRows(r) \/ Fill(r) \/ Finish(r)
        <4>1. req[r].pc # "idle" /\ req[r].who \in Users
          BY <3>2 DEF ReadRows, Fill, Finish, IInv, TypeOK
        <4> QED
          BY <3>2, <4>1, RequestKeeps
      <3> QED
        BY <2>3, <3>1, <3>2 DEF ReqStep
    <2>4. ASSUME NEW u \in Users, Expire(u) PROVE Rest'
      <3>1. \A v \in Users : cache'[v] = cache[v] \/ cache'[v] = Nothing
        BY <2>4 DEF Expire, IInv, TypeOK
      <3>2. UNCHANGED <<account, op, req, doubt>>
        BY <2>4 DEF Expire
      <3> QED
        BY <3>1, <3>2 DEF IInv, Registered, Exists, SeenPending, ReadsFresh, PendingTogether,
                          StaleHasCause, Invalidating
    <2>5. CASE UNCHANGED vars
      BY <2>5 DEF vars, IInv, Registered, Exists, SeenPending, ReadsFresh, PendingTogether,
                  StaleHasCause, Invalidating
    <2> QED
      BY <2>1, <2>2, <2>3, <2>4, <2>5 DEF Next
  <1>2. Init => Rest
    BY Inits DEF IInv
  <1>3. IInv <=> TypeOK /\ Rest
    BY DEF IInv
  <1> QED
    BY <1>1, <1>2, <1>3, TypeCorrect, PTL DEF Spec

(* RULE 3, for any number of handlers, requests and faults: a stale snapshot *)
(* has a DEL coming, a read the commit overtook, or a DEL that was lost.     *)
THEOREM StaleOnlyWithCause == Spec => []StaleHasCause
  <1>1. IInv => StaleHasCause
    BY DEF IInv
  <1> QED
    BY <1>1, Inductive, PTL

(* However the handlers race, an account and its helper row leave the first  *)
(* approval together and never come back to it.                              *)
THEOREM PendingIsTogether == Spec => []PendingTogether
  <1>1. IInv => PendingTogether
    BY DEF IInv
  <1> QED
    BY <1>1, Inductive, PTL

(* A confirmation at work had read an address yet to be confirmed.           *)
VerifyRead ==
    \A a \in Ops : op[a].kind = "verify" => op[a].pc # "helper read" /\ op[a].user = "pending_email"

(* The handlers that begin record what they read; those that go on keep it,  *)
(* but for approve_helper, which reads its user second.                      *)
LEMMA VerifyReads == Spec => []VerifyRead
  <1>1. Init => VerifyRead
    <2>1. NoOp.kind # "verify"
      BY DEF NoOp
    <2> QED
      BY <2>1 DEF Init, VerifyRead
  <1>2. TypeOK /\ VerifyRead /\ [Next]_vars => VerifyRead'
    <2> SUFFICES ASSUME TypeOK, VerifyRead, [Next]_vars PROVE VerifyRead'
      OBVIOUS
    <2> USE DEF VerifyRead
    <2>1. CASE op' = op
      BY <2>1
    <2>2. ASSUME NEW a \in Ops, OpStep(a) PROVE VerifyRead'
      <3>1. ASSUME \A b \in Ops : b # a => op'[b] = op[b],
                   op'[a].kind = "verify" => op'[a].pc # "helper read" /\ op'[a].user = "pending_email"
            PROVE  VerifyRead'
        BY <3>1
      <3>2. ASSUME NEW u \in Users, NEW kind, NEW pc, Begin(a, u, kind, pc),
                   kind = "verify" => pc = "ready" /\ account[u].user = "pending_email"
            PROVE  VerifyRead'
        <4>1. op'[a].kind = kind /\ op'[a].pc = pc /\ op'[a].user = account[u].user
          BY <3>2 DEF Begin, TypeOK
        <4>2. \A b \in Ops : b # a => op'[b] = op[b]
          BY <3>2 DEF Begin, TypeOK
        <4> QED
          BY <3>1, <3>2, <4>1, <4>2
      <3>3. ASSUME NEW u \in Users, BeginApprove(a, u) \/ BeginSuspend(a, u)
                                      \/ BeginReinstate(a, u) \/ BeginVerify(a, u)
            PROVE  VerifyRead'
        BY <3>2, <3>3 DEF BeginApprove, BeginSuspend, BeginReinstate, BeginVerify
      <3>4. CASE ReadUser(a)
        <4>1. op[a].pc = "helper read" /\ op'[a].kind = op[a].kind
          BY <3>4 DEF ReadUser, TypeOK, OpRecord
        <4>2. \A b \in Ops : b # a => op'[b] = op[b]
          BY <3>4 DEF ReadUser, TypeOK
        <4>3. op[a].kind # "verify"
          BY <4>1
        <4> QED
          BY <3>1, <4>1, <4>2, <4>3
      <3>5. CASE FlushAndReadHelper(a) \/ Commit(a) \/ Invalidate(a)
        <4>1. /\ op'[a].kind = op[a].kind /\ op'[a].user = op[a].user
              /\ op'[a].pc # "helper read"
          <5>1. op[a] \in OpRecord /\ op \in [Ops -> OpRecord]
            BY DEF TypeOK
          <5>2. CASE FlushAndReadHelper(a)
            BY <5>1, <5>2 DEF FlushAndReadHelper, OpRecord
          <5>3. CASE Commit(a)
            BY <5>1, <5>3 DEF Commit, OpRecord
          <5>4. CASE Invalidate(a)
            BY <5>1, <5>4 DEF Invalidate, OpRecord
          <5> QED
            BY <3>5, <5>2, <5>3, <5>4
        <4>2. \A b \in Ops : b # a => op'[b] = op[b]
          BY <3>5 DEF FlushAndReadHelper, Commit, Invalidate, TypeOK
        <4> QED
          BY <3>1, <4>1, <4>2
      <3>6. CASE Teardown(a) \/ OpDies(a)
        <4>1. op'[a] = NoOp /\ NoOp.kind # "verify"
          BY <3>6 DEF Teardown, OpDies, NoOp, TypeOK
        <4>2. \A b \in Ops : b # a => op'[b] = op[b]
          BY <3>6 DEF Teardown, OpDies, TypeOK
        <4> QED
          BY <3>1, <4>1, <4>2
      <3> QED
        BY <2>2, <3>3, <3>4, <3>5, <3>6 DEF OpStep
    <2>3. ASSUME NEW u \in Users, RegisterStudent(u) \/ RegisterHelper(u) \/ Expire(u)
          PROVE  op' = op
      BY <2>3 DEF RegisterStudent, RegisterHelper, Expire
    <2>4. ASSUME NEW r \in Requests, ReqStep(r) PROVE op' = op
      BY <2>4 DEF ReqStep, Hit, Miss, ReadRows, Fill, Finish
    <2> QED
      BY <2>1, <2>2, <2>3, <2>4 DEF Next, vars
  <1> QED
    BY <1>1, <1>2, TypeCorrect, PTL DEF Spec

(* A confirmation link is no way around a suspension: whoever lifts one is   *)
(* an approval, a reinstatement, or a confirmation that began before it.     *)
THEOREM SuspensionLiftedOnPurpose == Spec => LiftedOnPurpose
  <1> DEFINE Lifts(u, a) == /\ op[a].who = u /\ op'[a].pc # op[a].pc
                            /\ \/ op[a].kind \in {"approve", "reinstate"}
                               \/ op[a].kind = "verify" /\ op[a].user = "pending_email"
         Purpose == \A u \in Users :
                      account[u].user = "suspended" /\ account'[u].user # "suspended" =>
                          \E a \in Ops : Lifts(u, a)
  <1>1. TypeOK /\ VerifyRead /\ [Next]_vars => [Purpose]_vars
    <2> SUFFICES ASSUME TypeOK, VerifyRead, Next, NEW u \in Users,
                        account[u].user = "suspended", account'[u].user # "suspended"
                 PROVE  \E a \in Ops : Lifts(u, a)
      OBVIOUS
    <2>1. ASSUME NEW v \in Users, RegisterStudent(v) \/ RegisterHelper(v) \/ Expire(v)
          PROVE  FALSE
      BY <2>1 DEF TypeOK, RegisterStudent, RegisterHelper, Expire, Exists
    <2>2. ASSUME NEW r \in Requests, ReqStep(r) PROVE FALSE
      BY <2>2 DEF ReqStep, Hit, Miss, ReadRows, Fill, Finish
    <2>3. ASSUME NEW a \in Ops, OpStep(a) PROVE Lifts(u, a)
      <3>1. ASSUME NEW v \in Users, BeginApprove(a, v) \/ BeginSuspend(a, v)
                                      \/ BeginReinstate(a, v) \/ BeginVerify(a, v)
            PROVE  FALSE
        BY <3>1 DEF BeginApprove, BeginSuspend, BeginReinstate, BeginVerify, Begin
      <3>2. CASE ReadUser(a) \/ FlushAndReadHelper(a) \/ Invalidate(a) \/ Teardown(a) \/ OpDies(a)
        BY <3>2 DEF ReadUser, FlushAndReadHelper, Invalidate, Teardown, OpDies
      <3>3. CASE Commit(a)
        <4>1. op[a].pc \in {"flushed", "ready"} /\ op[a].kind # "none" /\ op[a] \in OpRecord
          BY <3>3 DEF Commit, MayCommit, TypeOK
        <4>2. op'[a].pc \in {"committed", "leaving"}
          BY <3>3, <4>1 DEF Commit, TypeOK
        <4>3. /\ op[a].who = u /\ account' = [account EXCEPT ![u] = Written(a, account[u])]
              /\ account[u] \in Row
          BY <3>3 DEF Commit, TypeOK
        <4>4. op[a].kind # "suspend"
          <5>1. account'[u].user = Written(a, account[u]).user
            BY <4>3 DEF TypeOK
          <5> QED
            BY <5>1 DEF Written, UserTarget
        <4>5. op[a].kind \in {"approve", "reinstate", "verify"}
          BY <4>1, <4>4 DEF OpRecord
        <4> QED
          BY <4>1, <4>2, <4>3, <4>5 DEF VerifyRead
      <3> QED
        BY <2>3, <3>1, <3>2, <3>3 DEF OpStep
    <2> QED
      BY <2>1, <2>2, <2>3 DEF Next
  <1>2. Spec => [][Purpose]_vars
    BY <1>1, TypeCorrect, VerifyReads, PTL DEF Spec
  <1> QED
    BY <1>2 DEF LiftedOnPurpose
=============================================================================
