------------------------------ MODULE Accounts ------------------------------
(***************************************************************************)
(* Accounts and the authorization snapshot: what the approve, suspend,       *)
(* reinstate and verify-email handlers write, and the Redis copy that every  *)
(* authenticated request is resolved against.                                *)
(*                                                                           *)
(* A handler reads rows, awaits, and commits only the columns it changed.    *)
(* Suspend and reinstate flush the users row before they look the helper up, *)
(* so they hold its lock until they commit.                                  *)
(***************************************************************************)
EXTENDS FiniteSets, Integers

CONSTANTS Users,     \* accounts that may come to exist, as a student or a helper
          Ops,       \* admin and verify-email requests in flight
          Requests,  \* other authenticated requests in flight
          Faults     \* what may go wrong

ASSUME FaultsAssumption == Faults \subseteq {"redis", "crash"}

VARIABLES
    account,  \* users.status and helpers.status of each account
    cache,    \* authz:principal:{id}: a snapshot, or Nothing
    op,       \* the requests that change an account
    req,      \* the requests that resolve one
    doubt     \* accounts changed under a read, or without a DEL (history)

vars == <<account, cache, op, req, doubt>>

UserStatus   == {"absent", "pending_email", "pending_approval", "active", "suspended"}
HelperStatus == {"none", "pending", "approved", "suspended"}

Nothing == [user |-> "absent", helper |-> "none"]
NoOp    == [pc |-> "idle", kind |-> "none", who |-> "none", user |-> "absent", helper |-> "none"]
NoReq   == [pc |-> "idle", who |-> "none", snap |-> Nothing]

Init ==
    /\ account = [u \in Users |-> Nothing]
    /\ cache   = [u \in Users |-> Nothing]
    /\ op      = [a \in Ops |-> NoOp]
    /\ req     = [r \in Requests |-> NoReq]
    /\ doubt   = {}

Exists(u)   == account[u].user # "absent"
IsHelper(u) == account[u].helper # "none"

RegisterStudent(u) ==
    /\ ~Exists(u)
    /\ account' = [account EXCEPT ![u].user = "pending_email"]
    /\ UNCHANGED <<cache, op, req, doubt>>

RegisterHelper(u) ==
    /\ ~Exists(u)
    /\ account' = [account EXCEPT ![u] = [user |-> "pending_approval", helper |-> "pending"]]
    /\ UNCHANGED <<cache, op, req, doubt>>

-----------------------------------------------------------------------------
(* The handlers that change an account.                                      *)

UserTarget(kind)   == IF kind = "suspend" THEN "suspended" ELSE "active"
HelperTarget(kind) == IF kind = "suspend" THEN "suspended" ELSE "approved"

Begin(a, u, kind, pc) ==
    /\ op[a].pc = "idle" /\ Exists(u)
    /\ op' = [op EXCEPT ![a] = [pc |-> pc, kind |-> kind, who |-> u,
                                user   |-> account[u].user,
                                helper |-> account[u].helper]]
    /\ UNCHANGED <<account, cache, req, doubt>>

(* approve_helper reads the helper, refuses an approved one, then reads its  *)
(* user.                                                                     *)
BeginApprove(a, u) ==
    /\ IsHelper(u) /\ account[u].helper # "approved"
    /\ Begin(a, u, "approve", "helper read")

ReadUser(a) ==
    /\ op[a].pc = "helper read"
    /\ op' = [op EXCEPT ![a].pc = "ready", ![a].user = account[op[a].who].user]
    /\ UNCHANGED <<account, cache, req, doubt>>

BeginSuspend(a, u) == Begin(a, u, "suspend", "user read")

BeginReinstate(a, u) ==
    /\ account[u].user = "suspended"
    /\ Begin(a, u, "reinstate", "user read")

BeginVerifyUnlessActive(a, u) ==
    /\ account[u].user # "active"
    /\ Begin(a, u, "verify", "ready")

BeginVerify(a, u) ==
    /\ account[u].user = "pending_email"
    /\ Begin(a, u, "verify", "ready")

(* Only a status that differs from the one read reaches the UPDATE.          *)
WritesUser(a) == op[a].user # UserTarget(op[a].kind)

LockedByOther(a) ==
    \E b \in Ops \ {a} : op[b].pc = "flushed" /\ op[b].who = op[a].who /\ WritesUser(b)

(* Suspend and reinstate: the lookup of the helper flushes the users row.    *)
FlushAndReadHelper(a) ==
    /\ op[a].pc = "user read"
    /\ WritesUser(a) => ~LockedByOther(a)
    /\ op' = [op EXCEPT ![a].pc = "flushed", ![a].helper = account[op[a].who].helper]
    /\ UNCHANGED <<account, cache, req, doubt>>

(* (Variants with a fault, here and below, are never part of Next: they show *)
(* which mistake each property would catch.)                                 *)
WrittenUserOnly(a, row) == [row EXCEPT !.user = IF WritesUser(a) THEN UserTarget(op[a].kind) ELSE @]

WrittenSwapped(a, row) == [WrittenUserOnly(a, row) EXCEPT !.helper = UserTarget(op[a].kind)]

Written(a, row) ==
    LET target == HelperTarget(op[a].kind) IN
    [user   |-> IF WritesUser(a) THEN UserTarget(op[a].kind) ELSE row.user,
     helper |-> IF op[a].helper \in {"none", target} THEN row.helper ELSE target]

MayCommit(a) == \/ op[a].pc = "flushed"
                \/ op[a].pc = "ready" /\ (WritesUser(a) => ~LockedByOther(a))

Reading(u) == \E r \in Requests : req[r].pc = "read" /\ req[r].who = u

CommitAfterInvalidating(a) ==
    LET u == op[a].who IN
    /\ MayCommit(a)
    /\ account' = [account EXCEPT ![u] = Written(a, @)]
    /\ op' = [op EXCEPT ![a] = NoOp]
    /\ doubt' = IF Reading(u) THEN doubt \cup {u} ELSE doubt
    /\ UNCHANGED <<cache, req>>

(* verify_email has no explicit invalidation, only the session's teardown.   *)
Commit(a) ==
    LET u == op[a].who IN
    /\ MayCommit(a)
    /\ account' = [account EXCEPT ![u] = Written(a, @)]
    /\ op' = [op EXCEPT ![a].pc = IF op[a].kind = "verify" THEN "leaving" ELSE "committed"]
    /\ doubt' = IF Reading(u) THEN doubt \cup {u} ELSE doubt
    /\ UNCHANGED <<cache, req>>

(* invalidate_principal after the commit, and again from get_db's teardown;  *)
(* an error of Redis is swallowed in both.                                   *)
Invalidate(a) ==
    /\ op[a].pc = "committed"
    /\ op' = [op EXCEPT ![a].pc = "leaving"]
    /\ \/ cache' = [cache EXCEPT ![op[a].who] = Nothing]
       \/ "redis" \in Faults /\ UNCHANGED cache
    /\ UNCHANGED <<account, req, doubt>>

Teardown(a) ==
    LET u == op[a].who IN
    /\ op[a].pc = "leaving"
    /\ op' = [op EXCEPT ![a] = NoOp]
    /\ \/ cache' = [cache EXCEPT ![u] = Nothing] /\ UNCHANGED doubt
       \/ "redis" \in Faults /\ doubt' = doubt \cup {u} /\ UNCHANGED cache
    /\ UNCHANGED <<account, req>>

(* The process stops: what is not committed is gone, and so is a DEL.        *)
OpDies(a) ==
    /\ "crash" \in Faults /\ op[a].pc # "idle"
    /\ op' = [op EXCEPT ![a] = NoOp]
    /\ doubt' = IF op[a].pc \in {"committed", "leaving"} THEN doubt \cup {op[a].who} ELSE doubt
    /\ UNCHANGED <<account, cache, req>>

-----------------------------------------------------------------------------
(* get_principal: the cached snapshot, or the rows and then the cache.  A    *)
(* suspended principal is answered 401.                                      *)

Decide(r, u, snap) ==
    req' = [req EXCEPT ![r] = IF snap.user \in {"absent", "suspended"} THEN NoReq
                              ELSE [pc |-> "served", who |-> u, snap |-> snap]]

HitRefreshing(r, u) ==
    /\ req[r].pc = "idle" /\ cache[u] # Nothing
    /\ req' = [req EXCEPT ![r] = [pc |-> "read", who |-> u, snap |-> cache[u]]]
    /\ UNCHANGED <<account, cache, op, doubt>>

Hit(r, u) ==
    /\ req[r].pc = "idle" /\ cache[u] # Nothing
    /\ Decide(r, u, cache[u])
    /\ UNCHANGED <<account, cache, op, doubt>>

Miss(r, u) ==
    /\ req[r].pc = "idle"
    /\ cache[u] = Nothing \/ "redis" \in Faults
    /\ req' = [req EXCEPT ![r] = [pc |-> "missed", who |-> u, snap |-> Nothing]]
    /\ UNCHANGED <<account, cache, op, doubt>>

ReadRows(r) ==
    LET u == req[r].who IN
    /\ req[r].pc = "missed"
    /\ req' = [req EXCEPT ![r] = IF Exists(u) THEN [pc |-> "read", who |-> u, snap |-> account[u]]
                                 ELSE NoReq]
    /\ UNCHANGED <<account, cache, op, doubt>>

Fill(r) ==
    /\ req[r].pc = "read"
    /\ Decide(r, req[r].who, req[r].snap)
    /\ \/ cache' = [cache EXCEPT ![req[r].who] = req[r].snap]
       \/ "redis" \in Faults /\ UNCHANGED cache
    /\ UNCHANGED <<account, op, doubt>>

Finish(r) ==
    /\ \/ req[r].pc = "served"
       \/ "crash" \in Faults /\ req[r].pc # "idle"
    /\ req' = [req EXCEPT ![r] = NoReq]
    /\ UNCHANGED <<account, cache, op, doubt>>

(* PRINCIPAL_TTL_S, counted from the SET; or an edit of name and phone.      *)
Expire(u) ==
    /\ cache[u] # Nothing
    /\ cache' = [cache EXCEPT ![u] = Nothing]
    /\ UNCHANGED <<account, op, req, doubt>>

-----------------------------------------------------------------------------
OpStep(a) == \/ \E u \in Users : \/ BeginApprove(a, u) \/ BeginSuspend(a, u)
                                 \/ BeginReinstate(a, u) \/ BeginVerify(a, u)
             \/ ReadUser(a) \/ FlushAndReadHelper(a)
             \/ Commit(a) \/ Invalidate(a) \/ Teardown(a) \/ OpDies(a)

ReqStep(r) == \/ \E u \in Users : Hit(r, u) \/ Miss(r, u)
              \/ ReadRows(r) \/ Fill(r) \/ Finish(r)

Next == \/ \E u \in Users : RegisterStudent(u) \/ RegisterHelper(u) \/ Expire(u)
        \/ \E a \in Ops : OpStep(a)
        \/ \E r \in Requests : ReqStep(r)

Spec == Init /\ [][Next]_vars

-----------------------------------------------------------------------------
(* Properties.                                                               *)

Row == [user : UserStatus, helper : HelperStatus]
OpRecord == [pc : {"idle", "helper read", "ready", "user read", "flushed", "committed", "leaving"},
             kind : {"none", "approve", "suspend", "reinstate", "verify"},
             who : Users \cup {"none"}, user : UserStatus, helper : HelperStatus]
ReqRecord == [pc : {"idle", "missed", "read", "served"}, who : Users \cup {"none"}, snap : Row]

(* Every variable has its type; a request at work is about an account.       *)
TypeOK ==
    /\ account \in [Users -> Row]
    /\ cache \in [Users -> Row]
    /\ op \in [Ops -> OpRecord]
    /\ req \in [Requests -> ReqRecord]
    /\ doubt \subseteq Users
    /\ \A a \in Ops : op[a].pc # "idle" => op[a].who \in Users /\ op[a].kind # "none"
    /\ \A r \in Requests : req[r].pc # "idle" => req[r].who \in Users

(* A commit whose DELs are still to come.                                    *)
Invalidating(u) == \E a \in Ops : op[a].pc \in {"committed", "leaving"} /\ op[a].who = u

(* RULE 3 of the admin router, as far as it goes: a cached snapshot that is  *)
(* not what the database says has a DEL on its way, or comes from a read the *)
(* commit overtook, or from a DEL that was lost.                             *)
StaleHasCause ==
    \A u \in Users : cache[u] # Nothing /\ cache[u] # account[u] => Invalidating(u) \/ u \in doubt

(* Two rows of one account, written by handlers that race: a first approval  *)
(* is waited for in both or in neither.                                      *)
PendingTogether ==
    \A u \in Users : account[u].user = "pending_approval" <=> account[u].helper = "pending"

(* A confirmation link is no way around a suspension: an account stops being *)
(* suspended only by the request of an admin who approves or reinstates it,  *)
(* or by a confirmation that read it while its address was unconfirmed.      *)
LiftedOnPurpose ==
    [][\A u \in Users : account[u].user = "suspended" /\ account'[u].user # "suspended" =>
          \E a \in Ops : /\ op[a].who = u /\ op'[a].pc # op[a].pc
                         /\ \/ op[a].kind \in {"approve", "reinstate"}
                            \/ op[a].kind = "verify" /\ op[a].user = "pending_email"]_vars

(* The TTL is the backstop: whatever races or is lost, an account that stays *)
(* suspended is in the end refused for good.                                 *)
Admits(snap) == snap.user \notin {"absent", "suspended"}
FairSpec == /\ Spec /\ \A u \in Users : WF_vars(Expire(u))
            /\ \A r \in Requests : WF_vars(ReadRows(r)) /\ WF_vars(Fill(r)) /\ WF_vars(Finish(r))
SuspensionPrevails ==
    \A u \in Users : <>[](account[u].user = "suspended") =>
        <>[](\A r \in Requests : req[r].pc = "served" => req[r].who # u)
=============================================================================
