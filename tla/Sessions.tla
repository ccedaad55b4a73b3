------------------------------ MODULE Sessions ------------------------------
(***************************************************************************)
(* One session's chain of refresh tokens: refresh with its grace window, and *)
(* logout, against the denylist and the rotation records in Redis.  Two      *)
(* isolates of the helper's app share one token and refresh it at once.      *)
(*                                                                           *)
(* Tokens are numbered as they are minted; token 0 comes from login.         *)
(***************************************************************************)
EXTENDS FiniteSets, Integers

CONSTANTS Requests,   \* refresh and logout requests in flight
          MaxTokens,  \* bound on the tokens minted
          Faults      \* what may go wrong

ASSUME FaultsAssumption == Faults \subseteq {"redis", "crash", "loss", "slow"}
ASSUME TokensAssumption == MaxTokens \in Nat

VARIABLES
    minted,     \* the number of the last token minted
    revoked,    \* auth:revoked:{jti}
    rotated,    \* auth:rotated:{jti}: the token that replaced it, or None
    stored,     \* the token in the app's storage, or None
    req,        \* the requests
    heirs,      \* the tokens answered in exchange for each (history)
    loggedOut,  \* whether a logout was sent (history)
    happened    \* the faults so far (history)

vars == <<minted, revoked, rotated, stored, req, heirs, loggedOut, happened>>

Tokens == 0..MaxTokens
None   == -1
NoReq  == [pc |-> "idle", jti |-> None, pair |-> None]

Init ==
    /\ minted = 0
    /\ revoked = {}
    /\ rotated = [j \in Tokens |-> None]
    /\ stored = 0
    /\ req = [r \in Requests |-> NoReq]
    /\ heirs = [j \in Tokens |-> {}]
    /\ loggedOut = FALSE
    /\ happened = {}

Presents(r, j) == req[r].pc # "idle" /\ req[r].jti = j

-----------------------------------------------------------------------------
(* The app.  It refreshes when its access token runs out, long after the     *)
(* refreshes of the token before have ended; it keeps what it is answered,   *)
(* wipes its storage when refused, and asks again when no answer comes.      *)

Refresh(r) ==
    /\ req[r].pc = "idle" /\ stored # None
    /\ \A q \in Requests : req[q].pc = "idle" \/ req[q].jti = stored
    /\ req' = [req EXCEPT ![r] = [pc |-> "check", jti |-> stored, pair |-> None]]
    /\ UNCHANGED <<minted, revoked, rotated, stored, heirs, loggedOut, happened>>

Deliver(r) ==
    /\ req[r].pc = "answered"
    /\ stored' = req[r].pair
    /\ req' = [req EXCEPT ![r] = NoReq]
    /\ UNCHANGED <<minted, revoked, rotated, heirs, loggedOut, happened>>

Logout(r) ==
    /\ req[r].pc = "idle" /\ stored # None
    /\ req' = [req EXCEPT ![r] = [pc |-> "logout", jti |-> stored, pair |-> None]]
    /\ stored' = None /\ loggedOut' = TRUE
    /\ UNCHANGED <<minted, revoked, rotated, heirs, happened>>

-----------------------------------------------------------------------------
(* refresh.                                                                  *)

Answer(r, token) ==
    /\ req' = [req EXCEPT ![r] = [pc |-> "answered", jti |-> req[r].jti, pair |-> token]]
    /\ heirs' = [heirs EXCEPT ![req[r].jti] = @ \cup {token}]

(* 401, and the app wipes its storage.                                       *)
Refuse(r) ==
    /\ req' = [req EXCEPT ![r] = NoReq]
    /\ stored' = None

Fails == "redis" \in Faults /\ happened' = happened \cup {"redis"}

(* (Variants with a fault, here and below, are never part of Next: they show *)
(* which mistake each property would catch.)                                 *)
CheckLiveRevokingFirst(r) ==
    /\ req[r].pc = "check" /\ req[r].jti \notin revoked
    /\ minted < MaxTokens
    /\ minted' = minted + 1
    /\ req' = [req EXCEPT ![r] = [pc |-> "claim", jti |-> req[r].jti, pair |-> minted + 1]]
    /\ revoked' = revoked \cup {req[r].jti}
    /\ UNCHANGED <<rotated, stored, heirs, loggedOut, happened>>

(* is_revoked_strict: an error counts as revoked.  A live token gets a pair  *)
(* minted.                                                                   *)
CheckLive(r) ==
    /\ req[r].pc = "check" /\ req[r].jti \notin revoked
    /\ minted < MaxTokens
    /\ minted' = minted + 1
    /\ req' = [req EXCEPT ![r] = [pc |-> "claim", jti |-> req[r].jti, pair |-> minted + 1]]
    /\ UNCHANGED <<revoked, rotated, stored, heirs, loggedOut, happened>>

CheckRevoked(r) ==
    /\ req[r].pc = "check"
    /\ \/ req[r].jti \in revoked /\ UNCHANGED happened
       \/ Fails
    /\ req' = [req EXCEPT ![r].pc = "recall"]
    /\ UNCHANGED <<minted, revoked, rotated, stored, heirs, loggedOut>>

(* recall_rotation: the replacement within the grace window, or 401.         *)
Recall(r) ==
    /\ req[r].pc = "recall" /\ rotated[req[r].jti] # None
    /\ Answer(r, rotated[req[r].jti])
    /\ UNCHANGED <<minted, revoked, rotated, stored, loggedOut, happened>>

RecallNothing(r) ==
    /\ req[r].pc = "recall"
    /\ \/ rotated[req[r].jti] = None /\ UNCHANGED happened
       \/ Fails
    /\ Refuse(r)
    /\ UNCHANGED <<minted, revoked, rotated, heirs, loggedOut>>

ClaimOverwriting(r) ==
    /\ req[r].pc = "claim"
    /\ rotated' = [rotated EXCEPT ![req[r].jti] = req[r].pair]
    /\ req' = [req EXCEPT ![r].pc = "revoke"]
    /\ UNCHANGED <<minted, revoked, stored, heirs, loggedOut, happened>>

(* claim_rotation: SET NX.  An error is passed over.                         *)
ClaimWon(r) ==
    /\ req[r].pc = "claim" /\ rotated[req[r].jti] = None
    /\ rotated' = [rotated EXCEPT ![req[r].jti] = req[r].pair]
    /\ req' = [req EXCEPT ![r].pc = "revoke"]
    /\ UNCHANGED <<minted, revoked, stored, heirs, loggedOut, happened>>

ClaimLost(r) ==
    /\ req[r].pc = "claim" /\ rotated[req[r].jti] # None
    /\ req' = [req EXCEPT ![r].pc = "fetch"]
    /\ UNCHANGED <<minted, revoked, rotated, stored, heirs, loggedOut, happened>>

ClaimFails(r) ==
    /\ req[r].pc = "claim" /\ Fails
    /\ req' = [req EXCEPT ![r].pc = "revoke"]
    /\ UNCHANGED <<minted, revoked, rotated, stored, heirs, loggedOut>>

FetchAnsweringNothing(r) ==
    /\ req[r].pc = "fetch"
    /\ Answer(r, rotated[req[r].jti])
    /\ UNCHANGED <<minted, revoked, rotated, stored, loggedOut, happened>>

(* The GET of the winner's pair.  One that finds nothing counts as a claim   *)
(* won, and so does an error.                                                *)
Fetch(r) ==
    /\ req[r].pc = "fetch" /\ rotated[req[r].jti] # None
    /\ Answer(r, rotated[req[r].jti])
    /\ UNCHANGED <<minted, revoked, rotated, stored, loggedOut, happened>>

FetchNothing(r) ==
    /\ req[r].pc = "fetch"
    /\ \/ rotated[req[r].jti] = None /\ UNCHANGED happened
       \/ Fails
    /\ req' = [req EXCEPT ![r].pc = "revoke"]
    /\ UNCHANGED <<minted, revoked, rotated, stored, heirs, loggedOut>>

(* revoke: an error is logged and passed over.                               *)
DenyList(j) == \/ revoked' = revoked \cup {j} /\ UNCHANGED happened
               \/ Fails /\ UNCHANGED revoked

AnswerWithoutRevoking(r) ==
    /\ req[r].pc = "revoke"
    /\ Answer(r, req[r].pair)
    /\ UNCHANGED <<minted, revoked, rotated, stored, loggedOut, happened>>

Revoke(r) ==
    /\ req[r].pc = "revoke"
    /\ DenyList(req[r].jti)
    /\ Answer(r, req[r].pair)
    /\ UNCHANGED <<minted, rotated, stored, loggedOut>>

RevokeAtLogout(r) ==
    /\ req[r].pc = "logout"
    /\ DenyList(req[r].jti)
    /\ req' = [req EXCEPT ![r] = NoReq]
    /\ UNCHANGED <<minted, rotated, stored, heirs, loggedOut>>

(* The process stops, or the answer is lost on its way.                      *)
Die(r) ==
    /\ "crash" \in Faults /\ req[r].pc \notin {"idle", "answered"}
    /\ req' = [req EXCEPT ![r] = NoReq]
    /\ happened' = happened \cup {"crash"}
    /\ UNCHANGED <<minted, revoked, rotated, stored, heirs, loggedOut>>

Lose(r) ==
    /\ "loss" \in Faults /\ req[r].pc = "answered"
    /\ req' = [req EXCEPT ![r] = NoReq]
    /\ happened' = happened \cup {"loss"}
    /\ UNCHANGED <<minted, revoked, rotated, stored, heirs, loggedOut>>

(* ROTATION_GRACE_S is over.  It outlasts the requests that present the token *)
(* and the app's asking again with it, unless one of them is slow.            *)
Lapse(j) ==
    /\ rotated[j] # None
    /\ rotated' = [rotated EXCEPT ![j] = None]
    /\ \/ stored # j /\ (\A r \in Requests : ~Presents(r, j)) /\ UNCHANGED happened
       \/ "slow" \in Faults /\ happened' = happened \cup {"slow"}
    /\ UNCHANGED <<minted, revoked, stored, req, heirs, loggedOut>>

-----------------------------------------------------------------------------
RefreshStep(r) == \/ CheckLive(r) \/ CheckRevoked(r) \/ Recall(r) \/ RecallNothing(r)
                  \/ ClaimWon(r) \/ ClaimLost(r) \/ ClaimFails(r)
                  \/ Fetch(r) \/ FetchNothing(r) \/ Revoke(r)

Next == \/ \E r \in Requests : \/ Refresh(r) \/ Deliver(r) \/ Logout(r)
                               \/ RefreshStep(r) \/ RevokeAtLogout(r) \/ Die(r) \/ Lose(r)
        \/ \E j \in Tokens : Lapse(j)

Spec == Init /\ [][Next]_vars

-----------------------------------------------------------------------------
(* Properties.                                                               *)

ReqRecord == [pc : {"idle", "check", "recall", "claim", "fetch", "revoke", "answered", "logout"},
              jti : Tokens \cup {None}, pair : Tokens \cup {None}]

(* Every variable has its type; a request at work presents a token.          *)
TypeOK ==
    /\ minted \in Tokens
    /\ revoked \subseteq Tokens
    /\ rotated \in [Tokens -> Tokens \cup {None}]
    /\ stored \in Tokens \cup {None}
    /\ req \in [Requests -> ReqRecord]
    /\ heirs \in [Tokens -> SUBSET Tokens]
    /\ loggedOut \in BOOLEAN /\ happened \subseteq Faults
    /\ \A r \in Requests : req[r].pc # "idle" => req[r].jti \in Tokens
    /\ \A r \in Requests : req[r].pc \in {"claim", "fetch", "revoke", "answered"} =>
                             req[r].pair \in Tokens

(* "Both isolates converge on identical tokens": unless Redis fails a call,  *)
(* or the grace window is too short, every request that presents a token is  *)
(* answered the same one, whatever dies between the claim and the revoke.    *)
OneHeir == happened \cap {"redis", "slow"} = {} => \A j \in Tokens : \A x, y \in heirs[j] : x = y

(* "signing the helper out and killing tracking in the middle of a route" is *)
(* what claim_rotation is there to prevent: no order of two refreshes, lost  *)
(* answers and retries ends in a 401, unless Redis fails, the retry comes    *)
(* after the grace window, or the user leaves.                               *)
NotSignedOut == happened \cap {"redis", "slow"} = {} /\ ~loggedOut => stored # None

(* "The presented token is denied-listed as part of the exchange": a token   *)
(* some request was answered for is revoked once the requests that present   *)
(* it are over, unless Redis fails or the process that claimed it dies.      *)
ExchangedIsRevoked ==
    happened \cap {"redis", "crash"} = {} =>
        \A j \in Tokens : heirs[j] # {} /\ (\A r \in Requests : ~Presents(r, j)) =>
                             j \in revoked

(* Until Redis fails a call or a retry comes after the grace window, the     *)
(* session is one chain of tokens along which the app moves: however many    *)
(* refreshes of a token race, die or lose their answers, it is exchanged     *)
(* once, for the token every answer carries ("both isolates converge on      *)
(* identical tokens"); and an answer that comes late, even after a logout,   *)
(* never takes the app back to a token that was exchanged itself.            *)
Sound == happened \cap {"redis", "slow"} = {}
S == INSTANCE Succession WITH left <- loggedOut, sound <- Sound
OneChain == S!Spec
=============================================================================
