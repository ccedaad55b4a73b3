----------------------------- MODULE Succession -----------------------------
(***************************************************************************)
(* What rotating refresh tokens promises, with no requests, no denylist and  *)
(* no rotation records: the tokens of a session are one chain.  A token is   *)
(* exchanged once, while it is the one the app holds, for a later one; the   *)
(* app only ever moves to the token its own was exchanged for, the end of    *)
(* the chain; and it is signed out by nobody but its user.  Once Redis has   *)
(* failed, or a retry has come too late, nothing more is promised.  Sessions *)
(* implements it.                                                            *)
(***************************************************************************)
EXTENDS Integers

CONSTANTS Tokens,  \* numbers, in the order the tokens are minted
          None

VARIABLES stored,  \* the token the app holds, or None
          heirs,   \* the token each was exchanged for: a set of at most one
          left,    \* whether the user has signed out
          sound    \* whether the promise still stands
svars == <<stored, heirs, left, sound>>

Init == /\ stored \in Tokens /\ heirs = [j \in Tokens |-> {}]
        /\ left = FALSE /\ sound = TRUE

(* An answer may still arrive when the user has left.                        *)
Holds(j) == stored = j \/ (left /\ stored = None)

Exchange(j) ==
    /\ Holds(j) /\ heirs[j] = {}
    /\ \E k \in Tokens : k > j /\ heirs' = [heirs EXCEPT ![j] = {k}]
    /\ UNCHANGED <<stored, left>>

Adopt(j) ==
    /\ Holds(j)
    /\ \E k \in heirs[j] : heirs[k] = {} /\ stored' = k
    /\ UNCHANGED <<heirs, left>>

Leave ==
    /\ stored' = None /\ left' = TRUE
    /\ UNCHANGED heirs

Next == \/ /\ sound /\ UNCHANGED sound
           /\ (\E j \in Tokens : Exchange(j) \/ Adopt(j)) \/ Leave
        \/ sound' = FALSE

Spec == Init /\ [][Next]_svars
=============================================================================
