--------------------------- MODULE SessionsProofs ---------------------------
(***************************************************************************)
(* Proofs about Sessions, for any number of requests and tokens.             *)
(***************************************************************************)
EXTENDS Sessions, TLAPS

(* The requests that refresh all present the same token.                     *)
Working(r) == req[r].pc \notin {"idle", "logout"}

OneToken == \A r, q \in Requests : Working(r) /\ Working(q) => req[r].jti = req[q].jti

HasPair(r) == req[r].pc \in {"claim", "fetch", "revoke", "answered"}

(* A token is replaced by one minted after it.                               *)
LaterPairs ==
    /\ stored <= minted
    /\ \A r \in Requests : req[r].jti <= minted /\ req[r].pair <= minted
    /\ \A r \in Requests : HasPair(r) => req[r].pair > req[r].jti
    /\ \A j \in Tokens : rotated[j] <= minted /\ (rotated[j] # None => rotated[j] > j)

LogoutSent == \A r \in Requests : req[r].pc = "logout" => loggedOut

(* The app never goes back: it holds, and presents, nothing older than a     *)
(* token that has been exchanged.                                            *)
Past(j) == heirs[j] # {} \/ rotated[j] # None \/ (~loggedOut /\ j \in revoked)

Forward ==
    /\ \A r \in Requests : Working(r) => stored = None \/ stored >= req[r].jti
    /\ \A j \in Tokens : Past(j) =>
          /\ stored = None \/ stored >= j
          /\ \A r \in Requests : Working(r) => req[r].jti >= j

(* A token that has been exchanged keeps its rotation record for as long as  *)
(* anyone may present it, and the record is the pair every request is given. *)
Recorded(j) ==
    /\ rotated[j] = None /\ Past(j) => stored # j /\ \A r \in Requests : Working(r) => req[r].jti # j
    /\ rotated[j] # None => heirs[j] \subseteq {rotated[j]}

Kept ==
    happened \cap {"redis", "slow"} = {} =>
        /\ \A r \in Requests : req[r].pc = "fetch" => rotated[req[r].jti] # None
        /\ \A r \in Requests : req[r].pc = "revoke" => rotated[req[r].jti] = req[r].pair
        /\ \A j \in Tokens : Recorded(j)

RecallsRevoked ==
    "redis" \notin happened => \A r \in Requests : req[r].pc = "recall" => req[r].jti \in revoked

(* A claimed token is revoked, or the request that claimed it is about to.   *)
RevokeDue ==
    happened \cap {"redis", "crash"} = {} =>
        \A j \in Tokens : rotated[j] # None \/ heirs[j] # {} =>
            j \in revoked \/ \E r \in Requests : req[r].pc = "revoke" /\ req[r].jti = j

IInv == /\ TypeOK /\ OneToken /\ LaterPairs /\ LogoutSent /\ Forward /\ Kept
        /\ RecallsRevoked /\ RevokeDue /\ OneHeir /\ NotSignedOut

-----------------------------------------------------------------------------
(* The typing of each step.                                                  *)
LEMMA TypePreserved ==
    ASSUME TypeOK, [Next]_vars
    PROVE  TypeOK'
  <1> USE TokensAssumption DEF TypeOK, ReqRecord, Tokens, None, NoReq
  <1>1. ASSUME NEW r \in Requests, Refresh(r) PROVE TypeOK'
    BY <1>1 DEF Refresh
  <1>2. ASSUME NEW r \in Requests, Deliver(r) PROVE TypeOK'
    BY <1>2 DEF Deliver
  <1>3. ASSUME NEW r \in Requests, Logout(r) PROVE TypeOK'
    BY <1>3 DEF Logout
  <1>4. ASSUME NEW r \in Requests, CheckLive(r) PROVE TypeOK'
    BY <1>4 DEF CheckLive
  <1>5. ASSUME NEW r \in Requests, CheckRevoked(r) PROVE TypeOK'
    BY <1>5 DEF CheckRevoked, Fails
  <1>6. ASSUME NEW r \in Requests, Recall(r) PROVE TypeOK'
    BY <1>6 DEF Recall, Answer
  <1>7. ASSUME NEW r \in Requests, RecallNothing(r) PROVE TypeOK'
    BY <1>7 DEF RecallNothing, Refuse, Fails
  <1>8. ASSUME NEW r \in Requests, ClaimWon(r) PROVE TypeOK'
    BY <1>8 DEF ClaimWon
  <1>9. ASSUME NEW r \in Requests, ClaimLost(r) PROVE TypeOK'
    BY <1>9 DEF ClaimLost
  <1>10. ASSUME NEW r \in Requests, ClaimFails(r) PROVE TypeOK'
    BY <1>10 DEF ClaimFails, Fails
  <1>11. ASSUME NEW r \in Requests, Fetch(r) PROVE TypeOK'
    BY <1>11 DEF Fetch, Answer
  <1>12. ASSUME NEW r \in Requests, FetchNothing(r) PROVE TypeOK'
    BY <1>12 DEF FetchNothing, Fails
  <1>13. ASSUME NEW r \in Requests, Revoke(r) PROVE TypeOK'
    BY <1>13 DEF Revoke, Answer, DenyList, Fails
  <1>14. ASSUME NEW r \in Requests, RevokeAtLogout(r) PROVE TypeOK'
    BY <1>14 DEF RevokeAtLogout, DenyList, Fails
  <1>15. ASSUME NEW r \in Requests, Die(r) PROVE TypeOK'
    BY <1>15 DEF Die
  <1>16. ASSUME NEW r \in Requests, Lose(r) PROVE TypeOK'
    BY <1>16 DEF Lose
  <1>17. ASSUME NEW j \in Tokens, Lapse(j) PROVE TypeOK'
    BY <1>17 DEF Lapse
  <1>18. CASE UNCHANGED vars
    BY <1>18 DEF vars
  <1> QED
    BY <1>1, <1>2, <1>3, <1>4, <1>5, <1>6, <1>7, <1>8, <1>9, <1>10, <1>11, <1>12,
       <1>13, <1>14, <1>15, <1>16, <1>17, <1>18
       DEF Next, RefreshStep

(* A refresh starts only beside refreshes of the same token.                 *)
LEMMA OneTokenPreserved ==
    ASSUME TypeOK, OneToken, [Next]_vars
    PROVE  OneToken'
  <1> USE TokensAssumption DEF TypeOK, ReqRecord, Tokens, None, NoReq, OneToken, Working
  <1>1. ASSUME NEW r \in Requests, Refresh(r) PROVE OneToken'
    BY <1>1 DEF Refresh
  <1>2. ASSUME NEW r \in Requests, Deliver(r) PROVE OneToken'
    BY <1>2 DEF Deliver
  <1>3. ASSUME NEW r \in Requests, Logout(r) PROVE OneToken'
    BY <1>3 DEF Logout
  <1>4. ASSUME NEW r \in Requests, CheckLive(r) PROVE OneToken'
    BY <1>4 DEF CheckLive
  <1>5. ASSUME NEW r \in Requests, CheckRevoked(r) PROVE OneToken'
    BY <1>5 DEF CheckRevoked, Fails
  <1>6. ASSUME NEW r \in Requests, Recall(r) PROVE OneToken'
    BY <1>6 DEF Recall, Answer
  <1>7. ASSUME NEW r \in Requests, RecallNothing(r) PROVE OneToken'
    BY <1>7 DEF RecallNothing, Refuse, Fails
  <1>8. ASSUME NEW r \in Requests, ClaimWon(r) PROVE OneToken'
    BY <1>8 DEF ClaimWon
  <1>9. ASSUME NEW r \in Requests, ClaimLost(r) PROVE OneToken'
    BY <1>9 DEF ClaimLost
  <1>10. ASSUME NEW r \in Requests, ClaimFails(r) PROVE OneToken'
    BY <1>10 DEF ClaimFails, Fails
  <1>11. ASSUME NEW r \in Requests, Fetch(r) PROVE OneToken'
    BY <1>11 DEF Fetch, Answer
  <1>12. ASSUME NEW r \in Requests, FetchNothing(r) PROVE OneToken'
    BY <1>12 DEF FetchNothing, Fails
  <1>13. ASSUME NEW r \in Requests, Revoke(r) PROVE OneToken'
    BY <1>13 DEF Revoke, Answer, DenyList, Fails
  <1>14. ASSUME NEW r \in Requests, RevokeAtLogout(r) PROVE OneToken'
    BY <1>14 DEF RevokeAtLogout, DenyList, Fails
  <1>15. ASSUME NEW r \in Requests, Die(r) PROVE OneToken'
    BY <1>15 DEF Die
  <1>16. ASSUME NEW r \in Requests, Lose(r) PROVE OneToken'
    BY <1>16 DEF Lose
  <1>17. ASSUME NEW j \in Tokens, Lapse(j) PROVE OneToken'
    BY <1>17 DEF Lapse
  <1>18. CASE UNCHANGED vars
    BY <1>18 DEF vars
  <1> QED
    BY <1>1, <1>2, <1>3, <1>4, <1>5, <1>6, <1>7, <1>8, <1>9, <1>10, <1>11, <1>12,
       <1>13, <1>14, <1>15, <1>16, <1>17, <1>18
       DEF Next, RefreshStep

(* Pairs are minted in order.                                                *)
LEMMA LaterPairsPreserved ==
    ASSUME TypeOK, LaterPairs, [Next]_vars
    PROVE  LaterPairs'
  <1> USE TokensAssumption DEF TypeOK, ReqRecord, Tokens, None, NoReq, LaterPairs, HasPair
  <1>1. ASSUME NEW r \in Requests, Refresh(r) PROVE LaterPairs'
    BY <1>1 DEF Refresh
  <1>2. ASSUME NEW r \in Requests, Deliver(r) PROVE LaterPairs'
    BY <1>2 DEF Deliver
  <1>3. ASSUME NEW r \in Requests, Logout(r) PROVE LaterPairs'
    BY <1>3 DEF Logout
  <1>4. ASSUME NEW r \in Requests, CheckLive(r) PROVE LaterPairs'
    <2>1. /\ minted' = minted + 1 /\ minted \in Int /\ stored' = stored /\ rotated' = rotated
          /\ req'[r].jti = req[r].jti /\ req'[r].pair = minted + 1
          /\ req[r].jti \in Int /\ req[r].jti <= minted
          /\ \A q \in Requests \ {r} : req'[q] = req[q]
      BY <1>4 DEF CheckLive
    <2>2. \A q \in Requests : req[q].jti \in Int /\ req[q].pair \in Int
      OBVIOUS
    <2>3. \A q \in Requests : req'[q].jti <= minted + 1 /\ req'[q].pair <= minted + 1
      <3> TAKE q \in Requests
      <3>1. CASE q = r
        BY <2>1, <3>1
      <3>2. CASE q # r
        <4>1. req[q].jti <= minted /\ req[q].pair <= minted
          OBVIOUS
        <4> QED
          BY <2>1, <2>2, <3>2, <4>1
      <3> QED
        BY <3>1, <3>2
    <2>4. \A q \in Requests : HasPair(q)' => req'[q].pair > req'[q].jti
      BY <2>1, <2>2
    <2>5. stored' <= minted' /\ \A j \in Tokens : rotated'[j] <= minted' /\ (rotated'[j] # None => rotated'[j] > j)
      BY <2>1
    <2> QED
      BY <2>1, <2>3, <2>4, <2>5
  <1>5. ASSUME NEW r \in Requests, CheckRevoked(r) PROVE LaterPairs'
    BY <1>5 DEF CheckRevoked, Fails
  <1>6. ASSUME NEW r \in Requests, Recall(r) PROVE LaterPairs'
    BY <1>6 DEF Recall, Answer
  <1>7. ASSUME NEW r \in Requests, RecallNothing(r) PROVE LaterPairs'
    BY <1>7 DEF RecallNothing, Refuse, Fails
  <1>8. ASSUME NEW r \in Requests, ClaimWon(r) PROVE LaterPairs'
    BY <1>8 DEF ClaimWon
  <1>9. ASSUME NEW r \in Requests, ClaimLost(r) PROVE LaterPairs'
    BY <1>9 DEF ClaimLost
  <1>10. ASSUME NEW r \in Requests, ClaimFails(r) PROVE LaterPairs'
    BY <1>10 DEF ClaimFails, Fails
  <1>11. ASSUME NEW r \in Requests, Fetch(r) PROVE LaterPairs'
    BY <1>11 DEF Fetch, Answer
  <1>12. ASSUME NEW r \in Requests, FetchNothing(r) PROVE LaterPairs'
    BY <1>12 DEF FetchNothing, Fails
  <1>13. ASSUME NEW r \in Requests, Revoke(r) PROVE LaterPairs'
    BY <1>13 DEF Revoke, Answer, DenyList, Fails
  <1>14. ASSUME NEW r \in Requests, RevokeAtLogout(r) PROVE LaterPairs'
    BY <1>14 DEF RevokeAtLogout, DenyList, Fails
  <1>15. ASSUME NEW r \in Requests, Die(r) PROVE LaterPairs'
    BY <1>15 DEF Die
  <1>16. ASSUME NEW r \in Requests, Lose(r) PROVE LaterPairs'
    BY <1>16 DEF Lose
  <1>17. ASSUME NEW j \in Tokens, Lapse(j) PROVE LaterPairs'
    BY <1>17 DEF Lapse
  <1>18. CASE UNCHANGED vars
    BY <1>18 DEF vars
  <1> QED
    BY <1>1, <1>2, <1>3, <1>4, <1>5, <1>6, <1>7, <1>8, <1>9, <1>10, <1>11, <1>12,
       <1>13, <1>14, <1>15, <1>16, <1>17, <1>18
       DEF Next, RefreshStep

(* A logout is sent before it is at work.                                    *)
LEMMA LogoutSentPreserved ==
    ASSUME TypeOK, LogoutSent, [Next]_vars
    PROVE  LogoutSent'
  <1> USE TokensAssumption DEF TypeOK, ReqRecord, Tokens, None, NoReq, LogoutSent
  <1>1. ASSUME NEW r \in Requests, Refresh(r) PROVE LogoutSent'
    BY <1>1 DEF Refresh
  <1>2. ASSUME NEW r \in Requests, Deliver(r) PROVE LogoutSent'
    BY <1>2 DEF Deliver
  <1>3. ASSUME NEW r \in Requests, Logout(r) PROVE LogoutSent'
    BY <1>3 DEF Logout
  <1>4. ASSUME NEW r \in Requests, CheckLive(r) PROVE LogoutSent'
    BY <1>4 DEF CheckLive
  <1>5. ASSUME NEW r \in Requests, CheckRevoked(r) PROVE LogoutSent'
    BY <1>5 DEF CheckRevoked, Fails
  <1>6. ASSUME NEW r \in Requests, Recall(r) PROVE LogoutSent'
    BY <1>6 DEF Recall, Answer
  <1>7. ASSUME NEW r \in Requests, RecallNothing(r) PROVE LogoutSent'
    BY <1>7 DEF RecallNothing, Refuse, Fails
  <1>8. ASSUME NEW r \in Requests, ClaimWon(r) PROVE LogoutSent'
    BY <1>8 DEF ClaimWon
  <1>9. ASSUME NEW r \in Requests, ClaimLost(r) PROVE LogoutSent'
    BY <1>9 DEF ClaimLost
  <1>10. ASSUME NEW r \in Requests, ClaimFails(r) PROVE LogoutSent'
    BY <1>10 DEF ClaimFails, Fails
  <1>11. ASSUME NEW r \in Requests, Fetch(r) PROVE LogoutSent'
    BY <1>11 DEF Fetch, Answer
  <1>12. ASSUME NEW r \in Requests, FetchNothing(r) PROVE LogoutSent'
    BY <1>12 DEF FetchNothing, Fails
  <1>13. ASSUME NEW r \in Requests, Revoke(r) PROVE LogoutSent'
    BY <1>13 DEF Revoke, Answer, DenyList, Fails
  <1>14. ASSUME NEW r \in Requests, RevokeAtLogout(r) PROVE LogoutSent'
    BY <1>14 DEF RevokeAtLogout, DenyList, Fails
  <1>15. ASSUME NEW r \in Requests, Die(r) PROVE LogoutSent'
    BY <1>15 DEF Die
  <1>16. ASSUME NEW r \in Requests, Lose(r) PROVE LogoutSent'
    BY <1>16 DEF Lose
  <1>17. ASSUME NEW j \in Tokens, Lapse(j) PROVE LogoutSent'
    BY <1>17 DEF Lapse
  <1>18. CASE UNCHANGED vars
    BY <1>18 DEF vars
  <1> QED
    BY <1>1, <1>2, <1>3, <1>4, <1>5, <1>6, <1>7, <1>8, <1>9, <1>10, <1>11, <1>12,
       <1>13, <1>14, <1>15, <1>16, <1>17, <1>18
       DEF Next, RefreshStep

(* What the app stores next is newer than what it has exchanged.             *)
LEMMA ForwardPreserved ==
    ASSUME TypeOK, OneToken, LaterPairs, LogoutSent, Forward, [Next]_vars
    PROVE  Forward'
  <1> USE TokensAssumption DEF TypeOK, ReqRecord, Tokens, None, NoReq, OneToken, LaterPairs, LogoutSent, Forward, Past, Working, HasPair
  <1>1. ASSUME NEW r \in Requests, Refresh(r) PROVE Forward'
    BY <1>1 DEF Refresh
  <1>2. ASSUME NEW r \in Requests, Deliver(r) PROVE Forward'
    BY <1>2 DEF Deliver
  <1>3. ASSUME NEW r \in Requests, Logout(r) PROVE Forward'
    BY <1>3 DEF Logout
  <1>4. ASSUME NEW r \in Requests, CheckLive(r) PROVE Forward'
    BY <1>4 DEF CheckLive
  <1>5. ASSUME NEW r \in Requests, CheckRevoked(r) PROVE Forward'
    BY <1>5 DEF CheckRevoked, Fails
  <1>6. ASSUME NEW r \in Requests, Recall(r) PROVE Forward'
    BY <1>6 DEF Recall, Answer
  <1>7. ASSUME NEW r \in Requests, RecallNothing(r) PROVE Forward'
    BY <1>7 DEF RecallNothing, Refuse, Fails
  <1>8. ASSUME NEW r \in Requests, ClaimWon(r) PROVE Forward'
    BY <1>8 DEF ClaimWon
  <1>9. ASSUME NEW r \in Requests, ClaimLost(r) PROVE Forward'
    BY <1>9 DEF ClaimLost
  <1>10. ASSUME NEW r \in Requests, ClaimFails(r) PROVE Forward'
    BY <1>10 DEF ClaimFails, Fails
  <1>11. ASSUME NEW r \in Requests, Fetch(r) PROVE Forward'
    BY <1>11 DEF Fetch, Answer
  <1>12. ASSUME NEW r \in Requests, FetchNothing(r) PROVE Forward'
    BY <1>12 DEF FetchNothing, Fails
  <1>13. ASSUME NEW r \in Requests, Revoke(r) PROVE Forward'
    BY <1>13 DEF Revoke, Answer, DenyList, Fails
  <1>14. ASSUME NEW r \in Requests, RevokeAtLogout(r) PROVE Forward'
    BY <1>14 DEF RevokeAtLogout, DenyList, Fails
  <1>15. ASSUME NEW r \in Requests, Die(r) PROVE Forward'
    BY <1>15 DEF Die
  <1>16. ASSUME NEW r \in Requests, Lose(r) PROVE Forward'
    BY <1>16 DEF Lose
  <1>17. ASSUME NEW j \in Tokens, Lapse(j) PROVE Forward'
    BY <1>17 DEF Lapse
  <1>18. CASE UNCHANGED vars
    BY <1>18 DEF vars
  <1> QED
    BY <1>1, <1>2, <1>3, <1>4, <1>5, <1>6, <1>7, <1>8, <1>9, <1>10, <1>11, <1>12,
       <1>13, <1>14, <1>15, <1>16, <1>17, <1>18
       DEF Next, RefreshStep

(* Only a revoked token is recalled.                                         *)
LEMMA RecallsPreserved ==
    ASSUME TypeOK, RecallsRevoked, [Next]_vars
    PROVE  RecallsRevoked'
  <1> USE TokensAssumption DEF TypeOK, ReqRecord, Tokens, None, NoReq, RecallsRevoked
  <1>1. ASSUME NEW r \in Requests, Refresh(r) PROVE RecallsRevoked'
    BY <1>1 DEF Refresh
  <1>2. ASSUME NEW r \in Requests, Deliver(r) PROVE RecallsRevoked'
    BY <1>2 DEF Deliver
  <1>3. ASSUME NEW r \in Requests, Logout(r) PROVE RecallsRevoked'
    BY <1>3 DEF Logout
  <1>4. ASSUME NEW r \in Requests, CheckLive(r) PROVE RecallsRevoked'
    BY <1>4 DEF CheckLive
  <1>5. ASSUME NEW r \in Requests, CheckRevoked(r) PROVE RecallsRevoked'
    BY <1>5 DEF CheckRevoked, Fails
  <1>6. ASSUME NEW r \in Requests, Recall(r) PROVE RecallsRevoked'
    BY <1>6 DEF Recall, Answer
  <1>7. ASSUME NEW r \in Requests, RecallNothing(r) PROVE RecallsRevoked'
    BY <1>7 DEF RecallNothing, Refuse, Fails
  <1>8. ASSUME NEW r \in Requests, ClaimWon(r) PROVE RecallsRevoked'
    BY <1>8 DEF ClaimWon
  <1>9. ASSUME NEW r \in Requests, ClaimLost(r) PROVE RecallsRevoked'
    BY <1>9 DEF ClaimLost
  <1>10. ASSUME NEW r \in Requests, ClaimFails(r) PROVE RecallsRevoked'
    BY <1>10 DEF ClaimFails, Fails
  <1>11. ASSUME NEW r \in Requests, Fetch(r) PROVE RecallsRevoked'
    BY <1>11 DEF Fetch, Answer
  <1>12. ASSUME NEW r \in Requests, FetchNothing(r) PROVE RecallsRevoked'
    BY <1>12 DEF FetchNothing, Fails
  <1>13. ASSUME NEW r \in Requests, Revoke(r) PROVE RecallsRevoked'
    BY <1>13 DEF Revoke, Answer, DenyList, Fails
  <1>14. ASSUME NEW r \in Requests, RevokeAtLogout(r) PROVE RecallsRevoked'
    BY <1>14 DEF RevokeAtLogout, DenyList, Fails
  <1>15. ASSUME NEW r \in Requests, Die(r) PROVE RecallsRevoked'
    BY <1>15 DEF Die
  <1>16. ASSUME NEW r \in Requests, Lose(r) PROVE RecallsRevoked'
    BY <1>16 DEF Lose
  <1>17. ASSUME NEW j \in Tokens, Lapse(j) PROVE RecallsRevoked'
    BY <1>17 DEF Lapse
  <1>18. CASE UNCHANGED vars
    BY <1>18 DEF vars
  <1> QED
    BY <1>1, <1>2, <1>3, <1>4, <1>5, <1>6, <1>7, <1>8, <1>9, <1>10, <1>11, <1>12,
       <1>13, <1>14, <1>15, <1>16, <1>17, <1>18
       DEF Next, RefreshStep

(* The request that claimed a token revokes it.                              *)
LEMMA RevokeDuePreserved ==
    ASSUME TypeOK, RecallsRevoked, RevokeDue, Kept, [Next]_vars
    PROVE  RevokeDue'
  <1> USE TokensAssumption DEF TypeOK, ReqRecord, Tokens, None, NoReq, RecallsRevoked, RevokeDue
  <1>1. ASSUME NEW r \in Requests, Refresh(r) PROVE RevokeDue'
    BY <1>1 DEF Refresh
  <1>2. ASSUME NEW r \in Requests, Deliver(r) PROVE RevokeDue'
    BY <1>2 DEF Deliver
  <1>3. ASSUME NEW r \in Requests, Logout(r) PROVE RevokeDue'
    BY <1>3 DEF Logout
  <1>4. ASSUME NEW r \in Requests, CheckLive(r) PROVE RevokeDue'
    BY <1>4 DEF CheckLive
  <1>5. ASSUME NEW r \in Requests, CheckRevoked(r) PROVE RevokeDue'
    BY <1>5 DEF CheckRevoked, Fails
  <1>6. ASSUME NEW r \in Requests, Recall(r) PROVE RevokeDue'
    BY <1>6 DEF Recall, Answer
  <1>7. ASSUME NEW r \in Requests, RecallNothing(r) PROVE RevokeDue'
    BY <1>7 DEF RecallNothing, Refuse, Fails
  <1>8. ASSUME NEW r \in Requests, ClaimWon(r) PROVE RevokeDue'
    BY <1>8 DEF ClaimWon
  <1>9. ASSUME NEW r \in Requests, ClaimLost(r) PROVE RevokeDue'
    BY <1>9 DEF ClaimLost
  <1>10. ASSUME NEW r \in Requests, ClaimFails(r) PROVE RevokeDue'
    BY <1>10 DEF ClaimFails, Fails
  <1>11. ASSUME NEW r \in Requests, Fetch(r) PROVE RevokeDue'
    BY <1>11 DEF Fetch, Answer
  <1>12. ASSUME NEW r \in Requests, FetchNothing(r) PROVE RevokeDue'
    BY <1>12 DEF FetchNothing, Fails
  <1>13. ASSUME NEW r \in Requests, Revoke(r) PROVE RevokeDue'
    <2> SUFFICES ASSUME happened' \cap {"redis", "crash"} = {}, NEW j \in Tokens,
                        (rotated[j] # None \/ heirs[j] # {})'
                 PROVE  (j \in revoked \/ \E q \in Requests : req[q].pc = "revoke" /\ req[q].jti = j)'
      BY DEF RevokeDue
    <2>1. happened' = happened /\ revoked' = revoked \cup {req[r].jti}
      BY <1>13 DEF Revoke, DenyList, Fails
    <2>2. CASE j = req[r].jti
      BY <2>1, <2>2
    <2>3. CASE j # req[r].jti
      <3>1. rotated'[j] = rotated[j] /\ heirs'[j] = heirs[j]
        BY <1>13, <2>3 DEF Revoke, Answer
      <3>2. \A q \in Requests : q # r => req'[q] = req[q]
        BY <1>13 DEF Revoke, Answer
      <3> QED
        BY <2>1, <2>3, <3>1, <3>2
    <2> QED
      BY <2>2, <2>3
  <1>14. ASSUME NEW r \in Requests, RevokeAtLogout(r) PROVE RevokeDue'
    BY <1>14 DEF RevokeAtLogout, DenyList, Fails
  <1>15. ASSUME NEW r \in Requests, Die(r) PROVE RevokeDue'
    BY <1>15 DEF Die
  <1>16. ASSUME NEW r \in Requests, Lose(r) PROVE RevokeDue'
    BY <1>16 DEF Lose
  <1>17. ASSUME NEW j \in Tokens, Lapse(j) PROVE RevokeDue'
    BY <1>17 DEF Lapse
  <1>18. CASE UNCHANGED vars
    BY <1>18 DEF vars
  <1> QED
    BY <1>1, <1>2, <1>3, <1>4, <1>5, <1>6, <1>7, <1>8, <1>9, <1>10, <1>11, <1>12,
       <1>13, <1>14, <1>15, <1>16, <1>17, <1>18
       DEF Next, RefreshStep

(* Records outlive the requests that need them.                              *)
LEMMA KeptPreserved ==
    ASSUME TypeOK, OneToken, LaterPairs, LogoutSent, Forward, RecallsRevoked, Kept, [Next]_vars
    PROVE  Kept'
  <1> USE TokensAssumption DEF TypeOK, ReqRecord, Tokens, None, NoReq, OneToken, LaterPairs, LogoutSent, Forward, Past, Working, HasPair, Kept, Recorded, RecallsRevoked
  <1>1. ASSUME NEW r \in Requests, Refresh(r) PROVE Kept'
    BY <1>1 DEF Refresh
  <1>2. ASSUME NEW r \in Requests, Deliver(r) PROVE Kept'
    BY <1>2 DEF Deliver
  <1>3. ASSUME NEW r \in Requests, Logout(r) PROVE Kept'
    BY <1>3 DEF Logout
  <1>4. ASSUME NEW r \in Requests, CheckLive(r) PROVE Kept'
    BY <1>4 DEF CheckLive
  <1>5. ASSUME NEW r \in Requests, CheckRevoked(r) PROVE Kept'
    BY <1>5 DEF CheckRevoked, Fails
  <1>6. ASSUME NEW r \in Requests, Recall(r) PROVE Kept'
    BY <1>6 DEF Recall, Answer
  <1>7. ASSUME NEW r \in Requests, RecallNothing(r) PROVE Kept'
    BY <1>7 DEF RecallNothing, Refuse, Fails
  <1>8. ASSUME NEW r \in Requests, ClaimWon(r) PROVE Kept'
    BY <1>8 DEF ClaimWon
  <1>9. ASSUME NEW r \in Requests, ClaimLost(r) PROVE Kept'
    BY <1>9 DEF ClaimLost
  <1>10. ASSUME NEW r \in Requests, ClaimFails(r) PROVE Kept'
    BY <1>10 DEF ClaimFails, Fails
  <1>11. ASSUME NEW r \in Requests, Fetch(r) PROVE Kept'
    BY <1>11 DEF Fetch, Answer
  <1>12. ASSUME NEW r \in Requests, FetchNothing(r) PROVE Kept'
    BY <1>12 DEF FetchNothing, Fails
  <1>13. ASSUME NEW r \in Requests, Revoke(r) PROVE Kept'
    BY <1>13 DEF Revoke, Answer, DenyList, Fails
  <1>14. ASSUME NEW r \in Requests, RevokeAtLogout(r) PROVE Kept'
    BY <1>14 DEF RevokeAtLogout, DenyList, Fails
  <1>15. ASSUME NEW r \in Requests, Die(r) PROVE Kept'
    BY <1>15 DEF Die
  <1>16. ASSUME NEW r \in Requests, Lose(r) PROVE Kept'
    BY <1>16 DEF Lose
  <1>17. ASSUME NEW j \in Tokens, Lapse(j) PROVE Kept'
    <2> SUFFICES ASSUME happened' \cap {"redis", "slow"} = {} PROVE Kept'
      OBVIOUS
    <2>1. /\ happened' = happened /\ stored # j
          /\ \A r \in Requests : ~Presents(r, j)
      BY <1>17 DEF Lapse
    <2>2. /\ UNCHANGED <<stored, revoked, req, heirs, loggedOut>>
          /\ rotated' = [rotated EXCEPT ![j] = None]
      BY <1>17 DEF Lapse
    <2>3. \A r \in Requests : Working(r) => req[r].jti # j
      BY <2>1 DEF Presents
    <2>4. /\ \A r \in Requests : req'[r].pc = "fetch" => rotated'[req'[r].jti] # None
          /\ \A r \in Requests : req'[r].pc = "revoke" => rotated'[req'[r].jti] = req'[r].pair
      BY <2>1, <2>2, <2>3
    <2>5. \A k \in Tokens : k # j => Recorded(k)'
      BY <2>1, <2>2
    <2>6. Recorded(j)'
      BY <2>1, <2>2, <2>3
    <2> QED
      BY <2>4, <2>5, <2>6
  <1>18. CASE UNCHANGED vars
    BY <1>18 DEF vars
  <1> QED
    BY <1>1, <1>2, <1>3, <1>4, <1>5, <1>6, <1>7, <1>8, <1>9, <1>10, <1>11, <1>12,
       <1>13, <1>14, <1>15, <1>16, <1>17, <1>18
       DEF Next, RefreshStep

(* Under the records, two requests are never answered differently.           *)
LEMMA OneHeirPreserved ==
    ASSUME TypeOK, Kept, OneHeir, [Next]_vars
    PROVE  OneHeir'
  <1> USE TokensAssumption DEF TypeOK, ReqRecord, Tokens, None, NoReq, Kept, Recorded, Past, Working, OneHeir
  <1>1. ASSUME NEW r \in Requests, Refresh(r) PROVE OneHeir'
    BY <1>1 DEF Refresh
  <1>2. ASSUME NEW r \in Requests, Deliver(r) PROVE OneHeir'
    BY <1>2 DEF Deliver
  <1>3. ASSUME NEW r \in Requests, Logout(r) PROVE OneHeir'
    BY <1>3 DEF Logout
  <1>4. ASSUME NEW r \in Requests, CheckLive(r) PROVE OneHeir'
    BY <1>4 DEF CheckLive
  <1>5. ASSUME NEW r \in Requests, CheckRevoked(r) PROVE OneHeir'
    BY <1>5 DEF CheckRevoked, Fails
  <1>6. ASSUME NEW r \in Requests, Recall(r) PROVE OneHeir'
    BY <1>6 DEF Recall, Answer
  <1>7. ASSUME NEW r \in Requests, RecallNothing(r) PROVE OneHeir'
    BY <1>7 DEF RecallNothing, Refuse, Fails
  <1>8. ASSUME NEW r \in Requests, ClaimWon(r) PROVE OneHeir'
    BY <1>8 DEF ClaimWon
  <1>9. ASSUME NEW r \in Requests, ClaimLost(r) PROVE OneHeir'
    BY <1>9 DEF ClaimLost
  <1>10. ASSUME NEW r \in Requests, ClaimFails(r) PROVE OneHeir'
    BY <1>10 DEF ClaimFails, Fails
  <1>11. ASSUME NEW r \in Requests, Fetch(r) PROVE OneHeir'
    BY <1>11 DEF Fetch, Answer
  <1>12. ASSUME NEW r \in Requests, FetchNothing(r) PROVE OneHeir'
    BY <1>12 DEF FetchNothing, Fails
  <1>13. ASSUME NEW r \in Requests, Revoke(r) PROVE OneHeir'
    BY <1>13 DEF Revoke, Answer, DenyList, Fails
  <1>14. ASSUME NEW r \in Requests, RevokeAtLogout(r) PROVE OneHeir'
    BY <1>14 DEF RevokeAtLogout, DenyList, Fails
  <1>15. ASSUME NEW r \in Requests, Die(r) PROVE OneHeir'
    BY <1>15 DEF Die
  <1>16. ASSUME NEW r \in Requests, Lose(r) PROVE OneHeir'
    BY <1>16 DEF Lose
  <1>17. ASSUME NEW j \in Tokens, Lapse(j) PROVE OneHeir'
    BY <1>17 DEF Lapse
  <1>18. CASE UNCHANGED vars
    BY <1>18 DEF vars
  <1> QED
    BY <1>1, <1>2, <1>3, <1>4, <1>5, <1>6, <1>7, <1>8, <1>9, <1>10, <1>11, <1>12,
       <1>13, <1>14, <1>15, <1>16, <1>17, <1>18
       DEF Next, RefreshStep

(* A request that finds its token revoked finds the token's record, or the   *)
(* user has left.                                                            *)
LEMMA NotSignedOutPreserved ==
    ASSUME TypeOK, Kept, LogoutSent, RecallsRevoked, NotSignedOut, [Next]_vars
    PROVE  NotSignedOut'
  <1> USE TokensAssumption DEF TypeOK, ReqRecord, Tokens, None, NoReq, Kept, Recorded, Past, Working, LogoutSent, RecallsRevoked, NotSignedOut
  <1>1. ASSUME NEW r \in Requests, Refresh(r) PROVE NotSignedOut'
    BY <1>1 DEF Refresh
  <1>2. ASSUME NEW r \in Requests, Deliver(r) PROVE NotSignedOut'
    BY <1>2 DEF Deliver
  <1>3. ASSUME NEW r \in Requests, Logout(r) PROVE NotSignedOut'
    BY <1>3 DEF Logout
  <1>4. ASSUME NEW r \in Requests, CheckLive(r) PROVE NotSignedOut'
    BY <1>4 DEF CheckLive
  <1>5. ASSUME NEW r \in Requests, CheckRevoked(r) PROVE NotSignedOut'
    BY <1>5 DEF CheckRevoked, Fails
  <1>6. ASSUME NEW r \in Requests, Recall(r) PROVE NotSignedOut'
    BY <1>6 DEF Recall, Answer
  <1>7. ASSUME NEW r \in Requests, RecallNothing(r) PROVE NotSignedOut'
    BY <1>7 DEF RecallNothing, Refuse, Fails
  <1>8. ASSUME NEW r \in Requests, ClaimWon(r) PROVE NotSignedOut'
    BY <1>8 DEF ClaimWon
  <1>9. ASSUME NEW r \in Requests, ClaimLost(r) PROVE NotSignedOut'
    BY <1>9 DEF ClaimLost
  <1>10. ASSUME NEW r \in Requests, ClaimFails(r) PROVE NotSignedOut'
    BY <1>10 DEF ClaimFails, Fails
  <1>11. ASSUME NEW r \in Requests, Fetch(r) PROVE NotSignedOut'
    BY <1>11 DEF Fetch, Answer
  <1>12. ASSUME NEW r \in Requests, FetchNothing(r) PROVE NotSignedOut'
    BY <1>12 DEF FetchNothing, Fails
  <1>13. ASSUME NEW r \in Requests, Revoke(r) PROVE NotSignedOut'
    BY <1>13 DEF Revoke, Answer, DenyList, Fails
  <1>14. ASSUME NEW r \in Requests, RevokeAtLogout(r) PROVE NotSignedOut'
    BY <1>14 DEF RevokeAtLogout, DenyList, Fails
  <1>15. ASSUME NEW r \in Requests, Die(r) PROVE NotSignedOut'
    BY <1>15 DEF Die
  <1>16. ASSUME NEW r \in Requests, Lose(r) PROVE NotSignedOut'
    BY <1>16 DEF Lose
  <1>17. ASSUME NEW j \in Tokens, Lapse(j) PROVE NotSignedOut'
    BY <1>17 DEF Lapse
  <1>18. CASE UNCHANGED vars
    BY <1>18 DEF vars
  <1> QED
    BY <1>1, <1>2, <1>3, <1>4, <1>5, <1>6, <1>7, <1>8, <1>9, <1>10, <1>11, <1>12,
       <1>13, <1>14, <1>15, <1>16, <1>17, <1>18
       DEF Next, RefreshStep

-----------------------------------------------------------------------------
(* Login's token, and nothing else yet.                                      *)
LEMMA Inits == Init => IInv
  <1> SUFFICES ASSUME Init PROVE IInv
    OBVIOUS
  <1> USE TokensAssumption DEF Init, Tokens, None, NoReq
  <1>1. TypeOK
    <2>1. req \in [Requests -> ReqRecord] /\ \A r \in Requests : req[r].pc = "idle"
      BY DEF ReqRecord
    <2>2. rotated \in [Tokens -> Tokens \cup {None}] /\ heirs \in [Tokens -> SUBSET Tokens]
      OBVIOUS
    <2>3. minted \in Tokens /\ stored \in Tokens /\ revoked \subseteq Tokens /\ happened \subseteq Faults
      OBVIOUS
    <2>4. loggedOut \in BOOLEAN
      OBVIOUS
    <2> QED
      BY <2>1, <2>2, <2>3, <2>4 DEF TypeOK
  <1>2. OneToken /\ LogoutSent /\ RecallsRevoked
    BY DEF OneToken, Working, LogoutSent, RecallsRevoked
  <1>3. LaterPairs
    BY DEF LaterPairs, HasPair
  <1>4. Forward /\ Kept
    BY DEF Forward, Kept, Recorded, Past, Working
  <1>5. RevokeDue /\ OneHeir /\ NotSignedOut
    BY DEF RevokeDue, OneHeir, NotSignedOut
  <1> QED
    BY <1>1, <1>2, <1>3, <1>4, <1>5 DEF IInv

(* The strengthened invariant: the app only moves forward along the chain,   *)
(* and a record outlives every request that may still need it.               *)
THEOREM Inductive == Spec => []IInv
  <1>1. IInv /\ [Next]_vars => IInv'
    BY TypePreserved, OneTokenPreserved, LaterPairsPreserved, LogoutSentPreserved, ForwardPreserved,
       KeptPreserved, RecallsPreserved, RevokeDuePreserved, OneHeirPreserved, NotSignedOutPreserved
       DEF IInv
  <1> QED
    BY Inits, <1>1, PTL DEF Spec

(* Requests, tokens, the denylist and the rotation records keep their types. *)
THEOREM TypeCorrect == Spec => []TypeOK
  <1>1. IInv => TypeOK
    BY DEF IInv
  <1> QED
    BY Inductive, <1>1, PTL

(* Both isolates end on the same pair (claim_rotation), for any number of    *)
(* simultaneous refreshes, lost answers and dead processes.                  *)
THEOREM Converges == Spec => []OneHeir
  <1>1. IInv => OneHeir
    BY DEF IInv
  <1> QED
    BY Inductive, <1>1, PTL

(* No race of refreshes signs the helper out.                                *)
THEOREM StaysSignedIn == Spec => []NotSignedOut
  <1>1. IInv => NotSignedOut
    BY DEF IInv
  <1> QED
    BY Inductive, <1>1, PTL

(* A refresh token that was exchanged is spent: it does not outlive the      *)
(* requests that presented it.                                               *)
THEOREM Spent == Spec => []ExchangedIsRevoked
  <1>1. IInv => ExchangedIsRevoked
    BY DEF IInv, RevokeDue, ExchangedIsRevoked, Presents
  <1> QED
    BY Inductive, <1>1, PTL

-----------------------------------------------------------------------------
(* Sessions implements Succession.  While Redis answers and no retry is      *)
(* slow, what the app holds is what its requests present, or what that was   *)
(* exchanged for; and an answer on its way carries an heir.                  *)
OnChain == Sound =>
    /\ \A r \in Requests : Working(r) =>
          stored = None \/ stored = req[r].jti \/ stored \in heirs[req[r].jti]
    /\ \A r \in Requests : req[r].pc = "answered" => req[r].pair \in heirs[req[r].jti]

(* An answer is an exchange, or repeats one.                                 *)
LEMMA AnswerExchanges ==
    ASSUME Sound, Sound', IInv, IInv', OnChain, NEW r \in Requests, NEW k \in Tokens,
           req[r].pc \in {"recall", "fetch", "revoke"}, k > req[r].jti,
           Answer(r, k), UNCHANGED <<stored, loggedOut>>
    PROVE  OnChain' /\ [S!Next]_(S!svars)
  <1> DEFINE j == req[r].jti
  <1>1. /\ j \in Tokens /\ Working(r) /\ happened \cap {"redis", "slow"} = {}
        /\ happened' \cap {"redis", "slow"} = {}
        /\ heirs \in [Tokens -> SUBSET Tokens] /\ req \in [Requests -> ReqRecord]
    BY DEF Sound, IInv, TypeOK, Working
  <1>2. heirs' = [heirs EXCEPT ![j] = @ \cup {k}]
        /\ req' = [req EXCEPT ![r] = [pc |-> "answered", jti |-> j, pair |-> k]]
    BY DEF Answer
  <1>3. /\ heirs'[j] = heirs[j] \cup {k} /\ \A i \in Tokens : i # j => heirs'[i] = heirs[i]
        /\ req'[r].pc = "answered" /\ req'[r].jti = j /\ req'[r].pair = k
        /\ \A q \in Requests : q # r => req'[q] = req[q]
    BY <1>1, <1>2
  <1>4. OnChain'
    <2>1. ASSUME NEW q \in Requests, Working(q)'
          PROVE  stored' = None \/ stored' = req'[q].jti \/ stored' \in heirs'[req'[q].jti]
      <3>1. Working(q) /\ req'[q].jti = req[q].jti
        BY <1>1, <1>3, <2>1 DEF Working
      <3>2. req[q].jti = j
        BY <1>1, <3>1 DEF IInv, OneToken
      <3> QED
        BY <1>3, <3>1, <3>2 DEF OnChain
    <2>2. ASSUME NEW q \in Requests, req'[q].pc = "answered"
          PROVE  req'[q].pair \in heirs'[req'[q].jti]
      <3>1. CASE q = r
        BY <1>3, <3>1
      <3>2. CASE q # r
        <4>1. Working(q) /\ req[q].pair \in heirs[req[q].jti] /\ req'[q] = req[q]
          BY <1>3, <2>2, <3>2 DEF OnChain, Working
        <4>2. req[q].jti = j
          BY <1>1, <4>1 DEF IInv, OneToken
        <4> QED
          BY <1>3, <4>1, <4>2
      <3> QED
        BY <3>1, <3>2
    <2> QED
      BY <2>1, <2>2 DEF OnChain
  <1>5. CASE heirs[j] = {}
    <2>1. stored = None \/ stored = j
      BY <1>1, <1>5 DEF OnChain
    <2>2. stored = None => loggedOut
      BY <1>1 DEF IInv, NotSignedOut
    <2>3. heirs' = [heirs EXCEPT ![j] = {k}]
      BY <1>2, <1>5
    <2>4. S!Exchange(j)
      BY <1>1, <1>5, <2>1, <2>2, <2>3 DEF S!Exchange, S!Holds
    <2> QED
      BY <1>1, <1>4, <2>4 DEF S!Next
  <1>6. CASE heirs[j] # {}
    <2>1. \A x, y \in heirs'[j] : x = y
      BY <1>1 DEF IInv, OneHeir
    <2>2. heirs'[j] = heirs[j]
      BY <1>3, <1>6, <2>1
    <2>3. \A i \in Tokens : heirs'[i] = heirs[i]
      BY <1>3, <2>2
    <2>4. heirs' \in [Tokens -> SUBSET Tokens]
      BY DEF IInv, TypeOK
    <2>5. heirs' = heirs
      BY ONLY <1>1, <2>3, <2>4
    <2> QED
      BY <1>4, <2>5 DEF S!svars
  <1> QED
    BY <1>5, <1>6

(* An answer that arrives takes the app one token on, or changes nothing.    *)
LEMMA DeliverAdopts ==
    ASSUME Sound, Sound', IInv, OnChain, NEW r \in Requests, Deliver(r)
    PROVE  OnChain' /\ [S!Next]_(S!svars)
  <1> DEFINE j == req[r].jti
             k == req[r].pair
  <1>1. /\ req[r].pc = "answered" /\ stored' = k /\ req' = [req EXCEPT ![r] = NoReq]
        /\ UNCHANGED <<heirs, loggedOut>> /\ req \in [Requests -> ReqRecord]
    BY DEF Deliver, IInv, TypeOK
  <1>2. /\ j \in Tokens /\ k \in Tokens /\ k \in heirs[j] /\ Working(r) /\ k > j
        /\ happened \cap {"redis", "slow"} = {}
    BY <1>1 DEF Sound, IInv, TypeOK, OnChain, Working, LaterPairs, HasPair
  <1>3. OnChain'
    <2>1. ASSUME NEW q \in Requests, Working(q)' PROVE Working(q) /\ req'[q] = req[q] /\ req[q].jti = j
      <3>1. q # r
        BY <1>1, <2>1 DEF Working, NoReq
      <3>2. req'[q] = req[q] /\ Working(q)
        BY <1>1, <2>1, <3>1 DEF Working
      <3> QED
        BY <1>2, <3>2 DEF IInv, OneToken
    <2>2. \A q \in Requests : Working(q)' => stored' \in heirs'[req'[q].jti]
      BY <1>1, <1>2, <2>1
    <2>3. \A q \in Requests : req'[q].pc = "answered" => req'[q].pair \in heirs'[req'[q].jti]
      BY <1>1, <2>1 DEF OnChain, Working
    <2> QED
      BY <2>2, <2>3 DEF OnChain
  <1>4. heirs[k] = {}
    <2>1. ~Past(k)
      <3>1. ~(j >= k)
        BY <1>2, TokensAssumption DEF Tokens
      <3> QED
        BY <1>2, <3>1 DEF IInv, Forward
    <2> QED
      BY <2>1 DEF Past
  <1>5. CASE stored \in heirs[j]
    <2>1. stored = k
      BY <1>2, <1>5 DEF IInv, OneHeir
    <2> QED
      BY <1>1, <1>3, <2>1 DEF S!svars
  <1>6. CASE stored = None \/ stored = j
    <2>1. stored = None => loggedOut
      BY <1>2 DEF IInv, NotSignedOut
    <2>2. S!Adopt(j)
      BY <1>1, <1>2, <1>4, <1>6, <2>1 DEF S!Adopt, S!Holds
    <2> QED
      BY <1>2, <1>3, <2>2 DEF S!Next
  <1> QED
    BY <1>2, <1>5, <1>6 DEF OnChain

(* Nothing else touches the chain.                                           *)
LEMMA ChainStep ==
    ASSUME Sound, Sound', IInv, IInv', OnChain, [Next]_vars
    PROVE  OnChain' /\ [S!Next]_(S!svars)
  <1>t. /\ req \in [Requests -> ReqRecord] /\ rotated \in [Tokens -> Tokens \cup {None}]
        /\ \A r \in Requests : req[r].pc # "idle" => req[r].jti \in Tokens
        /\ happened \cap {"redis", "slow"} = {} /\ "redis" \notin happened'
    BY DEF IInv, TypeOK, Sound
  <1>1. ASSUME UNCHANGED <<heirs, stored, loggedOut>>,
               \A q \in Requests : Working(q)' => Working(q) /\ req'[q].jti = req[q].jti,
               \A q \in Requests : req'[q].pc = "answered" => req'[q] = req[q]
        PROVE  OnChain' /\ [S!Next]_(S!svars)
    BY <1>1 DEF OnChain, S!svars
  <1>2. ASSUME NEW r \in Requests, Refresh(r) PROVE OnChain' /\ [S!Next]_(S!svars)
    <2>1. /\ \A q \in Requests : q # r => req'[q] = req[q]
          /\ req'[r].pc = "check" /\ req'[r].jti = stored
          /\ UNCHANGED <<heirs, stored, loggedOut>>
      BY <1>2, <1>t DEF Refresh
    <2>2. OnChain'
      BY <2>1 DEF OnChain, Working
    <2> QED
      BY <2>1, <2>2 DEF S!svars
  <1>3. ASSUME NEW r \in Requests, Deliver(r) PROVE OnChain' /\ [S!Next]_(S!svars)
    BY <1>3, DeliverAdopts
  <1>4. ASSUME NEW r \in Requests, Logout(r) PROVE OnChain' /\ [S!Next]_(S!svars)
    <2>1. /\ \A q \in Requests : q # r => req'[q] = req[q]
          /\ req'[r].pc = "logout" /\ stored' = None /\ loggedOut' = TRUE /\ heirs' = heirs
      BY <1>4, <1>t DEF Logout
    <2>2. OnChain'
      BY <2>1 DEF OnChain
    <2> QED
      BY <2>1, <2>2 DEF S!Next, S!Leave
  <1>5. ASSUME NEW r \in Requests, CheckLive(r) \/ CheckRevoked(r) \/ ClaimWon(r) \/ ClaimLost(r)
                                  \/ ClaimFails(r) \/ FetchNothing(r)
        PROVE  OnChain' /\ [S!Next]_(S!svars)
    <2>1. /\ UNCHANGED <<heirs, stored, loggedOut>>
          /\ \A q \in Requests : q # r => req'[q] = req[q]
          /\ Working(r) /\ req'[r].jti = req[r].jti /\ req'[r].pc # "answered"
      BY <1>5, <1>t DEF CheckLive, CheckRevoked, ClaimWon, ClaimLost, ClaimFails, FetchNothing,
                       Working, ReqRecord
    <2> QED
      BY <1>1, <2>1 DEF Working
  <1>6. ASSUME NEW r \in Requests, Recall(r) \/ Fetch(r) PROVE OnChain' /\ [S!Next]_(S!svars)
    <2>1. /\ req[r].pc \in {"recall", "fetch"} /\ rotated[req[r].jti] # None
          /\ Answer(r, rotated[req[r].jti]) /\ UNCHANGED <<stored, loggedOut>>
      BY <1>6 DEF Recall, Fetch
    <2>2. PICK k \in Tokens : k = rotated[req[r].jti]
      BY <1>t, <2>1
    <2>3. k > req[r].jti
      BY <1>t, <2>1, <2>2 DEF IInv, LaterPairs
    <2> QED
      BY <2>1, <2>2, <2>3, AnswerExchanges
  <1>7. ASSUME NEW r \in Requests, Revoke(r) PROVE OnChain' /\ [S!Next]_(S!svars)
    <2>1. req[r].pc = "revoke" /\ Answer(r, req[r].pair) /\ UNCHANGED <<stored, loggedOut>>
      BY <1>7 DEF Revoke
    <2>2. PICK k \in Tokens : k = req[r].pair
      BY <2>1 DEF IInv, TypeOK
    <2>3. k > req[r].jti
      BY <2>1, <2>2 DEF IInv, LaterPairs, HasPair
    <2> QED
      BY <2>1, <2>2, <2>3, AnswerExchanges
  <1>8. ASSUME NEW r \in Requests, RecallNothing(r) PROVE OnChain' /\ [S!Next]_(S!svars)
    <2>1. /\ \A q \in Requests : q # r => req'[q] = req[q]
          /\ req'[r].pc = "idle" /\ stored' = None /\ UNCHANGED <<heirs, loggedOut>>
          /\ happened' = happened
      BY <1>8, <1>t DEF RecallNothing, Refuse, NoReq, Fails
    <2>2. OnChain'
      BY <2>1 DEF OnChain, Working
    <2>3. loggedOut' = TRUE
      BY <1>t, <2>1 DEF IInv, TypeOK, NotSignedOut
    <2> QED
      BY <2>1, <2>2, <2>3 DEF S!Next, S!Leave
  <1>9. ASSUME NEW r \in Requests, RevokeAtLogout(r) \/ Die(r) \/ Lose(r)
        PROVE  OnChain' /\ [S!Next]_(S!svars)
    <2>1. /\ UNCHANGED <<heirs, stored, loggedOut>>
          /\ \A q \in Requests : q # r => req'[q] = req[q]
          /\ req'[r].pc = "idle"
      BY <1>9, <1>t DEF RevokeAtLogout, Die, Lose, NoReq
    <2> QED
      BY <1>1, <2>1 DEF Working
  <1>10. ASSUME NEW j \in Tokens, Lapse(j) PROVE OnChain' /\ [S!Next]_(S!svars)
    BY <1>1, <1>10 DEF Lapse, Working
  <1>11. CASE UNCHANGED vars
    BY <1>1, <1>11 DEF vars, Working
  <1> QED
    BY <1>2, <1>3, <1>4, <1>5, <1>6, <1>7, <1>8, <1>9, <1>10, <1>11 DEF Next, RefreshStep

(* A fault that happened stays so.                                           *)
LEMMA FaultsStay == [Next]_vars => happened \subseteq happened'
  BY DEF Next, vars, Refresh, Deliver, Logout, RefreshStep, CheckLive, CheckRevoked, Recall,
         RecallNothing, ClaimWon, ClaimLost, ClaimFails, Fetch, FetchNothing, Revoke, DenyList,
         RevokeAtLogout, Die, Lose, Lapse, Fails

(* For any number of requests and tokens, and with answers lost and          *)
(* processes dying anywhere, refresh and logout keep the session one chain   *)
(* of tokens until Redis fails: they implement Succession.                   *)
THEOREM ImplementsSuccession == Spec => OneChain
  <1>1. Init => S!Init /\ OnChain
    BY TokensAssumption DEF Init, S!Init, OnChain, Sound, Working, NoReq, Tokens
  <1>2. IInv /\ IInv' /\ OnChain /\ [Next]_vars => OnChain' /\ [S!Next]_(S!svars)
    <2> SUFFICES ASSUME IInv, IInv', OnChain, [Next]_vars PROVE OnChain' /\ [S!Next]_(S!svars)
      OBVIOUS
    <2>1. CASE Sound'
      <3>1. Sound
        BY <2>1, FaultsStay DEF Sound
      <3> QED
        BY <2>1, <3>1, ChainStep
    <2>2. CASE ~Sound'
      BY <2>2 DEF OnChain, S!Next
    <2> QED
      BY <2>1, <2>2
  <1> QED
    BY <1>1, <1>2, Inductive, PTL DEF Spec, OneChain, S!Spec
=============================================================================
