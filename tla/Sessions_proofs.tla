--------------------------- MODULE Sessions_proofs ---------------------------
(***************************************************************************)
(* Type correctness of Sessions; that a signed-out token is refused as     *)
(* long as its entry is to last, and a spent refresh token for good; and   *)
(* that a refresh is not refused without cause.  Nothing is assumed of the *)
(* lifetimes, nor of how parseDurationToSeconds() reads them.              *)
(***************************************************************************)
EXTENDS Sessions, TLAPS

\* A handler past its first step carries a token of an issued pair, or makes a
\* pair of its own that nobody has seen.
Presented ==
  \A r \in Requests :
    request[r].pc \in {"getToken", "delToken", "findUser", "checkUse", "checkOut", "userUse",
                       "userOut", "blacklist", "revoke", "revokeOnly", "signedOut"} =>
      request[r].pair \in Pairs /\ pair[request[r].pair].state = "issued"

Private ==
  \A r \in Requests :
    request[r].pc = "store" =>
      /\ request[r].new \in Pairs /\ pair[request[r].new].state = "signed"
      /\ \A s \in Requests : request[s].pc = "store" /\ request[s].new = request[r].new => s = r

\* No token was signed in the future, and a token is signed out after it was signed.
SignedBefore ==
  /\ \A p \in Pairs : pair[p].iat <= now
  /\ \A r \in Requests : request[r].since <= now
  /\ \A r \in Requests :
       request[r].pc \in {"checkOut", "userOut", "blacklist", "revoke", "revokeOnly", "signedOut"} =>
         pair[request[r].pair].iat <= request[r].since

\* The entry a sign-out made lasts from its beginning for an access token's life.
Blocked ==
  \A r \in Requests :
    request[r].pc \in {"revoke", "signedOut"} =>
      bl[request[r].pair][request[r].kind]
        >= request[r].since + parseDurationToSeconds(life["access"])

\* Only issued tokens are spent, and the key of one that is not spent lasts from its
\* signature for a refresh token's life.
SpentIssued == \A p \in Pairs : spent[p] => pair[p].state = "issued"

Kept ==
  \A p \in Pairs :
    pair[p].state = "issued" /\ ~ spent[p] =>
      rt[p] >= pair[p].iat + parseDurationToSeconds(life["refresh"])

IInv ==
  /\ TypeOK /\ Presented /\ Private /\ SignedBefore
  /\ Blocked /\ SpentIssued /\ SpentRefused /\ Kept

\* The lifetimes of the keys.
LEMMA TtlType ==
  ASSUME TypeOK, NEW k \in Kind
  PROVE  /\ parseDurationToSeconds(life[k]) \in Nat
         /\ now + parseDurationToSeconds(life[k]) \in Expiry
<1>1. life[k] \in Lives /\ now \in Time
  BY DEF TypeOK
<1>2. parseDurationToSeconds(life[k]) \in Nat
  BY <1>1, LifeAssumption DEF parseDurationToSeconds
<1> QED
  BY <1>1, <1>2 DEF Expiry

\* Expiry times are numbers.
LEMMA ExpiryType == Expiry \subseteq Nat /\ 0 \in Expiry
<1>1. \A l \in Lives : parseDurationToSeconds(l) \in Nat
  BY LifeAssumption DEF parseDurationToSeconds
<1>2. \A t \in Time : t \in Nat
  BY LifeAssumption DEF Time
<1> QED
  BY <1>1, <1>2 DEF Expiry

\* A handler that moves keeps its tokens, and the others keep still.
LEMMA GotoEffect ==
  ASSUME request \in [Requests -> Request], NEW r \in Requests, NEW pc \in {"idle"} \cup Waiting \cup Ended,
         Goto(r, pc)
  PROVE  /\ request' \in [Requests -> Request]
         /\ request'[r].pc = pc /\ request'[r].pair = request[r].pair
         /\ request'[r].new = request[r].new
         /\ request'[r].kind = request[r].kind /\ request'[r].since = request[r].since
         /\ \A s \in Requests \ {r} : request'[s] = request[s]
  BY DEF Goto, Request

\* So does one that begins.
LEMMA BeginEffect ==
  ASSUME request \in [Requests -> Request], now \in Time,
         NEW r \in Requests, NEW p \in Pairs, NEW k \in Kind,
         NEW pc \in {"idle"} \cup Waiting \cup Ended, Begin(r, p, k, pc)
  PROVE  /\ request' \in [Requests -> Request]
         /\ request'[r].pc = pc /\ request'[r].pair = p
         /\ request'[r].since = IF pc = "checkOut" THEN now ELSE 0
         /\ \A s \in Requests \ {r} : request'[s] = request[s]
<1>1. 0 \in Time
  BY LifeAssumption DEF Time
<1> QED
  BY <1>1 DEF Begin, Request

\* What signing changes.
LEMMA SignEffect ==
  ASSUME pair \in [Pairs -> Pair], now \in Time, NEW q \in Pairs, Sign(q)
  PROVE  /\ pair' \in [Pairs -> Pair]
         /\ pair[q].state = "none" /\ pair'[q].state = "signed" /\ pair'[q].iat = now
         /\ \A p \in Pairs \ {q} : pair'[p] = pair[p]
  BY DEF Sign, Pair

\* The invariant holds initially.
LEMMA InitIInv == Init => IInv
<1> SUFFICES ASSUME Init PROVE IInv
  OBVIOUS
<1>1. 0 \in Time
  BY LifeAssumption DEF Time
<1>2. TypeOK
  BY <1>1, ExpiryType DEF Init, TypeOK, Pair, Request, Idle, Kind
<1> QED
  BY <1>2 DEF Init, IInv, Presented, Private, SignedBefore, Blocked, SpentIssued, SpentRefused,
              Kept, Idle

\* A handler that moves to a step where it carries nothing new, while tokens
\* and keys keep still.
LEMMA MoveStep ==
  ASSUME IInv, NEW r \in Requests, NEW pc \in {"idle"} \cup Waiting \cup Ended, Goto(r, pc),
         UNCHANGED <<life, now, pair, rt, bl, spent>>,
         request[r].pc \in {"getToken", "findUser", "checkUse", "checkOut", "userUse", "userOut",
                           "blacklist"}
           \/ pc \in {"refused", "failed"},
         pc \in {"checkOut", "userOut", "blacklist", "revokeOnly"} =>
           request[r].pc \in {"checkOut", "userOut", "blacklist"},
         pc \notin {"store", "revoke", "signedOut"}
  PROVE  IInv'
<1>1. /\ request' \in [Requests -> Request]
      /\ request'[r].pc = pc /\ request'[r].pair = request[r].pair
      /\ request'[r].since = request[r].since
      /\ \A s \in Requests \ {r} : request'[s] = request[s]
  BY GotoEffect DEF IInv, TypeOK
<1>2. Presented'
  BY <1>1 DEF IInv, Presented
<1>3. Private' /\ Blocked'
  BY <1>1 DEF IInv, Private, Blocked
<1>4. SignedBefore'
  BY <1>1 DEF IInv, SignedBefore
<1> QED
  BY <1>1, <1>2, <1>3, <1>4 DEF IInv, TypeOK, SpentIssued, SpentRefused, Kept

\* A handler that begins with a token of an issued pair.
LEMMA BeginStep ==
  ASSUME IInv, NEW r \in Requests, NEW p \in Pairs, pair[p].state = "issued",
         NEW k \in Kind,
         NEW pc \in {"getToken", "checkUse", "checkOut", "refused"}, Begin(r, p, k, pc),
         UNCHANGED <<life, now, pair, rt, bl, spent>>
  PROVE  IInv'
<1>1. /\ request' \in [Requests -> Request]
      /\ request'[r].pc = pc /\ request'[r].pair = p
      /\ request'[r].since = IF pc = "checkOut" THEN now ELSE 0
      /\ \A s \in Requests \ {r} : request'[s] = request[s]
  BY BeginEffect DEF IInv, TypeOK, Waiting, Ended
<1>2. Presented'
  BY <1>1 DEF IInv, Presented
<1>3. Private' /\ Blocked'
  BY <1>1 DEF IInv, Private, Blocked
<1>4. SignedBefore'
  <2>1. now \in Nat
    BY LifeAssumption DEF IInv, TypeOK, Time
  <2> QED
    BY <1>1, <2>1 DEF IInv, SignedBefore
<1> QED
  BY <1>1, <1>2, <1>3, <1>4 DEF IInv, TypeOK, SpentIssued, SpentRefused, Kept

\* A handler that signs a pair and goes on to store it.
LEMMA SignStep ==
  ASSUME IInv, NEW r \in Requests, NEW q \in Pairs, Sign(q),
         request' = [request EXCEPT ![r].pc = "store", ![r].new = q],
         UNCHANGED <<life, now, rt, bl, spent>>
  PROVE  IInv'
<1>0. /\ request \in [Requests -> Request] /\ pair \in [Pairs -> Pair] /\ now \in Time
      /\ Time \subseteq Nat
  BY DEF IInv, TypeOK, Time
<1>1. /\ request' \in [Requests -> Request]
      /\ request'[r].pc = "store" /\ request'[r].new = q
      /\ \A s \in Requests \ {r} : request'[s] = request[s]
  BY <1>0 DEF Request, Waiting
<1>2. /\ pair' \in [Pairs -> Pair]
      /\ pair[q].state = "none" /\ pair'[q].state = "signed" /\ pair'[q].iat = now
      /\ \A p \in Pairs \ {q} : pair'[p] = pair[p]
  BY <1>0, SignEffect
<1>3. TypeOK'
  BY <1>1, <1>2 DEF IInv, TypeOK
<1>4. Presented'
  BY <1>1, <1>2 DEF IInv, Presented
<1>5. Private'
  BY <1>1, <1>2 DEF IInv, Private
<1>6. SignedBefore'
  <2>1. request'[r].since = request[r].since
    BY <1>0
  <2>2. now \in Nat /\ \A p \in Pairs : pair'[p].iat <= now
    BY <1>0, <1>2 DEF IInv, SignedBefore
  <2>3. \A s \in Requests \ {r} :
          request[s].pc \in {"checkOut", "userOut", "blacklist", "revoke", "revokeOnly", "signedOut"} =>
            pair'[request[s].pair] = pair[request[s].pair]
    BY <1>2 DEF IInv, Presented
  <2> QED
    BY <1>1, <2>1, <2>2, <2>3 DEF IInv, SignedBefore
<1>7. Blocked'
  BY <1>1, <1>2 DEF IInv, Presented, Blocked
<1>8. SpentIssued' /\ SpentRefused' /\ Kept'
  BY <1>2 DEF IInv, SpentIssued, SpentRefused, Kept
<1> QED
  BY <1>3, <1>4, <1>5, <1>6, <1>7, <1>8 DEF IInv

\* A handler that deletes the key of its refresh token.
LEMMA DeleteStep ==
  ASSUME IInv, NEW r \in Requests, NEW pc \in {"findUser", "signedOut", "failed"},
         \/ request[r].pc = "delToken" /\ pc = "findUser"
         \/ request[r].pc = "revoke" /\ pc = "signedOut"
         \/ request[r].pc = "revokeOnly" /\ pc = "failed",
         Delete(request[r].pair), Goto(r, pc), UNCHANGED <<life, now, pair, bl>>
  PROVE  IInv'
<1> DEFINE p == request[r].pair
<1>0. /\ rt \in [Pairs -> Expiry] /\ spent \in [Pairs -> BOOLEAN]
      /\ 0 \in Expiry /\ Expiry \subseteq Nat
  BY ExpiryType DEF IInv, TypeOK
<1>1. /\ request' \in [Requests -> Request]
      /\ request'[r].pc = pc /\ request'[r].pair = p
      /\ request'[r].kind = request[r].kind /\ request'[r].since = request[r].since
      /\ \A s \in Requests \ {r} : request'[s] = request[s]
  BY GotoEffect DEF IInv, TypeOK, Waiting, Ended
<1>2. p \in Pairs /\ pair[p].state = "issued"
  BY DEF IInv, Presented
<1>3. /\ rt' \in [Pairs -> Expiry] /\ spent' \in [Pairs -> BOOLEAN]
      /\ rt'[p] = 0 /\ spent'[p] = TRUE
      /\ \A q \in Pairs \ {p} : rt'[q] = rt[q] /\ spent'[q] = spent[q]
  BY <1>0, <1>2 DEF Delete
<1>4. TypeOK' /\ SignedBefore'
  BY <1>1, <1>3 DEF IInv, TypeOK, SignedBefore
<1>5. Presented' /\ Private'
  BY <1>1, <1>2 DEF IInv, Presented, Private
<1>6. Blocked'
  BY <1>1 DEF IInv, Blocked
<1>7. SpentIssued' /\ SpentRefused' /\ Kept'
  BY <1>2, <1>3 DEF IInv, SpentIssued, SpentRefused, Kept
<1> QED
  BY <1>4, <1>5, <1>6, <1>7 DEF IInv

\* A handler that stores the refresh token it signed, and answers.
LEMMA StoreStep == ASSUME IInv, NEW r \in Requests, Store(r) PROVE IInv'
<1> DEFINE q == request[r].new
           ttl == parseDurationToSeconds(life["refresh"])
<1>0. /\ rt \in [Pairs -> Expiry] /\ pair \in [Pairs -> Pair] /\ now \in Nat
  BY LifeAssumption DEF IInv, TypeOK, Time
<1>1. /\ request' \in [Requests -> Request]
      /\ request'[r].pc = "answered" /\ request'[r].since = request[r].since
      /\ \A s \in Requests \ {r} : request'[s] = request[s]
  BY GotoEffect DEF IInv, TypeOK, Store, Ended
<1>2. q \in Pairs /\ pair[q].state = "signed"
  BY DEF IInv, Private, Store
<1>3. now + ttl \in Expiry /\ ttl \in Nat
  BY TtlType DEF IInv, Kind
<1>4. /\ rt' \in [Pairs -> Expiry] /\ rt'[q] = now + ttl
      /\ \A p \in Pairs \ {q} : rt'[p] = rt[p]
  BY <1>0, <1>2, <1>3 DEF Store
<1>5. /\ pair' \in [Pairs -> Pair] /\ pair'[q].state = "issued"
      /\ \A p \in Pairs : pair'[p].iat = pair[p].iat
      /\ \A p \in Pairs \ {q} : pair'[p] = pair[p]
  BY <1>0, <1>2 DEF Store, Pair
<1>6. UNCHANGED <<life, now, bl, spent>>
  BY DEF Store
<1>7. TypeOK'
  BY <1>1, <1>4, <1>5, <1>6 DEF IInv, TypeOK
<1>13. SignedBefore'
  <2>1. \A s \in Requests \ {r} :
          request[s].pc \in {"checkOut", "userOut", "blacklist", "revoke", "revokeOnly", "signedOut"} =>
            pair'[request[s].pair].iat = pair[request[s].pair].iat
    BY <1>5 DEF IInv, Presented
  <2> QED
    BY <1>1, <1>5, <1>6, <2>1 DEF IInv, SignedBefore
<1>8. Presented' /\ Blocked'
  BY <1>1, <1>2, <1>5, <1>6 DEF IInv, Presented, Blocked
<1>9. Private'
  <2>1. \A s \in Requests \ {r} : request[s].pc = "store" => request[s].new # q
    BY DEF IInv, Private, Store
  <2> QED
    BY <1>1, <1>5, <2>1 DEF IInv, Private
<1>10. ~ spent[q]
  BY <1>2 DEF IInv, SpentIssued
<1>11. SpentIssued' /\ SpentRefused'
  BY <1>2, <1>4, <1>5, <1>6, <1>10 DEF IInv, SpentIssued, SpentRefused
<1>12. Kept'
  <2>1. rt'[q] >= pair'[q].iat + ttl
    <3>1. pair[q].iat \in Nat /\ pair[q].iat <= now
      BY <1>0, <1>2, LifeAssumption DEF IInv, SignedBefore, Pair, Time
    <3> QED
      BY <1>0, <1>2, <1>3, <1>4, <1>5, <3>1
  <2> QED
    BY <1>4, <1>5, <1>6, <2>1 DEF IInv, Kept
<1> QED
  BY <1>7, <1>8, <1>9, <1>11, <1>12, <1>13 DEF IInv

\* A sign-out that writes its blacklist entry.
LEMMA BlacklistStep == ASSUME IInv, NEW r \in Requests, Blacklist(r) PROVE IInv'
<1> DEFINE p == request[r].pair
           k == request[r].kind
           ttl == parseDurationToSeconds(life["access"])
<1>0. /\ bl \in [Pairs -> [Kind -> Expiry]] /\ now \in Nat /\ k \in Kind
      /\ request[r].since \in Nat /\ request[r].since <= now
  BY LifeAssumption DEF IInv, TypeOK, Time, Request, SignedBefore
<1>1. /\ request' \in [Requests -> Request]
      /\ request'[r].pc \in {"revoke", "signedOut"} /\ request'[r].pair = p
      /\ request'[r].kind = k /\ request'[r].since = request[r].since
      /\ \A s \in Requests \ {r} : request'[s] = request[s]
  BY GotoEffect DEF IInv, TypeOK, Blacklist, Waiting, Ended
<1>2. p \in Pairs /\ pair[p].state = "issued"
  BY DEF IInv, Presented, Blacklist
<1>3. ttl \in Nat /\ now + ttl \in Expiry
  BY TtlType DEF IInv, Kind
<1>4. /\ bl' \in [Pairs -> [Kind -> Expiry]] /\ bl'[p][k] = now + ttl
      /\ \A q \in Pairs, l \in Kind : q # p \/ l # k => bl'[q][l] = bl[q][l]
  <2>1. bl' = [bl EXCEPT ![p][k] = now + ttl]
    BY DEF Blacklist
  <2> QED
    BY <1>0, <1>2, <1>3, <2>1
<1>5. UNCHANGED <<life, now, pair, rt, spent>>
  BY DEF Blacklist
<1>6. TypeOK' /\ SpentIssued' /\ SpentRefused' /\ Kept'
  BY <1>1, <1>4, <1>5 DEF IInv, TypeOK, SpentIssued, SpentRefused, Kept
<1>7. Presented' /\ Private' /\ SignedBefore'
  BY <1>1, <1>2, <1>5 DEF IInv, Presented, Private, SignedBefore, Blacklist
<1>8. Blocked'
  <2>1. bl'[p][k] >= request[r].since + ttl
    BY <1>0, <1>3, <1>4
  <2>2. ASSUME NEW s \in Requests \ {r}, request[s].pc \in {"revoke", "signedOut"}
        PROVE  bl'[request[s].pair][request[s].kind] >= request[s].since + ttl
    <3>1. request[s].pair \in Pairs /\ request[s].kind \in Kind /\ request[s].since \in Nat
      BY <2>2, LifeAssumption DEF IInv, Presented, TypeOK, Request, Time
    <3>2. CASE request[s].pair = p /\ request[s].kind = k
      <4>1. request[s].since <= now
        BY DEF IInv, SignedBefore
      <4> QED
        BY <1>0, <1>3, <1>4, <3>1, <3>2, <4>1
    <3>3. CASE ~ (request[s].pair = p /\ request[s].kind = k)
      BY <1>4, <2>2, <3>1, <3>3 DEF IInv, Blocked
    <3> QED
      BY <3>2, <3>3
  <2> QED
    BY <1>1, <1>5, <2>1, <2>2 DEF Blocked
<1> QED
  BY <1>6, <1>7, <1>8 DEF IInv

\* Every step keeps the invariant.
LEMMA NextIInv == IInv /\ [Next]_vars => IInv'
<1> SUFFICES ASSUME IInv, [Next]_vars PROVE IInv'
  OBVIOUS
<1> USE DEF Waiting, Ended
<1>1. ASSUME Tick PROVE IInv'
  <2>1. now' \in Time /\ now' = now + 1 /\ now \in Nat
    BY <1>1, LifeAssumption DEF Tick, IInv, TypeOK, Time
  <2>2. UNCHANGED <<life, pair, rt, bl, request, spent>>
    BY <1>1 DEF Tick
  <2>3. SignedBefore'
    <3>1. /\ \A p \in Pairs : pair[p].iat \in Nat
          /\ \A r \in Requests : request[r].since \in Nat
      BY LifeAssumption DEF IInv, TypeOK, Pair, Request, Time
    <3> QED
      BY <2>1, <2>2, <3>1 DEF IInv, SignedBefore
  <2> QED
    BY <2>1, <2>2, <2>3
       DEF IInv, TypeOK, Presented, Private, Blocked, SpentIssued, SpentRefused, Kept
<1>2. ASSUME NEW r \in Requests, NEW q \in Pairs, SignIn(r, q) \/ FindUser(r, q) PROVE IInv'
  BY <1>2, SignStep DEF SignIn, FindUser
<1>3. ASSUME NEW r \in Requests, NEW p \in Pairs, Refresh(r, p) PROVE IInv'
  BY <1>3, BeginStep DEF Refresh
<1>4. ASSUME NEW r \in Requests, NEW p \in Pairs, Use(r, p) PROVE IInv'
  BY <1>4, BeginStep DEF Use
<1>5. ASSUME NEW r \in Requests, Store(r) PROVE IInv'
  BY <1>5, StoreStep
<1>6. ASSUME NEW r \in Requests, GetToken(r) PROVE IInv'
  BY <1>6, MoveStep DEF GetToken
<1>7. ASSUME NEW r \in Requests, DelToken(r) PROVE IInv'
  BY <1>7, DeleteStep DEF DelToken
<1>8. ASSUME NEW r \in Requests, Validate(r) PROVE IInv'
  BY <1>8, MoveStep DEF Validate
<1>9. ASSUME NEW r \in Requests, Blacklist(r) PROVE IInv'
  BY <1>9, BlacklistStep
<1>10. ASSUME NEW r \in Requests, Revoke(r) PROVE IInv'
  <2>1. CASE request[r].pc = "revoke"
    BY <1>10, <2>1, DeleteStep DEF Revoke
  <2>2. CASE request[r].pc = "revokeOnly"
    BY <1>10, <2>2, DeleteStep DEF Revoke
  <2> QED
    BY <1>10, <2>1, <2>2 DEF Revoke
<1>11. ASSUME NEW r \in Requests, Abandon(r) PROVE IInv'
  BY <1>11, MoveStep DEF Abandon
<1>12. ASSUME NEW r \in Requests, LoadUser(r) PROVE IInv'
  BY <1>12, MoveStep DEF LoadUser
<1>13. ASSUME NEW r \in Requests, BlacklistRejected(r) PROVE IInv'
  BY <1>13, MoveStep DEF BlacklistRejected
<1>14. CASE UNCHANGED vars
  BY <1>14 DEF vars, IInv, TypeOK, Presented, Private, SignedBefore, Blocked, SpentIssued,
               SpentRefused, Kept
<1> QED
  BY <1>1, <1>2, <1>3, <1>4, <1>5, <1>6, <1>7, <1>8, <1>9, <1>10, <1>11, <1>12,
     <1>13, <1>14 DEF Next

\* The invariant holds in every reachable state.
LEMMA Invariance == Spec => []IInv
  BY InitIInv, NextIInv, PTL DEF Spec

\* Every reachable state is well typed.
THEOREM TypeCorrect == Spec => []TypeOK
<1>1. IInv => TypeOK
  BY DEF IInv
<1> QED
  BY <1>1, Invariance, PTL

\* The key of a consumed or revoked refresh token never comes back: no refresh reads
\* it again.
THEOREM SpentStaysSpent == Spec => []SpentRefused
<1>1. IInv => SpentRefused
  BY DEF IInv
<1> QED
  BY <1>1, Invariance, PTL

\* Nothing but its own read, or a failure, moves a request that is about to read
\* its key.
LEMMA OwnRead ==
  ASSUME IInv, [Next]_vars, NEW r \in Requests,
         request[r].pc \in {"getToken", "checkUse", "checkOut"},
         request'[r].pc \notin {"getToken", "checkUse", "checkOut", "failed"}
  PROVE  GetToken(r) \/ Validate(r)
<1>0. request \in [Requests -> Request]
  BY DEF IInv, TypeOK
<1>1. ASSUME NEW s \in Requests, NEW q \in Pairs, SignIn(s, q) \/ FindUser(s, q) PROVE FALSE
  BY <1>0, <1>1 DEF SignIn, FindUser, Request
<1>2. ASSUME NEW s \in Requests, NEW p \in Pairs, Refresh(s, p) \/ Use(s, p) PROVE FALSE
  BY <1>0, <1>2 DEF Refresh, Use, Begin
<1>3. ASSUME NEW s \in Requests,
             \/ Store(s) \/ GetToken(s) \/ DelToken(s) \/ Validate(s) \/ LoadUser(s)
             \/ Blacklist(s) \/ BlacklistRejected(s) \/ Revoke(s) \/ Abandon(s)
      PROVE  GetToken(r) \/ Validate(r)
  <2>1. CASE s # r
    <3>1. request'[r] = request[r]
      BY <1>0, <1>3, <2>1
         DEF Store, GetToken, DelToken, Validate, LoadUser, Blacklist, BlacklistRejected, Revoke,
             Abandon, Goto
    <3> QED
      BY <3>1
  <2>2. CASE s = r /\ Abandon(r)
    BY <1>0, <2>2 DEF Abandon, Goto
  <2> QED
    BY <1>3, <2>1, <2>2 DEF Store, DelToken, LoadUser, Blacklist, BlacklistRejected, Revoke
<1>4. ASSUME Tick PROVE FALSE
  BY <1>4 DEF Tick
<1>5. CASE UNCHANGED vars
  BY <1>5 DEF vars
<1> QED
  BY <1>1, <1>2, <1>3, <1>4, <1>5 DEF Next

\* What a blacklist read that lets a token pass has found.
LEMMA PassesFound ==
  ASSUME IInv, [Next]_vars, NEW r \in Requests, Passes(r)
  PROVE  request[r].pair \in Pairs /\ ~ (now < bl[request[r].pair][request[r].kind])
<1>1. Validate(r)
  BY OwnRead DEF Passes, GetToken, Goto, IInv, TypeOK
<1>2. request[r].pair \in Pairs
  BY DEF Passes, IInv, Presented
<1>3. ~ (now < bl[request[r].pair][request[r].kind])
  BY <1>1 DEF Passes, Validate, Goto, IInv, TypeOK
<1> QED
  BY <1>2, <1>3

\* When such a read lets a signed-out token pass, its entry has run out.
LEMMA PassesLate ==
  ASSUME IInv, [Next]_vars, NEW r \in Requests, NEW s \in Requests, Passes(r),
         SignedOut(s, request[r].pair, request[r].kind)
  PROVE  now >= request[s].since + parseDurationToSeconds(life["access"])
<1> DEFINE p == request[r].pair
           k == request[r].kind
<1>1. p \in Pairs /\ ~ (now < bl[p][k])
  BY PassesFound
<1>2. bl[p][k] >= request[s].since + parseDurationToSeconds(life["access"])
  BY DEF SignedOut, IInv, Blocked
<1>3. k \in Kind
  BY DEF IInv, TypeOK, Request
<1>4. now \in Nat /\ request[s].since \in Nat
  BY LifeAssumption DEF IInv, TypeOK, Time, Request
<1>6. bl[p][k] \in Nat
  <2>1. bl[p][k] \in Expiry
    BY <1>1, <1>3 DEF IInv, TypeOK
  <2> QED
    BY <2>1, ExpiryType
<1>5. parseDurationToSeconds(life["access"]) \in Nat
  BY TtlType DEF IInv, Kind
<1> QED
  BY <1>1, <1>2, <1>4, <1>5, <1>6

\* After the answer to its sign-out a token, of either kind, passes no blacklist read
\* before the time is over that the server takes an access token to live.
THEOREM SignOutHolds == Spec => SignedOutRefused
<1>1. IInv /\ [Next]_vars =>
        [\A r, s \in Requests :
           Passes(r) /\ SignedOut(s, request[r].pair, request[r].kind)
             => now >= request[s].since + parseDurationToSeconds(life["access"])]_vars
  BY PassesLate
<1> QED
  BY <1>1, Invariance, PTL DEF Spec, SignedOutRefused

\* A server that does not read the lifetime as a shorter one never again lets a
\* signed-out access token pass before it expires.
AccessStaysOut ==
  [][\A r, s \in Requests :
       /\ Passes(r) /\ SignedOut(s, request[r].pair, "access") /\ request[r].kind = "access"
       /\ parseDurationToSeconds(life["access"]) >= life["access"]
       => ~ Valid(request[r].pair, "access")]_vars

\* So a sign-out is final wherever the configured lifetime is one the parser knows.
THEOREM SignOutIsFinal == Spec => AccessStaysOut
<1>1. IInv /\ [Next]_vars =>
        [\A r, s \in Requests :
           /\ Passes(r) /\ SignedOut(s, request[r].pair, "access") /\ request[r].kind = "access"
           /\ parseDurationToSeconds(life["access"]) >= life["access"]
           => ~ Valid(request[r].pair, "access")]_vars
  <2> SUFFICES ASSUME IInv, [Next]_vars, NEW r \in Requests, NEW s \in Requests, Passes(r),
                      SignedOut(s, request[r].pair, "access"), request[r].kind = "access",
                      parseDurationToSeconds(life["access"]) >= life["access"]
               PROVE  ~ Valid(request[r].pair, "access")
    OBVIOUS
  <2> DEFINE p == request[r].pair
  <2>1. p \in Pairs /\ now >= request[s].since + parseDurationToSeconds(life["access"])
    BY PassesFound, PassesLate
  <2>2. pair[p].iat <= request[s].since
    BY DEF SignedOut, IInv, SignedBefore
  <2>3. now \in Nat /\ pair[p].iat \in Nat /\ request[s].since \in Nat
    BY <2>1, LifeAssumption DEF IInv, TypeOK, Time, Pair, Request
  <2>4. life["access"] \in Nat /\ parseDurationToSeconds(life["access"]) \in Nat
    BY TtlType, LifeAssumption DEF IInv, TypeOK, Kind
  <2> QED
    BY <2>1, <2>2, <2>3, <2>4 DEF Valid
<1> QED
  BY <1>1, Invariance, PTL DEF Spec, AccessStaysOut

\* A refresh is refused only when its token expired, is as old as the server takes
\* it to live, or was consumed or revoked.
THEOREM RefusalHasCause == Spec => RefusedForCause
<1>1. IInv /\ [Next]_vars =>
        [\A r \in Requests :
           LET p == request[r].pair IN
           request[r].pc = "getToken" /\ request'[r].pc = "refused"
             => \/ spent[p] \/ ~ Valid(p, "refresh")
                \/ now >= pair[p].iat + parseDurationToSeconds(life["refresh"])]_vars
  <2> SUFFICES ASSUME IInv, [Next]_vars, NEW r \in Requests,
                      request[r].pc = "getToken", request'[r].pc = "refused",
                      ~ spent[request[r].pair]
               PROVE  now >= pair[request[r].pair].iat + parseDurationToSeconds(life["refresh"])
    OBVIOUS
  <2> DEFINE p == request[r].pair
  <2>1. GetToken(r)
    BY OwnRead DEF Validate
  <2>2. p \in Pairs /\ pair[p].state = "issued"
    BY DEF IInv, Presented
  <2>3. ~ (now < rt[p])
    BY <2>1 DEF GetToken, Goto, IInv, TypeOK
  <2>4. rt[p] >= pair[p].iat + parseDurationToSeconds(life["refresh"])
    BY <2>2 DEF IInv, Kept
  <2>5. now \in Nat /\ pair[p].iat \in Nat
    BY <2>2, LifeAssumption DEF IInv, TypeOK, Time, Pair
  <2>7. rt[p] \in Nat
    <3>1. rt[p] \in Expiry
      BY <2>2 DEF IInv, TypeOK
    <3> QED
      BY <3>1, ExpiryType
  <2>6. parseDurationToSeconds(life["refresh"]) \in Nat
    BY TtlType DEF IInv, Kind
  <2> QED
    BY <2>3, <2>4, <2>5, <2>6, <2>7
<1> QED
  BY <1>1, Invariance, PTL DEF Spec, RefusedForCause
=============================================================================
