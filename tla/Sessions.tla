------------------------------ MODULE Sessions ------------------------------
(***************************************************************************)
(* Signing in, refreshing and signing out.  A session lives in a pair of   *)
(* JSON Web Tokens, an access token and a refresh token, and in two kinds  *)
(* of Redis keys: rt:<rtjti> while the refresh token may be used,          *)
(* bl:<jti> for a token that was signed out.  Keys expire on their own.    *)
(* Every Redis command is a step; verifying and signing tokens needs none. *)
(* The guard of the API does not ask which kind of token it is shown: a    *)
(* refresh token is as good a bearer token, and can be signed out itself.  *)
(*                                                                         *)
(* Data: a token is a pair, its kind and the time it was signed; passwords *)
(* and users are left out (nothing in the code deletes a user).  ioredis   *)
(* sends a command again when the connection breaks; all of these are      *)
(* idempotent, and a step whose reply never comes is that step and Abandon. *)
(***************************************************************************)
EXTENDS Naturals

CONSTANTS
  Pairs,        \* token pairs signTokenPair() may make
  Requests,     \* sign-in, refresh, sign-out and any other authenticated requests
  Lives,        \* what the tokens' library may make of JWT_EXPIRES_IN and
                \* JWT_REFRESH_EXPIRES_IN, in seconds
  Parsable,     \* the lifetimes parseDurationToSeconds() reads as the library does
  DefaultTtl,   \* what it returns for any other (900)
  MaxTime       \* bound: the clock stops here

ASSUME LifeAssumption ==
  Lives \subseteq Nat \ {0} /\ DefaultTtl \in Nat \ {0} /\ MaxTime \in Nat

VARIABLES
  life,     \* the lifetimes the servers were configured with, by kind of token
  now,      \* the clock of Redis and of the servers
  pair,     \* the tokens
  rt,       \* when the key rt:<rtjti> expires, 0 if it is not set
  bl,       \* when the key bl:<jti> of each token expires, 0 if it is not set
  request,  \* the handlers
  spent     \* history: was rt:<rtjti> deleted?

vars == <<life, now, pair, rt, bl, request, spent>>

-----------------------------------------------------------------------------
None == "none"

Kind == {"access", "refresh"}

parseDurationToSeconds(l) == IF l \in Parsable THEN l ELSE DefaultTtl

Time   == 0..MaxTime
Expiry == {0} \cup {t + parseDurationToSeconds(l) : t \in Time, l \in Lives}

\* A pair is signed inside a handler and issued when that handler answers.
Pair == [state : {"none", "signed", "issued"}, iat : Time]

Waiting == {"getToken", "delToken", "findUser", "store", "checkUse", "checkOut",
            "userUse", "userOut", "blacklist", "revoke", "revokeOnly"}
Ended   == {"answered", "accepted", "signedOut", "refused", "failed"}

Request == [pc : {"idle"} \cup Waiting \cup Ended,
            pair : Pairs \cup {None},   \* the pair of the token it carries
            kind : Kind,                \* the kind of that token
            new : Pairs \cup {None},    \* the pair it is making
            since : Time]               \* history: when it asked to sign out

Idle == [pc |-> "idle", pair |-> None, kind |-> "access", new |-> None, since |-> 0]

Init ==
  /\ life \in [Kind -> Lives]
  /\ now = 0
  /\ pair = [p \in Pairs |-> [state |-> "none", iat |-> 0]]
  /\ rt = [p \in Pairs |-> 0]
  /\ bl = [p \in Pairs |-> [k \in Kind |-> 0]]
  /\ request = [r \in Requests |-> Idle]
  /\ spent = [p \in Pairs |-> FALSE]

Goto(r, pc) == request' = [request EXCEPT ![r].pc = pc]

Begin(r, p, k, pc) ==
  request' = [request EXCEPT ![r] =
    [pc |-> pc, pair |-> p, kind |-> k, new |-> None,
     since |-> IF pc = "checkOut" THEN now ELSE 0]]

\* jwt.verify() of a token.
Valid(p, k) == now < pair[p].iat + life[k]

-----------------------------------------------------------------------------
(* signTokenPair: sign two tokens, then make the refresh token usable. *)

Sign(q) == pair[q].state = "none" /\ pair' = [pair EXCEPT ![q] = [state |-> "signed", iat |-> now]]

\* Mutant: the lifetime goes to Redis in milliseconds.
StoreMillis(r) ==
  LET q == request[r].new IN
  /\ request[r].pc = "store"
  /\ rt' = [rt EXCEPT ![q] = now + 1000 * parseDurationToSeconds(life["refresh"])]
  /\ pair' = [pair EXCEPT ![q].state = "issued"]
  /\ Goto(r, "answered")
  /\ UNCHANGED <<life, now, bl, spent>>

\* Mutant: the key gets the lifetime of the other token.
StoreAccessLife(r) ==
  LET q == request[r].new IN
  /\ request[r].pc = "store"
  /\ rt' = [rt EXCEPT ![q] = now + parseDurationToSeconds(life["access"])]
  /\ pair' = [pair EXCEPT ![q].state = "issued"]
  /\ Goto(r, "answered")
  /\ UNCHANGED <<life, now, bl, spent>>

Store(r) ==
  LET q == request[r].new IN
  /\ request[r].pc = "store"
  /\ rt' = [rt EXCEPT ![q] = now + parseDurationToSeconds(life["refresh"])]
  /\ pair' = [pair EXCEPT ![q].state = "issued"]
  /\ Goto(r, "answered")
  /\ UNCHANGED <<life, now, bl, spent>>

\* Sign-up and sign-in: the password was right.
SignIn(r, q) ==
  /\ request[r].pc = "idle"
  /\ Sign(q)
  /\ request' = [request EXCEPT ![r].pc = "store", ![r].new = q]
  /\ UNCHANGED <<life, now, rt, bl, spent>>

-----------------------------------------------------------------------------
(* POST /auth/refresh.  The token is verified at once, and its type; then   *)
(* consumeRefreshToken reads the key in one command and deletes it in       *)
(* another.                                                                 *)

Refresh(r, p) ==
  /\ request[r].pc = "idle" /\ pair[p].state = "issued"
  /\ \E k \in Kind :
       Begin(r, p, k, IF k = "refresh" /\ Valid(p, k) THEN "getToken" ELSE "refused")
  /\ UNCHANGED <<life, now, pair, rt, bl, spent>>

GetToken(r) ==
  /\ request[r].pc = "getToken"
  /\ Goto(r, IF now < rt[request[r].pair] THEN "delToken" ELSE "refused")
  /\ UNCHANGED <<life, now, pair, rt, bl, spent>>

Delete(p) == rt' = [rt EXCEPT ![p] = 0] /\ spent' = [spent EXCEPT ![p] = TRUE]

DelToken(r) ==
  /\ request[r].pc = "delToken"
  /\ Delete(request[r].pair)
  /\ Goto(r, "findUser")
  /\ UNCHANGED <<life, now, pair, bl>>

\* Mutant: the new tokens keep the rtjti of the old ones.
FindUserSameId(r, q) ==
  /\ request[r].pc = "findUser"
  /\ q = request[r].pair
  /\ pair' = [pair EXCEPT ![q].iat = now]
  /\ request' = [request EXCEPT ![r].pc = "store", ![r].new = q]
  /\ UNCHANGED <<life, now, rt, bl, spent>>

FindUser(r, q) ==
  /\ request[r].pc = "findUser"
  /\ Sign(q)
  /\ request' = [request EXCEPT ![r].pc = "store", ![r].new = q]
  /\ UNCHANGED <<life, now, rt, bl, spent>>

-----------------------------------------------------------------------------
(* Authenticated requests and the socket's handshake: the token, of either  *)
(* kind, is verified, then the blacklist is read.                           *)

Use(r, p) ==
  /\ request[r].pc = "idle" /\ pair[p].state = "issued"
  /\ \E k \in Kind, pc \in {"checkUse", "checkOut"} :
       Begin(r, p, k, IF Valid(p, k) THEN pc ELSE "refused")
  /\ UNCHANGED <<life, now, pair, rt, bl, spent>>

\* JwtStrategy.validate() reads the blacklist ...
Validate(r) ==
  /\ request[r].pc \in {"checkUse", "checkOut"}
  /\ Goto(r, IF now < bl[request[r].pair][request[r].kind] THEN "refused"
             ELSE IF request[r].pc = "checkOut" THEN "userOut" ELSE "userUse")
  /\ UNCHANGED <<life, now, pair, rt, bl, spent>>

\* ... and the user, and lets the request pass; a sign-out goes to its handler.
LoadUser(r) ==
  /\ request[r].pc \in {"userUse", "userOut"}
  /\ Goto(r, IF request[r].pc = "userOut" THEN "blacklist" ELSE "accepted")
  /\ UNCHANGED <<life, now, pair, rt, bl, spent>>

\* Mutant: the entry is filed under the id of the paired token.
BlacklistPaired(r) ==
  LET q == request[r] IN
  /\ q.pc = "blacklist"
  /\ bl' = [bl EXCEPT ![q.pair]["refresh"] = now + parseDurationToSeconds(life["access"])]
  /\ Goto(r, IF q.kind = "access" THEN "revoke" ELSE "signedOut")
  /\ UNCHANGED <<life, now, pair, rt, spent>>

\* POST /auth/sign-out: the entry lasts as long as an access token does, whatever
\* token it is for.  Only an access token names its pair (rtjti): then both
\* commands are sent at once, on one connection, and the second is carried out
\* also when the first is rejected.
Blacklist(r) ==
  LET q == request[r] IN
  /\ q.pc = "blacklist"
  /\ bl' = [bl EXCEPT ![q.pair][q.kind] = now + parseDurationToSeconds(life["access"])]
  /\ Goto(r, IF q.kind = "access" THEN "revoke" ELSE "signedOut")
  /\ UNCHANGED <<life, now, pair, rt, spent>>

BlacklistRejected(r) ==
  /\ request[r].pc = "blacklist"
  /\ Goto(r, IF request[r].kind = "access" THEN "revokeOnly" ELSE "failed")
  /\ UNCHANGED <<life, now, pair, rt, bl, spent>>

Revoke(r) ==
  /\ request[r].pc \in {"revoke", "revokeOnly"}
  /\ Delete(request[r].pair)
  /\ Goto(r, IF request[r].pc = "revoke" THEN "signedOut" ELSE "failed")
  /\ UNCHANGED <<life, now, pair, bl>>

-----------------------------------------------------------------------------
\* Redis or PostgreSQL rejects a call, or the server process dies.
Abandon(r) ==
  /\ request[r].pc \in Waiting
  /\ Goto(r, "failed")
  /\ UNCHANGED <<life, now, pair, rt, bl, spent>>

Tick ==
  /\ now < MaxTime
  /\ now' = now + 1
  /\ UNCHANGED <<life, pair, rt, bl, request, spent>>

Next ==
  \/ Tick
  \/ \E r \in Requests, p \in Pairs : SignIn(r, p) \/ Refresh(r, p) \/ FindUser(r, p) \/ Use(r, p)
  \/ \E r \in Requests :
       \/ Store(r) \/ GetToken(r) \/ DelToken(r) \/ Validate(r) \/ LoadUser(r)
       \/ Blacklist(r) \/ BlacklistRejected(r) \/ Revoke(r) \/ Abandon(r)

Spec == Init /\ [][Next]_vars

-----------------------------------------------------------------------------
(* Properties *)

\* Every variable has its type; no key outlives the lifetime it was given.
TypeOK ==
  /\ life \in [Kind -> Lives]
  /\ now \in Time
  /\ pair \in [Pairs -> Pair]
  /\ rt \in [Pairs -> Expiry]
  /\ bl \in [Pairs -> [Kind -> Expiry]]
  /\ request \in [Requests -> Request]
  /\ spent \in [Pairs -> BOOLEAN]

\* Sign-out s, of that token, was answered.
SignedOut(s, p, k) ==
  request[s].pc = "signedOut" /\ request[s].pair = p /\ request[s].kind = k

Passes(r) ==
  request[r].pc \in {"checkUse", "checkOut"} /\ request'[r].pc \in {"userUse", "userOut"}

\* Once a sign-out was answered, no blacklist read lets its token pass for as long,
\* counted from the sign-out, as the server takes an access token to live: the
\* entry is there, and a request verified before the sign-out is still caught.
\* (One that had read the blacklist before goes on: LoadUser does not look again.
\* A refresh token lives longer than that, and so does an access token whose
\* lifetime parseDurationToSeconds reads as a shorter one: they pass again.)
SignedOutRefused ==
  [][\A r, s \in Requests :
       Passes(r) /\ SignedOut(s, request[r].pair, request[r].kind)
         => now >= request[s].since + parseDurationToSeconds(life["access"])]_vars

\* A refresh token that was consumed or revoked is never again good for a refresh,
\* although one that passed its check may still be at work on the next pair.  (The
\* guard goes on accepting it as a bearer token.)
SpentRefused == \A p \in Pairs : spent[p] => rt[p] = 0

\* A refresh is turned away only for a reason: its token expired, or is older than
\* the server takes it to live, or somebody consumed it or signed it out.
RefusedForCause ==
  [][\A r \in Requests :
       LET p == request[r].pair IN
       request[r].pc = "getToken" /\ request'[r].pc = "refused"
         => \/ spent[p] \/ ~ Valid(p, "refresh")
            \/ now >= pair[p].iat + parseDurationToSeconds(life["refresh"])]_vars

\* What redis.service.ts:59 and auth.service.ts:98 say of consumeRefreshToken
\* ("in one round-trip", "atomically fetches + deletes"): of all refreshes with
\* one token, one at most is answered with a new pair.
RefreshOnce ==
  \A r, s \in Requests :
    /\ request[r].pc = "answered" /\ request[s].pc = "answered"
    /\ request[r].pair = request[s].pair /\ request[r].pair # None
    => r = s
=============================================================================
