--------------------------- MODULE Accounts_proofs ---------------------------
(***************************************************************************)
(* Proofs about Accounts.  Rows are never taken away, tokens only lose      *)
(* their worth, an answer is final and what was answered writes no more     *)
(* (Calm): so what is known of one request outlives the steps of others.    *)
(***************************************************************************)
EXTENDS Accounts, TLAPS

Has(u) == u \in Users /\ users[u] # None

Issued(t) == t \in Tokens /\ tokens[t] # None

\* What a handler holds: rows that are there, and updates that are its own.
Known(r) ==
  /\ request[r].kind \in {"updateMe", "change"} => Has(request[r].user)
  /\ request[r].kind = "forgot" /\ request[r].at # "answered" => Has(request[r].user)
  /\ request[r].kind = "forgot" => Has(request[r].user) \/ request[r].user = None
  /\ request[r].kind \in {"signUp", "updateMe"} /\ request[r].at = "checked" => request[r].email \in Emails
  /\ request[r].todo # {} => request[r].kind = "reset" /\ request[r].at \notin {"idle", "answered"}
  /\ request[r].kind = "reset" /\ (request[r].todo # {} \/ request[r].at \in {"ending", "answered"})
       => Has(request[r].user) /\ Issued(request[r].token)
  /\ request[r].before \subseteq Answered

\* As long as no update of a reset was rejected, what is not under way has landed.
Landed(r) ==
  request[r].kind = "reset" /\ request[r].at \in {"ending", "answered"} =>
    /\ "password" \notin request[r].todo => r \in wrote
    /\ "mark" \notin request[r].todo => ~ Valid(request[r].token)

\* From the deletion on the tokens of those who were answered before are refused.
Purged(r) ==
  request[r].kind = "forgot" /\ request[r].at \in {"issuing", "ending", "answered"} =>
    \A t \in Tokens :
      tokens[t] # None /\ tokens[t].user = request[r].user /\ tokens[t].by \in request[r].before
        => ~ Valid(t)

\* A password still to be stored never was, and what a change saw has been.
Pending(r) ==
  \/ request[r].at = "idle"
  \/ "password" \in request[r].todo
  \/ request[r].kind \in {"signUp", "change"} /\ request[r].at = "checked"

Fresh(r) == (Pending(r) => r \notin wrote) /\ request[r].verified \in wrote \cup {None}

\* Once a request has stored its password, none of those before it is in its place.
Replaced(r) ==
  request[r].kind \in {"reset", "change"} /\ request[r].at \in {"ending", "answered"} =>
    /\ request[r].kind = "change" => r \in wrote
    /\ r \in wrote =>
         users[request[r].user].password \notin request[r].before \cup {request[r].verified}

RequestInv(r) == Known(r) /\ Landed(r) /\ Purged(r) /\ Fresh(r) /\ Replaced(r)

TokensOwned == \A t \in Tokens : tokens[t] # None => Has(tokens[t].user)

PasswordsWritten == \A u \in Users : users[u] # None => users[u].password \in wrote \cup {None}

IInv ==
  /\ TypeOK /\ TokensOwned /\ EmailsUnique /\ PasswordsWritten
  /\ \A r \in Requests : RequestInv(r)

-----------------------------------------------------------------------------
(* Handlers are records. *)

At == {"idle", "checked", "issuing", "ending", "answered", "failed"}

\* Handler g is h at another place, with updates W under way.
Moved(g, h, a, W) ==
  /\ g.at = a /\ g.todo = W
  /\ g.kind = h.kind /\ g.user = h.user /\ g.email = h.email /\ g.token = h.token
  /\ g.verified = h.verified /\ g.before = h.before

LEMMA HandlerUpdates ==
  ASSUME NEW h \in Handler, NEW a \in At, NEW W \in SUBSET Write
  PROVE  /\ [h EXCEPT !.at = a] \in Handler /\ Moved([h EXCEPT !.at = a], h, a, h.todo)
         /\ [h EXCEPT !.todo = W] \in Handler /\ Moved([h EXCEPT !.todo = W], h, h.at, W)
         /\ [h EXCEPT !.todo = W, !.at = a] \in Handler /\ Moved([h EXCEPT !.todo = W, !.at = a], h, a, W)
BY DEF Handler, Write, At, Moved

\* Goto changes the place of one handler.
LEMMA GotoEffect ==
  ASSUME request \in [Requests -> Handler], NEW r \in Requests, NEW a \in At, Goto(r, a)
  PROVE  /\ request' \in [Requests -> Handler]
         /\ Moved(request'[r], request[r], a, request[r].todo)
         /\ \A q \in Requests \ {r} : request'[q] = request[q]
<1>1. request[r] \in Handler /\ {} \in SUBSET Write
  OBVIOUS
<1>2. [request[r] EXCEPT !.at = a] \in Handler
      /\ Moved([request[r] EXCEPT !.at = a], request[r], a, request[r].todo)
  BY <1>1, HandlerUpdates
<1> QED
  BY <1>2 DEF Goto

\* Begin starts one handler.
LEMMA BeginEffect ==
  ASSUME request \in [Requests -> Handler], NEW r \in Requests, NEW h \in Handler, Begin(r, h)
  PROVE  /\ request' \in [Requests -> Handler]
         /\ request[r].at = "idle"
         /\ request'[r].before = Answered
         /\ request'[r].kind = h.kind /\ request'[r].at = h.at /\ request'[r].user = h.user
         /\ request'[r].email = h.email /\ request'[r].token = h.token
         /\ request'[r].todo = h.todo /\ request'[r].verified = h.verified
         /\ \A q \in Requests \ {r} : request'[q] = request[q]
         /\ UNCHANGED <<users, tokens, wrote>>
<1>1. [h EXCEPT !.before = Answered] \in Handler
  BY DEF Handler, Answered
<1>2. LET g == [h EXCEPT !.before = Answered] IN
        /\ g.before = Answered /\ g.kind = h.kind /\ g.at = h.at /\ g.user = h.user
        /\ g.email = h.email /\ g.token = h.token /\ g.todo = h.todo /\ g.verified = h.verified
  BY DEF Handler
<1> QED
  BY <1>1, <1>2 DEF Begin

\* The two halves of a reset, and a rejected one.
LEMMA UpdateEffect ==
  ASSUME request \in [Requests -> Handler], NEW r \in Requests, NEW w \in Write, NEW a \in At,
         \/ request' = [request EXCEPT ![r].todo = @ \ {w}] /\ a = request[r].at
         \/ request' = [request EXCEPT ![r].todo = @ \ {w}, ![r].at = a]
  PROVE  /\ request' \in [Requests -> Handler]
         /\ Moved(request'[r], request[r], a, request[r].todo \ {w})
         /\ \A q \in Requests \ {r} : request'[q] = request[q]
<1> DEFINE W == request[r].todo \ {w}
<1>1. request[r] \in Handler /\ W \in SUBSET Write
  BY DEF Handler
<1>2. /\ [request[r] EXCEPT !.todo = W] \in Handler
      /\ Moved([request[r] EXCEPT !.todo = W], request[r], request[r].at, W)
      /\ [request[r] EXCEPT !.todo = W, !.at = a] \in Handler
      /\ Moved([request[r] EXCEPT !.todo = W, !.at = a], request[r], a, W)
  BY <1>1, HandlerUpdates
<1>3. \/ request' = [request EXCEPT ![r] = [request[r] EXCEPT !.todo = W]] /\ a = request[r].at
      \/ request' = [request EXCEPT ![r] = [request[r] EXCEPT !.todo = W, !.at = a]]
  OBVIOUS
<1> HIDE DEF W
<1>4. CASE request' = [request EXCEPT ![r] = [request[r] EXCEPT !.todo = W]] /\ a = request[r].at
  BY <1>2, <1>4 DEF W
<1>5. CASE request' = [request EXCEPT ![r] = [request[r] EXCEPT !.todo = W, !.at = a]]
  BY <1>2, <1>5 DEF W
<1> QED
  BY <1>3, <1>4, <1>5

LEMMA NoneIsNoRow ==
  None \notin Users /\ None \notin User /\ None \notin Token /\ None \notin Requests
BY NoneAssumption DEF User, Token, Flag

-----------------------------------------------------------------------------
(* What every step leaves alone *)

RowsKept == \A u \in Users : users[u] # None => users'[u] # None

TokensSpoil ==
  \A t \in Tokens : tokens[t] # None =>
    /\ tokens'[t] # None /\ tokens'[t].user = tokens[t].user /\ tokens'[t].by = tokens[t].by
    /\ tokens[t].flags \subseteq tokens'[t].flags

\* Nobody who was answered issues a token, and no password is stored twice.
AnsweredRest ==
  /\ \A t \in Tokens : tokens[t] = None /\ tokens'[t] # None => tokens'[t].by \in Requests \ Answered
  /\ \A u \in Users : users[u] # None /\ users'[u].password # users[u].password =>
       users'[u].password \in Requests \ (Answered \cup wrote)

Calm ==
  /\ RowsKept /\ TokensSpoil /\ AnsweredRest
  /\ Answered \subseteq Answered' /\ wrote \subseteq wrote'

\* What is spoilt stays so.
LEMMA SpoiltStays ==
  ASSUME TokensSpoil, NEW t \in Tokens, tokens[t] # None, ~ Valid(t)
  PROVE  ~ Valid(t)'
BY DEF TokensSpoil, Valid

\* What is known of a request outlives the steps of others.
LEMMA OthersKeep ==
  ASSUME TypeOK, TypeOK', Calm, NEW q \in Requests, RequestInv(q), request'[q] = request[q],
         q \in wrote' => q \in wrote
  PROVE  RequestInv(q)'
<1>1. \A u : Has(u) => Has(u)'
  BY DEF Calm, RowsKept, Has
<1>2. \A t : Issued(t) => Issued(t)' /\ (~ Valid(t) => ~ Valid(t)')
  BY SpoiltStays DEF Calm, TokensSpoil, Issued
<1>3. Known(q)'
  BY <1>1, <1>2 DEF RequestInv, Known, Calm
<1>4. Landed(q)'
  BY <1>2 DEF RequestInv, Known, Landed, Calm
<1>5. Purged(q)'
  <2> SUFFICES ASSUME request[q].kind = "forgot", request[q].at \in {"issuing", "ending", "answered"},
                      NEW t \in Tokens, tokens'[t] # None, tokens'[t].user = request[q].user,
                      tokens'[t].by \in request[q].before
               PROVE  ~ Valid(t)'
    BY DEF Purged
  <2>1. tokens[t] # None
    BY DEF RequestInv, Known, Calm, AnsweredRest
  <2>2. tokens[t].user = request[q].user /\ tokens[t].by \in request[q].before
    BY <2>1 DEF Calm, TokensSpoil
  <2>3. ~ Valid(t)
    BY <2>1, <2>2 DEF RequestInv, Purged
  <2> QED
    BY <2>1, <2>3, SpoiltStays DEF Calm
<1>6. Fresh(q)'
  BY DEF RequestInv, Fresh, Pending, Calm
<1>7. Replaced(q)'
  <2> SUFFICES ASSUME request[q].kind \in {"reset", "change"}, request[q].at \in {"ending", "answered"}
               PROVE  /\ request[q].kind = "change" => q \in wrote'
                      /\ q \in wrote' =>
                           users'[request[q].user].password
                             \notin request[q].before \cup {request[q].verified}
    BY DEF Replaced
  <2>1. request[q].kind = "change" => q \in wrote'
    BY DEF RequestInv, Replaced, Calm
  <2>2. ASSUME q \in wrote'
        PROVE  users'[request[q].user].password \notin request[q].before \cup {request[q].verified}
    <3>1. Has(request[q].user)
      BY DEF RequestInv, Known
    <3>2. users[request[q].user].password \notin request[q].before \cup {request[q].verified}
      BY <2>2 DEF RequestInv, Replaced
    <3>3. /\ request[q].before \subseteq Answered /\ request[q].verified \in wrote \cup {None}
          /\ None \notin Requests
      BY NoneIsNoRow DEF RequestInv, Known, Fresh
    <3> QED
      BY <3>1, <3>2, <3>3 DEF Calm, AnsweredRest, Has
  <2> QED
    BY <2>1, <2>2
<1> QED
  BY <1>3, <1>4, <1>5, <1>6, <1>7 DEF RequestInv

-----------------------------------------------------------------------------
(* Rows are records. *)

LEMMA LowerIsEmail == \A e \in Emails : lower[e] \in Emails
BY LowerAssumption

\* A password is stored in the row of user u.
LEMMA PasswordStored ==
  ASSUME TypeOK, NEW u \in Users, users[u] # None, NEW r \in Requests,
         users' = [users EXCEPT ![u].password = r]
  PROVE  /\ users' \in [Users -> User \cup {None}]
         /\ users'[u] # None /\ users'[u].password = r /\ users'[u].email = users[u].email
         /\ \A v \in Users \ {u} : users'[v] = users[v]
<1>1. users[u] \in User
  BY DEF TypeOK
<1>2. [users[u] EXCEPT !.password = r] \in User
  BY <1>1 DEF User
<1>3. [users[u] EXCEPT !.password = r].password = r
      /\ [users[u] EXCEPT !.password = r].email = users[u].email
  BY <1>1 DEF User
<1>4. users' = [users EXCEPT ![u] = [users[u] EXCEPT !.password = r]]
  OBVIOUS
<1> QED
  BY <1>2, <1>3, <1>4, NoneIsNoRow DEF TypeOK

\* An e-mail is stored in the row of user u.
LEMMA EmailSaved ==
  ASSUME TypeOK, NEW u \in Users, users[u] # None, NEW e \in Emails,
         users' = [users EXCEPT ![u].email = e]
  PROVE  /\ users' \in [Users -> User \cup {None}]
         /\ users'[u] # None /\ users'[u].email = e /\ users'[u].password = users[u].password
         /\ \A v \in Users \ {u} : users'[v] = users[v]
<1>1. users[u] \in User
  BY DEF TypeOK
<1>2. [users[u] EXCEPT !.email = e] \in User
  BY <1>1 DEF User
<1>3. [users[u] EXCEPT !.email = e].email = e
      /\ [users[u] EXCEPT !.email = e].password = users[u].password
  BY <1>1 DEF User
<1>4. users' = [users EXCEPT ![u] = [users[u] EXCEPT !.email = e]]
  OBVIOUS
<1> QED
  BY <1>2, <1>3, <1>4, NoneIsNoRow DEF TypeOK

\* A token with flags F.
LEMMA Flagged ==
  ASSUME NEW k \in Token, NEW F \in SUBSET Flag
  PROVE  /\ [k EXCEPT !.flags = F] \in Token
         /\ [k EXCEPT !.flags = F].flags = F
         /\ [k EXCEPT !.flags = F].user = k.user /\ [k EXCEPT !.flags = F].by = k.by
BY DEF Token, Flag

\* Flags are set on token t.
LEMMA TokenFlagged ==
  ASSUME TypeOK, NEW t \in Tokens, tokens[t] # None, NEW F \in SUBSET Flag,
         tokens[t].flags \subseteq F, tokens' = [tokens EXCEPT ![t].flags = F]
  PROVE  /\ tokens' \in [Tokens -> Token \cup {None}]
         /\ tokens'[t] # None /\ tokens'[t].flags = F
         /\ tokens'[t].user = tokens[t].user /\ tokens'[t].by = tokens[t].by
         /\ \A s \in Tokens \ {t} : tokens'[s] = tokens[s]
         /\ TokensSpoil
<1>1. tokens[t] \in Token
  BY DEF TypeOK
<1>2. tokens' = [tokens EXCEPT ![t] = [tokens[t] EXCEPT !.flags = F]]
  OBVIOUS
<1>3. /\ tokens' \in [Tokens -> Token \cup {None}]
      /\ tokens'[t] # None /\ tokens'[t].flags = F
      /\ tokens'[t].user = tokens[t].user /\ tokens'[t].by = tokens[t].by
      /\ \A s \in Tokens \ {t} : tokens'[s] = tokens[s]
  BY <1>1, <1>2, Flagged, NoneIsNoRow DEF TypeOK
<1> QED
  BY <1>3 DEF TokensSpoil

\* Tokens keep their users and users their rows.
LEMMA OwnersKept ==
  ASSUME TokensOwned, RowsKept, tokens' = tokens
  PROVE  TokensOwned'
BY DEF TokensOwned, RowsKept, Has

\* Where no token and no password changes.
LEMMA Resting ==
  ASSUME users' = users, tokens' = tokens
  PROVE  RowsKept /\ TokensSpoil /\ AnsweredRest
BY DEF RowsKept, TokensSpoil, AnsweredRest

\* The step of one handler.
LEMMA StepKeeps ==
  ASSUME IInv, NEW r \in Requests, TypeOK', TokensOwned', EmailsUnique', PasswordsWritten', Calm,
         RequestInv(r)', wrote' \subseteq wrote \cup {r},
         \A q \in Requests \ {r} : request'[q] = request[q]
  PROVE  IInv'
<1>1. ASSUME NEW q \in Requests \ {r} PROVE RequestInv(q)'
  BY <1>1, OthersKeep DEF IInv
<1> QED
  BY <1>1 DEF IInv

\* The step of a handler that writes nothing.
LEMMA ReadKeeps ==
  ASSUME IInv, NEW r \in Requests, UNCHANGED <<users, tokens, wrote>>,
         request' \in [Requests -> Handler], request[r].at # "answered", RequestInv(r)',
         \A q \in Requests \ {r} : request'[q] = request[q]
  PROVE  IInv'
<1>1. TypeOK' /\ TokensOwned' /\ EmailsUnique' /\ PasswordsWritten'
  BY DEF IInv, TypeOK, TokensOwned, EmailsUnique, PasswordsWritten, Has
<1>2. Calm
  BY Resting DEF Calm, Answered
<1> QED
  BY <1>1, <1>2, StepKeeps

-----------------------------------------------------------------------------
(* Requests begin. *)

\* What the first read of a request finds.
Found(h) ==
  /\ h.at \in {"checked", "ending", "answered", "failed"}
  /\ h.kind \in {"updateMe", "change"} => Has(h.user)
  /\ h.kind = "forgot" =>
       (h.at = "checked" /\ Has(h.user)) \/ (h.at = "answered" /\ h.user = None)
  /\ h.kind \in {"signUp", "updateMe"} => h.email \in Emails
  /\ h.kind = "reset" =>
       (h.at = "ending" /\ h.todo = Write /\ Has(h.user) /\ Issued(h.token))
       \/ (h.at = "failed" /\ h.todo = {})
  /\ h.kind # "reset" => h.todo = {}
  /\ h.kind = "change" => h.at \in {"checked", "failed"}
  /\ h.verified = None \/ (h.verified = users[h.user].password /\ Has(h.user))

LEMMA BeginKeeps ==
  ASSUME IInv, NEW r \in Requests, NEW h \in Handler, Begin(r, h), Found(h)
  PROVE  IInv'
<1>1. /\ request' \in [Requests -> Handler]
      /\ request[r].at = "idle" /\ request'[r].before = Answered
      /\ request'[r].kind = h.kind /\ request'[r].at = h.at /\ request'[r].user = h.user
      /\ request'[r].email = h.email /\ request'[r].token = h.token
      /\ request'[r].todo = h.todo /\ request'[r].verified = h.verified
      /\ \A q \in Requests \ {r} : request'[q] = request[q]
      /\ UNCHANGED <<users, tokens, wrote>>
  BY BeginEffect DEF IInv, TypeOK
<1>2. Answered \subseteq Answered'
  BY <1>1 DEF Answered
<1>3. \A x : (Has(x) => Has(x)') /\ (Issued(x) => Issued(x)')
  BY <1>1 DEF Has, Issued
<1>4. Known(r)'
  BY <1>1, <1>2, <1>3 DEF Known, Found
<1>5. Landed(r)'
  BY <1>1 DEF Landed, Found, Write
<1>6. Purged(r)'
  <2>1. \A t \in Tokens : tokens[t] # None => tokens[t].user # None
    BY NoneIsNoRow DEF IInv, TokensOwned, Has
  <2> QED
    BY <1>1, <2>1 DEF Purged, Found
<1>7. r \notin wrote
  BY <1>1 DEF IInv, RequestInv, Fresh, Pending
<1>8. Fresh(r)'
  <2>1. h.verified \in wrote \cup {None}
    BY DEF Found, IInv, PasswordsWritten, Has
  <2> QED
    BY <1>1, <1>7, <2>1 DEF Fresh
<1>9. Replaced(r)'
  BY <1>1, <1>7 DEF Replaced, Found
<1> QED
  BY <1>1, <1>4, <1>5, <1>6, <1>8, <1>9, ReadKeeps DEF RequestInv

\* The row of an account, if any, is one of Users.
LEMMA FoundUser == ASSUME NEW e, NEW u \in findByEmail(e) PROVE Has(u)
BY DEF findByEmail, Has

LEMMA SignUpKeeps ==
  ASSUME IInv, NEW r \in Requests, NEW e \in Emails, SignUp(r, e)
  PROVE  IInv'
<1> DEFINE at == IF findByEmail(e) = {} THEN "checked" ELSE "failed"
           h  == [Idle EXCEPT !.kind = "signUp", !.email = lower[e], !.at = at]
<1>1. at \in {"checked", "failed"}
  OBVIOUS
<1>2. Begin(r, h)
  BY DEF SignUp
<1> HIDE DEF at
<1>3. h \in Handler /\ h.kind = "signUp" /\ h.at = at /\ h.email = lower[e] /\ h.todo = {} /\ h.verified = None
  BY <1>1, LowerIsEmail DEF Idle, Handler
<1>4. Found(h)
  BY <1>1, <1>3, LowerIsEmail DEF Found
<1> QED
  BY <1>2, <1>3, <1>4, BeginKeeps

LEMMA UpdateMeKeeps ==
  ASSUME IInv, NEW r \in Requests, NEW u \in Users, NEW e \in Emails, UpdateMe(r, u, e)
  PROVE  IInv'
<1> DEFINE at == IF findByEmail(e) \subseteq {u} THEN "checked" ELSE "failed"
           h  == [Idle EXCEPT !.kind = "updateMe", !.user = u, !.email = e, !.at = at]
<1>1. at \in {"checked", "failed"}
  OBVIOUS
<1>2. Begin(r, h) /\ Has(u)
  BY DEF UpdateMe, Has
<1> HIDE DEF at
<1>3. h \in Handler /\ h.kind = "updateMe" /\ h.at = at /\ h.email = e /\ h.todo = {} /\ h.user = u /\ h.verified = None
  BY <1>1 DEF Idle, Handler
<1>4. Found(h)
  BY <1>1, <1>2, <1>3 DEF Found
<1> QED
  BY <1>2, <1>3, <1>4, BeginKeeps

LEMMA ForgotKeeps ==
  ASSUME IInv, NEW r \in Requests, NEW e \in Emails, Forgot(r, e)
  PROVE  IInv'
<1>1. CASE findByEmail(e) = {}
  <2> DEFINE h == [Idle EXCEPT !.kind = "forgot", !.at = "answered"]
  <2>1. h \in Handler /\ h.kind = "forgot" /\ h.at = "answered" /\ h.user = None /\ h.todo = {} /\ h.verified = None
    BY DEF Idle, Handler
  <2>2. Begin(r, h)
    BY <1>1 DEF Forgot
  <2> QED
    BY <2>1, <2>2, BeginKeeps DEF Found
<1>2. CASE findByEmail(e) # {}
  <2>1. PICK u \in findByEmail(e) : Begin(r, [Idle EXCEPT !.kind = "forgot", !.at = "checked", !.user = u])
    BY <1>2 DEF Forgot
  <2> DEFINE h == [Idle EXCEPT !.kind = "forgot", !.at = "checked", !.user = u]
  <2>2. Has(u)
    BY FoundUser
  <2>3. h \in Handler /\ h.kind = "forgot" /\ h.at = "checked" /\ h.user = u /\ h.todo = {} /\ h.verified = None
    BY <2>2 DEF Idle, Handler, Has
  <2> QED
    BY <2>1, <2>2, <2>3, BeginKeeps DEF Found
<1> QED
  BY <1>1, <1>2

LEMMA ResetKeeps ==
  ASSUME IInv, NEW r \in Requests, NEW t \in Tokens, Reset(r, t)
  PROVE  IInv'
<1>1. CASE Valid(t)
  <2> DEFINE h == [Idle EXCEPT !.kind = "reset", !.at = "ending", !.user = tokens[t].user,
                               !.token = t, !.todo = Write]
  <2>1. Has(tokens[t].user) /\ Issued(t)
    BY <1>1 DEF IInv, TokensOwned, Valid, Issued
  <2>2. /\ h \in Handler /\ h.kind = "reset" /\ h.at = "ending" /\ h.user = tokens[t].user
        /\ h.token = t /\ h.todo = Write /\ h.verified = None
    BY <2>1 DEF Idle, Handler, Has
  <2>3. Begin(r, h)
    BY <1>1 DEF Reset
  <2>4. Found(h)
    BY <2>1, <2>2 DEF Found
  <2> QED
    BY <2>2, <2>3, <2>4, BeginKeeps
<1>2. CASE ~ Valid(t)
  <2> DEFINE h == [Idle EXCEPT !.kind = "reset", !.at = "failed"]
  <2>1. h \in Handler /\ h.kind = "reset" /\ h.at = "failed" /\ h.todo = {} /\ h.verified = None
    BY DEF Idle, Handler
  <2>2. Begin(r, h)
    BY <1>2 DEF Reset
  <2> QED
    BY <2>1, <2>2, BeginKeeps DEF Found
<1> QED
  BY <1>1, <1>2

LEMMA ChangeKeeps ==
  ASSUME IInv, NEW r \in Requests, NEW u \in Users, Change(r, u)
  PROVE  IInv'
<1>1. PICK at \in {"checked", "failed"} :
        Begin(r, [Idle EXCEPT !.kind = "change", !.at = at, !.user = u, !.verified = users[u].password])
  BY DEF Change
<1> DEFINE h == [Idle EXCEPT !.kind = "change", !.at = at, !.user = u, !.verified = users[u].password]
<1>2. Has(u)
  BY DEF Change, Has
<1>3. users[u].password \in Requests \cup {None}
  BY <1>2 DEF IInv, TypeOK, Has, User
<1>4. /\ h \in Handler /\ h.kind = "change" /\ h.at = at /\ h.user = u /\ h.todo = {}
      /\ h.verified = users[u].password
  BY <1>3 DEF Idle, Handler
<1>5. Found(h)
  BY <1>2, <1>4 DEF Found
<1> QED
  BY <1>1, <1>4, <1>5, BeginKeeps

-----------------------------------------------------------------------------
(* Answers, and calls that are rejected. *)

LEMMA AnswerKeeps ==
  ASSUME IInv, NEW r \in Requests, Answer(r)
  PROVE  IInv'
<1>1. /\ request' \in [Requests -> Handler]
      /\ Moved(request'[r], request[r], "answered", request[r].todo)
      /\ \A q \in Requests \ {r} : request'[q] = request[q]
  BY GotoEffect DEF IInv, TypeOK, Answer, At
<1>2. /\ request[r].at = "ending" /\ request[r].todo = {} /\ UNCHANGED <<users, tokens, wrote>>
      /\ RequestInv(r)
  BY DEF Answer, IInv
<1>3. Answered \subseteq Answered'
  BY <1>1, <1>2 DEF Answered
<1>4. \A x : (Has(x) => Has(x)') /\ (Issued(x) => Issued(x)')
  BY <1>2 DEF Has, Issued
<1>5. Known(r)'
  BY <1>1, <1>2, <1>3, <1>4 DEF Moved, RequestInv, Known
<1>6. Landed(r)' /\ Purged(r)' /\ Fresh(r)' /\ Replaced(r)'
  BY <1>1, <1>2 DEF Moved, RequestInv, Landed, Purged, Fresh, Pending, Replaced, Valid
<1> QED
  BY <1>1, <1>2, <1>5, <1>6, ReadKeeps DEF RequestInv

LEMMA AbandonKeeps ==
  ASSUME IInv, NEW r \in Requests, Abandon(r)
  PROVE  IInv'
<1>1. /\ request' \in [Requests -> Handler]
      /\ Moved(request'[r], request[r], "failed", request[r].todo)
      /\ \A q \in Requests \ {r} : request'[q] = request[q]
  BY GotoEffect DEF IInv, TypeOK, Abandon, At
<1>2. /\ request[r].at \in {"checked", "issuing", "ending"} /\ UNCHANGED <<users, tokens, wrote>>
      /\ RequestInv(r)
  BY DEF Abandon, IInv
<1>3. Answered \subseteq Answered'
  BY <1>1, <1>2 DEF Answered
<1>4. \A x : (Has(x) => Has(x)') /\ (Issued(x) => Issued(x)')
  BY <1>2 DEF Has, Issued
<1>5. Known(r)'
  BY <1>1, <1>2, <1>3, <1>4 DEF Moved, RequestInv, Known
<1>6. Landed(r)' /\ Purged(r)' /\ Fresh(r)' /\ Replaced(r)'
  BY <1>1, <1>2 DEF Moved, RequestInv, Landed, Purged, Fresh, Pending, Replaced
<1> QED
  BY <1>1, <1>2, <1>5, <1>6, ReadKeeps DEF RequestInv

LEMMA UpdateRejectedKeeps ==
  ASSUME IInv, NEW r \in Requests, NEW w \in Write, UpdateRejected(r, w)
  PROVE  IInv'
<1>1. /\ request' \in [Requests -> Handler]
      /\ Moved(request'[r], request[r], "failed", request[r].todo \ {w})
      /\ \A q \in Requests \ {r} : request'[q] = request[q]
  <2>1. "failed" \in At
    BY DEF At
  <2> QED
    BY <2>1, UpdateEffect DEF IInv, TypeOK, UpdateRejected
<1>2. w \in request[r].todo /\ UNCHANGED <<users, tokens, wrote>> /\ RequestInv(r)
  BY DEF UpdateRejected, IInv
<1>3. request[r].kind = "reset" /\ request[r].at # "answered"
  BY <1>2 DEF RequestInv, Known
<1>4. Answered \subseteq Answered'
  BY <1>1, <1>3 DEF Answered
<1>5. \A x : (Has(x) => Has(x)') /\ (Issued(x) => Issued(x)')
  BY <1>2 DEF Has, Issued
<1>6. Known(r)'
  BY <1>1, <1>2, <1>3, <1>4, <1>5 DEF Moved, RequestInv, Known
<1>7. Landed(r)' /\ Purged(r)' /\ Fresh(r)' /\ Replaced(r)'
  BY <1>1, <1>2 DEF Moved, RequestInv, Landed, Purged, Fresh, Pending, Replaced
<1> QED
  BY <1>1, <1>2, <1>3, <1>6, <1>7, ReadKeeps DEF RequestInv

-----------------------------------------------------------------------------
(* Rows are written. *)

\* A password of a request that was not answered is stored.
LEMMA PasswordCalm ==
  ASSUME IInv, NEW r \in Requests, request[r].at # "answered", r \notin wrote, Has(request[r].user),
         users' = [users EXCEPT ![request[r].user].password = r],
         wrote' = wrote \cup {r}, tokens' = tokens,
         request' \in [Requests -> Handler],
         \A q \in Requests \ {r} : request'[q] = request[q]
  PROVE  /\ TypeOK' /\ TokensOwned' /\ EmailsUnique' /\ PasswordsWritten' /\ Calm
         /\ users'[request[r].user].password = r
         /\ \A x : (Has(x) => Has(x)') /\ (Issued(x) => Issued(x)')
<1> DEFINE u == request[r].user
<1>1. u \in Users /\ users[u] # None /\ TypeOK
  BY DEF Has, IInv
<1>2. /\ users' \in [Users -> User \cup {None}]
      /\ users'[u] # None /\ users'[u].password = r /\ users'[u].email = users[u].email
      /\ \A v \in Users \ {u} : users'[v] = users[v]
  BY <1>1, PasswordStored
<1> HIDE DEF u
<1>3. TypeOK'
  BY <1>1, <1>2 DEF TypeOK
<1>4. RowsKept
  BY <1>1, <1>2 DEF RowsKept
<1>5. EmailsUnique'
  <2> SUFFICES ASSUME NEW v \in Users, NEW w \in Users, users'[v] # None, users'[w] # None,
                      users'[v].email = users'[w].email
               PROVE  v = w
    BY DEF EmailsUnique
  <2>1. users[v] # None /\ users'[v].email = users[v].email
    BY <1>1, <1>2
  <2>2. users[w] # None /\ users'[w].email = users[w].email
    BY <1>1, <1>2
  <2> QED
    BY <2>1, <2>2 DEF IInv, EmailsUnique
<1>6. TokensSpoil
  BY DEF TokensSpoil
<1>7. AnsweredRest
  BY <1>1, <1>2 DEF AnsweredRest, Answered
<1>8. Answered \subseteq Answered' /\ wrote \subseteq wrote'
  BY DEF Answered
<1>9. TokensOwned'
  BY <1>4, OwnersKept DEF IInv
<1>10. PasswordsWritten'
  BY <1>1, <1>2 DEF IInv, PasswordsWritten
<1>11. users'[request[r].user].password = r
  BY <1>2 DEF u
<1> QED
  BY <1>3, <1>4, <1>5, <1>6, <1>7, <1>8, <1>9, <1>10, <1>11 DEF Calm, RowsKept, Has, Issued

LEMMA StorePasswordKeeps ==
  ASSUME IInv, NEW r \in Requests, StorePassword(r)
  PROVE  IInv'
<1>1. /\ "password" \in request[r].todo /\ tokens' = tokens /\ wrote' = wrote \cup {r}
      /\ users' = [users EXCEPT ![request[r].user].password = r] /\ RequestInv(r) /\ TypeOK
  BY DEF StorePassword, IInv
<1>2. request[r].kind = "reset" /\ request[r].at # "answered" /\ Has(request[r].user) /\ Issued(request[r].token)
  BY <1>1 DEF RequestInv, Known
<1>3. /\ request' \in [Requests -> Handler]
      /\ Moved(request'[r], request[r], request[r].at, request[r].todo \ {"password"})
      /\ \A q \in Requests \ {r} : request'[q] = request[q]
  <2>1. request[r].at \in At /\ "password" \in Write
    BY <1>1 DEF TypeOK, Handler, At, Write
  <2> QED
    BY <1>1, <2>1, UpdateEffect DEF TypeOK, StorePassword
<1>4. /\ r \notin wrote
      /\ TypeOK' /\ TokensOwned' /\ EmailsUnique' /\ PasswordsWritten' /\ Calm
      /\ users'[request[r].user].password = r
      /\ \A x : (Has(x) => Has(x)') /\ (Issued(x) => Issued(x)')
  <2>1. r \notin wrote
    BY <1>1 DEF RequestInv, Fresh, Pending
  <2> QED
    BY <1>1, <1>2, <1>3, <2>1, PasswordCalm
<1>5. Known(r)'
  BY <1>1, <1>2, <1>3, <1>4 DEF Moved, RequestInv, Known, Calm
<1>6. Landed(r)'
  BY <1>1, <1>3 DEF Moved, RequestInv, Landed, Valid
<1>7. Purged(r)' /\ Fresh(r)'
  BY <1>1, <1>2, <1>3 DEF Moved, RequestInv, Known, Purged, Fresh, Pending
<1>8. Replaced(r)'
  <2>1. r \notin request[r].before \cup {request[r].verified}
    BY <1>1, <1>2, <1>4, NoneIsNoRow DEF RequestInv, Known, Fresh, Answered
  <2> QED
    BY <1>2, <1>3, <1>4, <2>1 DEF Moved, Replaced
<1> QED
  BY <1>1, <1>3, <1>4, <1>5, <1>6, <1>7, <1>8, StepKeeps DEF RequestInv

LEMMA StoreChangeKeeps ==
  ASSUME IInv, NEW r \in Requests, StoreChange(r)
  PROVE  IInv'
<1>1. /\ request[r].kind = "change" /\ request[r].at = "checked" /\ tokens' = tokens /\ wrote' = wrote \cup {r}
      /\ users' = [users EXCEPT ![request[r].user].password = r] /\ RequestInv(r) /\ TypeOK
  BY DEF StoreChange, Goes, IInv
<1>2. Has(request[r].user)
  BY <1>1 DEF RequestInv, Known
<1>3. /\ request' \in [Requests -> Handler]
      /\ Moved(request'[r], request[r], "ending", request[r].todo)
      /\ \A q \in Requests \ {r} : request'[q] = request[q]
  BY <1>1, GotoEffect DEF TypeOK, StoreChange, At
<1>4. /\ r \notin wrote
      /\ TypeOK' /\ TokensOwned' /\ EmailsUnique' /\ PasswordsWritten' /\ Calm
      /\ users'[request[r].user].password = r
      /\ \A x : (Has(x) => Has(x)') /\ (Issued(x) => Issued(x)')
  <2>1. r \notin wrote
    BY <1>1 DEF RequestInv, Fresh, Pending
  <2> QED
    BY <1>1, <1>2, <1>3, <2>1, PasswordCalm
<1>5. Known(r)'
  BY <1>1, <1>2, <1>3, <1>4 DEF Moved, RequestInv, Known, Calm
<1>6. Landed(r)' /\ Purged(r)' /\ Fresh(r)'
  BY <1>1, <1>3 DEF Moved, RequestInv, Known, Landed, Purged, Fresh, Pending
<1>7. Replaced(r)'
  <2>1. r \notin request[r].before \cup {request[r].verified}
    BY <1>1, <1>4, NoneIsNoRow DEF RequestInv, Known, Fresh, Answered
  <2> QED
    BY <1>1, <1>3, <1>4, <2>1 DEF Moved, Replaced
<1> QED
  BY <1>1, <1>3, <1>4, <1>5, <1>6, <1>7, StepKeeps DEF RequestInv

LEMMA CreateUserKeeps ==
  ASSUME IInv, NEW r \in Requests, NEW u \in Users, CreateUser(r, u)
  PROVE  IInv'
<1> DEFINE e == request[r].email
           h == [[request[r] EXCEPT !.at = "ending"] EXCEPT !.user = u]
<1>1. /\ request[r].kind = "signUp" /\ request[r].at = "checked" /\ users[u] = None /\ Free(e, u)
      /\ users' = [users EXCEPT ![u] = [email |-> e, password |-> r]]
      /\ tokens' = tokens /\ wrote' = wrote \cup {r} /\ RequestInv(r) /\ TypeOK
  BY DEF CreateUser, Goes, IInv
<1>2. e \in Emails
  BY <1>1 DEF RequestInv, Known
<1>3. [email |-> e, password |-> r] \in User
  BY <1>2 DEF User
<1>4. /\ users' \in [Users -> User \cup {None}] /\ users'[u] # None /\ users'[u].email = e
      /\ users'[u].password = r
      /\ \A v \in Users \ {u} : users'[v] = users[v]
  BY <1>1, <1>3, NoneIsNoRow DEF TypeOK
<1>5. request[r] \in Handler
  BY <1>1 DEF TypeOK
<1>6. /\ h \in Handler /\ h.kind = "signUp" /\ h.at = "ending"
      /\ h.todo = request[r].todo /\ h.before = request[r].before
      /\ h.verified = request[r].verified
  BY <1>1, <1>5 DEF Handler
<1>7. request' = [request EXCEPT ![r] = h]
  BY DEF CreateUser
<1> HIDE DEF h, e
<1>8. /\ request' \in [Requests -> Handler] /\ request'[r] = h
      /\ \A q \in Requests \ {r} : request'[q] = request[q]
  BY <1>1, <1>6, <1>7 DEF TypeOK
<1>9. TypeOK'
  BY <1>1, <1>4, <1>8 DEF TypeOK
<1>10. RowsKept
  BY <1>1, <1>4 DEF RowsKept
<1>11. TokensOwned'
  BY <1>1, <1>10, OwnersKept DEF IInv
<1>12. EmailsUnique'
  <2> SUFFICES ASSUME NEW v \in Users, NEW w \in Users, users'[v] # None, users'[w] # None,
                      users'[v].email = users'[w].email
               PROVE  v = w
    BY DEF EmailsUnique
  <2>1. CASE v = u
    BY <1>1, <1>4, <2>1 DEF Free
  <2>2. CASE w = u
    BY <1>1, <1>4, <2>2 DEF Free
  <2>3. CASE v # u /\ w # u
    BY <1>4, <2>3 DEF IInv, EmailsUnique
  <2> QED
    BY <2>1, <2>2, <2>3
<1>13. TokensSpoil /\ AnsweredRest
  <2>1. \A v \in Users : users[v] # None => users'[v] = users[v]
    BY <1>1, <1>4
  <2> QED
    BY <1>1, <2>1 DEF TokensSpoil, AnsweredRest
<1>14. Calm
  BY <1>1, <1>8, <1>10, <1>13 DEF Calm, Answered
<1>15. Known(r)'
  BY <1>1, <1>6, <1>8, <1>14 DEF RequestInv, Known, Calm
<1>16. Landed(r)' /\ Purged(r)' /\ Replaced(r)'
  BY <1>6, <1>8 DEF Landed, Purged, Replaced
<1>17. Fresh(r)'
  BY <1>1, <1>6, <1>8 DEF RequestInv, Known, Fresh, Pending
<1>18. PasswordsWritten'
  BY <1>1, <1>4 DEF IInv, PasswordsWritten
<1> QED
  BY <1>1, <1>8, <1>9, <1>11, <1>12, <1>14, <1>15, <1>16, <1>17, <1>18, StepKeeps DEF RequestInv

LEMMA SaveEmailKeeps ==
  ASSUME IInv, NEW r \in Requests, SaveEmail(r)
  PROVE  IInv'
<1> DEFINE u == request[r].user
           e == request[r].email
<1>1. /\ request[r].kind = "updateMe" /\ request[r].at = "checked" /\ Free(e, u)
      /\ users' = [users EXCEPT ![u].email = e]
      /\ tokens' = tokens /\ wrote' = wrote /\ RequestInv(r) /\ TypeOK
  BY DEF SaveEmail, Goes, IInv
<1>2. e \in Emails /\ u \in Users /\ users[u] # None
  BY <1>1 DEF RequestInv, Known, Has
<1>3. /\ users' \in [Users -> User \cup {None}]
      /\ users'[u] # None /\ users'[u].email = e /\ users'[u].password = users[u].password
      /\ \A v \in Users \ {u} : users'[v] = users[v]
  BY <1>1, <1>2, EmailSaved
<1>4. /\ request' \in [Requests -> Handler]
      /\ Moved(request'[r], request[r], "ending", request[r].todo)
      /\ \A q \in Requests \ {r} : request'[q] = request[q]
  BY <1>1, GotoEffect DEF TypeOK, SaveEmail, At
<1> HIDE DEF u, e
<1>5. TypeOK'
  BY <1>1, <1>3, <1>4 DEF TypeOK
<1>6. RowsKept
  BY <1>2, <1>3 DEF RowsKept
<1>7. TokensOwned'
  BY <1>1, <1>6, OwnersKept DEF IInv
<1>8. EmailsUnique'
  <2> SUFFICES ASSUME NEW v \in Users, NEW w \in Users, users'[v] # None, users'[w] # None,
                      users'[v].email = users'[w].email
               PROVE  v = w
    BY DEF EmailsUnique
  <2>1. CASE v = u
    BY <1>1, <1>3, <2>1 DEF Free
  <2>2. CASE w = u
    BY <1>1, <1>3, <2>2 DEF Free
  <2>3. CASE v # u /\ w # u
    BY <1>3, <2>3 DEF IInv, EmailsUnique
  <2> QED
    BY <2>1, <2>2, <2>3
<1>9. TokensSpoil /\ AnsweredRest
  <2>1. \A v \in Users : users[v] # None => users'[v].password = users[v].password
    BY <1>2, <1>3
  <2> QED
    BY <1>1, <2>1 DEF TokensSpoil, AnsweredRest
<1>10. Calm
  BY <1>1, <1>4, <1>6, <1>9 DEF Calm, Answered, Moved
<1>11. Known(r)'
  BY <1>1, <1>4, <1>10 DEF Moved, RequestInv, Known, Calm, RowsKept, Has
<1>12. Landed(r)' /\ Purged(r)' /\ Fresh(r)' /\ Replaced(r)'
  BY <1>1, <1>4 DEF Moved, RequestInv, Landed, Purged, Fresh, Pending, Replaced
<1>13. PasswordsWritten'
  BY <1>1, <1>2, <1>3 DEF IInv, PasswordsWritten
<1> QED
  BY <1>1, <1>4, <1>5, <1>7, <1>8, <1>10, <1>11, <1>12, <1>13, StepKeeps DEF RequestInv

-----------------------------------------------------------------------------
(* Tokens are deleted, issued and marked. *)

\* Nothing that was answered issues tokens: the passwords stay as they are.
LEMMA TokensCalm ==
  ASSUME IInv, users' = users, wrote' = wrote, TokensSpoil, TypeOK',
         \A t \in Tokens : tokens[t] = None /\ tokens'[t] # None =>
           Has(tokens'[t].user) /\ tokens'[t].by \in Requests \ Answered,
         Answered \subseteq Answered'
  PROVE  /\ TokensOwned' /\ EmailsUnique' /\ PasswordsWritten' /\ Calm
         /\ \A x : (Has(x) => Has(x)') /\ (Issued(x) => Issued(x)')
<1>1. \A x : (Has(x) => Has(x)') /\ (Issued(x) => Issued(x)')
  BY DEF Has, Issued, TokensSpoil
<1>2. EmailsUnique'
  BY DEF IInv, EmailsUnique
<1>3. TokensOwned'
  <2> SUFFICES ASSUME NEW t \in Tokens, tokens'[t] # None PROVE Has(tokens'[t].user)
    BY DEF TokensOwned, Has
  <2>1. CASE tokens[t] = None
    BY <2>1
  <2>2. CASE tokens[t] # None
    BY <2>2 DEF IInv, TokensOwned, TokensSpoil
  <2> QED
    BY <2>1, <2>2
<1>4. Calm
  BY DEF Calm, RowsKept, AnsweredRest
<1>5. PasswordsWritten'
  BY DEF IInv, PasswordsWritten
<1> QED
  BY <1>1, <1>2, <1>3, <1>4, <1>5

LEMMA PurgeTokensKeeps ==
  ASSUME IInv, NEW r \in Requests, PurgeTokens(r)
  PROVE  IInv'
<1> DEFINE Gone(t) == tokens[t] # None /\ tokens[t].user = request[r].user
<1>1. /\ request[r].kind = "forgot" /\ request[r].at = "checked" /\ RequestInv(r) /\ TypeOK
      /\ users' = users /\ wrote' = wrote
      /\ tokens' = [t \in Tokens |-> IF Gone(t) THEN [tokens[t] EXCEPT !.flags = @ \cup {"deleted"}]
                                     ELSE tokens[t]]
  BY DEF PurgeTokens, Goes, IInv
<1>2. /\ request' \in [Requests -> Handler]
      /\ Moved(request'[r], request[r], "issuing", request[r].todo)
      /\ \A q \in Requests \ {r} : request'[q] = request[q]
  BY <1>1, GotoEffect DEF TypeOK, PurgeTokens, At
<1>3. ASSUME NEW t \in Tokens, Gone(t)
      PROVE  /\ tokens'[t] \in Token /\ tokens'[t].flags = tokens[t].flags \cup {"deleted"}
             /\ tokens'[t].user = tokens[t].user /\ tokens'[t].by = tokens[t].by
  <2>1. tokens[t] \in Token
    BY <1>1, <1>3 DEF TypeOK
  <2>2. tokens[t].flags \cup {"deleted"} \in SUBSET Flag
    BY <2>1 DEF Token, Flag
  <2>3. tokens'[t] = [tokens[t] EXCEPT !.flags = tokens[t].flags \cup {"deleted"}]
    BY <1>1, <1>3
  <2> QED
    BY <2>1, <2>2, <2>3, Flagged
<1>4. ASSUME NEW t \in Tokens, ~ Gone(t) PROVE tokens'[t] = tokens[t]
  BY <1>1, <1>4
<1>5. tokens' \in [Tokens -> Token \cup {None}]
  <2>1. \A t \in Tokens : tokens'[t] \in Token \cup {None}
    BY <1>1, <1>3, <1>4 DEF TypeOK
  <2> QED
    BY <1>1, <2>1
<1>6. TokensSpoil
  <2> SUFFICES ASSUME NEW t \in Tokens, tokens[t] # None
               PROVE  /\ tokens'[t] # None /\ tokens'[t].user = tokens[t].user /\ tokens'[t].by = tokens[t].by
                      /\ tokens[t].flags \subseteq tokens'[t].flags
    BY DEF TokensSpoil
  <2> QED
    BY <1>3, <1>4, NoneIsNoRow
<1>7. TypeOK'
  BY <1>1, <1>2, <1>5 DEF TypeOK
<1>8. Answered \subseteq Answered'
  BY <1>1, <1>2 DEF Answered, Moved
<1>9. /\ TokensOwned' /\ EmailsUnique' /\ PasswordsWritten' /\ Calm
      /\ \A x : (Has(x) => Has(x)') /\ (Issued(x) => Issued(x)')
  <2>1. \A t \in Tokens : tokens[t] = None => tokens'[t] = None
    BY <1>4
  <2> QED
    BY <1>1, <1>6, <1>7, <1>8, <2>1, TokensCalm
<1>10. Known(r)'
  BY <1>1, <1>2, <1>8, <1>9 DEF Moved, RequestInv, Known
<1>11. Purged(r)'
  <2> SUFFICES ASSUME NEW t \in Tokens, tokens'[t] # None, tokens'[t].user = request[r].user,
                      tokens'[t].by \in request[r].before
               PROVE  ~ Valid(t)'
    BY <1>2 DEF Purged, Moved
  <2>1. Gone(t)
    BY <1>4
  <2> QED
    BY <1>3, <2>1 DEF Valid
<1>12. Landed(r)' /\ Fresh(r)' /\ Replaced(r)'
  BY <1>1, <1>2 DEF Moved, RequestInv, Landed, Fresh, Pending, Replaced
<1> QED
  BY <1>1, <1>2, <1>7, <1>9, <1>10, <1>11, <1>12, StepKeeps DEF RequestInv

LEMMA IssueTokenKeeps ==
  ASSUME IInv, NEW r \in Requests, NEW t \in Tokens, IssueToken(r, t)
  PROVE  IInv'
<1> DEFINE k == [user |-> request[r].user, by |-> r, flags |-> {}]
<1>1. /\ request[r].kind = "forgot" /\ request[r].at = "issuing" /\ RequestInv(r) /\ TypeOK
      /\ tokens[t] = None /\ users' = users /\ wrote' = wrote /\ tokens' = [tokens EXCEPT ![t] = k]
  BY DEF IssueToken, Goes, IInv
<1>2. /\ request' \in [Requests -> Handler]
      /\ Moved(request'[r], request[r], "ending", request[r].todo)
      /\ \A q \in Requests \ {r} : request'[q] = request[q]
  BY <1>1, GotoEffect DEF TypeOK, IssueToken, At
<1>3. Has(request[r].user)
  BY <1>1 DEF RequestInv, Known
<1>4. k \in Token /\ k.user = request[r].user /\ k.by = r
  BY <1>3 DEF Has, Token, Flag
<1> HIDE DEF k
<1>5. /\ tokens' \in [Tokens -> Token \cup {None}] /\ tokens'[t] = k
      /\ \A s \in Tokens \ {t} : tokens'[s] = tokens[s]
  BY <1>1, <1>4 DEF TypeOK
<1>6. TokensSpoil
  BY <1>1, <1>5 DEF TokensSpoil
<1>7. TypeOK'
  BY <1>1, <1>2, <1>5 DEF TypeOK
<1>8. Answered \subseteq Answered' /\ r \in Requests \ Answered
  BY <1>1, <1>2 DEF Answered, Moved
<1>9. /\ TokensOwned' /\ EmailsUnique' /\ PasswordsWritten' /\ Calm
      /\ \A x : (Has(x) => Has(x)') /\ (Issued(x) => Issued(x)')
  <2>1. \A s \in Tokens : tokens[s] = None /\ tokens'[s] # None =>
          Has(tokens'[s].user) /\ tokens'[s].by \in Requests \ Answered
    BY <1>3, <1>4, <1>5, <1>8
  <2> QED
    BY <1>1, <1>6, <1>7, <1>8, <2>1, TokensCalm
<1>10. Known(r)'
  BY <1>1, <1>2, <1>8, <1>9 DEF Moved, RequestInv, Known
<1>11. Purged(r)'
  <2> SUFFICES ASSUME NEW s \in Tokens, tokens'[s] # None, tokens'[s].user = request[r].user,
                      tokens'[s].by \in request[r].before
               PROVE  ~ Valid(s)'
    BY <1>2 DEF Purged, Moved
  <2>1. s # t
    BY <1>1, <1>4, <1>5, <1>8 DEF RequestInv, Known
  <2>2. tokens'[s] = tokens[s]
    BY <1>5, <2>1
  <2> QED
    BY <1>1, <2>2 DEF RequestInv, Purged, Valid
<1>12. Landed(r)' /\ Fresh(r)' /\ Replaced(r)'
  BY <1>1, <1>2 DEF Moved, RequestInv, Landed, Fresh, Pending, Replaced
<1> QED
  BY <1>1, <1>2, <1>7, <1>9, <1>10, <1>11, <1>12, StepKeeps DEF RequestInv

LEMMA MarkUsedKeeps ==
  ASSUME IInv, NEW r \in Requests, MarkUsed(r)
  PROVE  IInv'
<1> DEFINE t == request[r].token
           F == IF "deleted" \in tokens[t].flags THEN tokens[t].flags ELSE tokens[t].flags \cup {"used"}
<1>1. /\ "mark" \in request[r].todo /\ RequestInv(r) /\ TypeOK
      /\ users' = users /\ wrote' = wrote /\ tokens' = [tokens EXCEPT ![t].flags = F]
  BY DEF MarkUsed, IInv
<1>2. request[r].kind = "reset" /\ request[r].at # "answered" /\ Has(request[r].user) /\ Issued(t)
  BY <1>1 DEF RequestInv, Known
<1>3. /\ request' \in [Requests -> Handler]
      /\ Moved(request'[r], request[r], request[r].at, request[r].todo \ {"mark"})
      /\ \A q \in Requests \ {r} : request'[q] = request[q]
  <2>1. request[r].at \in At /\ "mark" \in Write
    BY <1>1 DEF TypeOK, Handler, At, Write
  <2> QED
    BY <1>1, <2>1, UpdateEffect DEF TypeOK, MarkUsed
<1>4. F \in SUBSET Flag /\ tokens[t].flags \subseteq F /\ F # {}
  <2>1. tokens[t] \in Token
    BY <1>1, <1>2 DEF TypeOK, Issued
  <2> QED
    BY <2>1 DEF Token, Flag
<1> HIDE DEF F, t
<1>5. /\ tokens' \in [Tokens -> Token \cup {None}]
      /\ tokens'[t] # None /\ tokens'[t].flags = F
      /\ \A s \in Tokens \ {t} : tokens'[s] = tokens[s]
      /\ TokensSpoil
  BY <1>1, <1>2, <1>4, TokenFlagged DEF Issued
<1>6. TypeOK'
  BY <1>1, <1>3, <1>5 DEF TypeOK
<1>7. Answered \subseteq Answered'
  BY <1>2, <1>3 DEF Answered, Moved
<1>8. /\ TokensOwned' /\ EmailsUnique' /\ PasswordsWritten' /\ Calm
      /\ \A x : (Has(x) => Has(x)') /\ (Issued(x) => Issued(x)')
  <2>1. \A s \in Tokens : tokens[s] = None => tokens'[s] = None
    BY <1>2, <1>5 DEF Issued
  <2> QED
    BY <1>1, <1>5, <1>6, <1>7, <2>1, TokensCalm
<1>9. Known(r)'
  BY <1>1, <1>2, <1>3, <1>7, <1>8 DEF Moved, RequestInv, Known, t
<1>10. ~ Valid(t)'
  BY <1>3, <1>4, <1>5 DEF Valid, Moved, t
<1>11. Landed(r)'
  BY <1>1, <1>3, <1>10 DEF Moved, RequestInv, Landed, t
<1>12. Purged(r)' /\ Fresh(r)' /\ Replaced(r)'
  BY <1>1, <1>2, <1>3 DEF Moved, RequestInv, Purged, Fresh, Pending, Replaced
<1> QED
  BY <1>1, <1>3, <1>6, <1>8, <1>9, <1>11, <1>12, StepKeeps DEF RequestInv

LEMMA ExpireKeeps ==
  ASSUME IInv, NEW t \in Tokens, Expire(t)
  PROVE  IInv'
<1> DEFINE F == tokens[t].flags \cup {"expired"}
<1>1. /\ tokens[t] # None /\ TypeOK /\ UNCHANGED <<users, request, wrote>>
      /\ tokens' = [tokens EXCEPT ![t].flags = F]
  BY DEF Expire, IInv
<1>2. F \in SUBSET Flag /\ tokens[t].flags \subseteq F
  <2>1. tokens[t] \in Token
    BY <1>1 DEF TypeOK
  <2> QED
    BY <2>1 DEF Token, Flag
<1> HIDE DEF F
<1>3. /\ tokens' \in [Tokens -> Token \cup {None}]
      /\ \A s \in Tokens \ {t} : tokens'[s] = tokens[s]
      /\ TokensSpoil
  BY <1>1, <1>2, TokenFlagged
<1>4. TypeOK' /\ Answered \subseteq Answered'
  BY <1>1, <1>3 DEF TypeOK, Answered
<1>5. TokensOwned' /\ EmailsUnique' /\ PasswordsWritten' /\ Calm
  <2>1. \A s \in Tokens : tokens[s] = None => tokens'[s] = None
    BY <1>1, <1>3
  <2> QED
    BY <1>1, <1>3, <1>4, <2>1, TokensCalm
<1>6. \A q \in Requests : RequestInv(q)'
  BY <1>1, <1>4, <1>5, OthersKeep DEF IInv
<1> QED
  BY <1>4, <1>5, <1>6 DEF IInv

-----------------------------------------------------------------------------
(* The theorems *)

LEMMA InitIInv == Init => IInv
<1> SUFFICES ASSUME Init PROVE IInv
  OBVIOUS
<1>1. TypeOK
  <2>1. users \in [Users -> User \cup {None}]
    BY LowerIsEmail DEF Init, User
  <2>2. request \in [Requests -> Handler]
    BY DEF Init, Idle, Handler
  <2> QED
    BY <2>1, <2>2 DEF Init, TypeOK
<1>2. EmailsUnique /\ TokensOwned /\ PasswordsWritten
  <2>1. PasswordsWritten
    BY DEF Init, PasswordsWritten
  <2> QED
    BY <2>1 DEF Init, EmailsUnique, TokensOwned
<1>3. ASSUME NEW r \in Requests PROVE RequestInv(r)
  <2>1. request[r].kind = "none" /\ request[r].at = "idle" /\ request[r].todo = {} /\ request[r].before = {}
       /\ request[r].verified = None /\ r \notin wrote
    BY DEF Init, Idle
  <2> QED
    BY <2>1 DEF RequestInv, Known, Landed, Purged, Fresh, Replaced
<1> QED
  BY <1>1, <1>2, <1>3 DEF IInv

LEMMA NextIInv == IInv /\ [Next]_vars => IInv'
<1> SUFFICES ASSUME IInv, [Next]_vars PROVE IInv'
  OBVIOUS
<1>1. ASSUME NEW r \in Requests, Step(r) PROVE IInv'
  <2>1. ASSUME NEW e \in Emails, SignUp(r, e) \/ Forgot(r, e) \/ \E u \in Users : UpdateMe(r, u, e)
        PROVE  IInv'
    BY <2>1, SignUpKeeps, ForgotKeeps, UpdateMeKeeps
  <2>2. ASSUME NEW u \in Users, CreateUser(r, u) \/ Change(r, u) PROVE IInv'
    BY <2>2, CreateUserKeeps, ChangeKeeps
  <2>3. ASSUME NEW t \in Tokens, IssueToken(r, t) \/ Reset(r, t) PROVE IInv'
    BY <2>3, IssueTokenKeeps, ResetKeeps
  <2>4. ASSUME NEW w \in Write, UpdateRejected(r, w) PROVE IInv'
    BY <2>4, UpdateRejectedKeeps
  <2>5. CASE SaveEmail(r) \/ PurgeTokens(r) \/ StorePassword(r) \/ MarkUsed(r) \/ StoreChange(r)
    BY <2>5, SaveEmailKeeps, PurgeTokensKeeps, StorePasswordKeeps, MarkUsedKeeps, StoreChangeKeeps
  <2>6. CASE Answer(r) \/ Abandon(r)
    BY <2>6, AnswerKeeps, AbandonKeeps
  <2> QED
    BY <1>1, <2>1, <2>2, <2>3, <2>4, <2>5, <2>6 DEF Step
<1>2. CASE UNCHANGED vars
  BY <1>2 DEF vars, IInv, TypeOK, TokensOwned, EmailsUnique, PasswordsWritten, RequestInv, Known,
              Landed, Purged, Fresh, Pending, Replaced, Has, Issued, Valid, Answered
<1> QED
  BY <1>1, <1>2, ExpireKeeps DEF Next

\* The inductive invariant holds in every state.
THEOREM Invariant == Spec => []IInv
BY InitIInv, NextIInv, PTL DEF Spec

\* Every variable has its type.
THEOREM TypeCorrect == Spec => []TypeOK
<1>1. IInv => TypeOK
  BY DEF IInv
<1> QED
  BY <1>1, Invariant, PTL

\* Sign-ups and profile updates that race leave an e-mail with one account.
THEOREM EmailsStayUnique == Spec => []EmailsUnique
<1>1. IInv => EmailsUnique
  BY DEF IInv
<1> QED
  BY <1>1, Invariant, PTL

\* A reset that was answered has stored its password and spent its token.
THEOREM ResetSpends == Spec => []ResetSpendsToken
<1>1. ASSUME IInv PROVE ResetSpendsToken
  <2> SUFFICES ASSUME NEW r \in Requests, request[r].at = "answered", request[r].kind = "reset"
               PROVE  r \in wrote /\ ~ Valid(request[r].token)
    BY DEF ResetSpendsToken, Answered
  <2>1. RequestInv(r)
    BY <1>1 DEF IInv
  <2>2. request[r].todo = {}
    BY <2>1 DEF RequestInv, Known
  <2> QED
    BY <2>1, <2>2 DEF RequestInv, Landed
<1> QED
  BY <1>1, Invariant, PTL

\* A token superseded by a later request is refused once that one is answered.
THEOREM SupersededStaysRefused == Spec => []SupersededRefused
<1>1. ASSUME IInv PROVE SupersededRefused
  <2> SUFFICES ASSUME NEW r \in Requests, request[r].at = "answered", request[r].kind = "forgot",
                      NEW t \in Tokens, tokens[t] # None, tokens[t].user = request[r].user,
                      tokens[t].by \in request[r].before
               PROVE  ~ Valid(t)
    BY DEF SupersededRefused, Answered
  <2>1. Purged(r)
    BY <1>1 DEF IInv, RequestInv
  <2> QED
    BY <2>1 DEF Purged
<1> QED
  BY <1>1, Invariant, PTL

\* A password that a reset or a change, once answered, has replaced never opens the
\* account again, whatever other requests still have under way.
THEOREM ReplacedPasswordsStayOut == Spec => []ReplacedStaysOut
<1>1. ASSUME IInv PROVE ReplacedStaysOut
  <2> SUFFICES ASSUME NEW r \in Requests, request[r].at = "answered",
                      request[r].kind \in {"reset", "change"}
               PROVE  users[request[r].user].password
                        \notin request[r].before \cup {request[r].verified}
    BY DEF ReplacedStaysOut, Answered
  <2>1. RequestInv(r)
    BY <1>1 DEF IInv
  <2>2. request[r].todo = {}
    BY <2>1 DEF RequestInv, Known
  <2>3. r \in wrote
    BY <2>1, <2>2 DEF RequestInv, Landed, Replaced
  <2> QED
    BY <2>1, <2>3 DEF RequestInv, Replaced
<1> QED
  BY <1>1, Invariant, PTL
=============================================================================
