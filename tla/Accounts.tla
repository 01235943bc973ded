------------------------------ MODULE Accounts ------------------------------
(***************************************************************************)
(* Accounts and their passwords: sign-up, profile update, forgotten,        *)
(* reset and changed password (auth/auth.service.ts, users.service.ts).     *)
(* Every handler reads first and writes in later calls; hashing a password  *)
(* in between takes a good part of a second.                                *)
(*                                                                         *)
(* Data: a password is named by the request that set it.  lower is e-mail   *)
(* in lower case.  Ids of users and tokens are never used twice.            *)
(***************************************************************************)
EXTENDS FiniteSets

CONSTANTS
  Users, Tokens, Emails, Requests, None,
  lower  \* [Emails -> Emails]

ASSUME LowerAssumption ==
  lower \in [Emails -> Emails] /\ \A e \in Emails : lower[lower[e]] = lower[e]

ASSUME NoneAssumption ==
  None \notin Users \cup Tokens \cup Emails \cup Requests
                \cup [email : Emails, password : Requests \cup {None}]
                \cup [user : Users, by : Requests, flags : SUBSET {"expired", "used", "deleted"}]

VARIABLES
  users,    \* the rows of users
  tokens,   \* the rows of password_reset_tokens
  request,  \* the handlers
  wrote     \* history: the requests whose password was stored

vars == <<users, tokens, request, wrote>>

-----------------------------------------------------------------------------
User == [email : Emails, password : Requests \cup {None}]

\* A row whose flags are empty is good for a reset.  by is history: who issued it.
Flag  == {"expired", "used", "deleted"}
Token == [user : Users, by : Requests, flags : SUBSET Flag]

Write == {"password", "mark"}

Handler == [kind : {"none", "signUp", "updateMe", "forgot", "reset", "change"},
            at : {"idle", "checked", "issuing", "ending", "answered", "failed"},
            user : Users \cup {None}, email : Emails \cup {None}, token : Tokens \cup {None},
            todo : SUBSET Write,               \* a reset: the updates under way
            verified : Requests \cup {None},   \* a change: the password it compared with
            before : SUBSET Requests]          \* history: who was answered when it began

Idle == [kind |-> "none", at |-> "idle", user |-> None, email |-> None, token |-> None,
         todo |-> {}, verified |-> None, before |-> {}]

\* Accounts made by earlier sign-ups.
Init ==
  /\ users \in [Users -> [email : {lower[e] : e \in Emails}, password : {None}] \cup {None}]
  /\ \A u, v \in Users : users[u] # None /\ users[v] # None /\ u # v => users[u].email # users[v].email
  /\ tokens = [t \in Tokens |-> None]
  /\ request = [r \in Requests |-> Idle]
  /\ wrote = {}

findByEmail(e) == {u \in Users : users[u] # None /\ users[u].email = lower[e]}

\* Mutant: no unique constraint on the e-mail.
FreeAlways(e, u) == TRUE

\* The unique constraint lets user u have e-mail e.
Free(e, u) == \A v \in Users \ {u} : users[v] # None => users[v].email # e

Valid(t) == tokens[t] # None /\ tokens[t].flags = {}

-----------------------------------------------------------------------------
(* Requests *)

Answered == {r \in Requests : request[r].at = "answered"}

\* A request begins with a read, and goes on as h.
Begin(r, h) ==
  /\ request[r].at = "idle"
  /\ request' = [request EXCEPT ![r] = [h EXCEPT !.before = Answered]]
  /\ UNCHANGED <<users, tokens, wrote>>

Goes(r, kind, from) == request[r].kind = kind /\ request[r].at = from

Goto(r, at) == request' = [request EXCEPT ![r].at = at]

SignUp(r, e) ==
  Begin(r, [Idle EXCEPT !.kind = "signUp", !.email = lower[e],
                        !.at = IF findByEmail(e) = {} THEN "checked" ELSE "failed"])

\* Another sign-up may have taken the e-mail: then the insert is rejected.
CreateUser(r, u) ==
  LET e == request[r].email IN
  /\ Goes(r, "signUp", "checked") /\ users[u] = None /\ Free(e, u)
  /\ users' = [users EXCEPT ![u] = [email |-> e, password |-> r]]
  /\ request' = [request EXCEPT ![r].at = "ending", ![r].user = u]
  /\ wrote' = wrote \cup {r}
  /\ UNCHANGED tokens

UpdateMe(r, u, e) ==
  /\ users[u] # None
  /\ Begin(r, [Idle EXCEPT !.kind = "updateMe", !.user = u, !.email = e,
                           !.at = IF findByEmail(e) \subseteq {u} THEN "checked" ELSE "failed"])

\* The e-mail is stored as it was typed.
SaveEmail(r) ==
  LET u == request[r].user  e == request[r].email IN
  /\ Goes(r, "updateMe", "checked") /\ Free(e, u)
  /\ users' = [users EXCEPT ![u].email = e]
  /\ Goto(r, "ending")
  /\ UNCHANGED <<tokens, wrote>>

\* Mutant: that there is no such account goes unnoticed.
ForgotUnknown(r, e) ==
  \E u \in findByEmail(e) \cup {None} :
    Begin(r, [Idle EXCEPT !.kind = "forgot", !.at = "checked", !.user = u])

\* No account, no mail: the answer is the same.
Forgot(r, e) ==
  IF findByEmail(e) = {}
  THEN Begin(r, [Idle EXCEPT !.kind = "forgot", !.at = "answered"])
  ELSE \E u \in findByEmail(e) :
         Begin(r, [Idle EXCEPT !.kind = "forgot", !.at = "checked", !.user = u])

\* Mutant: tokens that were not used are kept.
PurgeTokensUsed(r) ==
  /\ Goes(r, "forgot", "checked")
  /\ tokens' = [t \in Tokens |->
                  IF tokens[t] # None /\ tokens[t].user = request[r].user /\ "used" \in tokens[t].flags
                  THEN [tokens[t] EXCEPT !.flags = @ \cup {"deleted"}] ELSE tokens[t]]
  /\ Goto(r, "issuing")
  /\ UNCHANGED <<users, wrote>>

PurgeTokens(r) ==
  /\ Goes(r, "forgot", "checked")
  /\ tokens' = [t \in Tokens |->
                  IF tokens[t] # None /\ tokens[t].user = request[r].user
                  THEN [tokens[t] EXCEPT !.flags = @ \cup {"deleted"}] ELSE tokens[t]]
  /\ Goto(r, "issuing")
  /\ UNCHANGED <<users, wrote>>

IssueToken(r, t) ==
  /\ Goes(r, "forgot", "issuing") /\ tokens[t] = None
  /\ tokens' = [tokens EXCEPT ![t] = [user |-> request[r].user, by |-> r, flags |-> {}]]
  /\ Goto(r, "ending")
  /\ UNCHANGED <<users, wrote>>

\* Sixty minutes pass.
Expire(t) ==
  /\ tokens[t] # None
  /\ tokens' = [tokens EXCEPT ![t].flags = @ \cup {"expired"}]
  /\ UNCHANGED <<users, request, wrote>>

Reset(r, t) ==
  Begin(r, IF Valid(t)
           THEN [Idle EXCEPT !.kind = "reset", !.at = "ending", !.user = tokens[t].user,
                             !.token = t, !.todo = Write]
           ELSE [Idle EXCEPT !.kind = "reset", !.at = "failed"])

\* Mutant: the update is sent again after it has landed.
StorePasswordResent(r) ==
  /\ "password" \in request[r].todo
  /\ users' = [users EXCEPT ![request[r].user].password = r]
  /\ wrote' = wrote \cup {r}
  /\ UNCHANGED <<tokens, request>>

\* The two updates of a reset are sent together and land in any order; when one
\* is rejected the request fails, and the other lands all the same.
StorePassword(r) ==
  /\ "password" \in request[r].todo
  /\ users' = [users EXCEPT ![request[r].user].password = r]
  /\ wrote' = wrote \cup {r}
  /\ request' = [request EXCEPT ![r].todo = @ \ {"password"}]
  /\ UNCHANGED tokens

MarkUsed(r) ==
  LET t == request[r].token IN
  /\ "mark" \in request[r].todo
  /\ tokens' = [tokens EXCEPT ![t].flags = IF "deleted" \in @ THEN @ ELSE @ \cup {"used"}]
  /\ request' = [request EXCEPT ![r].todo = @ \ {"mark"}]
  /\ UNCHANGED <<users, wrote>>

UpdateRejected(r, w) ==
  /\ w \in request[r].todo
  /\ request' = [request EXCEPT ![r].todo = @ \ {w}, ![r].at = "failed"]
  /\ UNCHANGED <<users, tokens, wrote>>

\* The current password matches what is stored, or does not.
Change(r, u) ==
  /\ users[u] # None
  /\ \E at \in {"checked", "failed"} :
       Begin(r, [Idle EXCEPT !.kind = "change", !.at = at, !.user = u,
                             !.verified = users[u].password])

StoreChange(r) ==
  /\ Goes(r, "change", "checked")
  /\ users' = [users EXCEPT ![request[r].user].password = r]
  /\ wrote' = wrote \cup {r}
  /\ Goto(r, "ending")
  /\ UNCHANGED tokens

\* Mutant: the answer waits for the first of the two updates only.
AnswerFirst(r) ==
  /\ request[r].at = "ending" /\ request[r].todo # Write
  /\ Goto(r, "answered")
  /\ UNCHANGED <<users, tokens, wrote>>

\* What is left (the mail, the session) changes nothing here.
Answer(r) ==
  /\ request[r].at = "ending" /\ request[r].todo = {}
  /\ Goto(r, "answered")
  /\ UNCHANGED <<users, tokens, wrote>>

\* A call is rejected or the process dies.  Updates under way may still land.
Abandon(r) ==
  /\ request[r].at \in {"checked", "issuing", "ending"}
  /\ Goto(r, "failed")
  /\ UNCHANGED <<users, tokens, wrote>>

Step(r) ==
  \/ \E e \in Emails : SignUp(r, e) \/ Forgot(r, e) \/ \E u \in Users : UpdateMe(r, u, e)
  \/ \E u \in Users : CreateUser(r, u) \/ Change(r, u)
  \/ \E t \in Tokens : IssueToken(r, t) \/ Reset(r, t)
  \/ SaveEmail(r) \/ PurgeTokens(r) \/ StorePassword(r) \/ MarkUsed(r) \/ StoreChange(r)
  \/ \E w \in Write : UpdateRejected(r, w)
  \/ Answer(r) \/ Abandon(r)

Next == (\E r \in Requests : Step(r)) \/ \E t \in Tokens : Expire(t)

Spec == Init /\ [][Next]_vars

-----------------------------------------------------------------------------
(* Properties *)

\* Every variable has its type.
TypeOK ==
  /\ users \in [Users -> User \cup {None}]
  /\ tokens \in [Tokens -> Token \cup {None}]
  /\ request \in [Requests -> Handler]
  /\ wrote \subseteq Requests

\* Two sign-ups, or a sign-up and a profile update, that all found the e-mail free
\* leave it with one account.
EmailsUnique ==
  \A u, v \in Users :
    users[u] # None /\ users[v] # None /\ users[u].email = users[v].email => u = v

\* A reset that was answered has stored its password, though its two updates land
\* in any order, and its token sets no other: no reset that begins later finds it.
ResetSpendsToken ==
  \A r \in Answered : request[r].kind = "reset" => r \in wrote /\ ~ Valid(request[r].token)

\* A token whose request was answered before another forgotten-password request of
\* the user began is refused once that one is answered.
SupersededRefused ==
  \A r \in Answered : \A t \in Tokens :
    request[r].kind = "forgot" /\ tokens[t] # None =>
      (tokens[t].user = request[r].user /\ tokens[t].by \in request[r].before => ~ Valid(t))

\* Once a reset or a change of a password is answered, no password confirmed before
\* it began (by sign-up, reset or change) opens the account again, nor the one the
\* change compared with, though other requests have their updates under way and
\* those of a failed reset land late.  Which of two that overlap stays is not said:
\* each writes without a look at what the other stored.
ReplacedStaysOut ==
  \A r \in Answered : request[r].kind \in {"reset", "change"} =>
    users[request[r].user].password \notin request[r].before \cup {request[r].verified}
=============================================================================
