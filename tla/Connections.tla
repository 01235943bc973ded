----------------------------- MODULE Connections -----------------------------
(***************************************************************************)
(* Saved database connections: POST, PATCH and DELETE /connections and     *)
(* POST /connections/:id/test.  Every handler first reads the row          *)
(* (assertOwnership) and writes it in a later statement, and the test also *)
(* waits for the user's database in between, for up to five seconds.       *)
(*                                                                         *)
(* Data: what a connection logs in with is reduced to two fields, server   *)
(* (host, port, database, username and password, which are never empty)    *)
(* and ssl, the one field whose new value may be falsy.                     *)
(***************************************************************************)
EXTENDS FiniteSets

CONSTANTS
  Conns,     \* ids of connections POST may create, never used twice
  Requests,  \* PATCH, DELETE and test requests
  Servers    \* values of the server field

VARIABLES
  conn,     \* the rows of db_connections
  request,  \* the handlers
  tested,   \* history: what the test whose outcome is in the row logged in with
  raced     \* history: did a login change land during that test?

vars == <<conn, request, tested, raced>>

-----------------------------------------------------------------------------
(* Types *)

None == "none"
Out  == "out"     \* a field a PATCH body leaves out

Ssl    == {"on", "off"}
Login  == [server : Servers \cup {None}, ssl : Ssl]
Patch  == [server : Servers \cup {Out}, ssl : Ssl \cup {Out}]
Status == {"untested", "ok", "failed"}

NoLogin == [server |-> None, ssl |-> "off"]
NoPatch == [server |-> Out, ssl |-> Out]

Conn == [state : {"none", "saved", "deleted"}, login : Login, status : Status]

Request == [pc : {"idle", "probe", "saveOutcome", "patch", "delete", "done"},
            conn : Conns \cup {None},
            login : Login,       \* a test: the login it read
            outcome : Status,    \* a test: what it found
            body : Patch,        \* a PATCH
            raced : BOOLEAN]     \* history: see above

Unsent == [pc |-> "idle", conn |-> None, login |-> NoLogin, outcome |-> "untested",
           body |-> NoPatch, raced |-> FALSE]

Init ==
  /\ conn = [c \in Conns |-> [state |-> "none", login |-> NoLogin, status |-> "untested"]]
  /\ request = [r \in Requests |-> Unsent]
  /\ tested = [c \in Conns |-> NoLogin]
  /\ raced = [c \in Conns |-> FALSE]

Saved(c) == conn[c].state = "saved"

\* Tests of c that have read its row and not yet written their outcome.
Testing(r, c) == request[r].pc \in {"probe", "saveOutcome"} /\ request[r].conn = c

-----------------------------------------------------------------------------
Create(c) ==
  /\ conn[c].state = "none"
  /\ \E s \in Servers, ssl \in Ssl :
       conn' = [conn EXCEPT ![c] = [state |-> "saved", login |-> [server |-> s, ssl |-> ssl],
                                    status |-> "untested"]]
  /\ UNCHANGED <<request, tested, raced>>

\* assertOwnership at the head of the three handlers: no row, no request.
TestRead(r, c) ==
  /\ request[r].pc = "idle" /\ Saved(c)
  /\ request' = [request EXCEPT ![r] = [Unsent EXCEPT !.pc = "probe", !.conn = c,
                                                      !.login = conn[c].login]]
  /\ UNCHANGED <<conn, tested, raced>>

PatchRead(r, c) ==
  /\ request[r].pc = "idle" /\ Saved(c)
  /\ \E b \in Patch :
       request' = [request EXCEPT ![r] = [Unsent EXCEPT !.pc = "patch", !.conn = c, !.body = b]]
  /\ UNCHANGED <<conn, tested, raced>>

DeleteRead(r, c) ==
  /\ request[r].pc = "idle" /\ Saved(c)
  /\ request' = [request EXCEPT ![r] = [Unsent EXCEPT !.pc = "delete", !.conn = c]]
  /\ UNCHANGED <<conn, tested, raced>>

Done(r) == request' = [request EXCEPT ![r].pc = "done"]

\* testConnection() answers ok or not and never throws.
Probe(r) ==
  /\ request[r].pc = "probe"
  /\ \E s \in {"ok", "failed"} :
       request' = [request EXCEPT ![r].pc = "saveOutcome", ![r].outcome = s]
  /\ UNCHANGED <<conn, tested, raced>>

\* Mutant: the outcome is saved by an upsert.
SaveOutcomeUpsert(r) ==
  LET c == request[r].conn IN
  /\ request[r].pc = "saveOutcome"
  /\ conn' = [conn EXCEPT ![c].status = request[r].outcome, ![c].state = "saved"]
  /\ tested' = [tested EXCEPT ![c] = request[r].login]
  /\ raced' = [raced EXCEPT ![c] = request[r].raced]
  /\ Done(r)

\* The update names the row by its id alone; it does nothing when the row is gone.
SaveOutcome(r) ==
  LET c == request[r].conn IN
  /\ request[r].pc = "saveOutcome"
  /\ IF Saved(c)
     THEN /\ conn' = [conn EXCEPT ![c].status = request[r].outcome]
          /\ tested' = [tested EXCEPT ![c] = request[r].login]
          /\ raced' = [raced EXCEPT ![c] = request[r].raced]
     ELSE UNCHANGED <<conn, tested, raced>>
  /\ Done(r)

\* Mutant: ssl is tested for truth, like the other fields.
CredentialChangedTruthy(b) == b.server # Out \/ b.ssl = "on"

CredentialChanged(b) == b.server # Out \/ b.ssl # Out

\* Mutant: a field the body leaves out is written all the same.
MergedRaw(l, b) == [server |-> IF b.server = Out THEN l.server ELSE b.server, ssl |-> b.ssl]

Merged(l, b) == [server |-> IF b.server = Out THEN l.server ELSE b.server,
                 ssl    |-> IF b.ssl = Out THEN l.ssl ELSE b.ssl]

\* One update statement: the given fields, and the status when the credentials
\* change.  Tests in flight are not told.
ApplyPatch(r) ==
  LET c == request[r].conn
      b == request[r].body
  IN
  /\ request[r].pc = "patch"
  /\ IF Saved(c)
     THEN /\ conn' = [conn EXCEPT ![c].login = Merged(conn[c].login, b),
                                  ![c].status = IF CredentialChanged(b) THEN "untested" ELSE @]
          /\ request' = [q \in Requests |->
               IF q = r THEN [request[q] EXCEPT !.pc = "done"]
               ELSE IF Testing(q, c) /\ b # NoPatch THEN [request[q] EXCEPT !.raced = TRUE]
               ELSE request[q]]
     ELSE /\ Done(r)
          /\ UNCHANGED conn
  /\ UNCHANGED <<tested, raced>>

ApplyDelete(r) ==
  /\ request[r].pc = "delete"
  /\ conn' = [conn EXCEPT ![request[r].conn].state = "deleted"]
  /\ Done(r)
  /\ UNCHANGED <<tested, raced>>

\* A rejected query or a dead process ends the request before its next write.
Abandon(r) ==
  /\ request[r].pc \notin {"idle", "done"}
  /\ Done(r)
  /\ UNCHANGED <<conn, tested, raced>>

Next ==
  \/ \E c \in Conns : Create(c)
  \/ \E r \in Requests, c \in Conns : TestRead(r, c) \/ PatchRead(r, c) \/ DeleteRead(r, c)
  \/ \E r \in Requests :
       Probe(r) \/ SaveOutcome(r) \/ ApplyPatch(r) \/ ApplyDelete(r) \/ Abandon(r)

Spec == Init /\ [][Next]_vars

-----------------------------------------------------------------------------
(* Properties *)

\* Every variable has its type.
TypeOK ==
  /\ conn \in [Conns -> Conn]
  /\ request \in [Requests -> Request]
  /\ tested \in [Conns -> Login]
  /\ raced \in [Conns -> BOOLEAN]

\* A status other than untested is the outcome of a test of the login that is
\* stored now, unless an update landed while that test was under way.
StatusOfLogin ==
  \A c \in Conns :
    Saved(c) /\ conn[c].status # "untested" /\ ~ raced[c] => tested[c] = conn[c].login

\* A deleted connection stays deleted: no handler that read the row before
\* brings it back.
DeletedStays ==
  [][\A c \in Conns : conn[c].state = "deleted" => conn'[c] = conn[c]]_vars
=============================================================================
