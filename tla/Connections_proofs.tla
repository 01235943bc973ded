-------------------------- MODULE Connections_proofs --------------------------
(***************************************************************************)
(* Type correctness of Connections, and what a connection's status says    *)
(* about the credentials that are stored with it.                          *)
(***************************************************************************)
EXTENDS Connections, TLAPS

\* A handler past its first read works on a row that exists or existed.
Addressed ==
  \A r \in Requests :
    request[r].pc \notin {"idle", "done"} =>
      request[r].conn \in Conns /\ conn[request[r].conn].state # "none"

\* A test that no update has overtaken logs in with what is stored.
SnapshotCurrent ==
  \A r \in Requests, c \in Conns :
    Testing(r, c) /\ ~ request[r].raced => request[r].login = conn[c].login

IInv == TypeOK /\ Addressed /\ SnapshotCurrent /\ StatusOfLogin

\* A handler that ends keeps its other fields.
LEMMA DoneEffect ==
  ASSUME request \in [Requests -> Request], NEW r \in Requests, Done(r)
  PROVE  /\ request' \in [Requests -> Request]
         /\ request'[r].pc = "done"
         /\ \A q \in Requests \ {r} : request'[q] = request[q]
  BY DEF Done, Request

\* The invariant holds initially.
LEMMA InitIInv == Init => IInv
  BY DEF Init, IInv, TypeOK, Addressed, SnapshotCurrent, StatusOfLogin, Unsent, NoLogin, NoPatch,
     Conn, Request, Login, Patch, Status, Ssl, Testing, Saved

\* A handler that reads a row and goes on to step pc.
LEMMA ReadStep ==
  ASSUME IInv, NEW r \in Requests, NEW c \in Conns, Saved(c), NEW u \in Request,
         request' = [request EXCEPT ![r] = u], UNCHANGED <<conn, tested, raced>>,
         u.conn = c, u.pc \in {"probe", "patch", "delete"}, u.login = conn[c].login \/ u.pc # "probe"
  PROVE  IInv'
<1>1. TypeOK'
  BY DEF IInv, TypeOK
<1>2. request'[r] = u /\ \A q \in Requests \ {r} : request'[q] = request[q]
  BY DEF IInv, TypeOK
<1>3. Addressed'
  BY <1>2 DEF IInv, Addressed, Saved
<1>4. SnapshotCurrent'
  BY <1>2 DEF IInv, SnapshotCurrent, Testing
<1>5. StatusOfLogin'
  BY DEF IInv, StatusOfLogin, Saved
<1> QED
  BY <1>1, <1>3, <1>4, <1>5 DEF IInv

\* Every step keeps the invariant.
LEMMA NextIInv == IInv /\ [Next]_vars => IInv'
<1> SUFFICES ASSUME IInv, [Next]_vars PROVE IInv'
  OBVIOUS
<1>0. /\ conn \in [Conns -> Conn] /\ request \in [Requests -> Request]
      /\ tested \in [Conns -> Login] /\ raced \in [Conns -> BOOLEAN]
  BY DEF IInv, TypeOK
<1>1. ASSUME NEW c \in Conns, Create(c) PROVE IInv'
  <2>1. PICK s \in Servers, ssl \in Ssl :
          conn' = [conn EXCEPT ![c] = [state |-> "saved", login |-> [server |-> s, ssl |-> ssl],
                                       status |-> "untested"]]
    BY <1>1 DEF Create
  <2>2. UNCHANGED <<request, tested, raced>> /\ conn[c].state = "none"
    BY <1>1 DEF Create
  <2>3. conn' \in [Conns -> Conn]
    BY <1>0, <2>1 DEF Conn, Login, Status
  <2>4. conn'[c].state = "saved" /\ conn'[c].status = "untested"
    BY <1>0, <2>1
  <2>5. \A d \in Conns \ {c} : conn'[d] = conn[d]
    BY <1>0, <2>1
  <2>6. TypeOK' /\ Addressed'
    BY <1>0, <2>2, <2>3, <2>4, <2>5 DEF IInv, TypeOK, Addressed
  <2>7. \A r \in Requests : ~ Testing(r, c)
    BY <2>2 DEF IInv, Addressed, Testing
  <2>8. SnapshotCurrent'
    BY <2>2, <2>5, <2>7 DEF IInv, SnapshotCurrent, Testing
  <2>9. StatusOfLogin'
    BY <2>2, <2>4, <2>5 DEF IInv, StatusOfLogin, Saved
  <2> QED
    BY <2>6, <2>8, <2>9 DEF IInv
<1>2. ASSUME NEW r \in Requests, NEW c \in Conns, TestRead(r, c) PROVE IInv'
  <2> DEFINE u == [Unsent EXCEPT !.pc = "probe", !.conn = c, !.login = conn[c].login]
  <2>1. u \in Request /\ u.conn = c /\ u.pc = "probe" /\ u.login = conn[c].login
    BY <1>0 DEF Unsent, Request, Conn, NoPatch, Patch, Status
  <2> QED
    BY <1>2, <2>1, ReadStep DEF TestRead
<1>3. ASSUME NEW r \in Requests, NEW c \in Conns, PatchRead(r, c) PROVE IInv'
  <2>1. PICK b \in Patch :
          request' = [request EXCEPT ![r] = [Unsent EXCEPT !.pc = "patch", !.conn = c, !.body = b]]
    BY <1>3 DEF PatchRead
  <2> DEFINE u == [Unsent EXCEPT !.pc = "patch", !.conn = c, !.body = b]
  <2>2. u \in Request /\ u.conn = c /\ u.pc = "patch"
    BY DEF Unsent, Request, NoLogin, Login, Status, Ssl
  <2> QED
    BY <1>3, <2>1, <2>2, ReadStep DEF PatchRead
<1>4. ASSUME NEW r \in Requests, NEW c \in Conns, DeleteRead(r, c) PROVE IInv'
  <2> DEFINE u == [Unsent EXCEPT !.pc = "delete", !.conn = c]
  <2>1. u \in Request /\ u.conn = c /\ u.pc = "delete"
    BY DEF Unsent, Request, NoLogin, NoPatch, Login, Patch, Status, Ssl
  <2> QED
    BY <1>4, <2>1, ReadStep DEF DeleteRead
<1>5. ASSUME NEW r \in Requests, Probe(r) PROVE IInv'
  <2>1. PICK s \in {"ok", "failed"} :
          request' = [request EXCEPT ![r].pc = "saveOutcome", ![r].outcome = s]
    BY <1>5 DEF Probe
  <2>2. request' \in [Requests -> Request]
    BY <1>0, <2>1 DEF Request, Status
  <2>3. /\ request[r].pc = "probe" /\ request'[r].conn = request[r].conn
        /\ request'[r].login = request[r].login /\ request'[r].raced = request[r].raced
        /\ \A q \in Requests \ {r} : request'[q] = request[q]
    BY <1>0, <1>5, <2>1 DEF Probe, Request
  <2>4. UNCHANGED <<conn, tested, raced>>
    BY <1>5 DEF Probe
  <2>5. SnapshotCurrent'
    BY <2>3, <2>4 DEF IInv, SnapshotCurrent, Testing
  <2> QED
    BY <2>2, <2>3, <2>4, <2>5 DEF IInv, TypeOK, Addressed, StatusOfLogin, Saved
<1>6. ASSUME NEW r \in Requests, SaveOutcome(r) PROVE IInv'
  <2> DEFINE c == request[r].conn
  <2>1. /\ request' \in [Requests -> Request] /\ request'[r].pc = "done"
        /\ \A q \in Requests \ {r} : request'[q] = request[q]
    BY <1>0, <1>6, DoneEffect DEF SaveOutcome
  <2>2. c \in Conns /\ Testing(r, c)
    BY <1>6 DEF IInv, Addressed, SaveOutcome, Testing
  <2>3. CASE Saved(c)
    <3>1. /\ conn' = [conn EXCEPT ![c].status = request[r].outcome]
          /\ tested' = [tested EXCEPT ![c] = request[r].login]
          /\ raced' = [raced EXCEPT ![c] = request[r].raced]
      BY <1>6, <2>3 DEF SaveOutcome
    <3>2. conn' \in [Conns -> Conn] /\ tested' \in [Conns -> Login] /\ raced' \in [Conns -> BOOLEAN]
      BY <1>0, <2>2, <3>1 DEF Conn, Request
    <3>3. \A d \in Conns : conn'[d].state = conn[d].state /\ conn'[d].login = conn[d].login
      BY <1>0, <2>2, <3>1 DEF Conn
    <3>4. \A d \in Conns \ {c} : conn'[d] = conn[d] /\ tested'[d] = tested[d] /\ raced'[d] = raced[d]
      BY <1>0, <2>2, <3>1
    <3>5. tested'[c] = request[r].login /\ raced'[c] = request[r].raced
      BY <1>0, <2>2, <3>1
    <3>6. TypeOK' /\ Addressed'
      BY <2>1, <3>2, <3>3 DEF IInv, TypeOK, Addressed
    <3>7. SnapshotCurrent'
      BY <2>1, <3>3 DEF IInv, SnapshotCurrent, Testing
    <3>8. StatusOfLogin'
      BY <2>2, <3>3, <3>4, <3>5 DEF IInv, SnapshotCurrent, StatusOfLogin, Saved
    <3> QED
      BY <3>6, <3>7, <3>8 DEF IInv
  <2>4. CASE ~ Saved(c)
    <3>1. UNCHANGED <<conn, tested, raced>>
      BY <1>6, <2>4 DEF SaveOutcome
    <3> QED
      BY <2>1, <3>1 DEF IInv, TypeOK, Addressed, SnapshotCurrent, StatusOfLogin, Testing, Saved
  <2> QED
    BY <2>3, <2>4
<1>7. ASSUME NEW r \in Requests, ApplyPatch(r) PROVE IInv'
  <2> DEFINE c == request[r].conn
             b == request[r].body
  <2>1. c \in Conns /\ b \in Patch
    BY <1>0, <1>7 DEF IInv, Addressed, ApplyPatch, Request
  <2>2. UNCHANGED <<tested, raced>>
    BY <1>7 DEF ApplyPatch
  <2>3. CASE Saved(c)
    <3>1. /\ conn' = [conn EXCEPT ![c].login = Merged(conn[c].login, b),
                                  ![c].status = IF CredentialChanged(b) THEN "untested" ELSE @]
          /\ request' = [q \in Requests |->
               IF q = r THEN [request[q] EXCEPT !.pc = "done"]
               ELSE IF Testing(q, c) /\ b # NoPatch THEN [request[q] EXCEPT !.raced = TRUE]
               ELSE request[q]]
      BY <1>7, <2>3 DEF ApplyPatch
    <3>2. Merged(conn[c].login, b) \in Login
      BY <1>0, <2>1 DEF Merged, Login, Patch, Conn
    <3>3. conn' \in [Conns -> Conn]
      BY <1>0, <2>1, <3>1, <3>2 DEF Conn, Status
    <3>4. request' \in [Requests -> Request]
      BY <1>0, <3>1 DEF Request
    <3>5. \A d \in Conns : conn'[d].state = conn[d].state
      BY <1>0, <2>1, <3>1 DEF Conn
    <3>6. \A d \in Conns \ {c} : conn'[d] = conn[d]
      BY <1>0, <2>1, <3>1
    <3>7. ~ CredentialChanged(b) => b = NoPatch /\ conn'[c].login = conn[c].login
      BY <1>0, <2>1, <3>1 DEF CredentialChanged, Merged, Patch, NoPatch, Conn, Login
    <3>8. CredentialChanged(b) => conn'[c].status = "untested"
      BY <1>0, <2>1, <3>1 DEF Conn
    <3>9. \A q \in Requests \ {r} :
            /\ request'[q].pc = request[q].pc /\ request'[q].conn = request[q].conn
            /\ request'[q].login = request[q].login
            /\ request'[q].raced = (request[q].raced \/ (Testing(q, c) /\ b # NoPatch))
      BY <1>0, <3>1 DEF Request
    <3>10. request'[r].pc = "done"
      BY <1>0, <3>1 DEF Request
    <3>11. TypeOK' /\ Addressed'
      BY <2>2, <3>3, <3>4, <3>5, <3>9, <3>10 DEF IInv, TypeOK, Addressed
    <3>12. SnapshotCurrent'
      <4> SUFFICES ASSUME NEW q \in Requests, NEW d \in Conns, Testing(q, d)', ~ request'[q].raced
                   PROVE  request'[q].login = conn'[d].login
        BY DEF SnapshotCurrent
      <4>1. q # r
        BY <3>10 DEF Testing
      <4>2. Testing(q, d) /\ request[q].raced = FALSE /\ ~ (Testing(q, c) /\ b # NoPatch)
        BY <1>0, <3>9, <4>1 DEF Testing, Request
      <4>3. conn'[d].login = conn[d].login
        BY <3>6, <3>7, <4>2 DEF CredentialChanged, NoPatch
      <4> QED
        BY <3>9, <4>1, <4>2, <4>3 DEF IInv, SnapshotCurrent
    <3>13. StatusOfLogin'
      <4>1. conn'[c].status = conn[c].status \/ conn'[c].status = "untested"
        BY <1>0, <2>1, <3>1 DEF Conn
      <4> QED
        BY <2>2, <3>5, <3>6, <3>7, <3>8, <4>1 DEF IInv, StatusOfLogin, Saved
    <3> QED
      BY <3>11, <3>12, <3>13 DEF IInv
  <2>4. CASE ~ Saved(c)
    <3>1. UNCHANGED conn /\ Done(r)
      BY <1>7, <2>4 DEF ApplyPatch
    <3>2. /\ request' \in [Requests -> Request] /\ request'[r].pc = "done"
          /\ \A q \in Requests \ {r} : request'[q] = request[q]
      BY <1>0, <3>1, DoneEffect
    <3> QED
      BY <2>2, <3>1, <3>2
         DEF IInv, TypeOK, Addressed, SnapshotCurrent, StatusOfLogin, Testing, Saved
  <2> QED
    BY <2>3, <2>4
<1>8. ASSUME NEW r \in Requests, ApplyDelete(r) PROVE IInv'
  <2>1. /\ request' \in [Requests -> Request] /\ request'[r].pc = "done"
        /\ \A q \in Requests \ {r} : request'[q] = request[q]
    BY <1>0, <1>8, DoneEffect DEF ApplyDelete
  <2>2. conn' = [conn EXCEPT ![request[r].conn].state = "deleted"] /\ UNCHANGED <<tested, raced>>
    BY <1>8 DEF ApplyDelete
  <2>3. conn' \in [Conns -> Conn]
    BY <1>0, <2>2 DEF Conn
  <2>4. \A d \in Conns : /\ conn'[d].login = conn[d].login /\ conn'[d].status = conn[d].status
                         /\ conn'[d].state \in {conn[d].state, "deleted"}
    BY <1>0, <2>2 DEF Conn
  <2>5. TypeOK' /\ Addressed'
    BY <2>1, <2>2, <2>3, <2>4 DEF IInv, TypeOK, Addressed
  <2>6. SnapshotCurrent' /\ StatusOfLogin'
    BY <2>1, <2>2, <2>4 DEF IInv, SnapshotCurrent, StatusOfLogin, Testing, Saved
  <2> QED
    BY <2>5, <2>6 DEF IInv
<1>9. ASSUME NEW r \in Requests, Abandon(r) PROVE IInv'
  <2>1. /\ request' \in [Requests -> Request] /\ request'[r].pc = "done"
        /\ \A q \in Requests \ {r} : request'[q] = request[q]
    BY <1>0, <1>9, DoneEffect DEF Abandon
  <2> QED
    BY <1>9, <2>1 DEF Abandon, IInv, TypeOK, Addressed, SnapshotCurrent, StatusOfLogin, Testing, Saved
<1>10. CASE UNCHANGED vars
  BY <1>10 DEF vars, IInv, TypeOK, Addressed, SnapshotCurrent, StatusOfLogin, Testing, Saved
<1> QED
  BY <1>1, <1>2, <1>3, <1>4, <1>5, <1>6, <1>7, <1>8, <1>9, <1>10 DEF Next

\* The invariant holds in every reachable state.
LEMMA Invariance == Spec => []IInv
  BY InitIInv, NextIInv, PTL DEF Spec

\* Every reachable state is well typed.
THEOREM TypeCorrect == Spec => []TypeOK
<1>1. IInv => TypeOK
  BY DEF IInv
<1> QED
  BY <1>1, Invariance, PTL

\* The status of a connection is the outcome of a test of its stored login, as
\* long as no PATCH overtook that test.
THEOREM StatusSpeaksOfLogin == Spec => []StatusOfLogin
<1>1. IInv => StatusOfLogin
  BY DEF IInv
<1> QED
  BY <1>1, Invariance, PTL

\* No handler that read a row before its deletion brings it back.
THEOREM NoResurrection == Spec => DeletedStays
<1>1. IInv /\ [Next]_vars =>
        [\A c \in Conns : conn[c].state = "deleted" => conn'[c] = conn[c]]_vars
  <2> SUFFICES ASSUME IInv, [Next]_vars, NEW c \in Conns, conn[c].state = "deleted"
               PROVE  conn'[c] = conn[c]
    OBVIOUS
  <2>0. conn \in [Conns -> Conn]
    BY DEF IInv, TypeOK
  <2>1. ASSUME NEW d \in Conns, Create(d) PROVE conn'[c] = conn[c]
    BY <2>0, <2>1 DEF Create
  <2>2. ASSUME NEW r \in Requests, SaveOutcome(r) PROVE conn'[c] = conn[c]
    BY <2>0, <2>2 DEF SaveOutcome, Saved
  <2>3. ASSUME NEW r \in Requests, ApplyPatch(r) PROVE conn'[c] = conn[c]
    BY <2>0, <2>3 DEF ApplyPatch, Saved
  <2>4. ASSUME NEW r \in Requests, ApplyDelete(r) PROVE conn'[c] = conn[c]
    BY <2>0, <2>4 DEF ApplyDelete, Conn
  <2> QED
    BY <2>1, <2>2, <2>3, <2>4 DEF Next, vars, TestRead, PatchRead, DeleteRead, Probe, Abandon
<1> QED
  BY <1>1, Invariance, PTL DEF Spec, DeletedStays
=============================================================================
