------------------------------- MODULE JobFeed -------------------------------
(***************************************************************************)
(* The progress gateway (generation/generation.gateway.ts) beside the jobs  *)
(* of GenerationJobs: a client whose socket is connected to one server      *)
(* process, the room it joined, and what it hears there.  Sockets are kept  *)
(* by the process that accepted them and nothing connects the processes     *)
(* (main.ts installs the plain IoAdapter): what a run emits reaches the     *)
(* sockets of its own process.                                              *)
(*                                                                         *)
(* Data: one client, since clients do not meet; progress is left out.  That *)
(* a token is good for the handshake is Use and Validate of Sessions.       *)
(***************************************************************************)
EXTENDS GenerationJobs

ASSUME NoneAssumption == None \notin Jobs \cup Procs

VARIABLE client  \* its process, its room, and history

feedVars == <<vars, client>>

-----------------------------------------------------------------------------
Verdict == {"completed", "failed"}

\* checked: since it joined, it read the row and the job was not over.  missed:
\* verdicts since then that other processes emitted or that died unsaid.
Client == [at : Procs \cup {None}, room : Jobs \cup {None}, checked : BOOLEAN,
           heard : SUBSET Verdict, missed : SUBSET Verdict]

Away == [at |-> None, room |-> None, checked |-> FALSE, heard |-> {}, missed |-> {}]

FeedInit == Init /\ client = Away

\* The handshake was accepted by process p.
Connect(p) ==
  /\ client.at = None
  /\ client' = [Away EXCEPT !.at = p]
  /\ UNCHANGED vars

\* Any id of a job will do.
Subscribe(j) ==
  /\ client.at # None /\ client.room = None
  /\ client' = [client EXCEPT !.room = j]
  /\ UNCHANGED vars

Unsubscribe ==
  /\ client.room # None
  /\ client' = [Away EXCEPT !.at = client.at]
  /\ UNCHANGED vars

\* The connection breaks; the rooms of the socket are left.
Disconnect ==
  /\ client.at # None
  /\ client' = Away
  /\ UNCHANGED vars

\* GET /generation/jobs/:id, through any process.
Check ==
  /\ client.room # None /\ ~ client.checked
  /\ row[client.room].status \in {"pending", "running"}
  /\ client' = [client EXCEPT !.checked = TRUE]
  /\ UNCHANGED vars

\* Mutant: the catch clause emits nothing.
EmitsCompleted(p, verdict) == verdict = "completed" /\ (EmitCompleted(p) \/ LogThrows(p))

Emits(p, verdict) ==
  \/ verdict = "completed" /\ (EmitCompleted(p) \/ LogThrows(p))
  \/ verdict = "failed" /\ EmitFailed(p)

\* Mutant: the socket is out of the room after a verdict.
HearsOnce(p, j) == client.at = p /\ client.room = j /\ client.heard = {}

Hears(p, j) == client.at = p /\ client.room = j

\* emitCompleted and emitFailed of process p.
Emit(p, verdict) ==
  LET j == worker[p].job IN
  /\ Emits(p, verdict)
  /\ client' = IF Hears(p, j) THEN [client EXCEPT !.heard = @ \cup {verdict}]
               ELSE IF client.room = j /\ client.at # p THEN [client EXCEPT !.missed = @ \cup {verdict}]
               ELSE client

\* The verdict that a run leaves in the row when it ends without saying it.
Unsaid(p) ==
  CASE worker[p].pc = "emitCompleted" -> {"completed"}
    [] worker[p].pc = "emitFailed"    -> {"failed"}
    [] worker[p].pc = "patchFailed"   -> {row'[worker[p].job].status} \cap Verdict
    [] OTHER                          -> {}

\* An exception in the catch clause: the run ends here.
Stumbles(p) ==
  \/ worker[p].pc = "patchFailed" /\ WorkerFault(p)
  \/ worker[p].pc = "emitFailed" /\ EmitThrows(p)

Stumble(p) ==
  /\ Stumbles(p)
  /\ client' = IF client.room # None /\ Runs(p, client.room)
               THEN [client EXCEPT !.missed = @ \cup Unsaid(p)]
               ELSE client

\* A process takes its sockets with it.
Fall(p) ==
  /\ Crash(p)
  /\ client' = IF client.at = p THEN Away
               ELSE IF client.room # None /\ Runs(p, client.room)
               THEN [client EXCEPT !.missed = @ \cup Unsaid(p)]
               ELSE client

\* Every other step of the jobs.
Silent ==
  /\ Next
  /\ \A p \in Procs : ~ Crash(p) /\ ~ Stumbles(p) /\ \A v \in Verdict : ~ Emits(p, v)
  /\ UNCHANGED client

FeedNext ==
  \/ Silent
  \/ \E p \in Procs : Connect(p) \/ Fall(p) \/ Stumble(p) \/ \E v \in Verdict : Emit(p, v)
  \/ \E j \in Jobs : Subscribe(j)
  \/ Unsubscribe \/ Disconnect \/ Check

FeedSpec == FeedInit /\ [][FeedNext]_feedVars

\* The fairness of the jobs alone: clients owe nobody anything.
FeedFairness ==
  /\ \A j \in Jobs : WF_vars(StartEnqueue(j)) /\ WF_vars(Stalled(j))
  /\ \A j \in Jobs : WF_vars(\E p \in Procs : Take(p, j))
  /\ \A p \in Procs : WF_vars(RunStep(p))
  /\ \A c \in Cancels : WF_vars(CancelStep(c))

FeedFairSpec == FeedSpec /\ FeedFairness

-----------------------------------------------------------------------------
(* Properties *)

\* The client has its type, and is in a room and has a history there only as long
\* as it is connected.
ClientOK ==
  /\ client \in Client
  /\ client.room # None => client.at # None
  /\ client.checked \/ client.heard \cup client.missed # {} => client.room # None

\* Whoever joins the room of a job and then finds it not over hears how it ends:
\* once nothing of the job is on its way, the verdict in the row was heard, unless
\* another process emitted it or the run ended before it could.  However often the
\* job was run, and with a cancel that the worker overwrote.
SubscriberLearns ==
  client.checked =>
    LET j == client.room IN
    Quiet(j) /\ row[j].status \in Verdict =>
      row[j].status \in client.heard \cup client.missed

\* And he does hear it in the end, as long as he stays, nobody cancels the job, it is
\* not lost, and no other process had the verdict.
SubscriberHears ==
  \A j \in Jobs :
    client.checked /\ client.room = j ~>
      \/ client.heard \cup client.missed # {}
      \/ client.room # j
      \/ lost[j] \/ row[j].status = "cancelled"
=============================================================================
