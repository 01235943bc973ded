--------------------------- MODULE GenerationJobs ---------------------------
(***************************************************************************)
(* The life of a data-generation job: POST /generation/start inserts a row *)
(* and enqueues a BullMQ job, a worker of some server process runs it,     *)
(* DELETE /generation/jobs/:id cancels it at any time.  The three handlers *)
(* share the generation_jobs row and the queue and take no lock, so every  *)
(* await (a PostgreSQL or Redis round trip) is a step of its own here.     *)
(*                                                                         *)
(* A server process hosts one worker (BullMQ concurrency 1) and the HTTP   *)
(* handlers it accepted; a crash kills all of them at once.                *)
(*                                                                         *)
(* BullMQ runs a job at least once: it is queued again when its lock is    *)
(* not renewed, because the process died or because the generators, which  *)
(* never yield, kept the event loop busy for longer than the lock lasts.   *)
(* In the second case two processes are inside process() for one job.      *)
(*                                                                         *)
(* Data: the generated rows are abstracted to the number of tables left,   *)
(* the export to its presence, and the three formats that need no I/O      *)
(* (SQL, JSON, CSV) to one, "FILE".                                        *)
(***************************************************************************)
EXTENDS Naturals, FiniteSets

CONSTANTS
  Jobs,             \* ids of the rows POST /start may create, one per request
  Procs,            \* server processes
  Cancels,          \* DELETE requests
  Dialect,          \* of the databases the jobs seed: "postgresql" or "mysql"
  MaxTables,        \* bound: tables a schema may have when the worker loads it
  MaxStalledCount,  \* BullMQ's maxStalledCount (the code leaves the default, 1)
  MaxCrashes,       \* bound: process crashes
  MaxFaults         \* bound: database or Redis calls that are rejected

ASSUME BoundsAssumption ==
  /\ MaxTables \in Nat
  /\ MaxStalledCount \in Nat
  /\ MaxCrashes \in Nat
  /\ MaxFaults \in Nat

ASSUME DialectAssumption == Dialect \in {"postgresql", "mysql"}

VARIABLES
  row,        \* generation_jobs, by id; status "none" while there is no row
  bull,       \* the BullMQ job, by id
  stalls,     \* BullMQ's stalled counter of the job
  start,      \* the POST /start handler that creates the job
  cancel,     \* the DELETE handlers
  worker,     \* the worker of each process and the run it is in
  target,     \* commits of the job's rows in the user's database, by attempt
  told,       \* verdicts emitted to the room job:<id>
  schema,     \* is the job's schema still stored?
  connection, \* is the job's connection still stored?
  crashes,    \* crashes so far
  faults,     \* rejected calls so far
  lost        \* history: a crash or fault left the row open with nobody to settle it

queue    == <<bull, stalls>>
requests == <<start, cancel>>
effects  == <<target, told>>
stored   == <<schema, connection>>
mishaps  == <<crashes, faults, lost>>
vars     == <<row, queue, requests, worker, effects, stored, mishaps>>

-----------------------------------------------------------------------------
(* Types *)

Status   == {"pending", "running", "completed", "failed", "cancelled"}
Terminal == {"completed", "failed", "cancelled"}
Format   == {"FILE", "DIRECT_SEED"}

Row == [status : Status \cup {"none"}, export : BOOLEAN, format : Format]

BullState == {"absent", "waiting", "active", "finished"}

StartPc  == {"idle", "enqueue", "done", "dead"}
CancelPc == {"idle", "getJob", "getState", "remove", "update", "done", "dead"}
\* The awaits of process(), in the order of the code.
RunPc    == {"patchRunning", "loadSchema", "generate", "findConnection",
             "executeSql", "patchCompleted", "emitCompleted", "patchFailed",
             "emitFailed", "ack"}

\* The awaits before the one that writes the run's verdict in the row.
Unsettled == RunPc \ {"emitCompleted", "emitFailed", "ack"}

\* The how-manieth time BullMQ runs the job: one more after every stall.
Attempt == 0..MaxStalledCount

\* What a DELETE request is answered: the status in its body or an error.
Answer == Status \cup {"none", "error"}

None == "none"

StartHandler  == [pc : StartPc, host : Procs \cup {None}]
CancelHandler == [pc : CancelPc, host : Procs \cup {None}, job : Jobs \cup {None},
                  seen : Status \cup {"none"}, answer : Answer]
Run           == [pc : RunPc \cup {"idle"}, job : Jobs \cup {None}, left : Nat,
                  attempt : Attempt]

NoRow == [status |-> "none", export |-> FALSE, format |-> "FILE"]
Idle  == [pc |-> "idle", job |-> None, left |-> 0, attempt |-> 0]

-----------------------------------------------------------------------------
Init ==
  /\ row = [j \in Jobs |-> NoRow]
  /\ bull = [j \in Jobs |-> "absent"]
  /\ stalls = [j \in Jobs |-> 0]
  /\ start = [j \in Jobs |-> [pc |-> "idle", host |-> None]]
  /\ cancel = [c \in Cancels |-> [pc |-> "idle", host |-> None, job |-> None,
                                  seen |-> "none", answer |-> "none"]]
  /\ worker = [p \in Procs |-> Idle]
  /\ target = [j \in Jobs |-> [a \in Attempt |-> 0]]
  /\ told = [j \in Jobs |-> {}]
  /\ schema = TRUE
  /\ connection = TRUE
  /\ crashes = 0
  /\ faults = 0
  /\ lost = [j \in Jobs |-> FALSE]

\* Worker p is inside process() for job j; BullMQ knows it as the job's owner
\* until the job is queued again, finished or removed.
Runs(p, j) == worker[p].pc # "idle" /\ worker[p].job = j
Owns(p, j) == Runs(p, j) /\ bull[j] = "active" /\ worker[p].attempt = stalls[j]
Orphan(j)  == bull[j] = "active" /\ ~ \E p \in Procs : Owns(p, j)

\* A cancel that will write the row whatever others do.  One about to remove an
\* active job may find it locked instead.
WillUpdate(c, j) ==
  /\ cancel[c].job = j
  /\ \/ cancel[c].pc \in {"getJob", "getState", "update"}
     \/ cancel[c].pc = "remove" /\ bull[j] # "active"

\* Who will settle the row of job j: the start handler about to enqueue it, the
\* queue, a run that has yet to write its verdict, or a cancel.
Responsible(j) ==
  \/ start[j].pc = "enqueue"
  \/ bull[j] = "waiting" \/ Orphan(j)
  \/ \E p \in Procs : Runs(p, j) /\ worker[p].pc \in Unsettled
  \/ \E c \in Cancels : WillUpdate(c, j)

Forgotten(j) == row[j].status \in {"pending", "running"} /\ ~ Responsible(j)

\* A mishap that no handler answers hits job j: is there anybody left for it?
Hit(j) == lost' = [lost EXCEPT ![j] = @ \/ Forgotten(j)']

-----------------------------------------------------------------------------
(* POST /generation/start.  Schema loading and the estimate only read; the *)
(* foreign key makes the insert itself need the schema.                    *)

StartInsert(j, p) ==
  /\ start[j].pc = "idle"
  /\ schema
  /\ \E f \in Format :
       row' = [row EXCEPT ![j] = [NoRow EXCEPT !.status = "pending", !.format = f]]
  /\ start' = [start EXCEPT ![j] = [pc |-> "enqueue", host |-> p]]
  /\ UNCHANGED <<queue, cancel, worker, effects, stored, mishaps>>

StartEnqueue(j) ==
  /\ start[j].pc = "enqueue"
  /\ bull' = [bull EXCEPT ![j] = "waiting"]
  /\ start' = [start EXCEPT ![j] = [pc |-> "done", host |-> None]]
  /\ UNCHANGED <<row, stalls, cancel, worker, effects, stored, mishaps>>

\* queue.add is rejected: the request fails, the row stays behind.  The
\* command may have reached Redis all the same.
StartFault(j) ==
  /\ start[j].pc = "enqueue"
  /\ faults < MaxFaults
  /\ faults' = faults + 1
  /\ start' = [start EXCEPT ![j] = [pc |-> "done", host |-> None]]
  /\ UNCHANGED <<row, stalls, cancel, worker, effects, stored, crashes>>
  /\ \/ bull' = [bull EXCEPT ![j] = "waiting"] /\ UNCHANGED lost
     \/ UNCHANGED bull /\ Hit(j)

-----------------------------------------------------------------------------
(* DELETE /generation/jobs/:id.  The status is read first and never again. *)

Reply(c, a) == cancel' = [cancel EXCEPT ![c].pc = "done", ![c].host = None,
                                        ![c].answer = a]

\* Mutant: the early return on a terminal status is gone.
CancelReadAnyStatus(c, p, j) ==
  /\ cancel[c].pc = "idle"
  /\ row[j].status # "none"
  /\ cancel' = [cancel EXCEPT ![c] = [pc |-> "getJob", host |-> p, job |-> j,
                                      seen |-> row[j].status, answer |-> "none"]]
  /\ UNCHANGED <<row, queue, start, worker, effects, stored, mishaps>>

CancelRead(c, p, j) ==
  /\ cancel[c].pc = "idle"
  /\ row[j].status # "none"
  /\ LET read == [pc |-> "getJob", host |-> p, job |-> j, seen |-> row[j].status,
                  answer |-> "none"]
     IN  cancel' = [cancel EXCEPT ![c] =
           IF row[j].status \in Terminal
           THEN [read EXCEPT !.pc = "done", !.host = None, !.answer = row[j].status]
           ELSE read]
  /\ UNCHANGED <<row, queue, start, worker, effects, stored, mishaps>>

CancelGetJob(c) ==
  /\ cancel[c].pc = "getJob"
  /\ cancel' = [cancel EXCEPT ![c].pc =
                  IF bull[cancel[c].job] = "absent" THEN "update" ELSE "getState"]
  /\ UNCHANGED <<row, queue, start, worker, effects, stored, mishaps>>

CancelGetState(c) ==
  /\ cancel[c].pc = "getState"
  /\ cancel' = [cancel EXCEPT ![c].pc =
                  IF bull[cancel[c].job] = "waiting" THEN "remove" ELSE "update"]
  /\ UNCHANGED <<row, queue, start, worker, effects, stored, mishaps>>

\* Mutant: a job taken out of the queue is reported cancelled, its row forgotten.
CancelRemoveOnly(c) ==
  /\ cancel[c].pc = "remove"
  /\ bull' = [bull EXCEPT ![cancel[c].job] = "absent"]
  /\ Reply(c, "cancelled")
  /\ UNCHANGED <<row, stalls, start, worker, effects, stored, mishaps>>

\* BullMQ removes any job that is not locked: also one that became active since
\* its state was read, once the lock of its run is past its time.
CancelRemove(c) ==
  /\ cancel[c].pc = "remove"
  /\ bull' = [bull EXCEPT ![cancel[c].job] = "absent"]
  /\ cancel' = [cancel EXCEPT ![c].pc = "update"]
  /\ UNCHANGED <<row, stalls, start, worker, effects, stored, mishaps>>

\* remove() throws on a locked job; the request fails before its update.
CancelLocked(c) ==
  /\ cancel[c].pc = "remove"
  /\ bull[cancel[c].job] = "active"
  /\ Reply(c, "error")
  /\ UNCHANGED <<row, queue, start, worker, effects, stored, mishaps>>

CancelUpdate(c) ==
  /\ cancel[c].pc = "update"
  /\ row' = [row EXCEPT ![cancel[c].job].status = "cancelled"]
  /\ Reply(c, "cancelled")
  /\ UNCHANGED <<queue, start, worker, effects, stored, mishaps>>

\* A rejected call ends the request; the removal or the write it carried may
\* have been carried out.
CancelFault(c) ==
  LET j == cancel[c].job IN
  /\ cancel[c].pc \in {"getJob", "getState", "remove", "update"}
  /\ faults < MaxFaults
  /\ faults' = faults + 1
  /\ Reply(c, "error")
  /\ \/ UNCHANGED <<row, bull>>
     \/ /\ cancel[c].pc = "remove"
        /\ bull' = [bull EXCEPT ![j] = "absent"]
        /\ UNCHANGED row
     \/ /\ cancel[c].pc = "update"
        /\ row' = [row EXCEPT ![j].status = "cancelled"]
        /\ UNCHANGED bull
  /\ UNCHANGED <<stalls, start, worker, effects, stored, crashes>>
  /\ Hit(j)

-----------------------------------------------------------------------------
(* The worker: BullMQ hands it a job, process() runs, BullMQ is told.      *)

Take(p, j) ==
  /\ worker[p].pc = "idle"
  /\ bull[j] = "waiting"
  /\ bull' = [bull EXCEPT ![j] = "active"]
  /\ worker' = [worker EXCEPT ![p] =
                  [pc |-> "patchRunning", job |-> j, left |-> 0,
                   attempt |-> stalls[j]]]
  /\ UNCHANGED <<row, stalls, requests, effects, stored, mishaps>>

\* Mutant: a run begins by clearing what an earlier attempt left in the row.
PatchedAfresh(p) ==
  LET r == row[worker[p].job] IN
  CASE worker[p].pc = "patchRunning"   -> [r EXCEPT !.status = "running", !.export = FALSE]
    [] worker[p].pc = "patchCompleted" -> [r EXCEPT !.status = "completed", !.export = TRUE]
    [] worker[p].pc = "patchFailed"    -> [r EXCEPT !.status = "failed"]
    [] OTHER                           -> r

\* patchJob: the row after the patch of the step p is at.  None of them looks
\* at the status the row has by then.
Patched(p) ==
  LET r == row[worker[p].job] IN
  CASE worker[p].pc = "patchRunning"   -> [r EXCEPT !.status = "running"]
    [] worker[p].pc = "patchCompleted" -> [r EXCEPT !.status = "completed",
                                                    !.export = TRUE]
    [] worker[p].pc = "patchFailed"    -> [r EXCEPT !.status = "failed"]
    [] OTHER                           -> r

PatchRow(p) == row' = [row EXCEPT ![worker[p].job] = Patched(p)]
Goto(p, pc) == worker' = [worker EXCEPT ![p].pc = pc]

\* Mutant: the table loop tests its bound too late.
AfterTablesDoWhile(j, n) ==
  IF n >= 0 THEN "generate"
  ELSE IF row[j].format = "DIRECT_SEED" THEN "findConnection" ELSE "patchCompleted"

\* Where the run goes once n tables are left to generate: buildExport awaits
\* nothing unless the data goes straight to the user's database.
AfterTables(j, n) ==
  IF n > 0 THEN "generate"
  ELSE IF row[j].format = "DIRECT_SEED" THEN "findConnection" ELSE "patchCompleted"

PatchRunning(p) ==
  /\ worker[p].pc = "patchRunning"
  /\ PatchRow(p)
  /\ Goto(p, "loadSchema")
  /\ UNCHANGED <<queue, requests, effects, stored, mishaps>>

\* The schema is read again: it may have been edited or deleted since the
\* request was estimated, so the number of tables is whatever it is now.
LoadSchema(p) ==
  /\ worker[p].pc = "loadSchema"
  /\ \/ ~ schema /\ Goto(p, "patchFailed")
     \/ /\ schema
        /\ \E n \in 0..MaxTables :
             worker' = [worker EXCEPT ![p].left = n,
                                      ![p].pc = AfterTables(worker[p].job, n)]
  /\ UNCHANGED <<row, queue, requests, effects, stored, mishaps>>

GenerateTable(p) ==
  /\ worker[p].pc = "generate"
  /\ PatchRow(p)
  /\ LET n == worker[p].left - 1
     IN  worker' = [worker EXCEPT ![p].left = n,
                                  ![p].pc = AfterTables(worker[p].job, n)]
  /\ UNCHANGED <<queue, requests, effects, stored, mishaps>>

FindConnection(p) ==
  /\ worker[p].pc = "findConnection"
  /\ Goto(p, IF connection THEN "executeSql" ELSE "patchFailed")
  /\ UNCHANGED <<row, queue, requests, effects, stored, mishaps>>

\* PostgreSQL gets the whole script, one transaction: BEGIN ... COMMIT.  The
\* MySQL driver cuts it at the semicolons and drops every piece that begins with
\* a comment; formatSQL writes one before each INSERT, so no row is left.
CommitScript(p) ==
  target' = IF Dialect = "mysql" THEN target
            ELSE [target EXCEPT ![worker[p].job][worker[p].attempt] = @ + 1]

\* Mutant: the script is sent again when its answer does not arrive.
ExecuteSqlRetried(p) ==
  /\ worker[p].pc = "executeSql"
  /\ CommitScript(p)
  /\ \E pc \in {"executeSql", "patchCompleted"} : Goto(p, pc)
  /\ UNCHANGED <<row, queue, requests, told, stored, mishaps>>

ExecuteSql(p) ==
  /\ worker[p].pc = "executeSql"
  /\ CommitScript(p)
  /\ Goto(p, "patchCompleted")
  /\ UNCHANGED <<row, queue, requests, told, stored, mishaps>>

\* Mutant: an error while seeding is logged and swallowed.
ThrowSwallowed(p) ==
  /\ worker[p].pc \in {"generate", "findConnection", "executeSql"}
  /\ Goto(p, "patchCompleted")
  /\ UNCHANGED <<row, queue, requests, effects, stored, mishaps>>

\* A generator throws, no connection was named, or the user's database rejects
\* the script.
Throw(p) ==
  /\ worker[p].pc \in {"generate", "findConnection", "executeSql"}
  /\ Goto(p, "patchFailed")
  /\ UNCHANGED <<row, queue, requests, effects, stored, mishaps>>

PatchCompleted(p) ==
  /\ worker[p].pc = "patchCompleted"
  /\ PatchRow(p)
  /\ Goto(p, "emitCompleted")
  /\ UNCHANGED <<queue, requests, effects, stored, mishaps>>

EmitCompleted(p) ==
  /\ worker[p].pc = "emitCompleted"
  /\ told' = [told EXCEPT ![worker[p].job] = @ \cup {"completed"}]
  /\ Goto(p, "ack")
  /\ UNCHANGED <<row, queue, requests, target, stored, mishaps>>

\* emitCompleted and the line after it are inside the try block: an exception
\* after the subscribers were told makes the job a failed one.
LogThrows(p) ==
  /\ worker[p].pc = "emitCompleted"
  /\ told' = [told EXCEPT ![worker[p].job] = @ \cup {"completed"}]
  /\ Goto(p, "patchFailed")
  /\ UNCHANGED <<row, queue, requests, target, stored, mishaps>>

\* The emission throws: inside the try block, or after it and out of process().
EmitThrows(p) ==
  /\ \/ worker[p].pc = "emitCompleted" /\ Goto(p, "patchFailed")
     \/ worker[p].pc = "emitFailed" /\ Goto(p, "ack")
  /\ UNCHANGED <<row, queue, requests, effects, stored, mishaps>>

\* Mutant: the catch clause tells the subscribers and forgets the row.
PatchFailedSkipped(p) ==
  /\ worker[p].pc = "patchFailed"
  /\ Goto(p, "emitFailed")
  /\ UNCHANGED <<row, queue, requests, effects, stored, mishaps>>

PatchFailed(p) ==
  /\ worker[p].pc = "patchFailed"
  /\ PatchRow(p)
  /\ Goto(p, "emitFailed")
  /\ UNCHANGED <<queue, requests, effects, stored, mishaps>>

EmitFailed(p) ==
  /\ worker[p].pc = "emitFailed"
  /\ told' = [told EXCEPT ![worker[p].job] = @ \cup {"failed"}]
  /\ Goto(p, "ack")
  /\ UNCHANGED <<row, queue, requests, target, stored, mishaps>>

\* process() has returned or thrown; attempts is 1, so BullMQ never retries.
\* It refuses the report of a worker that lost the job's lock.
Ack(p) ==
  LET j == worker[p].job IN
  /\ worker[p].pc = "ack"
  /\ bull' = [bull EXCEPT ![j] = IF Owns(p, j) THEN "finished" ELSE @]
  /\ worker' = [worker EXCEPT ![p] = Idle]
  /\ UNCHANGED <<row, stalls, requests, effects, stored, mishaps>>

-----------------------------------------------------------------------------
(* What goes wrong around the handlers. *)

\* A database call of the run is rejected; the write it carried may have been
\* applied.  Only the calls inside the try block reach its catch clause.
WorkerFault(p) ==
  /\ faults < MaxFaults
  /\ faults' = faults + 1
  /\ UNCHANGED <<queue, requests, told, stored, crashes>>
  /\ \/ /\ worker[p].pc \in {"loadSchema", "generate", "findConnection",
                             "patchCompleted"}
        /\ row' = row \/ PatchRow(p)
        /\ Goto(p, "patchFailed")
        /\ UNCHANGED <<target, lost>>
     \/ /\ worker[p].pc = "executeSql"       \* committed, but the reply was lost
        /\ CommitScript(p)
        /\ Goto(p, "patchFailed")
        /\ UNCHANGED <<row, lost>>
     \/ /\ worker[p].pc \in {"patchRunning", "patchFailed"}
        /\ row' = row \/ PatchRow(p)
        /\ Goto(p, "ack")
        /\ UNCHANGED target
        /\ Hit(worker[p].job)

\* The process dies and comes back: its run and its requests are gone, the
\* queue and the rows are not.  BullMQ repeats the run if it was the owner's.
Crash(p) ==
  LET cut(c) == cancel[c].host = p /\ cancel[c].pc \notin {"idle", "done", "dead"}
      unsent(j) == start[j].pc = "enqueue" /\ start[j].host = p
      hit(j) ==
        \/ unsent(j)
        \/ \E c \in Cancels : cut(c) /\ cancel[c].job = j
        \/ Runs(p, j) /\ worker[p].pc \in Unsettled /\ ~ Owns(p, j)
  IN
  /\ crashes < MaxCrashes
  /\ crashes' = crashes + 1
  /\ worker' = [worker EXCEPT ![p] = Idle]
  /\ start' = [j \in Jobs |-> IF unsent(j) THEN [pc |-> "dead", host |-> None]
                              ELSE start[j]]
  /\ cancel' = [c \in Cancels |-> IF cut(c) THEN [cancel[c] EXCEPT !.pc = "dead", !.host = None]
                                  ELSE cancel[c]]
  /\ UNCHANGED <<row, queue, effects, stored, faults>>
  /\ lost' = [j \in Jobs |-> lost[j] \/ (hit(j) /\ Forgotten(j)')]

\* BullMQ's check for active jobs whose lock was not renewed: the job is queued
\* again, until it has stalled too often; then BullMQ fails it on its own.
Requeue(j) ==
  /\ IF stalls[j] < MaxStalledCount
     THEN /\ stalls' = [stalls EXCEPT ![j] = @ + 1]
          /\ bull' = [bull EXCEPT ![j] = "waiting"]
     ELSE /\ bull' = [bull EXCEPT ![j] = "finished"]
          /\ UNCHANGED stalls
  /\ UNCHANGED <<row, requests, worker, effects, stored, crashes, faults>>

\* The owner died.  If that was once too often, process() never hears of it.
Stalled(j) ==
  /\ Orphan(j)
  /\ Requeue(j)
  /\ IF stalls[j] >= MaxStalledCount THEN Hit(j) ELSE UNCHANGED lost

\* The owner is alive but busy, or cut off from Redis, and goes on regardless.
LockExpires(j) ==
  /\ \E p \in Procs : Owns(p, j)
  /\ Requeue(j)
  /\ UNCHANGED lost

\* The user deletes the schema or the connection while jobs refer to them.
DeleteSchema ==
  /\ schema /\ schema' = FALSE
  /\ UNCHANGED <<row, queue, requests, worker, effects, connection, mishaps>>

DeleteConnection ==
  /\ connection /\ connection' = FALSE
  /\ UNCHANGED <<row, queue, requests, worker, effects, schema, mishaps>>

-----------------------------------------------------------------------------
CancelStep(c) ==
  CancelGetJob(c) \/ CancelGetState(c) \/ CancelRemove(c) \/ CancelLocked(c)
    \/ CancelUpdate(c)

RunStep(p) ==
  PatchRunning(p) \/ LoadSchema(p) \/ GenerateTable(p) \/ FindConnection(p)
    \/ ExecuteSql(p) \/ PatchCompleted(p) \/ EmitCompleted(p) \/ PatchFailed(p)
    \/ EmitFailed(p) \/ Ack(p)

Next ==
  \/ \E j \in Jobs : StartEnqueue(j) \/ StartFault(j) \/ Stalled(j) \/ LockExpires(j)
  \/ \E p \in Procs : RunStep(p) \/ Throw(p) \/ LogThrows(p) \/ EmitThrows(p)
                       \/ WorkerFault(p) \/ Crash(p)
  \/ \E p \in Procs, j \in Jobs : StartInsert(j, p) \/ Take(p, j)
  \/ \E c \in Cancels : CancelStep(c) \/ CancelFault(c)
  \/ \E c \in Cancels, p \in Procs, j \in Jobs : CancelRead(c, p, j)
  \/ DeleteSchema
  \/ DeleteConnection

Spec == Init /\ [][Next]_vars

\* Handlers and runs that were begun go on, idle workers take waiting jobs and
\* the stalled check keeps running; nobody is obliged to send a request, and
\* crashes, faults, expired locks and deletions are never obliged to happen.
Fairness ==
  /\ \A j \in Jobs : WF_vars(StartEnqueue(j)) /\ WF_vars(Stalled(j))
  /\ \A j \in Jobs : WF_vars(\E p \in Procs : Take(p, j))
  /\ \A p \in Procs : WF_vars(RunStep(p))
  /\ \A c \in Cancels : WF_vars(CancelStep(c))

FairSpec == Spec /\ Fairness

-----------------------------------------------------------------------------
(* Properties *)

\* Every variable has its type, and no counter passes its bound.
TypeOK ==
  /\ row \in [Jobs -> Row]
  /\ bull \in [Jobs -> BullState]
  /\ stalls \in [Jobs -> Attempt]
  /\ start \in [Jobs -> StartHandler]
  /\ cancel \in [Cancels -> CancelHandler]
  /\ worker \in [Procs -> Run]
  /\ target \in [Jobs -> [Attempt -> Nat]]
  /\ told \in [Jobs -> SUBSET {"completed", "failed"}]
  /\ schema \in BOOLEAN /\ connection \in BOOLEAN
  /\ crashes \in 0..MaxCrashes /\ faults \in 0..MaxFaults
  /\ lost \in [Jobs -> BOOLEAN]

\* A row that is pending or running has someone who will settle it: the start
\* handler about to enqueue it, the queue, a run that has yet to write its
\* verdict, or a cancel.  No await, no cancel or second run beside it, no error
\* process() catches and no crash of the lock's owner is an excuse; only the
\* mishaps that Hit names are, and only if they left nobody else.
SomeoneResponsible ==
  \A j \in Jobs :
    row[j].status \in {"pending", "running"} /\ ~lost[j] => Responsible(j)

\* However often a job stalls, fails or is cancelled, each attempt commits its
\* script at most once, and there are no more attempts than stalls and one.
SeededOncePerAttempt ==
  \A j \in Jobs, a \in Attempt : target[j][a] <= (IF a <= stalls[j] THEN 1 ELSE 0)

\* A direct-seed job of a PostgreSQL database reported completed has put its
\* rows there, whatever failed, was cancelled or was run again meanwhile.
CompletedIsSeeded ==
  \A j \in Jobs :
    /\ Dialect = "postgresql"
    /\ row[j].status = "completed" /\ row[j].format = "DIRECT_SEED"
    => \E a \in Attempt : target[j][a] > 0

\* Once a subscriber has been told that a job completed, GET .../export finds
\* the export, even if the job was cancelled or is running again by then.
AnnouncedIsDownloadable ==
  \A j \in Jobs : "completed" \in told[j] => row[j].export

\* Of a job that ran once, a verdict is heard when the row is settled and not
\* before, and after "failed" was heard no row says completed, whatever the
\* cancel, the exception or the rejected patch between the writes of the row and
\* the emissions.  (After "completed" the row may still turn to failed.)
VerdictStands ==
  \A j \in Jobs :
    stalls[j] = 0 =>
      /\ told[j] # {} => row[j].status \in Terminal
      /\ "failed" \in told[j] => row[j].status # "completed"

\* Nothing that could still write the row of job j is on its way.
Quiet(j) ==
  /\ start[j].pc \in {"done", "dead"}
  /\ bull[j] \in {"absent", "finished"}
  /\ ~ \E p \in Procs : Runs(p, j)
  /\ ~ \E c \in Cancels : cancel[c].job = j /\ cancel[c].pc \notin {"idle", "done", "dead"}

\* The final status of a job is final: once no handler, queue entry or run is
\* left, no later request changes the row or sets anything going again (a late
\* cancel only reports the status).
SettledIsFinal ==
  [][\A j \in Jobs : Quiet(j) /\ row[j].status \in Terminal =>
                       Quiet(j)' /\ row'[j] = row[j]]_vars

\* The service keeps its promise: an accepted job is open until it is settled for
\* good, and it does get settled, through the crashes BullMQ repairs and the
\* errors process() catches.
Phase(j) ==
  IF row[j].status = "none" THEN "none"
  ELSE IF lost[j] THEN "lost"
  ELSE IF Quiet(j) /\ row[j].status \in Terminal THEN "settled"
  ELSE "open"

Promise == INSTANCE JobPromise WITH phase <- [j \in Jobs |-> Phase(j)]

PromiseKept == Promise!FairSpec
=============================================================================
