----------------------- MODULE GenerationJobs_proofs ------------------------
(***************************************************************************)
(* Theorems about GenerationJobs, for every number of jobs, processes,     *)
(* requests, tables, stalls, crashes and faults.                           *)
(***************************************************************************)
EXTENDS GenerationJobs, TLAPS

\* The awaits before the job's script may have been committed.
Unseeded == {"patchRunning", "loadSchema", "generate", "findConnection", "executeSql"}

\* A busy worker runs one of the jobs, a DELETE under way is about one of them,
\* and a worker that generates has a table to generate.
Busy ==
  /\ \A p \in Procs : worker[p].pc # "idle" => worker[p].job \in Jobs
  /\ \A p \in Procs : worker[p].pc = "generate" => worker[p].left > 0
  /\ \A c \in Cancels : cancel[c].pc # "idle" => cancel[c].job \in Jobs

\* Before queue.add has answered, nothing has happened on behalf of the job.
Untouched ==
  \A j \in Jobs :
    start[j].pc # "done" =>
      /\ bull[j] = "absent" /\ stalls[j] = 0 /\ told[j] = {}
      /\ \A a \in Attempt : target[j][a] = 0
      /\ \A p \in Procs : ~ Runs(p, j)

\* No two processes are in the same attempt at a job, even when several run
\* it, and the attempt a waiting job will get is a new one.
AttemptsDistinct ==
  \A j \in Jobs, p \in Procs :
    Runs(p, j) =>
      /\ worker[p].attempt <= stalls[j]
      /\ bull[j] = "waiting" => worker[p].attempt < stalls[j]
      /\ \A q \in Procs :
           Runs(q, j) /\ worker[q].attempt = worker[p].attempt => q = p

\* What a run has committed follows from the await it is at.
SeedKnown ==
  \A j \in Jobs :
    /\ bull[j] = "waiting" => target[j][stalls[j]] = 0
    /\ \A p \in Procs :
         Runs(p, j) =>
           /\ worker[p].pc \in Unseeded => target[j][worker[p].attempt] = 0
           /\ Dialect = "postgresql" =>
                (worker[p].pc = "patchCompleted" /\ row[j].format = "DIRECT_SEED" =>
                   target[j][worker[p].attempt] > 0)

\* A run announces completion with the export in the row.
ExportKnown ==
  \A j \in Jobs, p \in Procs :
    Runs(p, j) /\ worker[p].pc = "emitCompleted" => row[j].export

\* The awaits of a run before it has written any verdict.
Undecided == Unsettled \ {"patchFailed"}

\* The first attempt announces nothing before its verdict is in the row, and at
\* the end of the catch clause not yet that the job failed.
VerdictKnown ==
  \A j \in Jobs :
    stalls[j] = 0 =>
      /\ bull[j] = "waiting" => told[j] = {}
      /\ \A p \in Procs :
           Runs(p, j) =>
             /\ worker[p].pc \in Undecided => told[j] = {}
             /\ worker[p].pc # "ack" => "failed" \notin told[j]
             /\ worker[p].pc \in {"emitCompleted", "emitFailed"} => row[j].status \in Terminal
             /\ worker[p].pc = "emitFailed" => row[j].status # "completed"

IInv ==
  /\ TypeOK /\ Busy /\ Untouched /\ AttemptsDistinct
  /\ SeedKnown /\ SeededOncePerAttempt /\ CompletedIsSeeded
  /\ ExportKnown /\ AnnouncedIsDownloadable
  /\ VerdictKnown /\ VerdictStands
  /\ SomeoneResponsible

-----------------------------------------------------------------------------
(* Type correctness *)

\* Updates of one field keep the type of the record it is in.
LEMMA SetRunPc == ASSUME NEW w \in [Procs -> Run], NEW p \in Procs, NEW pc \in RunPc \cup {"idle"}
  PROVE [w EXCEPT ![p].pc = pc] \in [Procs -> Run]
 BY DEF Run

\* So does moving it and counting its tables.
LEMMA SetRunLeft == ASSUME NEW w \in [Procs -> Run], NEW p \in Procs, NEW pc \in RunPc, NEW n \in Nat
  PROVE [w EXCEPT ![p].left = n, ![p].pc = pc] \in [Procs -> Run]
 BY DEF Run

\* Moving a DELETE handler keeps the handlers well typed.
LEMMA SetCancelPc == ASSUME NEW f \in [Cancels -> CancelHandler], NEW c \in Cancels, NEW pc \in CancelPc
  PROVE [f EXCEPT ![c].pc = pc] \in [Cancels -> CancelHandler]
 BY DEF CancelHandler

\* So does answering it.
LEMMA SetAnswer == ASSUME NEW f \in [Cancels -> CancelHandler], NEW c \in Cancels, NEW a \in Answer
  PROVE [f EXCEPT ![c].pc = "done", ![c].host = None, ![c].answer = a] \in [Cancels -> CancelHandler]
<1>1. "done" \in CancelPc BY DEF CancelPc
<1> QED BY <1>1 DEF CancelHandler

\* Writing a status keeps the rows well typed.
LEMMA SetStatus == ASSUME NEW f \in [Jobs -> Row], NEW j \in Jobs, NEW s \in Status
  PROVE [f EXCEPT ![j].status = s] \in [Jobs -> Row]
 BY DEF Row

\* What patchJob writes is a row.
LEMMA PatchedType == ASSUME TypeOK, NEW p \in Procs, worker[p].job \in Jobs
  PROVE Patched(p) \in Row
<1> DEFINE r == row[worker[p].job]
<1>0. r \in Row BY DEF TypeOK
<1>1. \A s \in Status : [r EXCEPT !.status = s] \in Row /\ [r EXCEPT !.status = s, !.export = TRUE] \in Row
   BY <1>0 DEF Row
<1>2. "running" \in Status /\ "completed" \in Status /\ "failed" \in Status BY DEF Status
<1> QED BY <1>0, <1>1, <1>2 DEF Patched

\* Queueing a job again keeps the queue's types.
LEMMA RequeueType == ASSUME TypeOK, NEW j \in Jobs, Requeue(j)
  PROVE bull' \in [Jobs -> BullState] /\ stalls' \in [Jobs -> Attempt]
<1>1. {"waiting", "finished"} \subseteq BullState BY DEF BullState
<1>2. bull' \in [Jobs -> BullState] BY <1>1 DEF TypeOK, Requeue
<1>3. stalls[j] < MaxStalledCount => stalls[j] + 1 \in Attempt BY BoundsAssumption DEF TypeOK, Attempt
<1>4. stalls' \in [Jobs -> Attempt] BY <1>3 DEF TypeOK, Requeue
<1> QED BY <1>2, <1>4

\* An idle worker's record, and a commit counted for an attempt.
LEMMA IdleType == Idle \in Run
 BY BoundsAssumption DEF Idle, Run, Attempt

\* Counting a commit keeps the counts well typed.
LEMMA CommitType == ASSUME NEW t \in [Jobs -> [Attempt -> Nat]], NEW j \in Jobs, NEW a \in Attempt
  PROVE [t EXCEPT ![j][a] = @ + 1] \in [Jobs -> [Attempt -> Nat]]
<1>1. [t[j] EXCEPT ![a] = @ + 1] \in [Attempt -> Nat] OBVIOUS
<1> QED BY <1>1

\* A mishap nobody answers touches the history of one job, and accounts for it.
LEMMA HitEffect ==
  ASSUME lost \in [Jobs -> BOOLEAN], NEW j \in Jobs, Hit(j)
  PROVE  /\ lost' \in [Jobs -> BOOLEAN]
         /\ \A i \in Jobs \ {j} : lost'[i] = lost[i]
         /\ lost'[j] <=> lost[j] \/ Forgotten(j)'
  BY DEF Hit

\* Every step keeps the types.
LEMMA TypeStep == ASSUME TypeOK, Busy, [Next]_vars PROVE TypeOK'
<1> USE BoundsAssumption
<1>1. ASSUME NEW j \in Jobs, NEW p \in Procs, StartInsert(j, p) PROVE TypeOK'
  <2>1. \A f \in Format : [NoRow EXCEPT !.status = "pending", !.format = f] \in Row
    BY DEF NoRow, Row, Status, Format
  <2>2. row' \in [Jobs -> Row]
    BY <1>1, <2>1, TypeOK DEF StartInsert, TypeOK
  <2>3. start' \in [Jobs -> StartHandler]
    BY <1>1, TypeOK DEF StartInsert, TypeOK, StartHandler, StartPc
  <2> QED
    BY <1>1, <2>2, <2>3, TypeOK DEF StartInsert, TypeOK, queue, effects, stored, mishaps
<1>2. ASSUME NEW j \in Jobs, StartEnqueue(j) PROVE TypeOK'
  BY <1>2, TypeOK DEF StartEnqueue, TypeOK, StartHandler, StartPc, BullState, queue, requests, effects, stored, mishaps
<1>3. ASSUME NEW j \in Jobs, StartFault(j) PROVE TypeOK'
  <2>1. start' \in [Jobs -> StartHandler]
    BY <1>3, TypeOK DEF StartFault, TypeOK, StartHandler, StartPc
  <2>2. bull' \in [Jobs -> BullState]
    BY <1>3, TypeOK DEF StartFault, TypeOK, BullState
  <2>4. lost' \in [Jobs -> BOOLEAN]
    BY <1>3, HitEffect, TypeOK DEF StartFault, TypeOK
  <2>3. faults' \in 0..MaxFaults
    BY <1>3, TypeOK DEF StartFault, TypeOK
  <2> QED
    BY <1>3, <2>1, <2>2, <2>3, <2>4, TypeOK DEF StartFault, TypeOK, effects, stored
<1>4. ASSUME NEW j \in Jobs, Stalled(j) PROVE TypeOK'
  <2>1. lost' \in [Jobs -> BOOLEAN]
    BY <1>4, HitEffect, TypeOK DEF Stalled, TypeOK
  <2> QED
    BY <1>4, <2>1, RequeueType, TypeOK DEF Stalled, Requeue, TypeOK, requests, effects, stored
<1>5. ASSUME NEW j \in Jobs, LockExpires(j) PROVE TypeOK'
  BY <1>5, RequeueType, TypeOK DEF LockExpires, Requeue, TypeOK, requests, effects, stored
<1>6. ASSUME NEW c \in Cancels, NEW p \in Procs, NEW j \in Jobs, CancelRead(c, p, j) PROVE TypeOK'
  <2> DEFINE read == [pc |-> "getJob", host |-> p, job |-> j, seen |-> row[j].status,
                      answer |-> "none"]
  <2>1. row[j].status \in Status \cup {"none"}
    BY TypeOK DEF TypeOK, Row
  <2>2. /\ read \in CancelHandler
        /\ [read EXCEPT !.pc = "done", !.host = None, !.answer = row[j].status] \in CancelHandler
    BY <2>1 DEF CancelHandler, CancelPc, Answer
  <2>3. cancel' \in [Cancels -> CancelHandler]
    BY <1>6, <2>2, TypeOK DEF CancelRead, TypeOK
  <2> QED
    BY <1>6, <2>3, TypeOK DEF CancelRead, TypeOK, queue, effects, stored, mishaps
<1>7. ASSUME NEW c \in Cancels, CancelGetJob(c) PROVE TypeOK'
  BY <1>7, SetCancelPc, TypeOK DEF CancelGetJob, TypeOK, CancelPc, queue, requests, effects, stored, mishaps
<1>8. ASSUME NEW c \in Cancels, CancelGetState(c) PROVE TypeOK'
  BY <1>8, SetCancelPc, TypeOK DEF CancelGetState, TypeOK, CancelPc, queue, requests, effects, stored, mishaps
<1>9. ASSUME NEW c \in Cancels, CancelRemove(c) PROVE TypeOK'
  BY <1>9, SetCancelPc, TypeOK DEF CancelRemove, TypeOK, CancelPc, BullState, queue, requests, effects, stored, mishaps
<1>10. ASSUME NEW c \in Cancels, CancelLocked(c) PROVE TypeOK'
  BY <1>10, SetAnswer, TypeOK DEF CancelLocked, TypeOK, Reply, Answer, queue, requests, effects, stored, mishaps
<1>11. ASSUME NEW c \in Cancels, CancelUpdate(c) PROVE TypeOK'
  <2>1. cancel' \in [Cancels -> CancelHandler]
    BY <1>11, SetAnswer, TypeOK DEF CancelUpdate, Reply, TypeOK, Answer, Status
  <2>2. row' \in [Jobs -> Row]
    BY <1>11, SetStatus, TypeOK, Busy DEF CancelUpdate, TypeOK, Busy, Status
  <2> QED
    BY <1>11, <2>1, <2>2, TypeOK DEF CancelUpdate, TypeOK, queue, effects, stored, mishaps
<1>12. ASSUME NEW c \in Cancels, CancelFault(c) PROVE TypeOK'
  <2>1. cancel' \in [Cancels -> CancelHandler]
    BY <1>12, SetAnswer, TypeOK DEF CancelFault, Reply, TypeOK, Answer
  <2>2. row' \in [Jobs -> Row]
    <3>0. row \in [Jobs -> Row]
      BY TypeOK DEF TypeOK
    <3>1. row' = row \/ row' = [row EXCEPT ![cancel[c].job].status = "cancelled"]
      BY <1>12 DEF CancelFault
    <3>2. cancel[c].job \in Jobs /\ "cancelled" \in Status
      BY <1>12, Busy DEF CancelFault, Busy, Status
    <3> QED
      BY <3>0, <3>1, <3>2, SetStatus
  <2>3. bull' \in [Jobs -> BullState]
    BY <1>12, TypeOK DEF CancelFault, TypeOK, BullState
  <2>5. lost' \in [Jobs -> BOOLEAN]
    BY <1>12, HitEffect, TypeOK, Busy DEF CancelFault, TypeOK, Busy
  <2>4. faults' \in 0..MaxFaults
    BY <1>12, TypeOK DEF CancelFault, TypeOK
  <2> QED
    BY <1>12, <2>1, <2>2, <2>3, <2>4, <2>5, TypeOK DEF CancelFault, TypeOK, effects, stored
<1>13. ASSUME NEW p \in Procs, NEW j \in Jobs, Take(p, j) PROVE TypeOK'
  BY <1>13, TypeOK DEF Take, TypeOK, Run, RunPc, BullState, queue, requests, effects, stored, mishaps
<1>14. ASSUME NEW p \in Procs, PatchRunning(p) PROVE TypeOK'
  BY <1>14, SetRunPc, PatchedType, TypeOK, Busy DEF PatchRunning, TypeOK, PatchRow, Goto, RunPc, Busy, queue, requests, effects, stored, mishaps
<1>15. ASSUME NEW p \in Procs, LoadSchema(p) PROVE TypeOK'
  <2>1. \A i \in Jobs \cup {None}, n \in Nat : AfterTables(i, n) \in RunPc
    BY DEF AfterTables, RunPc
  <2>2. "patchFailed" \in RunPc
    BY DEF RunPc
  <2>3. worker' \in [Procs -> Run]
    <3>1. CASE Goto(p, "patchFailed")
      BY <3>1, <2>2, SetRunPc, TypeOK DEF Goto, TypeOK
    <3>2. CASE \E n \in 0..MaxTables :
                 worker' = [worker EXCEPT ![p].left = n, ![p].pc = AfterTables(worker[p].job, n)]
      <4>1. worker \in [Procs -> Run] /\ worker[p].job \in Jobs \cup {None}
        BY TypeOK DEF TypeOK, Run
      <4>2. PICK n \in 0..MaxTables :
              worker' = [worker EXCEPT ![p].left = n, ![p].pc = AfterTables(worker[p].job, n)]
        BY <3>2
      <4>3. n \in Nat /\ AfterTables(worker[p].job, n) \in RunPc
        BY <4>1, <2>1
      <4> QED
        BY <4>1, <4>2, <4>3, SetRunLeft
    <3> QED
      BY <1>15, <3>1, <3>2 DEF LoadSchema
  <2> QED
    BY <1>15, <2>3, TypeOK DEF LoadSchema, TypeOK, queue, requests, effects, stored, mishaps
<1>16. ASSUME NEW p \in Procs, GenerateTable(p) PROVE TypeOK'
  <2>1. \A i \in Jobs \cup {None}, n \in Nat : AfterTables(i, n) \in RunPc
    BY DEF AfterTables, RunPc
  <2>2. worker[p].left - 1 \in Nat /\ worker[p].job \in Jobs
    BY <1>16, TypeOK, Busy DEF GenerateTable, TypeOK, Run, Busy
  <2>3. worker' \in [Procs -> Run]
    BY <1>16, <2>1, <2>2, SetRunLeft, TypeOK DEF GenerateTable, TypeOK
  <2>4. row' \in [Jobs -> Row]
    BY <1>16, <2>2, PatchedType, TypeOK DEF GenerateTable, PatchRow, TypeOK
  <2> QED
    BY <1>16, <2>3, <2>4, TypeOK DEF GenerateTable, TypeOK, queue, requests, effects, stored, mishaps
<1>17. ASSUME NEW p \in Procs, FindConnection(p) PROVE TypeOK'
  BY <1>17, SetRunPc, TypeOK DEF FindConnection, TypeOK, Goto, RunPc, queue, requests, effects, stored, mishaps
<1>18. ASSUME NEW p \in Procs, ExecuteSql(p) PROVE TypeOK'
  <2>1. worker' \in [Procs -> Run]
    BY <1>18, SetRunPc, TypeOK DEF ExecuteSql, CommitScript, Goto, TypeOK, RunPc
  <2>2. worker[p].attempt \in Attempt /\ worker[p].job \in Jobs
    BY <1>18, TypeOK, Busy DEF ExecuteSql, CommitScript, TypeOK, Run, Busy
  <2>3. target' \in [Jobs -> [Attempt -> Nat]]
    BY <1>18, <2>2, CommitType, TypeOK DEF ExecuteSql, CommitScript, TypeOK
  <2> QED
    BY <1>18, <2>1, <2>3, TypeOK DEF ExecuteSql, CommitScript, TypeOK, queue, requests, stored, mishaps
<1>19. ASSUME NEW p \in Procs, PatchCompleted(p) PROVE TypeOK'
  BY <1>19, SetRunPc, PatchedType, TypeOK, Busy DEF PatchCompleted, TypeOK, PatchRow, Goto, RunPc, Busy, queue, requests, effects, stored, mishaps
<1>20. ASSUME NEW p \in Procs, EmitCompleted(p) PROVE TypeOK'
  BY <1>20, SetRunPc, TypeOK DEF EmitCompleted, TypeOK, Goto, RunPc, queue, requests, effects, stored, mishaps
<1>21. ASSUME NEW p \in Procs, PatchFailed(p) PROVE TypeOK'
  BY <1>21, SetRunPc, PatchedType, TypeOK, Busy DEF PatchFailed, TypeOK, PatchRow, Goto, RunPc, Busy, queue, requests, effects, stored, mishaps
<1>22. ASSUME NEW p \in Procs, EmitFailed(p) PROVE TypeOK'
  BY <1>22, SetRunPc, TypeOK DEF EmitFailed, TypeOK, Goto, RunPc, queue, requests, effects, stored, mishaps
<1>23. ASSUME NEW p \in Procs, Ack(p) PROVE TypeOK'
  <2>1. worker' \in [Procs -> Run]
    BY <1>23, IdleType, TypeOK DEF Ack, TypeOK
  <2>2. bull' \in [Jobs -> BullState]
    BY <1>23, TypeOK DEF Ack, TypeOK, BullState
  <2> QED
    BY <1>23, <2>1, <2>2, TypeOK DEF Ack, TypeOK, requests, effects, stored, mishaps
<1>24. ASSUME NEW p \in Procs, Throw(p) PROVE TypeOK'
  BY <1>24, SetRunPc, TypeOK DEF Throw, TypeOK, Goto, RunPc, queue, requests, effects, stored, mishaps
<1>25. ASSUME NEW p \in Procs, WorkerFault(p) PROVE TypeOK'
  <2>1. worker' \in [Procs -> Run]
    <3>1. {"patchFailed", "ack"} \subseteq RunPc
      BY DEF RunPc
    <3>0. worker \in [Procs -> Run]
      BY TypeOK DEF TypeOK
    <3>2. Goto(p, "patchFailed") \/ Goto(p, "ack")
      BY <1>25 DEF WorkerFault
    <3> QED
      BY <3>0, <3>1, <3>2, SetRunPc DEF Goto
  <2>2. row' \in [Jobs -> Row]
    BY <1>25, PatchedType, TypeOK, Busy DEF WorkerFault, PatchRow, TypeOK, Busy
  <2>3. worker[p].attempt \in Attempt /\ worker[p].job \in Jobs
    BY <1>25, TypeOK, Busy DEF WorkerFault, TypeOK, Run, Busy
  <2>4. target' \in [Jobs -> [Attempt -> Nat]]
    <3>0. target \in [Jobs -> [Attempt -> Nat]]
      BY TypeOK DEF TypeOK
    <3>1. \/ target' = target
          \/ target' = [target EXCEPT ![worker[p].job][worker[p].attempt] = @ + 1]
      BY <1>25 DEF WorkerFault, CommitScript
    <3> QED
      BY <3>0, <3>1, <2>3, CommitType
  <2>5. lost' \in [Jobs -> BOOLEAN]
    BY <1>25, <2>3, HitEffect, TypeOK DEF WorkerFault, TypeOK
  <2>6. faults' \in 0..MaxFaults
    BY <1>25, TypeOK DEF WorkerFault, TypeOK
  <2> QED
    BY <1>25, <2>1, <2>2, <2>4, <2>5, <2>6, TypeOK DEF WorkerFault, TypeOK, queue, requests, stored
<1>30. ASSUME NEW p \in Procs, LogThrows(p) \/ EmitThrows(p) PROVE TypeOK'
  <2>1. worker' \in [Procs -> Run]
    <3>1. {"patchFailed", "ack"} \subseteq RunPc /\ worker \in [Procs -> Run]
      BY TypeOK DEF RunPc, TypeOK
    <3>2. Goto(p, "patchFailed") \/ Goto(p, "ack")
      BY <1>30 DEF LogThrows, EmitThrows
    <3> QED
      BY <3>1, <3>2, SetRunPc DEF Goto
  <2>2. told' \in [Jobs -> SUBSET {"completed", "failed"}]
    BY <1>30, TypeOK DEF LogThrows, EmitThrows, TypeOK, effects
  <2> QED
    BY <1>30, <2>1, <2>2, TypeOK DEF LogThrows, EmitThrows, TypeOK, queue, requests, effects, stored, mishaps
<1>26. ASSUME NEW p \in Procs, Crash(p) PROVE TypeOK'
  <2>1. worker' \in [Procs -> Run]
    BY <1>26, IdleType, TypeOK DEF Crash, TypeOK
  <2>2. start' \in [Jobs -> StartHandler]
    BY <1>26, TypeOK DEF Crash, TypeOK, StartHandler, StartPc
  <2>3. \A c \in Cancels : [cancel[c] EXCEPT !.pc = "dead", !.host = None] \in CancelHandler
    BY TypeOK DEF TypeOK, CancelHandler, CancelPc
  <2>4. cancel' \in [Cancels -> CancelHandler]
    BY <1>26, <2>3, TypeOK DEF Crash, TypeOK
  <2>5. lost' \in [Jobs -> BOOLEAN]
    BY <1>26, TypeOK DEF Crash, TypeOK
  <2>6. crashes' \in 0..MaxCrashes
    <3>1. crashes < MaxCrashes /\ crashes' = crashes + 1
      BY <1>26 DEF Crash
    <3> QED
      BY <3>1, TypeOK DEF TypeOK
  <2> QED
    BY <1>26, <2>1, <2>2, <2>4, <2>5, <2>6, TypeOK DEF Crash, TypeOK, queue, effects, stored
<1>27. ASSUME DeleteSchema PROVE TypeOK'
  BY <1>27, TypeOK DEF DeleteSchema, TypeOK, queue, requests, effects, stored, mishaps
<1>28. ASSUME DeleteConnection PROVE TypeOK'
  BY <1>28, TypeOK DEF DeleteConnection, TypeOK, queue, requests, effects, stored, mishaps
<1>29. ASSUME UNCHANGED vars PROVE TypeOK'
  BY <1>29, TypeOK DEF vars, TypeOK, queue, requests, effects, stored, mishaps
<1> QED
  BY <1>1, <1>2, <1>3, <1>4, <1>5, <1>6, <1>7, <1>8, <1>9, <1>10, <1>11, <1>12, <1>13, <1>14, <1>15, <1>16, <1>17, <1>18, <1>19, <1>20, <1>21, <1>22, <1>23, <1>24, <1>25, <1>26, <1>27, <1>28, <1>29, <1>30, [Next]_vars DEF Next, CancelStep, RunStep

-----------------------------------------------------------------------------
(* What the steps of each kind leave alone *)

\* A step of the run of worker p, other than reporting to BullMQ.
Works(p) ==
  \/ PatchRunning(p) \/ LoadSchema(p) \/ GenerateTable(p) \/ FindConnection(p)
  \/ ExecuteSql(p) \/ PatchCompleted(p) \/ EmitCompleted(p) \/ PatchFailed(p)
  \/ EmitFailed(p) \/ Throw(p) \/ LogThrows(p) \/ EmitThrows(p) \/ WorkerFault(p)

\* A step of some DELETE handler.
Cancelling == \E c \in Cancels :
  CancelStep(c) \/ CancelFault(c) \/ \E p \in Procs, j \in Jobs : CancelRead(c, p, j)

\* A DELETE may take the job out of the queue and write one status.
LEMMA CancelEffect ==
  ASSUME TypeOK, Busy, Cancelling
  PROVE  /\ UNCHANGED <<stalls, start, worker, target, told>>
         /\ \A j \in Jobs : bull'[j] \in {bull[j], "absent"}
         /\ \A j \in Jobs : /\ row'[j].export = row[j].export
                           /\ row'[j].format = row[j].format
                           /\ row'[j].status \in {row[j].status, "cancelled"}
<1>1. row \in [Jobs -> Row] /\ bull \in [Jobs -> BullState]
  BY DEF TypeOK
<1>2. PICK c \in Cancels :
        CancelStep(c) \/ CancelFault(c) \/ \E p \in Procs, j \in Jobs : CancelRead(c, p, j)
  BY DEF Cancelling
<1>3. UNCHANGED <<stalls, start, worker, target, told>>
  BY <1>2 DEF CancelStep, CancelRead, CancelGetJob, CancelGetState, CancelRemove, CancelLocked,
              CancelUpdate, CancelFault, queue, effects
<1>4. bull' = bull \/ bull' = [bull EXCEPT ![cancel[c].job] = "absent"]
  BY <1>2 DEF CancelStep, CancelRead, CancelGetJob, CancelGetState, CancelRemove, CancelLocked,
              CancelUpdate, CancelFault, queue
<1>5. row' = row \/ row' = [row EXCEPT ![cancel[c].job].status = "cancelled"]
  BY <1>2 DEF CancelStep, CancelRead, CancelGetJob, CancelGetState, CancelRemove, CancelLocked,
              CancelUpdate, CancelFault
<1>6. \A j \in Jobs : bull'[j] \in {bull[j], "absent"}
  BY <1>1, <1>4
<1>7. \A j \in Jobs : /\ row'[j].export = row[j].export
                    /\ row'[j].format = row[j].format
                    /\ row'[j].status \in {row[j].status, "cancelled"}
  BY <1>1, <1>5 DEF Row
<1> QED
  BY <1>3, <1>6, <1>7

\* A run moves its own program counter and touches no queue.
LEMMA RunEffect ==
  ASSUME TypeOK, Busy, NEW p \in Procs, Works(p)
  PROVE  /\ UNCHANGED <<bull, stalls, start, cancel>>
         /\ worker[p].pc # "idle" /\ worker'[p].pc \in RunPc
         /\ worker'[p].job = worker[p].job /\ worker'[p].attempt = worker[p].attempt
         /\ \A q \in Procs \ {p} : worker'[q] = worker[q]
<1>1. worker \in [Procs -> Run]
  BY DEF TypeOK
<1>2. UNCHANGED <<bull, stalls, start, cancel>>
  BY DEF Works, PatchRunning, LoadSchema, GenerateTable, FindConnection, ExecuteSql, PatchCompleted,
         EmitCompleted, PatchFailed, EmitFailed, Throw, LogThrows, EmitThrows, WorkerFault, queue, requests
<1>3. worker[p].pc # "idle"
  BY DEF Works, PatchRunning, LoadSchema, GenerateTable, FindConnection, ExecuteSql, PatchCompleted,
         EmitCompleted, PatchFailed, EmitFailed, Throw, LogThrows, EmitThrows, WorkerFault
<1>4. \/ \E pc \in RunPc : worker' = [worker EXCEPT ![p].pc = pc]
      \/ \E pc \in RunPc, n \in Nat : worker' = [worker EXCEPT ![p].left = n, ![p].pc = pc]
  <2>1. \A i \in Jobs \cup {None}, n \in Nat : AfterTables(i, n) \in RunPc
    BY DEF AfterTables, RunPc
  <2>2. worker[p].job \in Jobs \cup {None} /\ worker[p].left \in Nat
    BY <1>1 DEF Run
  <2>3. {"loadSchema", "executeSql", "patchCompleted", "patchFailed", "emitCompleted",
         "emitFailed", "ack"} \subseteq RunPc
    BY DEF RunPc
  <2>4. CASE GenerateTable(p)
    <3>1. worker[p].left - 1 \in Nat
      BY <2>2, <2>4 DEF GenerateTable, Busy
    <3> QED
      BY <2>1, <2>2, <2>4, <3>1 DEF GenerateTable
  <2>5. CASE LoadSchema(p)
    <3>1. CASE \E n \in 0..MaxTables :
                 worker' = [worker EXCEPT ![p].left = n, ![p].pc = AfterTables(worker[p].job, n)]
      <4>1. PICK n \in 0..MaxTables :
              worker' = [worker EXCEPT ![p].left = n, ![p].pc = AfterTables(worker[p].job, n)]
        BY <3>1
      <4>2. n \in Nat /\ AfterTables(worker[p].job, n) \in RunPc
        BY <2>1, <2>2
      <4> QED
        BY <4>1, <4>2
    <3>2. CASE Goto(p, "patchFailed")
      BY <2>3, <3>2 DEF Goto
    <3> QED
      BY <2>5, <3>1, <3>2 DEF LoadSchema
  <2> QED
    BY <2>3, <2>4, <2>5 DEF Works, PatchRunning, FindConnection, ExecuteSql, PatchCompleted,
         EmitCompleted, PatchFailed, EmitFailed, Throw, LogThrows, EmitThrows, WorkerFault, Goto
<1>5. "idle" \notin RunPc
  BY DEF RunPc
<1>6. /\ worker'[p].pc \in RunPc
      /\ worker'[p].job = worker[p].job /\ worker'[p].attempt = worker[p].attempt
      /\ \A q \in Procs \ {p} : worker'[q] = worker[q]
  BY <1>1, <1>4 DEF Run
<1> QED
  BY <1>2, <1>3, <1>6

\* The steps by kind.
LEMMA NextCases ==
  ASSUME [Next]_vars, TypeOK
  PROVE  \/ \E j \in Jobs, p \in Procs : StartInsert(j, p) \/ Take(p, j)
         \/ \E j \in Jobs : StartEnqueue(j) \/ StartFault(j) \/ Stalled(j) \/ LockExpires(j)
         \/ Cancelling
         \/ \E p \in Procs : Works(p) \/ Ack(p) \/ Crash(p)
         \/ UNCHANGED <<row, bull, stalls, start, cancel, worker, target, told, crashes, faults, lost>>
  BY DEF Next, RunStep, Works, Cancelling, DeleteSchema, DeleteConnection, vars, queue, requests,
         effects, mishaps

\* A job whose lock expired waits for its next attempt, or is given up.
LEMMA RequeueEffect ==
  ASSUME TypeOK, NEW j \in Jobs, Stalled(j) \/ LockExpires(j)
  PROVE  /\ UNCHANGED <<row, start, cancel, worker, target, told>>
         /\ bull[j] = "active"
         /\ \A i \in Jobs \ {j} : bull'[i] = bull[i] /\ stalls'[i] = stalls[i]
         /\ \/ bull'[j] = "waiting" /\ stalls'[j] = stalls[j] + 1 /\ stalls[j] + 1 \in Attempt
            \/ bull'[j] = "finished" /\ stalls'[j] = stalls[j]
<1>1. bull \in [Jobs -> BullState] /\ stalls \in [Jobs -> Attempt]
  BY DEF TypeOK
<1>2. bull[j] = "active" /\ Requeue(j)
  BY DEF Stalled, LockExpires, Orphan, Owns
<1>3. CASE stalls[j] < MaxStalledCount
  <2>1. stalls[j] + 1 \in Attempt
    BY <1>1, <1>3, BoundsAssumption DEF Attempt
  <2> QED
    BY <1>1, <1>2, <1>3, <2>1 DEF Requeue, requests, effects
<1>4. CASE ~ (stalls[j] < MaxStalledCount)
  BY <1>1, <1>2, <1>4 DEF Requeue, requests, effects
<1> QED
  BY <1>3, <1>4

\* Which step leads to the last awaits of a run.
LEMMA NextPc ==
  ASSUME TypeOK, NEW p \in Procs, Works(p)
  PROVE  /\ worker[p].pc \notin {"idle", "ack"}
         /\ worker'[p].pc = "emitCompleted" => PatchCompleted(p)
         /\ worker'[p].pc = "emitFailed" => PatchFailed(p)
         /\ worker'[p].pc = "ack" => EmitCompleted(p) \/ EmitFailed(p) \/ EmitThrows(p) \/ WorkerFault(p)
<1>1. worker \in [Procs -> Run]
  BY DEF TypeOK
<1>2. CASE LoadSchema(p)
  BY <1>1, <1>2 DEF LoadSchema, Goto, AfterTables, Run
<1>3. CASE GenerateTable(p)
  BY <1>1, <1>3 DEF GenerateTable, AfterTables, Run
<1>4. CASE WorkerFault(p)
  <2>1. worker[p].pc \notin {"idle", "ack"}
    BY <1>4 DEF WorkerFault
  <2>2. Goto(p, "patchFailed") \/ Goto(p, "ack")
    BY <1>4 DEF WorkerFault
  <2> QED
    BY <1>1, <1>4, <2>1, <2>2 DEF Goto, Run
<1>5. CASE PatchRunning(p) \/ FindConnection(p) \/ ExecuteSql(p) \/ Throw(p)
  BY <1>1, <1>5 DEF PatchRunning, FindConnection, ExecuteSql, Throw, Goto, Run
<1>6. CASE PatchCompleted(p) \/ EmitCompleted(p) \/ PatchFailed(p) \/ EmitFailed(p)
  BY <1>1, <1>6 DEF PatchCompleted, EmitCompleted, PatchFailed, EmitFailed, Goto, Run
<1>7. CASE LogThrows(p) \/ EmitThrows(p)
  BY <1>1, <1>7 DEF LogThrows, EmitThrows, Goto, Run
<1> QED
  BY <1>2, <1>3, <1>4, <1>5, <1>6, <1>7 DEF Works

\* The verdicts are emitted at two places only.
LEMMA Tells ==
  ASSUME NEW p \in Procs, Works(p)
  PROVE  \/ /\ told' = told
            /\ ~ EmitCompleted(p) /\ ~ LogThrows(p) /\ ~ EmitFailed(p)
         \/ /\ told' = [told EXCEPT ![worker[p].job] = @ \cup {"completed"}]
            /\ EmitCompleted(p) \/ LogThrows(p)
         \/ /\ told' = [told EXCEPT ![worker[p].job] = @ \cup {"failed"}]
            /\ EmitFailed(p)
<1>1. CASE EmitCompleted(p) \/ LogThrows(p)
  BY <1>1 DEF EmitCompleted, LogThrows
<1>2. CASE EmitFailed(p)
  BY <1>2 DEF EmitFailed
<1> QED
  BY <1>1, <1>2 DEF Works, PatchRunning, LoadSchema, GenerateTable, FindConnection, ExecuteSql,
     PatchCompleted, PatchFailed, Throw, EmitThrows, WorkerFault, effects

-----------------------------------------------------------------------------
(* One lemma for each part of the invariant *)

\* Every step keeps Busy.
LEMMA BusyStep ==
  ASSUME TypeOK, Busy, [Next]_vars
  PROVE  Busy'
<1>1. worker \in [Procs -> Run] /\ cancel \in [Cancels -> CancelHandler]
  BY DEF TypeOK
<1>2. ASSUME NEW j \in Jobs, NEW p \in Procs, StartInsert(j, p) PROVE Busy'
  BY <1>2 DEF StartInsert, Busy
<1>3. ASSUME NEW j \in Jobs, NEW p \in Procs, Take(p, j) PROVE Busy'
  BY <1>1, <1>3 DEF Take, Busy, requests, Run
<1>4. ASSUME NEW j \in Jobs, StartEnqueue(j) \/ StartFault(j) \/ Stalled(j) \/ LockExpires(j)
      PROVE  Busy'
  BY <1>4 DEF StartEnqueue, StartFault, Stalled, LockExpires, Requeue, Busy, requests
<1>5. CASE Cancelling
  <2>1. worker' = worker
    BY <1>5, CancelEffect
  <2>2. \A c \in Cancels : cancel'[c].pc # "idle" => cancel'[c].job \in Jobs
    <3>1. ASSUME NEW c \in Cancels, NEW p \in Procs, NEW j \in Jobs, CancelRead(c, p, j)
          PROVE  \A d \in Cancels : cancel'[d].pc # "idle" => cancel'[d].job \in Jobs
      BY <1>1, <3>1 DEF CancelRead, Busy
    <3>2. ASSUME NEW c \in Cancels, CancelStep(c) \/ CancelFault(c)
          PROVE  \A d \in Cancels : cancel'[d].pc # "idle" => cancel'[d].job \in Jobs
      <4>1. cancel[c].pc # "idle"
        BY <3>2 DEF CancelStep, CancelGetJob, CancelGetState, CancelRemove, CancelLocked,
             CancelUpdate, CancelFault
      <4>2. \/ \E pc \in CancelPc : cancel' = [cancel EXCEPT ![c].pc = pc]
            \/ \E a \in Answer : Reply(c, a)
        BY <3>2 DEF CancelStep, CancelGetJob, CancelGetState, CancelRemove, CancelLocked,
             CancelUpdate, CancelFault, CancelPc, Answer, Status
      <4> QED
        BY <1>1, <4>1, <4>2 DEF Reply, Busy, CancelHandler
    <3> QED
      BY <1>5, <3>1, <3>2 DEF Cancelling
  <2> QED
    BY <2>1, <2>2 DEF Busy
<1>6. ASSUME NEW p \in Procs, Works(p) PROVE Busy'
  <2>1. \A q \in Procs : worker'[q].pc # "idle" => worker'[q].job \in Jobs
    BY <1>6, RunEffect DEF Busy
  <2>2. worker'[p].pc = "generate" => worker'[p].left > 0
    BY <1>1, <1>6 DEF Works, PatchRunning, LoadSchema, GenerateTable, FindConnection, ExecuteSql,
         PatchCompleted, EmitCompleted, PatchFailed, EmitFailed, Throw, LogThrows, EmitThrows, WorkerFault, Goto,
         AfterTables, Run
  <2> QED
    BY <1>6, <2>1, <2>2, RunEffect DEF Busy
<1>7. ASSUME NEW p \in Procs, Ack(p) PROVE Busy'
  BY <1>1, <1>7 DEF Ack, Busy, Idle, requests
<1>8. ASSUME NEW p \in Procs, Crash(p) PROVE Busy'
  BY <1>1, <1>8 DEF Crash, Busy, Idle, CancelHandler
<1> QED
  BY <1>2, <1>3, <1>4, <1>5, <1>6, <1>7, <1>8, NextCases DEF Busy

\* Every step keeps Untouched.
LEMMA UntouchedStep ==
  ASSUME TypeOK, Busy, Untouched, [Next]_vars
  PROVE  Untouched'
<1>1. /\ worker \in [Procs -> Run] /\ bull \in [Jobs -> BullState]
      /\ start \in [Jobs -> StartHandler]
  BY DEF TypeOK
<1>2. ASSUME NEW j \in Jobs, NEW p \in Procs, StartInsert(j, p) PROVE Untouched'
  BY <1>1, <1>2 DEF StartInsert, Untouched, Runs, queue, effects
<1>3. ASSUME NEW j \in Jobs, NEW p \in Procs, Take(p, j) PROVE Untouched'
  BY <1>1, <1>3 DEF Take, Untouched, Runs, requests, effects
<1>4. ASSUME NEW j \in Jobs, StartEnqueue(j) PROVE Untouched'
  BY <1>1, <1>4 DEF StartEnqueue, Untouched, Runs, effects
<1>5. ASSUME NEW j \in Jobs, StartFault(j) PROVE Untouched'
  BY <1>1, <1>5 DEF StartFault, Untouched, Runs, effects
<1>6. ASSUME NEW j \in Jobs, Stalled(j) \/ LockExpires(j) PROVE Untouched'
  BY <1>6, RequeueEffect DEF Untouched, Runs
<1>7. CASE Cancelling
  BY <1>7, CancelEffect DEF Untouched, Runs
<1>8. ASSUME NEW p \in Procs, Works(p) PROVE Untouched'
  <2> DEFINE j == worker[p].job
  <2>1. j \in Jobs /\ Runs(p, j) /\ start[j].pc = "done"
    BY <1>8, RunEffect DEF Busy, Untouched, Runs
  <2>2. \A i \in Jobs \ {j} : told'[i] = told[i] /\ target'[i] = target[i]
    BY <1>8 DEF TypeOK, Works, PatchRunning, LoadSchema, GenerateTable, FindConnection, ExecuteSql,
         PatchCompleted, EmitCompleted, PatchFailed, EmitFailed, Throw, LogThrows, EmitThrows, WorkerFault, CommitScript, effects
  <2>3. \A q \in Procs, i \in Jobs : Runs(q, i)' => Runs(q, i)
    BY <1>8, RunEffect DEF Runs
  <2> QED
    BY <1>8, <2>1, <2>2, <2>3, RunEffect DEF Untouched
<1>9. ASSUME NEW p \in Procs, Ack(p) PROVE Untouched'
  BY <1>1, <1>9 DEF Ack, Untouched, Runs, Owns, Idle, requests, effects
<1>10. ASSUME NEW p \in Procs, Crash(p) PROVE Untouched'
  BY <1>1, <1>10 DEF Crash, Untouched, Runs, Idle, queue, effects
<1> QED
  BY <1>2, <1>3, <1>4, <1>5, <1>6, <1>7, <1>8, <1>9, <1>10, NextCases DEF Untouched, Runs

\* Every step keeps AttemptsDistinct.
LEMMA AttemptsStep ==
  ASSUME TypeOK, Busy, Untouched, AttemptsDistinct, [Next]_vars
  PROVE  AttemptsDistinct'
<1>1. /\ worker \in [Procs -> Run] /\ bull \in [Jobs -> BullState]
      /\ stalls \in [Jobs -> Nat]
      /\ \A p \in Procs : worker[p].attempt \in Nat
  BY BoundsAssumption DEF TypeOK, Attempt, Run
<1>2. ASSUME NEW j \in Jobs, NEW p \in Procs, StartInsert(j, p) PROVE AttemptsDistinct'
  BY <1>2 DEF StartInsert, AttemptsDistinct, Runs, queue
<1>3. ASSUME NEW j \in Jobs, NEW p \in Procs, Take(p, j) PROVE AttemptsDistinct'
  BY <1>1, <1>3 DEF Take, AttemptsDistinct, Runs
<1>4. ASSUME NEW j \in Jobs, StartEnqueue(j) \/ StartFault(j) PROVE AttemptsDistinct'
  BY <1>1, <1>4 DEF StartEnqueue, StartFault, AttemptsDistinct, Untouched, Runs
<1>5. ASSUME NEW j \in Jobs, Stalled(j) \/ LockExpires(j) PROVE AttemptsDistinct'
  BY <1>1, <1>5, RequeueEffect DEF AttemptsDistinct, Runs
<1>6. CASE Cancelling
  BY <1>1, <1>6, CancelEffect DEF AttemptsDistinct, Runs
<1>7. ASSUME NEW p \in Procs, Works(p) PROVE AttemptsDistinct'
  BY <1>7, RunEffect DEF AttemptsDistinct, Runs
<1>8. ASSUME NEW p \in Procs, Ack(p) PROVE AttemptsDistinct'
  BY <1>1, <1>8 DEF Ack, AttemptsDistinct, Runs, Idle
<1>9. ASSUME NEW p \in Procs, Crash(p) PROVE AttemptsDistinct'
  BY <1>1, <1>9 DEF Crash, AttemptsDistinct, Runs, Idle, queue
<1> QED
  BY <1>2, <1>3, <1>4, <1>5, <1>6, <1>7, <1>8, <1>9, NextCases DEF AttemptsDistinct, Runs

\* Every step keeps SeedKnown and SeededOncePerAttempt.
LEMMA SeedStep ==
  ASSUME TypeOK, Busy, Untouched, AttemptsDistinct, SeedKnown, SeededOncePerAttempt, [Next]_vars
  PROVE  SeedKnown' /\ SeededOncePerAttempt'
<1> DEFINE Seeds == SeedKnown /\ SeededOncePerAttempt
<1>1. /\ worker \in [Procs -> Run] /\ bull \in [Jobs -> BullState]
      /\ stalls \in [Jobs -> Attempt] /\ row \in [Jobs -> Row]
      /\ target \in [Jobs -> [Attempt -> Nat]]
      /\ \A p \in Procs : worker[p].attempt \in Attempt
  BY DEF TypeOK, Run
<1>0. Attempt \subseteq Nat
  BY BoundsAssumption DEF Attempt
<1>2. ASSUME NEW j \in Jobs, NEW p \in Procs, StartInsert(j, p) PROVE Seeds'
  BY <1>1, <1>2 DEF StartInsert, SeedKnown, SeededOncePerAttempt, Runs, Untouched, queue, effects
<1>3. ASSUME NEW j \in Jobs, NEW p \in Procs, Take(p, j) PROVE Seeds'
  BY <1>1, <1>3 DEF Take, SeedKnown, SeededOncePerAttempt, Runs, effects
<1>4. ASSUME NEW j \in Jobs, StartEnqueue(j) \/ StartFault(j) PROVE Seeds'
  BY <1>1, <1>4 DEF StartEnqueue, StartFault, SeedKnown, SeededOncePerAttempt, Untouched, Runs, effects
<1>5. ASSUME NEW j \in Jobs, Stalled(j) \/ LockExpires(j) PROVE Seeds'
  <2>1. \A i \in Jobs, b \in Attempt : b > stalls[i] => target[i][b] = 0
    <3> SUFFICES ASSUME NEW i \in Jobs, NEW b \in Attempt, b > stalls[i] PROVE target[i][b] = 0
      OBVIOUS
    <3>1. b \in Nat /\ stalls[i] \in Nat /\ target[i][b] \in Nat
      BY <1>0, <1>1
    <3>2. ~ (b <= stalls[i])
      BY <3>1
    <3> QED
      BY <3>1, <3>2 DEF SeededOncePerAttempt
  <2>2. SeedKnown'
    <3>1. bull'[j] = "waiting" => target[j][stalls'[j]] = 0
      <4>1. stalls[j] \in Nat
        BY <1>0, <1>1
      <4> QED
        BY <1>5, <2>1, <4>1, RequeueEffect
    <3> QED
      BY <1>5, <3>1, RequeueEffect DEF SeedKnown, Runs
  <2>3. SeededOncePerAttempt'
    <3> SUFFICES ASSUME NEW i \in Jobs, NEW b \in Attempt
                 PROVE  target[i][b] <= (IF b <= stalls'[i] THEN 1 ELSE 0)
      BY <1>5, RequeueEffect DEF SeededOncePerAttempt
    <3>1. b \in Nat /\ stalls[i] \in Nat /\ target[i][b] \in Nat
      BY <1>0, <1>1
    <3>2. stalls'[i] = stalls[i] \/ stalls'[i] = stalls[i] + 1
      BY <1>5, RequeueEffect
    <3>3. target[i][b] <= (IF b <= stalls[i] THEN 1 ELSE 0)
      BY DEF SeededOncePerAttempt
    <3> QED
      BY <3>1, <3>2, <3>3
  <2> QED
    BY <2>2, <2>3
<1>6. CASE Cancelling
  BY <1>1, <1>6, CancelEffect DEF SeedKnown, SeededOncePerAttempt, Runs
<1>8. ASSUME NEW p \in Procs, Ack(p) PROVE Seeds'
  BY <1>1, <1>8 DEF Ack, SeedKnown, SeededOncePerAttempt, Runs, Idle, effects
<1>9. ASSUME NEW p \in Procs, Crash(p) PROVE Seeds'
  BY <1>1, <1>9 DEF Crash, SeedKnown, SeededOncePerAttempt, Runs, Idle, queue, effects
<1>7. ASSUME NEW p \in Procs, Works(p) PROVE Seeds'
  <2> DEFINE j == worker[p].job
             a == worker[p].attempt
  <2>1. j \in Jobs /\ a \in Attempt /\ Runs(p, j) /\ a <= stalls[j] /\ a \in Nat
    BY <1>0, <1>1, <1>7, RunEffect DEF Busy, Runs, AttemptsDistinct
  <2>2. \A i \in Jobs : row'[i].format = row[i].format
    <3>1. row' = row \/ PatchRow(p)
      BY <1>7 DEF Works, PatchRunning, LoadSchema, GenerateTable, FindConnection, ExecuteSql,
         PatchCompleted, EmitCompleted, PatchFailed, EmitFailed, Throw, LogThrows, EmitThrows, WorkerFault
    <3>2. Patched(p).format = row[j].format
      BY <1>1, <2>1 DEF Patched, Row
    <3> QED
      BY <1>1, <2>1, <3>1, <3>2 DEF PatchRow
  <2>3. CASE target' = target
    <3>1. /\ worker'[p].pc \in Unseeded => worker[p].pc \in Unseeded
          /\ Dialect = "postgresql" /\ worker'[p].pc = "patchCompleted" =>
               row[j].format # "DIRECT_SEED"
      <4>1. target[j][a] # target[j][a] + 1
        BY <1>1, <2>1
      <4>2. ASSUME ExecuteSql(p) PROVE Dialect # "postgresql" /\ worker'[p].pc \notin Unseeded
        BY <1>1, <2>1, <2>3, <4>1, <4>2 DEF ExecuteSql, CommitScript, Goto, Run, Unseeded
      <4>3. CASE LoadSchema(p)
        BY <1>1, <4>3 DEF LoadSchema, Goto, AfterTables, Run, Unseeded
      <4>4. CASE GenerateTable(p)
        BY <1>1, <4>4 DEF GenerateTable, AfterTables, Run, Unseeded
      <4>5. CASE WorkerFault(p)
        <5>1. Goto(p, "patchFailed") \/ Goto(p, "ack")
          BY <4>5 DEF WorkerFault
        <5> QED
          BY <1>1, <5>1 DEF Goto, Run, Unseeded
      <4>6. CASE PatchRunning(p) \/ FindConnection(p) \/ Throw(p)
        BY <1>1, <4>6 DEF PatchRunning, FindConnection, Throw, Goto, Run, Unseeded
      <4>7. CASE PatchCompleted(p) \/ EmitCompleted(p) \/ PatchFailed(p) \/ EmitFailed(p)
        BY <1>1, <4>7 DEF PatchCompleted, EmitCompleted, PatchFailed, EmitFailed, Goto, Run, Unseeded
      <4>8. CASE LogThrows(p) \/ EmitThrows(p)
        BY <1>1, <4>8 DEF LogThrows, EmitThrows, Goto, Run, Unseeded
      <4> QED
        BY <1>7, <4>2, <4>3, <4>4, <4>5, <4>6, <4>7, <4>8 DEF Works
    <3>2. SeededOncePerAttempt'
      BY <1>7, <2>3, RunEffect DEF SeededOncePerAttempt
    <3>3. \A i \in Jobs : bull'[i] = "waiting" => target'[i][stalls'[i]] = 0
      BY <1>7, <2>3, RunEffect DEF SeedKnown
    <3>4. \A i \in Jobs, q \in Procs :
            Runs(q, i)' =>
              /\ worker'[q].pc \in Unseeded => target'[i][worker'[q].attempt] = 0
              /\ Dialect = "postgresql" =>
                   (worker'[q].pc = "patchCompleted" /\ row'[i].format = "DIRECT_SEED" =>
                      target'[i][worker'[q].attempt] > 0)
      BY <1>7, <2>1, <2>2, <2>3, <3>1, RunEffect DEF SeedKnown, Runs
    <3> QED
      BY <3>2, <3>3, <3>4 DEF SeedKnown
  <2>4. CASE /\ target' = [target EXCEPT ![j][a] = @ + 1]
             /\ worker[p].pc \in Unseeded /\ worker'[p].pc \notin Unseeded
    <3>1. target[j][a] = 0
      BY <2>1, <2>4 DEF SeedKnown
    <3>2. target'[j][a] = 1
      BY <1>1, <2>1, <2>4, <3>1
    <3>3. \A i \in Jobs, b \in Attempt : i # j \/ b # a => target'[i][b] = target[i][b]
      BY <1>1, <2>1, <2>4
    <3>4. SeededOncePerAttempt'
      BY <1>7, <2>1, <3>2, <3>3, RunEffect DEF SeededOncePerAttempt
    <3>5. \A i \in Jobs : bull'[i] = "waiting" => target'[i][stalls'[i]] = 0
      <4>1. bull' = bull /\ stalls' = stalls
        BY <1>7, RunEffect
      <4>2. ASSUME NEW i \in Jobs, bull[i] = "waiting" PROVE target'[i][stalls[i]] = 0
        <5>1. target[i][stalls[i]] = 0 /\ stalls[i] \in Attempt
          BY <1>1, <4>2 DEF SeedKnown
        <5>2. i # j \/ stalls[i] # a
          BY <1>0, <1>1, <2>1, <4>2 DEF AttemptsDistinct
        <5> QED
          BY <3>3, <5>1, <5>2
      <4> QED
        BY <4>1, <4>2
    <3>6. \A i \in Jobs, q \in Procs :
            Runs(q, i)' =>
              /\ worker'[q].pc \in Unseeded => target'[i][worker'[q].attempt] = 0
              /\ Dialect = "postgresql" =>
                   (worker'[q].pc = "patchCompleted" /\ row'[i].format = "DIRECT_SEED" =>
                      target'[i][worker'[q].attempt] > 0)
      BY <1>1, <1>7, <2>1, <2>2, <2>4, <3>2, <3>3, RunEffect DEF SeedKnown, AttemptsDistinct, Runs
    <3> QED
      BY <3>4, <3>5, <3>6 DEF SeedKnown
  <2> QED
    <3>1. \/ target' = target
          \/ /\ target' = [target EXCEPT ![j][a] = @ + 1]
             /\ worker[p].pc = "executeSql"
             /\ Goto(p, "patchCompleted") \/ Goto(p, "patchFailed")
      BY <1>7 DEF Works, PatchRunning, LoadSchema, GenerateTable, FindConnection, ExecuteSql,
         PatchCompleted, EmitCompleted, PatchFailed, EmitFailed, Throw, LogThrows, EmitThrows, WorkerFault, CommitScript, effects
    <3>3. "executeSql" \in Unseeded
      BY DEF Unseeded
    <3>2. (Goto(p, "patchCompleted") \/ Goto(p, "patchFailed")) => worker'[p].pc \notin Unseeded
      BY <1>1 DEF Goto, Unseeded, Run
    <3> QED
      BY <2>3, <2>4, <3>1, <3>2, <3>3
<1> QED
  BY <1>2, <1>3, <1>4, <1>5, <1>6, <1>7, <1>8, <1>9, NextCases DEF SeedKnown, SeededOncePerAttempt, Runs

\* Every step keeps CompletedIsSeeded.
LEMMA CompletedStep ==
  ASSUME TypeOK, Busy, Untouched, AttemptsDistinct, SeedKnown, SeededOncePerAttempt, CompletedIsSeeded,
         [Next]_vars
  PROVE  CompletedIsSeeded'
<1>1. row \in [Jobs -> Row] /\ target \in [Jobs -> [Attempt -> Nat]] /\ worker \in [Procs -> Run]
  BY DEF TypeOK
<1>2. ASSUME NEW j \in Jobs, NEW p \in Procs, StartInsert(j, p) PROVE CompletedIsSeeded'
  BY <1>1, <1>2 DEF StartInsert, CompletedIsSeeded, NoRow, effects
<1>3. ASSUME NEW j \in Jobs, NEW p \in Procs, Take(p, j) PROVE CompletedIsSeeded'
  BY <1>3 DEF Take, CompletedIsSeeded, effects
<1>4. ASSUME NEW j \in Jobs, StartEnqueue(j) \/ StartFault(j) PROVE CompletedIsSeeded'
  BY <1>4 DEF StartEnqueue, StartFault, CompletedIsSeeded, effects
<1>5. ASSUME NEW j \in Jobs, Stalled(j) \/ LockExpires(j) PROVE CompletedIsSeeded'
  BY <1>5, RequeueEffect DEF CompletedIsSeeded
<1>6. CASE Cancelling
  BY <1>6, CancelEffect DEF CompletedIsSeeded
<1>7. ASSUME NEW p \in Procs, Works(p) PROVE CompletedIsSeeded'
  <2> DEFINE j == worker[p].job
  <2>1. j \in Jobs /\ Runs(p, j) /\ worker[p].attempt \in Attempt
    BY <1>1, <1>7, RunEffect DEF Busy, Runs, Run
  <2>2. \A i \in Jobs, a \in Attempt : target[i][a] > 0 => target'[i][a] > 0
    <3>1. target' = target \/ CommitScript(p)
      BY <1>7 DEF Works, PatchRunning, LoadSchema, GenerateTable, FindConnection, ExecuteSql,
         PatchCompleted, EmitCompleted, PatchFailed, EmitFailed, Throw, LogThrows, EmitThrows,
         WorkerFault, effects
    <3> QED
      BY <1>1, <2>1, <3>1 DEF CommitScript
  <2>3. row' = row \/ PatchRow(p)
    BY <1>7 DEF Works, PatchRunning, LoadSchema, GenerateTable, FindConnection, ExecuteSql,
       PatchCompleted, EmitCompleted, PatchFailed, EmitFailed, Throw, LogThrows, EmitThrows, WorkerFault
  <2>4. CASE row' = row
    BY <2>2, <2>4 DEF CompletedIsSeeded
  <2>5. CASE PatchRow(p)
    <3>1. Patched(p).format = row[j].format
      BY <1>1, <2>1 DEF Patched, Row
    <3>2. Patched(p).status = "completed" => row[j].status = "completed" \/ worker[p].pc = "patchCompleted"
      BY <1>1, <2>1 DEF Patched, Row
    <3>3. \A i \in Jobs \ {j} : row'[i] = row[i]
      BY <1>1, <2>1, <2>5 DEF PatchRow
    <3>4. row'[j] = Patched(p)
      BY <1>1, <2>1, <2>5 DEF PatchRow
    <3>5. Dialect = "postgresql" =>
            (worker[p].pc = "patchCompleted" /\ row[j].format = "DIRECT_SEED" =>
               \E a \in Attempt : target[j][a] > 0)
      BY <2>1 DEF SeedKnown
    <3> QED
      BY <2>1, <2>2, <3>1, <3>2, <3>3, <3>4, <3>5 DEF CompletedIsSeeded
  <2> QED
    BY <2>3, <2>4, <2>5
<1>8. ASSUME NEW p \in Procs, Ack(p) PROVE CompletedIsSeeded'
  BY <1>8 DEF Ack, CompletedIsSeeded, effects
<1>9. ASSUME NEW p \in Procs, Crash(p) PROVE CompletedIsSeeded'
  BY <1>9 DEF Crash, CompletedIsSeeded, effects
<1> QED
  BY <1>2, <1>3, <1>4, <1>5, <1>6, <1>7, <1>8, <1>9, NextCases DEF CompletedIsSeeded

\* Every step keeps ExportKnown and AnnouncedIsDownloadable.
LEMMA ExportStep ==
  ASSUME TypeOK, Busy, Untouched, ExportKnown, AnnouncedIsDownloadable, [Next]_vars
  PROVE  ExportKnown' /\ AnnouncedIsDownloadable'
<1> DEFINE Exports == ExportKnown /\ AnnouncedIsDownloadable
<1>1. /\ row \in [Jobs -> Row] /\ worker \in [Procs -> Run]
      /\ told \in [Jobs -> SUBSET {"completed", "failed"}]
  BY DEF TypeOK
<1>2. ASSUME NEW j \in Jobs, NEW p \in Procs, StartInsert(j, p) PROVE Exports'
  BY <1>1, <1>2 DEF StartInsert, ExportKnown, AnnouncedIsDownloadable, Untouched, Runs, effects
<1>3. ASSUME NEW j \in Jobs, NEW p \in Procs, Take(p, j) PROVE Exports'
  BY <1>1, <1>3 DEF Take, ExportKnown, AnnouncedIsDownloadable, Runs, effects
<1>4. ASSUME NEW j \in Jobs, StartEnqueue(j) \/ StartFault(j) PROVE Exports'
  BY <1>4 DEF StartEnqueue, StartFault, ExportKnown, AnnouncedIsDownloadable, Runs, effects
<1>5. ASSUME NEW j \in Jobs, Stalled(j) \/ LockExpires(j) PROVE Exports'
  BY <1>5, RequeueEffect DEF ExportKnown, AnnouncedIsDownloadable, Runs
<1>6. CASE Cancelling
  BY <1>6, CancelEffect DEF ExportKnown, AnnouncedIsDownloadable, Runs
<1>7. ASSUME NEW p \in Procs, Works(p) PROVE Exports'
  <2> DEFINE j == worker[p].job
  <2>1. j \in Jobs /\ Runs(p, j)
    BY <1>7, RunEffect DEF Busy, Runs
  <2>2. \A i \in Jobs : row[i].export => row'[i].export
    <3>1. row' = row \/ PatchRow(p)
      BY <1>7 DEF Works, PatchRunning, LoadSchema, GenerateTable, FindConnection, ExecuteSql,
         PatchCompleted, EmitCompleted, PatchFailed, EmitFailed, Throw, LogThrows, EmitThrows, WorkerFault
    <3>2. row[j].export => Patched(p).export
      BY <1>1, <2>1 DEF Patched, Row
    <3> QED
      BY <1>1, <2>1, <3>1, <3>2 DEF PatchRow
  <2>3. worker'[p].pc = "emitCompleted" => row'[j].export
    <3>1. CASE PatchCompleted(p)
      BY <1>1, <2>1, <3>1 DEF PatchCompleted, PatchRow, Patched, Row
    <3> QED
      BY <1>7, <3>1, NextPc
  <2>4. \A i \in Jobs : "completed" \in told'[i] =>
          "completed" \in told[i] \/ (i = j /\ worker[p].pc = "emitCompleted")
    <3> SUFFICES ASSUME NEW i \in Jobs, "completed" \in told'[i], "completed" \notin told[i]
                 PROVE  i = j /\ worker[p].pc = "emitCompleted"
      OBVIOUS
    <3>1. CASE told' = told
      BY <3>1
    <3>2. CASE /\ EmitCompleted(p) \/ LogThrows(p)
               /\ told' = [told EXCEPT ![j] = @ \cup {"completed"}]
      BY <1>1, <2>1, <3>2 DEF EmitCompleted, LogThrows
    <3>3. CASE EmitFailed(p) /\ told' = [told EXCEPT ![j] = @ \cup {"failed"}]
      <4>1. told'[j] = told[j] \cup {"failed"} /\ \A k \in Jobs \ {j} : told'[k] = told[k]
        BY <1>1, <2>1, <3>3
      <4> QED
        BY <1>1, <4>1
    <3> QED
      BY <1>7, <3>1, <3>2, <3>3, Tells
  <2>5. AnnouncedIsDownloadable'
    BY <2>1, <2>2, <2>4 DEF AnnouncedIsDownloadable, ExportKnown
  <2>6. ExportKnown'
    BY <1>7, <2>1, <2>2, <2>3, RunEffect DEF ExportKnown, Runs
  <2> QED
    BY <2>5, <2>6
<1>8. ASSUME NEW p \in Procs, Ack(p) PROVE Exports'
  BY <1>1, <1>8 DEF Ack, ExportKnown, AnnouncedIsDownloadable, Runs, Idle, effects
<1>9. ASSUME NEW p \in Procs, Crash(p) PROVE Exports'
  BY <1>1, <1>9 DEF Crash, ExportKnown, AnnouncedIsDownloadable, Runs, Idle, effects
<1> QED
  BY <1>2, <1>3, <1>4, <1>5, <1>6, <1>7, <1>8, <1>9, NextCases DEF ExportKnown, AnnouncedIsDownloadable, Runs

\* Every step keeps VerdictKnown and VerdictStands.
LEMMA VerdictStep ==
  ASSUME TypeOK, Busy, Untouched, AttemptsDistinct, VerdictKnown, VerdictStands, [Next]_vars
  PROVE  VerdictKnown' /\ VerdictStands'
<1> DEFINE Verdicts == VerdictKnown /\ VerdictStands
<1>1. /\ worker \in [Procs -> Run] /\ bull \in [Jobs -> BullState] /\ stalls \in [Jobs -> Nat]
      /\ told \in [Jobs -> SUBSET {"completed", "failed"}] /\ row \in [Jobs -> Row]
      /\ \A p \in Procs : worker[p].attempt \in Nat
  BY BoundsAssumption DEF TypeOK, Run, Attempt
<1>2. ASSUME NEW j \in Jobs, NEW p \in Procs, StartInsert(j, p) PROVE Verdicts'
  BY <1>1, <1>2 DEF StartInsert, VerdictKnown, VerdictStands, Untouched, Runs, queue, effects
<1>3. ASSUME NEW j \in Jobs, NEW p \in Procs, Take(p, j) PROVE Verdicts'
  BY <1>1, <1>3 DEF Take, VerdictKnown, VerdictStands, AttemptsDistinct, Runs, Undecided, effects
<1>4. ASSUME NEW j \in Jobs, StartEnqueue(j) \/ StartFault(j) PROVE Verdicts'
  BY <1>1, <1>4 DEF StartEnqueue, StartFault, VerdictKnown, VerdictStands, Untouched, Runs, effects
<1>5. ASSUME NEW j \in Jobs, Stalled(j) \/ LockExpires(j) PROVE Verdicts'
  BY <1>1, <1>5, RequeueEffect DEF VerdictKnown, VerdictStands, Runs
<1>6. CASE Cancelling
  BY <1>1, <1>6, CancelEffect DEF VerdictKnown, VerdictStands, Runs, Terminal
<1>7. ASSUME NEW p \in Procs, Works(p) PROVE Verdicts'
  <2> DEFINE j == worker[p].job
  <2>1. j \in Jobs /\ Runs(p, j)
    BY <1>7, RunEffect DEF Busy, Runs
  <2>2. /\ \A i \in Jobs \ {j} : told'[i] = told[i] /\ row'[i] = row[i]
        /\ row' = row \/ PatchRow(p)
    <3>1. row' = row \/ PatchRow(p)
      BY <1>7 DEF Works, PatchRunning, LoadSchema, GenerateTable, FindConnection, ExecuteSql,
         PatchCompleted, EmitCompleted, PatchFailed, EmitFailed, Throw, LogThrows, EmitThrows, WorkerFault
    <3> QED
      BY <1>1, <1>7, <2>1, <3>1, Tells DEF PatchRow
  <2>3. stalls[j] = 0 => bull[j] # "waiting" /\ \A q \in Procs : Runs(q, j) => q = p
    BY <1>1, <2>1 DEF AttemptsDistinct
  <2>4. \A q \in Procs, i \in Jobs : Runs(q, i)' <=> Runs(q, i)
    BY <1>7, RunEffect DEF Runs, RunPc
  <2>5. \A q \in Procs \ {p} : worker'[q] = worker[q]
    BY <1>7, RunEffect
  <2>6. bull' = bull /\ stalls' = stalls
    BY <1>7, RunEffect
  <2> DEFINE pc == worker[p].pc
             now == row[j].status
             then == row'[j].status
             next == worker'[p].pc
  <2>7. ASSUME stalls[j] = 0
        PROVE  /\ next \in Undecided => told'[j] = {}
               /\ next # "ack" => "failed" \notin told'[j]
               /\ next \in {"emitCompleted", "emitFailed"} => then \in Terminal
               /\ next = "emitFailed" => then # "completed"
               /\ told'[j] # {} => then \in Terminal
               /\ "failed" \in told'[j] => then # "completed"
    <3>1. /\ pc \in Undecided => told[j] = {}
          /\ pc # "ack" => "failed" \notin told[j]
          /\ pc \in {"emitCompleted", "emitFailed"} => now \in Terminal
          /\ pc = "emitFailed" => now # "completed"
          /\ told[j] # {} => now \in Terminal
          /\ "failed" \in told[j] => now # "completed"
      BY <2>1, <2>7 DEF VerdictKnown, VerdictStands
    <3>2. row'[j] = row[j] \/ row'[j] = Patched(p)
      BY <1>1, <2>1, <2>2 DEF PatchRow
    <3>3. CASE EmitCompleted(p) \/ LogThrows(p)
      <4>1. /\ told'[j] = told[j] \cup {"completed"} /\ pc = "emitCompleted"
            /\ row' = row /\ next \in {"ack", "patchFailed"}
        BY <1>1, <2>1, <3>3 DEF EmitCompleted, LogThrows, Goto, Run
      <4> QED
        BY <3>1, <4>1 DEF Undecided, Unsettled
    <3>4. CASE EmitFailed(p)
      <4>1. /\ told'[j] = told[j] \cup {"failed"} /\ pc = "emitFailed"
            /\ row' = row /\ next = "ack"
        BY <1>1, <2>1, <3>4 DEF EmitFailed, Goto, Run
      <4> QED
        BY <3>1, <4>1 DEF Undecided, Unsettled
    <3>5. CASE EmitThrows(p)
      <4>1. /\ told' = told /\ row' = row
            /\ \/ pc = "emitCompleted" /\ next = "patchFailed"
               \/ pc = "emitFailed" /\ next = "ack"
        BY <1>1, <2>1, <3>5 DEF EmitThrows, Goto, Run, effects
      <4> QED
        BY <3>1, <4>1 DEF Undecided, Unsettled
    <3>6. CASE pc \in Undecided /\ told' = told
      <4>1. next = "emitCompleted" => then = "completed"
        <5>1. CASE PatchCompleted(p)
          BY <1>1, <2>1, <5>1 DEF PatchCompleted, PatchRow, Patched, Row
        <5> QED
          BY <1>7, <5>1, NextPc
      <4>2. next # "emitFailed"
        BY <1>7, <3>6, NextPc DEF PatchFailed, Undecided
      <4> QED
        BY <3>1, <3>6, <4>1, <4>2 DEF Terminal
    <3>7. CASE pc = "patchFailed" /\ told' = told
      <4>1. Patched(p).status = "failed"
        BY <1>1, <2>1, <3>7 DEF Patched, Row
      <4>2. next \notin Undecided /\ next # "emitCompleted"
        BY <1>1, <1>7, <2>1, <3>7 DEF Works, PatchRunning, LoadSchema, GenerateTable, FindConnection,
           ExecuteSql, PatchCompleted, EmitCompleted, PatchFailed, EmitFailed, Throw, LogThrows,
           EmitThrows, WorkerFault, Goto, Run, Undecided, Unsettled
      <4>3. next = "emitFailed" => then = "failed"
        BY <1>1, <1>7, <2>1, <4>1, NextPc DEF PatchFailed, PatchRow
      <4> QED
        BY <3>1, <3>2, <3>7, <4>1, <4>2, <4>3 DEF Terminal
    <3> QED
      <4>1. pc \in Undecided \/ pc = "patchFailed" \/ pc \in {"emitCompleted", "emitFailed"}
        BY <1>1, <1>7, NextPc DEF Undecided, Unsettled, RunPc, Run
      <4>2. pc \in {"emitCompleted", "emitFailed"} =>
              EmitCompleted(p) \/ LogThrows(p) \/ EmitFailed(p) \/ EmitThrows(p)
        BY <1>7 DEF Works, PatchRunning, LoadSchema, GenerateTable, FindConnection, ExecuteSql,
           PatchCompleted, PatchFailed, Throw, WorkerFault
      <4>3. told' = told \/ EmitCompleted(p) \/ LogThrows(p) \/ EmitFailed(p)
        BY <1>7, Tells
      <4> QED
        BY <3>3, <3>4, <3>5, <3>6, <3>7, <4>1, <4>2, <4>3
  <2> HIDE DEF pc, now, then, next
  <2>8. VerdictStands'
    BY <2>2, <2>6, <2>7 DEF VerdictStands, then
  <2>9. VerdictKnown'
    <3> DEFINE Known(i, q) ==
                 /\ worker[q].pc \in Undecided => told[i] = {}
                 /\ worker[q].pc # "ack" => "failed" \notin told[i]
                 /\ worker[q].pc \in {"emitCompleted", "emitFailed"} => row[i].status \in Terminal
                 /\ worker[q].pc = "emitFailed" => row[i].status # "completed"
    <3>1. ASSUME NEW i \in Jobs, stalls[i] = 0, NEW q \in Procs, Runs(q, i)
          PROVE  Known(i, q)'
      <4>1. CASE i = j
        <5>1. q = p
          BY <2>3, <3>1, <4>1
        <5> QED
          BY <2>7, <3>1, <4>1, <5>1 DEF then, next
      <4>2. CASE i # j
        <5>1. q # p
          BY <2>1, <3>1, <4>2 DEF Runs
        <5>2. worker'[q] = worker[q] /\ told'[i] = told[i] /\ row'[i] = row[i]
          BY <2>2, <2>5, <3>1, <4>2, <5>1
        <5> QED
          BY <3>1, <5>2 DEF VerdictKnown
      <4> QED
        BY <4>1, <4>2
    <3>2. ASSUME NEW i \in Jobs, stalls[i] = 0, bull[i] = "waiting"
          PROVE  told'[i] = {}
      BY <2>2, <2>3, <3>2 DEF VerdictKnown
    <3> QED
      BY <2>4, <2>6, <3>1, <3>2 DEF VerdictKnown
  <2> QED
    BY <2>8, <2>9
<1>8. ASSUME NEW p \in Procs, Ack(p) PROVE Verdicts'
  BY <1>1, <1>8 DEF Ack, VerdictKnown, VerdictStands, Runs, Idle, effects
<1>9. ASSUME NEW p \in Procs, Crash(p) PROVE Verdicts'
  BY <1>1, <1>9 DEF Crash, VerdictKnown, VerdictStands, Runs, Idle, queue, effects
<1> QED
  BY <1>2, <1>3, <1>4, <1>5, <1>6, <1>7, <1>8, <1>9, NextCases DEF VerdictKnown, VerdictStands, Runs

\* Every step keeps SomeoneResponsible.
LEMMA ResponsibleStep ==
  ASSUME TypeOK, Busy, Untouched, AttemptsDistinct, SomeoneResponsible, [Next]_vars
  PROVE  SomeoneResponsible'
<1> DEFINE Open(i) == row[i].status \in {"pending", "running"} /\ ~lost[i]
<1>1. /\ worker \in [Procs -> Run] /\ bull \in [Jobs -> BullState] /\ stalls \in [Jobs -> Attempt]
      /\ row \in [Jobs -> Row] /\ start \in [Jobs -> StartHandler]
      /\ cancel \in [Cancels -> CancelHandler] /\ lost \in [Jobs -> BOOLEAN]
  BY DEF TypeOK
<1>2. ASSUME NEW i \in Jobs, Open(i) PROVE Responsible(i)
  BY <1>2 DEF SomeoneResponsible
<1>0. ASSUME NEW i \in Jobs, Open(i)', Hit(i) PROVE Responsible(i)'
  BY <1>0, <1>1, HitEffect DEF Forgotten
<1>3. ASSUME NEW j \in Jobs, NEW p \in Procs, StartInsert(j, p) PROVE SomeoneResponsible'
  <2> SUFFICES ASSUME NEW i \in Jobs, Open(i)' PROVE Responsible(i)'
    BY DEF SomeoneResponsible
  <2>1. CASE i = j
    BY <1>1, <1>3, <2>1 DEF StartInsert, Responsible
  <2>2. CASE i # j
    BY <1>1, <1>2, <1>3, <2>2 DEF StartInsert, Responsible, WillUpdate, Orphan, Owns, Runs, queue, mishaps
  <2> QED
    BY <2>1, <2>2
<1>4. ASSUME NEW j \in Jobs, NEW p \in Procs, Take(p, j) PROVE SomeoneResponsible'
  <2> SUFFICES ASSUME NEW i \in Jobs, Open(i)' PROVE Responsible(i)'
    BY DEF SomeoneResponsible
  <2>1. CASE i = j
    BY <1>1, <1>4, <2>1 DEF Take, Responsible, Runs, Unsettled, RunPc
  <2>2. CASE i # j
    BY <1>1, <1>2, <1>4, <2>2 DEF Take, Responsible, WillUpdate, Orphan, Owns, Runs, requests, mishaps
  <2> QED
    BY <2>1, <2>2
<1>5. ASSUME NEW j \in Jobs, StartEnqueue(j) \/ StartFault(j) PROVE SomeoneResponsible'
  <2> SUFFICES ASSUME NEW i \in Jobs, Open(i)' PROVE Responsible(i)'
    BY DEF SomeoneResponsible
  <2>0. bull' = [bull EXCEPT ![j] = "waiting"] \/ (bull' = bull /\ Hit(j))
    BY <1>5 DEF StartEnqueue, StartFault
  <2>1. CASE i = j
    <3>1. bull'[j] = "waiting" \/ Hit(j)
      BY <1>1, <2>0
    <3> QED
      BY <1>0, <2>1, <3>1 DEF Responsible
  <2>2. CASE i # j
    <3>1. lost'[i] = lost[i] /\ row' = row
      BY <1>1, <1>5, <2>2, HitEffect DEF StartEnqueue, StartFault, mishaps
    <3>2. Responsible(i)
      BY <1>2, <3>1
    <3> QED
      BY <1>1, <1>5, <2>0, <2>2, <3>2
      DEF StartEnqueue, StartFault, Responsible, WillUpdate, Orphan, Owns, Runs
  <2> QED
    BY <2>1, <2>2
<1>6. ASSUME NEW j \in Jobs, Stalled(j) PROVE SomeoneResponsible'
  <2> SUFFICES ASSUME NEW i \in Jobs, Open(i)' PROVE Responsible(i)'
    BY DEF SomeoneResponsible
  <2>1. CASE i = j
    <3>1. CASE stalls[j] >= MaxStalledCount
      BY <1>0, <1>6, <2>1, <3>1 DEF Stalled
    <3>2. CASE stalls[j] < MaxStalledCount
      <4>1. bull'[j] = "waiting"
        BY <1>1, <1>6, <3>2 DEF Stalled, Requeue
      <4> QED
        BY <2>1, <4>1 DEF Responsible
    <3> QED
      BY <1>1, <3>1, <3>2, BoundsAssumption DEF Attempt
  <2>2. CASE i # j
    <3>1. lost'[i] = lost[i]
      BY <1>1, <1>6, <2>2, HitEffect DEF Stalled
    <3>2. Responsible(i)
      BY <1>2, <1>6, <3>1, RequeueEffect
    <3> QED
      BY <1>6, <2>2, <3>2, RequeueEffect DEF Responsible, WillUpdate, Orphan, Owns, Runs
  <2> QED
    BY <2>1, <2>2
<1>7. ASSUME NEW j \in Jobs, LockExpires(j) PROVE SomeoneResponsible'
  <2> SUFFICES ASSUME NEW i \in Jobs, Open(i)' PROVE Responsible(i)'
    BY DEF SomeoneResponsible
  <2>1. Responsible(i)
    BY <1>2, <1>7, RequeueEffect DEF LockExpires
  <2>2. CASE i = j
    BY <1>7, <2>1, <2>2, RequeueEffect DEF LockExpires, Responsible, WillUpdate, Orphan, Runs
  <2>3. CASE i # j
    BY <1>7, <2>1, <2>3, RequeueEffect DEF Responsible, WillUpdate, Orphan, Owns, Runs
  <2> QED
    BY <2>2, <2>3
<1>8. CASE Cancelling
  <2> SUFFICES ASSUME NEW i \in Jobs, Open(i)' PROVE Responsible(i)'
    BY DEF SomeoneResponsible
  <2>1. PICK c \in Cancels :
          CancelStep(c) \/ CancelFault(c) \/ \E p \in Procs, j \in Jobs : CancelRead(c, p, j)
    BY <1>8 DEF Cancelling
  <2>2. UNCHANGED <<stalls, start, worker>> /\ row'[i].status = row[i].status
    BY <1>8, CancelEffect
  <2>3. \A d \in Cancels \ {c} : cancel'[d] = cancel[d]
    BY <1>1, <2>1 DEF CancelStep, CancelRead, CancelGetJob, CancelGetState, CancelRemove,
         CancelLocked, CancelUpdate, CancelFault, Reply
  <2>4. CASE cancel[c].job = i /\ CancelFault(c)
    BY <1>0, <2>4 DEF CancelFault
  <2>5. CASE cancel[c].job = i /\ CancelUpdate(c)
    <3>1. row'[i].status = "cancelled"
      BY <1>1, <2>5 DEF CancelUpdate, Row
    <3> QED
      BY <3>1
  <2>6. CASE cancel[c].job = i /\ (CancelGetJob(c) \/ CancelGetState(c) \/ CancelRemove(c))
    <3>1. bull'[i] = "absent" \/ bull' = bull
      BY <1>1, <2>6 DEF CancelGetJob, CancelGetState, CancelRemove, queue
    <3>2. WillUpdate(c, i)'
      BY <1>1, <2>6, <3>1 DEF CancelGetJob, CancelGetState, CancelRemove, WillUpdate, CancelHandler, queue
    <3> QED
      BY <3>2 DEF Responsible
  <2>7. CASE \/ cancel[c].job # i /\ (CancelStep(c) \/ CancelFault(c))
             \/ cancel[c].job = i /\ CancelLocked(c)
             \/ \E p \in Procs, j \in Jobs : CancelRead(c, p, j)
    <3>1. bull'[i] = bull[i]
      BY <1>1, <2>7 DEF CancelStep, CancelRead, CancelGetJob, CancelGetState, CancelRemove,
           CancelLocked, CancelUpdate, CancelFault, queue
    <3>2. lost'[i] = lost[i]
      <4>1. lost' = lost \/ (cancel[c].job \in Jobs \ {i} /\ Hit(cancel[c].job))
        BY <2>7 DEF CancelStep, CancelRead, CancelGetJob, CancelGetState, CancelRemove,
             CancelLocked, CancelUpdate, CancelFault, Busy, mishaps
      <4> QED
        BY <1>1, <4>1, HitEffect
    <3>3. Responsible(i)
      BY <1>2, <2>2, <3>2
    <3>4. ~ WillUpdate(c, i)
      BY <1>1, <2>7 DEF WillUpdate, CancelStep, CancelRead, CancelLocked
    <3>5. \A d \in Cancels : WillUpdate(d, i) => WillUpdate(d, i)'
      BY <2>3, <3>1, <3>4 DEF WillUpdate
    <3> QED
      BY <2>2, <3>1, <3>3, <3>5 DEF Responsible, Orphan, Owns, Runs
  <2> QED
    BY <2>1, <2>4, <2>5, <2>6, <2>7 DEF CancelStep
<1>9. ASSUME NEW p \in Procs, Works(p) PROVE SomeoneResponsible'
  <2> SUFFICES ASSUME NEW i \in Jobs, Open(i)' PROVE Responsible(i)'
    BY DEF SomeoneResponsible
  <2> DEFINE j == worker[p].job
  <2>1. j \in Jobs /\ Runs(p, j)
    BY <1>9, RunEffect DEF Busy, Runs
  <2>2. row' = row \/ PatchRow(p)
    BY <1>9 DEF Works, PatchRunning, LoadSchema, GenerateTable, FindConnection, ExecuteSql,
       PatchCompleted, EmitCompleted, PatchFailed, EmitFailed, Throw, LogThrows, EmitThrows, WorkerFault
  <2>3. lost' = lost \/ Hit(j)
    BY <1>9 DEF Works, PatchRunning, LoadSchema, GenerateTable, FindConnection, ExecuteSql,
       PatchCompleted, EmitCompleted, PatchFailed, EmitFailed, Throw, LogThrows, EmitThrows,
       WorkerFault, mishaps
  <2>4. CASE worker'[p].pc \in Unsettled /\ i = j
    BY <1>9, <2>1, <2>4, RunEffect DEF Responsible, Runs, Unsettled, RunPc
  <2>5. CASE i # j
    <3>1. Open(i)
      BY <1>1, <2>1, <2>2, <2>3, <2>5, HitEffect DEF PatchRow
    <3>2. Responsible(i)
      BY <1>2, <3>1
    <3> QED
      BY <1>9, <2>1, <2>5, <3>2, RunEffect DEF Responsible, WillUpdate, Orphan, Owns, Runs
  <2>6. CASE worker'[p].pc \notin Unsettled /\ i = j /\ ~ Hit(j)
    <3>1. PatchCompleted(p) \/ PatchFailed(p) \/ EmitCompleted(p) \/ EmitFailed(p)
            \/ EmitThrows(p) \/ WorkerFault(p)
      BY <1>9, <2>6, NextPc, RunEffect DEF Unsettled
    <3>2. ~ PatchCompleted(p) /\ ~ PatchFailed(p)
      <4>1. ASSUME PatchCompleted(p) \/ PatchFailed(p) PROVE FALSE
        <5>1. Patched(p).status \in {"completed", "failed"}
          BY <1>1, <2>1, <4>1 DEF PatchCompleted, PatchFailed, Patched, Row
        <5>2. row'[j] = Patched(p)
          BY <1>1, <2>1, <4>1 DEF PatchCompleted, PatchFailed, PatchRow
        <5> QED
          BY <2>6, <5>1, <5>2
      <4> QED
        BY <4>1
    <3>3. ~ WorkerFault(p)
      BY <1>1, <2>1, <2>6 DEF WorkerFault, Goto, Run, Unsettled, RunPc
    <3>4. Open(i) /\ worker[p].pc \notin Unsettled
      BY <3>1, <3>2, <3>3 DEF EmitCompleted, EmitFailed, EmitThrows, mishaps, Unsettled
    <3>5. Responsible(i)
      BY <1>2, <3>4
    <3> QED
      BY <1>9, <2>1, <2>6, <3>4, <3>5, RunEffect DEF Responsible, WillUpdate, Orphan, Owns, Runs
  <2> QED
    BY <1>0, <2>1, <2>4, <2>5, <2>6
<1>10. ASSUME NEW p \in Procs, Ack(p) PROVE SomeoneResponsible'
  <2> SUFFICES ASSUME NEW i \in Jobs, Open(i)' PROVE Responsible(i)'
    BY DEF SomeoneResponsible
  <2>1. Responsible(i)
    BY <1>2, <1>10 DEF Ack, mishaps
  <2>2. \A q \in Procs : Runs(q, i) /\ worker[q].pc \in Unsettled => worker'[q] = worker[q]
    BY <1>1, <1>10 DEF Ack, Unsettled
  <2>3. Orphan(i) => Orphan(i)'
    BY <1>1, <1>10 DEF Ack, Orphan, Owns, Runs, Idle
  <2>4. bull'[i] = bull[i] \/ (bull[i] = "active" /\ bull'[i] = "finished")
    BY <1>1, <1>10 DEF Ack, Owns
  <2>5. \A c \in Cancels : WillUpdate(c, i) => WillUpdate(c, i)'
    BY <1>10, <2>4 DEF WillUpdate, Ack, requests
  <2> QED
    BY <1>10, <2>1, <2>2, <2>3, <2>4, <2>5 DEF Responsible, Runs, Ack, requests
<1>11. ASSUME NEW p \in Procs, Crash(p) PROVE SomeoneResponsible'
  <2> SUFFICES ASSUME NEW i \in Jobs, Open(i)', ~ Responsible(i)' PROVE FALSE
    BY DEF SomeoneResponsible
  <2>1. /\ ~ (start[i].pc = "enqueue" /\ start[i].host = p)
        /\ \A c \in Cancels : WillUpdate(c, i) => cancel'[c] = cancel[c]
        /\ Runs(p, i) /\ worker[p].pc \in Unsettled => Owns(p, i)
        /\ ~ lost[i]
    BY <1>1, <1>11 DEF Crash, Forgotten, WillUpdate
  <2>2. Responsible(i)
    BY <1>2, <1>11, <2>1 DEF Crash
  <2>3. bull' = bull /\ stalls' = stalls
    BY <1>11 DEF Crash, queue
  <2>4. \A q \in Procs \ {p} : worker'[q] = worker[q]
    BY <1>1, <1>11 DEF Crash
  <2>5. worker'[p].pc = "idle"
    BY <1>1, <1>11 DEF Crash, Idle
  <2>6. Owns(p, i) => Orphan(i)'
    BY <2>3, <2>4, <2>5 DEF Orphan, Owns, Runs, AttemptsDistinct
  <2>7. Orphan(i) => Orphan(i)'
    BY <2>3, <2>4, <2>5 DEF Orphan, Owns, Runs
  <2>8. start[i].pc = "enqueue" => start'[i].pc = "enqueue"
    BY <1>1, <1>11, <2>1 DEF Crash
  <2>9. \A c \in Cancels : WillUpdate(c, i) => WillUpdate(c, i)'
    BY <2>1, <2>3 DEF WillUpdate
  <2> QED
    BY <2>1, <2>2, <2>3, <2>4, <2>6, <2>7, <2>8, <2>9 DEF Responsible, Runs
<1> QED
  BY <1>3, <1>4, <1>5, <1>6, <1>7, <1>8, <1>9, <1>10, <1>11, NextCases
  DEF SomeoneResponsible, Responsible, WillUpdate, Orphan, Owns, Runs

-----------------------------------------------------------------------------
(* The theorems *)

\* The initial states satisfy the invariant.
LEMMA InitIInv == Init => IInv
<1> SUFFICES ASSUME Init PROVE IInv
  OBVIOUS
<1>1. TypeOK
  <2>1. NoRow \in Row /\ "absent" \in BullState /\ 0 \in Attempt /\ Idle \in Run
    BY IdleType, BoundsAssumption DEF NoRow, Row, Format, BullState, Attempt
  <2>2. [pc |-> "idle", host |-> None] \in StartHandler
    BY DEF StartHandler, StartPc
  <2>3. [pc |-> "idle", host |-> None, job |-> None, seen |-> "none", answer |-> "none"] \in CancelHandler
    BY DEF CancelHandler, CancelPc, Answer
  <2> QED
    BY <2>1, <2>2, <2>3, BoundsAssumption DEF Init, TypeOK
<1>2. \A p \in Procs : worker[p].pc = "idle"
  BY DEF Init, Idle
<1>3. \A c \in Cancels : cancel[c].pc = "idle"
  BY DEF Init
<1>4. \A j \in Jobs : /\ row[j].status = "none" /\ bull[j] = "absent" /\ told[j] = {} /\ stalls[j] = 0
                    /\ \A a \in Attempt : target[j][a] = 0
  BY DEF Init, NoRow
<1>5. Busy /\ Untouched /\ AttemptsDistinct /\ SeedKnown /\ ExportKnown /\ VerdictKnown
  BY <1>2, <1>3, <1>4, BoundsAssumption DEF Busy, Untouched, AttemptsDistinct, SeedKnown, ExportKnown,
     VerdictKnown, Runs, Attempt
<1>6. SeededOncePerAttempt
  BY <1>4 DEF SeededOncePerAttempt
<1>7. CompletedIsSeeded /\ AnnouncedIsDownloadable /\ VerdictStands /\ SomeoneResponsible
  BY <1>4 DEF CompletedIsSeeded, AnnouncedIsDownloadable, VerdictStands, SomeoneResponsible
<1> QED
  BY <1>1, <1>5, <1>6, <1>7 DEF IInv

\* Every step keeps it.
LEMMA NextIInv == IInv /\ [Next]_vars => IInv'
  BY TypeStep, BusyStep, UntouchedStep, AttemptsStep, SeedStep, CompletedStep, ExportStep, VerdictStep,
     ResponsibleStep DEF IInv

\* The inductive invariant holds throughout: no interleaving of starts, cancels,
\* runs, crashes and expired locks leaves it.
THEOREM Invariance == Spec => []IInv
  BY InitIInv, NextIInv, PTL DEF Spec

\* Every variable keeps its type, whatever the handlers and BullMQ interleave.
THEOREM TypeCorrect == Spec => []TypeOK
<1>1. IInv => TypeOK
  BY DEF IInv
<1> QED
  BY <1>1, Invariance, PTL

\* start(), cancel(), process() and BullMQ hand a job on without dropping it: an
\* open row always has someone who will settle it.
THEOREM NobodyForgetsAJob == Spec => []SomeoneResponsible
<1>1. IInv => SomeoneResponsible
  BY DEF IInv
<1> QED
  BY <1>1, Invariance, PTL

\* process() seeds the user's database at most once per attempt, also while two
\* processes run the same job.
THEOREM NoDoubleSeeding == Spec => []SeededOncePerAttempt
<1>1. IInv => SeededOncePerAttempt
  BY DEF IInv
<1> QED
  BY <1>1, Invariance, PTL

\* patchJob writes "completed" only over a seeded database.
THEOREM CompletionIsSeeded == Spec => []CompletedIsSeeded
<1>1. IInv => CompletedIsSeeded
  BY DEF IInv
<1> QED
  BY <1>1, Invariance, PTL

\* emitCompleted comes after the export is in the row, and nothing removes it.
THEOREM AnnouncementIsBacked == Spec => []AnnouncedIsDownloadable
<1>1. IInv => AnnouncedIsDownloadable
  BY DEF IInv
<1> QED
  BY <1>1, Invariance, PTL

\* A first run writes its verdict before it tells it, and takes no failure back.
THEOREM VerdictsStand == Spec => []VerdictStands
<1>1. IInv => VerdictStands
  BY DEF IInv
<1> QED
  BY <1>1, Invariance, PTL

\* No step changes a settled row that nobody is at work on.
LEMMA SettledStep == IInv /\ [Next]_vars =>
  \A j \in Jobs : Quiet(j) /\ row[j].status \in Terminal => row'[j] = row[j]
<1> SUFFICES ASSUME IInv, [Next]_vars, NEW j \in Jobs, Quiet(j), row[j].status \in Terminal
             PROVE  row'[j] = row[j]
  OBVIOUS
<1>1. TypeOK /\ Busy /\ row \in [Jobs -> Row] /\ worker \in [Procs -> Run]
  BY DEF IInv, TypeOK
<1>2. ASSUME NEW i \in Jobs, NEW p \in Procs, StartInsert(i, p) \/ Take(p, i) PROVE row'[j] = row[j]
  BY <1>1, <1>2 DEF StartInsert, Take, Quiet
<1>3. ASSUME NEW i \in Jobs, StartEnqueue(i) \/ StartFault(i) PROVE row'[j] = row[j]
  BY <1>3 DEF StartEnqueue, StartFault
<1>4. ASSUME NEW i \in Jobs, Stalled(i) \/ LockExpires(i) PROVE row'[j] = row[j]
  BY <1>1, <1>4, RequeueEffect
<1>5. CASE Cancelling
  <2>1. row' = row \/ \E c \in Cancels : /\ cancel[c].pc = "update"
                                       /\ row' = [row EXCEPT ![cancel[c].job].status = "cancelled"]
    BY <1>5 DEF Cancelling, CancelStep, CancelRead, CancelGetJob, CancelGetState, CancelRemove,
         CancelLocked, CancelUpdate, CancelFault
  <2> QED
    BY <1>1, <2>1 DEF Quiet
<1>6. ASSUME NEW p \in Procs, Works(p) PROVE row'[j] = row[j]
  <2>1. row' = row \/ PatchRow(p)
    BY <1>6 DEF Works, PatchRunning, LoadSchema, GenerateTable, FindConnection, ExecuteSql,
       PatchCompleted, EmitCompleted, PatchFailed, EmitFailed, Throw, LogThrows, EmitThrows, WorkerFault
  <2>2. worker[p].job # j
    BY <1>1, <1>6, RunEffect DEF Quiet, Runs
  <2> QED
    BY <1>1, <2>1, <2>2 DEF PatchRow
<1>7. ASSUME NEW p \in Procs, Ack(p) \/ Crash(p) PROVE row'[j] = row[j]
  BY <1>7 DEF Ack, Crash
<1> QED
  BY <1>1, <1>2, <1>3, <1>4, <1>5, <1>6, <1>7, NextCases

-----------------------------------------------------------------------------
(* GenerationJobs implements JobPromise *)

\* A job has a row from the moment its start request has written it.
Born ==
  /\ \A j \in Jobs : start[j].pc = "idle" <=> row[j].status = "none"
  /\ \A c \in Cancels : cancel[c].pc # "idle" => row[cancel[c].job].status # "none"

\* Every step keeps Born.
LEMMA BornStep ==
  ASSUME TypeOK, Busy, Untouched, Born, [Next]_vars
  PROVE  Born'
<1>1. /\ row \in [Jobs -> Row] /\ start \in [Jobs -> StartHandler] /\ worker \in [Procs -> Run]
      /\ cancel \in [Cancels -> CancelHandler]
  BY DEF TypeOK
<1>2. ASSUME NEW j \in Jobs, NEW p \in Procs, StartInsert(j, p) PROVE Born'
  <2>1. row'[j].status = "pending" /\ start'[j].pc = "enqueue"
    BY <1>1, <1>2 DEF StartInsert, NoRow
  <2>2. /\ \A i \in Jobs \ {j} : row'[i] = row[i] /\ start'[i] = start[i]
        /\ cancel' = cancel
    BY <1>1, <1>2 DEF StartInsert
  <2> QED
    BY <2>1, <2>2 DEF Born, Busy
<1>3. ASSUME NEW j \in Jobs, NEW p \in Procs, Take(p, j) PROVE Born'
  BY <1>3 DEF Take, Born, requests
<1>4. ASSUME NEW j \in Jobs, StartEnqueue(j) \/ StartFault(j) PROVE Born'
  BY <1>1, <1>4 DEF StartEnqueue, StartFault, Born
<1>5. ASSUME NEW j \in Jobs, Stalled(j) \/ LockExpires(j) PROVE Born'
  BY <1>5, RequeueEffect DEF Born
<1>6. CASE Cancelling
  <2>1. PICK c \in Cancels :
          CancelStep(c) \/ CancelFault(c) \/ \E p \in Procs, j \in Jobs : CancelRead(c, p, j)
    BY <1>6 DEF Cancelling
  <2>2. row' = row \/ row' = [row EXCEPT ![cancel[c].job].status = "cancelled"]
    BY <2>1 DEF CancelStep, CancelRead, CancelGetJob, CancelGetState, CancelRemove, CancelLocked,
         CancelUpdate, CancelFault
  <2>3. row' # row => cancel[c].pc # "idle"
    BY <2>1 DEF CancelStep, CancelRead, CancelGetJob, CancelGetState, CancelRemove, CancelLocked,
         CancelUpdate, CancelFault
  <2>4. \A i \in Jobs : row'[i].status = "none" <=> row[i].status = "none"
    BY <1>1, <2>2, <2>3 DEF Born, Busy, Row
  <2>5. \A d \in Cancels : cancel'[d].pc # "idle" =>
          cancel'[d].job \in Jobs /\ row[cancel'[d].job].status # "none"
    <3>1. ASSUME NEW p \in Procs, NEW j \in Jobs, CancelRead(c, p, j)
          PROVE  \A d \in Cancels : cancel'[d].pc # "idle" =>
                   cancel'[d].job \in Jobs /\ row[cancel'[d].job].status # "none"
      BY <1>1, <3>1 DEF CancelRead, Born, Busy
    <3>2. ASSUME CancelStep(c) \/ CancelFault(c)
          PROVE  \A d \in Cancels : cancel'[d].pc # "idle" =>
                   cancel'[d].job \in Jobs /\ row[cancel'[d].job].status # "none"
      <4>1. cancel[c].pc # "idle"
        BY <3>2 DEF CancelStep, CancelGetJob, CancelGetState, CancelRemove, CancelLocked,
             CancelUpdate, CancelFault
      <4>2. \/ \E pc \in CancelPc : cancel' = [cancel EXCEPT ![c].pc = pc]
            \/ \E a \in Answer : Reply(c, a)
        BY <3>2 DEF CancelStep, CancelGetJob, CancelGetState, CancelRemove, CancelLocked,
             CancelUpdate, CancelFault, CancelPc, Answer, Status
      <4>3. \A d \in Cancels : cancel'[d].job = cancel[d].job
        BY <1>1, <4>2 DEF Reply, CancelHandler
      <4>4. \A d \in Cancels \ {c} : cancel'[d] = cancel[d]
        BY <1>1, <4>2 DEF Reply, CancelHandler
      <4> QED
        BY <4>1, <4>3, <4>4 DEF Born, Busy
    <3> QED
      BY <2>1, <3>1, <3>2
  <2> QED
    BY <1>6, <2>4, <2>5, CancelEffect DEF Born
<1>7. ASSUME NEW p \in Procs, Works(p) PROVE Born'
  <2> DEFINE j == worker[p].job
  <2>1. j \in Jobs /\ Runs(p, j) /\ start[j].pc = "done"
    BY <1>7, RunEffect DEF Busy, Runs, Untouched
  <2>2. row' = row \/ PatchRow(p)
    BY <1>7 DEF Works, PatchRunning, LoadSchema, GenerateTable, FindConnection, ExecuteSql,
       PatchCompleted, EmitCompleted, PatchFailed, EmitFailed, Throw, LogThrows, EmitThrows, WorkerFault
  <2>3. row[j].status # "none"
    BY <2>1 DEF Born
  <2>4. Patched(p).status # "none"
    BY <1>1, <2>1, <2>3 DEF Patched, Row
  <2>5. \A i \in Jobs : row'[i].status = "none" <=> row[i].status = "none"
    BY <1>1, <2>1, <2>2, <2>3, <2>4 DEF PatchRow
  <2> QED
    BY <1>7, <2>5, RunEffect DEF Born, Busy
<1>8. ASSUME NEW p \in Procs, Ack(p) PROVE Born'
  BY <1>8 DEF Ack, Born, requests
<1>9. ASSUME NEW p \in Procs, Crash(p) PROVE Born'
  <2>1. row' = row
    BY <1>9 DEF Crash
  <2>2. \A j \in Jobs : start'[j].pc = "idle" <=> start[j].pc = "idle"
    BY <1>1, <1>9 DEF Crash
  <2>3. \A c \in Cancels : /\ cancel'[c].job = cancel[c].job
                           /\ cancel'[c].pc = "idle" <=> cancel[c].pc = "idle"
    BY <1>1, <1>9 DEF Crash, CancelHandler
  <2> QED
    BY <2>1, <2>2, <2>3 DEF Born
<1> QED
  BY <1>2, <1>3, <1>4, <1>5, <1>6, <1>7, <1>8, <1>9, NextCases DEF Born

\* A job that is settled for good stays so.
LEMMA SettledPhase ==
  ASSUME IInv, [Next]_vars, NEW j \in Jobs, Quiet(j), row[j].status \in Terminal
  PROVE  Quiet(j)' /\ row'[j] = row[j] /\ lost'[j] = lost[j]
<1>0. TypeOK /\ Busy
  BY DEF IInv
<1>1. /\ row \in [Jobs -> Row] /\ start \in [Jobs -> StartHandler] /\ worker \in [Procs -> Run]
      /\ cancel \in [Cancels -> CancelHandler] /\ bull \in [Jobs -> BullState]
      /\ lost \in [Jobs -> BOOLEAN]
  BY <1>0 DEF TypeOK
<1> DEFINE Keeps == Quiet(j)' /\ lost'[j] = lost[j]
<1>2. ASSUME NEW i \in Jobs, NEW p \in Procs, StartInsert(i, p) PROVE Keeps
  BY <1>1, <1>2 DEF StartInsert, Quiet, Runs, queue, mishaps
<1>3. ASSUME NEW i \in Jobs, NEW p \in Procs, Take(p, i) PROVE Keeps
  BY <1>1, <1>3 DEF Take, Quiet, Runs, requests, mishaps
<1>4. ASSUME NEW i \in Jobs, StartEnqueue(i) \/ StartFault(i) PROVE Keeps
  <2>1. i # j
    BY <1>4 DEF StartEnqueue, StartFault, Quiet
  <2> QED
    BY <1>1, <1>4, <2>1, HitEffect DEF StartEnqueue, StartFault, Quiet, Runs, mishaps
<1>5. ASSUME NEW i \in Jobs, Stalled(i) \/ LockExpires(i) PROVE Keeps
  <2>1. i # j
    BY <1>0, <1>5, RequeueEffect DEF Quiet
  <2>2. lost'[j] = lost[j]
    BY <1>1, <1>5, <2>1, HitEffect DEF Stalled, LockExpires
  <2> QED
    BY <1>0, <1>5, <2>1, <2>2, RequeueEffect DEF Quiet, Runs
<1>6. ASSUME Cancelling PROVE Keeps
  <2>1. PICK c \in Cancels :
          CancelStep(c) \/ CancelFault(c) \/ \E p \in Procs, i \in Jobs : CancelRead(c, p, i)
    BY <1>6 DEF Cancelling
  <2>2. bull'[j] \in {bull[j], "absent"} /\ start' = start /\ worker' = worker
    BY <1>0, <1>6, CancelEffect
  <2>3. \A d \in Cancels \ {c} : cancel'[d] = cancel[d]
    BY <1>1, <2>1 DEF CancelStep, CancelRead, CancelGetJob, CancelGetState, CancelRemove,
         CancelLocked, CancelUpdate, CancelFault, Reply
  <2>4. ASSUME NEW p \in Procs, NEW i \in Jobs, CancelRead(c, p, i)
        PROVE  /\ cancel'[c].job = j => cancel'[c].pc = "done"
               /\ lost' = lost
    BY <1>1, <2>4 DEF CancelRead, mishaps
  <2>5. ASSUME CancelStep(c) \/ CancelFault(c)
        PROVE  cancel'[c].job # j /\ lost'[j] = lost[j]
    <3>1. cancel[c].pc \in {"getJob", "getState", "remove", "update"}
      BY <2>5 DEF CancelStep, CancelGetJob, CancelGetState, CancelRemove, CancelLocked,
           CancelUpdate, CancelFault
    <3>2. cancel[c].job # j
      BY <3>1 DEF Quiet
    <3>3. \/ \E pc \in CancelPc : cancel' = [cancel EXCEPT ![c].pc = pc]
          \/ \E a \in Answer : Reply(c, a)
      BY <2>5 DEF CancelStep, CancelGetJob, CancelGetState, CancelRemove, CancelLocked,
           CancelUpdate, CancelFault, CancelPc, Answer, Status
    <3>4. cancel'[c].job = cancel[c].job
      BY <1>1, <3>3 DEF Reply, CancelHandler
    <3>5. lost' = lost \/ Hit(cancel[c].job)
      BY <2>5 DEF CancelStep, CancelGetJob, CancelGetState, CancelRemove, CancelLocked,
           CancelUpdate, CancelFault, mishaps
    <3>6. cancel[c].job \in Jobs
      BY <1>0, <3>1 DEF Busy
    <3> QED
      BY <1>1, <3>2, <3>4, <3>5, <3>6, HitEffect
  <2>6. lost'[j] = lost[j]
    BY <2>1, <2>4, <2>5
  <2>7. \A d \in Cancels :
          ~ (cancel'[d].job = j /\ cancel'[d].pc \notin {"idle", "done", "dead"})
    <3>1. ~ (cancel'[c].job = j /\ cancel'[c].pc \notin {"idle", "done", "dead"})
      BY <2>1, <2>4, <2>5
    <3> QED
      BY <2>3, <3>1 DEF Quiet
  <2>8. start'[j].pc \in {"done", "dead"} /\ bull'[j] \in {"absent", "finished"}
    BY <2>2 DEF Quiet
  <2>9. ~ \E p \in Procs : Runs(p, j)'
    BY <2>2 DEF Quiet, Runs
  <2> QED
    BY <2>6, <2>7, <2>8, <2>9 DEF Quiet
<1>7. ASSUME NEW p \in Procs, Works(p) PROVE Keeps
  <2>1. worker[p].job # j
    BY <1>0, <1>7, RunEffect DEF Quiet, Runs
  <2>2. lost' = lost \/ Hit(worker[p].job)
    BY <1>7 DEF Works, PatchRunning, LoadSchema, GenerateTable, FindConnection, ExecuteSql,
       PatchCompleted, EmitCompleted, PatchFailed, EmitFailed, Throw, LogThrows, EmitThrows,
       WorkerFault, mishaps
  <2>3. worker[p].job \in Jobs
    BY <1>0, <1>7, RunEffect DEF Busy
  <2> QED
    BY <1>0, <1>1, <1>7, <2>1, <2>2, <2>3, HitEffect, RunEffect DEF Quiet, Runs
<1>8. ASSUME NEW p \in Procs, Ack(p) PROVE Keeps
  BY <1>1, <1>8 DEF Ack, Quiet, Runs, Owns, Idle, requests, mishaps
<1>9. ASSUME NEW p \in Procs, Crash(p) PROVE Keeps
  <2>1. lost'[j] = lost[j]
    BY <1>1, <1>9 DEF Crash, Quiet
  <2>2. start'[j].pc \in {"done", "dead"} /\ bull' = bull
    BY <1>1, <1>9 DEF Crash, Quiet, queue
  <2>3. \A q \in Procs : Runs(q, j)' => Runs(q, j)
    BY <1>1, <1>9 DEF Crash, Runs, Idle
  <2>4. \A c \in Cancels : /\ cancel'[c].job = cancel[c].job
                           /\ cancel'[c].pc \in {cancel[c].pc, "dead"}
    BY <1>1, <1>9 DEF Crash, CancelHandler
  <2> QED
    BY <2>1, <2>2, <2>3, <2>4 DEF Quiet
<1>10. row'[j] = row[j]
  BY SettledStep
<1> QED
  BY <1>0, <1>2, <1>3, <1>4, <1>5, <1>6, <1>7, <1>8, <1>9, <1>10, NextCases DEF Quiet, Runs

\* cancel() reports a final status and leaves it; a job is not reopened.
THEOREM SettledRowsStay == Spec => SettledIsFinal
<1>1. IInv /\ [Next]_vars =>
        [\A j \in Jobs : Quiet(j) /\ row[j].status \in Terminal =>
                           Quiet(j)' /\ row'[j] = row[j]]_vars
  BY SettledPhase
<1> QED
  BY <1>1, Invariance, PTL DEF Spec, SettledIsFinal

\* A lost job stays lost, and a row does not disappear.
LEMMA LostPhase ==
  ASSUME IInv, Born, [Next]_vars, NEW j \in Jobs
  PROVE  /\ lost[j] => lost'[j]
         /\ row[j].status # "none" => row'[j].status # "none"
<1>0. TypeOK /\ Busy /\ Untouched /\ lost \in [Jobs -> BOOLEAN] /\ start \in [Jobs -> StartHandler]
  BY DEF IInv, TypeOK
<1>1. Born'
  BY <1>0, BornStep
<1>2. start[j].pc # "idle" => start'[j].pc # "idle"
  <2>1. ASSUME NEW i \in Jobs, NEW p \in Procs, StartInsert(i, p) \/ Take(p, i)
        PROVE  start[j].pc # "idle" => start'[j].pc # "idle"
    BY <1>0, <2>1 DEF StartInsert, Take, requests
  <2>2. ASSUME NEW i \in Jobs, StartEnqueue(i) \/ StartFault(i) \/ Stalled(i) \/ LockExpires(i)
        PROVE  start[j].pc # "idle" => start'[j].pc # "idle"
    BY <1>0, <2>2 DEF StartEnqueue, StartFault, Stalled, LockExpires, Requeue, requests
  <2>3. ASSUME NEW p \in Procs, Ack(p) PROVE start' = start
    BY <2>3 DEF Ack, requests
  <2>4. ASSUME NEW p \in Procs, Crash(p)
        PROVE  start'[j] \in {start[j], [pc |-> "dead", host |-> None]}
    BY <2>4 DEF Crash
  <2> QED
    BY <1>0, <2>1, <2>2, <2>3, <2>4, NextCases, CancelEffect, RunEffect
<1>3. lost[j] => lost'[j]
  <2>1. ASSUME NEW i \in Jobs, NEW p \in Procs, StartInsert(i, p) \/ Take(p, i) PROVE lost' = lost
    BY <2>1 DEF StartInsert, Take, mishaps
  <2>2. ASSUME NEW i \in Jobs, StartEnqueue(i) \/ StartFault(i) \/ Stalled(i) \/ LockExpires(i), lost[j]
        PROVE  lost'[j]
    BY <1>0, <2>2, HitEffect DEF StartEnqueue, StartFault, Stalled, LockExpires, mishaps
  <2>3. ASSUME Cancelling, lost[j] PROVE lost'[j]
    <3>1. lost' = lost \/ \E c \in Cancels : cancel[c].job \in Jobs /\ Hit(cancel[c].job)
      BY <1>0, <2>3 DEF Cancelling, CancelStep, CancelRead, CancelGetJob, CancelGetState, CancelRemove,
           CancelLocked, CancelUpdate, CancelFault, Busy, mishaps
    <3> QED
      BY <1>0, <2>3, <3>1, HitEffect
  <2>4. ASSUME NEW p \in Procs, Works(p), lost[j] PROVE lost'[j]
    <3>1. lost' = lost \/ (worker[p].job \in Jobs /\ Hit(worker[p].job))
      BY <1>0, <2>4, RunEffect DEF Works, PatchRunning, LoadSchema, GenerateTable, FindConnection,
         ExecuteSql, PatchCompleted, EmitCompleted, PatchFailed, EmitFailed, Throw, LogThrows,
         EmitThrows, WorkerFault, Busy, mishaps
    <3> QED
      BY <1>0, <2>4, <3>1, HitEffect
  <2>5. ASSUME NEW p \in Procs, Ack(p) \/ Crash(p), lost[j] PROVE lost'[j]
    BY <1>0, <2>5 DEF Ack, Crash, mishaps
  <2> QED
    BY <1>0, <2>1, <2>2, <2>3, <2>4, <2>5, NextCases
<1> QED
  BY <1>1, <1>2, <1>3 DEF Born

\* A job that gets lost has an open row with nobody responsible for it.
LEMMA BlameStep ==
  ASSUME IInv, [Next]_vars, NEW j \in Jobs, ~ lost[j], lost'[j]
  PROVE  Forgotten(j)'
<1>0. TypeOK /\ Busy /\ lost \in [Jobs -> BOOLEAN]
  BY DEF IInv, TypeOK
<1>1. ASSUME NEW i \in Jobs, Hit(i) PROVE Forgotten(j)'
  BY <1>0, <1>1, HitEffect
<1>2. ASSUME NEW i \in Jobs, NEW p \in Procs, StartInsert(i, p) \/ Take(p, i) PROVE FALSE
  BY <1>2 DEF StartInsert, Take, mishaps
<1>3. ASSUME NEW i \in Jobs, StartEnqueue(i) \/ StartFault(i) \/ Stalled(i) \/ LockExpires(i)
      PROVE  Hit(i)
  BY <1>3 DEF StartEnqueue, StartFault, Stalled, LockExpires, mishaps
<1>4. CASE Cancelling
  <2>1. \E c \in Cancels : cancel[c].job \in Jobs /\ Hit(cancel[c].job)
    BY <1>0, <1>4 DEF Cancelling, CancelStep, CancelRead, CancelGetJob, CancelGetState, CancelRemove,
       CancelLocked, CancelUpdate, CancelFault, Busy, mishaps
  <2> QED
    BY <1>1, <2>1
<1>5. ASSUME NEW p \in Procs, Works(p) PROVE worker[p].job \in Jobs /\ Hit(worker[p].job)
  BY <1>0, <1>5, RunEffect DEF Works, PatchRunning, LoadSchema, GenerateTable, FindConnection,
     ExecuteSql, PatchCompleted, EmitCompleted, PatchFailed, EmitFailed, Throw, LogThrows,
     EmitThrows, WorkerFault, Busy, mishaps
<1>6. ASSUME NEW p \in Procs, Ack(p) PROVE FALSE
  BY <1>6 DEF Ack, mishaps
<1>7. ASSUME NEW p \in Procs, Crash(p) PROVE Forgotten(j)'
  BY <1>7 DEF Crash
<1> QED
  BY <1>0, <1>1, <1>2, <1>3, <1>4, <1>5, <1>6, <1>7, NextCases

\* No job without a row is lost.
Unblamed == \A j \in Jobs : lost[j] => row[j].status # "none"

\* Every step keeps Unblamed.
LEMMA UnblamedStep == IInv /\ Born /\ Unblamed /\ [Next]_vars => Unblamed'
<1> SUFFICES ASSUME IInv, Born, Unblamed, [Next]_vars, NEW j \in Jobs, lost'[j]
             PROVE  row'[j].status # "none"
  BY DEF Unblamed
<1>1. CASE lost[j]
  BY <1>1, LostPhase DEF Unblamed
<1>2. CASE ~ lost[j]
  BY <1>2, BlameStep DEF Forgotten
<1> QED
  BY <1>1, <1>2

\* The row of a job is created by the step that makes its handler enqueue it.
LEMMA FreshStart ==
  ASSUME IInv, Born, [Next]_vars, NEW j \in Jobs, row[j].status = "none",
         row'[j].status # "none"
  PROVE  start'[j].pc = "enqueue"
<1>0. TypeOK /\ Busy /\ Untouched /\ row \in [Jobs -> Row] /\ start \in [Jobs -> StartHandler]
  BY DEF IInv, TypeOK
<1>1. start[j].pc = "idle" /\ start'[j].pc # "idle"
  BY <1>0, BornStep DEF Born
<1>2. start'[j] # start[j]
  BY <1>1
<1>3. ASSUME NEW i \in Jobs, NEW p \in Procs, StartInsert(i, p) PROVE start'[j].pc = "enqueue"
  BY <1>0, <1>2, <1>3 DEF StartInsert
<1>4. ASSUME NEW i \in Jobs, NEW p \in Procs, Take(p, i) PROVE FALSE
  BY <1>2, <1>4 DEF Take, requests
<1>5. ASSUME NEW i \in Jobs, StartEnqueue(i) \/ StartFault(i) PROVE FALSE
  <2>1. i # j
    BY <1>1, <1>5 DEF StartEnqueue, StartFault
  <2> QED
    BY <1>0, <1>2, <1>5, <2>1 DEF StartEnqueue, StartFault
<1>6. ASSUME NEW p \in Procs, Ack(p) PROVE FALSE
  BY <1>2, <1>6 DEF Ack, requests
<1>7. ASSUME NEW p \in Procs, Crash(p) PROVE FALSE
  BY <1>1, <1>2, <1>7 DEF Crash
<1> QED
  BY <1>0, <1>2, <1>3, <1>4, <1>5, <1>6, <1>7, NextCases, CancelEffect, RunEffect, RequeueEffect

\* Initially no job has been accepted.
LEMMA InitPromise == Init => Promise!Init
  BY DEF Init, Promise!Init, Phase, NoRow

\* Every step of the service is a step of the promise or leaves it alone.
LEMMA NextPromise ==
  IInv /\ Born /\ Unblamed /\ [Next]_vars => Promise!Next
<1> SUFFICES ASSUME IInv, Born, Unblamed, [Next]_vars PROVE Promise!Next
  OBVIOUS
<1>1. [j \in Jobs |-> Phase(j)]' \in [Jobs -> Promise!Phases]
  BY DEF Phase, Promise!Phases
<1>2. ASSUME NEW j \in Jobs, Phase(j)' # Phase(j)
      PROVE  <<Phase(j), Phase(j)'>> \in Promise!Moves
  <2>1. CASE row[j].status = "none"
    <3>1. Phase(j) = "none" /\ ~ lost[j] /\ start[j].pc = "idle"
      BY <2>1 DEF Phase, Born, Unblamed
    <3>4. row'[j].status # "none" \/ lost'[j]
      BY <1>2, <3>1 DEF Phase
    <3>5. row'[j].status # "none"
      BY <3>1, <3>4, BlameStep DEF Forgotten
    <3>6. start'[j].pc = "enqueue"
      BY <2>1, <3>5, FreshStart
    <3>2. ~ lost'[j]
      BY <3>1, <3>6, BlameStep DEF Forgotten, Responsible
    <3>3. ~ Quiet(j)'
      BY <3>6 DEF Quiet
    <3> QED
      BY <1>2, <3>1, <3>2, <3>3 DEF Phase, Promise!Moves
  <2>2. CASE row[j].status # "none" /\ lost[j]
    BY <1>2, <2>2, LostPhase DEF Phase
  <2>3. CASE row[j].status # "none" /\ ~ lost[j] /\ Quiet(j) /\ row[j].status \in Terminal
    BY <1>2, <2>3, SettledPhase DEF Phase
  <2>4. CASE row[j].status # "none" /\ ~ lost[j] /\ ~ (Quiet(j) /\ row[j].status \in Terminal)
    <3>1. Phase(j) = "open" /\ row'[j].status # "none"
      BY <2>4, LostPhase DEF Phase
    <3>2. Phase(j)' \in {"open", "lost", "settled"}
      BY <3>1 DEF Phase
    <3> QED
      BY <1>2, <3>1, <3>2 DEF Promise!Moves
  <2> QED
    BY <2>1, <2>2, <2>3, <2>4
<1> QED
  BY <1>1, <1>2 DEF Promise!Next

\* Whatever interleaving the service goes through, its user sees a job that is
\* accepted once, stays open, and is then settled for good or lost.
THEOREM ImplementsPromise == Spec => Promise!Spec
<1>1. Init => Born /\ Unblamed
  BY DEF Init, Born, Unblamed, NoRow
<1>2. IInv /\ Born /\ Unblamed /\ [Next]_vars => Born' /\ Unblamed'
  BY BornStep, UnblamedStep DEF IInv
<1>3. IInv /\ Born /\ Unblamed /\ [Next]_vars => [Promise!Next]_([j \in Jobs |-> Phase(j)])
  BY NextPromise
<1> QED
  BY <1>1, <1>2, <1>3, InitIInv, NextIInv, InitPromise, PTL DEF Spec, Promise!Spec

=============================================================================
