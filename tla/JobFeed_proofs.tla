--------------------------- MODULE JobFeed_proofs ----------------------------
(***************************************************************************)
(* Proofs about JobFeed: the jobs behind the gateway are those of           *)
(* GenerationJobs, and who joins a room in time hears how its job ends.     *)
(* The argument follows a verdict from its write to its emission: a row     *)
(* with a verdict its subscriber has neither heard nor missed has a run     *)
(* about to say it, or one in its catch clause, about to write another.     *)
(***************************************************************************)
EXTENDS JobFeed, GenerationJobs_proofs

\* Where a run says the verdict it wrote.
Word(verdict) == IF verdict = "completed" THEN "emitCompleted" ELSE "emitFailed"

Says(p, j) == Runs(p, j) /\ worker[p].pc \in {"patchFailed", Word(row[j].status)}

\* The verdict of job j, if it has one, is known to its subscriber or on its way.
Settling(j) ==
  row[j].status \in Verdict =>
    row[j].status \in client.heard \cup client.missed \/ \E p \in Procs : Says(p, j)

FeedInv == ClientOK /\ (client.checked => Settling(client.room))

\* The steps with which a run says its verdict or ends without.
Ends(p) ==
  \/ EmitCompleted(p) \/ LogThrows(p) \/ EmitFailed(p)
  \/ Stumbles(p) \/ Crash(p)

-----------------------------------------------------------------------------
(* What the jobs do to a verdict *)

\* The row after a run's step: as before, or patched.
LEMMA RunRow ==
  ASSUME NEW p \in Procs, Works(p)
  PROVE  row' = row \/ PatchRow(p)
BY DEF Works, PatchRunning, LoadSchema, GenerateTable, FindConnection, ExecuteSql,
       PatchCompleted, EmitCompleted, PatchFailed, EmitFailed, Throw, LogThrows, EmitThrows,
       WorkerFault

\* A verdict is written by a run that goes on to say it or to its catch clause, or
\* by one whose catch clause ends there.
LEMMA FreshVerdict ==
  ASSUME IInv, [Next]_vars, NEW i \in Jobs,
         row'[i].status # row[i].status, row'[i].status \in Verdict
  PROVE  \E p \in Procs :
           Says(p, i)' \/ (Runs(p, i) /\ Stumbles(p) /\ row'[i].status \in Unsaid(p))
<1> DEFINE Goal == \E p \in Procs :
             Says(p, i)' \/ (Runs(p, i) /\ Stumbles(p) /\ row'[i].status \in Unsaid(p))
<1>1. /\ worker \in [Procs -> Run] /\ row \in [Jobs -> Row] /\ TypeOK /\ Busy
  BY DEF IInv, TypeOK
<1>2. ASSUME NEW j \in Jobs, NEW p \in Procs, StartInsert(j, p) PROVE FALSE
  BY <1>1, <1>2 DEF StartInsert, Verdict
<1>3. ASSUME NEW j \in Jobs, NEW p \in Procs, Take(p, j) PROVE FALSE
  BY <1>3 DEF Take
<1>4. ASSUME NEW j \in Jobs, StartEnqueue(j) \/ StartFault(j) \/ Stalled(j) \/ LockExpires(j) PROVE FALSE
  BY <1>4 DEF StartEnqueue, StartFault, Stalled, LockExpires, Requeue
<1>5. ASSUME Cancelling PROVE FALSE
  BY <1>1, <1>5, CancelEffect DEF Verdict
<1>6. ASSUME NEW p \in Procs, Ack(p) \/ Crash(p) PROVE FALSE
  BY <1>6 DEF Ack, Crash
<1>7. ASSUME NEW p \in Procs, Works(p) PROVE Goal
  <2>1. worker[p].job \in Jobs /\ worker[p].pc # "idle" /\ worker'[p].job = worker[p].job
    BY <1>1, <1>7, RunEffect DEF Busy
  <2>2. PatchRow(p) /\ worker[p].job = i /\ row'[i] = Patched(p)
    BY <1>1, <1>7, <2>1, RunRow DEF PatchRow
  <2>3. worker[p].pc \in {"patchCompleted", "patchFailed"}
    BY <1>1, <2>2 DEF Patched, Row, Verdict
  <2>4. PatchCompleted(p) \/ PatchFailed(p) \/ WorkerFault(p)
    BY <1>7, <2>3 DEF Works, PatchRunning, LoadSchema, GenerateTable, FindConnection, ExecuteSql,
       EmitCompleted, EmitFailed, Throw, LogThrows, EmitThrows
  <2>5. ASSUME PatchCompleted(p) PROVE Says(p, i)'
    <3>1. row'[i].status = "completed" /\ worker'[p].pc = "emitCompleted"
      BY <1>1, <2>2, <2>5 DEF PatchCompleted, Patched, Row, Goto, Run
    <3> QED
      BY <2>1, <2>2, <3>1 DEF Says, Runs, Word
  <2>6. ASSUME PatchFailed(p) PROVE Says(p, i)'
    <3>1. row'[i].status = "failed" /\ worker'[p].pc = "emitFailed"
      BY <1>1, <2>2, <2>6 DEF PatchFailed, Patched, Row, Goto, Run
    <3> QED
      BY <2>1, <2>2, <3>1 DEF Says, Runs, Word
  <2>7. ASSUME WorkerFault(p), worker[p].pc = "patchCompleted" PROVE Says(p, i)'
    <3>1. worker'[p].pc = "patchFailed"
      BY <1>1, <2>7 DEF WorkerFault, Goto, Run
    <3> QED
      BY <2>1, <2>2, <3>1 DEF Says, Runs
  <2>8. ASSUME WorkerFault(p), worker[p].pc = "patchFailed"
        PROVE  Runs(p, i) /\ Stumbles(p) /\ row'[i].status \in Unsaid(p)
    BY <2>1, <2>2, <2>8 DEF Stumbles, Unsaid, Runs
  <2> QED
    BY <2>3, <2>4, <2>5, <2>6, <2>7, <2>8
<1> QED
  BY <1>1, <1>2, <1>3, <1>4, <1>5, <1>6, <1>7, NextCases

\* A run that is about to say the verdict in the row does so next, goes on to do so,
\* or ends.
LEMMA SaysKept ==
  ASSUME IInv, [Next]_vars, NEW i \in Jobs, NEW p \in Procs, Says(p, i), ~ Ends(p),
         row[i].status \in Verdict, row'[i].status = row[i].status
  PROVE  Says(p, i)'
<1>1. worker \in [Procs -> Run] /\ row \in [Jobs -> Row] /\ TypeOK /\ Busy
  BY DEF IInv, TypeOK
<1>2. /\ worker[p].pc \in {"patchFailed", "emitCompleted", "emitFailed"} /\ worker[p].job = i
      /\ ~ EmitCompleted(p) /\ ~ LogThrows(p) /\ ~ EmitFailed(p) /\ ~ Crash(p)
  BY DEF Says, Runs, Word, Ends
<1>3. ~ Ack(p)
  BY <1>2 DEF Ack
<1>4. CASE worker'[p] = worker[p]
  BY <1>4 DEF Says, Runs
<1>5. CASE Works(p)
  <2>1. PatchFailed(p) \/ WorkerFault(p) \/ EmitThrows(p)
    BY <1>2, <1>5 DEF Works, PatchRunning, LoadSchema, GenerateTable, FindConnection, ExecuteSql,
       PatchCompleted, Throw
  <2>2. CASE PatchFailed(p)
    <3>1. row'[i].status = "failed"
      BY <1>1, <1>2, <2>2 DEF PatchFailed, PatchRow, Patched, Row
    <3>2. worker'[p].pc = "emitFailed" /\ worker'[p].job = i
      BY <1>1, <1>2, <2>2 DEF PatchFailed, Goto, Run
    <3> QED
      BY <3>1, <3>2 DEF Says, Runs, Word
  <2>3. CASE WorkerFault(p)
    BY <1>2, <2>3 DEF Ends, Stumbles, WorkerFault
  <2>4. CASE EmitThrows(p)
    <3>1. worker[p].pc = "emitCompleted" /\ Goto(p, "patchFailed")
      BY <2>4 DEF EmitThrows, Ends, Stumbles
    <3>2. worker'[p].pc = "patchFailed" /\ worker'[p].job = i
      BY <1>1, <1>2, <3>1 DEF Goto, Run
    <3> QED
      BY <3>2 DEF Says, Runs
  <2> QED
    BY <2>1, <2>2, <2>3, <2>4
<1>6. ASSUME ~ Works(p) PROVE worker'[p] = worker[p]
  <2>1. ASSUME NEW j \in Jobs, NEW q \in Procs, StartInsert(j, q) \/ Take(q, j)
        PROVE  worker'[p] = worker[p]
    BY <1>1, <1>2, <2>1 DEF StartInsert, Take
  <2>2. ASSUME NEW j \in Jobs, StartEnqueue(j) \/ StartFault(j) \/ Stalled(j) \/ LockExpires(j)
        PROVE  worker'[p] = worker[p]
    BY <2>2 DEF StartEnqueue, StartFault, Stalled, LockExpires, Requeue
  <2>3. ASSUME Cancelling PROVE worker'[p] = worker[p]
    BY <1>1, <2>3, CancelEffect
  <2>4. ASSUME NEW q \in Procs, Works(q) PROVE worker'[p] = worker[p]
    BY <1>1, <1>6, <2>4, RunEffect
  <2>5. ASSUME NEW q \in Procs, Ack(q) \/ Crash(q) PROVE worker'[p] = worker[p]
    <3>1. q # p
      BY <1>2, <1>3, <2>5
    <3>2. worker' = [worker EXCEPT ![q] = Idle]
      BY <2>5 DEF Ack, Crash
    <3> QED
      BY <1>1, <3>1, <3>2
  <2> QED
    BY <1>1, <2>1, <2>2, <2>3, <2>4, <2>5, NextCases
<1> QED
  BY <1>4, <1>5, <1>6

\* What a run says, or leaves unsaid, is the verdict in the row.
LEMMA EndsUnsaid ==
  ASSUME NEW i \in Jobs, NEW p \in Procs, Says(p, i),
         row[i].status \in Verdict, row'[i].status = row[i].status
  PROVE  row[i].status \in Unsaid(p)
BY DEF Says, Runs, Word, Unsaid, Verdict

\* Whoever says a verdict or ends without has moved.
LEMMA EndsMoves ==
  ASSUME TypeOK, NEW i \in Jobs, NEW p \in Procs, Runs(p, i), Ends(p)
  PROVE  worker'[p] # worker[p]
<1>1. worker \in [Procs -> Run]
  BY DEF TypeOK
<1>2. CASE Crash(p)
  <2>1. worker'[p].pc = "idle"
    BY <1>1, <1>2 DEF Crash, Idle
  <2> QED
    BY <2>1 DEF Runs
<1>3. CASE EmitCompleted(p) \/ LogThrows(p) \/ EmitFailed(p)
  <2>1. worker'[p].pc \in {"ack", "patchFailed"} /\ worker[p].pc \in {"emitCompleted", "emitFailed"}
    BY <1>1, <1>3 DEF EmitCompleted, LogThrows, EmitFailed, Goto, Run
  <2> QED
    BY <2>1
<1>4. CASE Stumbles(p)
  <2>1. worker'[p].pc = "ack" /\ worker[p].pc \in {"patchFailed", "emitFailed"}
    BY <1>1, <1>4 DEF Stumbles, WorkerFault, EmitThrows, Goto, Run
  <2> QED
    BY <2>1
<1> QED
  BY <1>2, <1>3, <1>4 DEF Ends

-----------------------------------------------------------------------------
(* The client beside the jobs *)

\* The feed adds nothing to the jobs: what its steps do to them, they do alone.
LEMMA FeedIsNext == [FeedNext]_feedVars => [Next]_vars
<1> SUFFICES ASSUME [FeedNext]_feedVars PROVE [Next]_vars
  OBVIOUS
<1>1. ASSUME NEW p \in Procs, NEW v \in Verdict, Emit(p, v) PROVE Next
  <2>1. RunStep(p) \/ LogThrows(p)
    BY <1>1 DEF Emit, Emits, RunStep
  <2> QED
    BY <2>1 DEF Next
<1>2. ASSUME NEW p \in Procs, Fall(p) \/ Stumble(p) PROVE Next
  BY <1>2 DEF Fall, Stumble, Stumbles, Next
<1>3. CASE Silent
  BY <1>3 DEF Silent
<1>4. ASSUME NEW p \in Procs, Connect(p) PROVE UNCHANGED vars
  BY <1>4 DEF Connect
<1>5. CASE Unsubscribe \/ Disconnect \/ Check \/ \E j \in Jobs : Subscribe(j)
  BY <1>5 DEF Unsubscribe, Disconnect, Check, Subscribe
<1>6. CASE UNCHANGED feedVars
  BY <1>6 DEF feedVars
<1> QED
  BY <1>1, <1>2, <1>3, <1>4, <1>5, <1>6 DEF FeedNext

\* Clients are records.
LEMMA ClientUpdates ==
  ASSUME NEW c \in Client
  PROVE  /\ \A j \in Jobs :
              /\ [c EXCEPT !.room = j] \in Client
              /\ [c EXCEPT !.room = j].room = j /\ [c EXCEPT !.room = j].at = c.at
              /\ [c EXCEPT !.room = j].checked = c.checked
         /\ /\ [c EXCEPT !.checked = TRUE] \in Client
            /\ [c EXCEPT !.checked = TRUE].room = c.room /\ [c EXCEPT !.checked = TRUE].at = c.at
BY DEF Client

\* Verdicts H are heard, or missed.
LEMMA HeardUpdate ==
  ASSUME NEW c \in Client, NEW H \in SUBSET Verdict
  PROVE  LET d == [c EXCEPT !.heard = H] IN
         /\ d \in Client /\ d.room = c.room /\ d.at = c.at /\ d.checked = c.checked
         /\ d.heard = H /\ d.missed = c.missed
BY DEF Client

LEMMA MissedUpdate ==
  ASSUME NEW c \in Client, NEW H \in SUBSET Verdict
  PROVE  LET d == [c EXCEPT !.missed = H] IN
         /\ d \in Client /\ d.room = c.room /\ d.at = c.at /\ d.checked = c.checked
         /\ d.heard = c.heard /\ d.missed = H
BY DEF Client

\* A client that has joined no room.
LEMMA AwayIsClient ==
  /\ Away \in Client /\ Away.room = None /\ ~ Away.checked /\ Away.heard = {} /\ Away.missed = {}
  /\ \A p \in Procs \cup {None} :
       LET c == [Away EXCEPT !.at = p] IN
       c \in Client /\ c.at = p /\ c.room = None /\ ~ c.checked /\ c.heard = {} /\ c.missed = {}
BY DEF Away, Client

\* A client out of every room keeps what is asked of it.
LEMMA OutsideKeeps ==
  ASSUME client' \in Client, client'.room = None, ~ client'.checked,
         client'.heard = {}, client'.missed = {}
  PROVE  FeedInv'
BY DEF FeedInv, ClientOK

\* A verdict that was on its way is known or still on its way, if whoever ended a run
\* took note of what it said or left unsaid.
LEMMA SettlingKept ==
  ASSUME IInv, [Next]_vars, NEW i \in Jobs, Settling(i),
         client.heard \subseteq client'.heard, client.missed \subseteq client'.missed,
         \A p \in Procs : Runs(p, i) /\ Ends(p) => Unsaid(p) \subseteq client'.heard \cup client'.missed
  PROVE  Settling(i)'
<1> SUFFICES ASSUME row'[i].status \in Verdict
             PROVE  \/ row'[i].status \in client'.heard \cup client'.missed
                    \/ \E p \in Procs : Says(p, i)'
  BY DEF Settling
<1>1. CASE row'[i].status # row[i].status
  BY <1>1, FreshVerdict DEF Ends
<1>2. CASE row'[i].status = row[i].status
  <2>1. CASE row[i].status \in client.heard \cup client.missed
    BY <1>2, <2>1
  <2>2. ASSUME NEW p \in Procs, Says(p, i)
        PROVE  Says(p, i)' \/ row[i].status \in client'.heard \cup client'.missed
    <3>1. CASE Ends(p)
      <4>1. row[i].status \in Unsaid(p)
        BY <1>2, <2>2, EndsUnsaid
      <4> QED
        BY <2>2, <3>1, <4>1 DEF Says
    <3>2. CASE ~ Ends(p)
      BY <1>2, <2>2, <3>2, SaysKept
    <3> QED
      BY <3>1, <3>2
  <2> QED
    BY <1>2, <2>1, <2>2 DEF Settling
<1> QED
  BY <1>1, <1>2

\* The steps of the jobs that no client notices.
LEMMA SilentKeeps ==
  ASSUME IInv, FeedInv, Silent
  PROVE  FeedInv'
<1>1. ClientOK'
  BY DEF FeedInv, ClientOK, Silent
<1>2. [Next]_vars /\ client' = client
  BY DEF Silent
<1>3. \A p \in Procs : ~ Ends(p)
  BY DEF Silent, Ends, Emits, Verdict
<1>4. ASSUME client.checked PROVE Settling(client.room)'
  <2>1. PICK i \in Jobs : i = client.room /\ Settling(i)
    BY <1>4 DEF FeedInv, ClientOK, Client
  <2>2. Settling(i)'
    BY <1>2, <1>3, <2>1, SettlingKept
  <2> QED
    BY <1>2, <2>1, <2>2
<1> QED
  BY <1>1, <1>2, <1>4 DEF FeedInv

\* A step of worker p alone, of whose end its subscriber takes note.
LEMMA NoticeKeeps ==
  ASSUME IInv, FeedInv, [Next]_vars, NEW p \in Procs,
         \A q \in Procs \ {p} : worker'[q] = worker[q],
         client' \in Client, client'.room = client.room, client'.at = client.at,
         client'.checked = client.checked,
         client.heard \subseteq client'.heard, client.missed \subseteq client'.missed,
         client.room # None /\ Runs(p, client.room) =>
           Unsaid(p) \subseteq client'.heard \cup client'.missed,
         client.room = None => client' = client
  PROVE  FeedInv'
<1>1. ClientOK'
  BY DEF FeedInv, ClientOK
<1>2. ASSUME client.checked PROVE Settling(client.room)'
  <2>1. PICK i \in Jobs : i = client.room /\ Settling(i) /\ i # None
    BY <1>2 DEF FeedInv, ClientOK, Client
  <2>2. ASSUME NEW q \in Procs, Runs(q, i), Ends(q)
        PROVE  Unsaid(q) \subseteq client'.heard \cup client'.missed
    <3>1. q = p
      BY <2>2, EndsMoves DEF IInv
    <3> QED
      BY <2>1, <2>2, <3>1
  <2>3. Settling(i)'
    BY <2>1, <2>2, SettlingKept
  <2> QED
    BY <2>1, <2>3
<1> QED
  BY <1>1, <1>2 DEF FeedInv

\* A verdict is emitted.
LEMMA EmitKeeps ==
  ASSUME IInv, FeedInv, NEW p \in Procs, NEW v \in Verdict, Emit(p, v)
  PROVE  FeedInv'
<1> DEFINE j == worker[p].job
<1>1. [Next]_vars
  BY FeedIsNext DEF FeedNext
<1>2. TypeOK /\ Busy /\ client \in Client /\ client.heard \subseteq Verdict /\ client.missed \subseteq Verdict
  BY DEF IInv, FeedInv, ClientOK, Client
<1>3. j \in Jobs /\ Works(p)
  BY <1>2 DEF Emit, Emits, EmitCompleted, LogThrows, EmitFailed, Busy, Works
<1>4. Unsaid(p) = {v}
  BY DEF Emit, Emits, EmitCompleted, LogThrows, EmitFailed, Unsaid
<1>5. client.heard \cup {v} \in SUBSET Verdict /\ client.missed \cup {v} \in SUBSET Verdict
  BY <1>2
<1>6. \/ Hears(p, j) /\ client' = [client EXCEPT !.heard = client.heard \cup {v}]
      \/ client.room = j /\ client.at # p /\ client' = [client EXCEPT !.missed = client.missed \cup {v}]
      \/ client.room # j /\ client' = client
  BY DEF Emit, Hears
<1>7. \A i \in Jobs : Runs(p, i) => i = j
  BY DEF Runs
<1> HIDE DEF j
<1>8. /\ client' \in Client /\ client'.room = client.room /\ client'.at = client.at
      /\ client'.checked = client.checked
      /\ client.heard \subseteq client'.heard /\ client.missed \subseteq client'.missed
      /\ client.room = j => v \in client'.heard \cup client'.missed
  <2>1. CASE client' = [client EXCEPT !.heard = client.heard \cup {v}]
    BY <1>2, <1>5, <2>1, HeardUpdate
  <2>2. CASE client' = [client EXCEPT !.missed = client.missed \cup {v}]
    BY <1>2, <1>5, <2>2, MissedUpdate
  <2>3. CASE client.room # j /\ client' = client
    BY <1>2, <2>3
  <2> QED
    BY <1>6, <2>1, <2>2, <2>3
<1>9. client.room = None => client' = client
  BY <1>3, <1>6, NoneAssumption DEF Hears
<1>10. client.room \in Jobs \cup {None}
  BY <1>2 DEF Client
<1>11. \A q \in Procs \ {p} : worker'[q] = worker[q]
  BY <1>2, <1>3, RunEffect
<1> QED
  BY <1>1, <1>4, <1>7, <1>8, <1>9, <1>10, <1>11, NoticeKeeps

\* What the client makes of a verdict that will not be said.
LEMMA MissKeeps ==
  ASSUME IInv, FeedInv, [Next]_vars, NEW p \in Procs,
         \A q \in Procs \ {p} : worker'[q] = worker[q],
         client' = IF client.room # None /\ Runs(p, client.room)
                   THEN [client EXCEPT !.missed = @ \cup Unsaid(p)]
                   ELSE client
  PROVE  FeedInv'
<1>1. client \in Client /\ client.missed \subseteq Verdict
  BY DEF FeedInv, ClientOK, Client
<1>2. client.missed \cup Unsaid(p) \in SUBSET Verdict
  BY <1>1 DEF Unsaid, Verdict
<1>3. CASE client.room # None /\ Runs(p, client.room)
  <2>1. LET d == [client EXCEPT !.missed = client.missed \cup Unsaid(p)] IN
        /\ d \in Client /\ d.room = client.room /\ d.at = client.at /\ d.checked = client.checked
        /\ d.heard = client.heard /\ d.missed = client.missed \cup Unsaid(p)
    BY <1>1, <1>2, MissedUpdate
  <2>2. client' = [client EXCEPT !.missed = client.missed \cup Unsaid(p)]
    BY <1>3
  <2>3. /\ client' \in Client /\ client'.room = client.room /\ client'.at = client.at
        /\ client'.checked = client.checked
        /\ client'.heard = client.heard /\ client'.missed = client.missed \cup Unsaid(p)
    BY <2>1, <2>2
  <2> QED
    BY <1>3, <2>3, NoticeKeeps
<1>4. CASE ~ (client.room # None /\ Runs(p, client.room))
  <2>1. client' = client
    BY <1>4
  <2> QED
    BY <1>1, <1>4, <2>1, NoticeKeeps
<1> QED
  BY <1>3, <1>4

\* A run ends without a word.
LEMMA StumbleKeeps ==
  ASSUME IInv, FeedInv, NEW p \in Procs, Stumble(p)
  PROVE  FeedInv'
<1>1. [Next]_vars
  BY FeedIsNext DEF FeedNext
<1>2. TypeOK /\ Busy
  BY DEF IInv
<1>3. Works(p)
  BY DEF Stumble, Stumbles, Works
<1>4. \A q \in Procs \ {p} : worker'[q] = worker[q]
  BY <1>2, <1>3, RunEffect
<1> QED
  BY <1>1, <1>4, MissKeeps DEF Stumble

\* A process dies.
LEMMA FallKeeps ==
  ASSUME IInv, FeedInv, NEW p \in Procs, Fall(p)
  PROVE  FeedInv'
<1>1. [Next]_vars /\ Crash(p)
  BY FeedIsNext DEF FeedNext, Fall
<1>2. worker \in [Procs -> Run]
  BY DEF IInv, TypeOK
<1>3. \A q \in Procs \ {p} : worker'[q] = worker[q]
  BY <1>1, <1>2 DEF Crash
<1>4. CASE client.at = p
  <2>1. client' = Away
    BY <1>4 DEF Fall
  <2> QED
    BY <2>1, AwayIsClient, OutsideKeeps
<1>5. CASE client.at # p
  BY <1>1, <1>3, <1>5, MissKeeps DEF Fall
<1> QED
  BY <1>4, <1>5

\* Joining, asking and leaving.
LEMMA ClientKeeps ==
  ASSUME FeedInv,
         \/ \E p \in Procs : Connect(p)
         \/ \E j \in Jobs : Subscribe(j)
         \/ Unsubscribe \/ Disconnect \/ Check
  PROVE  FeedInv'
<1>1. client \in Client
  BY DEF FeedInv, ClientOK
<1>2. ASSUME NEW p \in Procs, Connect(p) PROVE FeedInv'
  BY <1>2, AwayIsClient, OutsideKeeps DEF Connect
<1>3. ASSUME NEW j \in Jobs, Subscribe(j) PROVE FeedInv'
  <2>1. client' \in Client /\ client'.room = j /\ client'.at = client.at /\ client'.checked = client.checked
    BY <1>1, <1>3, ClientUpdates DEF Subscribe
  <2>2. client.room = None /\ client.at # None /\ ~ client.checked
    BY <1>3 DEF Subscribe, FeedInv, ClientOK
  <2> QED
    BY <2>1, <2>2, NoneAssumption DEF FeedInv, ClientOK
<1>4. ASSUME Unsubscribe PROVE FeedInv'
  <2>1. client.at \in Procs \cup {None} /\ client' = [Away EXCEPT !.at = client.at]
    BY <1>1, <1>4 DEF Unsubscribe, Client
  <2> QED
    BY <2>1, AwayIsClient, OutsideKeeps
<1>5. ASSUME Disconnect PROVE FeedInv'
  BY <1>5, AwayIsClient, OutsideKeeps DEF Disconnect
<1>6. ASSUME Check PROVE FeedInv'
  <2>1. client' \in Client /\ client'.room = client.room /\ client'.at = client.at
    BY <1>1, <1>6, ClientUpdates DEF Check
  <2>2. client.room # None /\ row'[client.room].status \in {"pending", "running"}
    BY <1>6 DEF Check, vars
  <2>3. Settling(client.room)'
    BY <2>1, <2>2 DEF Settling, Verdict
  <2> QED
    BY <2>1, <2>2, <2>3 DEF FeedInv, ClientOK
<1> QED
  BY <1>2, <1>3, <1>4, <1>5, <1>6

-----------------------------------------------------------------------------
(* The theorems *)

LEMMA FeedStep == IInv /\ FeedInv /\ [FeedNext]_feedVars => FeedInv'
<1> SUFFICES ASSUME IInv, FeedInv, [FeedNext]_feedVars PROVE FeedInv'
  OBVIOUS
<1>1. CASE UNCHANGED feedVars
  BY <1>1 DEF feedVars, vars, FeedInv, ClientOK, Settling, Says, Runs
<1> QED
  BY <1>1, SilentKeeps, EmitKeeps, StumbleKeeps, FallKeeps, ClientKeeps DEF FeedNext

\* Behind the gateway the jobs behave as GenerationJobs says: no client disturbs
\* them, and every theorem about them holds beside clients.
THEOREM FeedKeepsJobs == FeedSpec => Spec
BY FeedIsNext, PTL DEF FeedSpec, FeedInit, Spec

\* The inductive invariant holds in every state.
THEOREM FeedInvariant == FeedSpec => []FeedInv
<1>1. FeedInit => FeedInv
  BY AwayIsClient DEF FeedInit, FeedInv, ClientOK
<1> QED
  BY <1>1, FeedStep, FeedKeepsJobs, Invariance, PTL DEF FeedSpec

\* A client has its type, and a history only in a room.
THEOREM ClientCorrect == FeedSpec => []ClientOK
<1>1. FeedInv => ClientOK
  BY DEF FeedInv
<1> QED
  BY <1>1, FeedInvariant, PTL

\* Whoever joins a room and then finds the job not over hears how it ends, unless
\* another process had the verdict or the run ended before it could say it.
THEOREM SubscribersLearn == FeedSpec => []SubscriberLearns
<1>1. ASSUME FeedInv PROVE SubscriberLearns
  <2> SUFFICES ASSUME client.checked, Quiet(client.room), row[client.room].status \in Verdict
               PROVE  row[client.room].status \in client.heard \cup client.missed
    BY DEF SubscriberLearns
  <2>1. Settling(client.room)
    BY <1>1 DEF FeedInv
  <2>2. ~ \E p \in Procs : Says(p, client.room)
    BY DEF Says, Quiet
  <2> QED
    BY <2>1, <2>2 DEF Settling
<1> QED
  BY <1>1, FeedInvariant, PTL
=============================================================================
