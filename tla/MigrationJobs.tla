---------------------------- MODULE MigrationJobs ----------------------------
(***************************************************************************)
(* POST /migration/jobs: a script is built from the schema, a row is       *)
(* inserted as running, the script is applied to the user's database if    *)
(* asked, and the row says how it went, all inside the request.  Requests  *)
(* overlap on one database and any may be cut off.                         *)
(*                                                                         *)
(* PostgreSQL runs the statements it is sent at once as one transaction.   *)
(* MySQL commits at each DDL statement, so each is a step there.           *)
(***************************************************************************)
EXTENDS SqlScript

CONSTANTS
  Jobs,     \* requests, each with the row it inserts
  MaxRels,  \* bound: relationships of a schema
  Found     \* databases as the user may have left them

ASSUME BoundsAssumption == IsFiniteSet(Tables) /\ MaxRels \in Nat /\ Found \subseteq Db

VARIABLES
  dialect,     \* of the user's database, which its connection says
  job,         \* the handlers
  row,         \* status of the rows of migration_jobs
  db,          \* the user's database
  connection,  \* is the connection still stored?
  took,        \* history: statements of the job's script that the database accepted
  changed,     \* history: did the job's statements change the database?
  mishap,      \* history: was a call of the job rejected?
  lost         \* history: did the handler end without its last write?

target  == <<db, took, changed>>
history == <<mishap, lost>>
vars    == <<dialect, job, row, connection, target, history>>

-----------------------------------------------------------------------------
\* Tables on a cycle or referring to another schema, and those that depend on them.
Leftovers(T, rels) ==
  UNION {B \in SUBSET T :
           \A t \in B : \E r \in ToSet(rels) :
             /\ r.source = t /\ r.target # t
             /\ r.target \in B \cup (Tables \ T)}

\* What TopologicalSort makes of the tables T: parents come first, leftovers last.
\* (Which of the sorted ones are tied depends on its queue; every order of them
\* is here.)
Orders(T, rels) ==
  LET left == Leftovers(T, rels)
      Placed(order, i) ==
        IF order[i] \in left THEN \A k \in i..Len(order) : order[k] \in left
        ELSE \A r \in ToSet(rels) :
               r.source = order[i] /\ r.target # r.source =>
                 \E k \in 1..(i - 1) : order[k] = r.target
  IN  {order \in SetToSeqs(T) : \A i \in DOMAIN order : Placed(order, i)}

\* A relationship may refer to a table of another schema.  (One that comes from
\* there makes the builder throw before there is a row, or adds nothing.)
Schemas ==
  UNION {UNION {[order : Orders(T, rels), rels : {rels}] :
                  rels \in BoundedSeq({r \in Relationship : r.source \in T}, MaxRels)} :
           T \in SUBSET Tables}

Format == {"SQL_FILE", "DIRECT_APPLY"}
Status == {"none", "running", "completed", "failed"}
Live   == {"findDialect", "insert", "findConnection", "execute", "patchCompleted", "patchFailed"}

NoSchema == [order |-> <<>>, rels |-> <<>>]

Job == [pc : {"idle", "done", "refused", "dead"} \cup Live,
        schema : Schemas, mode : Mode, format : Format,
        at : Nat,            \* MySQL: statements sent
        checks : BOOLEAN]    \* MySQL: FOREIGN_KEY_CHECKS

Init ==
  /\ dialect \in Dialect
  /\ job = [j \in Jobs |-> [pc |-> "idle", schema |-> NoSchema, mode |-> "safe",
                            format |-> "SQL_FILE", at |-> 0, checks |-> TRUE]]
  /\ row = [j \in Jobs |-> "none"]
  /\ db \in Found
  /\ connection = TRUE
  /\ took = [j \in Jobs |-> 0]
  /\ changed = [j \in Jobs |-> FALSE]
  /\ mishap = [j \in Jobs |-> FALSE]
  /\ lost = [j \in Jobs |-> FALSE]

Script(j) == Build(dialect, job[j].schema, job[j].mode)

Goto(j, pc) == job' = [job EXCEPT ![j].pc = pc]
Write(j, s) == row' = [row EXCEPT ![j] = s]

-----------------------------------------------------------------------------
Load(j) ==
  /\ job[j].pc = "idle"
  /\ \E s \in Schemas, m \in Mode, f \in Format :
       job' = [job EXCEPT ![j] = [@ EXCEPT !.schema = s, !.mode = m, !.format = f,
                 !.pc = IF f = "DIRECT_APPLY" THEN "findDialect" ELSE "insert"]]
  /\ UNCHANGED <<row, connection, target, history>>

FindDialect(j) ==
  /\ job[j].pc = "findDialect"
  /\ Goto(j, IF connection THEN "insert" ELSE "refused")
  /\ UNCHANGED <<row, connection, target, history>>

Insert(j) ==
  /\ job[j].pc = "insert"
  /\ Write(j, "running")
  /\ Goto(j, IF job[j].format = "DIRECT_APPLY" THEN "findConnection" ELSE "patchCompleted")
  /\ UNCHANGED <<connection, target, history>>

FindConnection(j) ==
  /\ job[j].pc = "findConnection"
  /\ Goto(j, IF connection THEN "execute" ELSE "patchFailed")
  /\ UNCHANGED <<row, connection, target, history>>

Changed(j) == changed' = [changed EXCEPT ![j] = @ \/ db' # db]

\* PostgreSQL's executeSql: the transaction commits, or nothing has happened.
Commit(j) ==
  LET out == Run(dialect, db, Sent(dialect, Script(j)))
  IN  /\ ~ out.failed
      /\ db' = out.db
      /\ took' = [took EXCEPT ![j] = Len(Sent(dialect, Script(j)))]
      /\ Changed(j)

\* Mutant: the statements are sent one at a time.
ExecuteAllSingly(j) ==
  /\ job[j].pc = "execute" /\ dialect = "postgresql"
  /\ \/ Commit(j) /\ Goto(j, "patchCompleted")
     \/ /\ Run(dialect, db, Sent(dialect, Script(j))).failed
        /\ db' = Run(dialect, db, Sent(dialect, Script(j))).db
        /\ Changed(j)
        /\ Goto(j, "patchFailed")
        /\ UNCHANGED took
  /\ UNCHANGED <<row, connection, history>>

ExecuteAll(j) ==
  /\ job[j].pc = "execute" /\ dialect = "postgresql"
  /\ \/ Commit(j) /\ Goto(j, "patchCompleted")
     \/ Run(dialect, db, Sent(dialect, Script(j))).failed /\ Goto(j, "patchFailed") /\ UNCHANGED target
  /\ UNCHANGED <<row, connection, history>>

\* The MySQL driver's loop: its next statement, if the database takes it.
Line(j) == Sent(dialect, Script(j))[job[j].at + 1]

TakeEffect(j) ==
  /\ job[j].at < Len(Sent(dialect, Script(j))) /\ ~ Rejects(dialect, db, job[j].checks, Line(j))
  /\ db' = After(dialect, db, Line(j))
  /\ took' = [took EXCEPT ![j] = @ + 1]
  /\ Changed(j)

ExecuteNext(j) ==
  /\ job[j].pc = "execute" /\ dialect = "mysql"
  /\ TakeEffect(j)
  /\ job' = [job EXCEPT ![j].at = @ + 1, ![j].checks = ChecksAfter(@, Line(j))]
  /\ UNCHANGED <<row, connection, history>>

\* Mutant: a rejected statement is skipped.
ExecuteRejectedSkipped(j) ==
  /\ job[j].pc = "execute" /\ dialect = "mysql"
  /\ job[j].at < Len(Sent(dialect, Script(j))) /\ Rejects(dialect, db, job[j].checks, Line(j))
  /\ job' = [job EXCEPT ![j].at = @ + 1]
  /\ UNCHANGED <<row, connection, target, history>>

\* rollback() finds nothing to take back.
ExecuteRejected(j) ==
  /\ job[j].pc = "execute" /\ dialect = "mysql"
  /\ job[j].at < Len(Sent(dialect, Script(j))) /\ Rejects(dialect, db, job[j].checks, Line(j))
  /\ Goto(j, "patchFailed")
  /\ UNCHANGED <<row, connection, target, history>>

ExecuteEnd(j) ==
  /\ job[j].pc = "execute" /\ dialect = "mysql"
  /\ job[j].at = Len(Sent(dialect, Script(j)))
  /\ Goto(j, "patchCompleted")
  /\ UNCHANGED <<row, connection, target, history>>

PatchCompleted(j) ==
  /\ job[j].pc = "patchCompleted"
  /\ Write(j, "completed")
  /\ Goto(j, "done")
  /\ UNCHANGED <<connection, target, history>>

\* Mutant: the catch clause rethrows and forgets the row.
PatchFailedSkipped(j) ==
  /\ job[j].pc = "patchFailed"
  /\ Goto(j, "refused")
  /\ UNCHANGED <<row, connection, target, history>>

PatchFailed(j) ==
  /\ job[j].pc = "patchFailed"
  /\ Write(j, "failed")
  /\ Goto(j, "refused")
  /\ UNCHANGED <<connection, target, history>>

-----------------------------------------------------------------------------
\* A call that is cut off may have done its work or not.
CutOff(j) ==
  LET pc == job[j].pc IN
  /\ \/ UNCHANGED row
     \/ pc = "insert" /\ Write(j, "running")
     \/ pc = "patchCompleted" /\ Write(j, "completed")
     \/ pc = "patchFailed" /\ Write(j, "failed")
  /\ \/ UNCHANGED target
     \/ pc = "execute" /\ dialect = "postgresql" /\ Commit(j)
     \/ pc = "execute" /\ dialect = "mysql" /\ TakeEffect(j)

\* A call is rejected: after the insert the catch clause gets the error, or it
\* is the catch clause's own.
Reject(j) ==
  LET caught == job[j].pc \in {"findConnection", "execute", "patchCompleted"} IN
  /\ job[j].pc \in Live
  /\ CutOff(j)
  /\ Goto(j, IF caught THEN "patchFailed" ELSE "refused")
  /\ mishap' = [mishap EXCEPT ![j] = TRUE]
  /\ lost' = [lost EXCEPT ![j] = ~ caught]
  /\ UNCHANGED connection

\* The server process dies.
Die(j) ==
  /\ job[j].pc \in Live
  /\ CutOff(j)
  /\ Goto(j, "dead")
  /\ lost' = [lost EXCEPT ![j] = TRUE]
  /\ UNCHANGED <<connection, mishap>>

DeleteConnection ==
  /\ connection /\ connection' = FALSE
  /\ UNCHANGED <<job, row, target, history>>

Next ==
  /\ \/ \E j \in Jobs :
          \/ Load(j) \/ FindDialect(j) \/ Insert(j) \/ FindConnection(j)
          \/ ExecuteAll(j) \/ ExecuteNext(j) \/ ExecuteRejected(j) \/ ExecuteEnd(j)
          \/ PatchCompleted(j) \/ PatchFailed(j) \/ Reject(j) \/ Die(j)
     \/ DeleteConnection
  /\ UNCHANGED dialect

Spec == Init /\ [][Next]_vars

-----------------------------------------------------------------------------
(* Properties *)

\* A running row has a handler that will say how it went, unless the handler
\* died or its last write was rejected.
RunningIsServed == \A j \in Jobs : row[j] = "running" => job[j].pc \in Live \/ lost[j]

\* A job that is reported completed has executed every statement the driver
\* cuts out of its script, in both dialects.
CompletedSent ==
  \A j \in Jobs :
    row[j] = "completed" /\ job[j].format = "DIRECT_APPLY" => took[j] = Len(Sent(dialect, Script(j)))

\* What the API says of DIRECT_APPLY (migration.controller.ts:41, "SQL_FILE
\* stores the DDL, DIRECT_APPLY also executes it"): a job that is reported
\* completed has executed every statement of the script it stores.
CompletedExecuted ==
  \A j \in Jobs :
    row[j] = "completed" /\ job[j].format = "DIRECT_APPLY"
      => took[j] = Len(Statements(Script(j)))

\* What mysql.driver.ts:26 says of its driver ("run each inside one transaction"),
\* and PostgreSQL does: a job that failed with no call cut off has changed nothing.
PostgresIsClean ==
  dialect = "postgresql" =>
    \A j \in Jobs : row[j] = "failed" /\ ~ mishap[j] => ~ changed[j]

\* Two relationships of one column would get constraints of the same name.
NamesDistinct(schema) ==
  \A i, k \in DOMAIN FkLines(schema) :
    /\ FkLines(schema)[i].rel.source = FkLines(schema)[k].rel.source
    /\ FkLines(schema)[i].rel.column = FkLines(schema)[k].rel.column
    => i = k

\* Whatever the database holds, left by the user or by other jobs that stopped
\* anywhere, the script of mode replace as a whole is accepted, and makes of the
\* schema's tables, with their foreign keys and indexes, exactly what it says;
\* other tables stay.
ReplaceRebuilds ==
  \A j \in Jobs :
    LET schema == job[j].schema
        T      == ToSet(schema.order)
        out    == Run(dialect, db, Script(j))
    IN  job[j].pc = "findConnection" /\ job[j].mode = "replace" /\ NamesDistinct(schema) =>
          /\ ~ out.failed
          /\ out.db.tables = db.tables \cup T
          /\ {f \in out.db.fks : f.source \in T}
               = {r \in ToSet(schema.rels) : r.target \in T}
          /\ {x \in out.db.indexes : x[1] \in T} = {<<r.source, r.column>> : r \in ToSet(schema.rels)}

\* A job of mode safe takes nothing away from the database.
SafeOnlyAdds ==
  [][\A j \in Jobs :
       job'[j] # job[j] /\ job[j].mode = "safe" =>
         /\ db.tables \subseteq db'.tables
         /\ db.fks \subseteq db'.fks
         /\ db.indexes \subseteq db'.indexes]_vars
=============================================================================
