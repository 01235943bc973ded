# Relatrix backend: a TLA+ verification development

The repository is the NestJS backend of a schema designer: users draw database
schemas, generate fake data for them and export or apply the result. This
directory holds TLA+ models of its stateful parts, their TLC configurations and
TLAPS proofs. Paths below are relative to the repository's `src/` directory
unless they begin with it.

## 1. Inventory

| Component | State | Operations | Interacts with | Model |
|---|---|---|---|---|
| Generation jobs (`generation/generation.service.ts`, `.processor.ts`, `.controller.ts`) | `generation_jobs` rows, BullMQ queue `generation` | estimate, start, list, getOne, cancel, export; `process()` in the worker | schemas and connections (read), user's database, gateway | `GenerationJobs`, `JobPromise` |
| Progress gateway (`generation/generation.gateway.ts`) | Socket.IO rooms `job:<id>` | handshake, subscribe, unsubscribe, emitProgress/Completed/Failed | sessions at the handshake; called by the processor | `JobFeed` |
| Data generator (`generation/faker/*`) | none (pure, seeded) | topologicalSort, generateTable, ensureUnique, formatSQL, formatCSV | called by processor and by estimate | `TopologicalSort`, `DataGenerator` |
| Migration jobs (`migration/migration.service.ts`) | `migration_jobs` rows | preview, create (runs inside the request), list, getOne, download | schemas, connections, builders, drivers | `MigrationJobs` |
| SQL builders (`migration/sql-builder/*`) | none (pure) | topologicalSort, buildPostgresSQL, buildMysqlSQL | migration, then a driver | `TopologicalSort`, `SqlScript` |
| Database drivers (`connections/drivers/*`) | one connection each | testConnection, executeSql, disconnect | user's PostgreSQL or MySQL | `SqlScript`, steps of `MigrationJobs`, `GenerationJobs`, `Connections` |
| Connections (`connections/connections.service.ts`) | `db_connections` rows, test status | list, create, update, delete, probe, test, revealCredentials | drivers; read by generation and migration | `Connections` |
| Schema store (`schemas/schemas.service.ts`) | `schemas`, `tables`, `columns`, `relationships` rows, version counter | create, update, delete, replace, validate, and add, update, delete of tables, columns, relationships | read by generation and migration | `SchemaStore` |
| Sessions (`auth/auth.service.ts`, `auth/strategies`, `auth/guards`, `redis/redis.service.ts`) | Redis keys `bl:<jti>` and `rt:<jti>` with expiry | signUp, signIn, signOut, refresh, verification | users | `Sessions` |
| Password reset (`auth/auth.service.ts`) | `password_reset_tokens` rows | forgotPassword, resetPassword, changePassword | users, e-mail | `Accounts` |
| Users (`users/users.service.ts`) | `users` rows, unique e-mail | create, update, find | sessions, password reset | `Accounts` |
| Encryption, e-mail, health, configuration, filters, seed script | none of their own worth a model | | | |

Behaviours that are hard here: handlers read a row, await, and write it without
a condition (cancel against the worker, connection test against update, refresh
against sign-out, two password resets, a change of password against a reset); a
job row and a queue entry are written by two calls with nothing to tie them; the
worker may die and be run again; a database call in a catch block may fail too;
SQL scripts are cut into statements by a regular expression; `replace` merges by
id, and the version of a schema is bumped in a call after the change; sockets
are known to one process only. PROJECT.json lists these hazards at their lines,
each with the properties that would catch it.

What makes each part correct:
- Generation: every job reaches a final status, unless a named failure left
  nobody to settle it; data is seeded once per run; a verdict told to subscribers
  stands in the row, but for what an exception after it may do (section 5).
- Gateway: who joins the room of a job that is not over hears its verdict,
  unless another process had it.
- Sort and generator: parents before children, every table exactly once; foreign
  keys refer to rows generated before, unless the schema has a reason; unique
  columns unique but for values that were given up on.
- Migration and drivers: all statements of the script run, or none; the row tells
  which; the replace script rebuilds the schema whatever the database holds.
- Connections: the status speaks of the credentials now stored.
- Schema store: no row dangles; an answered change of tables, columns or
  relationships is behind a new version; relationships stay between tables of
  their schema as long as requests name their own rows; after `replace` the tables
  and relationships are those that were sent, the columns those that were sent
  and the old ones of tables that were.
- Sessions: a consumed or revoked refresh token makes no new pair; a signed-out
  token is refused for as long as the server takes an access token to live; a
  living refresh token is refused only for a reason.
- Accounts: e-mails stay unique; a used or superseded reset token is refused; no
  password from before an answered reset or change comes back.

## 2. Plan

Done, in the order of importance: `GenerationJobs` with its abstract
specification `JobPromise`, `TopologicalSort`, `Connections`, `Sessions`,
`SqlScript` and `MigrationJobs`; then `Accounts` (password reset and users),
`SchemaStore`, `DataGenerator` (which extends `TopologicalSort` by keys, the
uniqueness retry and the order of the script) and `JobFeed` (which composes the
gateway with `GenerationJobs`).

Left:
1. An abstract store with one atomic change per request, which `SchemaStore`
   implements as far as its calls are transactions; and the composition of
   `SchemaStore` with `GenerationJobs`, for what a worker loads while a schema is
   being changed.
2. Column types in `SqlScript`, for key columns that do not match.

## 3. Modules and the code they model

Every await of a handler (a PostgreSQL, Redis or driver round trip) is a step of
its own; what runs between two awaits is one step, because Node runs it so. An
operator with the comment "Mutant" is a wrong variant of the operator beside it,
the way a plausible bug would have it; no specification uses it. It is there to
show that a property notices.

### GenerationJobs and JobPromise

| Model | Code |
|---|---|
| `row` | `generation_jobs`: status, whether there is an export, format |
| `bull`, `stalls` | the BullMQ job and its stalled counter |
| `start`, `StartInsert`, `StartEnqueue`, `StartFault` | `GenerationService.start`: insert, then `queue.add`; the two are not tied |
| `cancel`, `CancelRead` ... `CancelUpdate`, `CancelFault` | `GenerationService.cancel`: read the status, look for the queue job, its state, remove, update |
| `worker`, `Take`, `PatchRunning` ... `Ack`, `Throw`, `WorkerFault` | `GenerationProcessor.process` and `buildExport`, with their try and catch |
| `EmitCompleted`, `EmitFailed`, `LogThrows`, `EmitThrows` | the last lines of both: the log line after an emission may throw, and so may the emission; in the try block that leads to the catch clause, in the catch clause out of `process` |
| `target`, `CommitScript` | what `executeSql` committed in the user's database, by attempt |
| `told` | verdicts emitted to the job's room |
| `Crash`, `Stalled`, `LockExpires` | a server process dies; BullMQ's stalled check; a lock that is not renewed because generation keeps the event loop busy |
| `DeleteSchema`, `DeleteConnection` | the user deletes what the job refers to |
| `lost` | history: a crash, a rejected call or one stall too many left the row open with nobody to settle it (`Hit`, `Forgotten`); it stays set |

BullMQ is external. It is modelled by what its documentation and the code's use
of it give: at-least-once delivery, a lock per run, `maxStalledCount` 1,
`attempts` 1, `remove()` that throws on a locked job. `JobPromise` is the view of
an API user: none -> open -> settled, or lost. `lost` is no excuse for a run that
lost its job, or for a cancel that failed, while somebody else still has the job:
`Hit` looks whether anybody is `Responsible` for it after the mishap, and every
other step has to leave somebody. The refinement mapping is
`Phase`; "settled" asks for a final status *and* that nothing is under way that
could still write the row.

### JobFeed

`JobFeed` extends `GenerationJobs` by one client: `at` is the process its socket
is connected to, `room` the job it subscribed to; `Connect`, `Subscribe`,
`Unsubscribe` and `Disconnect` are the gateway's handlers, `Check` reads the job
through the API and finds it not over. `Emit` is a step of the worker of
`GenerationJobs` together with what the client hears: only sockets of the same
process do, since `main.ts` installs the plain `IoAdapter`. `Fall` is a crash,
which takes the sockets of its process along; `Stumble` is an exception in the
catch clause, with which the run ends; in both the run's verdict may be in the
row and never be said (`Unsaid`). `heard` and `missed` are history:
the verdicts of the room since the client joined, those that reached it and
those that another process emitted or that died unsaid. All other steps of the
jobs are `Silent`. Progress events are left out: they tell nothing that the row
does not.

### TopologicalSort and DataGenerator

`topologicalSort` exists twice, in `sql-builder/topo-sort.ts` and in
`faker.engine.ts`, with the same statements; the module stands for both. `Init`
builds `inDegree`, `adj` and the queue; `Shift` is a turn of the outer loop,
`Visit` of the inner one, `Return` the last three lines. `Strangers` are tables
of other schemas: `addRelationship`, `updateRelationship` and `replace` store
any table id that exists, so a relationship may name them at either end. Ties
are resolved in every order, which covers every order of the input.

`DataGenerator` goes on where the sort returns. `Begin` reads the id of every
table sorted, and throws on an undefined one; `Row` is `ensureUnique` for one row
(a draw not used before, or the suffixed fallback after twenty that were);
`EndTable` is the end of `generateTable`, where `KeyValue` says which way
`generateValue` went for the table's foreign keys; `Throw` is a provider that
throws. `form` is what decides that way: a column that is nullable or not, of
type SERIAL, named by a second relationship, or whose target column is in another
table. `suffixed` is given as a set per draw, since four random characters may
lead anywhere. `formatSQL` is the order of the INSERT statements.

### Connections

`conn` is `db_connections`; create, update, delete and test are `Create`,
`PatchRead`/`ApplyPatch`, `DeleteRead`/`ApplyDelete`, `TestRead`/`Probe`/
`SaveOutcome`. `tested` and `raced` are history: which login the test behind the
stored status used, and whether an update landed during that test. Two fields
stand for the login, because the code decides whether a credential changed by
truth for all fields but `ssl`, which it compares with `undefined`.

### Sessions

`rt` and `bl` are the expiry times of the Redis keys `rt:<rtjti>`, one for each
pair, and `bl:<jti>`, one for each token; `pair` holds when a token pair was
signed. `life` holds the two lifetimes the servers were started with: any that
the token library accepts (`Lives`), of which `parseDurationToSeconds` reads some
(`Parsable`) and takes the others for its default. `SignIn`, `FindUser` and
`Store` are `signTokenPair` in its three callers, `Refresh`/`GetToken`/`DelToken`
is `refresh` with `consumeRefreshToken`, `Use`/`Validate`/`LoadUser` the guard
(the socket handshake is the same without `LoadUser`), `Blacklist`/`Revoke` is
`signOut`, of whose two commands the first may be rejected and the second
carried out. `JwtStrategy` does not look at a token's `type`, so `Use` presents
tokens of either kind (`kind` of a request); one signed out with a refresh token
finds no `rtjti` in it and sends the first command only. `Refresh` does look, and
presents either kind too. `Tick` is the clock, in the unit of the lifetimes.

### Accounts

`users` and `tokens` are the rows. A handler begins with its reads (`SignUp`,
`UpdateMe`, `Forgot`, `Reset`, `Change`), and writes in later steps, after the
hash: `CreateUser`, `SaveEmail`, `PurgeTokens`/`IssueToken`, `StorePassword` and
`MarkUsed` (the two updates of a reset are sent together and land in any order,
`UpdateRejected` is one that does not), `StoreChange`. `Expire` is the clock for
one token. A password is named by the request that set it; `before` is history,
who was answered when a request began, and `verified` is the password a change
compared with. An e-mail is a name with a lower case:
sign-up stores the lower case, a profile update what was typed.

### SchemaStore

| Model | Code |
|---|---|
| `db` | the rows of the four tables: the version of each schema (0 not yet, -1 deleted), the schema of each table, the table of each column, schema and ends of each relationship |
| `AssertOwnership` | the first call of every handler, which reads the schema |
| `AddTable` ... `DeleteRelationship`, `DeleteSchema` | the change, with its `where` clause: tables and relationships are named by id and schema, columns by id alone |
| `Without`, `Consistent` | the cascades of the foreign keys, and what they reject |
| `Replace` (`WithTables`, `MergeColumns`, `MergeRels`, `Merged`) | the transaction of `replace`: upserts by id that leave the place of a row alone, tables and relationships no longer sent deleted, columns never, version + 1 |
| `Update`, `renames` | `update`, which writes name and description, answers, and bumps nothing |
| `BumpVersion` | the call after any other change |
| `BuildFullSchema` | the read that answers |
| `Abandon` | a rejected call or a dead process |
| `dirty`, `misplaced` | history: who changed a schema since its version did; whether a request ever named an id out of place |

### SqlScript and MigrationJobs

`SqlScript` has no state. A script is a sequence of lines, comments and
statements; `Build` is `buildPostgresSQL` or `buildMysqlSQL` by dialect, with
`DropPhase`, `CreatePhase`, `FkLines` and `IndexLines` in the builders' order.
`Sent` is what `executeSql` sends of it: everything on PostgreSQL, on MySQL the
pieces that do not begin with a comment. `Kept` picks the lines of a script at
some of its places; `Run` is a session that executes lines until one is rejected
(`Course` is all its states, `Execute` the effect of one line). Both are
recursive functions and not folds, so that the proofs can use their equations. `Rejects` and `After` are the user's
database, external: which tables, foreign keys and indexes it has, and which
statements it refuses for what it has.

| Model (`MigrationJobs`) | Code |
|---|---|
| `dialect` | of the user's database, as its connection says; it never changes |
| `job` | the handlers of `MigrationService.create`: the await each is at, schema, mode, format, and the position and session of the MySQL driver's loop |
| `row` | `migration_jobs.status` |
| `Load`, `FindDialect`, `Insert` | reading schema and dialect, building the script, inserting the running row |
| `FindConnection` | `applyToConnection`, which reads the connection again |
| `ExecuteAll` | PostgreSQL: the script in one call is one transaction |
| `ExecuteNext`, `ExecuteRejected`, `ExecuteEnd` | MySQL: the loop, each DDL statement committing itself |
| `PatchCompleted`, `PatchFailed` | the update at the end of the try block and the one in the catch clause |
| `Reject`, `Die`, `CutOff` | a rejected call or a dead process, the call carried out or not |
| `Found` | what the user's database may hold before the first job |
| `took`, `changed`, `mishap`, `lost` | history |

The order of a schema's tables is any that `TopologicalSort` may return: `Orders`
states its result, not its steps, and leaves ties open.

## 4. Runs

| Run | Instance | Distinct states | Shows |
|---|---|---|---|
| `generation_faults` | 1 job, 2 processes, 1 cancel, 1 crash, 1 rejected call, locks that expire | 2,124,424 | the invariants of the job's life; a settled job never changes again |
| `generation_liveness` | 1 job, 2 processes, 1 cancel, 1 crash, no tables | 1,013,410 | `GenerationJobs` implements `JobPromise`, liveness included |
| `job_feed` | the same without the cancel, with 1 rejected call, no tables; 1 client | 1,088,078 | who joins a room and then finds the job not over hears its verdict, unless another process had it; and hears it in the end |
| `data_generator` | 3 tables, 1 stranger, 3 relationships, 3 rows, 2 draws | 1,153,472 | order, completeness, cause of leftovers, of missing keys and of repeated values; the script of a schema without cycles can be inserted |
| `connections_races` | 1 connection, 3 requests, 2 servers | 15,435 | status and stored login, deletion is final |
| `sessions_races` | 2 pairs, 4 requests, lifetimes 1 and 3, of which the server reads 1 and takes 3 for 2 | 4,275,782 | spent refresh tokens make no pair, signed-out tokens of both kinds are refused for as long as their entries last, living ones are refused for a reason |
| `sessions_once` | 3 pairs, 3 requests | violation | finding 1 |
| `accounts_races` | 2 users, 2 tokens, 3 e-mails, 3 requests | 197,164 | unique e-mails, spent and superseded tokens refused, no replaced password comes back |
| `schema_store` | 2 schemas, 2 tables, 2 columns, 1 relationship, 2 requests, any rows before | 19,804 | foreign keys, versions, place of relationships, independence of schemas, what replace leaves |
| `migration_jobs` | 2 tables, 1 relationship per schema, 2 requests, both dialects | 5,072,606 | all or nothing on PostgreSQL, what is left of it on MySQL, no forgotten row |
| `migration_scripts` | 2 tables, 2 relationships, 1 request, both dialects, any database | 302,140 | the replace script, run as a whole, rebuilds; the safe one only adds |
| `migration_executed` | 2 tables, 1 request | violation | finding 2 |

Why the bounds are enough. Jobs share nothing but the workers, and a process
that is busy with another job is one that does not take this one; so one job
meets every interleaving, and the proofs cover any number. Two processes are the
least with which a stalled job is run twice at once, and with which a client is
connected to the wrong one; `maxStalledCount` has the value of the code. One
cancel meets every await of start and worker; that more of them agree is left to
the theorems. `job_feed` leaves the cancel out, which emits no verdict, and both
runs with liveness the updates of progress between two tables, which
`generation_faults` has; the theorems leave out neither. Three requests on a connection are
a test, a change and a second test or a deletion. Two pairs are an old and a new
one, four requests the sign-in that made the first, the refresh that makes the
second, a sign-out and one that uses either; the clock runs to past the end of
both tokens of the first pair, 4 > 3. Of the lifetimes one is read as it is and
one as a shorter one, in any combination of the two kinds of token. Three requests on accounts are two
forgotten passwords and a reset, or two resets or changes that overlap and a
third that begins between; of three e-mails two are the same in lower case.

The sort on three tables and three relationships has chains, double keys,
cycles with a tail and self-references, and a fourth table of another schema at
either end of any of them; three rows are a value, its repetition and one more,
and a suffix may turn a draw into another draw or two draws into one value. In
`schema_store` the two schemas begin with any rows that the foreign keys allow,
which stands for whatever requests came before; two requests overlap in every
way, and a relationship needs two tables and two columns. Longer histories of
it are the theorems'.

Two migrations are one that works and one that interferes; with one relationship
each they reject each other's constraints, drops and creations, on an empty
database and on one where a script was run by hand. Two relationships give
repeated indexes, cycles, and a written foreign key beside one that is left out;
that run starts from every database with the tables, which stands for whatever
other jobs left there. Symmetry sets are the identifiers, all interchangeable;
the runs with liveness, `generation_liveness` and `job_feed`, use none.

Deadlock. `data_generator` checks for it: sort and generator stop only when they
are done or threw (`GenStop`). The services are idle when every request was
answered, so their runs switch the check off; that nobody waits in vain is
`PromiseKept` and `SubscriberHears` for generation jobs and `RunningIsServed`
for migrations.

Fairness (`FairSpec` of `GenerationJobs`, `FeedFairness` of `JobFeed`): weak
fairness of every handler and run that was begun (a promise of Node and of the
databases' answers, which have no timeout of their own in `executeSql`: a call
that never returns is outside the claim), of `Take` (an idle BullMQ worker
fetches waiting jobs) and of the stalled check, which BullMQ repeats on a timer.
Requests, crashes, faults, expired locks and deletions are not obliged to
happen, and neither is anything a client does.

Every property of a passing run is accompanied by a mutant of the code under
which the same run finds it violated; PROJECT.json pairs them.

## 5. Findings

1. **A refresh token can be used twice** (`sessions_once`, `RefreshOnce`).
   `consumeRefreshToken` is a GET and a DEL (redis/redis.service.ts:62, :64), where
   its comment says one round trip and its caller says atomic. What holds instead
   is `SpentRefused`: once deleted, the key never comes back, so no *later*
   refresh finds it.
2. **A migration of a MySQL database creates no table and is reported
   completed** (`migration_executed`, `CompletedExecuted`). The driver drops every
   piece of the script that begins with a comment
   (connections/drivers/mysql.driver.ts:30), and the builder puts one before each
   CREATE TABLE. `CompletedSent` is what holds instead; on PostgreSQL
   `CompletedExecuted` itself holds (theorem `PostgresCompletes`).

Found while reading; each is in a model as the code has it, or left out as
section 7 says:
- `cancel` writes 'cancelled' without looking at the status again
  (generation/generation.service.ts:158) and the worker's patches do not look
  either: a cancelled job may still run and complete. Cancel emits no event.
- `completed` is emitted and logged inside the try block
  (generation/generation.processor.ts:135-136): an exception there goes to the
  catch clause, which turns the completed job to failed after its subscribers
  heard "completed". `VerdictStands` says what holds: a verdict is heard when the
  row is settled and not before, and after "failed" the row never says completed.
- `formatSQL` begins each INSERT with a comment, so a direct seed of a MySQL
  database commits nothing and is reported completed; `CommitScript` says so, and
  `CompletedIsSeeded` is stated for PostgreSQL for that reason.
- The MySQL driver runs its statements "inside one transaction"
  (mysql.driver.ts:26), but DDL commits by itself; `PostgresIsClean` is stated for
  PostgreSQL for that reason.
- A connection test writes its outcome by id alone
  (connections/connections.service.ts:142): credentials stored meanwhile are
  marked by a test of the old ones. `StatusOfLogin` says what holds.
- The sort returns `undefined` for the source of a relationship that is in
  another schema (`tableMap.get(id)!`, sql-builder/topo-sort.ts:36); builders and
  worker then throw.
- "Full replace" (schemas/schemas.controller.ts:58) never deletes a column that is
  no longer sent, and leaves a row whose id is elsewhere where it is
  (schemas/schemas.service.ts:112-171). `ReplaceReadsBack` says what
  holds, the columns that were left out included.
- The version of a schema is not bumped by a new name or description
  (schemas/schemas.service.ts:79-88), which every reader is given, and not that of
  another schema that a cascade or a column id reaches into. `AnsweredIsCounted`
  excepts the first by name (`renames`) and speaks of the request's own schema.
- The suffix of `ensureUnique` is said to guarantee uniqueness
  (generation/faker/faker.engine.ts:159) and is compared with nothing;
  `UniqueUnlessForced` says what holds.
- A profile update stores the e-mail as typed (users/users.service.ts:32), lookups
  use the lower case. A sign-up may fail after its insert, with the account made.
- A script of mode safe adds its constraints unconditionally and fails when it is
  run twice. `SafeOnlyAdds` holds all the same.
- `database/seed.ts:112-145` stores its relationships from parent to child, the
  opposite of what the sort and the builders read.
- The guard does not look at a token's `type`
  (auth/strategies/jwt.strategy.ts:38-50): a refresh token passes as a bearer
  token, also after it was consumed or revoked, since only `bl:<jti>` is asked
  for. Whoever signs out with one (auth/auth.service.ts:77-82) leaves `rt:<jti>`,
  so it still refreshes, and its entry lives only as long as an access token: it
  passes the guard again after that. `SpentRefused` is about refreshing for that
  reason, and `SignedOutRefused` about an access token's life.
- `JWT_EXPIRES_IN` may be given in a form the token library understands and
  `parseDurationToSeconds` does not ("1w"); then keys live 900 seconds, and a
  signed-out access token passes again after that. `SignedOutRefused` and
  `RefusedForCause` hold for such lifetimes too, and count in the server's
  reading of them; theorem `SignOutIsFinal` says when that is enough.
- Resets and changes of password that overlap all succeed, and the one written
  last stays (auth/auth.service.ts:188, :211), also over one that was answered
  before it wrote. `ReplacedStaysOut` says what holds: none of the passwords from
  before an answered request comes back.

## 6. Theorems

All proofs are checked by TLAPS for every value of the constants that satisfies
the assumptions. `BoundsAssumption`: the bounds are natural numbers;
in `MigrationJobs` also that tables are finitely many and that what the user left
is a database.
`DialectAssumption`: one of the two dialects. `LifeAssumption`: lifetimes and
the parser's default are positive; nothing is assumed of which the parser reads.
`ValuesAssumption`: what a provider draws are values. `FiniteAssumption`: tables and relationships are finite
sets, strangers are not tables. `RequestsAssumption`: finitely many requests.
`LowerAssumption`: lower case of lower case is itself. `EndsAssumption`: ends are
tables and columns. `UndefinedAssumption`, `NoneAssumption`: undefined and None
are no id and no row.

| Module | Theorems | Argument |
|---|---|---|
| `GenerationJobs_proofs` | `TypeCorrect`, `NobodyForgetsAJob`, `NoDoubleSeeding`, `CompletionIsSeeded`, `AnnouncementIsBacked`, `VerdictsStand`, `SettledRowsStay`, `ImplementsPromise` | see below |
| `JobFeed_proofs` | `FeedKeepsJobs`, `ClientCorrect`, `SubscribersLearn` | see below |
| `DataGenerator_proofs` | of the sort: `TypeCorrect`, `SortedAfterParents`, `NothingLostOrRepeated`, `LeftoversHaveCause`; of the generator: `GeneratorSorts`, `GeneratorOrder`, `MissesHaveCause`, `NoRepeatUnlessForced`, `RankedScriptInserts` | see below |
| `Connections_proofs` | `TypeCorrect`, `StatusSpeaksOfLogin`, `NoResurrection` | a test that no update overtook holds the stored login (`SnapshotCurrent`) |
| `Sessions_proofs` | `TypeCorrect`, `SpentStaysSpent`, `SignOutHolds`, `SignOutIsFinal`, `RefusalHasCause` | a pair is stored by one handler only, before anyone has seen it (`Private`), so nothing sets a deleted key again; each entry lasts as long as the server takes its token to live (`Blocked`, `Kept`), counted from a time that is not before its signature (`SignedBefore`) |
| `Accounts_proofs` | `TypeCorrect`, `EmailsStayUnique`, `ResetSpends`, `SupersededStaysRefused`, `ReplacedPasswordsStayOut` | rows stay and tokens only lose their worth, so what one request knows outlives the steps of others: which of its updates landed (`Landed`), which tokens its deletion refused (`Purged`), which passwords are still to be stored and so never were (`Fresh`), what stands in place of those before it (`Replaced`) |
| `SchemaStore_proofs` | `TypeCorrect`, `NothingDangles`, `ChangesAreCounted`, `RelationshipsStayValid`, `ValidSchemasStandAlone`, `SavedReadsBack` | see below |
| `MigrationJobs_proofs` | of the jobs: `NobodyForgetsAMigration`, `CompletionIsSent`, `PostgresCompletes`, `PostgresFailsClean`; of the scripts: `TypeCorrect`, `ReplaceIsExact`, `SafeTakesNothing`, `MysqlMakesNoTable`; of both: `PostgresReplacesExactly`, `ReplaceFailsForCause` | see below |

`GenerationJobs`. The properties are not inductive on their own. No double
seeding needs that no two processes are in the *same* attempt, also while an
expired lock has put both in `process()` (`AttemptsDistinct`), and that a run
before its `executeSql` has committed nothing (`SeedKnown`). That completed jobs
are seeded needs the same knowledge at `patchCompleted`. The verdicts need what
a first attempt has announced at each of its awaits, and what the row says by
then (`VerdictKnown`), and that an announced export is stored (`ExportKnown`). `SomeoneResponsible` is inductive once `Untouched` says that
nothing precedes the enqueuing. The implementation of `JobPromise` adds `Born`
(a row exists exactly from the insert on) and `Unblamed` (only existing jobs are
lost); then every step maps to a step of `JobPromise` or a stutter.

`JobFeed`. Every step of jobs and client together is a step of the jobs or none
of theirs (`FeedKeepsJobs`), so the invariant of the jobs holds beside clients.
`SubscriberLearns` speaks of jobs at rest; the invariant behind it (`Settling`)
follows a verdict from the write of the row to its emission: a verdict in the
row that the subscriber has not heard is about to be said by the run that wrote
it (`Says`), or was missed; a run that ends without saying it leaves it to those
it did not reach (`EndsUnsaid`).

`SchemaStore`. `WithoutKeeps` says that taking rows away with all that refers to
them leaves no foreign key dangling and no relationship out of place; additions
are accepted by `Consistent` only. `Replacing` describes what a replace makes of
each kind of row, in one statement from which its place (`ReplacePlaces`) and
its answer (`ReplacingReadsBack`) both follow. `Counted` is inductive with
`Clean`: a schema that is not there has no rows, so no request has changed it
unseen. The versions are bounded by counting the requests that may have bumped
one (`Bumpers`).

`DataGenerator`. The sort: `inDegree` counts the keys not ticked off (`Counted`),
counted with `Cardinality`; a table is queued or out exactly when it has none
(`Ready`), and never twice (`Distinct`). Every step of the generator is a step of
the sort or leaves it alone (`GeneratorSorts`), so all this holds of what the
generator goes by. Its own invariant, `GenIInv`, says of every key of a table
that was generated which way it went, by what was generated before it (`Keyed`,
`KeyedAt`), that the tables sorted are a beginning of the result (`Prefixed`), and
that the generator does not begin before the sort returned (`Started`). A key of
a sorted table then finds its parent's rows (`SortedFound`), which is
`MissHasCause`. `ScriptInserts` is about schemas whose relationships have a rank
(`Rankings`, of at most as many values as there are tables): if any of their
tables were left over, one of least rank would be, and `LeftoversBlocked` has a
parent of it left over too (`RankedAllSorted`).

`MigrationJobs`, the jobs: the row and the handler's place determine each other
(`RowTells`), the loop counts what was accepted (`Counted`), a commit that was
heard of is not reported as failed (`Committed`). Nothing is used there of the
scripts, so these theorems hold for any builder.

`MigrationJobs`, the scripts: `Final` is what a sequence of lines makes of a
session, and that of two sequences one after the other is the second's of the
first's (`FinalConcat`). So a replace script is followed section by section: the
drops leave the database without the schema's tables and what belongs to them
(`DropPhaseRun`: on PostgreSQL by CASCADE, on MySQL with the checks off); then
none of the tables is there to refuse its creation (`CreatePhaseRun`), no foreign
key stands at a column that gets one, as long as names are distinct
(`FkSection`), no index of these tables is left and none is written twice
(`IndexSection`). `ReplaceRun` puts them together and `Replaced` states the
result; `ReplaceIsExact` says it of whatever the other jobs have made of the
database by then, which needs the types of the database only (`TypeCorrect`). A
safe script consists of lines that take nothing away (`Gentle`), and so does
every part of it that is sent. For MySQL, every CREATE TABLE stands behind a
comment (`BuildHeaded`) and is in no piece that is sent (`MysqlSendsOthers`):
`MysqlMakesNoTable` is finding 2 for every schema. On PostgreSQL, comments do
nothing, and what is sent does what the script does (`StatementsRun`): a
replacing job makes exactly the schema of the database (`PostgresReplacesExactly`)
and is never refused by it, so `ReplaceFailsForCause`. On MySQL the latter is
false, since a foreign key without its table is refused.

Scripts have any length and schemas any number of tables. The library's
induction theorems take the statement as an operator, which the provers cannot
instantiate; here it is a set of numbers instead, and what the library proves of
well-founded orders (`NatLessThanWellFounded`, `WFMin`) gives a least number
where it fails (`LeastNumber`, `Induction`).

Only model-checked: the liveness properties (`PromiseKept`'s `Settles`,
`SubscriberHears`), since liveness under fairness is out of the prover's reach;
and the violations, which are counterexamples.

## 7. What is not modelled

Left out for good: encryption (a library's round trip, no state), e-mail (one
call that writes to the log), health check, framework glue, and the seed script,
which runs alone. Read-only operations (list, get, export, preview, probe,
reveal) have no action: they change nothing; of `validate` only the relationship
errors are kept. In `SchemaStore` the contents of names, descriptions,
types and positions are left out, and owners:
a request that is not the owner's fails at `AssertOwnership` like one on a
schema that is gone. In `DataGenerator` values are what the faker library
returns; literals and CSV are formatting, and that a unique foreign key is drawn
with repetition (faker.engine.ts:86) is not looked at. In `Accounts` the tokens
a sign-up ends with are `Sessions`. In the scripts, the types, defaults and key
constraints of columns are left out, a foreign key is taken to refer to a key
column of its own type (where it does not, the database's refusal is a
`Reject`), and names are never truncated.
