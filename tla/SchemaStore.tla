----------------------------- MODULE SchemaStore -----------------------------
(***************************************************************************)
(* The schema store (schemas/schemas.service.ts): schemas, their tables,    *)
(* columns and relationships, and the version of each schema.  A handler    *)
(* reads the schema's owner, changes rows, bumps the version and reads the  *)
(* schema back, four calls with nothing to tie them; replace, which the     *)
(* designer's auto-save calls, does its changes in one transaction.         *)
(*                                                                         *)
(* Data: names, types and positions are left out.  That a row of a schema   *)
(* was written without a change of its place shows in dirty.  Versions are  *)
(* counted from the start of the behaviour.                                 *)
(***************************************************************************)
EXTENDS Integers, FiniteSets

CONSTANTS
  Schemas, Tables, Columns, Rels,  \* ids of rows
  Ends,                            \* ends a relationship may be given
  Requests,                        \* each makes one call of the API
  None

Place == [source : Tables, sourceColumn : Columns, target : Tables, targetColumn : Columns]

ASSUME EndsAssumption == Ends \subseteq Place

ASSUME NoneAssumption == None \notin Schemas \cup Tables \cup [schema : Schemas, ends : Ends]

ASSUME RequestsAssumption == IsFiniteSet(Requests)

VARIABLES
  db,        \* the rows: version of each schema, and where each other row belongs
  request,   \* the handlers
  dirty,     \* history: who changed the schema since its version changed
  misplaced  \* history: has a request put an id where it does not belong?

vars == <<db, request, dirty, misplaced>>

-----------------------------------------------------------------------------
(* The rows *)

Unborn  == 0
Deleted == -1

Relationship == [schema : Schemas, ends : Ends]

Exists(d, s) == d.version[s] > 0

\* Every foreign key of tables, columns and relationships finds its row.  A
\* statement that would leave one dangling is rejected.
Consistent(d) ==
  /\ \A t \in Tables : d.tables[t] # None => Exists(d, d.tables[t])
  /\ \A c \in Columns : d.columns[c] # None => d.tables[d.columns[c]] # None
  /\ \A q \in Rels : d.rels[q] # None =>
       LET e == d.rels[q].ends IN
       /\ Exists(d, d.rels[q].schema)
       /\ d.tables[e.source] # None /\ d.tables[e.target] # None
       /\ d.columns[e.sourceColumn] # None /\ d.columns[e.targetColumn] # None

\* Mutant: the foreign key of the target column does not cascade.
RefersToSource(e, T, C) == {e.source, e.target} \cap T # {} \/ e.sourceColumn \in C

RefersTo(e, T, C) ==
  {e.source, e.target} \cap T # {} \/ {e.sourceColumn, e.targetColumn} \cap C # {}

\* Deletes tables T and columns C; columns and relationships follow.
Without(d, T, C) ==
  LET gone == C \cup {c \in Columns : d.columns[c] \in T} IN
  [d EXCEPT
     !.tables  = [t \in Tables |-> IF t \in T THEN None ELSE d.tables[t]],
     !.columns = [c \in Columns |-> IF c \in gone THEN None ELSE d.columns[c]],
     !.rels    = [q \in Rels |-> IF d.rels[q] # None /\ RefersTo(d.rels[q].ends, T, gone)
                                 THEN None ELSE d.rels[q]]]

WithoutRels(d, Q) ==
  [d EXCEPT !.rels = [q \in Rels |-> IF q \in Q THEN None ELSE d.rels[q]]]

TablesOf(d, s) == {t \in Tables : d.tables[t] = s}

\* The schema a relationship, a column is in.
Owner(d, q) == IF d.rels[q] = None THEN None ELSE d.rels[q].schema

RelsOf(d, s) == {q \in Rels : Owner(d, q) = s}

Home(d, c) == IF d.columns[c] = None THEN None ELSE d.tables[d.columns[c]]

\* What a reader of schema s sees of the place of its rows.
Part(d, s) ==
  <<TablesOf(d, s), [c \in {b \in Columns : Home(d, b) = s} |-> d.columns[c]],
    [q \in RelsOf(d, s) |-> d.rels[q].ends]>>

\* Both ends are columns of tables of s, in the tables the relationship says.
Placed(d, s, e) ==
  /\ d.tables[e.source] = s /\ d.columns[e.sourceColumn] = e.source
  /\ d.tables[e.target] = s /\ d.columns[e.targetColumn] = e.target

\* The relationships validate reports as errors.
RelationshipErrors(s) == {q \in RelsOf(db, s) : ~ Placed(db, s, db.rels[q].ends)}

-----------------------------------------------------------------------------
\* renames: it has written the name and description of its schema by themselves.
Handler == [at : {"idle", "owned", "changed", "reading", "answered", "failed"},
            schema : Schemas \cup {None}, renames : BOOLEAN]

\* What earlier requests left: any rows whose foreign keys hold.
Databases ==
  {d \in [version : [Schemas -> {Unborn, 1}], tables : [Tables -> Schemas \cup {None}],
          columns : [Columns -> Tables \cup {None}], rels : [Rels -> Relationship \cup {None}]] :
     Consistent(d)}

Init ==
  /\ db \in Databases
  /\ request = [r \in Requests |-> [at |-> "idle", schema |-> None, renames |-> FALSE]]
  /\ dirty = [s \in Schemas |-> {}]
  /\ misplaced = \E s \in Schemas : RelationshipErrors(s) # {}

\* The rows become d by request r, which also wrote rows of the schemas touched.
Write(r, d, touched) ==
  /\ db' = d
  /\ dirty' = [s \in Schemas |->
                 IF d.version[s] # db.version[s] THEN {}
                 ELSE IF s \in touched \/ Part(d, s) # Part(db, s) THEN dirty[s] \cup {r}
                 ELSE dirty[s]]

At(r, s, at) ==
  request' = [request EXCEPT ![r] = [at |-> at, schema |-> s, renames |-> @.renames]]

\* create: the row begins with version 1, its default.
Create(r, s) ==
  /\ request[r].at = "idle" /\ db.version[s] = Unborn
  /\ Write(r, [db EXCEPT !.version[s] = 1], {})
  /\ At(r, s, "reading")
  /\ UNCHANGED misplaced

\* assertOwnership: the schema must be there, and be the caller's.
AssertOwnership(r, s) ==
  /\ request[r].at = "idle"
  /\ \/ Exists(db, s) /\ At(r, s, "owned")
     \/ At(r, s, "failed")
  /\ UNCHANGED <<db, dirty, misplaced>>

Owned(r) == request[r].at = "owned"

\* A change by request r, which goes on at `at'; misplaces says whether it names
\* an id out of place.
Change(r, d, touched, misplaces, at) ==
  /\ Write(r, d, touched)
  /\ At(r, request[r].schema, at)
  /\ misplaced' = (misplaced \/ misplaces)

\* Name and description only, of which the version takes no notice.
Update(r) ==
  LET s == request[r].schema IN
  /\ Owned(r)
  /\ Write(r, db, {x \in {s} : Exists(db, x)})
  /\ request' = [request EXCEPT ![r] = [at |-> "reading", schema |-> s, renames |-> TRUE]]
  /\ UNCHANGED misplaced

DeleteSchema(r) ==
  LET s == request[r].schema
      rowless == WithoutRels(Without(db, TablesOf(db, s), {}), RelsOf(db, s)) IN
  /\ Owned(r)
  /\ Change(r, IF Exists(db, s) THEN [rowless EXCEPT !.version[s] = Deleted] ELSE db,
            {}, FALSE, "answered")

AddTable(r, t) ==
  LET d == [db EXCEPT !.tables[t] = request[r].schema] IN
  /\ Owned(r) /\ db.tables[t] = None /\ Consistent(d)
  /\ Change(r, d, {}, FALSE, "changed")

\* Does a request on schema s name a row of another one?
Elsewhere(place, s) == place \notin {s, None}

UpdateTable(r, t) ==
  LET s == request[r].schema IN
  /\ Owned(r)
  /\ Change(r, db, {db.tables[t]} \cap {s}, Elsewhere(db.tables[t], s), "changed")

\* Mutant: the table is named by its id alone.
DeleteTableAny(r, t) ==
  /\ Owned(r)
  /\ Change(r, Without(db, {t}, {}), {}, Elsewhere(db.tables[t], request[r].schema), "changed")

DeleteTable(r, t) ==
  LET s == request[r].schema IN
  /\ Owned(r)
  /\ Change(r, Without(db, {t} \cap TablesOf(db, s), {}), {}, Elsewhere(db.tables[t], s), "changed")

AddColumn(r, c, t) ==
  LET d == [db EXCEPT !.columns[c] = t] IN
  /\ Owned(r) /\ db.columns[c] = None /\ Consistent(d)
  /\ Change(r, d, {}, Elsewhere(db.tables[t], request[r].schema), "changed")

\* Columns are named by their id alone.
UpdateColumn(r, c) ==
  /\ Owned(r)
  /\ Change(r, db, {Home(db, c)} \cap Schemas, Elsewhere(Home(db, c), request[r].schema), "changed")

DeleteColumn(r, c) ==
  /\ Owned(r)
  /\ Change(r, Without(db, {}, {c}), {}, Elsewhere(Home(db, c), request[r].schema), "changed")

AddRelationship(r, q, e) ==
  LET s == request[r].schema
      d == [db EXCEPT !.rels[q] = [schema |-> s, ends |-> e]] IN
  /\ Owned(r) /\ db.rels[q] = None /\ Consistent(d)
  /\ Change(r, d, {}, ~ Placed(db, s, e), "changed")

\* Its new ends are e, whichever of them the request names.
UpdateRelationship(r, q, e) ==
  LET s == request[r].schema
      d == IF q \in RelsOf(db, s) THEN [db EXCEPT !.rels[q].ends = e] ELSE db IN
  /\ Owned(r) /\ Consistent(d)
  /\ Change(r, d, {Owner(db, q)} \cap {s}, Owner(db, q) = s /\ ~ Placed(db, s, e), "changed")

DeleteRelationship(r, q) ==
  /\ Owned(r)
  /\ Change(r, WithoutRels(db, {q} \cap RelsOf(db, request[r].schema)), {}, FALSE, "changed")

-----------------------------------------------------------------------------
(* replace *)

\* The document the designer saves: its tables, the table of each of its columns,
\* the ends of each of its relationships.
Documents ==
  {doc \in [tables : SUBSET Tables, columns : UNION {[C -> Tables] : C \in SUBSET Columns},
            rels : UNION {[Q -> Ends] : Q \in SUBSET Rels}] :
     \A c \in DOMAIN doc.columns : doc.columns[c] \in doc.tables}

\* An id that has a row keeps its place: the conflict clauses set other fields.
MergeTables(d, s, doc) ==
  [d EXCEPT !.tables = [t \in Tables |-> IF t \in doc.tables /\ d.tables[t] = None
                                         THEN s ELSE d.tables[t]]]

MergeColumns(d, doc) ==
  [d EXCEPT !.columns = [c \in Columns |-> IF c \in DOMAIN doc.columns /\ d.columns[c] = None
                                           THEN doc.columns[c] ELSE d.columns[c]]]

\* Mutant: the conflict clause forgets the columns.
MergeRelsTablesOnly(d, s, doc) ==
  [d EXCEPT !.rels =
     [q \in Rels |->
        IF q \notin DOMAIN doc.rels THEN d.rels[q]
        ELSE IF d.rels[q] = None THEN [schema |-> s, ends |-> doc.rels[q]]
        ELSE [d.rels[q] EXCEPT !.ends.source = doc.rels[q].source,
                               !.ends.target = doc.rels[q].target]]]

\* A relationship keeps its schema and gets the ends sent.
MergeRels(d, s, doc) ==
  [d EXCEPT !.rels =
     [q \in Rels |->
        IF q \notin DOMAIN doc.rels THEN d.rels[q]
        ELSE IF d.rels[q] = None THEN [schema |-> s, ends |-> doc.rels[q]]
        ELSE [d.rels[q] EXCEPT !.ends = doc.rels[q]]]]

\* The tables are merged and those no longer sent are deleted ...
WithTables(d, s, doc) ==
  LET merged == MergeTables(d, s, doc) IN
  Without(merged, TablesOf(merged, s) \ doc.tables, {})

\* Mutant: the removed relationships stay.
MergedRelsStay(d, s, doc) ==
  MergeRels(MergeColumns(WithTables(d, s, doc), doc), s, doc)

\* ... then columns and relationships are merged, and relationships no longer
\* sent are deleted.
Merged(d, s, doc) ==
  LET merged == MergeRels(MergeColumns(WithTables(d, s, doc), doc), s, doc) IN
  WithoutRels(merged, RelsOf(merged, s) \ DOMAIN doc.rels)

\* Ends within the document.
Drawn(doc, e) ==
  /\ {e.source, e.target} \subseteq doc.tables
  /\ {e.sourceColumn, e.targetColumn} \subseteq DOMAIN doc.columns
  /\ doc.columns[e.sourceColumn] = e.source /\ doc.columns[e.targetColumn] = e.target

\* The document names a row that belongs elsewhere (a column moved from a table
\* that stays is one), or a relationship between things not in it.
Misplaces(d, s, doc) ==
  \/ \E t \in doc.tables : Elsewhere(d.tables[t], s)
  \/ \E c \in DOMAIN doc.columns : Elsewhere(WithTables(d, s, doc).columns[c], doc.columns[c])
  \/ \E q \in DOMAIN doc.rels : ~ Drawn(doc, doc.rels[q]) \/ Elsewhere(Owner(d, q), s)

\* The schemas with rows the document names.
Named(d, doc) ==
  {d.tables[t] : t \in doc.tables} \cup {Home(d, c) : c \in DOMAIN doc.columns}
    \cup {Owner(d, q) : q \in DOMAIN doc.rels}

\* Mutant: the version is bumped once more.
ReplaceBumped(r, doc) ==
  LET s == request[r].schema
      merged == Merged(db, s, doc)
      d == IF Exists(db, s) THEN [merged EXCEPT !.version[s] = @ + 1] ELSE merged IN
  /\ Owned(r) /\ Consistent(d)
  /\ Change(r, d, Named(db, doc), Misplaces(db, s, doc), "changed")

Replace(r, doc) ==
  LET s == request[r].schema
      merged == Merged(db, s, doc)
      d == IF Exists(db, s) THEN [merged EXCEPT !.version[s] = @ + 1] ELSE merged IN
  /\ Owned(r) /\ Consistent(d)
  /\ Change(r, d, Named(db, doc), Misplaces(db, s, doc), "reading")

-----------------------------------------------------------------------------
\* Mutant: the version is left to replace.
BumpVersionNot(r) ==
  /\ request[r].at = "changed"
  /\ At(r, request[r].schema, "reading")
  /\ UNCHANGED <<db, dirty, misplaced>>

BumpVersion(r) ==
  LET s == request[r].schema IN
  /\ request[r].at = "changed"
  /\ Write(r, IF Exists(db, s) THEN [db EXCEPT !.version[s] = @ + 1] ELSE db, {})
  /\ At(r, s, "reading")
  /\ UNCHANGED misplaced

BuildFullSchema(r) ==
  LET s == request[r].schema IN
  /\ request[r].at = "reading"
  /\ At(r, s, IF Exists(db, s) THEN "answered" ELSE "failed")
  /\ UNCHANGED <<db, dirty, misplaced>>

\* A call is rejected (by a foreign key, for one), or the process dies.
Abandon(r) ==
  /\ request[r].at \in {"owned", "changed", "reading"}
  /\ At(r, request[r].schema, "failed")
  /\ UNCHANGED <<db, dirty, misplaced>>

TableStep(r) ==
  \E t \in Tables : AddTable(r, t) \/ UpdateTable(r, t) \/ DeleteTable(r, t)

ColumnStep(r) ==
  \E c \in Columns : \/ \E t \in Tables : AddColumn(r, c, t)
                     \/ UpdateColumn(r, c) \/ DeleteColumn(r, c)

RelationshipStep(r) ==
  \E q \in Rels : \/ \E e \in Ends : AddRelationship(r, q, e) \/ UpdateRelationship(r, q, e)
                  \/ DeleteRelationship(r, q)

SchemaStep(r) ==
  \/ \E s \in Schemas : Create(r, s) \/ AssertOwnership(r, s)
  \/ Update(r) \/ DeleteSchema(r)
  \/ \E doc \in Documents : Replace(r, doc)

Next ==
  \E r \in Requests :
    \/ SchemaStep(r) \/ TableStep(r) \/ ColumnStep(r) \/ RelationshipStep(r)
    \/ BumpVersion(r) \/ BuildFullSchema(r) \/ Abandon(r)

Spec == Init /\ [][Next]_vars

-----------------------------------------------------------------------------
(* Properties *)

\* Every variable has its type; a request bumps a version at most once.
TypeOK ==
  /\ db \in [version : [Schemas -> Deleted..(1 + Cardinality(Requests))],
             tables : [Tables -> Schemas \cup {None}], columns : [Columns -> Tables \cup {None}],
             rels : [Rels -> Relationship \cup {None}]]
  /\ request \in [Requests -> Handler]
  /\ dirty \in [Schemas -> SUBSET Requests]
  /\ misplaced \in BOOLEAN

\* Whatever is deleted in whatever order, with replace in between, no row is left
\* without the rows it refers to.
NoDangling == Consistent(db)

\* Once a request that changed tables, columns or relationships of its schema is
\* answered, its change is behind a new version, whatever other requests do in
\* between.  What is not behind one, so that two readers of the same version may
\* see it differently: a change not yet bumped or cut off before the bump, the
\* name and description written by update, and what a request on another schema
\* did to the rows of this one.
AnsweredIsCounted ==
  \A s \in Schemas : \A r \in dirty[s] :
    request[r].schema = s => request[r].at \in {"changed", "failed"} \/ request[r].renames

\* As long as every request puts ids where they belong, validate finds no
\* relationship out of place, in any schema, also when requests overlap and
\* replace brings back what another request deleted.
RelationsValid == ~ misplaced => \A s \in Schemas : RelationshipErrors(s) = {}

\* A schema without relationship errors keeps its rows when another schema or a
\* table of another schema is deleted.
ValidStandsAlone ==
  [][\A r \in Requests, s \in Schemas :
       /\ Owned(r) /\ request[r].schema # s /\ RelationshipErrors(s) = {}
       /\ DeleteSchema(r) \/ \E t \in Tables : DeleteTable(r, t)
       => Part(db', s) = Part(db, s)]_vars

\* Columns no longer sent go with their table only: those of tables sent stay.
Unsent(d, doc) == {c \in Columns \ DOMAIN doc.columns : d.columns[c] \in doc.tables}

\* After a replace of rows d with a document that puts ids where they belong,
\* the schema has the tables and relationships sent and no others, every column
\* sent is in the table it was sent in, and the only other columns are those the
\* document no longer sends for a table it does send, where they were.
ReadsBack(d, after, s, doc) ==
  /\ TablesOf(after, s) = doc.tables
  /\ RelsOf(after, s) = DOMAIN doc.rels
  /\ \A q \in RelsOf(after, s) : after.rels[q].ends = doc.rels[q]
  /\ {c \in Columns : Home(after, c) = s} = DOMAIN doc.columns \cup Unsent(d, doc)
  /\ \A c \in DOMAIN doc.columns : after.columns[c] = doc.columns[c]
  /\ \A c \in Unsent(d, doc) : after.columns[c] = d.columns[c]

Saves(r, doc) ==
  /\ Owned(r) /\ request'[r].at = "reading"
  /\ ~ Misplaces(db, request[r].schema, doc) /\ Replace(r, doc)

ReplaceReadsBack ==
  [][\A r \in Requests : \A doc \in Documents :
       Saves(r, doc) => ReadsBack(db, db', request[r].schema, doc)]_vars
=============================================================================
