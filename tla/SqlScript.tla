------------------------------ MODULE SqlScript ------------------------------
(***************************************************************************)
(* The SQL scripts of migrations: what buildPostgresSQL and buildMysqlSQL  *)
(* write for a schema, which statements of it the drivers' executeSql      *)
(* sends, and what these do to the user's database.                        *)
(*                                                                         *)
(* Data: a script is a sequence of lines, each a comment or a statement.   *)
(* Blank lines are left out (executeSql trims), and so are the columns of  *)
(* a table but those that hold foreign keys.  Foreign keys are taken to    *)
(* refer to key columns of their own type; constraint and index names are  *)
(* the pair (table, column) they are made from, none of them truncated.    *)
(***************************************************************************)
EXTENDS Naturals, Sequences, FiniteSets, SequencesExt

CONSTANTS
  Tables,   \* names of tables
  Columns   \* names of columns that hold foreign keys

Dialect == {"postgresql", "mysql"}
Mode    == {"safe", "replace"}

Relationship == [source : Tables, column : Columns, target : Tables]

\* The elements of sequence s at the places I.
Kept(s, I) ==
  LET kept[n \in 0..Len(s)] ==
        IF n = 0 THEN <<>>
        ELSE IF n \in I THEN Append(kept[n - 1], s[n])
        ELSE kept[n - 1]
  IN  kept[Len(s)]

-----------------------------------------------------------------------------
(* Lines.  A schema has its tables in the order of the sort, and its       *)
(* relationships in the order of their rows.                               *)

Comment         == [kind |-> "comment"]
Checks(on)      == [kind |-> "checks", on |-> on]
Drop(t)         == [kind |-> "drop", table |-> t]
CreateTable(t, mode) == [kind |-> "create", table |-> t, ifNotExists |-> mode = "safe"]
ForeignKey(r)   == [kind |-> "fk", rel |-> r]
Index(r)        == [kind |-> "index", on |-> <<r.source, r.column>>]

IsStatement(line) == line.kind # "comment"

\* buildFkConstraint() is null unless both tables are in the schema.
FkLines(schema) ==
  LET known == {i \in DOMAIN schema.rels :
                  {schema.rels[i].source, schema.rels[i].target} \subseteq ToSet(schema.order)}
      rels  == Kept(schema.rels, known)
  IN  [i \in DOMAIN rels |-> ForeignKey(rels[i])]

\* Mutant: a column with two relationships gets its index twice.
IndexLinesRepeated(schema) == [i \in DOMAIN schema.rels |-> Index(schema.rels[i])]

IndexLines(schema) ==
  LET lines == [i \in DOMAIN schema.rels |-> Index(schema.rels[i])]
  IN  Kept(lines, {i \in DOMAIN lines : \A k \in 1..(i - 1) : lines[k] # lines[i]})

Section(lines) == IF lines = <<>> THEN <<>> ELSE <<Comment>> \o lines

\* Mutant: tables are dropped in both modes.
DropPhaseAlways(dialect, schema, mode) ==
  <<Checks(FALSE), Comment>> \o [i \in DOMAIN schema.order |-> Drop(Reverse(schema.order)[i])]
    \o <<Checks(TRUE)>>

DropPhase(dialect, schema, mode) ==
  LET drops == [i \in DOMAIN schema.order |-> Drop(Reverse(schema.order)[i])]
  IN  IF mode = "safe" THEN <<>>
      ELSE IF dialect = "postgresql" THEN <<Comment>> \o drops
      ELSE <<Checks(FALSE), Comment>> \o drops \o <<Checks(TRUE)>>

CreatePhase(schema, mode) ==
  <<Comment>> \o [i \in 1..(2 * Len(schema.order)) |->
                    IF i % 2 = 1 THEN Comment ELSE CreateTable(schema.order[i \div 2], mode)]

Build(dialect, schema, mode) ==
  <<Comment>> \o DropPhase(dialect, schema, mode) \o CreatePhase(schema, mode)
    \o Section(FkLines(schema)) \o Section(IndexLines(schema))

-----------------------------------------------------------------------------
(* The drivers. *)

Statements(script) == Kept(script, {i \in DOMAIN script : IsStatement(script[i])})

\* PostgreSQL is sent the whole script.  The MySQL driver cuts it after every
\* semicolon and sends the pieces that do not begin with a comment.
Sent(dialect, script) ==
  LET led(i) == i > 1 => IsStatement(script[i - 1])
  IN  IF dialect = "postgresql" THEN Statements(script)
      ELSE Kept(script, {i \in DOMAIN script : IsStatement(script[i]) /\ led(i)})

-----------------------------------------------------------------------------
(* The user's database. *)

Db == [tables : SUBSET Tables, fks : SUBSET Relationship, indexes : SUBSET (Tables \X Columns)]

\* Statements the database rejects whatever the rows; checks is the session's
\* FOREIGN_KEY_CHECKS.
Rejects(dialect, db, checks, line) ==
  CASE line.kind = "create" -> ~ line.ifNotExists /\ line.table \in db.tables
    [] line.kind = "drop"   ->
         /\ dialect = "mysql" /\ checks /\ line.table \in db.tables
         /\ \E f \in db.fks : f.target = line.table /\ f.source # line.table
    [] line.kind = "fk"     ->
         \/ ~ ({line.rel.source, line.rel.target} \subseteq db.tables)
         \/ \E f \in db.fks : f.source = line.rel.source /\ f.column = line.rel.column
    [] line.kind = "index"  ->
         line.on[1] \notin db.tables \/ (dialect = "mysql" /\ line.on \in db.indexes)
    [] OTHER                -> FALSE

\* DROP ... CASCADE removes the foreign keys of other tables too.
After(dialect, db, line) ==
  CASE line.kind = "create" -> [db EXCEPT !.tables = @ \cup {line.table}]
    [] line.kind = "drop"   ->
         [tables  |-> db.tables \ {line.table},
          fks     |-> {f \in db.fks : /\ f.source # line.table
                                      /\ dialect = "mysql" \/ f.target # line.table},
          indexes |-> {x \in db.indexes : x[1] # line.table}]
    [] line.kind = "fk"     -> [db EXCEPT !.fks = @ \cup {line.rel}]
    [] line.kind = "index"  -> [db EXCEPT !.indexes = @ \cup {line.on}]
    [] OTHER                -> db

ChecksAfter(checks, line) == IF line.kind = "checks" THEN line.on ELSE checks

\* A session is the database, the session's checks, and whether it stopped at a
\* line that was rejected.
Execute(dialect, s, line) ==
  IF s.failed \/ Rejects(dialect, s.db, s.checks, line) THEN [s EXCEPT !.failed = TRUE]
  ELSE [db |-> After(dialect, s.db, line), checks |-> ChecksAfter(s.checks, line), failed |-> FALSE]

\* Session s after each number of the lines.
Course(dialect, s, lines) ==
  LET after[n \in 0..Len(lines)] ==
        IF n = 0 THEN s ELSE Execute(dialect, after[n - 1], lines[n])
  IN  after

Run(dialect, db, lines) ==
  Course(dialect, [db |-> db, checks |-> TRUE, failed |-> FALSE], lines)[Len(lines)]
=============================================================================
