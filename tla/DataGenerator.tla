---------------------------- MODULE DataGenerator ----------------------------
(***************************************************************************)
(* Generation of a schema's data: the tables in the order of                *)
(* TopologicalSort, foreign keys out of the rows of their parents, unique   *)
(* columns by drawing again, and the script formatSQL makes of it           *)
(* (generation/faker/faker.engine.ts, generation.processor.ts).  A step is  *)
(* one row, or the end of a table.                                          *)
(*                                                                         *)
(* Data: of a table's columns only those of its relationships and one       *)
(* unique column of a scalar type are kept.  In a foreign key all rows of a *)
(* table go the same way, so its outcome is one per relationship.           *)
(***************************************************************************)
EXTENDS TopologicalSort

CONSTANTS
  Draws, Values,  \* what faker may return for the unique column, and all its values
  suffixed,       \* what becomes of a draw with four characters behind it
  MaxRows         \* rows of a table: a bound of the model

ASSUME ValuesAssumption == Draws \subseteq Values /\ suffixed \in [Draws -> SUBSET Values]

VARIABLES
  form,    \* what matters of the columns of each relationship
  at,      \* the table being generated, by its place in result; 0 before the first
  key,     \* what the source column of a relationship got
  column,  \* values of the unique column of that table
  thrown   \* did the worker throw?

state   == <<at, key, column, thrown>>
genVars == <<vars, form, state>>

-----------------------------------------------------------------------------
\* Not nullable; nullable; of type SERIAL; a column that another relationship
\* named before; not nullable, its target column in another table.
Form == {"required", "optional", "serial", "second", "misplaced"}

Outcome == {"open", "found", "null", "madeUp", "numbered", "another"}

SameTable(r) == {q \in Rels \ {r} : rel[q].source = rel[r].source}

GenInit ==
  /\ Init
  /\ form \in [Rels -> Form]
  /\ \A r \in Rels : form[r] = "second" => \E q \in SameTable(r) : form[q] # "second"
  /\ at = 0
  /\ key = [r \in Rels |-> "open"]
  /\ column = <<>>
  /\ thrown = FALSE

Generated == {result[i] : i \in 1..(at - 1)}

Sort ==
  /\ Shift \/ Return \/ \E r \in Rels : Visit(r)
  /\ UNCHANGED <<form, state>>

\* The rows to generate are counted first, which reads the id of every table.
Begin ==
  /\ returned /\ at = 0 /\ ~ thrown
  /\ IF Undefined \in ToSet(result)
     THEN thrown' = TRUE /\ at' = 0
     ELSE thrown' = FALSE /\ at' = 1
  /\ UNCHANGED <<vars, form, key, column>>

Generating == at \in DOMAIN result /\ ~ thrown

\* Mutant: the column is not looked at before its parent is.
KeyValueEager(r) ==
  IF form[r] = "serial" THEN "numbered"
  ELSE IF form[r] = "second" THEN "another"
  ELSE IF form[r] = "optional" THEN "null"
  ELSE IF form[r] = "required" /\ rel[r].target \in Generated THEN "found"
  ELSE "madeUp"

\* generateValue for a foreign key.  What is found may be a null of the parent.
KeyValue(r) ==
  IF form[r] = "serial" THEN "numbered"
  ELSE IF form[r] = "second" THEN "another"
  ELSE IF form[r] # "misplaced" /\ rel[r].target \in Generated THEN "found"
  ELSE IF form[r] = "optional" THEN "null"
  ELSE "madeUp"

\* Mutant: what the fallback returned is not remembered.
UsedDrawn == {column[i].value : i \in {k \in DOMAIN column : ~ column[k].forced}}

\* usedValues: made anew for each table.
Used == {column[i].value : i \in DOMAIN column}

\* ensureUnique: a value not used before, or, when twenty draws in a row were, one
\* more draw with a suffix, which is not compared with anything.
Row ==
  /\ Generating /\ Len(column) < MaxRows
  /\ \/ \E v \in Draws \ Used : column' = Append(column, [value |-> v, forced |-> FALSE])
     \/ /\ Draws \cap Used # {}
        /\ \E d \in Draws : \E v \in suffixed[d] :
             column' = Append(column, [value |-> v, forced |-> TRUE])
  /\ UNCHANGED <<vars, form, at, key, thrown>>

\* A table gets at least one row.
EndTable ==
  /\ Generating /\ column # <<>>
  /\ key' = [r \in Rels |-> IF rel[r].source = result[at] THEN KeyValue(r) ELSE key[r]]
  /\ at' = at + 1
  /\ column' = <<>>
  /\ UNCHANGED <<vars, form, thrown>>

\* A faker provider that a column names may throw; what was generated is dropped.
Throw ==
  /\ Generating
  /\ thrown' = TRUE
  /\ at' = 0
  /\ key' = [r \in Rels |-> "open"]
  /\ column' = <<>>
  /\ UNCHANGED <<vars, form>>

Done == returned /\ at = Len(result) + 1

GenStop == (Done \/ thrown) /\ UNCHANGED genVars

GenNext == Sort \/ Begin \/ Row \/ EndTable \/ Throw \/ GenStop

GenSpec == GenInit /\ [][GenNext]_genVars

\* Mutant: the tables as the schema lists them.
formatSQLUnsorted == CHOOSE s \in SetToSeqs(Tables) : TRUE

\* The INSERT statements, by table.
formatSQL == result

-----------------------------------------------------------------------------
(* Properties *)

\* The INSERT of a relationship's source table finds its keys in the rows before.
Inserts(r) ==
  /\ key[r] = "found"
  /\ \E i, k \in DOMAIN formatSQL :
       i < k /\ formatSQL[i] = rel[r].target /\ formatSQL[k] = rel[r].source

Plain(r) == form[r] \in {"required", "optional"}

\* A schema without cycles can be ranked so that every foreign key points down.
Rankings == {rank \in [Tables -> 1..Cardinality(Tables)] :
               \A t \in Tables : \A u \in Parents(t) : rank[t] > rank[u]}

\* The data of a schema without cycles goes into a database with its constraints
\* as the script has it: every foreign key refers to a row inserted before,
\* as long as each column has one relationship, both ends are where it says, and
\* no key is a SERIAL.
ScriptInserts ==
  (Done /\ (\A r \in Rels : Plain(r) /\ {rel[r].source, rel[r].target} \subseteq Tables
                                    /\ rel[r].source # rel[r].target)
        /\ Rankings # {})
  => \A r \in Rels : Inserts(r)

\* A foreign key that can be followed is not made up and not null but for a
\* reason that lies in the schema: it refers to its own table, or its table is on
\* a cycle, behind one, or behind a table of another schema.
MissHasCause ==
  \A r \in Rels :
    Plain(r) /\ key[r] \in {"null", "madeUp"} =>
      rel[r].source = rel[r].target \/ rel[r].source \notin Emitted

\* A value of a unique column repeats an earlier one only when it is one of those
\* that were given up on: no value drawn before or after the fallback is.
UniqueUnlessForced ==
  \A k \in DOMAIN column : \A i \in 1..(k - 1) :
    column[i].value = column[k].value => column[k].forced
=============================================================================
