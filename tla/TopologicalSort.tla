--------------------------- MODULE TopologicalSort ---------------------------
(***************************************************************************)
(* Kahn's algorithm over the tables of a schema: parents, the tables that  *)
(* foreign keys refer to, come first.  The code has it twice, for the SQL   *)
(* builders (migration/sql-builder/topo-sort.ts) and for the generator      *)
(* (generation/faker/faker.engine.ts), statement for statement the same.   *)
(* A step is one turn of its inner or outer loop.                          *)
(*                                                                         *)
(* Data: the order in which the input lists tables and relationships        *)
(* decides ties only, so every order is taken.  A relationship may name a   *)
(* table of another schema: nothing in the schema store rejects it.        *)
(***************************************************************************)
EXTENDS Naturals, Sequences, FiniteSets, SequencesExt

CONSTANTS
  Tables,     \* ids of the tables to sort
  Strangers,  \* ids of tables of other schemas
  Rels        \* the relationships

ASSUME FiniteAssumption ==
  IsFiniteSet(Tables) /\ IsFiniteSet(Rels) /\ Tables \cap Strangers = {}

VARIABLES
  rel,       \* source and target of each relationship, never changed
  inDegree,  \* foreign keys of a table whose targets are still to come
  queue,     \* tables with no such key left
  sorted,    \* tables taken off the queue
  visiting,  \* relationships to the table taken last that are still to be visited
  result,    \* what is returned
  returned   \* did the function return?

vars == <<rel, inDegree, queue, sorted, visiting, result, returned>>

-----------------------------------------------------------------------------
Ids       == Tables \cup Strangers
Undefined == "undefined"

ASSUME UndefinedAssumption == Undefined \notin Ids

Emitted == ToSet(sorted)

\* Mutant: a table that refers to itself waits for itself.
EdgeSelf(r) == TRUE

\* Self-references are skipped.
Edge(r) == rel[r].source # rel[r].target

\* The keys that keep table t back, and those that wait for it: adj has entries
\* for the schema's own tables only.
Keys(t) == {r \in Rels : Edge(r) /\ rel[r].source = t}

Dependents(t) == {r \in Rels : t \in Tables /\ Edge(r) /\ rel[r].target = t}

\* Mutant: two keys to one parent count once.
DegreeDistinct(t) == Cardinality({rel[r].target : r \in Keys(t)})

Degree(t) == Cardinality(Keys(t))

InitialQueue == SetToSeqs({t \in Tables : inDegree[t] = 0})

Init ==
  /\ rel \in [Rels -> [source : Ids, target : Ids]]
  /\ inDegree = [t \in Ids |-> Degree(t)]
  /\ queue \in InitialQueue
  /\ sorted = <<>>
  /\ visiting = {}
  /\ result = <<>>
  /\ returned = FALSE

\* One turn of the outer loop.
Shift ==
  /\ visiting = {} /\ queue # <<>>
  /\ queue' = Tail(queue)
  /\ sorted' = Append(sorted, Head(queue))
  /\ visiting' = Dependents(Head(queue))
  /\ UNCHANGED <<rel, inDegree, result, returned>>

\* Mutant: a table is queued when its first parent is out.
VisitEager(r) ==
  LET dep == rel[r].source
      newDeg == inDegree[dep] - 1
  IN
  /\ r \in visiting
  /\ inDegree' = [inDegree EXCEPT ![dep] = newDeg]
  /\ queue' = IF inDegree[dep] = Degree(dep) THEN Append(queue, dep) ELSE queue
  /\ visiting' = visiting \ {r}
  /\ UNCHANGED <<rel, sorted, result, returned>>

\* One turn of the inner loop.
Visit(r) ==
  LET dep == rel[r].source
      newDeg == inDegree[dep] - 1
  IN
  /\ r \in visiting
  /\ inDegree' = [inDegree EXCEPT ![dep] = newDeg]
  /\ queue' = IF newDeg = 0 THEN Append(queue, dep) ELSE queue
  /\ visiting' = visiting \ {r}
  /\ UNCHANGED <<rel, sorted, result, returned>>

\* tableMap.get(id)!
Found(id) == IF id \in Tables THEN id ELSE Undefined

\* Mutant: tables with a foreign key that is never met are forgotten.
RemainingNone == {<<>>}

Remaining == SetToSeqs(Tables \ Emitted)

Return ==
  /\ visiting = {} /\ queue = <<>> /\ ~ returned
  /\ \E tail \in Remaining :
       result' = [i \in 1..Len(sorted) |-> Found(sorted[i])] \o tail
  /\ returned' = TRUE
  /\ UNCHANGED <<rel, inDegree, queue, sorted, visiting>>

Stop == returned /\ UNCHANGED vars

Next == Shift \/ Return \/ Stop \/ \E r \in Rels : Visit(r)

Spec == Init /\ [][Next]_vars

-----------------------------------------------------------------------------
(* Properties *)

\* Every variable has its type: no degree is ever negative.
TypeOK ==
  /\ rel \in [Rels -> [source : Ids, target : Ids]]
  /\ inDegree \in [Ids -> Nat]
  /\ queue \in Seq(Ids)
  /\ sorted \in Seq(Ids)
  /\ visiting \subseteq Rels
  /\ result \in Seq(Tables \cup {Undefined})
  /\ returned \in BOOLEAN

\* What table t refers to besides itself.
Parents(t) == {rel[r].target : r \in {q \in Rels : rel[q].source = t}} \ {t}

\* Whatever is taken off the queue comes after every table it refers to, also
\* with several keys to one parent, self-references, cycles elsewhere and
\* relationships to tables that are not there.
ParentsFirst ==
  \A i \in DOMAIN sorted : \A t \in Parents(sorted[i]) :
    \E k \in 1..(i - 1) : sorted[k] = t

\* A table is only left for the end of the result with a reason: it refers to a
\* table of another schema or to one that was left too (it is on a cycle, or
\* behind one).
LeftoversBlocked ==
  returned =>
    \A t \in Tables \ Emitted : ~ (Parents(t) \subseteq Tables \cap Emitted)

\* The result has every table of the schema exactly once.
EachOnce ==
  returned =>
    \A t \in Tables : \E i \in DOMAIN result :
      result[i] = t /\ \A k \in DOMAIN result : result[k] = t => k = i
=============================================================================
