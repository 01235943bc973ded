-------------------------- MODULE SchemaStore_proofs --------------------------
(***************************************************************************)
(* Proofs about SchemaStore.  Every change of the rows is a set of rows     *)
(* taken away with all that refers to them, or rows added that the foreign  *)
(* keys accept; the invariant follows what that does to the foreign keys,   *)
(* to the place of the relationships, and to who is counted in dirty.       *)
(***************************************************************************)
EXTENDS SchemaStore, TLAPS, FiniteSetTheorems

Database ==
  [version : [Schemas -> Int], tables : [Tables -> Schemas \cup {None}],
   columns : [Columns -> Tables \cup {None}], rels : [Rels -> Relationship \cup {None}]]

\* Every relationship is between columns of tables of its schema.
AllPlaced(d) ==
  \A q \in Rels : d.rels[q] # None => Placed(d, d.rels[q].schema, d.rels[q].ends)

\* Whoever may have bumped the version of schema s.
Bumpers(s) ==
  {r \in Requests : request[r].schema = s /\ request[r].at \in {"reading", "answered", "failed"}}

Types ==
  /\ db \in Database
  /\ request \in [Requests -> Handler]
  /\ dirty \in [Schemas -> SUBSET Requests]
  /\ misplaced \in BOOLEAN

Bounded ==
  \A s \in Schemas : Deleted <= db.version[s] /\ db.version[s] <= 1 + Cardinality(Bumpers(s))

\* A handler past its first read has a schema.
Bound == \A r \in Requests : request[r].at # "idle" => request[r].schema \in Schemas

\* Schemas that are not there are not changed.
Clean == \A s \in Schemas : ~ Exists(db, s) => dirty[s] = {}

\* Who changed a schema of its own has yet to count it, or was cut off.
Counted ==
  \A s \in Schemas : \A r \in dirty[s] :
    /\ request[r].at # "idle"
    /\ request[r].schema = s => request[r].at \in {"changed", "failed"} \/ request[r].renames

IInv ==
  /\ Types /\ Bounded /\ Bound /\ Consistent(db) /\ Clean /\ Counted
  /\ ~ misplaced => AllPlaced(db)

-----------------------------------------------------------------------------
(* Rows *)

LEMMA NoneIsNoRow == None \notin Schemas /\ None \notin Tables /\ None \notin Relationship
BY NoneAssumption DEF Relationship

\* The ends of a relationship are tables and columns.
LEMMA EndsArePlaces ==
  ASSUME NEW e \in Ends
  PROVE  /\ e.source \in Tables /\ e.target \in Tables
         /\ e.sourceColumn \in Columns /\ e.targetColumn \in Columns
BY EndsAssumption DEF Place

LEMMA RelIsRecord ==
  ASSUME NEW d \in Database, NEW q \in Rels, d.rels[q] # None
  PROVE  d.rels[q] \in Relationship /\ d.rels[q].schema \in Schemas /\ d.rels[q].ends \in Ends
BY DEF Database, Relationship

\* The four kinds of row of a database with one of them replaced.
LEMMA Replaced ==
  ASSUME NEW d \in Database
  PROVE  /\ \A f \in [Schemas -> Int] :
              LET w == [d EXCEPT !.version = f] IN
              /\ w \in Database /\ w.version = f /\ w.tables = d.tables
              /\ w.columns = d.columns /\ w.rels = d.rels
         /\ \A f \in [Tables -> Schemas \cup {None}] :
              LET w == [d EXCEPT !.tables = f] IN
              /\ w \in Database /\ w.version = d.version /\ w.tables = f
              /\ w.columns = d.columns /\ w.rels = d.rels
         /\ \A f \in [Columns -> Tables \cup {None}] :
              LET w == [d EXCEPT !.columns = f] IN
              /\ w \in Database /\ w.version = d.version /\ w.tables = d.tables
              /\ w.columns = f /\ w.rels = d.rels
         /\ \A f \in [Rels -> Relationship \cup {None}] :
              LET w == [d EXCEPT !.rels = f] IN
              /\ w \in Database /\ w.version = d.version /\ w.tables = d.tables
              /\ w.columns = d.columns /\ w.rels = f
BY DEF Database

\* A deletion takes the rows named, and those that refer to them.
LEMMA WithoutEffect ==
  ASSUME NEW d \in Database, NEW T \in SUBSET Tables, NEW C \in SUBSET Columns
  PROVE  LET w == Without(d, T, C)
             gone == C \cup {c \in Columns : d.columns[c] \in T} IN
         /\ w \in Database /\ w.version = d.version
         /\ \A t \in Tables : w.tables[t] = IF t \in T THEN None ELSE d.tables[t]
         /\ \A c \in Columns : w.columns[c] = IF c \in gone THEN None ELSE d.columns[c]
         /\ \A q \in Rels : w.rels[q] = IF d.rels[q] # None /\ RefersTo(d.rels[q].ends, T, gone)
                                        THEN None ELSE d.rels[q]
<1> DEFINE gone == C \cup {c \in Columns : d.columns[c] \in T}
           tables == [t \in Tables |-> IF t \in T THEN None ELSE d.tables[t]]
           columns == [c \in Columns |-> IF c \in gone THEN None ELSE d.columns[c]]
           Hit(q) == d.rels[q] # None /\ RefersTo(d.rels[q].ends, T, gone)
           rels == [q \in Rels |-> IF Hit(q) THEN None ELSE d.rels[q]]
           w == Without(d, T, C)
<1>1. /\ tables \in [Tables -> Schemas \cup {None}]
      /\ columns \in [Columns -> Tables \cup {None}]
      /\ rels \in [Rels -> Relationship \cup {None}]
  <2> HIDE DEF gone, Hit
  <2> QED
    BY DEF Database
<1>2. w = [d EXCEPT !.tables = tables, !.columns = columns, !.rels = rels]
  BY DEF Without
<1>3. /\ w \in Database /\ w.version = d.version /\ w.tables = tables
      /\ w.columns = columns /\ w.rels = rels
  <2> HIDE DEF tables, columns, rels, w
  <2> QED
    BY <1>1, <1>2 DEF Database
<1> HIDE DEF gone, Hit
<1>4. /\ \A t \in Tables : tables[t] = IF t \in T THEN None ELSE d.tables[t]
      /\ \A c \in Columns : columns[c] = IF c \in gone THEN None ELSE d.columns[c]
      /\ \A q \in Rels : rels[q] = IF Hit(q) THEN None ELSE d.rels[q]
  OBVIOUS
<1> HIDE DEF tables, columns, rels, w
<1> QED
  BY <1>3, <1>4 DEF w, gone, Hit

\* The database w is d without tables T, columns C and whatever refers to them.
Taken(d, T, C, w) ==
  LET gone == C \cup {c \in Columns : d.columns[c] \in T} IN
  /\ \A t \in Tables : w.tables[t] = IF t \in T THEN None ELSE d.tables[t]
  /\ \A c \in Columns : w.columns[c] = IF c \in gone THEN None ELSE d.columns[c]
  /\ \A q \in Rels : w.rels[q] = IF d.rels[q] # None /\ RefersTo(d.rels[q].ends, T, gone)
                                 THEN None ELSE d.rels[q]

LEMMA WithoutTakes ==
  ASSUME NEW d \in Database, NEW T \in SUBSET Tables, NEW C \in SUBSET Columns
  PROVE  Taken(d, T, C, Without(d, T, C))
<1> DEFINE w == Without(d, T, C)
           gone == C \cup {c \in Columns : d.columns[c] \in T}
<1>1. /\ \A t \in Tables : w.tables[t] = IF t \in T THEN None ELSE d.tables[t]
      /\ \A c \in Columns : w.columns[c] = IF c \in gone THEN None ELSE d.columns[c]
      /\ \A q \in Rels : w.rels[q] = IF d.rels[q] # None /\ RefersTo(d.rels[q].ends, T, gone)
                                     THEN None ELSE d.rels[q]
  BY WithoutEffect
<1> QED
  BY <1>1 DEF Taken

LEMMA WithoutRelsEffect ==
  ASSUME NEW d \in Database, NEW Q \in SUBSET Rels
  PROVE  LET w == WithoutRels(d, Q) IN
         /\ w \in Database /\ w.version = d.version /\ w.tables = d.tables /\ w.columns = d.columns
         /\ \A q \in Rels : w.rels[q] = IF q \in Q THEN None ELSE d.rels[q]
<1> DEFINE rels == [q \in Rels |-> IF q \in Q THEN None ELSE d.rels[q]]
<1>1. rels \in [Rels -> Relationship \cup {None}]
  BY DEF Database
<1>2. \A q \in Rels : rels[q] = IF q \in Q THEN None ELSE d.rels[q]
  OBVIOUS
<1>3. WithoutRels(d, Q) = [d EXCEPT !.rels = rels]
  BY DEF WithoutRels
<1> HIDE DEF rels
<1> QED
  BY <1>1, <1>2, <1>3, Replaced

-----------------------------------------------------------------------------
(* Deletions *)

\* No deletion leaves a foreign key dangling or a relationship out of place.
LEMMA WithoutKeeps ==
  ASSUME NEW d \in Database, NEW T \in SUBSET Tables, NEW C \in SUBSET Columns, Consistent(d)
  PROVE  /\ Without(d, T, C) \in Database /\ Without(d, T, C).version = d.version
         /\ Consistent(Without(d, T, C))
         /\ AllPlaced(d) => AllPlaced(Without(d, T, C))
<1> DEFINE w == Without(d, T, C)
           gone == C \cup {c \in Columns : d.columns[c] \in T}
<1>1. /\ w \in Database /\ w.version = d.version
      /\ \A t \in Tables : w.tables[t] = IF t \in T THEN None ELSE d.tables[t]
      /\ \A c \in Columns : w.columns[c] = IF c \in gone THEN None ELSE d.columns[c]
      /\ \A q \in Rels : w.rels[q] = IF d.rels[q] # None /\ RefersTo(d.rels[q].ends, T, gone)
                                     THEN None ELSE d.rels[q]
  BY WithoutEffect
<1>2. \A c \in Columns : c \notin gone => d.columns[c] \notin T /\ d.columns[c] \in Tables \cup {None}
  BY DEF Database
<1> HIDE DEF w, gone
<1>3. \A t \in Tables : w.tables[t] # None => Exists(w, w.tables[t])
  BY <1>1 DEF Consistent, Exists
<1>4. \A c \in Columns : w.columns[c] # None => w.tables[w.columns[c]] # None
  BY <1>1, <1>2 DEF Consistent
<1>5. ASSUME NEW q \in Rels, w.rels[q] # None
      PROVE  LET e == w.rels[q].ends IN
             /\ w.rels[q] = d.rels[q] /\ d.rels[q] # None /\ e \in Ends
             /\ w.tables[e.source] = d.tables[e.source] /\ w.tables[e.target] = d.tables[e.target]
             /\ w.columns[e.sourceColumn] = d.columns[e.sourceColumn]
             /\ w.columns[e.targetColumn] = d.columns[e.targetColumn]
  <2>1. w.rels[q] = d.rels[q] /\ d.rels[q] # None /\ ~ RefersTo(d.rels[q].ends, T, gone)
    BY <1>1, <1>5
  <2>2. PICK e \in Ends : e = d.rels[q].ends
    BY <2>1, RelIsRecord
  <2>3. e.source \notin T /\ e.target \notin T /\ e.sourceColumn \notin gone /\ e.targetColumn \notin gone
    BY <2>1, <2>2 DEF RefersTo
  <2> QED
    BY <1>1, <2>1, <2>2, <2>3, EndsArePlaces
<1>6. \A q \in Rels : w.rels[q] # None =>
        LET e == w.rels[q].ends IN
        /\ Exists(w, w.rels[q].schema)
        /\ w.tables[e.source] # None /\ w.tables[e.target] # None
        /\ w.columns[e.sourceColumn] # None /\ w.columns[e.targetColumn] # None
  BY <1>1, <1>5 DEF Consistent, Exists
<1>7. AllPlaced(d) => AllPlaced(w)
  BY <1>5 DEF AllPlaced, Placed
<1>8. Consistent(w)
  BY <1>3, <1>4, <1>6 DEF Consistent
<1> QED
  BY <1>1, <1>7, <1>8 DEF w

LEMMA WithoutRelsKeeps ==
  ASSUME NEW d \in Database, NEW Q \in SUBSET Rels, Consistent(d)
  PROVE  /\ WithoutRels(d, Q) \in Database /\ WithoutRels(d, Q).version = d.version
         /\ Consistent(WithoutRels(d, Q))
         /\ AllPlaced(d) => AllPlaced(WithoutRels(d, Q))
<1> DEFINE w == WithoutRels(d, Q)
<1>1. /\ w \in Database /\ w.version = d.version /\ w.tables = d.tables /\ w.columns = d.columns
      /\ \A q \in Rels : w.rels[q] = IF q \in Q THEN None ELSE d.rels[q]
  BY WithoutRelsEffect
<1> HIDE DEF w
<1>2. \A q \in Rels : w.rels[q] # None => w.rels[q] = d.rels[q] /\ d.rels[q] # None
  BY <1>1
<1>3. Consistent(w)
  BY <1>1, <1>2 DEF Consistent, Exists
<1>4. AllPlaced(d) => AllPlaced(w)
  BY <1>1, <1>2 DEF AllPlaced, Placed
<1> QED
  BY <1>1, <1>3, <1>4 DEF w

-----------------------------------------------------------------------------
(* What a reader sees, and who is counted. *)

LEMMA PartEqual ==
  ASSUME NEW d, NEW e, NEW s,
         \A t \in Tables : d.tables[t] = s <=> e.tables[t] = s,
         \A c \in Columns : /\ Home(d, c) = s <=> Home(e, c) = s
                            /\ Home(d, c) = s => d.columns[c] = e.columns[c],
         \A q \in Rels : /\ Owner(d, q) = s <=> Owner(e, q) = s
                         /\ Owner(d, q) = s => d.rels[q].ends = e.rels[q].ends
  PROVE  Part(d, s) = Part(e, s)
<1>1. TablesOf(d, s) = TablesOf(e, s)
  BY DEF TablesOf
<1>2. [c \in {b \in Columns : Home(d, b) = s} |-> d.columns[c]]
        = [c \in {b \in Columns : Home(e, b) = s} |-> e.columns[c]]
  <2>1. {b \in Columns : Home(d, b) = s} = {b \in Columns : Home(e, b) = s}
    OBVIOUS
  <2>2. \A c \in {b \in Columns : Home(d, b) = s} : d.columns[c] = e.columns[c]
    OBVIOUS
  <2> QED
    BY <2>1, <2>2, Zenon
<1>3. [q \in RelsOf(d, s) |-> d.rels[q].ends] = [q \in RelsOf(e, s) |-> e.rels[q].ends]
  <2>1. RelsOf(d, s) = RelsOf(e, s)
    BY DEF RelsOf
  <2>2. \A q \in RelsOf(d, s) : d.rels[q].ends = e.rels[q].ends
    BY DEF RelsOf
  <2> QED
    BY <2>1, <2>2, Zenon
<1> QED
  BY <1>1, <1>2, <1>3 DEF Part

\* A schema that is not there has no rows.
LEMMA NoRows ==
  ASSUME NEW d \in Database, Consistent(d), NEW s \in Schemas, ~ Exists(d, s)
  PROVE  /\ \A t \in Tables : d.tables[t] # s
         /\ \A c \in Columns : Home(d, c) # s
         /\ \A q \in Rels : Owner(d, q) # s
<1>1. \A t \in Tables : d.tables[t] # s
  BY NoneIsNoRow DEF Consistent
<1>2. \A c \in Columns : Home(d, c) # s
  BY <1>1, NoneIsNoRow DEF Home, Database
<1>3. \A q \in Rels : Owner(d, q) # s
  BY NoneIsNoRow DEF Owner, Consistent
<1> QED
  BY <1>1, <1>2, <1>3

LEMMA NoPart ==
  ASSUME NEW d \in Database, NEW e \in Database, Consistent(d), Consistent(e),
         NEW s \in Schemas, ~ Exists(d, s), ~ Exists(e, s)
  PROVE  Part(d, s) = Part(e, s)
BY NoRows, PartEqual

\* Nobody who may have bumped a version is forgotten.
LEMMA BumpersGrow ==
  ASSUME Types, NEW r \in Requests, NEW a, NEW s \in Schemas,
         request'[r].at = a, request'[r].schema = s,
         \A q \in Requests \ {r} : request'[q] = request[q],
         request[r].at # "idle" => request[r].schema = s,
         request[r].at \in {"reading", "answered", "failed"} => a \in {"reading", "answered", "failed"}
  PROVE  /\ \A x \in Schemas : /\ Cardinality(Bumpers(x)) \in Nat /\ Cardinality(Bumpers(x)') \in Nat
                               /\ Cardinality(Bumpers(x)) <= Cardinality(Bumpers(x)')
         /\ request[r].at \in {"owned", "changed"} /\ a \in {"reading", "answered", "failed"} =>
              Cardinality(Bumpers(s)') = Cardinality(Bumpers(s)) + 1
<1>1. \A x \in Schemas : IsFiniteSet(Bumpers(x)) /\ IsFiniteSet(Bumpers(x)')
  BY RequestsAssumption, FS_Subset DEF Bumpers
<1>2. /\ request'[r].at = a /\ request'[r].schema = s
      /\ \A q \in Requests \ {r} : request'[q] = request[q]
  OBVIOUS
<1>3. \A x \in Schemas : Bumpers(x) \subseteq Bumpers(x)'
  <2> SUFFICES ASSUME NEW x \in Schemas, NEW q \in Bumpers(x) PROVE q \in Bumpers(x)'
    OBVIOUS
  <2>1. CASE q = r
    BY <1>2, <2>1 DEF Bumpers
  <2>2. CASE q # r
    BY <1>2, <2>2 DEF Bumpers
  <2> QED
    BY <2>1, <2>2
<1>4. \A x \in Schemas : /\ Cardinality(Bumpers(x)) \in Nat /\ Cardinality(Bumpers(x)') \in Nat
                         /\ Cardinality(Bumpers(x)) <= Cardinality(Bumpers(x)')
  BY <1>1, <1>3, FS_CardinalityType, FS_Subset
<1>5. ASSUME request[r].at \in {"owned", "changed"}, a \in {"reading", "answered", "failed"}
      PROVE  Cardinality(Bumpers(s)') = Cardinality(Bumpers(s)) + 1
  <2>1. r \notin Bumpers(s) /\ Bumpers(s)' = Bumpers(s) \cup {r}
    BY <1>2, <1>5 DEF Bumpers
  <2> QED
    BY <1>1, <2>1, FS_AddElement
<1> QED
  BY <1>4, <1>5

\* What a change owes the version of its schema.
Counts(r, d, touched, at) ==
  LET s == request[r].schema IN
  /\ \A x \in touched \cap Schemas : Exists(db, x)
  /\ \A x \in Schemas \ {s} : d.version[x] = db.version[x]
  /\ \/ /\ d.version[s] = db.version[s]
        /\ at = "changed" \/ (s \notin touched /\ Part(d, s) = Part(db, s))
     \/ at # "changed" /\ Exists(db, s) /\ d.version[s] \in {db.version[s] + 1, Deleted}

LEMMA ChangeKeeps ==
  ASSUME IInv, NEW r \in Requests, Owned(r), NEW d \in Database, NEW touched, NEW misplaces \in BOOLEAN,
         NEW at \in {"changed", "reading", "answered"}, Change(r, d, touched, misplaces, at),
         Consistent(d), ~ misplaces /\ AllPlaced(db) => AllPlaced(d), Counts(r, d, touched, at)
  PROVE  IInv'
<1>1. PICK s \in Schemas : s = request[r].schema /\ request[r].at = "owned"
  BY DEF IInv, Bound, Owned
<1>2. /\ db' = d /\ misplaced' = (misplaced \/ misplaces)
      /\ At(r, s, at) /\ Types /\ db \in Database
      /\ dirty' = [x \in Schemas |->
                     IF d.version[x] # db.version[x] THEN {}
                     ELSE IF x \in touched \/ Part(d, x) # Part(db, x) THEN dirty[x] \cup {r}
                     ELSE dirty[x]]
  BY <1>1 DEF IInv, Types, Change, Write
<1>3. /\ request' \in [Requests -> Handler] /\ request'[r].at = at /\ request'[r].schema = s
      /\ request'[r].renames = request[r].renames
      /\ \A q \in Requests \ {r} : request'[q] = request[q]
  BY <1>2 DEF Types, At, Handler
<1>4. dirty' \in [Schemas -> SUBSET Requests]
  BY <1>2 DEF Types
<1>5. Types'
  BY <1>2, <1>3, <1>4 DEF Types
<1>6. /\ \A x \in Schemas : d.version[x] \in Int /\ db.version[x] \in Int
      /\ \A x \in Schemas \ {s} : d.version[x] = db.version[x]
      /\ \/ /\ d.version[s] = db.version[s]
            /\ at = "changed" \/ (s \notin touched /\ Part(d, s) = Part(db, s))
         \/ at # "changed" /\ Exists(db, s) /\ d.version[s] \in {db.version[s] + 1, Deleted}
      /\ \A x \in touched \cap Schemas : Exists(db, x)
  BY <1>1, <1>2 DEF Counts, Database
<1>7. Bounded'
  <2>1. /\ \A x \in Schemas : /\ Cardinality(Bumpers(x)) \in Nat /\ Cardinality(Bumpers(x)') \in Nat
                              /\ Cardinality(Bumpers(x)) <= Cardinality(Bumpers(x)')
        /\ at # "changed" => Cardinality(Bumpers(s)') = Cardinality(Bumpers(s)) + 1
    BY <1>1, <1>2, <1>3, BumpersGrow
  <2>2. \A x \in Schemas : -1 <= db.version[x] /\ db.version[x] <= 1 + Cardinality(Bumpers(x))
    BY DEF IInv, Bounded, Deleted
  <2> SUFFICES ASSUME NEW x \in Schemas
               PROVE  -1 <= d.version[x] /\ d.version[x] <= 1 + Cardinality(Bumpers(x)')
    BY <1>2 DEF Bounded, Deleted
  <2>3. CASE d.version[x] = db.version[x]
    BY <1>6, <2>1, <2>2, <2>3
  <2>4. CASE d.version[x] # db.version[x]
    <3>1. x = s /\ at # "changed" /\ d.version[s] \in {db.version[s] + 1, -1}
      BY <1>6, <2>4 DEF Deleted
    <3> QED
      BY <1>6, <2>1, <2>2, <3>1
  <2> QED
    BY <2>3, <2>4
<1>8. Bound'
  BY <1>3 DEF IInv, Bound
<1>9. Clean'
  <2> SUFFICES ASSUME NEW x \in Schemas, ~ Exists(d, x) PROVE dirty'[x] = {}
    BY <1>2 DEF Clean
  <2>1. CASE d.version[x] # db.version[x]
    BY <1>2, <2>1
  <2>2. CASE d.version[x] = db.version[x]
    <3>1. ~ Exists(db, x)
      BY <2>2 DEF Exists
    <3>2. x \notin touched /\ Part(d, x) = Part(db, x) /\ dirty[x] = {}
      BY <1>2, <1>6, <3>1, NoPart DEF IInv, Clean
    <3> QED
      BY <1>2, <2>2, <3>2
  <2> QED
    BY <2>1, <2>2
<1>10. Counted'
  <2> SUFFICES ASSUME NEW x \in Schemas, NEW q \in dirty'[x]
               PROVE  /\ request'[q].at # "idle"
                      /\ request'[q].schema = x =>
                           request'[q].at \in {"changed", "failed"} \/ request'[q].renames
    BY DEF Counted
  <2>1. d.version[x] = db.version[x]
    BY <1>2
  <2>2. q \in dirty[x] \/ (q = r /\ (x \in touched \/ Part(d, x) # Part(db, x)))
    BY <1>2
  <2>3. CASE q # r
    BY <1>2, <1>3, <2>2, <2>3 DEF IInv, Counted, Types
  <2>4. CASE q = r
    <3>1. x = s => request[r].renames \/ x \in touched \/ Part(d, x) # Part(db, x)
      BY <1>1, <2>2, <2>4 DEF IInv, Counted
    <3>2. x = s => request[r].renames \/ at = "changed"
      BY <1>6, <2>1, <3>1 DEF Exists, Deleted
    <3> QED
      BY <1>3, <2>4, <3>2
  <2> QED
    BY <2>3, <2>4
<1>11. (~ misplaced => AllPlaced(db))'
  BY <1>2 DEF IInv
<1>12. Consistent(db)'
  BY <1>2
<1> QED
  BY <1>5, <1>7, <1>8, <1>9, <1>10, <1>11, <1>12 DEF IInv

-----------------------------------------------------------------------------
(* The operations on tables, columns and relationships *)

\* A change that counts on the bump to come.
LEMMA CountsOnBump ==
  ASSUME NEW r, NEW d \in Database, NEW touched, d.version = db.version,
         \A x \in touched \cap Schemas : Exists(db, x)
  PROVE  Counts(r, d, touched, "changed")
BY DEF Counts

\* Rows there are belong to schemas there are.
LEMMA RowsExist ==
  ASSUME IInv
  PROVE  /\ db \in Database /\ Consistent(db)
         /\ \A t \in Tables : db.tables[t] # None => Exists(db, db.tables[t])
         /\ \A c \in Columns : Home(db, c) # None => Exists(db, Home(db, c))
         /\ \A q \in Rels : Owner(db, q) # None => Exists(db, Owner(db, q))
<1>1. db \in Database /\ Consistent(db)
  BY DEF IInv, Types
<1> QED
  BY <1>1 DEF Consistent, Home, Owner, Database

LEMMA UpdateKeeps ==
  ASSUME IInv, NEW r \in Requests, Update(r)
  PROVE  IInv'
<1>1. PICK s \in Schemas : s = request[r].schema /\ request[r].at = "owned"
  BY DEF IInv, Bound, Update, Owned
<1>2. /\ request' \in [Requests -> Handler] /\ request'[r].at = "reading"
      /\ request'[r].schema = s /\ request'[r].renames = TRUE
      /\ \A q \in Requests \ {r} : request'[q] = request[q]
  BY <1>1 DEF Update, IInv, Types, Handler
<1>3. /\ db' = db /\ misplaced' = misplaced
      /\ dirty' = [x \in Schemas |-> IF x \in {z \in {s} : Exists(db, z)}
                                      THEN dirty[x] \cup {r} ELSE dirty[x]]
  BY <1>1 DEF Update, Write
<1>4. Types' /\ Bound' /\ Consistent(db)' /\ (~ misplaced => AllPlaced(db))'
  <2>1. dirty' \in [Schemas -> SUBSET Requests]
    BY <1>3 DEF IInv, Types
  <2> QED
    BY <1>2, <1>3, <2>1 DEF IInv, Types, Bound
<1>5. Clean'
  BY <1>3 DEF IInv, Clean
<1>6. Bounded'
  <2>1. \A x \in Schemas : /\ Cardinality(Bumpers(x)) \in Nat /\ Cardinality(Bumpers(x)') \in Nat
                           /\ Cardinality(Bumpers(x)) <= Cardinality(Bumpers(x)')
    BY <1>1, <1>2, BumpersGrow DEF IInv
  <2>2. \A x \in Schemas : db.version[x] \in Int
    BY DEF IInv, Types, Database
  <2>3. \A x \in Schemas : Deleted <= db.version[x] /\ db.version[x] <= 1 + Cardinality(Bumpers(x))
    BY DEF IInv, Bounded
  <2> SUFFICES ASSUME NEW x \in Schemas
               PROVE  Deleted <= db.version[x] /\ db.version[x] <= 1 + Cardinality(Bumpers(x)')
    BY <1>3 DEF Bounded
  <2> QED
    BY <2>1, <2>2, <2>3 DEF Deleted
<1>7. Counted'
  <2> SUFFICES ASSUME NEW x \in Schemas, NEW q \in dirty'[x]
               PROVE  /\ request'[q].at # "idle"
                      /\ request'[q].schema = x =>
                           request'[q].at \in {"changed", "failed"} \/ request'[q].renames
    BY DEF Counted
  <2>1. q \in Requests /\ (q = r \/ q \in dirty[x])
    BY <1>3 DEF IInv, Types
  <2> QED
    BY <1>2, <2>1 DEF IInv, Counted
<1> QED
  BY <1>4, <1>5, <1>6, <1>7 DEF IInv

LEMMA AddTableKeeps ==
  ASSUME IInv, NEW r \in Requests, NEW t \in Tables, AddTable(r, t)
  PROVE  IInv'
<1>1. PICK s \in Schemas : s = request[r].schema
  BY DEF IInv, Bound, AddTable, Owned
<1> DEFINE f == [db.tables EXCEPT ![t] = s]
           d == [db EXCEPT !.tables = f]
<1>2. /\ Owned(r) /\ db.tables[t] = None /\ Consistent(d) /\ db \in Database
      /\ Change(r, d, {}, FALSE, "changed")
  BY <1>1, RowsExist DEF AddTable
<1>3. f \in [Tables -> Schemas \cup {None}] /\ \A u \in Tables : db.tables[u] # None => f[u] = db.tables[u]
  BY <1>2 DEF Database
<1> HIDE DEF f
<1>4. d \in Database /\ d.version = db.version /\ d.tables = f /\ d.columns = db.columns /\ d.rels = db.rels
  BY <1>2, <1>3, Replaced
<1>5. AllPlaced(db) => AllPlaced(d)
  <2> SUFFICES ASSUME AllPlaced(db), NEW q \in Rels, d.rels[q] # None
               PROVE  Placed(d, d.rels[q].schema, d.rels[q].ends)
    BY DEF AllPlaced
  <2>1. db.rels[q].ends \in Ends /\ Placed(db, db.rels[q].schema, db.rels[q].ends)
    BY <1>2, <1>4, RelIsRecord DEF AllPlaced
  <2>2. db.rels[q].schema \in Schemas
    BY <1>2, <1>4, RelIsRecord
  <2> QED
    BY <1>3, <1>4, <2>1, <2>2, EndsArePlaces, NoneIsNoRow DEF Placed
<1> HIDE DEF d
<1>6. Counts(r, d, {}, "changed")
  BY <1>4, CountsOnBump
<1> QED
  BY <1>2, <1>4, <1>5, <1>6, ChangeKeeps

LEMMA UpdateTableKeeps ==
  ASSUME IInv, NEW r \in Requests, NEW t \in Tables, UpdateTable(r, t)
  PROVE  IInv'
<1> DEFINE s == request[r].schema
           touched == {db.tables[t]} \cap {s}
           m == Elsewhere(db.tables[t], s)
<1>1. Owned(r) /\ Change(r, db, touched, m, "changed") /\ db \in Database /\ Consistent(db)
  BY RowsExist DEF UpdateTable
<1>2. m \in BOOLEAN
  BY DEF Elsewhere
<1>3. Counts(r, db, touched, "changed")
  <2>1. \A x \in touched \cap Schemas : Exists(db, x)
    BY RowsExist, NoneIsNoRow
  <2> HIDE DEF touched
  <2> QED
    BY <1>1, <2>1, CountsOnBump
<1> QED
  BY <1>1, <1>2, <1>3, ChangeKeeps

LEMMA DeleteTableKeeps ==
  ASSUME IInv, NEW r \in Requests, NEW t \in Tables, DeleteTable(r, t)
  PROVE  IInv'
<1> DEFINE s == request[r].schema
           T == {t} \cap TablesOf(db, s)
           d == Without(db, T, {})
           m == Elsewhere(db.tables[t], s)
<1>1. Owned(r) /\ Change(r, d, {}, m, "changed") /\ db \in Database /\ Consistent(db)
  BY RowsExist DEF DeleteTable
<1>2. m \in BOOLEAN /\ T \in SUBSET Tables /\ {} \in SUBSET Columns
  BY DEF Elsewhere
<1> HIDE DEF T, m
<1>3. d \in Database /\ d.version = db.version /\ Consistent(d) /\ (AllPlaced(db) => AllPlaced(d))
  BY <1>1, <1>2, WithoutKeeps
<1> HIDE DEF d
<1>4. Counts(r, d, {}, "changed")
  BY <1>3, CountsOnBump
<1> QED
  BY <1>1, <1>2, <1>3, <1>4, ChangeKeeps

LEMMA AddColumnKeeps ==
  ASSUME IInv, NEW r \in Requests, NEW c \in Columns, NEW t \in Tables, AddColumn(r, c, t)
  PROVE  IInv'
<1> DEFINE f == [db.columns EXCEPT ![c] = t]
           d == [db EXCEPT !.columns = f]
           m == Elsewhere(db.tables[t], request[r].schema)
<1>1. /\ Owned(r) /\ db.columns[c] = None /\ Consistent(d) /\ db \in Database
      /\ Change(r, d, {}, m, "changed")
  BY RowsExist DEF AddColumn
<1>2. m \in BOOLEAN
  BY DEF Elsewhere
<1>3. f \in [Columns -> Tables \cup {None}] /\ \A b \in Columns : db.columns[b] # None => f[b] = db.columns[b]
  BY <1>1 DEF Database
<1> HIDE DEF f, m
<1>4. d \in Database /\ d.version = db.version /\ d.tables = db.tables /\ d.columns = f /\ d.rels = db.rels
  BY <1>1, <1>3, Replaced
<1>5. AllPlaced(db) => AllPlaced(d)
  <2> SUFFICES ASSUME AllPlaced(db), NEW q \in Rels, d.rels[q] # None
               PROVE  Placed(d, d.rels[q].schema, d.rels[q].ends)
    BY DEF AllPlaced
  <2>1. db.rels[q].ends \in Ends /\ Placed(db, db.rels[q].schema, db.rels[q].ends)
    BY <1>1, <1>4, RelIsRecord DEF AllPlaced
  <2> QED
    BY <1>3, <1>4, <2>1, EndsArePlaces, NoneIsNoRow DEF Placed
<1> HIDE DEF d
<1>6. Counts(r, d, {}, "changed")
  BY <1>4, CountsOnBump
<1> QED
  BY <1>1, <1>2, <1>4, <1>5, <1>6, ChangeKeeps

LEMMA UpdateColumnKeeps ==
  ASSUME IInv, NEW r \in Requests, NEW c \in Columns, UpdateColumn(r, c)
  PROVE  IInv'
<1> DEFINE touched == {Home(db, c)} \cap Schemas
           m == Elsewhere(Home(db, c), request[r].schema)
<1>1. Owned(r) /\ Change(r, db, touched, m, "changed") /\ db \in Database /\ Consistent(db)
  BY RowsExist DEF UpdateColumn
<1>2. m \in BOOLEAN
  BY DEF Elsewhere
<1>3. Counts(r, db, touched, "changed")
  <2>1. \A x \in touched \cap Schemas : Exists(db, x)
    BY RowsExist, NoneIsNoRow
  <2> HIDE DEF touched
  <2> QED
    BY <1>1, <2>1, CountsOnBump
<1> QED
  BY <1>1, <1>2, <1>3, ChangeKeeps

LEMMA DeleteColumnKeeps ==
  ASSUME IInv, NEW r \in Requests, NEW c \in Columns, DeleteColumn(r, c)
  PROVE  IInv'
<1> DEFINE d == Without(db, {}, {c})
           m == Elsewhere(Home(db, c), request[r].schema)
<1>1. Owned(r) /\ Change(r, d, {}, m, "changed") /\ db \in Database /\ Consistent(db)
  BY RowsExist DEF DeleteColumn
<1>2. m \in BOOLEAN /\ {} \in SUBSET Tables /\ {c} \in SUBSET Columns
  BY DEF Elsewhere
<1> HIDE DEF m
<1>3. d \in Database /\ d.version = db.version /\ Consistent(d) /\ (AllPlaced(db) => AllPlaced(d))
  BY <1>1, <1>2, WithoutKeeps
<1> HIDE DEF d
<1>4. Counts(r, d, {}, "changed")
  BY <1>3, CountsOnBump
<1> QED
  BY <1>1, <1>2, <1>3, <1>4, ChangeKeeps

LEMMA AddRelationshipKeeps ==
  ASSUME IInv, NEW r \in Requests, NEW q \in Rels, NEW e \in Ends, AddRelationship(r, q, e)
  PROVE  IInv'
<1>1. PICK s \in Schemas : s = request[r].schema
  BY DEF IInv, Bound, AddRelationship, Owned
<1> DEFINE k == [schema |-> s, ends |-> e]
           f == [db.rels EXCEPT ![q] = k]
           d == [db EXCEPT !.rels = f]
           m == ~ Placed(db, s, e)
<1>2. /\ Owned(r) /\ Consistent(d) /\ db \in Database
      /\ Change(r, d, {}, m, "changed")
  BY <1>1, RowsExist DEF AddRelationship
<1>3. m \in BOOLEAN /\ k \in Relationship /\ k.schema = s /\ k.ends = e
  BY DEF Relationship
<1> HIDE DEF k
<1>4. f \in [Rels -> Relationship \cup {None}] /\ f[q] = k /\ \A p \in Rels \ {q} : f[p] = db.rels[p]
  BY <1>2, <1>3 DEF Database
<1> HIDE DEF f
<1>5. d \in Database /\ d.version = db.version /\ d.tables = db.tables /\ d.columns = db.columns /\ d.rels = f
  BY <1>2, <1>4, Replaced
<1>6. ~ m /\ AllPlaced(db) => AllPlaced(d)
  <2> SUFFICES ASSUME ~ m, AllPlaced(db), NEW p \in Rels, d.rels[p] # None
               PROVE  Placed(d, d.rels[p].schema, d.rels[p].ends)
    BY DEF AllPlaced
  <2>1. CASE p = q
    BY <1>3, <1>4, <1>5, <2>1 DEF Placed
  <2>2. CASE p # q
    BY <1>4, <1>5, <2>2 DEF Placed, AllPlaced
  <2> QED
    BY <2>1, <2>2
<1> HIDE DEF d, m
<1>7. Counts(r, d, {}, "changed")
  BY <1>5, CountsOnBump
<1> QED
  BY <1>2, <1>3, <1>5, <1>6, <1>7, ChangeKeeps

LEMMA UpdateRelationshipKeeps ==
  ASSUME IInv, NEW r \in Requests, NEW q \in Rels, NEW e \in Ends, UpdateRelationship(r, q, e)
  PROVE  IInv'
<1>1. PICK s \in Schemas : s = request[r].schema
  BY DEF IInv, Bound, UpdateRelationship, Owned
<1> DEFINE f == [db.rels EXCEPT ![q] = [db.rels[q] EXCEPT !.ends = e]]
           d == IF q \in RelsOf(db, s) THEN [db EXCEPT !.rels[q].ends = e] ELSE db
           touched == {Owner(db, q)} \cap {s}
           m == Owner(db, q) = s /\ ~ Placed(db, s, e)
<1>2. /\ Owned(r) /\ Consistent(d) /\ db \in Database
      /\ Change(r, d, touched, m, "changed")
  BY <1>1, RowsExist DEF UpdateRelationship
<1>3. m \in BOOLEAN
  OBVIOUS
<1>4. CASE q \in RelsOf(db, s)
  <2>1. Owner(db, q) = s /\ db.rels[q] # None /\ db.rels[q].schema = s
    BY <1>4, NoneIsNoRow DEF RelsOf, Owner
  <2>2. /\ [db.rels[q] EXCEPT !.ends = e] \in Relationship
        /\ [db.rels[q] EXCEPT !.ends = e].schema = s /\ [db.rels[q] EXCEPT !.ends = e].ends = e
    BY <1>2, <2>1, RelIsRecord DEF Relationship
  <2>3. /\ f \in [Rels -> Relationship \cup {None}] /\ f[q].schema = s /\ f[q].ends = e
        /\ \A p \in Rels \ {q} : f[p] = db.rels[p]
    BY <1>2, <2>2 DEF Database
  <2>4. d = [db EXCEPT !.rels = f]
    BY <1>4
  <2> HIDE DEF f, d
  <2>5. d \in Database /\ d.version = db.version /\ d.tables = db.tables /\ d.columns = db.columns /\ d.rels = f
    BY <1>2, <2>3, <2>4, Replaced
  <2>6. ~ m /\ AllPlaced(db) => AllPlaced(d)
    <3> SUFFICES ASSUME ~ m, AllPlaced(db), NEW p \in Rels, d.rels[p] # None
                 PROVE  Placed(d, d.rels[p].schema, d.rels[p].ends)
      BY DEF AllPlaced
    <3>1. CASE p = q
      BY <2>1, <2>3, <2>5, <3>1 DEF Placed
    <3>2. CASE p # q
      BY <2>3, <2>5, <3>2 DEF Placed, AllPlaced
    <3> QED
      BY <3>1, <3>2
  <2>7. \A x \in touched \cap Schemas : Exists(db, x)
    BY RowsExist, NoneIsNoRow
  <2> HIDE DEF touched, m
  <2>8. Counts(r, d, touched, "changed")
    BY <2>5, <2>7, CountsOnBump
  <2> QED
    BY <1>2, <1>3, <2>5, <2>6, <2>8, ChangeKeeps
<1>5. CASE q \notin RelsOf(db, s)
  <2>1. d = db
    BY <1>5
  <2> HIDE DEF d
  <2>2. \A x \in touched \cap Schemas : Exists(db, x)
    BY RowsExist, NoneIsNoRow
  <2> HIDE DEF touched, m
  <2>3. Counts(r, d, touched, "changed")
    BY <1>2, <2>1, <2>2, CountsOnBump
  <2> QED
    BY <1>2, <1>3, <2>1, <2>3, ChangeKeeps
<1> QED
  BY <1>4, <1>5

LEMMA DeleteRelationshipKeeps ==
  ASSUME IInv, NEW r \in Requests, NEW q \in Rels, DeleteRelationship(r, q)
  PROVE  IInv'
<1> DEFINE Q == {q} \cap RelsOf(db, request[r].schema)
           d == WithoutRels(db, Q)
<1>1. Owned(r) /\ Change(r, d, {}, FALSE, "changed") /\ db \in Database /\ Consistent(db)
  BY RowsExist DEF DeleteRelationship
<1>2. Q \in SUBSET Rels
  OBVIOUS
<1> HIDE DEF Q
<1>3. d \in Database /\ d.version = db.version /\ Consistent(d) /\ (AllPlaced(db) => AllPlaced(d))
  BY <1>1, <1>2, WithoutRelsKeeps
<1> HIDE DEF d
<1>4. Counts(r, d, {}, "changed")
  BY <1>3, CountsOnBump
<1> QED
  BY <1>1, <1>3, <1>4, ChangeKeeps

-----------------------------------------------------------------------------
(* The operations on schemas *)

\* The version of one schema is another.
LEMMA VersionEffect ==
  ASSUME NEW d \in Database, NEW s \in Schemas, NEW n \in Int
  PROVE  LET w == [d EXCEPT !.version[s] = n] IN
         /\ w \in Database /\ w.version[s] = n /\ \A x \in Schemas \ {s} : w.version[x] = d.version[x]
         /\ w.tables = d.tables /\ w.columns = d.columns /\ w.rels = d.rels
<1> DEFINE f == [d.version EXCEPT ![s] = n]
<1>1. f \in [Schemas -> Int] /\ f[s] = n /\ \A x \in Schemas \ {s} : f[x] = d.version[x]
  BY DEF Database
<1>2. [d EXCEPT !.version[s] = n] = [d EXCEPT !.version = f]
  OBVIOUS
<1> HIDE DEF f
<1> DEFINE w == [d EXCEPT !.version = f]
<1>3. /\ w \in Database /\ w.version = f /\ w.tables = d.tables
      /\ w.columns = d.columns /\ w.rels = d.rels
  BY <1>1 DEF Database
<1> HIDE DEF w
<1> QED
  BY <1>1, <1>2, <1>3 DEF w

\* Versions are not what a reader compares.
LEMMA SamePart ==
  ASSUME NEW d, NEW e, d.tables = e.tables, d.columns = e.columns, d.rels = e.rels, NEW x
  PROVE  Part(d, x) = Part(e, x)
BY DEF Part, TablesOf, RelsOf, Owner, Home

LEMMA SamePlaces ==
  ASSUME NEW d, NEW e, d.tables = e.tables, d.columns = e.columns, d.rels = e.rels, AllPlaced(d)
  PROVE  AllPlaced(e)
BY DEF AllPlaced, Placed

\* A schema is deleted with its tables and its relationships.
LEMMA DeleteSchemaKeeps ==
  ASSUME IInv, NEW r \in Requests, DeleteSchema(r)
  PROVE  IInv'
<1>1. PICK s \in Schemas : s = request[r].schema
  BY DEF IInv, Bound, DeleteSchema, Owned
<1> DEFINE T == TablesOf(db, s)
           Q == RelsOf(db, s)
           e == Without(db, T, {})
           f == WithoutRels(e, Q)
           g == [f EXCEPT !.version[s] = Deleted]
           d == IF Exists(db, s) THEN g ELSE db
<1>2. Owned(r) /\ Change(r, d, {}, FALSE, "answered") /\ db \in Database /\ Consistent(db)
  BY <1>1, RowsExist DEF DeleteSchema
<1>3. T \in SUBSET Tables /\ Q \in SUBSET Rels
  BY DEF TablesOf, RelsOf
<1>4. CASE Exists(db, s)
  <2>1. /\ e \in Database /\ e.version = db.version /\ Consistent(e) /\ (AllPlaced(db) => AllPlaced(e))
        /\ \A t \in Tables : e.tables[t] = IF t \in T THEN None ELSE db.tables[t]
        /\ \A q \in Rels : e.rels[q] \in {None, db.rels[q]}
    <3> HIDE DEF T
    <3>1. {} \in SUBSET Columns
      OBVIOUS
    <3>2. /\ e \in Database /\ e.version = db.version /\ Consistent(e)
          /\ AllPlaced(db) => AllPlaced(e)
      BY <1>2, <1>3, <3>1, WithoutKeeps
    <3>3. Taken(db, T, {}, e)
      BY <1>2, <1>3, <3>1, WithoutTakes
    <3> HIDE DEF e
    <3> QED
      BY <3>2, <3>3 DEF Taken
  <2> HIDE DEF e
  <2>2. /\ f \in Database /\ f.version = e.version /\ f.tables = e.tables
        /\ Consistent(f) /\ (AllPlaced(e) => AllPlaced(f))
        /\ \A q \in Rels : f.rels[q] = IF q \in Q THEN None ELSE e.rels[q]
    <3> HIDE DEF Q
    <3> QED
      BY <1>3, <2>1, WithoutRelsEffect, WithoutRelsKeeps
  <2> HIDE DEF f
  <2>3. /\ g \in Database /\ g.version[s] = Deleted /\ \A x \in Schemas \ {s} : g.version[x] = f.version[x]
        /\ g.tables = f.tables /\ g.columns = f.columns /\ g.rels = f.rels
    BY <2>2, VersionEffect DEF Deleted
  <2> HIDE DEF g
  <2>4. /\ \A t \in Tables : f.tables[t] # s
        /\ \A q \in Rels : f.rels[q] # None => f.rels[q].schema # s
    BY <2>1, <2>2, NoneIsNoRow DEF T, Q, TablesOf, RelsOf, Owner
  <2>5. Consistent(g)
    <3>1. \A x \in Schemas \ {s} : Exists(f, x) => Exists(g, x)
      BY <2>3 DEF Exists
    <3>2. \A t \in Tables : f.tables[t] \in Schemas \cup {None}
      BY <2>2 DEF Database
    <3>3. \A q \in Rels : f.rels[q] # None => f.rels[q].schema \in Schemas
      BY <2>2, RelIsRecord
    <3> QED
      BY <2>2, <2>3, <2>4, <3>1, <3>2, <3>3 DEF Consistent
  <2>6. AllPlaced(db) => AllPlaced(g)
    BY <2>1, <2>2, <2>3, SamePlaces
  <2>7. Counts(r, g, {}, "answered")
    BY <1>1, <1>4, <2>1, <2>2, <2>3 DEF Counts
  <2> QED
    BY <1>2, <1>4, <2>3, <2>5, <2>6, <2>7, ChangeKeeps
<1>5. CASE ~ Exists(db, s)
  <2>1. d = db
    BY <1>5
  <2> HIDE DEF d
  <2>2. Counts(r, db, {}, "answered")
    BY DEF Counts
  <2> QED
    BY <1>2, <2>1, <2>2, ChangeKeeps
<1> QED
  BY <1>4, <1>5

\* Steps that leave the rows alone.
LEMMA StillKeeps ==
  ASSUME IInv, NEW r \in Requests, NEW s \in Schemas, NEW a \in {"owned", "answered", "failed"},
         At(r, s, a), UNCHANGED <<db, dirty, misplaced>>,
         request[r].at # "idle" => request[r].schema = s,
         request[r].at \in {"reading", "answered", "failed"} => a \in {"answered", "failed"},
         a # "failed" => request[r].at \in {"idle", "reading"}
  PROVE  IInv'
<1>1. /\ request' \in [Requests -> Handler] /\ request'[r].at = a /\ request'[r].schema = s
      /\ request'[r].renames = request[r].renames
      /\ \A q \in Requests \ {r} : request'[q] = request[q]
  BY DEF IInv, Types, At, Handler
<1>2. Types' /\ Bound' /\ Consistent(db)' /\ (~ misplaced => AllPlaced(db))' /\ Clean'
  BY <1>1 DEF IInv, Types, Bound, Clean
<1>3. Bounded'
  <2>1. \A x \in Schemas : /\ Cardinality(Bumpers(x)) \in Nat /\ Cardinality(Bumpers(x)') \in Nat
                           /\ Cardinality(Bumpers(x)) <= Cardinality(Bumpers(x)')
    BY <1>1, BumpersGrow DEF IInv
  <2>2. \A x \in Schemas : db.version[x] \in Int
    BY DEF IInv, Types, Database
  <2>3. \A x \in Schemas : Deleted <= db.version[x] /\ db.version[x] <= 1 + Cardinality(Bumpers(x))
    BY DEF IInv, Bounded
  <2> SUFFICES ASSUME NEW x \in Schemas
               PROVE  Deleted <= db.version[x] /\ db.version[x] <= 1 + Cardinality(Bumpers(x)')
    BY DEF Bounded
  <2> QED
    BY <2>1, <2>2, <2>3
<1>4. Counted'
  <2> SUFFICES ASSUME NEW x \in Schemas, NEW q \in dirty[x]
               PROVE  /\ request'[q].at # "idle"
                      /\ request'[q].schema = x =>
                           request'[q].at \in {"changed", "failed"} \/ request'[q].renames
    BY DEF Counted
  <2>1. /\ request[q].at # "idle"
        /\ request[q].schema = x => request[q].at \in {"changed", "failed"} \/ request[q].renames
    BY DEF IInv, Counted
  <2>2. q \in Requests
    BY DEF IInv, Types
  <2> QED
    BY <1>1, <2>1, <2>2
<1> QED
  BY <1>2, <1>3, <1>4 DEF IInv

\* Steps that give one schema a new version, or find it gone.
LEMMA VersionKeeps ==
  ASSUME IInv, NEW r \in Requests, NEW s \in Schemas, NEW n \in Int, NEW d \in Database,
         At(r, s, "reading"), Write(r, d, {}), misplaced' = misplaced,
         d.tables = db.tables, d.columns = db.columns, d.rels = db.rels,
         \A x \in Schemas \ {s} : d.version[x] = db.version[x],
         \/ request[r].at = "idle" /\ db.version[s] = 0 /\ d.version[s] = 1
         \/ request[r].at = "changed" /\ request[r].schema = s /\ Exists(db, s)
              /\ d.version[s] = db.version[s] + 1
         \/ request[r].at = "changed" /\ request[r].schema = s /\ ~ Exists(db, s)
              /\ d.version[s] = db.version[s]
  PROVE  IInv'
<1>1. /\ request' \in [Requests -> Handler] /\ request'[r].at = "reading" /\ request'[r].schema = s
      /\ request'[r].renames = request[r].renames
      /\ \A q \in Requests \ {r} : request'[q] = request[q]
  BY DEF IInv, Types, At, Handler
<1>2. /\ db' = d /\ \A x \in Schemas : d.version[x] \in Int /\ db.version[x] \in Int
      /\ dirty' = [x \in Schemas |-> IF d.version[x] # db.version[x] THEN {} ELSE dirty[x]]
  <2>1. \A x \in Schemas : Part(d, x) = Part(db, x)
    BY SamePart
  <2>2. db \in Database
    BY DEF IInv, Types
  <2> QED
    BY <2>1, <2>2 DEF Write, Database
<1>3. Types'
  <2>1. dirty' \in [Schemas -> SUBSET Requests]
    BY <1>2 DEF IInv, Types
  <2> QED
    BY <1>1, <1>2, <2>1 DEF IInv, Types
<1>4. Bound'
  BY <1>1 DEF IInv, Bound
<1>5. \A x \in Schemas : Exists(db, x) => Exists(d, x)
  BY <1>2 DEF Exists
<1>6. Consistent(db)'
  BY <1>2, <1>5, NoneIsNoRow DEF IInv, Consistent, Types, Database, Relationship
<1>7. (~ misplaced => AllPlaced(db))'
  BY <1>2, SamePlaces DEF IInv
<1>8. Bounded'
  <2>1. /\ \A x \in Schemas : /\ Cardinality(Bumpers(x)) \in Nat /\ Cardinality(Bumpers(x)') \in Nat
                              /\ Cardinality(Bumpers(x)) <= Cardinality(Bumpers(x)')
        /\ request[r].at = "changed" => Cardinality(Bumpers(s)') = Cardinality(Bumpers(s)) + 1
    BY <1>1, BumpersGrow DEF IInv
  <2>2. \A x \in Schemas : -1 <= db.version[x] /\ db.version[x] <= 1 + Cardinality(Bumpers(x))
    BY DEF IInv, Bounded, Deleted
  <2> SUFFICES ASSUME NEW x \in Schemas
               PROVE  -1 <= d.version[x] /\ d.version[x] <= 1 + Cardinality(Bumpers(x)')
    BY <1>2 DEF Bounded, Deleted
  <2> QED
    BY <1>2, <2>1, <2>2
<1>9. Clean'
  <2> SUFFICES ASSUME NEW x \in Schemas, ~ Exists(d, x) PROVE dirty'[x] = {}
    BY <1>2 DEF Clean
  <2>1. dirty[x] = {}
    BY <1>5 DEF IInv, Clean
  <2> QED
    BY <1>2, <2>1
<1>10. Counted'
  <2> SUFFICES ASSUME NEW x \in Schemas, NEW q \in dirty'[x]
               PROVE  /\ request'[q].at # "idle"
                      /\ request'[q].schema = x =>
                           request'[q].at \in {"changed", "failed"} \/ request'[q].renames
    BY DEF Counted
  <2>1. q \in dirty[x] /\ d.version[x] = db.version[x] /\ q \in Requests
    BY <1>2 DEF IInv, Types
  <2>2. /\ request[q].at # "idle"
        /\ request[q].schema = x => request[q].at \in {"changed", "failed"} \/ request[q].renames
    BY <2>1 DEF IInv, Counted
  <2>3. CASE q # r
    BY <1>1, <2>1, <2>2, <2>3
  <2>4. CASE q = r
    <3>1. request[r].renames \/ x # s
      <4>1. ASSUME x = s, ~ request[r].renames PROVE FALSE
        <5>1. ~ Exists(db, s)
          BY <1>2, <2>1, <2>2, <2>4, <4>1
        <5> QED
          BY <2>1, <4>1, <5>1 DEF IInv, Clean
      <4> QED
        BY <4>1
    <3> QED
      BY <1>1, <2>4, <3>1
  <2> QED
    BY <2>3, <2>4
<1> QED
  BY <1>3, <1>4, <1>6, <1>7, <1>8, <1>9, <1>10 DEF IInv

LEMMA CreateKeeps ==
  ASSUME IInv, NEW r \in Requests, NEW s \in Schemas, Create(r, s)
  PROVE  IInv'
<1> DEFINE d == [db EXCEPT !.version[s] = 1]
<1>1. /\ request[r].at = "idle" /\ db.version[s] = 0 /\ db \in Database
      /\ At(r, s, "reading") /\ Write(r, d, {}) /\ misplaced' = misplaced
  BY DEF Create, Unborn, IInv, Types
<1>2. /\ d \in Database /\ d.version[s] = 1 /\ \A x \in Schemas \ {s} : d.version[x] = db.version[x]
      /\ d.tables = db.tables /\ d.columns = db.columns /\ d.rels = db.rels
  BY <1>1, VersionEffect
<1> HIDE DEF d
<1> QED
  BY <1>1, <1>2, VersionKeeps

LEMMA BumpVersionKeeps ==
  ASSUME IInv, NEW r \in Requests, BumpVersion(r)
  PROVE  IInv'
<1>1. PICK s \in Schemas : s = request[r].schema
  BY DEF IInv, Bound, BumpVersion
<1> DEFINE n == db.version[s] + 1
           g == [db EXCEPT !.version[s] = n]
           d == IF Exists(db, s) THEN g ELSE db
<1>2. /\ request[r].at = "changed" /\ db \in Database
      /\ At(r, s, "reading") /\ Write(r, d, {}) /\ misplaced' = misplaced
  BY <1>1 DEF BumpVersion, IInv, Types
<1>3. db.version[s] \in Int /\ n \in Int
  BY <1>2 DEF Database
<1> HIDE DEF n
<1>4. /\ g \in Database /\ g.version[s] = n /\ \A x \in Schemas \ {s} : g.version[x] = db.version[x]
      /\ g.tables = db.tables /\ g.columns = db.columns /\ g.rels = db.rels
  BY <1>2, <1>3, VersionEffect
<1> HIDE DEF g
<1>5. CASE Exists(db, s)
  BY <1>1, <1>2, <1>3, <1>4, <1>5, VersionKeeps DEF n
<1>6. CASE ~ Exists(db, s)
  BY <1>1, <1>2, <1>3, <1>6, VersionKeeps
<1> QED
  BY <1>5, <1>6

LEMMA AssertOwnershipKeeps ==
  ASSUME IInv, NEW r \in Requests, NEW s \in Schemas, AssertOwnership(r, s)
  PROVE  IInv'
BY StillKeeps DEF AssertOwnership

LEMMA BuildFullSchemaKeeps ==
  ASSUME IInv, NEW r \in Requests, BuildFullSchema(r)
  PROVE  IInv'
<1>1. PICK s \in Schemas : s = request[r].schema
  BY DEF IInv, Bound, BuildFullSchema
<1>2. At(r, s, "answered") \/ At(r, s, "failed")
  BY <1>1 DEF BuildFullSchema
<1> QED
  BY <1>1, <1>2, StillKeeps DEF BuildFullSchema

LEMMA AbandonKeeps ==
  ASSUME IInv, NEW r \in Requests, Abandon(r)
  PROVE  IInv'
<1>1. PICK s \in Schemas : s = request[r].schema
  BY DEF IInv, Bound, Abandon
<1> QED
  BY <1>1, StillKeeps DEF Abandon
-----------------------------------------------------------------------------
(* replace *)

LEMMA DocumentParts ==
  ASSUME NEW doc \in Documents
  PROVE  /\ doc.tables \in SUBSET Tables /\ DOMAIN doc.columns \in SUBSET Columns
         /\ \A c \in DOMAIN doc.columns : doc.columns[c] \in doc.tables
         /\ DOMAIN doc.rels \in SUBSET Rels
         /\ \A q \in DOMAIN doc.rels : doc.rels[q] \in Ends
<1>1. /\ doc.tables \in SUBSET Tables
      /\ doc.columns \in UNION {[C -> Tables] : C \in SUBSET Columns}
      /\ doc.rels \in UNION {[Q -> Ends] : Q \in SUBSET Rels}
      /\ \A c \in DOMAIN doc.columns : doc.columns[c] \in doc.tables
  BY DEF Documents
<1>2. PICK C \in SUBSET Columns : doc.columns \in [C -> Tables]
  BY <1>1
<1>3. PICK Q \in SUBSET Rels : doc.rels \in [Q -> Ends]
  BY <1>1
<1> QED
  BY <1>1, <1>2, <1>3

\* Database w is d with other tables, columns or relationships.
OnlyTables(d, f, w) ==
  w \in Database /\ w.version = d.version /\ w.tables = f /\ w.columns = d.columns /\ w.rels = d.rels

OnlyColumns(d, f, w) ==
  w \in Database /\ w.version = d.version /\ w.tables = d.tables /\ w.columns = f /\ w.rels = d.rels

OnlyRels(d, f, w) ==
  w \in Database /\ w.version = d.version /\ w.tables = d.tables /\ w.columns = d.columns /\ w.rels = f

LEMMA OnlyOne ==
  ASSUME NEW d \in Database
  PROVE  /\ \A f \in [Tables -> Schemas \cup {None}] : OnlyTables(d, f, [d EXCEPT !.tables = f])
         /\ \A f \in [Columns -> Tables \cup {None}] : OnlyColumns(d, f, [d EXCEPT !.columns = f])
         /\ \A f \in [Rels -> Relationship \cup {None}] : OnlyRels(d, f, [d EXCEPT !.rels = f])
<1>1. ASSUME NEW f \in [Tables -> Schemas \cup {None}] PROVE OnlyTables(d, f, [d EXCEPT !.tables = f])
  BY <1>1 DEF Database, OnlyTables
<1>2. ASSUME NEW f \in [Columns -> Tables \cup {None}] PROVE OnlyColumns(d, f, [d EXCEPT !.columns = f])
  BY <1>2 DEF Database, OnlyColumns
<1>3. ASSUME NEW f \in [Rels -> Relationship \cup {None}] PROVE OnlyRels(d, f, [d EXCEPT !.rels = f])
  BY <1>3 DEF Database, OnlyRels
<1> QED
  BY <1>1, <1>2, <1>3

\* The tables replace drops.
Dropped(d, s, doc) == {t \in Tables : d.tables[t] = s /\ t \notin doc.tables}

\* What w has of the tables of d, and what is left of its columns and relationships,
\* when the tables of the document are merged and the others dropped.
TablesReplaced(d, s, doc, w) ==
  LET T == Dropped(d, s, doc)
      gone == {c \in Columns : d.columns[c] \in T} IN
  /\ w \in Database /\ w.version = d.version
  /\ \A t \in Tables : w.tables[t] = IF t \in T THEN None
                                     ELSE IF t \in doc.tables /\ d.tables[t] = None THEN s
                                     ELSE d.tables[t]
  /\ \A c \in Columns : w.columns[c] = IF c \in gone THEN None ELSE d.columns[c]
  /\ \A q \in Rels : w.rels[q] \in {None, d.rels[q]}

LEMMA WithTablesEffect ==
  ASSUME NEW d \in Database, NEW s \in Schemas, NEW doc \in Documents
  PROVE  TablesReplaced(d, s, doc, WithTables(d, s, doc))
<1> DEFINE f == [t \in Tables |-> IF t \in doc.tables /\ d.tables[t] = None THEN s ELSE d.tables[t]]
           m == MergeTables(d, s, doc)
           T == TablesOf(m, s) \ doc.tables
           C == {}
           w == WithTables(d, s, doc)
<1>1. f \in [Tables -> Schemas \cup {None}]
  BY DEF Database
<1>2. \A t \in Tables : f[t] = IF t \in doc.tables /\ d.tables[t] = None THEN s ELSE d.tables[t]
  OBVIOUS
<1>3. m = [d EXCEPT !.tables = f]
  BY DEF MergeTables
<1> HIDE DEF f, m
<1>4. OnlyTables(d, f, m)
  BY <1>1, <1>3, OnlyOne
<1>5. w = Without(m, T, C) /\ T \in SUBSET Tables /\ C \in SUBSET Columns
  BY DEF WithTables, m, TablesOf
<1>6. \A t \in Tables : t \in T <=> t \in Dropped(d, s, doc)
  BY <1>2, <1>4 DEF OnlyTables, TablesOf, Dropped
<1> HIDE DEF T, w, C
<1>7. w \in Database /\ w.version = m.version
  <2>1. m \in Database
    BY <1>4 DEF OnlyTables
  <2> QED
    BY <1>5, <2>1, WithoutEffect
<1>8. Taken(m, T, C, w)
  BY <1>4, <1>5, WithoutTakes DEF OnlyTables
<1>9. T = Dropped(d, s, doc)
  BY <1>5, <1>6 DEF Dropped
<1>10. \A t \in Tables : w.tables[t] = IF t \in T THEN None ELSE f[t]
  BY <1>4, <1>8 DEF Taken, OnlyTables
<1>11. \A c \in Columns : w.columns[c] = IF d.columns[c] \in T THEN None ELSE d.columns[c]
  BY <1>4, <1>8 DEF Taken, OnlyTables, C
<1>12. \A q \in Rels : w.rels[q] \in {None, d.rels[q]}
  BY <1>4, <1>8 DEF Taken, OnlyTables
<1>13. w.version = d.version
  BY <1>4, <1>7 DEF OnlyTables
<1> DEFINE D == Dropped(d, s, doc)
<1> HIDE DEF D
<1>14. /\ \A t \in Tables : w.tables[t] = IF t \in D THEN None
                                          ELSE IF t \in doc.tables /\ d.tables[t] = None THEN s
                                          ELSE d.tables[t]
       /\ \A c \in Columns : w.columns[c] = IF c \in {b \in Columns : d.columns[b] \in D}
                                            THEN None ELSE d.columns[c]
  BY <1>2, <1>9, <1>10, <1>11 DEF D
<1>15. TablesReplaced(d, s, doc, w)
  BY <1>7, <1>12, <1>13, <1>14 DEF TablesReplaced, D
<1> QED
  BY <1>15 DEF w

LEMMA MergeColumnsEffect ==
  ASSUME NEW d \in Database, NEW doc \in Documents
  PROVE  /\ OnlyColumns(d, MergeColumns(d, doc).columns, MergeColumns(d, doc))
         /\ \A c \in Columns : MergeColumns(d, doc).columns[c] =
              IF c \in DOMAIN doc.columns /\ d.columns[c] = None THEN doc.columns[c] ELSE d.columns[c]
<1> DEFINE f == [c \in Columns |-> IF c \in DOMAIN doc.columns /\ d.columns[c] = None
                                   THEN doc.columns[c] ELSE d.columns[c]]
           w == MergeColumns(d, doc)
<1>1. f \in [Columns -> Tables \cup {None}]
  <2>1. \A c \in DOMAIN doc.columns : doc.columns[c] \in Tables
    BY DocumentParts
  <2> QED
    BY <2>1 DEF Database
<1>2. \A c \in Columns : f[c] = IF c \in DOMAIN doc.columns /\ d.columns[c] = None
                                THEN doc.columns[c] ELSE d.columns[c]
  OBVIOUS
<1>3. w = [d EXCEPT !.columns = f]
  BY DEF MergeColumns
<1> HIDE DEF f, w
<1>4. OnlyColumns(d, f, w)
  BY <1>1, <1>3, OnlyOne
<1>5. w.columns = f
  BY <1>4 DEF OnlyColumns
<1> QED
  BY <1>2, <1>4, <1>5 DEF w

\* A relationship sent is in the schema, or in the one it was in, with the ends sent.
LEMMA MergeRelsEffect ==
  ASSUME NEW d \in Database, NEW s \in Schemas, NEW doc \in Documents
  PROVE  LET w == MergeRels(d, s, doc) IN
         /\ OnlyRels(d, w.rels, w)
         /\ \A q \in Rels \ DOMAIN doc.rels : w.rels[q] = d.rels[q]
         /\ \A q \in DOMAIN doc.rels :
              /\ w.rels[q] \in Relationship /\ w.rels[q].ends = doc.rels[q]
              /\ w.rels[q].schema = IF d.rels[q] = None THEN s ELSE d.rels[q].schema
<1> DEFINE New(q) == [schema |-> s, ends |-> doc.rels[q]]
           Moved(q) == [d.rels[q] EXCEPT !.ends = doc.rels[q]]
           f == [q \in Rels |-> IF q \notin DOMAIN doc.rels THEN d.rels[q]
                                ELSE IF d.rels[q] = None THEN New(q) ELSE Moved(q)]
           w == MergeRels(d, s, doc)
<1>1. DOMAIN doc.rels \in SUBSET Rels /\ \A q \in DOMAIN doc.rels : doc.rels[q] \in Ends
  BY DocumentParts
<1>2. \A q \in DOMAIN doc.rels :
        New(q) \in Relationship /\ New(q).ends = doc.rels[q] /\ New(q).schema = s
  BY <1>1 DEF Relationship
<1>3. ASSUME NEW q \in DOMAIN doc.rels, d.rels[q] # None
      PROVE  /\ Moved(q) \in Relationship /\ Moved(q).ends = doc.rels[q]
             /\ Moved(q).schema = d.rels[q].schema
  BY <1>1, <1>3, RelIsRecord DEF Relationship
<1>4. w = [d EXCEPT !.rels = f]
  BY DEF MergeRels
<1> HIDE DEF New, Moved
<1>5. f \in [Rels -> Relationship \cup {None}]
  BY <1>2, <1>3 DEF Database
<1>6. \A q \in Rels : f[q] = IF q \notin DOMAIN doc.rels THEN d.rels[q]
                             ELSE IF d.rels[q] = None THEN New(q) ELSE Moved(q)
  OBVIOUS
<1> HIDE DEF f, w
<1>7. OnlyRels(d, f, w)
  BY <1>4, <1>5, OnlyOne
<1>8. w.rels = f
  BY <1>7 DEF OnlyRels
<1>9. /\ \A q \in Rels \ DOMAIN doc.rels : f[q] = d.rels[q]
      /\ \A q \in DOMAIN doc.rels :
           /\ f[q] \in Relationship /\ f[q].ends = doc.rels[q]
           /\ f[q].schema = IF d.rels[q] = None THEN s ELSE d.rels[q].schema
  BY <1>1, <1>2, <1>3, <1>6
<1> QED
  BY <1>7, <1>8, <1>9 DEF w
\* What replace makes of the rows: w.
Replacing(d, s, doc, w) ==
  LET T == Dropped(d, s, doc)
      gone == {c \in Columns : d.columns[c] \in T}
      left == [c \in Columns |-> IF c \in gone THEN None ELSE d.columns[c]] IN
  /\ w \in Database /\ w.version = d.version
  /\ \A t \in Tables : w.tables[t] = IF t \in T THEN None
                                     ELSE IF t \in doc.tables /\ d.tables[t] = None THEN s
                                     ELSE d.tables[t]
  /\ \A c \in Columns : w.columns[c] = IF c \in DOMAIN doc.columns /\ left[c] = None
                                       THEN doc.columns[c] ELSE left[c]
  /\ \A q \in Rels \ DOMAIN doc.rels : w.rels[q] # None =>
       w.rels[q] = d.rels[q] /\ w.rels[q].schema # s
  /\ \A q \in DOMAIN doc.rels :
       /\ w.rels[q] \in Relationship /\ w.rels[q].ends = doc.rels[q]
       /\ w.rels[q].schema = s \/ (d.rels[q] # None /\ w.rels[q].schema = d.rels[q].schema)

LEMMA MergedEffect ==
  ASSUME NEW d \in Database, NEW s \in Schemas, NEW doc \in Documents
  PROVE  Replacing(d, s, doc, Merged(d, s, doc))
<1> DEFINE x == WithTables(d, s, doc)
           y == MergeColumns(x, doc)
           z == MergeRels(y, s, doc)
           Q == RelsOf(z, s) \ DOMAIN doc.rels
           w == Merged(d, s, doc)
           T == Dropped(d, s, doc)
           gone == {c \in Columns : d.columns[c] \in T}
           left == [c \in Columns |-> IF c \in gone THEN None ELSE d.columns[c]]
<1>1. DOMAIN doc.rels \in SUBSET Rels
  BY DocumentParts
<1>2. w = WithoutRels(z, Q) /\ Q \in SUBSET Rels
  BY DEF Merged, RelsOf
<1>3. \A q \in Rels : q \in Q <=> q \notin DOMAIN doc.rels /\ Owner(z, q) = s
  BY DEF RelsOf
<1>4. TablesReplaced(d, s, doc, x)
  BY WithTablesEffect
<1> HIDE DEF w, Q, x
<1>5. x \in Database
  BY <1>4 DEF TablesReplaced
<1>6. /\ OnlyColumns(x, y.columns, y)
      /\ \A c \in Columns : y.columns[c] =
           IF c \in DOMAIN doc.columns /\ x.columns[c] = None THEN doc.columns[c] ELSE x.columns[c]
  BY <1>5, MergeColumnsEffect
<1> HIDE DEF y
<1>7. y \in Database
  BY <1>6 DEF OnlyColumns
<1>8. /\ OnlyRels(y, z.rels, z)
      /\ \A q \in Rels \ DOMAIN doc.rels : z.rels[q] = y.rels[q]
      /\ \A q \in DOMAIN doc.rels :
           /\ z.rels[q] \in Relationship /\ z.rels[q].ends = doc.rels[q]
           /\ z.rels[q].schema = IF y.rels[q] = None THEN s ELSE y.rels[q].schema
  BY <1>7, MergeRelsEffect
<1> HIDE DEF z
<1>9. z \in Database
  BY <1>8 DEF OnlyRels
<1>10. /\ w \in Database /\ w.version = z.version /\ w.tables = z.tables /\ w.columns = z.columns
       /\ \A q \in Rels : w.rels[q] = IF q \in Q THEN None ELSE z.rels[q]
  BY <1>2, <1>9, WithoutRelsEffect
<1>11. /\ w.version = d.version /\ w.tables = x.tables /\ w.columns = y.columns /\ y.rels = x.rels
  BY <1>4, <1>6, <1>8, <1>10 DEF TablesReplaced, OnlyColumns, OnlyRels
<1> HIDE DEF T
<1>12. /\ \A t \in Tables : x.tables[t] = IF t \in T THEN None
                                          ELSE IF t \in doc.tables /\ d.tables[t] = None THEN s
                                          ELSE d.tables[t]
       /\ \A c \in Columns : x.columns[c] = IF c \in gone THEN None ELSE d.columns[c]
       /\ \A q \in Rels : x.rels[q] \in {None, d.rels[q]}
  BY <1>4 DEF TablesReplaced, T
<1>13. \A c \in Columns : x.columns[c] = left[c]
  BY <1>12
<1> HIDE DEF gone, left
<1>14. \A t \in Tables : w.tables[t] = IF t \in T THEN None
                                       ELSE IF t \in doc.tables /\ d.tables[t] = None THEN s
                                       ELSE d.tables[t]
  BY <1>11, <1>12
<1>15. \A c \in Columns : w.columns[c] = IF c \in DOMAIN doc.columns /\ left[c] = None
                                         THEN doc.columns[c] ELSE left[c]
  BY <1>6, <1>11, <1>13
<1>16. ASSUME NEW q \in Rels \ DOMAIN doc.rels, w.rels[q] # None
       PROVE  w.rels[q] = d.rels[q] /\ w.rels[q].schema # s
  BY <1>3, <1>8, <1>10, <1>11, <1>12, <1>16 DEF Owner
<1>17. ASSUME NEW q \in DOMAIN doc.rels
       PROVE  /\ w.rels[q] \in Relationship /\ w.rels[q].ends = doc.rels[q]
              /\ w.rels[q].schema = s \/ (d.rels[q] # None /\ w.rels[q].schema = d.rels[q].schema)
  <2>1. q \in Rels /\ q \notin Q /\ w.rels[q] = z.rels[q] /\ x.rels[q] \in {None, d.rels[q]}
    BY <1>1, <1>3, <1>10, <1>12
  <2> QED
    BY <1>8, <1>11, <2>1
<1>18. Replacing(d, s, doc, w)
  BY <1>10, <1>11, <1>14, <1>15, <1>16, <1>17 DEF Replacing, left, gone, T
<1> QED
  BY <1>18 DEF w

\* A replace that puts ids where they belong leaves the relationships of every
\* schema in their place.
LEMMA ReplacePlaces ==
  ASSUME NEW d \in Database, NEW s \in Schemas, NEW doc \in Documents, NEW w,
         Replacing(d, s, doc, w), ~ Misplaces(d, s, doc), AllPlaced(d)
  PROVE  AllPlaced(w)
<1> DEFINE T == Dropped(d, s, doc)
           gone == {c \in Columns : d.columns[c] \in T}
           left == [c \in Columns |-> IF c \in gone THEN None ELSE d.columns[c]]
<1>1. /\ doc.tables \in SUBSET Tables /\ DOMAIN doc.columns \in SUBSET Columns
      /\ \A c \in DOMAIN doc.columns : doc.columns[c] \in doc.tables
      /\ DOMAIN doc.rels \in SUBSET Rels
      /\ \A q \in DOMAIN doc.rels : doc.rels[q] \in Ends
  BY DocumentParts
<1>2. \A t \in Tables : t \in T <=> d.tables[t] = s /\ t \notin doc.tables
  BY DEF Dropped
<1>3. \A c \in Columns : left[c] = IF d.columns[c] \in T THEN None ELSE d.columns[c]
  OBVIOUS
<1>4. \A c \in Columns : WithTables(d, s, doc).columns[c] = left[c]
  BY WithTablesEffect DEF TablesReplaced
<1>5. /\ \A t \in Tables : w.tables[t] = IF t \in T THEN None
                                         ELSE IF t \in doc.tables /\ d.tables[t] = None THEN s
                                         ELSE d.tables[t]
      /\ \A c \in Columns : w.columns[c] = IF c \in DOMAIN doc.columns /\ left[c] = None
                                           THEN doc.columns[c] ELSE left[c]
      /\ \A q \in Rels \ DOMAIN doc.rels : w.rels[q] # None =>
           w.rels[q] = d.rels[q] /\ w.rels[q].schema # s
      /\ \A q \in DOMAIN doc.rels :
           /\ w.rels[q] \in Relationship /\ w.rels[q].ends = doc.rels[q]
           /\ w.rels[q].schema = s \/ (d.rels[q] # None /\ w.rels[q].schema = d.rels[q].schema)
  BY DEF Replacing
<1> HIDE DEF T, left
<1>6. /\ \A t \in doc.tables : d.tables[t] \in {s, None}
      /\ \A c \in DOMAIN doc.columns : left[c] \in {doc.columns[c], None}
      /\ \A q \in DOMAIN doc.rels : Drawn(doc, doc.rels[q]) /\ Owner(d, q) \in {s, None}
  BY <1>1, <1>4 DEF Misplaces, Elsewhere
<1>7. \A t \in doc.tables : w.tables[t] = s
  BY <1>1, <1>2, <1>5, <1>6
<1>8. \A c \in DOMAIN doc.columns : w.columns[c] = doc.columns[c]
  BY <1>1, <1>5, <1>6
<1> SUFFICES ASSUME NEW q \in Rels, w.rels[q] # None
             PROVE  Placed(w, w.rels[q].schema, w.rels[q].ends)
  BY DEF AllPlaced
<1>9. CASE q \in DOMAIN doc.rels
  <2>1. w.rels[q].schema = s /\ w.rels[q].ends = doc.rels[q]
    <3>1. d.rels[q] # None => d.rels[q].schema = s
      BY <1>6, <1>9, RelIsRecord, NoneIsNoRow DEF Owner
    <3> QED
      BY <1>5, <1>9, <3>1
  <2>2. Placed(w, s, doc.rels[q])
    BY <1>6, <1>7, <1>8, <1>9 DEF Placed, Drawn
  <2> QED
    BY <2>1, <2>2
<1>10. CASE q \notin DOMAIN doc.rels
  <2>1. w.rels[q] = d.rels[q] /\ d.rels[q].schema # s /\ d.rels[q] # None
    BY <1>5, <1>10
  <2>2. PICK e \in Ends : e = d.rels[q].ends
    BY <2>1, RelIsRecord
  <2>3. PICK z \in Schemas : z = d.rels[q].schema
    BY <2>1, RelIsRecord
  <2>4. Placed(d, z, e) /\ z # s /\ z # None
    BY <2>1, <2>2, <2>3, NoneIsNoRow DEF AllPlaced
  <2>5. /\ e.source \in Tables /\ e.target \in Tables
        /\ e.sourceColumn \in Columns /\ e.targetColumn \in Columns
    BY EndsArePlaces
  <2>6. w.tables[e.source] = z /\ w.tables[e.target] = z
    BY <1>2, <1>5, <2>4, <2>5 DEF Placed
  <2>7. left[e.sourceColumn] = e.source /\ left[e.targetColumn] = e.target
    BY <1>2, <1>3, <2>4, <2>5 DEF Placed
  <2>8. w.columns[e.sourceColumn] = e.source /\ w.columns[e.targetColumn] = e.target
    BY <1>5, <2>5, <2>7, NoneIsNoRow
  <2> QED
    BY <2>1, <2>2, <2>3, <2>6, <2>8 DEF Placed
<1> QED
  BY <1>9, <1>10

\* ... and gives the schema what the document says.
LEMMA ReplacingReadsBack ==
  ASSUME NEW d \in Database, NEW s \in Schemas, NEW doc \in Documents, NEW w,
         Replacing(d, s, doc, w), ~ Misplaces(d, s, doc)
  PROVE  ReadsBack(d, w, s, doc)
<1> DEFINE T == Dropped(d, s, doc)
           gone == {c \in Columns : d.columns[c] \in T}
           left == [c \in Columns |-> IF c \in gone THEN None ELSE d.columns[c]]
<1>1. /\ doc.tables \in SUBSET Tables /\ DOMAIN doc.columns \in SUBSET Columns
      /\ DOMAIN doc.rels \in SUBSET Rels
  BY DocumentParts
<1>2. \A t \in Tables : t \in T <=> d.tables[t] = s /\ t \notin doc.tables
  BY DEF Dropped
<1>3. \A c \in Columns : WithTables(d, s, doc).columns[c] = left[c]
  BY WithTablesEffect DEF TablesReplaced
<1>4. /\ \A t \in Tables : w.tables[t] = IF t \in T THEN None
                                         ELSE IF t \in doc.tables /\ d.tables[t] = None THEN s
                                         ELSE d.tables[t]
      /\ \A c \in Columns : w.columns[c] = IF c \in DOMAIN doc.columns /\ left[c] = None
                                           THEN doc.columns[c] ELSE left[c]
      /\ \A q \in Rels \ DOMAIN doc.rels : w.rels[q] # None =>
           w.rels[q] = d.rels[q] /\ w.rels[q].schema # s
      /\ \A q \in DOMAIN doc.rels :
           /\ w.rels[q] \in Relationship /\ w.rels[q].ends = doc.rels[q]
           /\ w.rels[q].schema = s \/ (d.rels[q] # None /\ w.rels[q].schema = d.rels[q].schema)
  BY DEF Replacing
<1> HIDE DEF T, left
<1>5. /\ \A t \in doc.tables : d.tables[t] \in {s, None}
      /\ \A c \in DOMAIN doc.columns : left[c] \in {doc.columns[c], None}
      /\ \A q \in DOMAIN doc.rels : Owner(d, q) \in {s, None}
  BY <1>1, <1>3 DEF Misplaces, Elsewhere
<1>6. TablesOf(w, s) = doc.tables
  BY <1>1, <1>2, <1>4, <1>5, NoneIsNoRow DEF TablesOf
<1>7. ASSUME NEW q \in DOMAIN doc.rels
      PROVE  w.rels[q] # None /\ w.rels[q].schema = s
  <2>1. d.rels[q] # None => d.rels[q].schema = s
    BY <1>1, <1>5, RelIsRecord, NoneIsNoRow DEF Owner
  <2> QED
    BY <1>4, <2>1, NoneIsNoRow
<1>8. RelsOf(w, s) = DOMAIN doc.rels
  BY <1>1, <1>4, <1>7, NoneIsNoRow DEF RelsOf, Owner
<1>9. \A c \in DOMAIN doc.columns : w.columns[c] = doc.columns[c]
  BY <1>1, <1>4, <1>5
<1>10. ASSUME NEW c \in Columns
       PROVE  left[c] = IF d.columns[c] \in T THEN None ELSE d.columns[c]
  BY DEF left
<1>11. \A c \in Unsent(d, doc) : w.columns[c] = d.columns[c]
  BY <1>1, <1>2, <1>4, <1>10 DEF Unsent
<1>12. ASSUME NEW c \in Columns
       PROVE  Home(w, c) = s <=> w.columns[c] \in doc.tables
  <2>1. w.columns[c] \in Tables \cup {None}
    BY DEF Replacing, Database
  <2> QED
    BY <1>1, <1>6, <2>1, NoneIsNoRow DEF Home, TablesOf
<1>13. ASSUME NEW c \in Columns
       PROVE  w.columns[c] \in doc.tables <=> c \in DOMAIN doc.columns \cup Unsent(d, doc)
  <2>1. CASE c \in DOMAIN doc.columns
    <3>1. doc.columns[c] \in doc.tables
      BY <2>1, DocumentParts
    <3> QED
      BY <1>9, <2>1, <3>1
  <2>2. CASE c \notin DOMAIN doc.columns
    <3>1. w.columns[c] = left[c] /\ d.columns[c] \in Tables \cup {None}
      BY <1>4, <2>2 DEF Database
    <3>2. None \notin doc.tables
      BY <1>1, NoneIsNoRow
    <3> QED
      BY <1>1, <1>2, <1>10, <2>2, <3>1, <3>2 DEF Unsent
  <2> QED
    BY <2>1, <2>2
<1>14. {c \in Columns : Home(w, c) = s} = DOMAIN doc.columns \cup Unsent(d, doc)
  BY <1>1, <1>12, <1>13 DEF Unsent
<1> QED
  BY <1>4, <1>6, <1>8, <1>9, <1>11, <1>14 DEF ReadsBack

LEMMA ReplaceKeeps ==
  ASSUME IInv, NEW r \in Requests, NEW doc \in Documents, Replace(r, doc)
  PROVE  IInv'
<1>1. PICK s \in Schemas : s = request[r].schema
  BY DEF IInv, Bound, Replace, Owned
<1> DEFINE w == Merged(db, s, doc)
           n == w.version[s] + 1
           g == [w EXCEPT !.version[s] = n]
           d == IF Exists(db, s) THEN g ELSE w
           touched == Named(db, doc)
           m == Misplaces(db, s, doc)
<1>2. /\ Owned(r) /\ Consistent(d) /\ Consistent(db) /\ db \in Database
      /\ Change(r, d, touched, m, "reading")
  BY <1>1, RowsExist DEF Replace
<1>3. m \in BOOLEAN
  BY DEF Misplaces
<1> HIDE DEF w, m
<1>4. Replacing(db, s, doc, w)
  BY <1>2, MergedEffect DEF w
<1>5. w \in Database /\ w.version = db.version /\ n \in Int
  BY <1>4 DEF Replacing, Database
<1>6. /\ g \in Database /\ g.version[s] = n /\ \A x \in Schemas \ {s} : g.version[x] = w.version[x]
      /\ g.tables = w.tables /\ g.columns = w.columns /\ g.rels = w.rels
  <2> HIDE DEF n
  <2> QED
    BY <1>5, VersionEffect
<1> HIDE DEF g
<1>7. /\ d \in Database /\ d.tables = w.tables /\ d.columns = w.columns /\ d.rels = w.rels
      /\ Exists(db, s) => d.version[s] = db.version[s] + 1
      /\ ~ Exists(db, s) => d.version = db.version
      /\ \A x \in Schemas \ {s} : d.version[x] = db.version[x]
  BY <1>5, <1>6
<1> HIDE DEF d
<1>8. ~ m /\ AllPlaced(db) => AllPlaced(d)
  <2>1. ~ m /\ AllPlaced(db) => AllPlaced(w)
    BY <1>2, <1>4, ReplacePlaces DEF m
  <2> QED
    BY <1>7, <2>1, SamePlaces
<1>9. \A x \in touched \cap Schemas : Exists(db, x)
  BY RowsExist, DocumentParts, NoneIsNoRow DEF Named
<1> HIDE DEF touched
<1>10. Counts(r, d, touched, "reading")
  <2>1. CASE Exists(db, s)
    BY <1>1, <1>7, <1>9, <2>1 DEF Counts
  <2>2. CASE ~ Exists(db, s)
    <3>1. ~ Exists(d, s)
      BY <1>7, <2>2 DEF Exists
    <3>2. s \notin touched /\ Part(d, s) = Part(db, s)
      BY <1>2, <1>7, <1>9, <2>2, <3>1, NoPart
    <3> QED
      BY <1>1, <1>7, <1>9, <2>2, <3>2 DEF Counts
  <2> QED
    BY <2>1, <2>2
<1> QED
  BY <1>2, <1>3, <1>7, <1>8, <1>10, ChangeKeeps

-----------------------------------------------------------------------------
(* The invariant *)

LEMMA InitIInv == Init => IInv
<1> SUFFICES ASSUME Init PROVE IInv
  OBVIOUS
<1>1. /\ db.version \in [Schemas -> {0, 1}] /\ db \in Database /\ Consistent(db)
      /\ \A r \in Requests : request[r].at = "idle" /\ request[r].schema = None
      /\ request \in [Requests -> Handler] /\ dirty = [s \in Schemas |-> {}]
      /\ misplaced = \E s \in Schemas : RelationshipErrors(s) # {}
  BY DEF Init, Databases, Database, Unborn, Handler
<1>2. Types
  <2>1. dirty \in [Schemas -> SUBSET Requests] /\ misplaced \in BOOLEAN
    BY <1>1
  <2> QED
    BY <1>1, <2>1 DEF Types
<1>3. Bounded
  <2> SUFFICES ASSUME NEW s \in Schemas
               PROVE  -1 <= db.version[s] /\ db.version[s] <= 1 + Cardinality(Bumpers(s))
    BY DEF Bounded, Deleted
  <2>1. IsFiniteSet(Bumpers(s))
    BY RequestsAssumption, FS_Subset DEF Bumpers
  <2>2. Cardinality(Bumpers(s)) \in Nat
    BY <2>1, FS_CardinalityType
  <2>3. db.version[s] \in {0, 1}
    BY <1>1
  <2> QED
    BY <2>2, <2>3
<1>4. Bound /\ Clean /\ Counted
  BY <1>1 DEF Bound, Clean, Counted
<1>5. ~ misplaced => AllPlaced(db)
  <2> SUFFICES ASSUME ~ misplaced, NEW q \in Rels, db.rels[q] # None
               PROVE  Placed(db, db.rels[q].schema, db.rels[q].ends)
    BY DEF AllPlaced
  <2>1. PICK s \in Schemas : s = db.rels[q].schema
    BY <1>1, RelIsRecord
  <2>2. q \in RelsOf(db, s)
    BY <2>1 DEF RelsOf, Owner
  <2>3. RelationshipErrors(s) = {}
    BY <1>1
  <2> QED
    BY <2>1, <2>2, <2>3 DEF RelationshipErrors
<1> QED
  BY <1>1, <1>2, <1>3, <1>4, <1>5 DEF IInv

LEMMA NextIInv == IInv /\ [Next]_vars => IInv'
<1> SUFFICES ASSUME IInv, [Next]_vars PROVE IInv'
  OBVIOUS
<1>1. CASE UNCHANGED vars
  BY <1>1 DEF vars, IInv, Types, Bounded, Bumpers, Bound, Clean, Counted
<1>2. CASE Next
  <2>1. PICK r \in Requests :
          \/ SchemaStep(r) \/ TableStep(r) \/ ColumnStep(r) \/ RelationshipStep(r)
          \/ BumpVersion(r) \/ BuildFullSchema(r) \/ Abandon(r)
    BY <1>2 DEF Next
  <2>2. CASE SchemaStep(r)
    BY <2>2, CreateKeeps, AssertOwnershipKeeps, UpdateKeeps, DeleteSchemaKeeps, ReplaceKeeps
       DEF SchemaStep
  <2>3. CASE TableStep(r)
    BY <2>3, AddTableKeeps, UpdateTableKeeps, DeleteTableKeeps DEF TableStep
  <2>4. CASE ColumnStep(r)
    BY <2>4, AddColumnKeeps, UpdateColumnKeeps, DeleteColumnKeeps DEF ColumnStep
  <2>5. CASE RelationshipStep(r)
    BY <2>5, AddRelationshipKeeps, UpdateRelationshipKeeps, DeleteRelationshipKeeps
       DEF RelationshipStep
  <2>6. CASE BumpVersion(r)
    BY <2>6, BumpVersionKeeps
  <2>7. CASE BuildFullSchema(r)
    BY <2>7, BuildFullSchemaKeeps
  <2>8. CASE Abandon(r)
    BY <2>8, AbandonKeeps
  <2> QED
    BY <2>1, <2>2, <2>3, <2>4, <2>5, <2>6, <2>7, <2>8
<1> QED
  BY <1>1, <1>2

\* The inductive invariant holds: foreign keys, bounds of the versions, who is
\* counted, and the place of every relationship.
THEOREM Invariant == Spec => []IInv
BY InitIInv, NextIInv, PTL DEF Spec

\* Every variable keeps its type, and no more requests than there are bump a version.
THEOREM TypeCorrect == Spec => []TypeOK
<1>1. IInv => TypeOK
  <2> SUFFICES ASSUME IInv PROVE TypeOK
    OBVIOUS
  <2>1. \A s \in Schemas : db.version[s] \in Deleted..(1 + Cardinality(Requests))
    <3> SUFFICES ASSUME NEW s \in Schemas
                 PROVE  db.version[s] \in -1..(1 + Cardinality(Requests))
      BY DEF Deleted
    <3>1. Bumpers(s) \subseteq Requests
      BY DEF Bumpers
    <3>2. IsFiniteSet(Bumpers(s)) /\ Cardinality(Bumpers(s)) <= Cardinality(Requests)
      BY <3>1, RequestsAssumption, FS_Subset
    <3>3. Cardinality(Bumpers(s)) \in Nat /\ Cardinality(Requests) \in Nat
      BY <3>2, RequestsAssumption, FS_CardinalityType
    <3>4. -1 <= db.version[s] /\ db.version[s] <= 1 + Cardinality(Bumpers(s))
      BY DEF IInv, Bounded, Deleted
    <3>5. db.version[s] \in Int
      BY DEF IInv, Types, Database
    <3> QED
      BY <3>2, <3>3, <3>4, <3>5
  <2> DEFINE Versions == Deleted..(1 + Cardinality(Requests))
  <2> HIDE DEF Versions
  <2>2. \A s \in Schemas : db.version[s] \in Versions
    BY <2>1 DEF Versions
  <2>3. db \in [version : [Schemas -> Versions], tables : [Tables -> Schemas \cup {None}],
                columns : [Columns -> Tables \cup {None}], rels : [Rels -> Relationship \cup {None}]]
    BY <2>2 DEF IInv, Types, Database
  <2> QED
    BY <2>3 DEF TypeOK, IInv, Types, Versions
<1> QED
  BY <1>1, Invariant, PTL

\* No sequence of calls leaves a row without the rows it refers to.
THEOREM NothingDangles == Spec => []NoDangling
<1>1. IInv => NoDangling
  BY DEF IInv, NoDangling
<1> QED
  BY <1>1, Invariant, PTL

\* A change to tables, columns or relationships of a schema, made by a request on
\* that schema which is answered, is behind a new version.
THEOREM ChangesAreCounted == Spec => []AnsweredIsCounted
<1>1. IInv => AnsweredIsCounted
  BY DEF IInv, Counted, AnsweredIsCounted
<1> QED
  BY <1>1, Invariant, PTL

\* While requests put ids where they belong, every relationship is in its place.
THEOREM RelationshipsStayValid == Spec => []RelationsValid
<1>1. IInv => RelationsValid
  <2> SUFFICES ASSUME IInv, ~ misplaced, NEW s \in Schemas, NEW q \in RelsOf(db, s)
               PROVE  Placed(db, s, db.rels[q].ends)
    BY DEF RelationsValid, RelationshipErrors
  <2>1. q \in Rels /\ db.rels[q] # None /\ db.rels[q].schema = s
    BY NoneIsNoRow DEF RelsOf, Owner
  <2> QED
    BY <2>1 DEF IInv, AllPlaced
<1> QED
  BY <1>1, Invariant, PTL
-----------------------------------------------------------------------------
(* What one step does *)

\* Tables of other schemas are taken away, and relationships of other schemas: a
\* schema whose relationships are in their place keeps its rows.
LEMMA StandsAlone ==
  ASSUME NEW d \in Database, NEW T \in SUBSET Tables, NEW w, NEW v, NEW s \in Schemas,
         Taken(d, T, {}, w), \A t \in T : d.tables[t] # s,
         \A q \in Rels : d.rels[q] # None /\ d.rels[q].schema = s => Placed(d, s, d.rels[q].ends),
         v.tables = w.tables, v.columns = w.columns,
         \A q \in Rels : \/ v.rels[q] = w.rels[q]
                         \/ v.rels[q] = None /\ Owner(d, q) # s
  PROVE  Part(v, s) = Part(d, s)
<1>1. /\ \A t \in Tables : v.tables[t] = IF t \in T THEN None ELSE d.tables[t]
      /\ \A c \in Columns : v.columns[c] = IF d.columns[c] \in T THEN None ELSE d.columns[c]
  BY DEF Taken
<1>2. \A t \in Tables : v.tables[t] = s <=> d.tables[t] = s
  BY <1>1, NoneIsNoRow
<1>3. ASSUME NEW c \in Columns
      PROVE  /\ Home(v, c) = s <=> Home(d, c) = s
             /\ Home(v, c) = s => v.columns[c] = d.columns[c]
  <2>1. d.columns[c] \in Tables \cup {None}
    BY DEF Database
  <2> QED
    BY <1>1, <1>2, <2>1, NoneIsNoRow DEF Home
<1>4. ASSUME NEW q \in Rels, Owner(d, q) = s
      PROVE  w.rels[q] = d.rels[q]
  <2>1. d.rels[q] # None /\ d.rels[q].schema = s
    BY <1>4, NoneIsNoRow DEF Owner
  <2>2. PICK e \in Ends : e = d.rels[q].ends
    BY <2>1, RelIsRecord
  <2>3. Placed(d, s, e)
    BY <2>1, <2>2
  <2>4. ~ RefersTo(e, T, {} \cup {c \in Columns : d.columns[c] \in T})
    BY <2>3 DEF Placed, RefersTo
  <2> QED
    BY <2>2, <2>4 DEF Taken
<1>5. ASSUME NEW q \in Rels
      PROVE  /\ Owner(v, q) = s <=> Owner(d, q) = s
             /\ Owner(v, q) = s => v.rels[q].ends = d.rels[q].ends
  <2>1. w.rels[q] \in {None, d.rels[q]}
    BY DEF Taken
  <2> QED
    BY <1>4, <2>1, NoneIsNoRow DEF Owner
<1> QED
  BY <1>2, <1>3, <1>5, PartEqual

LEMMA ErrorFree ==
  ASSUME NEW s \in Schemas, RelationshipErrors(s) = {}
  PROVE  \A q \in Rels : db.rels[q] # None /\ db.rels[q].schema = s => Placed(db, s, db.rels[q].ends)
BY DEF RelationshipErrors, RelsOf, Owner

\* Deleting a schema, or a table, takes nothing from a schema without errors.
THEOREM ValidSchemasStandAlone == Spec => ValidStandsAlone
<1>1. ASSUME IInv, NEW r \in Requests, NEW s \in Schemas, Owned(r), request[r].schema # s,
             RelationshipErrors(s) = {}, NEW t \in Tables, DeleteTable(r, t)
      PROVE  Part(db', s) = Part(db, s)
  <2> DEFINE T == {t} \cap TablesOf(db, request[r].schema)
             w == Without(db, T, {})
  <2>1. db' = w /\ db \in Database
    BY <1>1 DEF DeleteTable, Change, Write, IInv, Types
  <2>2. T \in SUBSET Tables /\ {} \in SUBSET Columns /\ \A u \in T : db.tables[u] # s
    BY <1>1 DEF TablesOf
  <2> HIDE DEF T
  <2>3. Taken(db, T, {}, w)
    BY <2>1, <2>2, WithoutTakes
  <2> HIDE DEF w
  <2>4. \A q \in Rels : db.rels[q] # None /\ db.rels[q].schema = s => Placed(db, s, db.rels[q].ends)
    BY <1>1, ErrorFree
  <2>5. Part(w, s) = Part(db, s)
    BY <2>1, <2>2, <2>3, <2>4, StandsAlone
  <2> QED
    BY <2>1, <2>5
<1>2. ASSUME IInv, NEW r \in Requests, NEW s \in Schemas, Owned(r), request[r].schema # s,
             RelationshipErrors(s) = {}, DeleteSchema(r)
      PROVE  Part(db', s) = Part(db, s)
  <2>1. PICK z \in Schemas : z = request[r].schema
    BY <1>2 DEF IInv, Bound, Owned
  <2> DEFINE T == TablesOf(db, z)
             Q == RelsOf(db, z)
             e == Without(db, T, {})
             f == WithoutRels(e, Q)
             g == [f EXCEPT !.version[z] = Deleted]
  <2>2. db' = (IF Exists(db, z) THEN g ELSE db) /\ db \in Database
    BY <1>2, <2>1 DEF DeleteSchema, Change, Write, IInv, Types
  <2>3. /\ T \in SUBSET Tables /\ {} \in SUBSET Columns /\ \A u \in T : db.tables[u] # s
        /\ Q \in SUBSET Rels /\ \A q \in Q : Owner(db, q) # s
    BY <1>2, <2>1 DEF TablesOf, RelsOf
  <2> HIDE DEF T, Q
  <2>4. Taken(db, T, {}, e)
    BY <2>2, <2>3, WithoutTakes
  <2>5. e \in Database
    BY <1>2, <2>2, <2>3, WithoutKeeps DEF IInv
  <2> HIDE DEF e
  <2>6. /\ f \in Database /\ f.tables = e.tables /\ f.columns = e.columns
        /\ \A q \in Rels : f.rels[q] = IF q \in Q THEN None ELSE e.rels[q]
    BY <2>3, <2>5, WithoutRelsEffect
  <2> HIDE DEF f
  <2>7. g.tables = f.tables /\ g.columns = f.columns /\ g.rels = f.rels
    BY <2>6, VersionEffect DEF Deleted
  <2> HIDE DEF g
  <2>8. \A q \in Rels : db.rels[q] # None /\ db.rels[q].schema = s => Placed(db, s, db.rels[q].ends)
    BY <1>2, ErrorFree
  <2>9. \A q \in Rels : g.rels[q] = e.rels[q] \/ (g.rels[q] = None /\ Owner(db, q) # s)
    BY <2>3, <2>6, <2>7
  <2>10. Part(g, s) = Part(db, s)
    BY <2>2, <2>3, <2>4, <2>6, <2>7, <2>8, <2>9, StandsAlone
  <2> QED
    BY <2>2, <2>10
<1>3. IInv /\ [Next]_vars =>
        [\A r \in Requests, s \in Schemas :
           /\ Owned(r) /\ request[r].schema # s /\ RelationshipErrors(s) = {}
           /\ DeleteSchema(r) \/ \E t \in Tables : DeleteTable(r, t)
           => Part(db', s) = Part(db, s)]_vars
  BY <1>1, <1>2
<1> QED
  BY <1>3, Invariant, PTL DEF Spec, ValidStandsAlone

\* After a replace that names only its own rows the schema has the tables and
\* relationships sent, exactly; its columns are those sent, where they were sent,
\* and those of the tables sent that the document left out.
THEOREM SavedReadsBack == Spec => ReplaceReadsBack
<1>1. ASSUME IInv, NEW r \in Requests, NEW doc \in Documents, Saves(r, doc)
      PROVE  ReadsBack(db, db', request[r].schema, doc)
  <2>1. PICK s \in Schemas : s = request[r].schema
    BY <1>1 DEF IInv, Bound, Saves, Owned
  <2> DEFINE w == Merged(db, s, doc)
             n == w.version[s] + 1
             g == [w EXCEPT !.version[s] = n]
  <2>2. /\ db' = (IF Exists(db, s) THEN g ELSE w) /\ db \in Database
        /\ ~ Misplaces(db, s, doc)
    BY <1>1, <2>1 DEF Saves, Replace, Change, Write, IInv, Types
  <2> HIDE DEF w
  <2>3. Replacing(db, s, doc, w)
    BY <2>2, MergedEffect DEF w
  <2>4. w \in Database /\ n \in Int
    BY <2>3 DEF Replacing, Database
  <2> HIDE DEF n
  <2>5. g.tables = w.tables /\ g.columns = w.columns /\ g.rels = w.rels
    BY <2>4, VersionEffect
  <2> HIDE DEF g
  <2>6. ReadsBack(db, w, s, doc)
    BY <2>2, <2>3, ReplacingReadsBack
  <2>7. ReadsBack(db, g, s, doc)
    BY <2>5, <2>6 DEF ReadsBack, TablesOf, RelsOf, Owner, Home
  <2> QED
    BY <2>1, <2>2, <2>6, <2>7
<1>2. IInv /\ [Next]_vars =>
        [\A r \in Requests : \A doc \in Documents :
           Saves(r, doc) => ReadsBack(db, db', request[r].schema, doc)]_vars
  BY <1>1
<1> QED
  BY <1>2, Invariant, PTL DEF Spec, ReplaceReadsBack
=============================================================================
