-------------------------- MODULE MCMigrationJobs --------------------------
(* MigrationJobs for TLC. *)
EXTENDS MigrationJobs

NoDb == {[tables |-> {}, fks |-> {}, indexes |-> {}]}

\* A database may hold tables of the schema, with or without foreign keys.
AnyDb ==
  {d \in Db :
     /\ \A f \in d.fks : {f.source, f.target} \subseteq d.tables
     /\ \A f, g \in d.fks : f.source = g.source /\ f.column = g.column => f = g
     /\ \A x \in d.indexes : x[1] \in d.tables}

\* Two found databases: an empty one, and one on which a downloaded script of a
\* schema with one relationship was run by hand.
FewDbs ==
  NoDb \cup {d \in AnyDb : \E r \in {s \in Relationship : s.source # s.target} :
               d = [tables |-> Tables, fks |-> {r}, indexes |-> {<<r.source, r.column>>}]}

Symmetry == Permutations(Tables) \cup Permutations(Jobs)
=============================================================================
