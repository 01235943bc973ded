---------------------------- MODULE MCSchemaStore ----------------------------
(* SchemaStore on small instances: the constants are in the .cfg files. *)
EXTENDS SchemaStore_proofs, TLC

\* Relationships between columns of two tables.
MCEnds == {e \in Place : e.source # e.target /\ e.sourceColumn # e.targetColumn}

\* The ids of each kind are interchangeable.
Symmetry ==
  Permutations(Schemas) \cup Permutations(Tables) \cup Permutations(Columns)
    \cup Permutations(Rels) \cup Permutations(Requests)
=============================================================================
