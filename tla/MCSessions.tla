----------------------------- MODULE MCSessions -----------------------------
(* Sessions on small instances: the constants are in the .cfg files. *)
EXTENDS Sessions_proofs, TLC

\* Pairs and requests are interchangeable.
Symmetry == Permutations(Pairs) \cup Permutations(Requests)
=============================================================================
