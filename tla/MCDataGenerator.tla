--------------------------- MODULE MCDataGenerator ---------------------------
(* DataGenerator on small schemas: the constants are in the .cfg file. *)
EXTENDS DataGenerator, TLC

CONSTANTS d, e, f

MCDraws  == {d, e}
MCValues == {d, e, f}

\* A suffix may turn a draw into another draw, and two draws into one value.
MCSuffixed == (d :> {e, f}) @@ (e :> {f})

\* Tables, strangers and relationships are interchangeable.
Symmetry == Permutations(Tables) \cup Permutations(Strangers) \cup Permutations(Rels)
=============================================================================
