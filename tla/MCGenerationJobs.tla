-------------------------- MODULE MCGenerationJobs --------------------------
(* GenerationJobs on small instances: the constants are in the .cfg files. *)
EXTENDS GenerationJobs_proofs, TLC

\* Jobs, processes and requests are interchangeable for the safety runs; the
\* liveness run uses no symmetry.
Symmetry == Permutations(Jobs) \cup Permutations(Procs) \cup Permutations(Cancels)
=============================================================================
