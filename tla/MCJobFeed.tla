------------------------------ MODULE MCJobFeed ------------------------------
(* JobFeed on small instances: the constants are in the .cfg file.  Symmetry is *)
(* not used, since it is not sound for liveness.                             *)
EXTENDS JobFeed_proofs
=============================================================================
