---------------------------- MODULE MCConnections ----------------------------
(* Connections on small instances: the constants are in the .cfg files. *)
EXTENDS Connections_proofs, TLC

\* Connections, requests and servers are interchangeable.
Symmetry == Permutations(Conns) \cup Permutations(Requests) \cup Permutations(Servers)
=============================================================================
