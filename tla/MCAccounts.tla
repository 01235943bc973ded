----------------------------- MODULE MCAccounts -----------------------------
(* Accounts on small instances: the constants are in the .cfg files. *)
EXTENDS Accounts_proofs, TLC

CONSTANTS A, a, b

\* One e-mail that can be typed in two ways, and another.
MCEmails == {A, a, b}

MCLower == (A :> a) @@ (a :> a) @@ (b :> b)

\* Users, tokens and requests are interchangeable.
Symmetry == Permutations(Users) \cup Permutations(Tokens) \cup Permutations(Requests)
=============================================================================
