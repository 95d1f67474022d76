---------------------------- MODULE MCAccounts ----------------------------
(* Instances of Accounts for TLC. *)
EXTENDS Accounts, TLC

CONSTANTS e1, e2, w1, w2, p1, p2

Symmetry == Permutations(Emails) \cup Permutations(Identities) \cup Permutations(Procs)
=============================================================================
