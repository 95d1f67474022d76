---------------------------- MODULE MCSanctions ----------------------------
(* Instances of Sanctions for TLC. *)
EXTENDS Sanctions, TLC

CONSTANTS a1, a2, j1, j2, q1

Symmetry == Permutations(Addresses) \cup Permutations(Syncs)
=============================================================================
