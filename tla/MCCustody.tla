----------------------------- MODULE MCCustody -----------------------------
(* Instances of Custody for TLC. *)
EXTENDS Custody, TLC

CONSTANTS s1, s2

Symmetry == Permutations(Servers)
=============================================================================
