--------------------------- MODULE MCKeyRotation ---------------------------
(* Instances of KeyRotation for TLC. *)
EXTENDS KeyRotation, TLC

CONSTANTS s1, s2

Symmetry == Permutations(Servers)
=============================================================================
