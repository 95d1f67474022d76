---------------------------- MODULE MCGuardians ----------------------------
(* Instances of Guardians for TLC. *)
EXTENDS Guardians, TLC

CONSTANTS e0, e1, e2, e3, p1, p2

Symmetry == Permutations(Emails \ {OwnerEmail}) \cup Permutations(Procs)
=============================================================================
