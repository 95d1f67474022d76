----------------------------- MODULE MCRecovery -----------------------------
(* Instances of Recovery for TLC. *)
EXTENDS RecoveryRefinement, RecoveryClaims, TLC

CONSTANTS g1, g2, g3, p1, p2, u1, u2

(* Nobody asks from a guardian's address ... *)
NoSharedEmail == [u \in Requesters |-> {}]
Symmetry == Permutations(Guardians) \cup Permutations(Procs) \cup Permutations(Requesters)

(* ... or u1 asks from the address of g1, which are then no longer like the others. *)
OneSharedEmail == [u \in Requesters |-> IF u = u1 THEN {g1} ELSE {}]
SharedSymmetry == Permutations(Guardians \ {g1}) \cup Permutations(Procs)
=============================================================================
