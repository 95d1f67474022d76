-------------------------- MODULE MCCustodialSend --------------------------
(* Instances of CustodialSend for TLC. *)
EXTENDS CustodialSend, TLC

CONSTANTS r1, t1, t2, c1, c2

Symmetry == Permutations(SignedTxs) \cup Permutations(Confirms)
=============================================================================
