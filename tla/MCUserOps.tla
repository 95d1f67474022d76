------------------------------ MODULE MCUserOps ------------------------------
(* Instances of UserOps for TLC. *)
EXTENDS UserOps

CONSTANTS d1, d2, account, k1, k2, none, p1

(* A token's transfer, with two destinations, and a rotation of the owner. *)
SomeCallDatas ==
  {{[to |-> d1, args |-> {d2}, newOwner |-> none]}, {[to |-> account, args |-> {}, newOwner |-> k2]}}

(* The token is never listed; who gets it may be. *)
SomeLists == {{}, {d2}}

(* The factory's call for the account, and half an address. *)
SomeInitCodes == {Factory \o <<k1>>, <<Factory[1]>>}

(* A paymaster that names three limits anew, one of them its own. *)
SomeSponsorships ==
  {[callGasLimit |-> 2, preVerificationGas |-> 2, paymasterVerificationGasLimit |-> 1]}
=============================================================================
