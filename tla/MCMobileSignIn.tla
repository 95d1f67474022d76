--------------------------- MODULE MCMobileSignIn ---------------------------
(* Instances of MobileSignIn for TLC. *)
EXTENDS MobileSignIn
=============================================================================
