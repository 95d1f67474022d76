---------------------------- MODULE RecoveryClaims ----------------------------
(***************************************************************************)
(* What the design document and the comments say of social recovery that  *)
(* the handlers, run concurrently, do not keep.  Each has a run that shows *)
(* the counterexample.                                                     *)
(***************************************************************************)
EXTENDS Recovery

(* "The old account ... can cancel with one click" (design, time lock): once
   the cancel link has answered "cancelled", its request moves no wallets
   (cancelByToken, close, complete). *)
CancelHolds == \A r \in acked : moves[r] = 0

(* "One open request per old account" (design, abuse limits; startRequest). *)
OneOpenPerAccount == Cardinality(WithStatus(OpenStatuses)) <= 1

(* "Moves every wallet of the old account to the new one, in one transaction"
   (complete): wallets that left the old account are not moved again by the
   completion of a second request against it. *)
WalletsMoveOnce == [][holder' # holder => holder = Owner]_vars

(* "The old account's email ... notified at once, with a one-click cancel
   link" (design, request): the owner has the link before the quorum can
   start the time lock (startRequest's mails, decide). *)
OwnerHasCancelLink ==
  \A r \in Requests : req[r].status = "time_locked" => Owner \in mailed[r]

(* "wallets move after this unless cancelled" (RecoveryRequest.unlocksAt): a
   time-locked request is completed or cancelled, it does not expire
   (sweep, describeApproval). *)
MovesUnlessCancelled ==
  [][\A r \in Requests : req[r].status = "time_locked" => req'[r].status # "expired"]_vars

(* "Set when the account's wallets were recovered to another account; it can
   no longer sign in" (User.lockedAt): the lock outlives sign-ins in flight
   (loginWithWorkOs, complete). *)
RecoveredStaysLocked == holder # Owner => locked

(* "What the guardian sees before deciding. No side effects."
   (describeApproval). *)
DescribeHasNoEffect ==
  [][\A p \in Procs : loc[p].op = "describe" /\ loc'[p] # loc[p] => UNCHANGED <<req, token>>]_vars

(* "removing a guardian is immediate" (design, abuse limits): a guardian who
   was removed no longer votes (removeGuardian, decide). *)
RemovedGuardianHasNoVote ==
  [][\A p \in Procs : pc[p] = "idle" /\ pc'[p] = "deciding" => loc'[p].g \in active]_vars
=============================================================================
