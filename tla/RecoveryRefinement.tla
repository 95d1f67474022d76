-------------------------- MODULE RecoveryRefinement --------------------------
(***************************************************************************)
(* Recovery, with its handlers, stale copies and failures, keeps the       *)
(* promise of RecoveryPromise.                                             *)
(***************************************************************************)
EXTENDS Recovery

Granted == {r \in Requests : moves[r] > 0}

(* Completions that found the wallets in the old account and have not yet
   committed. *)
Begun == {r \in Requests : \E p \in Procs : pc[p] = "saving" /\ loc[p].r = r /\ loc[p].found}

Promise == INSTANCE RecoveryPromise WITH
             newUser <- [r \in Requests |-> req[r].newUser],
             granted <- Granted,
             begun <- Begun

(* Every behaviour of the recovery service, seen as votes, quorums, completions
   that overlap and wallets that move, is one the promise allows (startRequest, decide, complete). *)
KeepsPromise == Promise!Spec
=============================================================================
