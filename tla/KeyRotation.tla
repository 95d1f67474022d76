---------------------------- MODULE KeyRotation ----------------------------
(***************************************************************************)
(* Rotation of the master key while wallets are served (key-rotation.ts,   *)
(* rotate-master-key.ts, master-key.loader.ts; DR_RUNBOOK.md, Scenario D). *)
(*                                                                         *)
(* The operator puts both keys in the secret, rolls the servers, runs the  *)
(* job until it prints SAFE_TO_RETIRE_PREVIOUS_KEYS, takes the old key out *)
(* of the secret and rolls the servers again.  The job reads a batch of    *)
(* rows that are not on the current key and rewrites each one unless its   *)
(* ciphertext has changed since.                                           *)
(***************************************************************************)
EXTENDS Custody

CONSTANTS
  NextKey,    \* the new master key
  BatchSize,  \* --batch-size
  MaxDeaths   \* bound: how often a running job dies

ASSUME NextKeyAssumption == NextKey \in Keys \ {FirstKey}
ASSUME BatchAssumption   == BatchSize \in Nat \ {0} /\ MaxDeaths \in Nat

VARIABLES
  secret,   \* the master-key secret: what a server or job that starts now loads
  job,      \* the running job: its step, cursor, batch and failures
  safe,     \* the last job printed SAFE_TO_RETIRE_PREVIOUS_KEYS
  deaths    \* how many jobs have died

rotation == <<secret, job, safe, deaths>>
allVars  == <<vars, rotation>>

NoJob == [step |-> "none", last |-> 0, batch |-> NoCopies, failed |-> FALSE]

Before == [current |-> FirstKey, previous |-> {}]
During == [current |-> NextKey, previous |-> {FirstKey}]
After  == [current |-> NextKey, previous |-> {}]

RotTypeOK ==
  /\ TypeOK
  /\ secret \in {Before, During, After}
  /\ job \in [step : {"none", "scan", "rotate", "count"}, last : Ids \cup {0},
              batch : [Ids -> Row], failed : BOOLEAN]
  /\ safe \in BOOLEAN
  /\ deaths \in 0..MaxDeaths

RotInit == Init /\ secret = Before /\ job = NoJob /\ safe = FALSE /\ deaths = 0

InBatch == {i \in Ids : job.batch[i].mode # "none"}

(* Software wallets whose tag is not the job's current key. *)
ToRotate == {i \in Ids : wallet[i].mode = "software" /\ wallet[i].keyId # NextKey}

-----------------------------------------------------------------------------
(* A server reads the secret when it starts; what it was doing is lost. *)
Restart(s) ==
  /\ conf[s] # secret
  /\ conf' = [conf EXCEPT ![s] = secret]
  /\ Done(s)
  /\ UNCHANGED <<wallet, token, locked, undone, rotation>>

(* Bug: the new key is listed as a previous one. *)
PublishTwice ==
  /\ secret = Before
  /\ secret' = [During EXCEPT !.previous = {NextKey}]
  /\ UNCHANGED <<vars, job, safe, deaths>>

PublishBoth ==
  /\ secret = Before
  /\ secret' = During
  /\ UNCHANGED <<vars, job, safe, deaths>>

(* Bug: the job is run while servers still write under the old key. *)
JobStartsDuringRollout ==
  /\ secret = During /\ job.step = "none" /\ ~safe
  /\ job' = [NoJob EXCEPT !.step = "scan"]
  /\ UNCHANGED <<vars, secret, safe, deaths>>

(* The runbook rolls the servers first; the job may be run again and again. *)
JobStart ==
  /\ secret = During /\ \A s \in Servers : conf[s] = During
  /\ job.step = "none" /\ ~safe
  /\ job' = [NoJob EXCEPT !.step = "scan"]
  /\ UNCHANGED <<vars, secret, safe, deaths>>

(* The next BatchSize rows in id order; an empty batch ends the loop. *)
JobScan ==
  LET rest  == {i \in ToRotate : i > job.last}
      batch == {i \in rest : Cardinality({j \in rest : j < i}) < BatchSize}
  IN /\ job.step = "scan"
     /\ job' = IF batch = {} THEN [job EXCEPT !.step = "count"]
               ELSE [job EXCEPT !.step  = "rotate",
                                !.last  = CHOOSE i \in batch : \A j \in batch : j <= i,
                                !.batch = [i \in Ids |-> IF i \in batch THEN wallet[i] ELSE NoRow]]
     /\ UNCHANGED <<vars, secret, safe, deaths>>

(* Bug: the end of the batch is missed. *)
NextInBatchStays(i, failed) ==
  job' = [job EXCEPT !.batch[i] = NoRow, !.failed = @ \/ failed]

(* The job is done with row i, and with the batch if it was the last. *)
NextInBatch(i, failed) ==
  job' = [job EXCEPT !.batch[i] = NoRow, !.failed = @ \/ failed,
                     !.step = IF InBatch = {i} THEN "scan" ELSE "rotate"]

(* It decrypts for the owner that was read, and is the wallet's key. *)
CanRotate(i) == /\ Opens(During, job.batch[i].cipher, job.batch[i].owner)
                /\ KeyMatchesAddress(job.batch[i])

(* Bug: the row that was read is saved whole. *)
RotateSavesRow(i) ==
  /\ job.step = "rotate" /\ i \in InBatch /\ CanRotate(i)
  /\ wallet' = [wallet EXCEPT ![i] = [job.batch[i] EXCEPT !.cipher.key = NextKey, !.keyId = NextKey]]
  /\ NextInBatch(i, FALSE)
  /\ UNCHANGED <<token, locked, undone, conf, pc, loc, secret, safe, deaths>>

(* UPDATE ... WHERE id = :id AND "encryptedPrivateKey" = :old. *)
Rotate(i) ==
  /\ job.step = "rotate" /\ i \in InBatch /\ CanRotate(i)
  /\ wallet[i].cipher = job.batch[i].cipher
  /\ wallet' = [wallet EXCEPT ![i].cipher = [user |-> job.batch[i].owner, key |-> NextKey],
                              ![i].keyId  = NextKey]
  /\ NextInBatch(i, FALSE)
  /\ UNCHANGED <<token, locked, undone, conf, pc, loc, secret, safe, deaths>>

(* The row does not decrypt, or was changed meanwhile: reported as failed. *)
RotateFails(i) ==
  /\ job.step = "rotate" /\ i \in InBatch
  /\ ~CanRotate(i) \/ wallet[i].cipher # job.batch[i].cipher
  /\ NextInBatch(i, TRUE)
  /\ UNCHANGED <<vars, secret, safe, deaths>>

(* The verdict: nothing failed and nothing is left on another key. *)
JobEnd ==
  /\ job.step = "count"
  /\ job' = NoJob
  /\ safe' = (~job.failed /\ ToRotate = {})
  /\ UNCHANGED <<vars, secret, deaths>>

JobDies ==
  /\ job.step # "none" /\ deaths < MaxDeaths
  /\ job' = NoJob
  /\ deaths' = deaths + 1
  /\ UNCHANGED <<vars, secret, safe>>

PublishNew ==
  /\ secret = During /\ safe
  /\ secret' = After
  /\ UNCHANGED <<vars, job, safe, deaths>>

JobStep == JobScan \/ JobEnd \/ \E i \in Ids : Rotate(i) \/ RotateFails(i)

RotNext ==
  \/ \E s \in Servers : Restart(s) \/ (Handle(s) /\ UNCHANGED rotation)
  \/ PublishBoth \/ PublishNew \/ JobStart \/ JobStep \/ JobDies

(* Kubernetes rolls the servers, the operator follows the runbook and runs
   the job again when it died or failed; requests come or not. *)
Fairness ==
  /\ WF_allVars(PublishBoth) /\ WF_allVars(PublishNew)
  /\ WF_allVars(JobStart) /\ WF_allVars(JobStep)
  /\ \A s \in Servers : WF_allVars(Restart(s))

RotSpec == RotInit /\ [][RotNext]_allVars /\ Fairness

-----------------------------------------------------------------------------
(* "Rows still under a retired key are permanently undecryptable" (runbook):
   every wallet opens for its owner with what is in the secret. *)
NothingLost ==
  \A i \in Ids : wallet[i].mode = "software" => Opens(secret, wallet[i].cipher, wallet[i].owner)

(* Only setRecoveryEmail's stale save can lose one, whatever creations,
   recoveries, restarts and dying jobs run meanwhile (rotateWallets, complete,
   createWallet). *)
OnlyStaleSaveLoses ==
  \A i \in Ids \ undone :
    wallet[i].mode = "software" => Opens(secret, wallet[i].cipher, wallet[i].owner)

(* Once the servers run with both keys, none encrypts under the old one: a row
   the job has passed comes back to it by a stale save alone (createWallet,
   complete, rotateWallets, setRecoveryEmail). *)
RotatedStaysRotated ==
  [][\A i \in Ids : wallet[i].mode = "software" /\ wallet[i].cipher.key = NextKey
       => wallet'[i].cipher.key = NextKey \/ i \in undone']_allVars

(* Rotation ends: the old key is retired and every server has forgotten it,
   though jobs die and rows change under them (rotateWallets, "safe to
   re-run"), unless recovery emails are saved for ever: each save may put the
   row back and fail the job. *)
EmailsCease  == <>[][\A s \in Servers : pc[s] = "saving" => UNCHANGED wallet]_allVars
RotationEnds == EmailsCease => <>[](secret = After /\ \A s \in Servers : conf[s] = After)
=============================================================================
