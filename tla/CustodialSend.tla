--------------------------- MODULE CustodialSend ---------------------------
(***************************************************************************)
(* A custodial transfer, from the confirm button of the web and mobile     *)
(* apps to the chain (transaction.service.ts sendTransaction, send.tsx,    *)
(* SendScreen.tsx), and the self-signed one (createSigningRequest,         *)
(* confirmTransaction).                                                    *)
(*                                                                         *)
(* The server saves a row, broadcasts, then saves the hash.  Any of the    *)
(* three can fail, the pod can die, the node can take the transaction and  *)
(* not say so, and the app stops waiting after 20 seconds.  A confirmation *)
(* names any row of the user, custodial ones too, and saves the copy it    *)
(* has read: save() writes the columns in which the row differs from it.   *)
(***************************************************************************)
EXTENDS Naturals, FiniteSets

CONSTANTS
  MaxSends,     \* bound: custodial sends, one row each
  MaxReviews,   \* bound: transfers reviewed in the app
  SelfSigned,   \* rows of createSigningRequest
  SignedTxs,    \* transactions signed by the user
  Confirms,     \* confirmTransaction handlers in flight, over all replicas
  Chains,       \* chains of the wallet
  Platforms     \* the apps: "web", "mobile"

ASSUME BoundsAssumption == MaxSends \in Nat /\ MaxReviews \in Nat
ASSUME RowsAssumption   == SelfSigned \cap Nat = {} /\ SignedTxs \cap Nat = {}
ASSUME KindsAssumption  == Chains \subseteq {"ethereum", "polygon", "solana"}
                           /\ Platforms \subseteq {"web", "mobile"}

VARIABLES
  chain,     \* the chain of the sending wallet
  tx,        \* transactions: the row's status ("none": no row) and its hash
  handler,   \* per send, where sendTransaction is
  answer,    \* per send, what the server answered
  step, loc, \* where each confirmTransaction is; its row, the copy it read, what it pays
  onchain,   \* the payments the node accepted
  platform,  \* which app the user has
  attempt,   \* per send, the review it was confirmed in and what the app knows of it:
             \* "over" when it was declined, blocked, failed or left without an answer
  app        \* its screen, how many transfers were reviewed, `submitting', and whether
             \* the error it has is "blocked ... and was not sent"

vars == <<chain, tx, handler, answer, step, loc, onchain, platform, attempt, app>>

server == <<handler, answer>>
confirms == <<step, loc>>
client == <<platform, attempt, app>>

Sends    == 1..MaxSends
TxRows   == Sends \cup SelfSigned
Payments == Sends \cup SignedTxs   \* a send signs one transaction, named like the send
NoHash   == 0
Tx       == [status : {"none", "pending", "failed"}, hash : Payments \cup {NoHash}]
NoTx     == [status |-> "none", hash |-> NoHash]
Answers  == {"none", "sent", "blocked", "failed"}
NoLocal  == [row |-> 0, copy |-> NoTx, pays |-> NoHash]

TypeOK ==
  /\ chain \in Chains
  /\ tx \in [TxRows -> Tx]
  /\ handler \in [Sends -> {"idle", "screening", "broadcasting", "hashing",
                            "failing", "failingHashed", "over"}]
  /\ answer \in [Sends -> Answers]
  /\ step \in [Confirms -> {"idle", "screening", "hashing"}]
  /\ loc \in [Confirms -> [row : TxRows \cup {0}, copy : Tx, pays : Payments \cup {NoHash}]]
  /\ onchain \in SUBSET Payments
  /\ platform \in Platforms
  /\ attempt \in [Sends -> [at : {"none", "prompt", "waiting", "sent", "over"},
                            review : 0..MaxReviews]]
  /\ app \in [screen : {"edit", "review", "sent"}, review : 0..MaxReviews, submitting : BOOLEAN,
              blocked : BOOLEAN]

Fresh == [screen |-> "edit", review |-> 0, submitting |-> FALSE, blocked |-> FALSE]

Init ==
  /\ chain \in Chains
  /\ tx = [i \in TxRows |-> NoTx]
  /\ handler = [i \in Sends |-> "idle"]
  /\ answer = [i \in Sends |-> "none"]
  /\ step = [p \in Confirms |-> "idle"] /\ loc = [p \in Confirms |-> NoLocal]
  /\ onchain = {}
  /\ platform \in Platforms
  /\ attempt = [i \in Sends |-> [at |-> "none", review |-> 0]]
  /\ app = Fresh

(* getTxById, getUserTransactions *)
Recorded == {i \in TxRows : tx[i].status # "none"}

Go(i, place)    == handler' = [handler EXCEPT ![i] = place]
Reply(i, what)  == answer' = [answer EXCEPT ![i] = what] /\ Go(i, "over")

-----------------------------------------------------------------------------
(* The app: review validates recipient and amount; the mobile app clears the
   last error there, the web app keeps it ... *)
Review ==
  /\ app.screen = "edit" /\ app.review < MaxReviews
  /\ app' = [app EXCEPT !.screen = "review", !.review = @ + 1,
                        !.blocked = @ /\ platform = "web"]
  /\ UNCHANGED <<chain, tx, server, confirms, onchain, platform, attempt>>

(* Edit, and the mobile app's way back from the sent screen. *)
Edit ==
  /\ \/ app.screen = "review" /\ ~app.submitting
     \/ app.screen = "sent" /\ platform = "mobile"
  /\ app' = [app EXCEPT !.screen = "edit"]
  /\ UNCHANGED <<chain, tx, server, confirms, onchain, platform, attempt>>

(* The user leaves the page, or the app is killed: its answers are dropped. *)
Leave ==
  /\ app' = [Fresh EXCEPT !.review = app.review]
  /\ attempt' = [i \in Sends |-> IF attempt[i].at \in {"prompt", "waiting"}
                                  THEN [attempt[i] EXCEPT !.at = "over"] ELSE attempt[i]]
  /\ UNCHANGED <<chain, tx, server, confirms, onchain, platform>>

(* Definitions marked "Bug" are never used by the specification: each is the
   definition that follows it with a mistake, which some property must catch. *)

(* Bug: the button stays enabled while the transfer is posted. *)
PostsUnguarded(i, review) ==
  /\ attempt' = [attempt EXCEPT ![i] = [at |-> "waiting", review |-> review]]
  /\ app' = [app EXCEPT !.blocked = FALSE]
  /\ Go(i, "screening")

(* The transfer is posted, the button disabled, the error cleared. *)
Posts(i, review) ==
  /\ attempt' = [attempt EXCEPT ![i] = [at |-> "waiting", review |-> review]]
  /\ app' = [app EXCEPT !.submitting = TRUE, !.blocked = FALSE]
  /\ Go(i, "screening")

(* ... and confirm posts the transfer.  The mobile app asks the device first,
   with the button still enabled: what it posts is what was reviewed when the
   button was pressed. *)
Confirm(i) ==
  /\ app.screen = "review" /\ ~app.submitting
  /\ attempt[i].at = "none" /\ \A j \in 1..(i - 1) : attempt[j].at # "none"
  /\ \/ platform = "web" /\ Posts(i, app.review)
     \/ /\ platform = "mobile"
        /\ attempt' = [attempt EXCEPT ![i] = [at |-> "prompt", review |-> app.review]]
        /\ UNCHANGED <<handler, app>>
  /\ UNCHANGED <<chain, tx, answer, confirms, onchain, platform>>

(* confirmWithDevice: the user confirms there too, or does not. *)
Prompted(i) ==
  /\ attempt[i].at = "prompt"
  /\ \/ Posts(i, attempt[i].review)
     \/ attempt' = [attempt EXCEPT ![i].at = "over"] /\ UNCHANGED <<handler, app>>
  /\ UNCHANGED <<chain, tx, answer, confirms, onchain, platform>>

(* An answer enables the button, whatever else is in flight. *)
Answered(i) ==
  LET a == answer[i]
  IN /\ attempt[i].at = "waiting" /\ a # "none"
     /\ attempt' = [attempt EXCEPT ![i].at = IF a = "sent" THEN "sent" ELSE "over"]
     /\ app' = [app EXCEPT !.submitting = FALSE,
                           !.screen = IF a = "sent" THEN "sent" ELSE @,
                           !.blocked = IF a = "sent" THEN @ ELSE a = "blocked"]
     /\ UNCHANGED <<chain, tx, server, confirms, onchain, platform>>

(* 20 seconds pass, or the connection breaks: the answer is dropped. *)
TimesOut(i) ==
  /\ attempt[i].at = "waiting"
  /\ attempt' = [attempt EXCEPT ![i].at = "over"]
  /\ app' = [app EXCEPT !.submitting = FALSE, !.blocked = FALSE]
  /\ UNCHANGED <<chain, tx, server, confirms, onchain, platform>>

-----------------------------------------------------------------------------
(* sendTransaction: the sanctions check blocks the transfer ... *)
Blocked(i) ==
  /\ handler[i] = "screening"
  /\ Reply(i, "blocked")
  /\ UNCHANGED <<chain, tx, confirms, onchain, client>>

(* Bug: the transfer is broadcast before its row is saved. *)
SaveIntentLater(i) ==
  /\ handler[i] = "screening"
  /\ Go(i, "broadcasting")
  /\ UNCHANGED <<chain, tx, answer, confirms, onchain, client>>

(* ... or lets it through, to a signer for an EVM wallet and the row that
   records the intent; the check, the signer and the save can throw. *)
SaveIntent(i) ==
  /\ handler[i] = "screening"
  /\ \/ /\ chain \in {"ethereum", "polygon"}
        /\ tx' = [tx EXCEPT ![i].status = "pending"]
        /\ Go(i, "broadcasting")
        /\ UNCHANGED answer
     \/ Reply(i, "failed") /\ UNCHANGED tx
  /\ UNCHANGED <<chain, confirms, onchain, client>>

(* signer.sendTransaction: the node accepts the transaction or not, and the
   call returns its hash or throws. *)
Broadcast(i) ==
  /\ handler[i] = "broadcasting"
  /\ \/ onchain' = onchain \cup {i} /\ \E place \in {"hashing", "failing"} : Go(i, place)
     \/ Go(i, "failing") /\ UNCHANGED onchain
  /\ UNCHANGED <<chain, tx, answer, confirms, client>>

(* Bug: a hash that was not saved makes the row 'lost'. *)
SaveHashOrLose(i) ==
  /\ handler[i] = "hashing"
  /\ \E status \in {"pending", "lost"} : tx' = [tx EXCEPT ![i] = [status |-> status, hash |-> i]]
  /\ Reply(i, "sent")
  /\ UNCHANGED <<chain, confirms, onchain, client>>

(* Bug: the answer does not wait for the save. *)
ReplyBeforeSave(i) ==
  /\ handler[i] = "hashing"
  /\ Reply(i, "sent")
  /\ UNCHANGED <<chain, tx, confirms, onchain, client>>

(* The hash is saved and the client answered, or the save throws. *)
SaveHash(i) ==
  /\ handler[i] = "hashing"
  /\ \/ tx' = [tx EXCEPT ![i] = [status |-> "pending", hash |-> i]] /\ Reply(i, "sent")
     \/ Go(i, "failingHashed") /\ UNCHANGED <<tx, answer>>
  /\ UNCHANGED <<chain, confirms, onchain, client>>

(* The catch: the row becomes 'failed', with the hash if there is one; this
   save can throw too, and the client is told of the failure in any case. *)
SaveFailure(i) ==
  /\ handler[i] \in {"failing", "failingHashed"}
  /\ \/ tx' = [tx EXCEPT ![i] = [status |-> "failed",
                                 hash |-> IF handler[i] = "failingHashed" THEN i ELSE NoHash]]
     \/ UNCHANGED tx
  /\ Reply(i, "failed")
  /\ UNCHANGED <<chain, confirms, onchain, client>>

(* The pod dies: no answer, no catch. *)
Crash(i) ==
  /\ handler[i] \notin {"idle", "over"}
  /\ Go(i, "over")
  /\ UNCHANGED <<chain, tx, answer, confirms, onchain, client>>

-----------------------------------------------------------------------------
(* createSigningRequest saves a row. *)
Request(r) ==
  /\ tx[r].status = "none"
  /\ tx' = [tx EXCEPT ![r].status = "pending"]
  /\ UNCHANGED <<chain, server, confirms, onchain, client>>

At(p, place) == step' = [step EXCEPT ![p] = place]
Over(p)      == At(p, "idle") /\ loc' = [loc EXCEPT ![p] = NoLocal]

(* confirmTransaction reads any row of the user ... *)
ConfirmRead(p, r, t) ==
  /\ step[p] = "idle" /\ r \in Recorded
  /\ At(p, "screening")
  /\ loc' = [loc EXCEPT ![p] = [row |-> r, copy |-> tx[r], pays |-> t]]
  /\ UNCHANGED <<chain, tx, server, onchain, client>>

(* ... screens the destination of the signed transaction and makes the row
   'failed' when it is blocked ... *)
ConfirmBlocked(p) ==
  /\ step[p] = "screening"
  /\ tx' = [tx EXCEPT ![loc[p].row] = [loc[p].copy EXCEPT !.status = "failed"]]
  /\ Over(p)
  /\ UNCHANGED <<chain, server, onchain, client>>

(* ... or has the node take the transaction ... *)
ConfirmBroadcast(p) ==
  /\ step[p] = "screening"
  /\ onchain' = onchain \cup {loc[p].pays}
  /\ At(p, "hashing") \/ At(p, "idle")
  /\ loc' = [loc EXCEPT ![p] = IF step'[p] = "idle" THEN NoLocal ELSE @]
  /\ UNCHANGED <<chain, tx, server, client>>

(* ... and saves its hash over the one the row has. *)
ConfirmSave(p) ==
  /\ step[p] = "hashing"
  /\ tx' = [tx EXCEPT ![loc[p].row] = [status |-> "pending", hash |-> loc[p].pays]]
  /\ Over(p)
  /\ UNCHANGED <<chain, server, onchain, client>>

(* It throws anywhere, or its pod dies. *)
ConfirmEnds(p) ==
  /\ step[p] # "idle"
  /\ Over(p)
  /\ UNCHANGED <<chain, tx, server, onchain, client>>

Next ==
  \/ Review \/ Edit \/ Leave
  \/ \E i \in Sends : \/ Confirm(i) \/ Prompted(i) \/ Answered(i) \/ TimesOut(i)
                      \/ Blocked(i) \/ SaveIntent(i) \/ Broadcast(i) \/ SaveHash(i)
                      \/ SaveFailure(i) \/ Crash(i)
  \/ \E r \in SelfSigned : Request(r)
  \/ \E p \in Confirms : \/ \E r \in TxRows, t \in SignedTxs : ConfirmRead(p, r, t)
                         \/ ConfirmBlocked(p) \/ ConfirmBroadcast(p) \/ ConfirmSave(p)
                         \/ ConfirmEnds(p)

Spec == Init /\ [][Next]_vars

-----------------------------------------------------------------------------
(* "Persist the intent before broadcasting so we always have a record"
   (sendTransaction): whatever fails or dies, and whatever confirmations save
   over it, a custodial payment that is on the chain has its row. *)
RecordOfEveryPayment == onchain \cap Sends \subseteq Recorded

(* A hash that was answered is that of a payment on the chain, and its row
   shows it for good but for what confirmTransaction, called for that row,
   saves over it from a copy it has read before: the hash of the signed
   transaction it paid, or 'failed' and no hash (sendTransaction). *)
AnswerIsDurable ==
  \A i \in Sends : answer[i] = "sent" =>
    /\ i \in onchain
    /\ \/ tx[i].hash \in {i} \cup (SignedTxs \cap onchain)
       \/ tx[i] = [status |-> "failed", hash |-> NoHash]

(* The button of one review starts a further transfer only as a retry of one
   that was blocked, failed or has no answer, or, in the mobile app, beside
   one that is still on its way: never after one of that review was shown as
   sent, and in the web app never while one is posted (send.tsx confirm,
   SendScreen.tsx send). *)
RepeatsAreRetries ==
  [][\A i, j \in Sends :
       /\ attempt[i].at = "none" /\ attempt'[i].at # "none"
       /\ attempt[j].at # "none" /\ attempt[j].review = attempt'[i].review
       => \/ attempt[j].at = "over"
          \/ platform = "mobile" /\ attempt[j].at \in {"prompt", "waiting"}]_vars

-----------------------------------------------------------------------------
(* What the code's comments and texts say, and does not hold. *)

(* "Failed to send transaction" (sendTransaction's catch), which the app shows
   and the row records, means that the transfer was not made. *)
FailedIsNotSent == \A i \in Sends : tx[i].status = "failed" => i \notin onchain

(* A transfer that was reviewed once is made once: a retry after a time-out or
   a failure, or a second tap, makes it again (send.tsx, SendScreen.tsx). *)
PaidOnce == \A i, j \in onchain \cap Sends : attempt[i].review = attempt[j].review => i = j

(* "This transfer was blocked by OpenPrivy's compliance checks and was not
   sent" (send.tsx, SendScreen.tsx), shown of the transfer under review, which
   an earlier attempt may have made. *)
BlockedIsNotSent ==
  app.screen = "review" /\ app.blocked =>
    \A i \in onchain \cap Sends : attempt[i].review # app.review

(* A hash that was answered stays in the history (confirmTransaction). *)
AnsweredHashStays == \A i \in Sends : answer[i] = "sent" => tx[i].hash = i

(* A wallet's transfer is broadcast on the wallet's chain, the one the row
   records (sendTransaction handles "EVM chains (ethereum/polygon)"): the
   provider it asks for is Ethereum's. *)
Provider == "ethereum"
BroadcastOnItsChain == onchain # {} => chain = Provider
=============================================================================
