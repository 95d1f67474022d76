------------------------ MODULE CustodialSendProofs ------------------------
(***************************************************************************)
(* The safety properties of CustodialSend, for any number of sends,        *)
(* self-signed transfers and confirmations in flight, and for both apps.   *)
(* They are not inductive: what holds of the chain and of the answers      *)
(* follows from where the handlers are and from the copies they hold.      *)
(***************************************************************************)
EXTENDS CustodialSend, TLAPS

Places == {"idle", "screening", "broadcasting", "hashing", "failing", "failingHashed", "over"}
Steps  == {"idle", "screening", "hashing"}
Locals == [row : TxRows \cup {0}, copy : Tx, pays : Payments \cup {NoHash}]

(* A row, or a copy of it, shows the hash of its own payment, of a signed
   transaction that was paid, or none. *)
HashOK(i, t, paid) == t.hash \in {NoHash, i} \cup (SignedTxs \cap paid)

(* What the place of a send's handler tells: it broadcasts after its row was
   saved, saves a hash after the node took the payment, and has answered when
   it is over. *)
SendOK(i) ==
  /\ handler[i] \in {"broadcasting", "hashing", "failing", "failingHashed"} => i \in Recorded
  /\ handler[i] \in {"hashing", "failingHashed"} => i \in onchain
  /\ i \in onchain => i \in Recorded
  /\ answer[i] # "none" => handler[i] = "over"
  /\ answer[i] = "sent" => /\ i \in onchain
                           /\ \/ tx[i].hash \in {i} \cup (SignedTxs \cap onchain)
                              \/ tx[i] = [status |-> "failed", hash |-> NoHash]

(* A confirmation has a copy of a row that there is. *)
ConfirmOK(p) ==
  step[p] # "idle" => /\ loc[p].row \in Recorded /\ HashOK(loc[p].row, loc[p].copy, onchain)
                      /\ loc[p].pays \in SignedTxs
                      /\ step[p] = "hashing" => loc[p].pays \in onchain

(* What the app knows: reviews are counted, a send that was not posted has no
   handler, a review that was sent is not on the screen, and the web app posts
   one transfer at a time. *)
AppOK ==
  /\ app.screen = "review" => app.review # 0
  /\ \A i \in Sends :
       /\ attempt[i].at # "none" => attempt[i].review \in 1..app.review
       /\ attempt[i].at \in {"none", "prompt"} => handler[i] = "idle"
       /\ attempt[i].at = "sent" /\ attempt[i].review = app.review => app.screen # "review"
       /\ platform = "web" => /\ attempt[i].at # "prompt"
                              /\ attempt[i].at = "waiting" => app.submitting
  /\ platform = "web" => \A i, j \in Sends : attempt[i].at = "waiting" /\ attempt[j].at = "waiting"
                                             => i = j

IInv == /\ TypeOK
        /\ \A r \in TxRows : HashOK(r, tx[r], onchain)
        /\ \A i \in Sends : SendOK(i)
        /\ \A p \in Confirms : ConfirmOK(p)
        /\ AppOK

(* The rows and the payments of the two kinds of transfers are different. *)
LEMMA Apart ==
  /\ Sends \subseteq Nat \ {0} /\ Sends \subseteq TxRows /\ SelfSigned \subseteq TxRows
  /\ Sends \cap SelfSigned = {} /\ 0 \notin TxRows
  /\ Sends \subseteq Payments /\ SignedTxs \subseteq Payments /\ Sends \cap SignedTxs = {}
  /\ NoHash \notin Payments
BY BoundsAssumption, RowsAssumption DEF Sends, TxRows, Payments, NoHash

LEMMA Blank == NoTx \in Tx /\ NoLocal \in Locals
BY DEF NoTx, Tx, NoLocal, Locals

LEMMA InitIInv == Init => IInv
<1> SUFFICES ASSUME Init PROVE IInv
  OBVIOUS
<1>1. TypeOK
  BY Apart, Blank, BoundsAssumption DEF Init, TypeOK, Answers, Fresh, Locals
<1>2. (\A r \in TxRows : HashOK(r, tx[r], onchain)) /\ (\A p \in Confirms : ConfirmOK(p))
  BY DEF Init, HashOK, ConfirmOK, NoTx
<1>3. \A i \in Sends : SendOK(i)
  BY DEF Init, SendOK
<1>4. AppOK
  BY DEF Init, AppOK, Fresh
<1> QED BY <1>1, <1>2, <1>3, <1>4 DEF IInv

-----------------------------------------------------------------------------
(* The steps of the app touch no row; they start at most one handler. *)

LEMMA Screens ==
  ASSUME IInv, Review \/ Edit \/ Leave
  PROVE  IInv'
<1>1. UNCHANGED <<chain, tx, handler, answer, step, loc, onchain, platform>>
  BY DEF Review, Edit, Leave, server, confirms
<1>2. CASE Review \/ Edit
  <2>0. /\ app.review \in 0..MaxReviews /\ MaxReviews \in Nat
        /\ app.screen \in {"edit", "review", "sent"} /\ attempt' = attempt
    BY <1>2, BoundsAssumption DEF IInv, TypeOK, Review, Edit
  <2>1. \E screen \in {"edit", "review"}, review \in {app.review, app.review + 1}, b \in BOOLEAN :
          /\ app' = [app EXCEPT !.screen = screen, !.review = review, !.blocked = b]
          /\ review \in 0..MaxReviews
          /\ screen = "review" => review = app.review + 1
    <3>1. CASE Review
      <4> DEFINE b == app.blocked /\ platform = "web"
      <4>1. /\ app.review + 1 \in 0..MaxReviews /\ b \in BOOLEAN
            /\ app' = [app EXCEPT !.screen = "review", !.review = app.review + 1, !.blocked = b]
        BY <2>0, <3>1 DEF Review
      <4> QED BY <4>1
    <3>2. CASE Edit
      <4>1. app' = [app EXCEPT !.screen = "edit", !.review = app.review, !.blocked = app.blocked]
            /\ app.blocked \in BOOLEAN
        BY <3>2 DEF Edit, IInv, TypeOK
      <4> QED BY <2>0, <4>1
    <3> QED BY <1>2, <3>1, <3>2
  <2>2. TypeOK'
    BY <1>1, <2>0, <2>1 DEF IInv, TypeOK
  <2>3. /\ app'.submitting = app.submitting
        /\ \/ app'.screen = "review" /\ app'.review = app.review + 1
           \/ app'.screen = "edit" /\ app'.review \in {app.review, app.review + 1}
    BY <2>1 DEF IInv, TypeOK
  <2>4. AppOK'
    <3> SUFFICES ASSUME NEW i \in Sends
                 PROVE  /\ attempt[i].at # "none" => attempt[i].review \in 1..app'.review
                        /\ attempt[i].at = "sent" /\ attempt[i].review = app'.review
                              => app'.screen # "review"
      BY <1>1, <2>0, <2>3 DEF IInv, AppOK
    <3>1. attempt[i].at # "none" => attempt[i].review \in 1..app.review
      BY DEF IInv, AppOK
    <3> QED BY <2>0, <2>3, <3>1
  <2> QED BY <1>1, <2>2, <2>4 DEF IInv, HashOK, SendOK, ConfirmOK, Recorded
<1>3. CASE Leave
  <2>1. /\ app' = [Fresh EXCEPT !.review = app.review]
        /\ attempt' = [i \in Sends |-> IF attempt[i].at \in {"prompt", "waiting"}
                                       THEN [attempt[i] EXCEPT !.at = "over"] ELSE attempt[i]]
    BY <1>3 DEF Leave
  <2>2. app'.screen = "edit" /\ app'.review = app.review
    BY <2>1 DEF Fresh
  <2>3. \A i \in Sends : /\ attempt'[i].review = attempt[i].review
                         /\ attempt'[i].at \in {attempt[i].at, "over"}
                         /\ attempt'[i].at \notin {"prompt", "waiting"}
                         /\ attempt[i].at = "none" <=> attempt'[i].at = "none"
    BY <2>1 DEF IInv, TypeOK
  <2>4. TypeOK'
    BY <1>1, <2>1 DEF IInv, TypeOK, Fresh
  <2>5. AppOK'
    BY <1>1, <2>2, <2>3 DEF IInv, AppOK
  <2> QED BY <1>1, <2>4, <2>5 DEF IInv, HashOK, SendOK, ConfirmOK, Recorded
<1> QED BY <1>2, <1>3

(* Posting a transfer, by the app's one button. *)
LEMMA Post ==
  ASSUME IInv, NEW i \in Sends, NEW r \in 1..app.review, Posts(i, r),
         UNCHANGED <<chain, tx, answer, step, loc, onchain, platform>>,
         attempt[i].at \in {"none", "prompt"},
         (r = app.review /\ ~app.submitting) \/ attempt[i] = [at |-> "prompt", review |-> r]
  PROVE  IInv'
<1>1. /\ attempt' = [attempt EXCEPT ![i] = [at |-> "waiting", review |-> r]]
      /\ app' = [app EXCEPT !.submitting = TRUE, !.blocked = FALSE]
      /\ handler' = [handler EXCEPT ![i] = "screening"]
  BY DEF Posts, Go
<1>2. r \in 0..MaxReviews
  BY BoundsAssumption DEF IInv, TypeOK
<1>3. handler[i] = "idle"
  BY DEF IInv, AppOK
<1>4. TypeOK'
  BY <1>1, <1>2 DEF IInv, TypeOK
<1>5. \A j \in Sends : SendOK(j)'
  BY <1>1, <1>3 DEF IInv, TypeOK, SendOK, Recorded
<1>6. AppOK'
  <2>1. /\ app'.screen = app.screen /\ app'.review = app.review /\ app'.submitting
        /\ attempt'[i] = [at |-> "waiting", review |-> r]
        /\ \A j \in Sends \ {i} : attempt'[j] = attempt[j] /\ handler'[j] = handler[j]
    BY <1>1 DEF IInv, TypeOK
  <2>2. platform = "web" => \A j \in Sends : attempt[j].at # "waiting"
    BY DEF IInv, AppOK
  <2> QED BY <2>1, <2>2 DEF IInv, AppOK
<1> QED BY <1>1, <1>4, <1>5, <1>6 DEF IInv, HashOK, ConfirmOK, Recorded

LEMMA Attempts ==
  ASSUME IInv, NEW i \in Sends, Confirm(i) \/ Prompted(i) \/ Answered(i) \/ TimesOut(i)
  PROVE  IInv'
<1>0. UNCHANGED <<chain, tx, answer, step, loc, onchain, platform>>
  BY DEF Confirm, Prompted, Answered, TimesOut, server, confirms
<1>1. ASSUME NEW r \in 1..app.review, Posts(i, r), attempt[i].at \in {"none", "prompt"},
             (r = app.review /\ ~app.submitting) \/ attempt[i] = [at |-> "prompt", review |-> r]
      PROVE  IInv'
  BY <1>0, <1>1, Post
<1>2. CASE Confirm(i)
  <2>1. app.review \in 1..app.review /\ app.screen = "review" /\ attempt[i].at = "none"
        /\ ~app.submitting
    BY <1>2 DEF Confirm, IInv, TypeOK, AppOK
  <2>2. CASE Posts(i, app.review)
    BY <1>1, <2>1, <2>2
  <2>3. CASE /\ platform = "mobile" /\ UNCHANGED <<handler, app>>
             /\ attempt' = [attempt EXCEPT ![i] = [at |-> "prompt", review |-> app.review]]
    <3>1. TypeOK' /\ AppOK'
      BY <1>0, <2>1, <2>3 DEF IInv, TypeOK, AppOK
    <3> QED BY <1>0, <2>3, <3>1 DEF IInv, HashOK, SendOK, ConfirmOK, Recorded
  <2> QED BY <1>2, <2>2, <2>3 DEF Confirm
<1>3. CASE Prompted(i)
  <2>1. /\ attempt[i].at = "prompt" /\ attempt[i].review \in 1..app.review
        /\ attempt[i] = [at |-> "prompt", review |-> attempt[i].review]
    BY <1>3 DEF Prompted, IInv, TypeOK, AppOK
  <2>2. CASE Posts(i, attempt[i].review)
    BY <1>1, <2>1, <2>2
  <2>3. CASE attempt' = [attempt EXCEPT ![i].at = "over"] /\ UNCHANGED <<handler, app>>
    <3>0. /\ attempt'[i].at = "over" /\ attempt'[i].review = attempt[i].review
          /\ \A j \in Sends \ {i} : attempt'[j] = attempt[j]
      BY <2>3 DEF IInv, TypeOK
    <3>1. TypeOK'
      BY <1>0, <2>3 DEF IInv, TypeOK
    <3>2. AppOK'
      BY <1>0, <2>1, <2>3, <3>0 DEF IInv, AppOK
    <3> QED BY <1>0, <2>3, <3>1, <3>2 DEF IInv, HashOK, SendOK, ConfirmOK, Recorded
  <2> QED BY <1>3, <2>2, <2>3 DEF Prompted
<1>4. CASE Answered(i) \/ TimesOut(i)
  <2>1. /\ attempt[i].at = "waiting" /\ handler' = handler
        /\ \E at \in {"sent", "over"} :
             /\ attempt' = [attempt EXCEPT ![i].at = at]
             /\ app'.screen = IF at = "sent" THEN "sent" ELSE app.screen
        /\ app'.review = app.review /\ app' \in [screen : {"edit", "review", "sent"},
             review : 0..MaxReviews, submitting : BOOLEAN, blocked : BOOLEAN]
    <3>1. CASE Answered(i)
      BY <3>1 DEF Answered, IInv, TypeOK, server
    <3>2. CASE TimesOut(i)
      BY <3>2 DEF TimesOut, IInv, TypeOK, server
    <3> QED BY <1>4, <3>1, <3>2
  <2>2. TypeOK'
    BY <1>0, <2>1 DEF IInv, TypeOK
  <2>3. AppOK'
    BY <1>0, <2>1 DEF IInv, TypeOK, AppOK
  <2> QED BY <1>0, <2>1, <2>2, <2>3 DEF IInv, HashOK, SendOK, ConfirmOK, Recorded
<1> QED BY <1>2, <1>3, <1>4

-----------------------------------------------------------------------------
(* A step of one custodial send. *)
SendStep(i) == Blocked(i) \/ SaveIntent(i) \/ Broadcast(i) \/ SaveHash(i) \/ SaveFailure(i) \/ Crash(i)

LEMMA SendSteps ==
  ASSUME IInv, NEW i \in Sends, SendStep(i)
  PROVE  IInv'
<1> USE Apart
<1>0. /\ handler[i] \notin {"idle", "over"} /\ answer[i] = "none"
      /\ UNCHANGED <<chain, step, loc, platform, attempt, app>>
  BY DEF SendStep, Blocked, SaveIntent, Broadcast, SaveHash, SaveFailure, Crash, confirms, client,
         IInv, TypeOK, SendOK, Answers
<1>1. /\ \E place \in Places : handler' = [handler EXCEPT ![i] = place]
      /\ \E what \in Answers : answer' = [answer EXCEPT ![i] = what]
      /\ tx' = tx \/ \E t \in Tx : /\ tx' = [tx EXCEPT ![i] = t] /\ t.status # "none"
                                   /\ t.hash \in {tx[i].hash, i, NoHash}
      /\ onchain' \in {onchain, onchain \cup {i}}
  <2>0. /\ tx[i] \in Tx /\ answer = [answer EXCEPT ![i] = answer[i]] /\ answer[i] \in Answers
        /\ handler \in [Sends -> Places]
    BY DEF IInv, TypeOK, Places
  <2>1. CASE Blocked(i)
    BY <2>1 DEF Blocked, Reply, Go, Places, Answers
  <2>2. CASE SaveIntent(i)
    <3>1. tx' = tx \/ tx' = [tx EXCEPT ![i] = [tx[i] EXCEPT !.status = "pending"]]
      BY <2>2 DEF SaveIntent
    <3>2. /\ [tx[i] EXCEPT !.status = "pending"] \in Tx
          /\ [tx[i] EXCEPT !.status = "pending"].status # "none"
          /\ [tx[i] EXCEPT !.status = "pending"].hash = tx[i].hash
      BY <2>0 DEF Tx
    <3>3. /\ \E place \in Places : handler' = [handler EXCEPT ![i] = place]
          /\ \E what \in Answers : answer' = [answer EXCEPT ![i] = what]
          /\ onchain' = onchain
      BY <2>0, <2>2 DEF SaveIntent, Reply, Go, Places, Answers
    <3> QED BY <3>1, <3>2, <3>3
  <2>3. CASE Broadcast(i)
    BY <2>0, <2>3 DEF Broadcast, Go, Places
  <2>4. CASE SaveHash(i)
    <3>1. /\ [status |-> "pending", hash |-> i] \in Tx /\ "pending" # "none"
          /\ "over" \in Places /\ "failingHashed" \in Places /\ "sent" \in Answers
      BY DEF Tx, Places, Answers
    <3>2. CASE tx' = [tx EXCEPT ![i] = [status |-> "pending", hash |-> i]] /\ Reply(i, "sent")
      BY <2>4, <3>1, <3>2 DEF SaveHash, Reply, Go
    <3>3. CASE Go(i, "failingHashed") /\ UNCHANGED <<tx, answer>>
      BY <2>0, <2>4, <3>1, <3>3 DEF SaveHash, Go
    <3> QED BY <2>4, <3>2, <3>3 DEF SaveHash
  <2>5. CASE SaveFailure(i)
    <3> DEFINE t == [status |-> "failed", hash |-> IF handler[i] = "failingHashed" THEN i ELSE NoHash]
    <3>1. t \in Tx /\ t.status # "none" /\ t.hash \in {i, NoHash} /\ "over" \in Places /\ "failed" \in Answers
      BY DEF Tx, Places, Answers
    <3>2. /\ tx' = [tx EXCEPT ![i] = t] \/ tx' = tx
          /\ answer' = [answer EXCEPT ![i] = "failed"] /\ handler' = [handler EXCEPT ![i] = "over"]
          /\ onchain' = onchain
      BY <2>5 DEF SaveFailure, Reply, Go
    <3> HIDE DEF t
    <3> QED BY <3>1, <3>2
  <2>6. CASE Crash(i)
    BY <2>0, <2>6 DEF Crash, Go, Places
  <2> QED BY <2>1, <2>2, <2>3, <2>4, <2>5, <2>6 DEF SendStep
<1>2. TypeOK'
  BY <1>0, <1>1 DEF IInv, TypeOK, Places
<1>3. /\ \A r \in TxRows : HashOK(r, tx'[r], onchain') /\ (r \in Recorded => r \in Recorded')
      /\ \A p \in Confirms : ConfirmOK(p)'
  <2>1. \A r \in TxRows : tx'[r].hash \in {tx[r].hash, NoHash, r} /\ (r \in Recorded => r \in Recorded')
    BY <1>1 DEF IInv, TypeOK, Recorded
  <2>2. onchain \subseteq onchain'
    BY <1>1
  <2>3. \A r \in TxRows : HashOK(r, tx'[r], onchain')
    BY <2>1, <2>2 DEF IInv, HashOK
  <2>4. \A p \in Confirms : ConfirmOK(p)'
    BY <1>0, <2>1, <2>2 DEF IInv, ConfirmOK, HashOK, Recorded
  <2> QED BY <2>1, <2>3, <2>4
<1>4. ASSUME NEW j \in Sends PROVE SendOK(j)'
  <2>0. TypeOK /\ SendOK(j)
    BY DEF IInv
  <2>1. CASE j # i
    <3>1. /\ handler'[j] = handler[j] /\ answer'[j] = answer[j] /\ tx'[j] = tx[j]
          /\ (j \in onchain' <=> j \in onchain) /\ onchain \subseteq onchain'
      BY <1>1, <2>1, <2>0 DEF TypeOK
    <3> QED BY <2>0, <3>1 DEF SendOK, Recorded
  <2>2. CASE j = i
    <3>1. CASE Blocked(i)
      BY <1>0, <2>0, <2>2, <3>1 DEF TypeOK, SendOK, Recorded, Blocked, Go, Reply
    <3>2. CASE SaveIntent(i)
      BY <1>0, <2>0, <2>2, <3>2 DEF TypeOK, Tx, SendOK, Recorded, SaveIntent, Go, Reply
    <3>3. CASE Broadcast(i)
      BY <1>0, <2>0, <2>2, <3>3 DEF TypeOK, SendOK, Recorded, Broadcast, Go
    <3>4. CASE SaveHash(i)
      BY <1>0, <2>0, <2>2, <3>4 DEF TypeOK, SendOK, Recorded, SaveHash, Go, Reply
    <3>5. CASE SaveFailure(i)
      BY <1>0, <2>0, <2>2, <3>5 DEF TypeOK, SendOK, Recorded, SaveFailure, Go, Reply
    <3>6. CASE Crash(i)
      BY <1>0, <2>0, <2>2, <3>6 DEF TypeOK, SendOK, Recorded, Crash, Go
    <3> QED BY <3>1, <3>2, <3>3, <3>4, <3>5, <3>6 DEF SendStep
  <2> QED BY <2>1, <2>2
<1>5. AppOK'
  <2>1. \A j \in Sends : handler'[j] = handler[j] \/ j = i
    BY <1>1 DEF IInv, TypeOK
  <2> QED BY <1>0, <2>1 DEF IInv, AppOK
<1> QED BY <1>2, <1>3, <1>4, <1>5 DEF IInv

-----------------------------------------------------------------------------
(* A step of a self-signed transfer or of a confirmation: the row it saves is
   'failed', or shows what was paid. *)
LEMMA RowSaved ==
  ASSUME IInv, NEW r \in TxRows, NEW t \in Tx, HashOK(r, t, onchain), t.status # "none",
         t.status = "failed" \/ t.hash \in SignedTxs \cap onchain \/ r \notin Sends,
         tx' = [tx EXCEPT ![r] = t],
         UNCHANGED <<chain, handler, answer, onchain, platform, attempt, app>>
  PROVE  /\ tx' \in [TxRows -> Tx] /\ \A q \in TxRows : HashOK(q, tx'[q], onchain')
         /\ \A q \in Recorded : q \in Recorded'
         /\ \A i \in Sends : SendOK(i)'
<1>1. /\ tx' \in [TxRows -> Tx] /\ tx'[r] = t
      /\ \A q \in TxRows \ {r} : tx'[q] = tx[q]
  BY DEF IInv, TypeOK
<1>2. \A q \in Recorded : q \in Recorded'
  BY <1>1 DEF Recorded
<1>3. \A q \in TxRows : HashOK(q, tx'[q], onchain')
  BY <1>1 DEF IInv, HashOK
<1>4. ASSUME NEW i \in Sends PROVE SendOK(i)'
  <2>1. CASE i # r
    BY <1>1, <1>2, <2>1, Apart DEF IInv, SendOK
  <2>2. CASE i = r
    <3>1. \/ t.hash \in {i} \cup (SignedTxs \cap onchain)
          \/ t = [status |-> "failed", hash |-> NoHash]
      BY <2>2 DEF HashOK, Tx
    <3> QED BY <1>1, <1>2, <2>2, <3>1, Apart DEF IInv, SendOK
  <2> QED BY <2>1, <2>2
<1> QED BY <1>1, <1>2, <1>3, <1>4

LEMMA SelfSignedSteps ==
  ASSUME IInv, NEW r \in SelfSigned, Request(r)
  PROVE  IInv'
<1>1. /\ tx[r].status = "none" /\ tx' = [tx EXCEPT ![r] = [tx[r] EXCEPT !.status = "pending"]]
      /\ UNCHANGED <<chain, handler, answer, step, loc, onchain, platform, attempt, app>>
  BY DEF Request, server, confirms, client
<1> DEFINE t == [tx[r] EXCEPT !.status = "pending"]
<1>2. r \in TxRows /\ r \notin Sends /\ t \in Tx /\ t.status = "pending" /\ HashOK(r, t, onchain)
  BY Apart DEF IInv, TypeOK, Tx, HashOK
<1>3. tx' = [tx EXCEPT ![r] = t]
  BY <1>1
<1> HIDE DEF t
<1>4. /\ tx' \in [TxRows -> Tx] /\ \A q \in TxRows : HashOK(q, tx'[q], onchain')
      /\ \A q \in Recorded : q \in Recorded'
      /\ \A i \in Sends : SendOK(i)'
  BY <1>1, <1>2, <1>3, RowSaved
<1>5. \A p \in Confirms : ConfirmOK(p)'
  BY <1>1, <1>4 DEF IInv, ConfirmOK, HashOK
<1>6. TypeOK' /\ AppOK'
  BY <1>1, <1>4 DEF IInv, TypeOK, AppOK
<1> QED BY <1>4, <1>5, <1>6 DEF IInv

(* Where a confirmation goes. *)
LEMMA Moves ==
  ASSUME IInv, NEW p \in Confirms, NEW place \in Steps, NEW l \in Locals,
         step' = [step EXCEPT ![p] = place], loc' = [loc EXCEPT ![p] = l]
  PROVE  /\ step' \in [Confirms -> Steps] /\ loc' \in [Confirms -> Locals]
         /\ step'[p] = place /\ loc'[p] = l
         /\ \A q \in Confirms \ {p} : step'[q] = step[q] /\ loc'[q] = loc[q]
BY DEF IInv, TypeOK, Steps, Locals

LEMMA ConfirmSteps ==
  ASSUME IInv, NEW p \in Confirms, NEW r \in TxRows, NEW t \in SignedTxs,
         \/ ConfirmRead(p, r, t) \/ ConfirmBlocked(p) \/ ConfirmBroadcast(p)
         \/ ConfirmSave(p) \/ ConfirmEnds(p)
  PROVE  IInv'
<1> USE Apart
<1>0. UNCHANGED <<chain, handler, answer, platform, attempt, app>>
  BY DEF ConfirmRead, ConfirmBlocked, ConfirmBroadcast, ConfirmSave, ConfirmEnds, server, client
<1>1. ASSUME NEW place \in Steps, NEW l \in Locals,
             step' = [step EXCEPT ![p] = place], loc' = [loc EXCEPT ![p] = l],
             place # "idle" => /\ l.row \in Recorded /\ HashOK(l.row, l.copy, onchain') /\ l.pays \in SignedTxs
                               /\ place = "hashing" => l.pays \in onchain',
             tx' \in [TxRows -> Tx], \A q \in TxRows : HashOK(q, tx'[q], onchain'),
             \A q \in Recorded : q \in Recorded', \A i \in Sends : SendOK(i)',
             onchain \subseteq onchain', onchain' \in SUBSET Payments
      PROVE  IInv'
  <2>1. /\ step' \in [Confirms -> Steps] /\ loc' \in [Confirms -> Locals]
        /\ step'[p] = place /\ loc'[p] = l
        /\ \A q \in Confirms \ {p} : step'[q] = step[q] /\ loc'[q] = loc[q]
    BY <1>1, Moves
  <2>2. TypeOK'
    BY <1>0, <1>1, <2>1 DEF IInv, TypeOK, Steps, Locals
  <2>3. \A q \in Confirms : ConfirmOK(q)'
    <3> SUFFICES ASSUME NEW q \in Confirms PROVE ConfirmOK(q)'
      OBVIOUS
    <3>1. CASE q = p
      BY <1>1, <2>1, <3>1 DEF ConfirmOK
    <3>2. CASE q # p
      <4>1. ConfirmOK(q) /\ step'[q] = step[q] /\ loc'[q] = loc[q]
        BY <2>1, <3>2 DEF IInv
      <4> QED BY <1>1, <4>1 DEF ConfirmOK, HashOK
    <3> QED BY <3>1, <3>2
  <2>4. AppOK'
    BY <1>0 DEF IInv, AppOK
  <2> QED BY <1>1, <2>2, <2>3, <2>4 DEF IInv
<1>2. loc[p] \in Locals /\ NoLocal \in Locals /\ onchain \in SUBSET Payments
      /\ tx \in [TxRows -> Tx] /\ (step[p] # "idle" => loc[p].pays \in SignedTxs)
  BY Blank DEF IInv, TypeOK, Locals, ConfirmOK
<1>3. CASE ConfirmRead(p, r, t)
  <2> DEFINE l == [row |-> r, copy |-> tx[r], pays |-> t]
  <2>1. /\ r \in Recorded /\ step' = [step EXCEPT ![p] = "screening"]
        /\ loc' = [loc EXCEPT ![p] = l] /\ UNCHANGED <<tx, onchain>>
    BY <1>3 DEF ConfirmRead, At
  <2>2. l \in Locals /\ l.row \in Recorded /\ HashOK(l.row, l.copy, onchain') /\ l.pays \in SignedTxs
    BY <1>2, <2>1 DEF Locals, IInv, HashOK
  <2>3. (\A q \in TxRows : HashOK(q, tx'[q], onchain')) /\ (\A i \in Sends : SendOK(i)') /\ Recorded' = Recorded
    BY <1>0, <2>1 DEF IInv, HashOK, SendOK, Recorded
  <2> HIDE DEF l
  <2> QED BY <1>1, <1>2, <2>1, <2>2, <2>3 DEF Steps
<1>4. CASE ConfirmBlocked(p) \/ ConfirmSave(p)
  <2> DEFINE row == loc[p].row
             new == IF step[p] = "screening" THEN [loc[p].copy EXCEPT !.status = "failed"]
                    ELSE [status |-> "pending", hash |-> loc[p].pays]
  <2>1. /\ step[p] \in {"screening", "hashing"} /\ step' = [step EXCEPT ![p] = "idle"]
        /\ loc' = [loc EXCEPT ![p] = NoLocal] /\ onchain' = onchain
        /\ tx' = [tx EXCEPT ![row] = new]
    BY <1>4 DEF ConfirmBlocked, ConfirmSave, Over, At
  <2>2. /\ row \in TxRows /\ new \in Tx /\ HashOK(row, new, onchain) /\ new.status # "none"
        /\ new.status = "failed" \/ new.hash \in SignedTxs \cap onchain
    <3>1. /\ row \in Recorded /\ HashOK(row, loc[p].copy, onchain) /\ loc[p].pays \in SignedTxs
          /\ step[p] = "hashing" => loc[p].pays \in onchain
      BY <2>1 DEF IInv, ConfirmOK
    <3>2. loc[p].copy \in Tx
      BY <1>2 DEF Locals
    <3> QED BY <2>1, <3>1, <3>2 DEF Tx, HashOK, Recorded
  <2> HIDE DEF row, new
  <2>3. /\ tx' \in [TxRows -> Tx] /\ \A q \in TxRows : HashOK(q, tx'[q], onchain')
        /\ \A q \in Recorded : q \in Recorded'
        /\ \A i \in Sends : SendOK(i)'
    BY <1>0, <2>1, <2>2, RowSaved
  <2> QED BY <1>1, <1>2, <2>1, <2>3 DEF Steps
<1>5. CASE ConfirmBroadcast(p)
  <2>1. /\ step[p] = "screening" /\ onchain' = onchain \cup {loc[p].pays} /\ tx' = tx
        /\ \E place \in {"hashing", "idle"} :
             /\ step' = [step EXCEPT ![p] = place]
             /\ loc' = [loc EXCEPT ![p] = IF place = "idle" THEN NoLocal ELSE loc[p]]
    BY <1>5 DEF ConfirmBroadcast, At, IInv, TypeOK
  <2>2. loc[p].row \in Recorded /\ HashOK(loc[p].row, loc[p].copy, onchain) /\ loc[p].pays \in SignedTxs
    BY <2>1 DEF IInv, ConfirmOK
  <2>3. HashOK(loc[p].row, loc[p].copy, onchain') /\ onchain' \in SUBSET Payments /\ loc[p].pays \in onchain'
    BY <1>2, <2>1, <2>2 DEF HashOK
  <2>4. (\A q \in TxRows : HashOK(q, tx'[q], onchain')) /\ Recorded' = Recorded
    BY <2>1 DEF IInv, HashOK, Recorded
  <2>5. \A i \in Sends : SendOK(i)'
    <3>1. \A i \in Sends : (i \in onchain' <=> i \in onchain) /\ onchain \subseteq onchain'
      BY <2>1, <2>2
    <3> QED BY <1>0, <2>1, <2>4, <3>1 DEF IInv, SendOK
  <2> QED BY <1>1, <1>2, <2>1, <2>2, <2>3, <2>4, <2>5 DEF Steps
<1>6. CASE ConfirmEnds(p)
  <2>1. /\ step' = [step EXCEPT ![p] = "idle"] /\ loc' = [loc EXCEPT ![p] = NoLocal]
        /\ UNCHANGED <<tx, onchain>>
    BY <1>6 DEF ConfirmEnds, Over, At
  <2>2. (\A q \in TxRows : HashOK(q, tx'[q], onchain')) /\ (\A i \in Sends : SendOK(i)') /\ Recorded' = Recorded
    BY <1>0, <2>1 DEF IInv, HashOK, SendOK, Recorded
  <2> QED BY <1>1, <1>2, <2>1, <2>2 DEF Steps
<1> QED BY <1>3, <1>4, <1>5, <1>6

-----------------------------------------------------------------------------
LEMMA NextIInv == IInv /\ [Next]_vars => IInv'
<1> SUFFICES ASSUME IInv, [Next]_vars PROVE IInv'
  OBVIOUS
<1>1. ASSUME NEW i \in Sends,
             \/ Confirm(i) \/ Prompted(i) \/ Answered(i) \/ TimesOut(i)
             \/ SendStep(i)
      PROVE  IInv'
  BY <1>1, Attempts, SendSteps
<1>2. ASSUME NEW p \in Confirms,
             \/ \E r \in TxRows, t \in SignedTxs : ConfirmRead(p, r, t)
             \/ ConfirmBlocked(p) \/ ConfirmBroadcast(p) \/ ConfirmSave(p) \/ ConfirmEnds(p)
      PROVE  IInv'
  <2>1. step[p] # "idle" => loc[p].row \in TxRows /\ loc[p].pays \in SignedTxs
    BY DEF IInv, ConfirmOK, Recorded
  <2> QED BY <1>2, <2>1, ConfirmSteps DEF ConfirmBlocked, ConfirmBroadcast, ConfirmSave, ConfirmEnds
<1>3. CASE UNCHANGED vars
  BY <1>3 DEF vars, IInv, TypeOK, HashOK, SendOK, ConfirmOK, AppOK, Recorded
<1> QED BY <1>1, <1>2, <1>3, Screens, SelfSignedSteps DEF Next, SendStep

LEMMA Invariance == Spec => []IInv
BY InitIInv, NextIInv, PTL DEF Spec

-----------------------------------------------------------------------------
(* Every variable keeps its type. *)
THEOREM SendTypeCorrect == Spec => []TypeOK
<1>1. IInv => TypeOK BY DEF IInv
<1> QED BY <1>1, Invariance, PTL

(* Whatever fails or dies, and whatever confirmations save over it, a
   custodial payment the node took has its row (sendTransaction). *)
THEOREM PaymentsRecorded == Spec => []RecordOfEveryPayment
<1>1. IInv => RecordOfEveryPayment
  BY DEF IInv, SendOK, RecordOfEveryPayment
<1> QED BY <1>1, Invariance, PTL

(* A hash that was answered is on the chain and in its row, but for what a
   confirmation of that row saves over it: another payment's hash, or 'failed'
   and none (sendTransaction, confirmTransaction). *)
THEOREM AnswersLast == Spec => []AnswerIsDurable
<1>1. IInv => AnswerIsDurable
  BY DEF IInv, SendOK, AnswerIsDurable
<1> QED BY <1>1, Invariance, PTL

(* What a review's button starts beside an earlier attempt of that review: a
   retry, or in the mobile app a second one on its way (send.tsx confirm,
   SendScreen.tsx send). *)
LEMMA StartsRetry ==
  ASSUME IInv, [Next]_vars, NEW i \in Sends, NEW j \in Sends,
         attempt[i].at = "none", attempt'[i].at # "none",
         attempt[j].at # "none", attempt[j].review = attempt'[i].review
  PROVE  \/ attempt[j].at = "over"
         \/ platform = "mobile" /\ attempt[j].at \in {"prompt", "waiting"}
<1>1. Confirm(i)
  <2>1. ASSUME NEW k \in Sends, Confirm(k) \/ Prompted(k) \/ Answered(k) \/ TimesOut(k)
        PROVE  k = i
    <3>1. \A n \in Sends \ {k} : attempt'[n] = attempt[n]
      BY <2>1 DEF Confirm, Prompted, Posts, Answered, TimesOut, IInv, TypeOK
    <3> QED BY <3>1
  <2>2. ~(Prompted(i) \/ Answered(i) \/ TimesOut(i))
    BY DEF Prompted, Answered, TimesOut
  <2>3. ~Leave
    BY DEF Leave, IInv, TypeOK
  <2>4. attempt' # attempt
    OBVIOUS
  <2> QED BY <2>1, <2>2, <2>3, <2>4
          DEF Next, vars, client, Review, Edit, Blocked, SaveIntent, Broadcast, SaveHash, SaveFailure,
              Crash, Request, ConfirmRead, ConfirmBlocked, ConfirmBroadcast, ConfirmSave, ConfirmEnds
<1>2. app.screen = "review" /\ ~app.submitting /\ attempt'[i].review = app.review
  BY <1>1 DEF Confirm, Posts, IInv, TypeOK
<1>3. attempt[j].at # "sent" /\ (platform = "web" => attempt[j].at \notin {"prompt", "waiting"})
  BY <1>2 DEF IInv, AppOK
<1>4. platform \in {"web", "mobile"} /\ attempt[j].at \in {"none", "prompt", "waiting", "sent", "over"}
  BY KindsAssumption DEF IInv, TypeOK
<1> QED BY <1>3, <1>4

(* A transfer is paid twice only where a retry was left to the user, or two
   were on their way in the mobile app: never again once it was shown as sent,
   and in the web app never beside one that is posted. *)
THEOREM OnlyRetriesRepeat == Spec => RepeatsAreRetries
<1>1. IInv /\ [Next]_vars =>
        [\A i, j \in Sends :
           /\ attempt[i].at = "none" /\ attempt'[i].at # "none"
           /\ attempt[j].at # "none" /\ attempt[j].review = attempt'[i].review
           => \/ attempt[j].at = "over"
              \/ platform = "mobile" /\ attempt[j].at \in {"prompt", "waiting"}]_vars
  BY StartsRetry
<1> QED BY <1>1, Invariance, PTL DEF Spec, RepeatsAreRetries
=============================================================================
