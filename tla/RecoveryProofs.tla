---------------------------- MODULE RecoveryProofs ----------------------------
(***************************************************************************)
(* The safety properties of Recovery, proved for every set of guardians,   *)
(* requesters and handlers, every number of requests and every value of    *)
(* the times.  IInv of Recovery is the inductive invariant; every other    *)
(* property is read off it.                                                *)
(***************************************************************************)
EXTENDS RecoveryRefinement, FiniteSetTheorems, TLAPS

USE GuardiansAssumption, OwnerAssumption, SameEmailAssumption, MinGuardiansAssumption,
    TimesAssumption, BoundsAssumption

-----------------------------------------------------------------------------
(* A threshold is more than half (thresholdFor). *)
LEMMA ThresholdIsMajority ==
  ASSUME NEW n \in Nat
  PROVE  ThresholdFor(n) \in Nat /\ 2 * ThresholdFor(n) > n
  BY DEF ThresholdFor

(* Sets of guardians are finite, and a larger one has no fewer members. *)
LEMMA GuardianSets ==
  ASSUME NEW T \in SUBSET Guardians, NEW S \in SUBSET T
  PROVE  /\ IsFiniteSet(S)
         /\ Cardinality(S) \in Nat
         /\ Cardinality(T) \in Nat
         /\ Cardinality(S) <= Cardinality(T)
  <1>1. IsFiniteSet(T)
    BY FS_Subset
  <1>2. QED
    BY <1>1, FS_Subset, FS_CardinalityType

(* Rows and local variables at rest have their types. *)
LEMMA RestTypes == NoRow \in Row /\ NoCopies \in [Requests -> Row] /\ NoLocal \in Local
  <1>1. NoRow \in Row
    BY DEF NoRow, Row, NoTime, OpenStatuses, ClosedStatuses
  <1>2. NoCopies \in [Requests -> Row]
    BY <1>1 DEF NoCopies
  <1>3. QED
    BY <1>1, <1>2 DEF NoLocal, Local, AllOps, NoRequest, Decisions

(* Goto changes the step and the local variables of one handler. *)
LEMMA GotoFacts ==
  ASSUME TypeOK, NEW p \in Procs, NEW s \in Steps, NEW l \in Local, Goto(p, s, l)
  PROVE  /\ pc' \in [Procs -> Steps]
         /\ loc' \in [Procs -> Local]
         /\ pc'[p] = s
         /\ loc'[p] = IF s = "idle" THEN NoLocal ELSE l
         /\ \A q \in Procs \ {p} : pc'[q] = pc[q] /\ loc'[q] = loc[q]
  BY RestTypes DEF Goto, TypeOK

(* What is copied from the table has the type of the table. *)
LEMMA CopiesType ==
  ASSUME TypeOK, NEW S
  PROVE  Copies(S) \in [Requests -> Row]
  BY RestTypes DEF Copies, TypeOK

(* Initially the invariant holds. *)
LEMMA InitIInv == Init => IInv
  <1> SUFFICES ASSUME Init PROVE IInv
    OBVIOUS
  <1> USE DEF Init
  <1>1. TypeOK
    <2>1. vote \in [Requests -> [Guardians -> Decisions \cup {"none", "pending"}]]
      OBVIOUS
    <2>2. /\ token \in [Requests -> SUBSET Guardians]
          /\ mailed \in [Requests -> SUBSET (Guardians \cup {Owner})]
      OBVIOUS
    <2>3. pc \in [Procs -> Steps] /\ loc \in [Procs -> Local]
      BY RestTypes DEF Steps
    <2>4. quorumAt \in [Requests -> Nat] /\ moves \in [Requests -> Nat]
      BY DEF NoTime
    <2>5. now \in 1..MaxTime
      OBVIOUS
    <2>6. QED
      BY <2>1, <2>2, <2>3, <2>4, <2>5, RestTypes DEF TypeOK
  <1>2. \A p \in Procs : LocalOK(p)
    BY DEF LocalOK, NoLocal, NoCopies
  <1>3. \A r \in Requests : Exclusive(r) /\ RowOK(r) /\ VotesOK(r)
    <2> SUFFICES ASSUME NEW r \in Requests PROVE Exclusive(r) /\ RowOK(r) /\ VotesOK(r)
      OBVIOUS
    <2>1. Exclusive(r)
      BY DEF Exclusive, Deciding, Moving
    <2>2. RowOK(r)
      BY DEF RowOK, NoCopies, NoRow, NoTime, Moving
    <2>3. VotesOK(r)
      BY DEF VotesOK, NoCopies, NoRow, NoTime, Moving
    <2>4. QED
      BY <2>1, <2>2, <2>3
  <1>4. HolderOK
    BY DEF HolderOK
  <1>5. QED
    BY <1>1, <1>2, <1>3, <1>4 DEF IInv

-----------------------------------------------------------------------------
(* A step that leaves the requests, the votes, the history and the wallets
   alone, and whose handler neither locks nor claims, preserves the rest of
   the invariant if what the handler now knows is true. *)
LEMMA QuietStep ==
  ASSUME IInv, NEW p \in Procs, NEW s \in Steps \ {"deciding", "moving", "saving"}, NEW l \in Local,
         Goto(p, s, l),
         UNCHANGED <<req, vote, quorumAt, moves, holder, now>>,
         token' \in [Requests -> SUBSET Guardians],
         mailed' \in [Requests -> SUBSET (Guardians \cup {Owner})],
         active' \in SUBSET Guardians, locked' \in BOOLEAN, acked' \in SUBSET Requests,
         s \in {"starting", "inserting"} =>
           /\ l.newUser \in Requesters
           /\ 2 * l.threshold > Cardinality(l.voters),
         s = "notifying" => l.r \in Requests,
         s # "idle" => \A r \in Requests : l.copy[r] # NoRow =>
           /\ req[r].status # "none"
           /\ l.copy[r].newUser = req[r].newUser
           /\ l.copy[r].threshold = req[r].threshold
  PROVE  IInv'
  <1> USE DEF IInv
  <1>0. /\ pc' \in [Procs -> Steps]
        /\ loc' \in [Procs -> Local]
        /\ pc'[p] = s
        /\ loc'[p] = IF s = "idle" THEN NoLocal ELSE l
        /\ \A q \in Procs \ {p} : pc'[q] = pc[q] /\ loc'[q] = loc[q]
    BY GotoFacts
  <1>1. TypeOK'
    BY <1>0 DEF TypeOK
  <1>2. ASSUME NEW q \in Procs PROVE LocalOK(q)'
    <2>1. CASE q = p
      BY <2>1, <1>0 DEF LocalOK, NoLocal, NoCopies
    <2>2. CASE q # p
      BY <2>2, <1>0 DEF LocalOK
    <2>3. QED
      BY <2>1, <2>2
  <1>3. ASSUME NEW q \in Procs, NEW r \in Requests
        PROVE  /\ Deciding(q, r)' => Deciding(q, r)
               /\ Moving(q, r)' => Moving(q, r)
    BY <1>0 DEF Deciding, Moving
  <1>4. ASSUME NEW r \in Requests PROVE (Exclusive(r) /\ RowOK(r) /\ VotesOK(r))'
    <2>1. Exclusive(r)'
      BY <1>3 DEF Exclusive
    <2>2. RowOK(r)'
      BY <1>3 DEF RowOK, Voters
    <2>3. VotesOK(r)'
      BY <1>3 DEF VotesOK, Approved
    <2>4. QED
      BY <2>1, <2>2, <2>3
  <1>5. HolderOK'
    BY DEF HolderOK
  <1>6. QED
    BY <1>1, <1>2, <1>4, <1>5


-----------------------------------------------------------------------------
(* The quiet steps, one by one. *)

(* startRequest, its reads: the threshold is a majority of the guardians that
   are active, hence of the voters among them. *)
LEMMA StartReads ==
  ASSUME IInv, NEW p \in Procs
  PROVE  /\ \A u \in Requesters : StartRead(p, u) => IInv'
         /\ StartCheck(p) => IInv'
  <1> USE DEF rows, history
  <1>1. ASSUME NEW u \in Requesters, StartRead(p, u) PROVE IInv'
    <2> DEFINE voters    == active \ SameEmail[u]
               threshold == ThresholdFor(Cardinality(active))
               l == [NoLocal EXCEPT !.op = "start", !.newUser = u,
                                    !.voters = voters, !.threshold = threshold]
    <2>1. active \in SUBSET Guardians
      BY DEF IInv, TypeOK
    <2>2. /\ Cardinality(voters) \in Nat
          /\ Cardinality(active) \in Nat
          /\ Cardinality(voters) <= Cardinality(active)
      BY <2>1, GuardianSets
    <2>3. threshold \in Nat /\ 2 * threshold > Cardinality(active)
      BY <2>2, ThresholdIsMajority
    <2>4. l \in Local /\ l.voters = voters /\ l.threshold = threshold /\ l.newUser = u
      <3> HIDE DEF voters, threshold
      <3>1. voters \in SUBSET Guardians
        BY <2>1 DEF voters
      <3>2. QED
        BY <3>1, <2>3, RestTypes DEF Local, NoLocal, AllOps
    <2>5. \A r \in Requests : l.copy[r] = NoRow
      BY DEF NoLocal, NoCopies
    <2>6. Goto(p, "starting", l)
      BY <1>1 DEF StartRead
    <2>7. 2 * l.threshold > Cardinality(l.voters)
      <3> HIDE DEF l, voters, threshold
      <3>1. QED
        BY <2>2, <2>3, <2>4
    <2>8. UNCHANGED <<req, vote, token, mailed, active, holder, locked, now, history>>
      BY <1>1 DEF StartRead
    <2>9. QED
      <3> HIDE DEF l, voters, threshold
      <3> "starting" \in Steps \ {"deciding", "moving", "saving"}
        BY DEF Steps
      <3>1. QED
        BY <2>4, <2>5, <2>6, <2>7, <2>8, QuietStep DEF IInv, TypeOK
  <1>2. ASSUME StartCheck(p) PROVE IInv'
    <2> DEFINE s == IF Blocked THEN "idle" ELSE "inserting"
    <2>1. s \in Steps \ {"deciding", "moving", "saving"}
      BY DEF Steps
    <2>2. Goto(p, s, loc[p]) /\ pc[p] = "starting"
      BY <1>2 DEF StartCheck
    <2>3. loc[p] \in Local /\ LocalOK(p)
      BY DEF IInv, TypeOK
    <2>4. s # "notifying"
      OBVIOUS
    <2>5. UNCHANGED <<req, vote, token, mailed, active, holder, locked, now, history>>
      BY <1>2 DEF StartCheck
    <2>6. QED
      <3> HIDE DEF s
      <3>1. QED
        BY <2>1, <2>2, <2>3, <2>4, <2>5, QuietStep DEF IInv, TypeOK, LocalOK
  <1>3. QED
    BY <1>1, <1>2

(* startRequest's mails. *)
LEMMA StartNotifies ==
  ASSUME IInv, NEW p \in Procs
  PROVE  /\ \A g \in Guardians : StartNotifyGuardian(p, g) => IInv'
         /\ StartNotifyOwner(p) => IInv'
  <1> USE DEF rows, history
  <1>0. TypeOK /\ LocalOK(p)
    BY DEF IInv
  <1>1. ASSUME NEW g \in Guardians, StartNotifyGuardian(p, g) PROVE IInv'
    <2> DEFINE l == [loc[p] EXCEPT !.voters = @ \ {g}]
    <2>1. l \in Local /\ l.r = loc[p].r /\ l.copy = loc[p].copy
      <3>1. loc[p] \in Local
        BY <1>0 DEF TypeOK
      <3>2. loc[p].voters \ {g} \in SUBSET Guardians
        BY <3>1 DEF Local
      <3>3. QED
        BY <3>1, <3>2 DEF Local
    <2>2. Goto(p, "notifying", l) /\ pc[p] = "notifying"
      BY <1>1 DEF StartNotifyGuardian
    <2>3. mailed' \in [Requests -> SUBSET (Guardians \cup {Owner})]
      BY <1>0, <1>1 DEF TypeOK, StartNotifyGuardian
    <2>4. UNCHANGED <<req, vote, token, active, holder, locked, now, history>>
      BY <1>1 DEF StartNotifyGuardian
    <2>5. "notifying" \in Steps \ {"deciding", "moving", "saving"}
      BY DEF Steps
    <2>6. QED
      <3> HIDE DEF l
      <3>1. QED
        BY <1>0, <2>1, <2>2, <2>3, <2>4, <2>5, QuietStep DEF TypeOK, LocalOK
  <1>2. ASSUME StartNotifyOwner(p) PROVE IInv'
    <2>1. mailed' \in [Requests -> SUBSET (Guardians \cup {Owner})]
      BY <1>0, <1>2 DEF TypeOK, StartNotifyOwner
    <2>2. "idle" \in Steps \ {"deciding", "moving", "saving"}
      BY DEF Steps
    <2>3. QED
      BY <1>0, <1>2, <2>1, <2>2, RestTypes, QuietStep DEF TypeOK, StartNotifyOwner
  <1>3. QED
    BY <1>1, <1>2

(* Handlers that begin with a copy of some rows: the copies are the rows. *)
LEMMA CopyStep ==
  ASSUME IInv, NEW p \in Procs, NEW s \in {"closing", "sweeping", "idle"}, NEW S, NEW l \in Local,
         Goto(p, s, l),
         l.copy = Copies(S),
         UNCHANGED <<rows, mailed, active, holder, locked, now, history>>
  PROVE  IInv'
  <1>1. s \in Steps \ {"deciding", "moving", "saving"}
    BY DEF Steps
  <1>2. \A r \in Requests : Copies(S)[r] = NoRow \/ Copies(S)[r] = req[r]
    BY DEF Copies
  <1>3. ASSUME NEW r \in Requests, Copies(S)[r] # NoRow
        PROVE  req[r].status # "none" /\ Copies(S)[r] = req[r]
    BY <1>2, <1>3 DEF IInv, RowOK
  <1>4. QED
    BY <1>1, <1>3, QuietStep DEF IInv, TypeOK, rows, history

(* The reads of the cancels, of the sweep and of describeApproval. *)
LEMMA CopyReads ==
  ASSUME IInv, NEW p \in Procs
  PROVE  /\ \A r \in Requests : CancelRead(p, r) => IInv'
         /\ \A r \in Requests, g \in Guardians : DescribeRead(p, r, g) => IInv'
         /\ SignInFind(p) => IInv'
         /\ SweepRead(p) => IInv'
  <1>0. TypeOK
    BY DEF IInv
  <1>1. ASSUME NEW S PROVE Copies(S) \in [Requests -> Row]
    BY <1>0, CopiesType
  <1>2. ASSUME NEW S, NEW op \in AllOps, NEW r \in Requests \cup {NoRequest}
        PROVE  LET l == [NoLocal EXCEPT !.op = op, !.r = r, !.copy = Copies(S)]
               IN  l \in Local /\ l.copy = Copies(S)
    BY <1>1, RestTypes DEF Local, NoLocal
  <1>3. ASSUME NEW r \in Requests, CancelRead(p, r) PROVE IInv'
    <2> DEFINE l == [NoLocal EXCEPT !.op = "cancel", !.copy = Copies({r})]
    <2>1. l \in Local /\ l.copy = Copies({r})
      BY <1>1, RestTypes DEF Local, NoLocal, AllOps
    <2>2. Goto(p, "closing", l) /\ UNCHANGED <<rows, mailed, active, holder, locked, now, history>>
      BY <1>3 DEF CancelRead
    <2>3. QED
      <3> HIDE DEF l
      <3>1. QED
        BY <2>1, <2>2, CopyStep
  <1>4. ASSUME NEW r \in Requests, NEW g \in Guardians, DescribeRead(p, r, g) PROVE IInv'
    <2> DEFINE l == [NoLocal EXCEPT !.op = "describe", !.r = r, !.copy = Copies({r})]
    <2>1. l \in Local /\ l.copy = Copies({r})
      BY <1>2 DEF AllOps
    <2>2. Goto(p, "closing", l) /\ UNCHANGED <<rows, mailed, active, holder, locked, now, history>>
      BY <1>4 DEF DescribeRead
    <2>3. QED
      <3> HIDE DEF l
      <3>1. QED
        BY <2>1, <2>2, CopyStep
  <1>5. ASSUME SignInFind(p) PROVE IInv'
    <2> DEFINE open == WithStatus({"awaiting_approvals", "time_locked"})
               s == IF open = {} THEN "idle" ELSE "closing"
               l == [loc[p] EXCEPT !.copy = Copies(open)]
    <2>1. l \in Local /\ l.copy = Copies(open)
      <3> HIDE DEF open
      <3>1. loc[p] \in Local
        BY <1>0 DEF TypeOK
      <3>2. QED
        BY <1>1, <3>1 DEF Local
    <2>2. Goto(p, s, l) /\ UNCHANGED <<rows, mailed, active, holder, locked, now, history>>
      BY <1>5 DEF SignInFind
    <2>3. s \in {"closing", "sweeping", "idle"}
      OBVIOUS
    <2>4. QED
      <3> HIDE DEF l, s, open
      <3>1. QED
        BY <2>1, <2>2, <2>3, CopyStep
  <1>6. ASSUME SweepRead(p) PROVE IInv'
    <2> DEFINE stale == {r \in WithStatus({"awaiting_approvals"}) : req[r].expireAt <= now}
               s == IF stale = {} THEN "sweeping" ELSE "closing"
               l == [NoLocal EXCEPT !.op = "sweep", !.copy = Copies(stale)]
    <2>1. l \in Local /\ l.copy = Copies(stale)
      <3> HIDE DEF stale
      <3>1. QED
        BY <1>1, RestTypes DEF Local, NoLocal, AllOps
    <2>2. Goto(p, s, l) /\ UNCHANGED <<rows, mailed, active, holder, locked, now, history>>
      BY <1>6 DEF SweepRead
    <2>3. s \in {"closing", "sweeping", "idle"}
      OBVIOUS
    <2>4. QED
      <3> HIDE DEF l, s, stale
      <3>1. QED
        BY <2>1, <2>2, <2>3, CopyStep
  <1>7. QED
    BY <1>3, <1>4, <1>5, <1>6

(* Handlers that keep the copies they have, and those that end. *)
LEMMA KeepStep ==
  ASSUME IInv, NEW p \in Procs,
         NEW s \in {"idle", "signingIn", "signedIn", "claiming"}, NEW l \in Local,
         Goto(p, s, l),
         s # "idle" => l.copy \in {NoCopies, loc[p].copy},
         token' \in [Requests -> SUBSET Guardians], locked' \in BOOLEAN,
         UNCHANGED <<req, vote, mailed, active, holder, now, history>>
  PROVE  IInv'
  <1>1. s \in Steps \ {"deciding", "moving", "saving"}
    BY DEF Steps
  <1>2. \A r \in Requests : NoCopies[r] = NoRow
    BY DEF NoCopies
  <1>3. ASSUME NEW r \in Requests, s # "idle", l.copy[r] # NoRow
        PROVE  /\ req[r].status # "none"
               /\ l.copy[r].newUser = req[r].newUser
               /\ l.copy[r].threshold = req[r].threshold
    BY <1>2, <1>3 DEF IInv, LocalOK
  <1>4. QED
    BY <1>1, <1>3, QuietStep DEF IInv, TypeOK, history

LEMMA KeepSteps ==
  ASSUME IInv, NEW p \in Procs
  PROVE  /\ SignInRead(p) => IInv'
         /\ SignInSave(p) => IInv'
         /\ DescribeRevoke(p) => IInv'
         /\ SweepDue(p) => IInv'
         /\ \A u \in Requesters : CurrentRead(p, u) => IInv'
         /\ \A r \in Requests : ClaimFails(p, r) => IInv'
         /\ Abort(p) => IInv'
         /\ \A r \in Requests : LeakClaim(p, r) => IInv'
  <1>0. TypeOK /\ LocalOK(p) /\ loc[p] \in Local
    BY DEF IInv, TypeOK
  <1> USE DEF rows
  <1>1. ASSUME SignInRead(p) PROVE IInv'
    <2> DEFINE l == [NoLocal EXCEPT !.op = "signIn"]
    <2>1. l \in Local /\ l.copy = NoCopies
      BY RestTypes DEF Local, NoLocal, AllOps
    <2>2. PICK s \in {"signingIn", "signedIn"} : Goto(p, s, l)
      BY <1>1 DEF SignInRead
    <2>3. QED
      <3> HIDE DEF l
      <3>1. QED
        BY <1>0, <1>1, <2>1, <2>2, KeepStep DEF SignInRead, TypeOK
  <1>2. ASSUME SignInSave(p) PROVE IInv'
    BY <1>0, <1>2, KeepStep DEF SignInSave, TypeOK
  <1>3. ASSUME DescribeRevoke(p) PROVE IInv'
    <2>1. token' \in [Requests -> SUBSET Guardians]
      BY <1>0, <1>3 DEF DescribeRevoke, TypeOK
    <2>2. QED
      BY <1>0, <1>3, <2>1, RestTypes, KeepStep DEF DescribeRevoke, TypeOK
  <1>4. ASSUME SweepDue(p) PROVE IInv'
    <2> DEFINE due == {r \in Requests : Due(r)}
               s == IF due = {} THEN "idle" ELSE "claiming"
               l == [loc[p] EXCEPT !.due = due]
    <2>1. l \in Local /\ l.copy = loc[p].copy
      <3>1. due \in SUBSET Requests
        OBVIOUS
      <3> HIDE DEF due
      <3>2. QED
        BY <1>0, <3>1 DEF Local
    <2>2. Goto(p, s, l) /\ s \in {"idle", "claiming"}
      BY <1>4 DEF SweepDue
    <2>3. QED
      <3> HIDE DEF l, s, due
      <3>1. QED
        BY <1>0, <1>4, <2>1, <2>2, KeepStep DEF SweepDue, TypeOK
  <1>5. ASSUME NEW u \in Requesters, CurrentRead(p, u) PROVE IInv'
    <2>1. PICK r \in Requests :
            Goto(p, "claiming", [NoLocal EXCEPT !.op = "current", !.due = {r}])
      BY <1>5 DEF CurrentRead
    <2> DEFINE l == [NoLocal EXCEPT !.op = "current", !.due = {r}]
    <2>2. l \in Local /\ l.copy = NoCopies
      BY RestTypes DEF Local, NoLocal, AllOps
    <2>3. Goto(p, "claiming", l)
      BY <2>1
    <2>4. QED
      <3> HIDE DEF l
      <3>1. QED
        BY <1>0, <1>5, <2>2, <2>3, KeepStep DEF CurrentRead, TypeOK
  <1>6. ASSUME NEW r \in Requests, ClaimFails(p, r) PROVE IInv'
    <2> DEFINE due == loc[p].due \ {r}
               s == IF due = {} THEN "idle" ELSE "claiming"
               l == [loc[p] EXCEPT !.r = NoRequest, !.due = due, !.copy = NoCopies, !.found = FALSE]
    <2>1. l \in Local /\ l.copy = NoCopies
      <3>1. due \in SUBSET Requests
        BY <1>0 DEF Local
      <3> HIDE DEF due
      <3>2. QED
        BY <1>0, <3>1, RestTypes DEF Local
    <2>2. Goto(p, s, l) /\ s \in {"idle", "claiming"}
      BY <1>6 DEF ClaimFails, AfterComplete
    <2>3. QED
      <3> HIDE DEF l, s, due
      <3>1. QED
        BY <1>0, <1>6, <2>1, <2>2, KeepStep DEF ClaimFails, TypeOK
  <1>7. ASSUME Abort(p) PROVE IInv'
    BY <1>0, <1>7, RestTypes, KeepStep DEF Abort, TypeOK
  <1>8. ASSUME NEW r \in Requests, LeakClaim(p, r) PROVE IInv'
    BY <1>0, <1>8, RestTypes, KeepStep DEF LeakClaim, TypeOK
  <1>9. QED
    BY <1>1, <1>2, <1>3, <1>4, <1>5, <1>6, <1>7, <1>8

-----------------------------------------------------------------------------
(* The steps that change a request, its votes, or its claim. *)

(* removeGuardian and the passage of time. *)
LEMMA OutsideSteps ==
  ASSUME IInv
  PROVE  /\ \A g \in Guardians : RemoveGuardian(g) => IInv'
         /\ Tick => IInv'
  <1>1. ASSUME NEW g \in Guardians, RemoveGuardian(g) PROVE IInv'
    <2> USE <1>1 DEF RemoveGuardian, rows, history
    <2>1. TypeOK'
      BY DEF IInv, TypeOK
    <2>2. \A p \in Procs : LocalOK(p)'
      BY DEF IInv, LocalOK
    <2>3. ASSUME NEW r \in Requests PROVE (Exclusive(r) /\ RowOK(r) /\ VotesOK(r))'
      <3>0. Exclusive(r) /\ RowOK(r) /\ VotesOK(r)
        BY DEF IInv
      <3>1. Exclusive(r)'
        BY <3>0 DEF Exclusive, Deciding, Moving
      <3>2. RowOK(r)'
        BY <3>0 DEF RowOK, Moving, Voters
      <3>3. VotesOK(r)'
        BY <3>0 DEF VotesOK, Moving, Approved
      <3>4. QED
        BY <3>1, <3>2, <3>3
    <2>4. HolderOK'
      BY DEF IInv, HolderOK
    <2>5. QED
      BY <2>1, <2>2, <2>3, <2>4 DEF IInv
  <1>2. ASSUME Tick PROVE IInv'
    <2> USE <1>2 DEF Tick, rows, history
    <2>1. TypeOK'
      BY DEF IInv, TypeOK
    <2>2. \A p \in Procs : LocalOK(p)'
      BY DEF IInv, LocalOK
    <2>3. ASSUME NEW r \in Requests PROVE (Exclusive(r) /\ RowOK(r) /\ VotesOK(r))'
      <3>0. Exclusive(r) /\ RowOK(r) /\ VotesOK(r)
        BY DEF IInv
      <3>1. Exclusive(r)'
        BY <3>0 DEF Exclusive, Deciding, Moving
      <3>2. RowOK(r)'
        BY <3>0 DEF RowOK, Moving, Voters
      <3>3. now \in Nat /\ now' = now + 1 /\ quorumAt[r] \in Nat
        BY DEF IInv, TypeOK
      <3>4. VotesOK(r)'
        BY <3>0, <3>3 DEF VotesOK, Moving, Approved
      <3>5. QED
        BY <3>1, <3>2, <3>4
    <2>4. HolderOK'
      BY DEF IInv, HolderOK
    <2>5. QED
      BY <2>1, <2>2, <2>3, <2>4 DEF IInv
  <1>3. QED
    BY <1>1, <1>2

(* startRequest's transaction takes a row that nothing refers to yet. *)
LEMMA StartInserts ==
  ASSUME IInv, NEW p \in Procs, StartInsert(p)
  PROVE  IInv'
  <1> USE DEF rows, history
  <1>0. TypeOK /\ LocalOK(p) /\ loc[p] \in Local /\ pc[p] = "inserting"
    BY DEF IInv, TypeOK, StartInsert
  <1>1. PICK r \in Requests :
          /\ req[r] = NoRow
          /\ req' = [req EXCEPT ![r] =
                       [status    |-> "awaiting_approvals",
                        newUser   |-> loc[p].newUser,
                        threshold |-> loc[p].threshold,
                        expireAt  |-> now + ApprovalWindow,
                        unlocksAt |-> NoTime,
                        closedAt  |-> NoTime]]
          /\ vote' = [vote EXCEPT ![r] =
                       [g \in Guardians |-> IF g \in loc[p].voters THEN "pending" ELSE "none"]]
          /\ token' = [token EXCEPT ![r] = loc[p].voters]
          /\ Goto(p, "notifying", [loc[p] EXCEPT !.r = r])
    BY DEF StartInsert
  <1> DEFINE row == [status    |-> "awaiting_approvals",
                     newUser   |-> loc[p].newUser,
                     threshold |-> loc[p].threshold,
                     expireAt  |-> now + ApprovalWindow,
                     unlocksAt |-> NoTime,
                     closedAt  |-> NoTime]
             ballot == [g \in Guardians |-> IF g \in loc[p].voters THEN "pending" ELSE "none"]
             l == [loc[p] EXCEPT !.r = r]
  <1>2. /\ row \in Row /\ row.status = "awaiting_approvals"
        /\ row.newUser = loc[p].newUser /\ row.threshold = loc[p].threshold
    BY <1>0 DEF Row, Local, TypeOK, NoTime, OpenStatuses
  <1>3. l \in Local /\ l.r = r /\ l.copy = loc[p].copy
    BY <1>0 DEF Local
  <1>4. /\ ballot \in [Guardians -> Decisions \cup {"none", "pending"}]
        /\ \A g \in Guardians : ballot[g] \in {"none", "pending"}
        /\ {g \in Guardians : ballot[g] # "none"} = loc[p].voters
    BY <1>0 DEF Local
  <1>5. /\ req' = [req EXCEPT ![r] = row]
        /\ vote' = [vote EXCEPT ![r] = ballot]
        /\ Goto(p, "notifying", l)
        /\ UNCHANGED <<mailed, active, holder, locked, now, history>>
    BY <1>1 DEF StartInsert
  <1>6. token' \in [Requests -> SUBSET Guardians]
    BY <1>0, <1>1 DEF TypeOK, Local
  <1> HIDE DEF row, ballot, l
  <1>7. /\ pc' \in [Procs -> Steps]
        /\ loc' \in [Procs -> Local]
        /\ pc'[p] = "notifying"
        /\ loc'[p] = l
        /\ \A q \in Procs \ {p} : pc'[q] = pc[q] /\ loc'[q] = loc[q]
    BY <1>0, <1>3, <1>5, GotoFacts DEF Steps
  <1>8. /\ req[r].status = "none"
        /\ \A s \in Requests \ {r} : req'[s] = req[s] /\ vote'[s] = vote[s]
        /\ req'[r] = row /\ vote'[r] = ballot
    BY <1>0, <1>1, <1>5 DEF TypeOK, NoRow
  <1>9. \A q \in Procs : /\ loc[q].copy[r] = NoRow
                         /\ ~Deciding(q, r)
                         /\ ~Moving(q, r)
    BY <1>8 DEF IInv, LocalOK, RowOK, Deciding
  <1>10. \A q \in Procs, s \in Requests : /\ Deciding(q, s)' => Deciding(q, s)
                                          /\ Moving(q, s)' => Moving(q, s)
    BY <1>7 DEF Deciding, Moving
  <1>11. TypeOK'
    BY <1>0, <1>2, <1>4, <1>5, <1>6, <1>7 DEF TypeOK
  <1>12. ASSUME NEW q \in Procs PROVE LocalOK(q)'
    <2>1. CASE q = p
      BY <2>1, <1>0, <1>3, <1>7, <1>8, <1>9 DEF LocalOK
    <2>2. CASE q # p
      <3>1. LocalOK(q) /\ pc'[q] = pc[q] /\ loc'[q] = loc[q]
        BY <2>2, <1>7 DEF IInv
      <3>2. pc[q] = "deciding" => loc[q].r # r
        BY <1>9 DEF Deciding
      <3>3. QED
        BY <3>1, <3>2, <1>5, <1>8, <1>9 DEF LocalOK
    <2>3. QED
      BY <2>1, <2>2
  <1>13. ASSUME NEW s \in Requests PROVE (Exclusive(s) /\ RowOK(s) /\ VotesOK(s))'
    <2>0. Exclusive(s) /\ RowOK(s) /\ VotesOK(s)
      BY DEF IInv
    <2>1. Exclusive(s)'
      BY <2>0, <1>10 DEF Exclusive
    <2>2. CASE s = r
      <3>1. RowOK(r)'
        <4>1. Voters(r)' = loc[p].voters
          BY <1>4, <1>8 DEF Voters
        <4>2. loc[p].newUser \in Requesters /\ 2 * loc[p].threshold > Cardinality(loc[p].voters)
          BY <1>0 DEF LocalOK
        <4>3. QED
          BY <2>0, <2>2, <4>1, <4>2, <1>2, <1>5, <1>8, <1>9, <1>10 DEF RowOK
      <3>2. VotesOK(r)'
        BY <2>0, <2>2, <1>2, <1>4, <1>5, <1>8, <1>9, <1>10 DEF VotesOK, RowOK
      <3>3. QED
        BY <2>1, <2>2, <3>1, <3>2
    <2>3. CASE s # r
      BY <2>0, <2>1, <2>3, <1>5, <1>8, <1>10 DEF RowOK, VotesOK, Voters, Approved
    <2>4. QED
      BY <2>2, <2>3
  <1>14. HolderOK'
    <2>1. moves[r] = 0
      BY <1>8 DEF IInv, RowOK
    <2>2. QED
      BY <2>1, <1>5, <1>8 DEF IInv, HolderOK
  <1>15. QED
    BY <1>11, <1>12, <1>13, <1>14 DEF IInv

(* The other steps change one existing request r.  It keeps its requester and
   its threshold, so the copies other handlers hold stay good; what is left to
   show is what the step does to r and to its own handler. *)
LEMMA OneRowStep ==
  ASSUME IInv, NEW p \in Procs, NEW r \in Requests, NEW s \in Steps, NEW l \in Local,
         Goto(p, s, l), now' = now,
         \A x \in Requests \ {r} : /\ req'[x] = req[x] /\ vote'[x] = vote[x]
                                   /\ quorumAt'[x] = quorumAt[x] /\ moves'[x] = moves[x],
         s \in {"deciding", "moving", "saving"} => l.r = r,
         req[r].status # "none", req'[r].status # "none",
         req'[r].newUser = req[r].newUser, req'[r].threshold = req[r].threshold,
         \A q \in Procs \ {p} : Deciding(q, r) =>
            req'[r].status = "awaiting_approvals" /\ vote'[r] = vote[r],
         holder # Owner => holder' # Owner,
         TypeOK', LocalOK(p)', (Exclusive(r) /\ RowOK(r) /\ VotesOK(r))', HolderOK'
  PROVE  IInv'
  <1>1. /\ pc'[p] = s
        /\ loc'[p] = IF s = "idle" THEN NoLocal ELSE l
        /\ \A q \in Procs \ {p} : pc'[q] = pc[q] /\ loc'[q] = loc[q]
    BY GotoFacts DEF IInv
  <1>2. ASSUME NEW q \in Procs \ {p} PROVE LocalOK(q)'
    <2>1. LocalOK(q) /\ pc'[q] = pc[q] /\ loc'[q] = loc[q]
      BY <1>1 DEF IInv
    <2>2. ASSUME pc[q] = "deciding"
          PROVE  /\ req'[loc[q].r].status = "awaiting_approvals"
                 /\ vote'[loc[q].r][loc[q].g] = "pending"
      <3>1. CASE loc[q].r = r
        BY <2>1, <2>2, <3>1 DEF Deciding, LocalOK
      <3>2. CASE loc[q].r # r
        BY <2>1, <2>2, <3>2 DEF LocalOK
      <3>3. QED
        BY <3>1, <3>2
    <2>3. ASSUME NEW x \in Requests, loc[q].copy[x] # NoRow
          PROVE  /\ req'[x].status # "none"
                 /\ loc[q].copy[x].newUser = req'[x].newUser
                 /\ loc[q].copy[x].threshold = req'[x].threshold
      BY <2>1, <2>3 DEF LocalOK
    <2>4. QED
      BY <2>1, <2>2, <2>3 DEF LocalOK
  <1>3. ASSUME NEW x \in Requests \ {r} PROVE (Exclusive(x) /\ RowOK(x) /\ VotesOK(x))'
    <2>0. Exclusive(x) /\ RowOK(x) /\ VotesOK(x)
      BY DEF IInv
    <2>1. \A q \in Procs : /\ Deciding(q, x)' => Deciding(q, x)
                           /\ Moving(q, x)' => Moving(q, x)
      BY <1>1 DEF Deciding, Moving
    <2>2. Exclusive(x)'
      BY <2>0, <2>1 DEF Exclusive
    <2>3. RowOK(x)'
      <3>1. /\ req'[x] = req[x] /\ vote'[x] = vote[x]
            /\ quorumAt'[x] = quorumAt[x] /\ moves'[x] = moves[x]
        OBVIOUS
      <3>2. Voters(x)' = Voters(x)
        BY <3>1 DEF Voters
      <3>3. QED
        BY <2>0, <2>1, <3>1, <3>2 DEF RowOK
    <2>4. VotesOK(x)'
      <3>1. /\ req'[x] = req[x] /\ vote'[x] = vote[x] /\ now' = now
            /\ quorumAt'[x] = quorumAt[x] /\ moves'[x] = moves[x]
        OBVIOUS
      <3>2. Approved(x)' = Approved(x)
        BY <3>1 DEF Approved
      <3>3. QED
        BY <2>0, <2>1, <3>1, <3>2 DEF VotesOK
    <2>5. QED
      BY <2>2, <2>3, <2>4
  <1>4. QED
    BY <1>2, <1>3 DEF IInv

(* decide takes its lock. *)
LEMMA DecideLocks ==
  ASSUME IInv, NEW p \in Procs, NEW r \in Requests, NEW g \in Guardians, NEW d \in Decisions,
         DecideLock(p, r, g, d)
  PROVE  IInv'
  <1> DEFINE l == [NoLocal EXCEPT !.op = "decide", !.r = r, !.g = g, !.decision = d]
  <1>0. TypeOK /\ Exclusive(r) /\ RowOK(r) /\ VotesOK(r) /\ HolderOK
    BY DEF IInv
  <1>1. /\ l \in Local /\ l.r = r /\ l.g = g /\ l.decision = d
        /\ \A x \in Requests : l.copy[x] = NoRow
    BY RestTypes DEF Local, NoLocal, AllOps, NoCopies
  <1>2. /\ pc[p] = "idle" /\ vote[r][g] = "pending" /\ ~RowLocked(r)
        /\ req[r].status = "awaiting_approvals"
        /\ Goto(p, "deciding", l)
        /\ UNCHANGED <<req, vote, token, mailed, active, holder, locked, now, quorumAt, moves, acked>>
    BY DEF DecideLock, Idle, rows, history
  <1> HIDE DEF l
  <1>3. "deciding" \in Steps
    BY DEF Steps
  <1>4. /\ pc' \in [Procs -> Steps] /\ loc' \in [Procs -> Local]
        /\ pc'[p] = "deciding" /\ loc'[p] = l
        /\ \A q \in Procs \ {p} : pc'[q] = pc[q] /\ loc'[q] = loc[q]
    BY <1>0, <1>1, <1>2, <1>3, GotoFacts
  <1>5. TypeOK'
    BY <1>0, <1>2, <1>4 DEF TypeOK
  <1>6. LocalOK(p)'
    BY <1>1, <1>2, <1>4 DEF LocalOK
  <1>7. \A q \in Procs : /\ Deciding(q, r)' => q = p
                         /\ Moving(q, r)' => Moving(q, r)
    BY <1>2, <1>4 DEF Deciding, Moving, RowLocked
  <1>8. (Exclusive(r) /\ RowOK(r) /\ VotesOK(r))'
    <2>1. Exclusive(r)'
      BY <1>0, <1>7 DEF Exclusive
    <2>2. RowOK(r)'
      BY <1>0, <1>2, <1>7 DEF RowOK, Voters
    <2>3. VotesOK(r)'
      BY <1>0, <1>2, <1>7 DEF VotesOK, Approved
    <2>4. QED
      BY <2>1, <2>2, <2>3
  <1>9. HolderOK'
    BY <1>0, <1>2 DEF HolderOK
  <1>10. \A q \in Procs : ~Deciding(q, r)
    BY <1>2 DEF Deciding, RowLocked
  <1>11. QED
    BY <1>1, <1>2, <1>3, <1>5, <1>6, <1>8, <1>9, <1>10, OneRowStep

(* What decide has locked: a waiting request nobody else decides or moves, and
   a vote that replaces a pending one. *)
LEMMA LockedFacts ==
  ASSUME IInv, NEW p \in Procs, NEW r \in Requests, pc[p] = "deciding", loc[p].r = r, Cast(p, r)
  PROVE  /\ loc[p].g \in Guardians /\ loc[p].decision \in Decisions
         /\ req[r].status = "awaiting_approvals"
         /\ quorumAt[r] = NoTime /\ moves[r] = 0
         /\ \A g \in Guardians : vote[r][g] # "declined"
         /\ \A q \in Procs : (Deciding(q, r) => q = p) /\ ~Moving(q, r)
         /\ vote' \in [Requests -> [Guardians -> Decisions \cup {"none", "pending"}]]
         /\ \A x \in Requests \ {r} : vote'[x] = vote[x]
         /\ \A g \in Guardians : vote'[r][g] = IF g = loc[p].g THEN loc[p].decision ELSE vote[r][g]
         /\ Voters(r)' = Voters(r)
         /\ Voters(r) \in SUBSET Guardians
  <1>0. TypeOK /\ LocalOK(p) /\ Exclusive(r) /\ RowOK(r) /\ VotesOK(r)
    BY DEF IInv
  <1>1. /\ loc[p].g \in Guardians /\ loc[p].decision \in Decisions
        /\ req[r].status = "awaiting_approvals"
        /\ vote[r][loc[p].g] = "pending"
    BY <1>0 DEF LocalOK
  <1>2. quorumAt[r] = NoTime /\ moves[r] = 0 /\ \A g \in Guardians : vote[r][g] # "declined"
    BY <1>0, <1>1 DEF RowOK, VotesOK
  <1>3. \A q \in Procs : (Deciding(q, r) => q = p) /\ ~Moving(q, r)
    BY <1>0, <1>1 DEF RowOK, Exclusive, Deciding
  <1>4. /\ vote' \in [Requests -> [Guardians -> Decisions \cup {"none", "pending"}]]
        /\ \A x \in Requests \ {r} : vote'[x] = vote[x]
        /\ \A g \in Guardians : vote'[r][g] = IF g = loc[p].g THEN loc[p].decision ELSE vote[r][g]
    BY <1>0, <1>1 DEF Cast, TypeOK
  <1>5. Voters(r)' = Voters(r) /\ Voters(r) \in SUBSET Guardians
    BY <1>1, <1>4 DEF Voters, Decisions
  <1>6. QED
    BY <1>1, <1>2, <1>3, <1>4, <1>5

(* decide commits: a decline, an approval, the approval that makes the quorum. *)
LEMMA DecideCommits ==
  ASSUME IInv, NEW p \in Procs, NEW r \in Requests, Decline(p, r) \/ Approve(p, r) \/ ApproveLast(p, r)
  PROVE  IInv'
  <1> USE DEF history
  <1>0. TypeOK /\ Exclusive(r) /\ RowOK(r) /\ VotesOK(r) /\ HolderOK
    BY DEF IInv
  <1>1. /\ pc[p] = "deciding" /\ loc[p].r = r /\ Cast(p, r)
        /\ Goto(p, "idle", NoLocal)
        /\ UNCHANGED <<mailed, active, holder, locked, now, moves, acked>>
    BY DEF Decline, Approve, ApproveLast
  <1>2. /\ loc[p].g \in Guardians /\ loc[p].decision \in Decisions
        /\ req[r].status = "awaiting_approvals"
        /\ quorumAt[r] = NoTime /\ moves[r] = 0
        /\ \A g \in Guardians : vote[r][g] # "declined"
        /\ \A q \in Procs : (Deciding(q, r) => q = p) /\ ~Moving(q, r)
        /\ vote' \in [Requests -> [Guardians -> Decisions \cup {"none", "pending"}]]
        /\ \A x \in Requests \ {r} : vote'[x] = vote[x]
        /\ \A g \in Guardians : vote'[r][g] = IF g = loc[p].g THEN loc[p].decision ELSE vote[r][g]
        /\ Voters(r)' = Voters(r)
    BY <1>1, LockedFacts
  <1>3. "idle" \in Steps /\ NoLocal \in Local
    BY RestTypes DEF Steps
  <1>4. /\ pc' \in [Procs -> Steps] /\ loc' \in [Procs -> Local]
        /\ pc'[p] = "idle" /\ loc'[p] = NoLocal
        /\ \A q \in Procs \ {p} : pc'[q] = pc[q] /\ loc'[q] = loc[q]
    BY <1>0, <1>1, <1>3, GotoFacts
  <1>5. LocalOK(p)'
    BY <1>4 DEF LocalOK, NoLocal, NoCopies
  <1>6. \A q \in Procs : ~Deciding(q, r)' /\ ~Moving(q, r)'
    BY <1>2, <1>4 DEF Deciding, Moving
  <1>7. Exclusive(r)'
    BY <1>6 DEF Exclusive
  <1>8. now \in Nat \ {0} /\ req[r] \in Row /\ req[r].threshold \in Nat /\ TimeLock \in Nat \ {0}
    BY <1>0 DEF TypeOK, Row
  <1>9. token' \in [Requests -> SUBSET Guardians]
    <2>1. CASE token' = [token EXCEPT ![r] = {}]
      BY <1>0, <2>1 DEF TypeOK
    <2>2. CASE token' = [token EXCEPT ![r] = @ \ {loc[p].g}]
      <3>1. token[r] \ {loc[p].g} \in SUBSET Guardians
        BY <1>0 DEF TypeOK
      <3>2. QED
        BY <1>0, <2>2, <3>1 DEF TypeOK
    <2>3. QED
      BY <2>1, <2>2 DEF Decline, Approve, ApproveLast
  <1>10. (\A x \in Requests : req'[x].newUser = req[x].newUser) => HolderOK'
    BY <1>0, <1>1 DEF HolderOK
  <1>11. CASE Decline(p, r)
    <2>1. /\ req' = [req EXCEPT ![r].status = "declined", ![r].closedAt = now]
          /\ UNCHANGED quorumAt
      BY <1>11 DEF Decline
    <2>2. /\ req' \in [Requests -> Row]
          /\ \A x \in Requests \ {r} : req'[x] = req[x]
          /\ req'[r].status = "declined"
          /\ req'[r].newUser = req[r].newUser /\ req'[r].threshold = req[r].threshold
      BY <1>0, <1>8, <2>1 DEF TypeOK, Row, ClosedStatuses
    <2>3. TypeOK'
      BY <1>0, <1>1, <1>2, <1>4, <1>9, <2>1, <2>2 DEF TypeOK
    <2>4. RowOK(r)'
      BY <1>0, <1>1, <1>2, <1>6, <2>1, <2>2 DEF RowOK
    <2>5. VotesOK(r)'
      BY <1>1, <1>2, <1>6, <2>1, <2>2 DEF VotesOK
    <2>6. HolderOK'
      BY <1>10, <2>2
    <2>7. QED
      BY <1>1, <1>2, <1>3, <1>5, <1>7, <2>1, <2>2, <2>3, <2>4, <2>5, <2>6, OneRowStep
  <1>12. CASE Approve(p, r)
    <2>1. UNCHANGED <<req, quorumAt>> /\ loc[p].decision = "approved"
      BY <1>12 DEF Approve
    <2>2. TypeOK'
      BY <1>0, <1>1, <1>2, <1>4, <1>9, <2>1 DEF TypeOK
    <2>3. RowOK(r)'
      BY <1>0, <1>1, <1>2, <1>6, <2>1 DEF RowOK
    <2>4. VotesOK(r)'
      BY <1>1, <1>2, <1>6, <2>1 DEF VotesOK
    <2>5. HolderOK'
      BY <1>10, <2>1
    <2>6. QED
      BY <1>1, <1>2, <1>3, <1>5, <1>7, <2>1, <2>2, <2>3, <2>4, <2>5, OneRowStep
  <1>13. CASE ApproveLast(p, r)
    <2>1. /\ req' = [req EXCEPT ![r].status = "time_locked", ![r].unlocksAt = now + TimeLock]
          /\ quorumAt' = [quorumAt EXCEPT ![r] = now]
          /\ loc[p].decision = "approved"
          /\ Cardinality(Approved(r)') >= req[r].threshold
      BY <1>13 DEF ApproveLast
    <2>2. /\ req' \in [Requests -> Row]
          /\ \A x \in Requests \ {r} : req'[x] = req[x]
          /\ req'[r].status = "time_locked" /\ req'[r].unlocksAt = now + TimeLock
          /\ req'[r].newUser = req[r].newUser /\ req'[r].threshold = req[r].threshold
      <3> DEFINE row == [req[r] EXCEPT !.status = "time_locked", !.unlocksAt = now + TimeLock]
      <3>1. /\ row \in Row /\ row.status = "time_locked" /\ row.unlocksAt = now + TimeLock
            /\ row.newUser = req[r].newUser /\ row.threshold = req[r].threshold
        <4>1. now + TimeLock \in Nat /\ req[r] \in Row
          BY <1>8
        <4>2. ASSUME NEW t \in Nat
              PROVE  LET w == [req[r] EXCEPT !.status = "time_locked", !.unlocksAt = t]
                     IN  /\ w \in Row /\ w.status = "time_locked" /\ w.unlocksAt = t
                         /\ w.newUser = req[r].newUser /\ w.threshold = req[r].threshold
          BY <4>1 DEF Row, OpenStatuses
        <4>3. QED
          BY <4>1, <4>2
      <3>2. req' = [req EXCEPT ![r] = row]
        BY <2>1
      <3> HIDE DEF row
      <3>3. QED
        BY <1>0, <3>1, <3>2 DEF TypeOK
    <2>3. /\ quorumAt' \in [Requests -> Nat]
          /\ quorumAt'[r] = now
          /\ \A x \in Requests \ {r} : quorumAt'[x] = quorumAt[x]
      BY <1>0, <1>8, <2>1 DEF TypeOK
    <2>4. TypeOK'
      BY <1>0, <1>1, <1>2, <1>4, <1>9, <2>2, <2>3 DEF TypeOK
    <2>5. RowOK(r)'
      BY <1>0, <1>1, <1>2, <1>6, <1>8, <2>2, <2>3 DEF RowOK, NoTime
    <2>6. VotesOK(r)'
      <3>1. Cardinality(Approved(r)') >= req'[r].threshold
        BY <2>1, <2>2
      <3>2. \A g \in Guardians : vote'[r][g] # "declined"
        BY <1>2, <2>1
      <3>3. moves'[r] = 0 /\ req'[r].status = "time_locked"
        BY <1>1, <1>2, <2>2
      <3>4. ~(moves'[r] > 0 \/ \E q \in Procs : Moving(q, r)')
        BY <1>6, <3>3
      <3>5. QED
        BY <3>1, <3>2, <3>3, <3>4 DEF VotesOK
    <2>7. HolderOK'
      BY <1>10, <2>2
    <2>8. QED
      BY <1>1, <1>2, <1>3, <1>5, <1>7, <2>2, <2>3, <2>4, <2>5, <2>6, <2>7, OneRowStep
  <1>14. QED
    BY <1>11, <1>12, <1>13

(* close(), by whichever handler: the stale copy that is written back has the
   row's own requester and threshold, and the row ends up closed. *)
LEMMA CloseStep ==
  ASSUME IInv, NEW p \in Procs, NEW r \in Requests, pc[p] = "closing", r \in Held(p), ~RowLocked(r),
         CloseRow(p, r),
         NEW s \in {"closing", "sweeping", "idle", "revoking"}, NEW l \in Local, Goto(p, s, l),
         \A x \in Requests : l.copy[x] \in {NoRow, loc[p].copy[x]},
         token' \in [Requests -> SUBSET Guardians], acked' \in SUBSET Requests,
         UNCHANGED <<vote, mailed, active, holder, locked, now, quorumAt, moves>>
  PROVE  IInv'
  <1> DEFINE row == [loc[p].copy[r] EXCEPT !.status = ClosedAs(loc[p].op), !.closedAt = now]
  <1>0. /\ TypeOK /\ LocalOK(p) /\ Exclusive(r) /\ RowOK(r) /\ VotesOK(r) /\ HolderOK
        /\ loc[p] \in Local
    BY DEF IInv, TypeOK
  <1>1. /\ req[r].status # "none"
        /\ loc[p].copy[r] \in Row
        /\ loc[p].copy[r].newUser = req[r].newUser
        /\ loc[p].copy[r].threshold = req[r].threshold
    BY <1>0 DEF LocalOK, Held, Local
  <1>2. now \in Nat
    BY <1>0 DEF TypeOK
  <1>3. /\ row \in Row /\ row.status \in {"cancelled", "expired"}
        /\ row.newUser = req[r].newUser /\ row.threshold = req[r].threshold
    BY <1>1, <1>2 DEF Row, ClosedAs, ClosedStatuses
  <1>4. req' = [req EXCEPT ![r] = row]
    BY DEF CloseRow
  <1> HIDE DEF row
  <1>5. /\ req' \in [Requests -> Row] /\ req'[r] = row
        /\ \A x \in Requests \ {r} : req'[x] = req[x]
    BY <1>0, <1>3, <1>4 DEF TypeOK
  <1>6. s \in Steps
    BY DEF Steps
  <1>7. /\ pc' \in [Procs -> Steps] /\ loc' \in [Procs -> Local]
        /\ pc'[p] = s /\ loc'[p] = IF s = "idle" THEN NoLocal ELSE l
        /\ \A q \in Procs \ {p} : pc'[q] = pc[q] /\ loc'[q] = loc[q]
    BY <1>0, <1>6, GotoFacts
  <1>8. TypeOK'
    BY <1>0, <1>5, <1>7 DEF TypeOK
  <1>9. LocalOK(p)'
    <2>1. CASE s = "idle"
      BY <2>1, <1>7 DEF LocalOK, NoLocal, NoCopies
    <2>2. CASE s # "idle"
      <3>1. ASSUME NEW x \in Requests, l.copy[x] # NoRow
            PROVE  /\ req'[x].status # "none"
                   /\ l.copy[x].newUser = req'[x].newUser
                   /\ l.copy[x].threshold = req'[x].threshold
        <4>1. /\ req[x].status # "none"
              /\ l.copy[x].newUser = req[x].newUser
              /\ l.copy[x].threshold = req[x].threshold
          BY <3>1, <1>0 DEF LocalOK
        <4>2. QED
          BY <4>1, <1>3, <1>5
      <3>2. QED
        BY <2>2, <3>1, <1>7 DEF LocalOK
    <2>3. QED
      BY <2>1, <2>2
  <1>10. \A q \in Procs : /\ ~Deciding(q, r)
                          /\ ~Deciding(q, r)'
                          /\ Moving(q, r)' => Moving(q, r)
    BY <1>7 DEF Deciding, Moving, RowLocked
  <1>11. Exclusive(r)'
    BY <1>0, <1>10 DEF Exclusive
  <1>12. RowOK(r)'
    BY <1>0, <1>1, <1>3, <1>5, <1>10 DEF RowOK, Voters
  <1>13. VotesOK(r)'
    BY <1>0, <1>3, <1>5, <1>10 DEF VotesOK, Approved
  <1>14. HolderOK'
    BY <1>0, <1>3, <1>5 DEF HolderOK
  <1>15. req'[r].status # "none"
    BY <1>3, <1>5
  <1>16. QED
    BY <1>1, <1>3, <1>5, <1>6, <1>8, <1>9, <1>10, <1>11, <1>12, <1>13, <1>14, <1>15, OneRowStep

LEMMA Closes ==
  ASSUME IInv, NEW p \in Procs, NEW r \in Requests, CloseInTx(p, r) \/ DescribeClose(p, r)
  PROVE  IInv'
  <1>0. TypeOK /\ loc[p] \in Local
    BY DEF IInv, TypeOK, Local
  <1>1. CASE CloseInTx(p, r)
    <2> DEFINE s == IF Held(p) # {r} THEN "closing"
                    ELSE IF loc[p].op = "sweep" THEN "sweeping" ELSE "idle"
               l == [loc[p] EXCEPT !.copy[r] = NoRow]
    <2>1. l \in Local /\ \A x \in Requests : l.copy[x] \in {NoRow, loc[p].copy[x]}
      <3>1. loc[p].copy \in [Requests -> Row]
        BY <1>0 DEF Local
      <3>2. [loc[p].copy EXCEPT ![r] = NoRow] \in [Requests -> Row]
        BY <3>1, RestTypes
      <3>3. ASSUME NEW c \in [Requests -> Row]
            PROVE  [loc[p] EXCEPT !.copy = c] \in Local /\ [loc[p] EXCEPT !.copy = c].copy = c
        BY <1>0 DEF Local
      <3>4. l = [loc[p] EXCEPT !.copy = [loc[p].copy EXCEPT ![r] = NoRow]]
        BY <1>0 DEF Local
      <3>5. QED
        BY <3>1, <3>2, <3>3, <3>4
    <2>2. Goto(p, s, l) /\ s \in {"closing", "sweeping", "idle", "revoking"}
      BY <1>1 DEF CloseInTx, AfterClose
    <2>3. token' \in [Requests -> SUBSET Guardians] /\ acked' \in SUBSET Requests
      BY <1>0, <1>1 DEF CloseInTx, TypeOK
    <2>4. /\ pc[p] = "closing" /\ r \in Held(p) /\ ~RowLocked(r) /\ CloseRow(p, r)
          /\ UNCHANGED <<vote, mailed, active, holder, locked, now, quorumAt, moves>>
      BY <1>1 DEF CloseInTx
    <2>5. QED
      <3> HIDE DEF s, l
      <3>1. QED
        BY <2>1, <2>2, <2>3, <2>4, CloseStep
  <1>2. CASE DescribeClose(p, r)
    <2> DEFINE l == [loc[p] EXCEPT !.copy = NoCopies]
    <2>1. /\ l \in Local /\ l.r = loc[p].r
          /\ \A x \in Requests : l.copy[x] = NoRow
      BY <1>0, RestTypes DEF Local, NoCopies
    <2>2. /\ pc[p] = "closing" /\ r \in Held(p) /\ ~RowLocked(r) /\ CloseRow(p, r)
          /\ Goto(p, "revoking", l)
          /\ UNCHANGED <<vote, token, mailed, active, holder, locked, now, quorumAt, moves, acked>>
      BY <1>2 DEF DescribeClose, history
    <2>3. QED
      <3> HIDE DEF l
      <3>1. \A x \in Requests : l.copy[x] \in {NoRow, loc[p].copy[x]}
        BY <2>1
      <3>2. token' \in [Requests -> SUBSET Guardians] /\ acked' \in SUBSET Requests
        BY <1>0, <2>2 DEF TypeOK
      <3>3. QED
        BY <2>1, <2>2, <3>1, <3>2, CloseStep
  <1>3. QED
    BY <1>1, <1>2

(* UPDATE of a request's status column touches nothing else. *)
LEMMA StatusUpdate ==
  ASSUME TypeOK, NEW r \in Requests, NEW st \in OpenStatuses \cup ClosedStatuses,
         req' = [req EXCEPT ![r].status = st]
  PROVE  /\ req' \in [Requests -> Row] /\ req'[r].status = st
         /\ req'[r].newUser = req[r].newUser /\ req'[r].threshold = req[r].threshold
         /\ req'[r].unlocksAt = req[r].unlocksAt
         /\ \A x \in Requests \ {r} : req'[x] = req[x]
  <1> DEFINE row == [req[r] EXCEPT !.status = st]
  <1>1. req[r] \in Row /\ req \in [Requests -> Row]
    BY DEF TypeOK
  <1>2. /\ row \in Row /\ row.status = st
        /\ row.newUser = req[r].newUser /\ row.threshold = req[r].threshold
        /\ row.unlocksAt = req[r].unlocksAt
    BY <1>1 DEF Row
  <1>3. req' = [req EXCEPT ![r] = row]
    OBVIOUS
  <1> HIDE DEF row
  <1>4. QED
    BY <1>1, <1>2, <1>3

(* complete() claims a time-locked request. *)
LEMMA Claims ==
  ASSUME IInv, NEW p \in Procs, NEW r \in Requests, Claim(p, r)
  PROVE  IInv'
  <1> DEFINE l == [loc[p] EXCEPT !.r = r, !.due = @ \ {r}]
  <1>0. /\ TypeOK /\ LocalOK(p) /\ Exclusive(r) /\ RowOK(r) /\ VotesOK(r) /\ HolderOK
        /\ loc[p] \in Local
    BY DEF IInv, TypeOK
  <1>1. /\ pc[p] = "claiming" /\ ~RowLocked(r)
        /\ req[r].status = "time_locked" /\ req[r].unlocksAt <= now
        /\ req' = [req EXCEPT ![r].status = "completing"]
        /\ Goto(p, "moving", l)
        /\ UNCHANGED <<vote, token, mailed, active, holder, locked, now, quorumAt, moves, acked>>
    BY DEF Claim, Due, history
  <1>2. l \in Local /\ l.r = r /\ l.copy = loc[p].copy
    <2>1. loc[p].due \ {r} \in SUBSET Requests
      BY <1>0 DEF Local
    <2>2. QED
      BY <1>0, <2>1 DEF Local
  <1>3. /\ req' \in [Requests -> Row] /\ req'[r].status = "completing"
        /\ req'[r].newUser = req[r].newUser /\ req'[r].threshold = req[r].threshold
        /\ req'[r].unlocksAt = req[r].unlocksAt
        /\ \A x \in Requests \ {r} : req'[x] = req[x]
    BY <1>0, <1>1, StatusUpdate DEF OpenStatuses
  <1> HIDE DEF l
  <1>4. "moving" \in Steps
    BY DEF Steps
  <1>5. /\ pc' \in [Procs -> Steps] /\ loc' \in [Procs -> Local]
        /\ pc'[p] = "moving" /\ loc'[p] = l
        /\ \A q \in Procs \ {p} : pc'[q] = pc[q] /\ loc'[q] = loc[q]
    BY <1>0, <1>1, <1>2, <1>4, GotoFacts
  <1>6. TypeOK'
    BY <1>0, <1>1, <1>3, <1>5 DEF TypeOK
  <1>7. LocalOK(p)'
    <2>1. ASSUME NEW x \in Requests, l.copy[x] # NoRow
          PROVE  /\ req'[x].status # "none"
                 /\ l.copy[x].newUser = req'[x].newUser
                 /\ l.copy[x].threshold = req'[x].threshold
      BY <2>1, <1>0, <1>2, <1>3 DEF LocalOK
    <2>2. QED
      BY <2>1, <1>2, <1>5 DEF LocalOK
  <1>8. \A q \in Procs : /\ ~Deciding(q, r) /\ ~Deciding(q, r)'
                         /\ Moving(q, r)' => q = p
    BY <1>0, <1>1, <1>5 DEF Deciding, Moving, RowLocked, RowOK
  <1>9. Exclusive(r)'
    BY <1>8 DEF Exclusive
  <1>10. RowOK(r)'
    BY <1>0, <1>1, <1>3 DEF RowOK, Voters
  <1>11. VotesOK(r)'
    BY <1>0, <1>1, <1>3 DEF VotesOK, RowOK, Approved
  <1>12. HolderOK'
    BY <1>0, <1>1, <1>3 DEF HolderOK
  <1>13. req[r].status # "none" /\ req'[r].status # "none"
    BY <1>1, <1>3
  <1>14. QED
    BY <1>1, <1>2, <1>3, <1>4, <1>6, <1>7, <1>8, <1>9, <1>10, <1>11, <1>12, <1>13, OneRowStep

(* The handler that claimed r: it is alone, r has its quorum and its time. *)
LEMMA MoverFacts ==
  ASSUME IInv, NEW p \in Procs, NEW r \in Requests, Moving(p, r)
  PROVE  /\ \A q \in Procs : (Moving(q, r) => q = p) /\ ~Deciding(q, r)
         /\ moves[r] = 0
         /\ quorumAt[r] # NoTime /\ now >= quorumAt[r] + TimeLock
         /\ req[r].status \notin {"none", "awaiting_approvals", "time_locked"}
         /\ req[r].newUser \in Requesters
         /\ req[r] \in Row
  <1>0. TypeOK /\ Exclusive(r) /\ RowOK(r) /\ VotesOK(r)
    BY DEF IInv
  <1>1. \A q \in Procs : Moving(q, r) => q = p
    BY <1>0 DEF Exclusive
  <1>2. /\ moves[r] = 0
        /\ req[r].status \notin {"none", "awaiting_approvals", "time_locked"}
        /\ req[r].newUser \in Requesters
    BY <1>0 DEF RowOK
  <1>3. quorumAt[r] # NoTime /\ now >= quorumAt[r] + TimeLock
    BY <1>0 DEF VotesOK
  <1>4. \A q \in Procs : ~Deciding(q, r)
    BY <1>2 DEF IInv, LocalOK, Deciding
  <1>5. QED
    BY <1>0, <1>1, <1>2, <1>3, <1>4 DEF TypeOK

(* complete() reads what it is going to move. *)
LEMMA MoveReads ==
  ASSUME IInv, NEW p \in Procs, NEW r \in Requests, MoveRead(p, r)
  PROVE  IInv'
  <1> DEFINE l == [loc[p] EXCEPT !.copy = Copies({r}), !.found = holder = Owner]
  <1>0. /\ TypeOK /\ LocalOK(p) /\ Exclusive(r) /\ RowOK(r) /\ VotesOK(r) /\ HolderOK
        /\ loc[p] \in Local
    BY DEF IInv, TypeOK
  <1>1. /\ pc[p] = "moving" /\ loc[p].r = r /\ Goto(p, "saving", l)
        /\ UNCHANGED <<req, vote, token, mailed, active, holder, locked, now, quorumAt, moves, acked>>
    BY DEF MoveRead, rows, history
  <1>2. /\ l \in Local /\ l.r = r /\ l.copy = Copies({r}) /\ l.found = (holder = Owner)
    <2>1. Copies({r}) \in [Requests -> Row] /\ (holder = Owner) \in BOOLEAN
      BY <1>0, CopiesType
    <2>2. QED
      BY <1>0, <1>1, <2>1 DEF Local
  <1>3. Moving(p, r)
    BY <1>1 DEF Moving
  <1>4. /\ \A q \in Procs : (Moving(q, r) => q = p) /\ ~Deciding(q, r)
        /\ req[r].status # "none"
    BY <1>3, MoverFacts
  <1>5. \A x \in Requests : Copies({r})[x] = IF x = r THEN req[r] ELSE NoRow
    BY DEF Copies
  <1>6. "saving" \in Steps
    BY DEF Steps
  <1> HIDE DEF l
  <1>7. /\ pc' \in [Procs -> Steps] /\ loc' \in [Procs -> Local]
        /\ pc'[p] = "saving" /\ loc'[p] = l
        /\ \A q \in Procs \ {p} : pc'[q] = pc[q] /\ loc'[q] = loc[q]
    BY <1>0, <1>1, <1>2, <1>6, GotoFacts
  <1>8. TypeOK'
    BY <1>0, <1>1, <1>7 DEF TypeOK
  <1>9. LocalOK(p)'
    <2>1. req[r] # NoRow
      BY <1>4 DEF NoRow
    <2>2. QED
      BY <2>1, <1>1, <1>2, <1>4, <1>5, <1>7 DEF LocalOK
  <1>10. \A q \in Procs : /\ Moving(q, r)' => Moving(q, r)
                          /\ Deciding(q, r)' => Deciding(q, r)
    BY <1>3, <1>7 DEF Moving, Deciding
  <1>11. Exclusive(r)'
    BY <1>0, <1>10 DEF Exclusive
  <1>12. RowOK(r)'
    BY <1>0, <1>1, <1>10 DEF RowOK, Voters
  <1>13. VotesOK(r)'
    BY <1>0, <1>1, <1>10 DEF VotesOK, Approved
  <1>14. HolderOK'
    BY <1>0, <1>1 DEF HolderOK
  <1>15. QED
    BY <1>1, <1>2, <1>4, <1>6, <1>8, <1>9, <1>11, <1>12, <1>13, <1>14, OneRowStep

(* complete() commits, or rolls back and hands the claim back. *)
LEMMA Moves ==
  ASSUME IInv, NEW p \in Procs, NEW r \in Requests, Move(p, r) \/ MoveFails(p, r)
  PROVE  IInv'
  <1> DEFINE s == IF loc[p].due = {} THEN "idle" ELSE "claiming"
             l == [loc[p] EXCEPT !.r = NoRequest, !.due = loc[p].due, !.copy = NoCopies,
                                 !.found = FALSE]
  <1>0. /\ TypeOK /\ LocalOK(p) /\ Exclusive(r) /\ RowOK(r) /\ VotesOK(r) /\ HolderOK
        /\ loc[p] \in Local
    BY DEF IInv, TypeOK
  <1>1. /\ Moving(p, r) /\ Goto(p, s, l)
        /\ UNCHANGED <<vote, token, mailed, now, quorumAt, acked>>
    BY DEF Move, MoveFails, AfterComplete, Moving, history
  <1>2. /\ \A q \in Procs : (Moving(q, r) => q = p) /\ ~Deciding(q, r)
        /\ moves[r] = 0
        /\ quorumAt[r] # NoTime /\ now >= quorumAt[r] + TimeLock
        /\ req[r].status \notin {"none", "awaiting_approvals", "time_locked"}
        /\ req[r].newUser \in Requesters
        /\ req[r] \in Row
    BY <1>1, MoverFacts
  <1>3. l \in Local /\ l.copy = NoCopies
    BY <1>0, RestTypes DEF Local
  <1>4. s \in Steps /\ s \in {"idle", "claiming"}
    BY DEF Steps
  <1> HIDE DEF s, l
  <1>5. /\ pc' \in [Procs -> Steps] /\ loc' \in [Procs -> Local]
        /\ pc'[p] = s /\ loc'[p] = IF s = "idle" THEN NoLocal ELSE l
        /\ \A q \in Procs \ {p} : pc'[q] = pc[q] /\ loc'[q] = loc[q]
    BY <1>0, <1>1, <1>3, <1>4, GotoFacts
  <1>6. \A q \in Procs : ~Moving(q, r)' /\ ~Deciding(q, r)'
    BY <1>2, <1>4, <1>5 DEF Moving, Deciding
  <1>7. Exclusive(r)'
    BY <1>6 DEF Exclusive
  <1>8. LocalOK(p)'
    <2>1. \A x \in Requests : loc'[p].copy[x] = NoRow
      BY <1>3, <1>5 DEF NoLocal, NoCopies
    <2>2. QED
      BY <2>1, <1>4, <1>5 DEF LocalOK
  <1>9. CASE Move(p, r)
    <2> DEFINE c == loc[p].copy[r]
    <2>0. /\ c \in Row /\ c.newUser = req[r].newUser /\ c.threshold = req[r].threshold
          /\ ~loc[p].found => holder # Owner
      <3>1. pc[p] = "saving" /\ loc[p].r = r
        BY <1>9 DEF Move
      <3>2. c # NoRow /\ (~loc[p].found => holder # Owner)
        BY <1>0, <3>1 DEF LocalOK
      <3>3. c.newUser = req[r].newUser /\ c.threshold = req[r].threshold
        BY <1>0, <3>2 DEF LocalOK
      <3>4. QED
        BY <1>0, <3>2, <3>3 DEF Local
    <2>1. /\ holder' = IF loc[p].found THEN c.newUser ELSE holder
          /\ locked' = TRUE /\ active' = {}
          /\ req' = [req EXCEPT ![r] = [c EXCEPT !.status = "completed", !.closedAt = now]]
          /\ moves' = [moves EXCEPT ![r] = @ + 1]
      BY <1>9 DEF Move
    <2> HIDE DEF c
    <2>2. /\ req' \in [Requests -> Row] /\ req'[r].status = "completed"
          /\ req'[r].newUser = req[r].newUser /\ req'[r].threshold = req[r].threshold
          /\ \A x \in Requests \ {r} : req'[x] = req[x]
      <3> DEFINE row == [c EXCEPT !.status = "completed", !.closedAt = now]
      <3>1. now \in Nat /\ req \in [Requests -> Row]
        BY <1>0 DEF TypeOK
      <3>2. /\ row \in Row /\ row.status = "completed"
            /\ row.newUser = req[r].newUser /\ row.threshold = req[r].threshold
        BY <2>0, <3>1 DEF Row, ClosedStatuses
      <3>3. req' = [req EXCEPT ![r] = row]
        BY <2>1
      <3> HIDE DEF row
      <3>4. QED
        BY <3>1, <3>2, <3>3
    <2>3. /\ moves' \in [Requests -> Nat] /\ moves'[r] = 1
          /\ \A x \in Requests \ {r} : moves'[x] = moves[x]
      BY <1>0, <1>2, <2>1 DEF TypeOK
    <2>4. TypeOK'
      BY <1>0, <1>1, <1>2, <1>5, <2>0, <2>1, <2>2, <2>3 DEF TypeOK
    <2>5. RowOK(r)'
      BY <1>0, <1>1, <1>2, <1>6, <2>2, <2>3 DEF RowOK, Voters
    <2>6. VotesOK(r)'
      BY <1>0, <1>1, <1>2, <1>6, <2>2, <2>3 DEF VotesOK, Approved
    <2>7. HolderOK'
      <3>1. CASE loc[p].found
        BY <3>1, <1>2, <2>0, <2>1, <2>2, <2>3 DEF HolderOK
      <3>2. CASE ~loc[p].found
        <4>0. holder # Owner
          BY <2>0, <3>2
        <4>1. PICK x \in Requests : moves[x] > 0 /\ req[x].newUser = holder
          BY <1>0, <4>0 DEF HolderOK
        <4>2. moves'[x] > 0 /\ req'[x].newUser = holder /\ holder' = holder
          BY <3>2, <4>1, <2>1, <2>2, <2>3
        <4>3. QED
          BY <4>0, <4>2 DEF HolderOK
      <3>3. QED
        BY <3>1, <3>2
    <2>8. holder' # Owner
      BY <1>2, <2>0, <2>1
    <2>9. QED
      BY <1>0, <1>1, <1>2, <1>3, <1>4, <1>7, <1>8, <2>2, <2>3, <2>4, <2>5, <2>6, <2>7, <2>8, OneRowStep
  <1>10. CASE MoveFails(p, r)
    <2>1. /\ req' = IF req[r].status = "completing"
                      THEN [req EXCEPT ![r].status = "time_locked"] ELSE req
          /\ UNCHANGED <<active, holder, locked, moves>>
      BY <1>10 DEF MoveFails, HandBack, history
    <2>2. /\ req' \in [Requests -> Row]
          /\ req'[r].status = IF req[r].status = "completing" THEN "time_locked" ELSE req[r].status
          /\ req'[r].newUser = req[r].newUser /\ req'[r].threshold = req[r].threshold
          /\ req'[r].unlocksAt = req[r].unlocksAt
          /\ \A x \in Requests \ {r} : req'[x] = req[x]
      <3>1. CASE req[r].status = "completing"
        <4>1. req' = [req EXCEPT ![r].status = "time_locked"]
          BY <2>1, <3>1
        <4>2. "time_locked" \in OpenStatuses \cup ClosedStatuses
          BY DEF OpenStatuses
        <4>3. QED
          BY <1>0, <3>1, <4>1, <4>2, StatusUpdate
      <3>2. CASE req[r].status # "completing"
        BY <1>0, <2>1, <3>2 DEF TypeOK
      <3>3. QED
        BY <3>1, <3>2
    <2>3. TypeOK'
      BY <1>0, <1>1, <1>5, <2>1, <2>2 DEF TypeOK
    <2>4. RowOK(r)'
      BY <1>0, <1>1, <1>2, <1>6, <2>1, <2>2 DEF RowOK, Voters
    <2>5. VotesOK(r)'
      BY <1>0, <1>1, <1>2, <1>6, <2>1, <2>2 DEF VotesOK, Approved
    <2>6. HolderOK'
      BY <1>0, <2>1, <2>2 DEF HolderOK
    <2>7. QED
      BY <1>1, <1>2, <1>3, <1>4, <1>7, <1>8, <2>1, <2>2, <2>3, <2>4, <2>5, <2>6, OneRowStep
  <1>11. QED
    BY <1>9, <1>10

-----------------------------------------------------------------------------
(* Every step preserves the invariant. *)
LEMMA NextIInv == IInv /\ [Next]_vars => IInv'
  <1> SUFFICES ASSUME IInv, [Next]_vars PROVE IInv'
    OBVIOUS
  <1>1. ASSUME NEW p \in Procs, Start(p) PROVE IInv'
    BY <1>1, StartReads, StartInserts, StartNotifies DEF Start
  <1>2. ASSUME NEW p \in Procs, Decide(p) PROVE IInv'
    BY <1>2, DecideLocks, DecideCommits DEF Decide
  <1>3. ASSUME NEW p \in Procs, Stop(p) PROVE IInv'
    BY <1>3, CopyReads, KeepSteps, Closes DEF Stop
  <1>4. ASSUME NEW p \in Procs, Complete(p) PROVE IInv'
    BY <1>4, KeepSteps, Claims, MoveReads, Moves DEF Complete
  <1>5. ASSUME NEW p \in Procs, Abort(p) \/ \E r \in Requests : LeakClaim(p, r) PROVE IInv'
    BY <1>5, KeepSteps
  <1>6. ASSUME NEW g \in Guardians, RemoveGuardian(g) PROVE IInv'
    BY <1>6, OutsideSteps
  <1>7. CASE Tick
    BY <1>7, OutsideSteps
  <1>8. CASE UNCHANGED vars
    <2> USE <1>8 DEF vars, rows, history
    <2>1. TypeOK'
      BY DEF IInv, TypeOK
    <2>2. \A p \in Procs : LocalOK(p)'
      BY DEF IInv, LocalOK
    <2>3. ASSUME NEW r \in Requests PROVE (Exclusive(r) /\ RowOK(r) /\ VotesOK(r))'
      <3>0. Exclusive(r) /\ RowOK(r) /\ VotesOK(r)
        BY DEF IInv
      <3>1. Exclusive(r)'
        BY <3>0 DEF Exclusive, Deciding, Moving
      <3>2. RowOK(r)'
        BY <3>0 DEF RowOK, Moving, Voters
      <3>3. VotesOK(r)'
        BY <3>0 DEF VotesOK, Moving, Approved
      <3>4. QED
        BY <3>1, <3>2, <3>3
    <2>4. HolderOK'
      BY DEF IInv, HolderOK
    <2>5. QED
      BY <2>1, <2>2, <2>3, <2>4 DEF IInv
  <1>9. QED
    BY <1>1, <1>2, <1>3, <1>4, <1>5, <1>6, <1>7, <1>8 DEF Next

(* Every reachable state satisfies the invariant, whatever the handlers do. *)
THEOREM Invariance == Spec => []IInv
  BY InitIInv, NextIInv, PTL DEF Spec

(* Every variable keeps its type. *)
THEOREM TypeCorrect == Spec => []TypeOK
  BY Invariance, PTL DEF IInv

LEMMA SafetyFollows ==
  IInv => /\ QuorumBehindMove /\ DeclineStops /\ TimeLockKept /\ OneMover /\ HolderIsBacked
  <1> SUFFICES ASSUME IInv
               PROVE  /\ QuorumBehindMove /\ DeclineStops /\ TimeLockKept
                      /\ OneMover /\ HolderIsBacked
    OBVIOUS
  <1>0. ASSUME NEW r \in Requests
        PROVE  /\ RowOK(r) /\ VotesOK(r) /\ Exclusive(r)
               /\ Movers(r) # {} <=> \E p \in Procs : Moving(p, r)
               /\ req[r] \in Row /\ quorumAt[r] \in Nat /\ moves[r] \in Nat
    BY DEF IInv, TypeOK, Movers, Moving
  <1>1. ASSUME NEW r \in Requests
        PROVE  /\ Cardinality(Voters(r)) \in Nat
               /\ Cardinality(Approved(r)) \in Nat
               /\ req[r].threshold \in Nat
    <2>1. Voters(r) \in SUBSET Guardians /\ Approved(r) \in SUBSET Guardians
      BY DEF Voters, Approved
    <2>2. req[r].threshold \in Nat
      BY <1>0 DEF Row
    <2>3. QED
      BY <2>1, <2>2, GuardianSets
  <1>2. QuorumBehindMove
    <2> SUFFICES ASSUME NEW r \in Requests,
                        \/ req[r].status \in {"time_locked", "completing"}
                        \/ Movers(r) # {}
                        \/ moves[r] > 0
                 PROVE  /\ HasQuorum(r)
                        /\ 2 * Cardinality(Approved(r)) > Cardinality(Voters(r))
      BY DEF QuorumBehindMove
    <2>1. quorumAt[r] # NoTime /\ req[r].status # "none"
      BY <1>0 DEF RowOK, VotesOK
    <2>2. Cardinality(Approved(r)) >= req[r].threshold
      BY <1>0, <2>1 DEF VotesOK
    <2>3. 2 * req[r].threshold > Cardinality(Voters(r))
      BY <1>0, <2>1 DEF RowOK
    <2>4. QED
      BY <1>1, <2>1, <2>2, <2>3 DEF HasQuorum
  <1>3. DeclineStops
    <2> SUFFICES ASSUME NEW r \in Requests, NEW g \in Guardians, vote[r][g] = "declined"
                 PROVE  /\ req[r].status \in ClosedStatuses \ {"completed"}
                        /\ Movers(r) = {}
                        /\ moves[r] = 0
      BY DEF DeclineStops
    <2>1. quorumAt[r] = NoTime
      BY <1>0 DEF VotesOK
    <2>2. moves[r] = 0 /\ Movers(r) = {}
      BY <1>0, <2>1 DEF VotesOK
    <2>3. req[r].status \notin {"none", "awaiting_approvals", "time_locked", "completing", "completed"}
      BY <1>0, <2>1, <2>2 DEF RowOK, VotesOK
    <2>4. req[r].status \in OpenStatuses \cup ClosedStatuses \cup {"none"}
      BY <1>0 DEF Row
    <2>5. QED
      BY <2>2, <2>3, <2>4 DEF OpenStatuses, ClosedStatuses
  <1>4. TimeLockKept
    BY <1>0 DEF TimeLockKept, VotesOK
  <1>5. OneMover
    BY <1>0 DEF OneMover, RowOK, Exclusive, Movers, Moving
  <1>6. HolderIsBacked
    BY DEF IInv, HolderOK, HolderIsBacked
  <1>7. QED
    BY <1>2, <1>3, <1>4, <1>5, <1>6

(* No wallets move, or are about to, without a majority of the guardians that
   were asked (startRequest, decide, complete). *)
THEOREM Quorum == Spec => []QuorumBehindMove
  BY Invariance, SafetyFollows, PTL

(* One decline is final, against every later vote, stale save and completion. *)
THEOREM DeclineIsFinal == Spec => []DeclineStops
  BY Invariance, SafetyFollows, PTL

(* The owner always has the whole time lock between the quorum and the move. *)
THEOREM TimeLockHolds == Spec => []TimeLockKept
  BY Invariance, SafetyFollows, PTL

(* However many replicas sweep, one completes a request, once. *)
THEOREM CompletedOnce == Spec => []OneMover
  BY Invariance, SafetyFollows, PTL

(* The wallets are with the old account or with the requester of a request
   that completed. *)
THEOREM HolderBacked == Spec => []HolderIsBacked
  BY Invariance, SafetyFollows, PTL

-----------------------------------------------------------------------------
(* Action properties and the refinement.  Most steps are quiet: they change no
   request, vote or holder and start no move. *)
MoveSteps == {"moving", "saving"}

Quiet == /\ UNCHANGED <<req, vote, quorumAt, moves, holder>>
         /\ Tick \/ UNCHANGED now
         /\ \A q \in Procs : pc[q] \in MoveSteps \/ pc'[q] \in MoveSteps =>
                               pc'[q] = pc[q] /\ loc'[q] = loc[q]

Loud(p, r) == \/ Decline(p, r) \/ Approve(p, r) \/ ApproveLast(p, r)
              \/ CloseInTx(p, r) \/ DescribeClose(p, r)
              \/ Claim(p, r) \/ MoveRead(p, r) \/ Move(p, r) \/ MoveFails(p, r)
              \/ LeakClaim(p, r)

LEMMA StepKinds ==
  ASSUME TypeOK, [Next]_vars
  PROVE  \/ Quiet
         \/ \E p \in Procs : StartInsert(p)
         \/ \E p \in Procs, r \in Requests : Loud(p, r)
  <1> USE DEF rows, history
  <1>0. pc \in [Procs -> Steps] /\ loc \in [Procs -> Local]
    BY DEF TypeOK
  <1>1. ASSUME NEW p \in Procs, pc[p] \notin MoveSteps, NEW s \in Steps \ MoveSteps, NEW l,
               Goto(p, s, l), UNCHANGED <<req, vote, quorumAt, moves, holder, now>>
        PROVE  Quiet
    BY <1>0, <1>1 DEF Quiet, Goto
  <1>2. ASSUME NEW p \in Procs, Start(p) PROVE Quiet \/ StartInsert(p)
    <2>1. ASSUME NEW u \in Requesters, StartRead(p, u) PROVE Quiet
      BY <1>1, <2>1 DEF StartRead, Idle, Steps, MoveSteps
    <2>2. ASSUME StartCheck(p) PROVE Quiet
      BY <1>1, <2>2 DEF StartCheck, Steps, MoveSteps
    <2>3. ASSUME NEW g \in Guardians, StartNotifyGuardian(p, g) PROVE Quiet
      BY <1>1, <2>3 DEF StartNotifyGuardian, Steps, MoveSteps
    <2>4. ASSUME StartNotifyOwner(p) PROVE Quiet
      BY <1>1, <2>4 DEF StartNotifyOwner, Steps, MoveSteps
    <2>5. QED
      BY <1>2, <2>1, <2>2, <2>3, <2>4 DEF Start
  <1>3. ASSUME NEW p \in Procs, Decide(p) PROVE Quiet \/ \E r \in Requests : Loud(p, r)
    <2>1. ASSUME NEW r \in Requests, NEW g \in Guardians, NEW d \in Decisions,
                 DecideLock(p, r, g, d) PROVE Quiet
      BY <1>1, <2>1 DEF DecideLock, Idle, Steps, MoveSteps
    <2>2. QED
      BY <1>3, <2>1 DEF Decide, Loud
  <1>4. ASSUME NEW p \in Procs, Stop(p) PROVE Quiet \/ \E r \in Requests : Loud(p, r)
    <2>1. ASSUME SignInRead(p) PROVE Quiet
      BY <1>1, <2>1 DEF SignInRead, Idle, Steps, MoveSteps
    <2>2. ASSUME SignInSave(p) PROVE Quiet
      BY <1>1, <2>2 DEF SignInSave, Steps, MoveSteps
    <2>3. ASSUME SignInFind(p) PROVE Quiet
      BY <1>1, <2>3 DEF SignInFind, Steps, MoveSteps
    <2>4. ASSUME SweepRead(p) PROVE Quiet
      BY <1>1, <2>4 DEF SweepRead, Idle, Steps, MoveSteps
    <2>5. ASSUME DescribeRevoke(p) PROVE Quiet
      BY <1>1, <2>5 DEF DescribeRevoke, Steps, MoveSteps
    <2>6. ASSUME NEW r \in Requests, CancelRead(p, r) PROVE Quiet
      BY <1>1, <2>6 DEF CancelRead, Idle, Steps, MoveSteps
    <2>7. ASSUME NEW r \in Requests, NEW g \in Guardians, DescribeRead(p, r, g) PROVE Quiet
      BY <1>1, <2>7 DEF DescribeRead, Idle, Steps, MoveSteps
    <2>8. QED
      BY <1>4, <2>1, <2>2, <2>3, <2>4, <2>5, <2>6, <2>7 DEF Stop, Loud
  <1>5. ASSUME NEW p \in Procs, Complete(p) PROVE Quiet \/ \E r \in Requests : Loud(p, r)
    <2>1. ASSUME SweepDue(p) PROVE Quiet
      BY <1>1, <2>1 DEF SweepDue, Steps, MoveSteps
    <2>2. ASSUME NEW u \in Requesters, CurrentRead(p, u) PROVE Quiet
      BY <1>1, <2>2 DEF CurrentRead, Idle, Steps, MoveSteps
    <2>3. ASSUME NEW r \in Requests, ClaimFails(p, r) PROVE Quiet
      BY <1>1, <2>3 DEF ClaimFails, AfterComplete, Steps, MoveSteps
    <2>4. QED
      BY <1>5, <2>1, <2>2, <2>3 DEF Complete, Loud
  <1>6. ASSUME NEW p \in Procs, Abort(p) PROVE Quiet
    BY <1>1, <1>6 DEF Abort, Steps, MoveSteps
  <1>7. ASSUME NEW g \in Guardians, RemoveGuardian(g) PROVE Quiet
    BY <1>7 DEF RemoveGuardian, Quiet
  <1>8. ASSUME Tick PROVE Quiet
    BY <1>8 DEF Tick, Quiet
  <1>9. ASSUME UNCHANGED vars PROVE Quiet
    BY <1>9 DEF vars, Quiet
  <1>10. QED
    BY <1>2, <1>3, <1>4, <1>5, <1>6, <1>7, <1>8, <1>9 DEF Next, Loud

(* What a loud step does to the request, to those who move wallets, and to the
   wallets they have found. *)
LEMMA LoudFacts ==
  ASSUME IInv, NEW p \in Procs, NEW r \in Requests, Loud(p, r)
  PROVE  /\ now' = now
         /\ \A x \in Requests : req'[x].newUser = req[x].newUser
         /\ \A x \in Requests \ {r} : req'[x] = req[x]
         /\ req[r].status \in ClosedStatuses => req'[r].status \in ClosedStatuses
         /\ \A q \in Procs, x \in Requests : Moving(q, x)' /\ ~Claim(p, r) => Moving(q, x)
         /\ \A q \in Procs : pc'[q] = "saving" /\ ~MoveRead(p, r) =>
                               pc[q] = "saving" /\ loc'[q] = loc[q]
  <1> USE DEF rows, history
  <1>0. /\ TypeOK /\ LocalOK(p) /\ req \in [Requests -> Row] /\ req[r] \in Row
        /\ pc \in [Procs -> Steps] /\ loc \in [Procs -> Local] /\ loc[p] \in Local
    BY DEF IInv, TypeOK
  <1>1. ASSUME NEW s \in Steps \ MoveSteps, NEW l, Goto(p, s, l)
        PROVE  /\ \A q \in Procs, x \in Requests : Moving(q, x)' => Moving(q, x)
               /\ \A q \in Procs : pc'[q] = "saving" => pc[q] = "saving" /\ loc'[q] = loc[q]
    BY <1>0, <1>1 DEF Goto, Moving, MoveSteps
  <1>2. CASE Decline(p, r) \/ ApproveLast(p, r)
    <2>1. pc[p] = "deciding" /\ loc[p].r = r /\ now' = now /\ Goto(p, "idle", NoLocal)
      BY <1>2 DEF Decline, ApproveLast
    <2>2. req[r].status = "awaiting_approvals"
      BY <1>0, <2>1 DEF LocalOK
    <2>3. /\ \A x \in Requests : req'[x].newUser = req[x].newUser
          /\ \A x \in Requests \ {r} : req'[x] = req[x]
      <3>1. CASE Decline(p, r)
        BY <1>0, <3>1 DEF Decline, Row
      <3>2. CASE ApproveLast(p, r)
        BY <1>0, <3>2 DEF ApproveLast, Row
      <3>3. QED
        BY <1>2, <3>1, <3>2
    <2>4. "idle" \in Steps \ MoveSteps
      BY DEF Steps, MoveSteps
    <2>5. QED
      BY <1>1, <2>1, <2>2, <2>3, <2>4 DEF ClosedStatuses
  <1>3. CASE Approve(p, r) \/ LeakClaim(p, r)
    <2>1. Goto(p, "idle", NoLocal) /\ UNCHANGED <<req, now>>
      BY <1>3 DEF Approve, LeakClaim
    <2>2. "idle" \in Steps \ MoveSteps
      BY DEF Steps, MoveSteps
    <2>3. QED
      BY <1>1, <2>1, <2>2
  <1>4. CASE CloseInTx(p, r) \/ DescribeClose(p, r)
    <2>1. /\ r \in Held(p) /\ CloseRow(p, r) /\ now' = now
          /\ \E s \in Steps \ MoveSteps : \E l : Goto(p, s, l)
      BY <1>4 DEF CloseInTx, DescribeClose, AfterClose, Steps, MoveSteps
    <2>2. loc[p].copy[r].newUser = req[r].newUser /\ loc[p].copy[r] \in Row
      BY <1>0, <2>1 DEF LocalOK, Held, Local
    <2>3. /\ req'[r].newUser = req[r].newUser
          /\ req'[r].status \in ClosedStatuses
          /\ \A x \in Requests \ {r} : req'[x] = req[x]
      BY <1>0, <2>1, <2>2 DEF CloseRow, Row, ClosedAs, ClosedStatuses
    <2>4. QED
      BY <1>1, <2>1, <2>3
  <1>5. CASE Claim(p, r)
    <2>1. /\ req' = [req EXCEPT ![r].status = "completing"] /\ now' = now
          /\ req[r].status = "time_locked"
          /\ \E l : Goto(p, "moving", l)
      BY <1>5 DEF Claim, Due
    <2>2. \A q \in Procs : pc'[q] = "saving" => pc[q] = "saving" /\ loc'[q] = loc[q]
      BY <1>0, <2>1 DEF Goto
    <2>3. QED
      BY <1>0, <1>5, <2>1, <2>2 DEF ClosedStatuses, Row
  <1>6. CASE MoveRead(p, r)
    <2>1. /\ pc[p] = "moving" /\ loc[p].r = r /\ UNCHANGED <<req, now>>
          /\ Goto(p, "saving", [loc[p] EXCEPT !.copy = Copies({r}), !.found = holder = Owner])
      BY <1>6 DEF MoveRead
    <2>2. \A q \in Procs, x \in Requests : Moving(q, x)' => Moving(q, x)
      BY <1>0, <2>1 DEF Goto, Moving, Local
    <2>3. QED
      BY <1>6, <2>1, <2>2
  <1>7. CASE Move(p, r)
    <2>1. /\ req' = [req EXCEPT ![r] = [loc[p].copy[r] EXCEPT !.status = "completed",
                                                             !.closedAt = now]]
          /\ now' = now /\ pc[p] = "saving" /\ loc[p].r = r
          /\ \E s \in Steps \ MoveSteps : \E l : Goto(p, s, l)
      BY <1>7 DEF Move, AfterComplete, Steps, MoveSteps
    <2>2. loc[p].copy[r].newUser = req[r].newUser /\ loc[p].copy[r] \in Row
      BY <1>0, <2>1 DEF LocalOK, Local
    <2>3. /\ req'[r].newUser = req[r].newUser
          /\ req'[r].status \in ClosedStatuses
          /\ \A x \in Requests \ {r} : req'[x] = req[x]
      BY <1>0, <2>1, <2>2 DEF Row, ClosedStatuses
    <2>4. QED
      BY <1>1, <2>1, <2>3
  <1>8. CASE MoveFails(p, r)
    <2>1. /\ req' = IF req[r].status = "completing"
                      THEN [req EXCEPT ![r].status = "time_locked"] ELSE req
          /\ now' = now
          /\ \E s \in Steps \ MoveSteps : \E l : Goto(p, s, l)
      BY <1>8 DEF MoveFails, HandBack, AfterComplete, Steps, MoveSteps
    <2>2. /\ req'[r].newUser = req[r].newUser
          /\ req[r].status \in ClosedStatuses => req'[r].status \in ClosedStatuses
          /\ \A x \in Requests \ {r} : req'[x] = req[x]
      BY <1>0, <2>1 DEF Row, ClosedStatuses
    <2>3. QED
      BY <1>1, <2>1, <2>2
  <1>9. QED
    BY <1>2, <1>3, <1>4, <1>5, <1>6, <1>7, <1>8 DEF Loud

(* A closed request never opens again. *)
THEOREM ClosedForGood == Spec => ClosedStaysClosed
  <1>1. ASSUME IInv, [Next]_vars, NEW r \in Requests, req[r].status \in ClosedStatuses
        PROVE  req'[r].status \in ClosedStatuses
    <2>1. TypeOK
      BY <1>1 DEF IInv
    <2>2. CASE Quiet
      BY <1>1, <2>2 DEF Quiet
    <2>3. ASSUME NEW p \in Procs, StartInsert(p) PROVE req'[r].status \in ClosedStatuses
      BY <1>1, <2>3 DEF StartInsert, NoRow, ClosedStatuses
    <2>4. ASSUME NEW p \in Procs, NEW x \in Requests, Loud(p, x)
          PROVE  req'[r].status \in ClosedStatuses
      BY <1>1, <2>4, LoudFacts
    <2>5. QED
      BY <1>1, <2>1, <2>2, <2>3, <2>4, StepKinds
  <1>2. IInv /\ [Next]_vars =>
          [\A r \in Requests : req[r].status \in ClosedStatuses => req'[r].status \in ClosedStatuses]_vars
    BY <1>1
  <1>3. QED
    BY <1>2, Invariance, PTL DEF Spec, ClosedStaysClosed

(* A cancel, decline or expiry that commits before the claim is final. *)
THEOREM StopWins == Spec => StopIsFinal
  <1>1. ASSUME IInv, [Next]_vars, NEW r \in Requests,
               req[r].status \in ClosedStatuses, Movers(r) = {}
        PROVE  Movers(r)' = {}
    <2>0. TypeOK /\ pc \in [Procs -> Steps]
      BY <1>1 DEF IInv, TypeOK
    <2>1. SUFFICES ASSUME NEW q \in Procs, Moving(q, r)' PROVE FALSE
      BY DEF Movers
    <2>2. ~Moving(q, r)
      BY <1>1 DEF Movers
    <2>3. CASE Quiet
      BY <2>1, <2>2, <2>3 DEF Quiet, Moving, MoveSteps
    <2>4. ASSUME NEW p \in Procs, StartInsert(p) PROVE FALSE
      <3>1. PICK l : Goto(p, "notifying", l)
        BY <2>4 DEF StartInsert
      <3>2. QED
        BY <2>0, <2>1, <2>2, <3>1 DEF Goto, Moving
    <2>5. ASSUME NEW p \in Procs, NEW x \in Requests, Loud(p, x) PROVE FALSE
      <3>1. CASE Claim(p, x)
        <4>1. /\ req[x].status = "time_locked"
              /\ Goto(p, "moving", [loc[p] EXCEPT !.r = x, !.due = @ \ {x}])
          BY <3>1 DEF Claim, Due
        <4>2. x # r
          BY <1>1, <4>1 DEF ClosedStatuses
        <4>3. loc \in [Procs -> Local] /\ loc[p] \in Local
          BY <2>0 DEF TypeOK
        <4>4. q = p => loc'[q].r = x
          BY <4>1, <4>3 DEF Goto, Local
        <4>5. q # p => pc'[q] = pc[q] /\ loc'[q] = loc[q]
          BY <2>0, <4>1, <4>3 DEF Goto
        <4>6. QED
          BY <2>1, <2>2, <4>2, <4>4, <4>5 DEF Moving
      <3>2. CASE ~Claim(p, x)
        BY <1>1, <2>1, <2>2, <2>5, <3>2, LoudFacts
      <3>3. QED
        BY <3>1, <3>2
    <2>6. QED
      BY <1>1, <2>0, <2>3, <2>4, <2>5, StepKinds
  <1>2. IInv /\ [Next]_vars =>
          [\A r \in Requests :
             req[r].status \in ClosedStatuses /\ Movers(r) = {} => Movers(r)' = {}]_vars
    BY <1>1
  <1>3. QED
    BY <1>2, Invariance, PTL DEF Spec, StopIsFinal

(* Votes are recorded only while the request waits for them. *)
THEOREM NoLateVotes == Spec => VotesOnlyWhileAwaiting
  <1>1. ASSUME IInv, [Next]_vars, NEW r \in Requests, vote'[r] # vote[r]
        PROVE  req[r].status \in {"none", "awaiting_approvals"}
    <2>1. TypeOK /\ vote \in [Requests -> [Guardians -> Decisions \cup {"none", "pending"}]]
      BY <1>1 DEF IInv, TypeOK
    <2>2. ~Quiet
      BY <1>1 DEF Quiet
    <2>3. ASSUME NEW p \in Procs, StartInsert(p) PROVE req[r].status = "none"
      BY <1>1, <2>1, <2>3 DEF StartInsert, NoRow
    <2>4. ASSUME NEW p \in Procs, NEW x \in Requests, Loud(p, x)
          PROVE  req[r].status = "awaiting_approvals"
      <3>1. CASE Decline(p, x) \/ Approve(p, x) \/ ApproveLast(p, x)
        <4>1. pc[p] = "deciding" /\ loc[p].r = x /\ Cast(p, x)
          BY <3>1 DEF Decline, Approve, ApproveLast
        <4>2. req[x].status = "awaiting_approvals"
          BY <1>1, <4>1 DEF IInv, LocalOK
        <4>3. x = r
          BY <1>1, <2>1, <4>1 DEF Cast
        <4>4. QED
          BY <4>2, <4>3
      <3>2. CASE UNCHANGED vote
        BY <1>1, <3>2
      <3>3. QED
        BY <2>4, <3>1, <3>2 DEF Loud, CloseInTx, DescribeClose, Claim, MoveRead, Move, MoveFails,
                                LeakClaim, rows
    <2>5. QED
      BY <1>1, <2>1, <2>2, <2>3, <2>4, StepKinds
  <1>2. IInv /\ [Next]_vars =>
          [\A r \in Requests : vote'[r] # vote[r] =>
             req[r].status \in {"none", "awaiting_approvals"}]_vars
    BY <1>1
  <1>3. QED
    BY <1>2, Invariance, PTL DEF Spec, VotesOnlyWhileAwaiting

(* Once the completions that found wallets in the old account are over, the
   wallets stay where they went, whatever other requests complete. *)
THEOREM MovedForGood == Spec => MovedStaysMoved
  <1>1. ASSUME IInv, [Next]_vars, Settled PROVE Settled' /\ holder' = holder
    <2>0. /\ TypeOK /\ holder # Owner
          /\ \A q \in Procs : pc[q] = "saving" => ~loc[q].found
          /\ pc \in [Procs -> Steps] /\ loc \in [Procs -> Local]
      BY <1>1 DEF IInv, TypeOK, Settled
    <2>1. ASSUME UNCHANGED holder,
                 \A q \in Procs : pc'[q] = "saving" => pc[q] = "saving" /\ loc'[q] = loc[q]
          PROVE  Settled' /\ holder' = holder
      BY <2>0, <2>1 DEF Settled
    <2>2. CASE Quiet
      BY <2>1, <2>2 DEF Quiet, MoveSteps
    <2>3. ASSUME NEW p \in Procs, StartInsert(p) PROVE Settled' /\ holder' = holder
      <3>1. UNCHANGED holder /\ \E l : Goto(p, "notifying", l)
        BY <2>3 DEF StartInsert
      <3>2. QED
        BY <2>0, <2>1, <3>1 DEF Goto
    <2>4. ASSUME NEW p \in Procs, NEW x \in Requests, Loud(p, x)
          PROVE  Settled' /\ holder' = holder
      <3>1. CASE MoveRead(p, x)
        <4>1. /\ UNCHANGED holder
              /\ Goto(p, "saving", [loc[p] EXCEPT !.copy = Copies({x}), !.found = holder = Owner])
          BY <3>1 DEF MoveRead
        <4>2. loc'[p].found = FALSE
          BY <2>0, <4>1 DEF Goto, Local
        <4>3. \A q \in Procs \ {p} : pc'[q] = pc[q] /\ loc'[q] = loc[q]
          BY <2>0, <4>1 DEF Goto
        <4>4. QED
          BY <2>0, <4>1, <4>2, <4>3 DEF Settled
      <3>2. CASE ~MoveRead(p, x)
        <4>1. \A q \in Procs : pc'[q] = "saving" => pc[q] = "saving" /\ loc'[q] = loc[q]
          BY <1>1, <2>4, <3>2, LoudFacts
        <4>2. UNCHANGED holder
          BY <2>0, <2>4, <3>2 DEF Loud, Decline, Approve, ApproveLast, CloseInTx, DescribeClose, Claim,
                                  Move, MoveFails, LeakClaim
        <4>3. QED
          BY <2>1, <4>1, <4>2
      <3>3. QED
        BY <3>1, <3>2
    <2>5. QED
      BY <1>1, <2>0, <2>1, <2>2, <2>3, <2>4, StepKinds
  <1>2. IInv /\ [Next]_vars => [Settled => Settled' /\ holder' = holder]_vars
    BY <1>1
  <1>3. QED
    BY <1>2, Invariance, PTL DEF Spec, MovedStaysMoved

-----------------------------------------------------------------------------
(* While no replica dies and no hand-back fails, a handler that moves wallets
   goes on until it commits or hands the claim back. *)
LEMMA MoversStay ==
  ASSUME IInv, [Next]_vars, ~Leaks, NEW q \in Procs, NEW x \in Requests, Moving(q, x)
  PROVE  Moving(q, x)' \/ Move(q, x) \/ MoveFails(q, x)
  <1>0. /\ pc \in [Procs -> Steps] /\ loc \in [Procs -> Local]
        /\ pc[q] \in MoveSteps /\ loc[q].r = x
    BY DEF IInv, TypeOK, Moving, MoveSteps
  <1>1. ASSUME NEW p \in Procs, pc[p] \notin MoveSteps, NEW s, NEW l, Goto(p, s, l)
        PROVE  Moving(q, x)'
    BY <1>0, <1>1 DEF Goto, Moving, MoveSteps
  <1>2. ASSUME NEW p \in Procs, Start(p) PROVE Moving(q, x)'
    <2>1. pc[p] \notin MoveSteps /\ \E s, l : Goto(p, s, l)
      BY <1>2 DEF Start, StartRead, StartCheck, StartInsert, StartNotifyGuardian,
                  StartNotifyOwner, Idle, MoveSteps
    <2>2. QED
      BY <1>1, <2>1
  <1>3. ASSUME NEW p \in Procs, Decide(p) PROVE Moving(q, x)'
    <2>1. pc[p] \notin MoveSteps /\ \E s, l : Goto(p, s, l)
      BY <1>3 DEF Decide, DecideLock, Decline, Approve, ApproveLast, Idle, MoveSteps
    <2>2. QED
      BY <1>1, <2>1
  <1>4. ASSUME NEW p \in Procs, Stop(p) PROVE Moving(q, x)'
    <2>1. ASSUME \/ SignInRead(p) \/ SignInSave(p) \/ SignInFind(p) \/ SweepRead(p) \/ DescribeRevoke(p)
                 \/ \E r \in Requests : CancelRead(p, r) \/ \E g \in Guardians : DescribeRead(p, r, g)
          PROVE  pc[p] \notin MoveSteps /\ \E s, l : Goto(p, s, l)
      BY <2>1 DEF SignInRead, SignInSave, SignInFind, SweepRead, DescribeRevoke, CancelRead,
                  DescribeRead, Idle, MoveSteps
    <2>2. ASSUME NEW r \in Requests, CloseInTx(p, r) \/ DescribeClose(p, r)
          PROVE  pc[p] \notin MoveSteps /\ \E s, l : Goto(p, s, l)
      BY <2>2 DEF CloseInTx, DescribeClose, AfterClose, MoveSteps
    <2>3. QED
      BY <1>1, <1>4, <2>1, <2>2 DEF Stop
  <1>5. ASSUME NEW p \in Procs, Complete(p) PROVE Moving(q, x)' \/ Move(q, x) \/ MoveFails(q, x)
    <2>1. ASSUME \/ SweepDue(p) \/ \E u \in Requesters : CurrentRead(p, u)
                 \/ \E r \in Requests : Claim(p, r) \/ ClaimFails(p, r)
          PROVE  pc[p] \notin MoveSteps /\ \E s, l : Goto(p, s, l)
      BY <2>1 DEF SweepDue, CurrentRead, Claim, ClaimFails, AfterComplete, Idle, MoveSteps
    <2>2. ASSUME NEW r \in Requests, Move(p, r) \/ MoveFails(p, r)
          PROVE  Moving(q, x)' \/ Move(q, x) \/ MoveFails(q, x)
      <3>1. p = q => r = x
        BY <1>0, <2>2 DEF Move, MoveFails, Moving
      <3>2. p # q => Moving(q, x)'
        BY <1>0, <2>2 DEF Move, MoveFails, AfterComplete, Goto, Moving, MoveSteps
      <3>3. QED
        BY <2>2, <3>1, <3>2
    <2>3. ASSUME NEW r \in Requests, MoveRead(p, r) PROVE Moving(q, x)'
      <3>1. Goto(p, "saving", [loc[p] EXCEPT !.copy = Copies({r}), !.found = holder = Owner])
        BY <2>3 DEF MoveRead
      <3>2. QED
        BY <1>0, <3>1 DEF Goto, Moving, MoveSteps, Local
    <2>4. QED
      BY <1>1, <1>5, <2>1, <2>2, <2>3 DEF Complete
  <1>6. ASSUME NEW p \in Procs, Abort(p) \/ \E r \in Requests : LeakClaim(p, r)
        PROVE  Moving(q, x)'
    BY <1>1, <1>6 DEF Abort, LeakClaim, MoveSteps
  <1>7. ASSUME (\E g \in Guardians : RemoveGuardian(g)) \/ Tick \/ UNCHANGED vars
        PROVE  Moving(q, x)'
    BY <1>7, <1>0 DEF RemoveGuardian, Tick, vars, Moving, MoveSteps
  <1>8. QED
    BY <1>2, <1>3, <1>4, <1>5, <1>6, <1>7 DEF Next

(* The status that a vote or the end of a move leaves. *)
LEMMA StatusAfter ==
  ASSUME TypeOK, NEW p \in Procs, NEW r \in Requests
  PROVE  /\ Decline(p, r) => req'[r].status = "declined"
         /\ ApproveLast(p, r) => req'[r].status = "time_locked"
         /\ Move(p, r) => req'[r].status = "completed"
         /\ MoveFails(p, r) => req'[r].status # "completing"
  <1>0. req \in [Requests -> Row] /\ req[r] \in Row
    BY DEF TypeOK
  <1>1. ASSUME NEW st, NEW at, req' = [req EXCEPT ![r].status = st, ![r].closedAt = at]
        PROVE  req'[r].status = st
    <2> DEFINE row == [[req[r] EXCEPT !.status = st] EXCEPT !.closedAt = at]
    <2>1. req'[r] = row
      BY <1>0, <1>1
    <2>2. row.status = st
      BY <1>0 DEF Row
    <2>3. QED
      BY <2>1, <2>2
  <1>2. ASSUME NEW st, NEW at, req' = [req EXCEPT ![r].status = st, ![r].unlocksAt = at]
        PROVE  req'[r].status = st
    <2> DEFINE row == [[req[r] EXCEPT !.status = st] EXCEPT !.unlocksAt = at]
    <2>1. req'[r] = row
      BY <1>0, <1>2
    <2>2. row.status = st
      BY <1>0 DEF Row
    <2>3. QED
      BY <2>1, <2>2
  <1>3. Decline(p, r) => req'[r].status = "declined"
    BY <1>1 DEF Decline
  <1>4. ApproveLast(p, r) => req'[r].status = "time_locked"
    BY <1>2 DEF ApproveLast
  <1>5. ASSUME Move(p, r) PROVE req'[r].status = "completed"
    <2>1. loc[p].copy[r] \in Row
      BY DEF TypeOK, Local
    <2>2. req'[r] = [loc[p].copy[r] EXCEPT !.status = "completed", !.closedAt = now]
      BY <1>0, <1>5 DEF Move
    <2>3. QED
      BY <2>1, <2>2 DEF Row
  <1>6. ASSUME MoveFails(p, r) PROVE req'[r].status # "completing"
    <2>1. req' = IF req[r].status = "completing"
                   THEN [req EXCEPT ![r].status = "time_locked"] ELSE req
      BY <1>6 DEF MoveFails, HandBack
    <2>2. [req EXCEPT ![r].status = "time_locked"][r].status = "time_locked"
      BY <1>0 DEF Row
    <2>3. QED
      BY <2>1, <2>2
  <1>7. QED
    BY <1>3, <1>4, <1>5, <1>6

(* Only the claim makes a request "completing". *)
LEMMA ClaimedNow ==
  ASSUME IInv, [Next]_vars, NEW x \in Requests, req'[x].status = "completing"
  PROVE  req[x].status = "completing" \/ \E p \in Procs : Moving(p, x)'
  <1> USE DEF rows, history
  <1>0. /\ TypeOK /\ req \in [Requests -> Row] /\ req[x] \in Row
        /\ pc \in [Procs -> Steps] /\ loc \in [Procs -> Local]
    BY DEF IInv, TypeOK
  <1>1. CASE Quiet
    BY <1>1 DEF Quiet
  <1>2. ASSUME NEW p \in Procs, StartInsert(p) PROVE req[x].status = "completing"
    BY <1>0, <1>2 DEF StartInsert
  <1>3. ASSUME NEW p \in Procs, NEW r \in Requests, Loud(p, r)
        PROVE  req[x].status = "completing" \/ \E q \in Procs : Moving(q, x)'
    <2>1. r # x => req'[x] = req[x]
      BY <1>3, LoudFacts
    <2>2. CASE r = x /\ (Decline(p, r) \/ Approve(p, r) \/ ApproveLast(p, r))
      BY <1>0, <2>2, StatusAfter DEF Approve
    <2>3. CASE r = x /\ (CloseInTx(p, r) \/ DescribeClose(p, r))
      <3>1. CloseRow(p, r)
        BY <2>3 DEF CloseInTx, DescribeClose
      <3>2. loc[p].copy[r] \in Row
        BY <1>0 DEF Local
      <3>3. req'[x].status = ClosedAs(loc[p].op)
        BY <1>0, <2>3, <3>1, <3>2 DEF CloseRow, Row
      <3>4. QED
        BY <3>3 DEF ClosedAs
    <2>4. CASE r = x /\ Claim(p, r)
      <3>1. Goto(p, "moving", [loc[p] EXCEPT !.r = r, !.due = @ \ {r}]) /\ loc[p] \in Local
        BY <1>0, <2>4 DEF Claim
      <3>2. pc'[p] = "moving" /\ loc'[p].r = r
        BY <1>0, <3>1 DEF Goto, Local
      <3>3. QED
        BY <2>4, <3>2 DEF Moving
    <2>5. CASE r = x /\ (Move(p, r) \/ MoveFails(p, r))
      BY <1>0, <2>5, StatusAfter
    <2>6. CASE MoveRead(p, r) \/ LeakClaim(p, r)
      BY <2>6 DEF MoveRead, LeakClaim
    <2>7. QED
      BY <1>3, <2>1, <2>2, <2>3, <2>4, <2>5, <2>6 DEF Loud
  <1>4. QED
    BY <1>0, <1>1, <1>2, <1>3, StepKinds

(* While no replica dies and the hand-back itself does not fail, no claim is
   left without a handler at work on it, however many completions fail and
   however late (complete, its catch). *)
THEOREM ClaimHeld == Spec => []ClaimIsHeld
  <1>1. Init => ClaimIsHeld
    BY DEF Init, NoCopies, NoRow, ClaimIsHeld
  <1>2. ASSUME IInv, ClaimIsHeld, [Next]_vars, ~Leaks,
               NEW r \in Requests, req'[r].status = "completing"
        PROVE  Movers(r)' # {}
    <2>1. ASSUME req[r].status = "completing" PROVE \E q \in Procs : Moving(q, r)'
      <3>1. PICK q \in Procs : Moving(q, r)
        BY <1>2, <2>1 DEF ClaimIsHeld, Movers, Moving
      <3>2. TypeOK
        BY <1>2 DEF IInv
      <3>3. ~Move(q, r) /\ ~MoveFails(q, r)
        BY <1>2, <3>2, StatusAfter
      <3>4. QED
        BY <1>2, <3>1, <3>3, MoversStay
    <2>2. PICK q \in Procs : Moving(q, r)'
      BY <1>2, <2>1, ClaimedNow
    <2>3. QED
      BY <2>2 DEF Moving, Movers
  <1>3. IInv /\ ClaimIsHeld /\ [Next]_vars => ClaimIsHeld'
    BY <1>2 DEF ClaimIsHeld
  <1>4. QED
    BY <1>1, <1>3, Invariance, PTL DEF Spec

-----------------------------------------------------------------------------
(* The refinement: a quiet step is time passing or a stutter of the promise;
   an insert asks, a decide votes or passes, a completion begins, gives up or
   grants. *)

(* A step of a handler that neither holds found wallets nor reads them. *)
LEMMA BegunStays ==
  ASSUME IInv, NEW p \in Procs, pc[p] # "saving", NEW s \in Steps \ {"saving"}, NEW l, Goto(p, s, l)
  PROVE  Begun' = Begun
  <1>1. \A q \in Procs : pc[q] = "saving" \/ pc'[q] = "saving" => pc'[q] = pc[q] /\ loc'[q] = loc[q]
    BY DEF IInv, TypeOK, Goto
  <1>2. QED
    BY <1>1 DEF Begun

(* The handler that moves wallets for r is done. *)
LEMMA BegunEnds ==
  ASSUME IInv, NEW p \in Procs, NEW r \in Requests, Moving(p, r),
         NEW s \in {"idle", "claiming"}, NEW l, Goto(p, s, l)
  PROVE  Begun' = Begun \ {r}
  <1>1. \A q \in Procs : Moving(q, r) => q = p
    BY MoverFacts
  <1>2. pc'[p] = s /\ \A q \in Procs \ {p} : pc'[q] = pc[q] /\ loc'[q] = loc[q]
    BY DEF IInv, TypeOK, Goto
  <1>3. \A q \in Procs, x \in Requests :
          (pc'[q] = "saving" /\ loc'[q].r = x /\ loc'[q].found)
            <=> (pc[q] = "saving" /\ loc[q].r = x /\ loc[q].found) /\ x # r
    BY <1>1, <1>2 DEF Moving
  <1>4. QED
    BY <1>3 DEF Begun

LEMMA RefineInit == Init => Promise!Init
  BY DEF Init, Promise!Init, NoCopies, NoRow, Granted, Begun, NoTime

LEMMA RefineStep == IInv /\ IInv' /\ [Next]_vars => [Promise!Next]_(Promise!vars)
  <1> SUFFICES ASSUME IInv, IInv', [Next]_vars PROVE [Promise!Next]_(Promise!vars)
    OBVIOUS
  <1> DEFINE newUser == [r \in Requests |-> req[r].newUser]
  <1>0. TypeOK /\ req \in [Requests -> Row] /\ moves \in [Requests -> Nat]
    BY DEF IInv, TypeOK
  <1>1. ASSUME \A x \in Requests : req'[x].newUser = req[x].newUser
        PROVE  UNCHANGED newUser
    BY <1>1
  <1>2. CASE Quiet
    <2>1. UNCHANGED <<newUser, vote, quorumAt, Begun, Granted, holder>>
      BY <1>2 DEF Quiet, Granted, Begun, MoveSteps
    <2>2. CASE Tick
      BY <2>1, <2>2 DEF Tick, Promise!Next, Promise!Tick
    <2>3. CASE UNCHANGED now
      BY <2>1, <2>3 DEF Promise!vars
    <2>4. QED
      BY <1>2, <2>2, <2>3 DEF Quiet
  <1>3. ASSUME NEW p \in Procs, StartInsert(p) PROVE Promise!Next
    <2>1. PICK r \in Requests :
            /\ req[r] = NoRow
            /\ req' = [req EXCEPT ![r] =
                         [status    |-> "awaiting_approvals",
                          newUser   |-> loc[p].newUser,
                          threshold |-> loc[p].threshold,
                          expireAt  |-> now + ApprovalWindow,
                          unlocksAt |-> NoTime,
                          closedAt  |-> NoTime]]
            /\ vote' = [vote EXCEPT ![r] =
                         [g \in Guardians |-> IF g \in loc[p].voters THEN "pending" ELSE "none"]]
      BY <1>3 DEF StartInsert
    <2>2. loc[p].newUser \in Requesters /\ loc[p].voters \in SUBSET Guardians
      BY <1>0, <1>3 DEF IInv, LocalOK, StartInsert, TypeOK, Local
    <2>3. newUser[r] = Nobody
      BY <2>1 DEF NoRow
    <2>4. newUser' = [newUser EXCEPT ![r] = loc[p].newUser]
      BY <1>0, <2>1
    <2>5. UNCHANGED <<quorumAt, Begun, Granted, holder, now>>
      <3>1. pc[p] = "inserting" /\ \E l : Goto(p, "notifying", l)
        BY <1>3 DEF StartInsert
      <3>2. UNCHANGED Begun
        BY <3>1, BegunStays DEF Steps
      <3>3. QED
        BY <1>3, <3>2 DEF StartInsert, history, Granted
    <2> HIDE DEF newUser
    <2>6. PICK u \in Requesters : u = loc[p].newUser
      BY <2>2
    <2>7. PICK voters \in SUBSET Guardians : voters = loc[p].voters
      BY <2>2
    <2>8. Promise!Ask(r, u, voters)
      BY <2>1, <2>3, <2>4, <2>5, <2>6, <2>7 DEF Promise!Ask, newUser
    <2>9. QED
      BY <2>8 DEF Promise!Next
  <1>4. ASSUME NEW p \in Procs, NEW r \in Requests, Loud(p, r)
        PROVE  [Promise!Next]_(Promise!vars)
    <2>0. UNCHANGED newUser /\ now' = now
      BY <1>1, <1>4, LoudFacts
    <2> HIDE DEF newUser
    <2>1. CASE Decline(p, r) \/ Approve(p, r) \/ ApproveLast(p, r)
      <3> DEFINE g == loc[p].g
                 d == loc[p].decision
      <3>1. /\ pc[p] = "deciding" /\ loc[p].r = r /\ Cast(p, r)
            /\ Goto(p, "idle", NoLocal)
            /\ UNCHANGED <<moves, holder>>
        BY <2>1 DEF Decline, Approve, ApproveLast, history
      <3>2. /\ g \in Guardians /\ d \in Decisions /\ vote[r][g] = "pending"
            /\ quorumAt[r] = 0 /\ \A h \in Guardians : vote[r][h] # "declined"
            /\ Voters(r)' = Voters(r)
        BY <3>1, LockedFacts DEF IInv, LocalOK, NoTime
      <3>3. vote' = [vote EXCEPT ![r][g] = d] /\ UNCHANGED <<Begun, Granted>>
        <4>1. "idle" \in Steps \ {"saving"}
          BY DEF Steps
        <4>2. UNCHANGED Begun
          BY <3>1, <4>1, BegunStays
        <4>3. QED
          BY <3>1, <4>2 DEF Cast, Granted
      <3> HIDE DEF g, d
      <3>4. Promise!Cast(r, g, d)
        BY <2>0, <3>1, <3>2, <3>3 DEF Promise!Cast, Promise!Declined, newUser
      <3>5. CASE Decline(p, r) \/ Approve(p, r)
        <4>1. UNCHANGED quorumAt
          BY <3>5 DEF Decline, Approve, history
        <4>2. QED
          BY <3>2, <3>4, <4>1 DEF Promise!Next, Promise!Vote, Decisions
      <3>6. CASE ApproveLast(p, r)
        <4>1. d = "approved" /\ quorumAt' = [quorumAt EXCEPT ![r] = now]
          BY <3>6 DEF ApproveLast, d
        <4>2. /\ req'[r].status = "time_locked" /\ quorumAt'[r] # NoTime
              /\ RowOK(r)' /\ VotesOK(r)'
              /\ req'[r] \in Row
          BY <3>6, <1>0 DEF ApproveLast, IInv, TypeOK, RowOK
        <4>3. /\ Cardinality(Approved(r)') >= req'[r].threshold
              /\ 2 * req'[r].threshold > Cardinality(Voters(r)')
          BY <4>2 DEF RowOK, VotesOK
        <4>4. /\ Approved(r)' \in SUBSET Guardians /\ Voters(r)' \in SUBSET Guardians
              /\ req'[r].threshold \in Nat
          BY <4>2 DEF Approved, Voters, Row
        <4>5. 2 * Cardinality(Approved(r)') > Cardinality(Voters(r)')
          BY <4>3, <4>4, GuardianSets
        <4>6. 2 * Promise!Cardinality(Promise!Approved(r)') > Promise!Cardinality(Promise!Asked(r))
          <5>1. Promise!Approved(r)' = Approved(r)' /\ Promise!Asked(r) = Voters(r)
            BY DEF Promise!Approved, Promise!Asked, Approved, Voters
          <5>2. ASSUME NEW S PROVE Promise!Cardinality(S) = Cardinality(S)
            BY DEF Promise!Cardinality, Cardinality
          <5>3. QED
            BY <3>2, <4>5, <5>1, <5>2
        <4>7. Promise!Pass(r, g)
          BY <3>4, <4>1, <4>6 DEF Promise!Pass
        <4>8. QED
          BY <3>2, <4>7 DEF Promise!Next
      <3>7. QED
        BY <2>1, <3>5, <3>6
    <2>2. CASE CloseInTx(p, r) \/ DescribeClose(p, r) \/ Claim(p, r)
      <3>1. /\ pc[p] # "saving" /\ \E s \in Steps \ {"saving"} : \E l : Goto(p, s, l)
            /\ UNCHANGED <<vote, quorumAt, moves, holder>>
        BY <2>2 DEF CloseInTx, DescribeClose, Claim, AfterClose, Steps, history
      <3>2. UNCHANGED Begun
        BY <3>1, BegunStays
      <3>3. QED
        BY <2>0, <3>1, <3>2 DEF Promise!vars, Granted, newUser
    <2>3. CASE MoveRead(p, r)
      <3>1. /\ Moving(p, r) /\ pc[p] = "moving" /\ loc[p].r = r
            /\ Goto(p, "saving", [loc[p] EXCEPT !.copy = Copies({r}), !.found = holder = Owner])
            /\ UNCHANGED <<vote, quorumAt, moves, holder>>
        BY <2>3 DEF MoveRead, Moving, rows, history
      <3>2. moves[r] = 0 /\ quorumAt[r] # NoTime /\ now >= quorumAt[r] + TimeLock
        BY <3>1, MoverFacts
      <3>3. Begun' = IF holder = Owner THEN Begun \cup {r} ELSE Begun
        <4>1. loc'[p].r = r /\ loc'[p].found = (holder = Owner) /\ pc'[p] = "saving"
          BY <1>0, <3>1 DEF TypeOK, Goto, Local
        <4>2. \A q \in Procs \ {p} : pc'[q] = pc[q] /\ loc'[q] = loc[q]
          BY <1>0, <3>1 DEF TypeOK, Goto
        <4>3. \A x \in Requests \ {r} : x \in Begun' <=> x \in Begun
          BY <3>1, <4>1, <4>2 DEF Begun
        <4>4. \A q \in Procs \ {p} : ~Moving(q, r)
          BY <3>1, MoverFacts
        <4>5. r \notin Begun /\ (r \in Begun' <=> holder = Owner)
          BY <3>1, <4>1, <4>2, <4>4 DEF Begun, Moving
        <4>6. Begun \in SUBSET Requests /\ Begun' \in SUBSET Requests
          BY DEF Begun
        <4>7. QED
          BY <4>3, <4>5, <4>6
      <3>4. CASE holder = Owner
        <4>1. Promise!Begin(r)
          BY <2>0, <3>1, <3>2, <3>3, <3>4 DEF Promise!Begin, Promise!Grantable, Granted, NoTime, newUser
        <4>2. QED
          BY <4>1 DEF Promise!Next
      <3>5. CASE holder # Owner
        BY <2>0, <3>1, <3>3, <3>5 DEF Promise!vars, Granted, newUser
      <3>6. QED
        BY <3>4, <3>5
    <2>4. CASE MoveFails(p, r) \/ LeakClaim(p, r)
      <3>1. /\ Moving(p, r) /\ \E s \in {"idle", "claiming"} : \E l : Goto(p, s, l)
            /\ UNCHANGED <<vote, quorumAt, moves, holder>>
        BY <2>4 DEF MoveFails, LeakClaim, AfterComplete, rows, history
      <3>2. Begun' = Begun \ {r}
        BY <3>1, BegunEnds
      <3>3. Promise!GiveUp(r)
        BY <2>0, <3>1, <3>2 DEF Promise!GiveUp, Granted, newUser
      <3>4. QED
        BY <3>3 DEF Promise!Next
    <2>5. CASE Move(p, r)
      <3>1. /\ Moving(p, r) /\ pc[p] = "saving" /\ loc[p].r = r
            /\ \E s \in {"idle", "claiming"} : \E l : Goto(p, s, l)
            /\ moves' = [moves EXCEPT ![r] = @ + 1]
            /\ holder' = IF loc[p].found THEN loc[p].copy[r].newUser ELSE holder
            /\ UNCHANGED <<vote, quorumAt>>
        <4>1. /\ pc[p] = "saving" /\ loc[p].r = r /\ AfterComplete(p, loc[p].due)
              /\ moves' = [moves EXCEPT ![r] = @ + 1]
              /\ holder' = IF loc[p].found THEN loc[p].copy[r].newUser ELSE holder
              /\ UNCHANGED <<vote, quorumAt>>
          BY <2>5 DEF Move
        <4>2. \E s \in {"idle", "claiming"} : \E l : Goto(p, s, l)
          BY <4>1 DEF AfterComplete
        <4>3. QED
          BY <4>1, <4>2 DEF Moving
      <3>2. /\ moves[r] = 0 /\ quorumAt[r] # NoTime /\ now >= quorumAt[r] + TimeLock
            /\ \A q \in Procs : Moving(q, r) => q = p
        BY <3>1, MoverFacts
      <3>3. r \notin Granted /\ Granted' = Granted \cup {r}
        BY <1>0, <3>1, <3>2 DEF Granted
      <3>4. r \in Begun <=> loc[p].found
        BY <3>1, <3>2 DEF Begun, Moving
      <3>5. /\ ~loc[p].found => holder # Owner
            /\ loc[p].copy[r].newUser = req[r].newUser
        BY <3>1 DEF IInv, LocalOK
      <3>6. Begun' = Begun \ {r}
        BY <3>1, BegunEnds
      <3>7. Promise!Grant(r)
        BY <2>0, <3>1, <3>2, <3>3, <3>4, <3>5, <3>6
           DEF Promise!Grant, Promise!Grantable, NoTime, newUser
      <3>8. QED
        BY <3>7 DEF Promise!Next
    <2>6. QED
      BY <1>4, <2>1, <2>2, <2>3, <2>4, <2>5 DEF Loud
  <1>5. QED
    BY <1>0, <1>2, <1>3, <1>4, StepKinds

(* The recovery service, with every race and failure of its handlers, does no
   more than the promise allows. *)
THEOREM Refinement == Spec => KeepsPromise
  <1>1. QED
    BY RefineInit, RefineStep, Invariance, PTL DEF Spec, KeepsPromise, Promise!Spec
=============================================================================
