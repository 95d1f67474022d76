------------------------------ MODULE Recovery ------------------------------
(***************************************************************************)
(* Social recovery of one custodial account                                *)
(* (services/backend/src/modules/social-recovery/recovery.service.ts).     *)
(*                                                                         *)
(* A requester signed in with a new account asks for the wallets of the    *)
(* old account.  The old account's guardians vote; enough approvals start  *)
(* a time lock; after it the wallets move, unless the owner cancelled.     *)
(*                                                                         *)
(* Three replicas of the backend run the handlers concurrently.  A handler *)
(* in flight is a process: between two database statements other handlers  *)
(* run, and what it has read is a copy that grows stale.  A transaction    *)
(* that locks its rows first (decide) holds the request's row from its     *)
(* check to its commit; one that only writes is a single step.  TypeORM's  *)
(* save() of an entity writes every column in which the row differs from   *)
(* the entity, so saving a stale copy puts the copy back.                  *)
(***************************************************************************)
EXTENDS Integers, FiniteSets

CONSTANTS
  Guardians,       \* the owner's guardians
  Requesters,      \* new accounts that may ask for the wallets
  Procs,           \* handler invocations in flight, over all replicas
  Owner,           \* the old account
  SameEmail,       \* [Requesters -> SUBSET Guardians]: who asks from a guardian's address
  MinGuardians,    \* MIN_GUARDIANS
  ApprovalWindow,  \* APPROVAL_WINDOW_MS
  TimeLock,        \* timeLockMs
  Cooldown,        \* COOLDOWN_MS
  MaxTime,         \* bound: the clock stops here
  MaxRequests,     \* bound: rows of recovery_requests
  Ops,             \* bound: the handlers that are called, a subset of AllOps
  Leaks            \* TRUE: a replica may die while it moves wallets, or its hand-back fail

AllOps == {"start", "decide", "cancel", "signIn", "sweep", "describe", "current", "remove"}

ASSUME GuardiansAssumption   == IsFiniteSet(Guardians)
ASSUME OwnerAssumption       == Owner \notin Requesters /\ Owner \notin Guardians
ASSUME SameEmailAssumption   == SameEmail \in [Requesters -> SUBSET Guardians]
ASSUME MinGuardiansAssumption == MinGuardians \in Nat \ {0}
ASSUME TimesAssumption       == /\ ApprovalWindow \in Nat \ {0}
                                /\ TimeLock \in Nat \ {0}
                                /\ Cooldown \in Nat
ASSUME BoundsAssumption      == MaxTime \in Nat \ {0} /\ MaxRequests \in Nat /\ Ops \subseteq AllOps
ASSUME LeaksAssumption       == Leaks \in BOOLEAN

VARIABLES
  req,       \* recovery_requests, by id; ids are handed out in creation order
  vote,      \* recovery_approvals.decision, by request and guardian
  token,     \* per request, the guardians whose approval row still has a tokenHash
  mailed,    \* per request, who has been sent the mail with their link
  active,    \* guardians with status 'active'
  holder,    \* wallets.userId: the account that holds the wallets
  locked,    \* users.lockedAt and sessionsValidAfter of the old account are set
  now,       \* the clock of the replicas and of the database
  pc, loc,   \* where each handler is, and its local variables
  quorumAt,  \* history: when the threshold was reached (0: not yet)
  moves,     \* history: completions committed, per request
  acked      \* history: requests whose cancel link answered "cancelled"

rows    == <<req, vote, token>>
history == <<quorumAt, moves, acked>>
vars    == <<req, vote, token, mailed, active, holder, locked, now, pc, loc, history>>

Requests   == 1..MaxRequests
NoRequest  == 0
NoTime     == 0       \* a null timestamp; the clock starts at 1
Nobody     == "nobody"

OpenStatuses   == {"awaiting_approvals", "time_locked", "completing"}
ClosedStatuses == {"completed", "cancelled", "declined", "expired"}
Decisions      == {"approved", "declined"}

Row == [status    : OpenStatuses \cup ClosedStatuses \cup {"none"},
        newUser   : Requesters \cup {Nobody},
        threshold : Nat,
        expireAt  : Nat,
        unlocksAt : Nat,
        closedAt  : Nat]

NoRow == [status |-> "none", newUser |-> Nobody, threshold |-> 0,
          expireAt |-> NoTime, unlocksAt |-> NoTime, closedAt |-> NoTime]

NoCopies == [r \in Requests |-> NoRow]

(* The local variables of a handler, with the values they have at rest.    *)
NoLocal == [op |-> "none", r |-> NoRequest, g |-> Nobody, decision |-> "pending",
            newUser |-> Nobody, voters |-> {}, threshold |-> 0,
            copy |-> NoCopies, due |-> {}, found |-> FALSE]

Local == [op        : AllOps \cup {"none"},
          r         : Requests \cup {NoRequest},
          g         : Guardians \cup {Nobody},
          decision  : Decisions \cup {"pending"},
          newUser   : Requesters \cup {Nobody},
          voters    : SUBSET Guardians,
          threshold : Nat,
          copy      : [Requests -> Row],
          due       : SUBSET Requests,
          found     : BOOLEAN]

Steps == {"idle", "starting", "inserting", "notifying", "deciding", "closing",
          "revoking", "sweeping", "claiming", "moving", "saving", "signingIn", "signedIn"}

-----------------------------------------------------------------------------
(* Definitions marked "Bug" are never used by the specification: each is the
   definition that follows it with a mistake, which some property must catch. *)

(* Bug: half of the guardians suffice. *)
ThresholdIsHalf(n) == n \div 2

(* Majority of active guardians: 2 of 3, 3 of 4, 3 of 5. *)
ThresholdFor(n) == n \div 2 + 1

Approved(r) == {g \in Guardians : vote[r][g] = "approved"}
Voters(r)   == {g \in Guardians : vote[r][g] # "none"}

(* Rows a query by status returns. *)
WithStatus(S) == {r \in Requests : req[r].status \in S}

(* Bug: decide reads without FOR UPDATE. *)
RowLockedNever(r) == FALSE

(* decide holds the row lock of its request until it commits. *)
RowLocked(r) == \E p \in Procs : pc[p] = "deciding" /\ loc[p].r = r

(* Handler p has claimed r and moves wallets on its behalf. *)
Moving(p, r) == pc[p] \in {"moving", "saving"} /\ loc[p].r = r

Copies(S) == [r \in Requests |-> IF r \in S THEN req[r] ELSE NoRow]
Held(p)   == {r \in Requests : loc[p].copy[r] # NoRow}

(* Handler p may be called with operation op. *)
Idle(p, op) == pc[p] = "idle" /\ op \in Ops

(* Handler p moves on to step s with local variables l; at rest it has none. *)
Goto(p, s, l) == /\ pc'  = [pc  EXCEPT ![p] = s]
                 /\ loc' = [loc EXCEPT ![p] = IF s = "idle" THEN NoLocal ELSE l]

Init ==
  /\ req = NoCopies
  /\ vote = [r \in Requests |-> [g \in Guardians |-> "none"]]
  /\ token = [r \in Requests |-> {}]
  /\ mailed = [r \in Requests |-> {}]
  /\ active = Guardians
  /\ holder = Owner
  /\ locked = FALSE
  /\ now = 1
  /\ pc = [p \in Procs |-> "idle"]
  /\ loc = [p \in Procs |-> NoLocal]
  /\ quorumAt = [r \in Requests |-> NoTime]
  /\ moves = [r \in Requests |-> 0]
  /\ acked = {}

-----------------------------------------------------------------------------
(* startRequest: the requester and the old account are read first ...       *)
StartRead(p, u) ==
  LET voters    == active \ SameEmail[u]
      threshold == ThresholdFor(Cardinality(active))
  IN /\ Idle(p, "start")
     /\ \A r \in WithStatus(OpenStatuses) : req[r].newUser # u
     /\ holder # u
     /\ ~locked
     /\ Cardinality(active) >= MinGuardians
     /\ Cardinality(voters) >= threshold
     /\ Goto(p, "starting", [NoLocal EXCEPT !.op = "start", !.newUser = u,
                                            !.voters = voters, !.threshold = threshold])
     /\ UNCHANGED <<rows, mailed, active, holder, locked, now, history>>

(* An open request against the old account, or one closed by a cancel or a
   decline within the cooldown. *)
Blocked == \/ WithStatus(OpenStatuses) # {}
           \/ \E r \in WithStatus({"cancelled", "declined"}) : req[r].closedAt > now - Cooldown

(* ... then its other requests; a blocked request gets the generic answer ... *)
StartCheck(p) ==
  /\ pc[p] = "starting"
  /\ Goto(p, IF Blocked THEN "idle" ELSE "inserting", loc[p])
  /\ UNCHANGED <<rows, mailed, active, holder, locked, now, history>>

(* ... and one transaction inserts the request and its approval rows.  Ids
   grow with creation; the bound is that they run out. *)
StartInsert(p) ==
  /\ pc[p] = "inserting"
  /\ \E r \in Requests :
       /\ req[r] = NoRow
       /\ \A s \in Requests : s < r => req[s] # NoRow
       /\ req' = [req EXCEPT ![r] =
                    [status    |-> "awaiting_approvals",
                     newUser   |-> loc[p].newUser,
                     threshold |-> loc[p].threshold,
                     expireAt  |-> now + ApprovalWindow,
                     unlocksAt |-> NoTime,
                     closedAt  |-> NoTime]]
       /\ vote' = [vote EXCEPT ![r] =
                    [g \in Guardians |-> IF g \in loc[p].voters THEN "pending" ELSE "none"]]
       /\ token' = [token EXCEPT ![r] = loc[p].voters]
       /\ Goto(p, "notifying", [loc[p] EXCEPT !.r = r])
  /\ UNCHANGED <<mailed, active, holder, locked, now, history>>

(* After the commit the mails go out one at a time: every voter, then the
   owner with the cancel link. *)
StartNotifyGuardian(p, g) ==
  /\ pc[p] = "notifying"
  /\ g \in loc[p].voters
  /\ mailed' = [mailed EXCEPT ![loc[p].r] = @ \cup {g}]
  /\ Goto(p, "notifying", [loc[p] EXCEPT !.voters = @ \ {g}])
  /\ UNCHANGED <<rows, active, holder, locked, now, history>>

StartNotifyOwner(p) ==
  /\ pc[p] = "notifying"
  /\ loc[p].voters = {}
  /\ mailed' = [mailed EXCEPT ![loc[p].r] = @ \cup {Owner}]
  /\ Goto(p, "idle", NoLocal)
  /\ UNCHANGED <<rows, active, holder, locked, now, history>>

-----------------------------------------------------------------------------
(* decide, first half: findOpenApproval locks the approval and the request
   and checks them.  An expired request is closed there too, but the throw
   that follows rolls that back, so nothing happens. *)
DecideLock(p, r, g, d) ==
  /\ Idle(p, "decide")
  /\ g \in mailed[r] \cap token[r]
  /\ vote[r][g] = "pending"
  /\ ~RowLocked(r)
  /\ req[r].status = "awaiting_approvals"
  /\ ~(req[r].expireAt < now)
  /\ Goto(p, "deciding", [NoLocal EXCEPT !.op = "decide", !.r = r, !.g = g, !.decision = d])
  /\ UNCHANGED <<rows, mailed, active, holder, locked, now, history>>

Cast(p, r) == vote' = [vote EXCEPT ![r][loc[p].g] = loc[p].decision]

(* Bug: the decline is recorded but the request is left open. *)
DeclineKeepsOpen(p, r) ==
  /\ pc[p] = "deciding" /\ loc[p].r = r /\ loc[p].decision = "declined"
  /\ Cast(p, r)
  /\ token' = [token EXCEPT ![r] = @ \ {loc[p].g}]
  /\ Goto(p, "idle", NoLocal)
  /\ UNCHANGED <<req, mailed, active, holder, locked, now, history>>

(* decide, commit: a decline closes the request and every other link. *)
Decline(p, r) ==
  /\ pc[p] = "deciding" /\ loc[p].r = r /\ loc[p].decision = "declined"
  /\ Cast(p, r)
  /\ req' = [req EXCEPT ![r].status = "declined", ![r].closedAt = now]
  /\ token' = [token EXCEPT ![r] = {}]
  /\ Goto(p, "idle", NoLocal)
  /\ UNCHANGED <<mailed, active, holder, locked, now, history>>

(* decide, commit: an approval below the threshold. *)
Approve(p, r) ==
  /\ pc[p] = "deciding" /\ loc[p].r = r /\ loc[p].decision = "approved"
  /\ Cast(p, r)
  /\ Cardinality(Approved(r)') < req[r].threshold
  /\ token' = [token EXCEPT ![r] = @ \ {loc[p].g}]
  /\ Goto(p, "idle", NoLocal)
  /\ UNCHANGED <<req, mailed, active, holder, locked, now, history>>

(* decide, commit: the approval that reaches the threshold starts the time
   lock; the owner's second mail is sent before the commit. *)
ApproveLast(p, r) ==
  /\ pc[p] = "deciding" /\ loc[p].r = r /\ loc[p].decision = "approved"
  /\ Cast(p, r)
  /\ Cardinality(Approved(r)') >= req[r].threshold
  /\ req' = [req EXCEPT ![r].status = "time_locked", ![r].unlocksAt = now + TimeLock]
  /\ token' = [token EXCEPT ![r] = @ \ {loc[p].g}]
  /\ quorumAt' = [quorumAt EXCEPT ![r] = now]
  /\ Goto(p, "idle", NoLocal)
  /\ UNCHANGED <<mailed, active, holder, locked, now, moves, acked>>

-----------------------------------------------------------------------------
(* Bug: a status the column's type does not know. *)
ClosedAsMisspelt(op) == IF op \in {"cancel", "signIn"} THEN "canceled" ELSE "expired"

(* What close() is to write, by the handler that calls it. *)
ClosedAs(op) == IF op \in {"cancel", "signIn"} THEN "cancelled" ELSE "expired"

(* cancelByToken reads the request outside any transaction. *)
CancelRead(p, r) ==
  /\ Idle(p, "cancel")
  /\ Owner \in mailed[r]
  /\ r \in WithStatus({"awaiting_approvals", "time_locked"})
  /\ Goto(p, "closing", [NoLocal EXCEPT !.op = "cancel", !.copy = Copies({r})])
  /\ UNCHANGED <<rows, mailed, active, holder, locked, now, history>>

(* A sign-in reads the user and refuses a locked one.  loginWithWorkOs then
   saves the user; login, the password sign-in, goes straight on ... *)
SignInRead(p) ==
  /\ Idle(p, "signIn")
  /\ ~locked
  /\ \E s \in {"signingIn", "signedIn"} : Goto(p, s, [NoLocal EXCEPT !.op = "signIn"])
  /\ UNCHANGED <<rows, mailed, active, holder, locked, now, history>>

(* ... with the user it read, lockedAt and sessionsValidAfter null ... *)
SignInSave(p) ==
  /\ pc[p] = "signingIn"
  /\ locked' = FALSE
  /\ Goto(p, "signedIn", loc[p])
  /\ UNCHANGED <<rows, mailed, active, holder, now, history>>

(* ... and cancelForSignIn reads the open requests it will close. *)
SignInFind(p) ==
  LET open == WithStatus({"awaiting_approvals", "time_locked"})
  IN /\ pc[p] = "signedIn"
     /\ Goto(p, IF open = {} THEN "idle" ELSE "closing", [loc[p] EXCEPT !.copy = Copies(open)])
     /\ UNCHANGED <<rows, mailed, active, holder, locked, now, history>>

(* Bug: the window of a request nobody has answered does not run out. *)
SweepReadAnswered(p) ==
  LET stale == {r \in WithStatus({"awaiting_approvals"}) :
                  req[r].expireAt <= now /\ Approved(r) # {}}
  IN /\ Idle(p, "sweep")
     /\ Goto(p, IF stale = {} THEN "sweeping" ELSE "closing",
             [NoLocal EXCEPT !.op = "sweep", !.copy = Copies(stale)])
     /\ UNCHANGED <<rows, mailed, active, holder, locked, now, history>>

(* sweep reads the requests whose approval window has passed. *)
SweepRead(p) ==
  LET stale == {r \in WithStatus({"awaiting_approvals"}) : req[r].expireAt <= now}
  IN /\ Idle(p, "sweep")
     /\ Goto(p, IF stale = {} THEN "sweeping" ELSE "closing",
             [NoLocal EXCEPT !.op = "sweep", !.copy = Copies(stale)])
     /\ UNCHANGED <<rows, mailed, active, holder, locked, now, history>>

(* describeApproval reads a guardian's open approval; if the window has
   passed, findOpenApproval closes the request although there is no
   transaction around it. *)
DescribeRead(p, r, g) ==
  /\ Idle(p, "describe")
  /\ g \in mailed[r] \cap token[r]
  /\ vote[r][g] = "pending"
  /\ req[r].status = "awaiting_approvals"
  /\ req[r].expireAt < now
  /\ Goto(p, "closing", [NoLocal EXCEPT !.op = "describe", !.r = r, !.copy = Copies({r})])
  /\ UNCHANGED <<rows, mailed, active, holder, locked, now, history>>

(* close(): the row becomes the copy that was read, with its new status. *)
CloseRow(p, r) ==
  req' = [req EXCEPT ![r] = [loc[p].copy[r] EXCEPT !.status   = ClosedAs(loc[p].op),
                                                   !.closedAt = now]]

(* The next step of a handler that has closed r. *)
AfterClose(p, r) ==
  LET l == [loc[p] EXCEPT !.copy[r] = NoRow]
  IN Goto(p, IF Held(p) # {r} THEN "closing"
             ELSE IF loc[p].op = "sweep" THEN "sweeping" ELSE "idle", l)

(* One transaction per request for the cancels and the sweep. *)
CloseInTx(p, r) ==
  /\ pc[p] = "closing" /\ loc[p].op # "describe"
  /\ r \in Held(p)
  /\ ~RowLocked(r)
  /\ CloseRow(p, r)
  /\ token' = [token EXCEPT ![r] = {}]
  /\ AfterClose(p, r)
  /\ acked' = IF loc[p].op = "cancel" THEN acked \cup {r} ELSE acked
  /\ UNCHANGED <<vote, mailed, active, holder, locked, now, quorumAt, moves>>

(* Two commits for describeApproval. *)
DescribeClose(p, r) ==
  /\ pc[p] = "closing" /\ loc[p].op = "describe"
  /\ r \in Held(p)
  /\ ~RowLocked(r)
  /\ CloseRow(p, r)
  /\ Goto(p, "revoking", [loc[p] EXCEPT !.copy = NoCopies])
  /\ UNCHANGED <<vote, token, mailed, active, holder, locked, now, history>>

DescribeRevoke(p) ==
  /\ pc[p] = "revoking"
  /\ ~RowLocked(loc[p].r)
  /\ token' = [token EXCEPT ![loc[p].r] = {}]
  /\ Goto(p, "idle", NoLocal)
  /\ UNCHANGED <<req, vote, mailed, active, holder, locked, now, history>>

-----------------------------------------------------------------------------
(* Bug: any open request counts, and a null unlocksAt as passed. *)
DueIfOpen(r) == req[r].status \in OpenStatuses /\ req[r].unlocksAt <= now

(* Bug: the time lock is forgotten. *)
DueAtOnce(r) == req[r].status = "time_locked"

Due(r) == req[r].status = "time_locked" /\ req[r].unlocksAt <= now

(* sweep, after the stale ones: the requests whose time lock has passed. *)
SweepDue(p) ==
  LET due == {r \in Requests : Due(r)}
  IN /\ pc[p] = "sweeping"
     /\ Goto(p, IF due = {} THEN "idle" ELSE "claiming", [loc[p] EXCEPT !.due = due])
     /\ UNCHANGED <<rows, mailed, active, holder, locked, now, history>>

(* currentRequest completes the requester's latest request if it is due. *)
CurrentRead(p, u) ==
  LET mine == {r \in Requests : req[r].newUser = u}
  IN /\ Idle(p, "current")
     /\ \E r \in mine :
          /\ \A s \in mine : s <= r
          /\ Due(r)
          /\ Goto(p, "claiming", [NoLocal EXCEPT !.op = "current", !.due = {r}])
     /\ UNCHANGED <<rows, mailed, active, holder, locked, now, history>>

(* Bug: the claim saves the row without WHERE status = 'time_locked'. *)
ClaimWithoutWhere(p, r) ==
  /\ pc[p] = "claiming"
  /\ r \in loc[p].due
  /\ ~RowLocked(r)
  /\ req' = [req EXCEPT ![r].status = "completing"]
  /\ Goto(p, "moving", [loc[p] EXCEPT !.r = r, !.due = @ \ {r}])
  /\ UNCHANGED <<vote, token, mailed, active, holder, locked, now, history>>

(* complete(): the claim is one UPDATE ... WHERE status = 'time_locked'. *)
Claim(p, r) ==
  /\ pc[p] = "claiming"
  /\ r \in loc[p].due
  /\ ~RowLocked(r)
  /\ Due(r)
  /\ req' = [req EXCEPT ![r].status = "completing"]
  /\ Goto(p, "moving", [loc[p] EXCEPT !.r = r, !.due = @ \ {r}])
  /\ UNCHANGED <<vote, token, mailed, active, holder, locked, now, history>>

(* The next step of a handler that is done with request r. *)
AfterComplete(p, due) ==
  Goto(p, IF due = {} THEN "idle" ELSE "claiming",
       [loc[p] EXCEPT !.r = NoRequest, !.due = due, !.copy = NoCopies, !.found = FALSE])

ClaimFails(p, r) ==
  /\ pc[p] = "claiming"
  /\ r \in loc[p].due
  /\ ~RowLocked(r)
  /\ ~Due(r)
  /\ AfterComplete(p, loc[p].due \ {r})
  /\ UNCHANGED <<rows, mailed, active, holder, locked, now, history>>

(* Bug: the wallets are found whoever holds them. *)
MoveReadAnyones(p, r) ==
  /\ pc[p] = "moving" /\ loc[p].r = r
  /\ Goto(p, "saving", [loc[p] EXCEPT !.copy = Copies({r}), !.found = TRUE])
  /\ UNCHANGED <<rows, mailed, active, holder, locked, now, history>>

(* complete(), the transaction: it reads the request and the wallets of the
   old account, which another completion may have moved, and locks neither ... *)
MoveRead(p, r) ==
  /\ pc[p] = "moving" /\ loc[p].r = r
  /\ Goto(p, "saving", [loc[p] EXCEPT !.copy = Copies({r}), !.found = holder = Owner])
  /\ UNCHANGED <<rows, mailed, active, holder, locked, now, history>>

(* ... and commits: the wallets it found go to the new account, wherever they
   are by now, the account is locked, its guardians are removed, and the copy
   of the request is saved as completed, whatever the row has become. *)
Move(p, r) ==
  /\ pc[p] = "saving" /\ loc[p].r = r
  /\ holder' = IF loc[p].found THEN loc[p].copy[r].newUser ELSE holder
  /\ locked' = TRUE
  /\ active' = {}
  /\ req' = [req EXCEPT ![r] = [loc[p].copy[r] EXCEPT !.status = "completed", !.closedAt = now]]
  /\ moves' = [moves EXCEPT ![r] = @ + 1]
  /\ AfterComplete(p, loc[p].due)
  /\ UNCHANGED <<vote, token, mailed, now, quorumAt, acked>>

HandBack(r) ==
  req' = IF req[r].status = "completing" THEN [req EXCEPT ![r].status = "time_locked"] ELSE req

(* Bug: the hand-back has no WHERE. *)
MoveFailsWithoutWhere(p, r) ==
  /\ Moving(p, r)
  /\ req' = [req EXCEPT ![r].status = "time_locked"]
  /\ AfterComplete(p, loc[p].due)
  /\ UNCHANGED <<vote, token, mailed, active, holder, locked, now, history>>

(* Bug: the wallets are saved one by one, without a transaction. *)
MoveFailsHalfway(p, r) ==
  /\ Moving(p, r)
  /\ holder' = IF loc[p].found THEN loc[p].copy[r].newUser ELSE holder
  /\ HandBack(r)
  /\ AfterComplete(p, loc[p].due)
  /\ UNCHANGED <<vote, token, mailed, active, locked, now, history>>

(* Bug: the claim is not handed back. *)
MoveFailsKeepsClaim(p, r) ==
  /\ Moving(p, r)
  /\ AfterComplete(p, loc[p].due)
  /\ UNCHANGED <<rows, mailed, active, holder, locked, now, history>>

(* complete(), the catch: the transaction rolled back, the claim is handed
   back by UPDATE ... WHERE status = 'completing'. *)
MoveFails(p, r) ==
  /\ Moving(p, r)
  /\ HandBack(r)
  /\ AfterComplete(p, loc[p].due)
  /\ UNCHANGED <<vote, token, mailed, active, holder, locked, now, history>>

(* The hand-back fails as well, and its exception leaves the handler, or the
   replica dies before it: the claim stays, and nobody works on it. *)
LeakClaim(p, r) ==
  /\ Leaks
  /\ Moving(p, r)
  /\ Goto(p, "idle", NoLocal)
  /\ UNCHANGED <<rows, mailed, active, holder, locked, now, history>>

-----------------------------------------------------------------------------
(* A handler ends early: a query or a mail fails and the exception leaves it,
   Postgres picks it as a deadlock victim, or its replica dies.  A transaction
   it was in rolls back; the caller sees an error. *)
Abort(p) ==
  /\ pc[p] \notin {"idle", "moving", "saving"}
  /\ Goto(p, "idle", NoLocal)
  /\ UNCHANGED <<rows, mailed, active, holder, locked, now, history>>

(* removeGuardian.  Guardians that are invited and confirm are the concern of
   another module; here the set the owner starts with only shrinks. *)
RemoveGuardian(g) ==
  /\ "remove" \in Ops
  /\ g \in active
  /\ active' = active \ {g}
  /\ UNCHANGED <<rows, mailed, holder, locked, now, pc, loc, history>>

Tick ==
  /\ now < MaxTime
  /\ now' = now + 1
  /\ UNCHANGED <<rows, mailed, active, holder, locked, pc, loc, history>>

Start(p) == \/ \E u \in Requesters : StartRead(p, u)
            \/ StartCheck(p)
            \/ StartInsert(p)
            \/ \E g \in Guardians : StartNotifyGuardian(p, g)
            \/ StartNotifyOwner(p)

Decide(p) == \E r \in Requests :
               \/ \E g \in Guardians, d \in Decisions : DecideLock(p, r, g, d)
               \/ Decline(p, r)
               \/ Approve(p, r)
               \/ ApproveLast(p, r)

Stop(p) == \/ SignInRead(p)
           \/ SignInSave(p)
           \/ SignInFind(p)
           \/ SweepRead(p)
           \/ DescribeRevoke(p)
           \/ \E r \in Requests :
                \/ CancelRead(p, r)
                \/ \E g \in Guardians : DescribeRead(p, r, g)
                \/ CloseInTx(p, r)
                \/ DescribeClose(p, r)

Complete(p) == \/ SweepDue(p)
               \/ \E u \in Requesters : CurrentRead(p, u)
               \/ \E r \in Requests :
                    \/ Claim(p, r)
                    \/ ClaimFails(p, r)
                    \/ MoveRead(p, r)
                    \/ Move(p, r)
                    \/ MoveFails(p, r)

Next == \/ \E p \in Procs : \/ Start(p) \/ Decide(p) \/ Stop(p) \/ Complete(p)
                            \/ Abort(p) \/ \E r \in Requests : LeakClaim(p, r)
        \/ \E g \in Guardians : RemoveGuardian(g)
        \/ Tick

Spec == Init /\ [][Next]_vars

(* Fairness.  A handler that was called runs on, to its end or to a failure;
   every replica's timer calls sweep again and again, for as long as time
   goes by; and neither the database nor a wallet's key fails every attempt
   for ever, so each kind of sweep step gets through in the end. *)
RunsOn(p) == pc[p] # "idle" /\ (Start(p) \/ Decide(p) \/ Stop(p) \/ Complete(p))

Fairness ==
  /\ WF_vars(Tick)
  /\ \A p \in Procs : WF_vars(RunsOn(p))
  /\ SF_vars(\E p \in Procs : SweepRead(p))
  /\ SF_vars(\E p \in Procs : SweepDue(p))
  /\ \A r \in Requests : /\ SF_vars(\E p \in Procs : CloseInTx(p, r))
                         /\ SF_vars(\E p \in Procs : Claim(p, r))
                         /\ SF_vars(\E p \in Procs : MoveRead(p, r))
                         /\ SF_vars(\E p \in Procs : Move(p, r))

FairSpec == Spec /\ Fairness
-----------------------------------------------------------------------------
Movers(r) == {p \in Procs : Moving(p, r)}

HasQuorum(r) == /\ Cardinality(Approved(r)) >= req[r].threshold
                /\ quorumAt[r] # NoTime

(* Every variable has its type. *)
TypeOK ==
  /\ req \in [Requests -> Row]
  /\ vote \in [Requests -> [Guardians -> Decisions \cup {"none", "pending"}]]
  /\ token \in [Requests -> SUBSET Guardians]
  /\ mailed \in [Requests -> SUBSET (Guardians \cup {Owner})]
  /\ active \in SUBSET Guardians
  /\ holder \in Requesters \cup {Owner}
  /\ locked \in BOOLEAN
  /\ now \in 1..MaxTime
  /\ pc \in [Procs -> Steps]
  /\ loc \in [Procs -> Local]
  /\ quorumAt \in [Requests -> Nat]
  /\ moves \in [Requests -> Nat]
  /\ acked \in SUBSET Requests

(* Wallets are never claimed for, or moved by, a request that a majority of
   the asked guardians has not approved, whatever handlers did to its row
   between the votes and the move (decide, complete). *)
QuorumBehindMove ==
  \A r \in Requests :
    \/ req[r].status \in {"time_locked", "completing"}
    \/ Movers(r) # {}
    \/ moves[r] > 0
    => /\ HasQuorum(r)
       /\ 2 * Cardinality(Approved(r)) > Cardinality(Voters(r))

(* A single decline stops a request for good: no order of other votes, stale
   cancels, expiries and completions lets it move wallets (decide). *)
DeclineStops ==
  \A r \in Requests :
    (\E g \in Guardians : vote[r][g] = "declined") =>
      /\ req[r].status \in ClosedStatuses \ {"completed"}
      /\ Movers(r) = {}
      /\ moves[r] = 0

(* No handler moves wallets before the time lock that began with the quorum
   is over, even when a stale save has since overwritten unlocksAt (complete). *)
TimeLockKept ==
  \A r \in Requests :
    Movers(r) # {} \/ moves[r] > 0 =>
      quorumAt[r] # NoTime /\ now >= quorumAt[r] + TimeLock

(* The status claim lets one handler at a time work on a request, over all
   replicas, and no request completes twice (complete: "only one replica can
   complete a request"). *)
OneMover ==
  \A r \in Requests :
    /\ \A p, q \in Movers(r) : p = q
    /\ Movers(r) # {} => moves[r] = 0
    /\ moves[r] <= 1

(* The account that holds the wallets is the old one, or the requester of a
   request that completed: a completion that finds no wallets, fails half way
   or is overtaken by another leaves nothing behind (complete). *)
HolderIsBacked ==
  /\ holder = Owner <=> \A r \in Requests : moves[r] = 0
  /\ holder # Owner => \E r \in Requests : moves[r] > 0 /\ req[r].newUser = holder

(* The wallets have moved, and no completion that found them in the old
   account is still to commit. *)
Settled == holder # Owner /\ \A p \in Procs : ~(pc[p] = "saving" /\ loc[p].found)

(* Two open requests can both get the wallets, one after the other, but only
   when both had read them before either committed: once the completions that
   did are over, no later one, however many requests are left open, takes the
   wallets from the account that holds them (complete). *)
MovedStaysMoved == [][Settled => Settled' /\ holder' = holder]_vars

(* A closed request never opens again: no stale save and no hand-back of a
   failed completion revives it (close, complete). *)
ClosedStaysClosed ==
  [][\A r \in Requests : req[r].status \in ClosedStatuses => req'[r].status \in ClosedStatuses]_vars

(* A request that is closed while nobody is moving its wallets is never
   claimed afterwards: a cancel that wins the race is final (complete). *)
StopIsFinal ==
  [][\A r \in Requests :
       req[r].status \in ClosedStatuses /\ Movers(r) = {} => Movers(r)' = {}]_vars

(* Votes change only while the request is waiting for them: no late vote is
   recorded on a request that has been closed or has its quorum (decide). *)
VotesOnlyWhileAwaiting ==
  [][\A r \in Requests : vote'[r] # vote[r] =>
       req[r].status \in {"none", "awaiting_approvals"}]_vars

(* A request whose time lock has passed is completed or closed in the end:
   the sweep finishes it without anyone asking (sweep, complete). *)
DueIsHandled == \A r \in Requests : Due(r) ~> req[r].status \in ClosedStatuses

(* A request whose guardians do not answer in time does not stay open: it
   would block every later request against the account (sweep). *)
ExpiredIsClosed ==
  \A r \in Requests :
    req[r].status = "awaiting_approvals" /\ req[r].expireAt < now
      ~> req[r].status # "awaiting_approvals"

(* While no replica dies and the hand-back itself does not fail, a claimed
   request has a handler at work on it: a completion that fails, at whatever
   point and however stale its request is, leaves no claim behind (complete,
   its catch). *)
ClaimIsHeld ==
  ~Leaks => \A r \in Requests : req[r].status = "completing" => Movers(r) # {}

-----------------------------------------------------------------------------
(* The inductive invariant behind the safety properties. *)

Deciding(p, r) == pc[p] = "deciding" /\ loc[p].r = r

(* What a handler knows at each of its steps. *)
LocalOK(p) ==
  /\ pc[p] \in {"starting", "inserting"} =>
       /\ loc[p].newUser \in Requesters
       /\ 2 * loc[p].threshold > Cardinality(loc[p].voters)
  /\ pc[p] \in {"notifying", "deciding", "moving", "saving"} => loc[p].r \in Requests
  /\ pc[p] = "saving" =>
       /\ loc[p].copy[loc[p].r] # NoRow
       /\ ~loc[p].found => holder # Owner
  /\ pc[p] = "deciding" =>
       /\ loc[p].g \in Guardians
       /\ loc[p].decision \in Decisions
       /\ req[loc[p].r].status = "awaiting_approvals"
       /\ vote[loc[p].r][loc[p].g] = "pending"
  /\ \A r \in Requests :
       loc[p].copy[r] # NoRow =>
         /\ req[r].status # "none"
         /\ loc[p].copy[r].newUser = req[r].newUser
         /\ loc[p].copy[r].threshold = req[r].threshold

(* The row lock of decide, and the claim of complete. *)
Exclusive(r) ==
  \A p, q \in Procs : \/ Deciding(p, r) /\ Deciding(q, r)
                      \/ Moving(p, r) /\ Moving(q, r)
                      => p = q

(* What a row's status says of its votes, its clock and its movers. *)
RowOK(r) ==
  /\ req[r].status # "none" => /\ req[r].newUser \in Requesters
                               /\ 2 * req[r].threshold > Cardinality(Voters(r))
  /\ req[r].status = "none" => req[r] = NoRow /\ \A g \in Guardians : vote[r][g] = "none"
  /\ req[r].status \in {"none", "awaiting_approvals"} => quorumAt[r] = NoTime
  /\ req[r].status \in {"none", "awaiting_approvals", "time_locked"} =>
       moves[r] = 0 /\ \A p \in Procs : ~Moving(p, r)
  /\ req[r].status \in {"time_locked", "completing"} =>
       quorumAt[r] # NoTime /\ req[r].unlocksAt = quorumAt[r] + TimeLock
  /\ \A p \in Procs : Moving(p, r) => moves[r] = 0
  /\ moves[r] <= 1

(* A request that has its quorum, or has been acted on, was approved. *)
VotesOK(r) ==
  /\ quorumAt[r] # NoTime =>
       /\ Cardinality(Approved(r)) >= req[r].threshold
       /\ \A g \in Guardians : vote[r][g] # "declined"
  /\ moves[r] > 0 \/ (\E p \in Procs : Moving(p, r)) =>
       quorumAt[r] # NoTime /\ now >= quorumAt[r] + TimeLock
  /\ req[r].status = "completed" => moves[r] > 0
  /\ req[r].status = "awaiting_approvals" => \A g \in Guardians : vote[r][g] # "declined"

HolderOK ==
  /\ holder = Owner <=> \A r \in Requests : moves[r] = 0
  /\ holder # Owner => \E r \in Requests : moves[r] > 0 /\ req[r].newUser = holder

(* Everything the steps preserve together: why a stale save cannot hurt is
   that copies carry the request's own threshold and requester (LocalOK), and
   that only decide, under its lock, and the claim, by its WHERE, move a
   request forward (Exclusive, RowOK). *)
IInv == /\ TypeOK
        /\ \A p \in Procs : LocalOK(p)
        /\ \A r \in Requests : Exclusive(r) /\ RowOK(r) /\ VotesOK(r)
        /\ HolderOK

=============================================================================
