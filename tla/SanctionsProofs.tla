--------------------------- MODULE SanctionsProofs ---------------------------
(***************************************************************************)
(* The safety of Sanctions, for any addresses, overlapping syncs and       *)
(* screenings, and delays.                                                 *)
(***************************************************************************)
EXTENDS Sanctions, FiniteSetTheorems, TLAPS

(* What a sync has fetched is no older than FetchDelay and, if it could be read,
   holds every address listed before. *)
SyncOK(j) ==
  sync[j].step # "idle" =>
    /\ sync[j].at <= now /\ now <= sync[j].at + FetchDelay
    /\ ~Unreadable => \A a \in Listed : listedAt[a] < sync[j].at => a \in sync[j].list

(* A screening that looks an address up found a fresh list LookupDelay ago at
   the most; no commit since then has made the list any older. *)
ScreenOK(s) ==
  screen[s].step = "checked" =>
    /\ screen[s].at <= now /\ now <= screen[s].at + LookupDelay
    /\ state.at # Never /\ screen[s].at - state.at <= MaxAge

(* The stored rows are as good as the list of the last sync to commit: they hold
   every address listed before that list was fetched. *)
StoredOK ==
  ~Unreadable /\ state.at # Never => \A a \in Listed : listedAt[a] < state.at - FetchDelay => a \in Stored

IInv ==
  /\ TypeOK
  /\ state.at <= now /\ \A a \in Addresses : listedAt[a] <= now
  /\ \A j \in Syncs : SyncOK(j)
  /\ \A s \in Screens : ScreenOK(s)
  /\ StoredOK

SyncRec   == [step : {"idle", "fetched", "deleting"}, list : SUBSET Addresses, found : Rows, at : Nat]
ScreenRec == [step : {"idle", "checked", "done"}, addr : Addresses, at : Nat, passed : BOOLEAN]

LEMMA Blank ==
  /\ NoSync \in SyncRec /\ NoSync.step = "idle"
  /\ NoScreen \in ScreenRec /\ NoScreen.step = "idle" /\ NoScreen.passed = FALSE
<1>1. NoSync \in SyncRec /\ NoSync.step = "idle"
  BY DEF NoSync, SyncRec, Rows
<1>2. (CHOOSE a \in Addresses : TRUE) \in Addresses
  BY AddressesAssumption
<1>3. NoScreen \in ScreenRec /\ NoScreen.step = "idle" /\ NoScreen.passed = FALSE
  BY <1>2 DEF NoScreen, ScreenRec
<1> QED BY <1>1, <1>3

LEMMA Types ==
  ASSUME IInv
  PROVE  /\ listedAt \in [Addresses -> {Never} \cup Nat]
         /\ rows \in [Addresses -> SUBSET Syncs]
         /\ state.status \in {"never_run", "ok", "failed"}
         /\ state.at \in {Never} \cup Nat /\ state.count \in Nat
         /\ sync \in [Syncs -> SyncRec]
         /\ screen \in [Screens -> ScreenRec]
         /\ now \in Nat /\ now <= MaxTime
         /\ FetchDelay \in Nat /\ LookupDelay \in Nat /\ MaxAge \in Nat /\ MaxTime \in Nat
         /\ Never = -1
BY TimesAssumption DEF IInv, TypeOK, SyncRec, ScreenRec, Rows, Never

-----------------------------------------------------------------------------
(* A screening's own steps. *)
LEMMA ScreenStep ==
  ASSUME IInv, UNCHANGED <<listedAt, rows, state, sync, now>>,
         NEW s \in Screens, NEW r \in ScreenRec, screen' = [screen EXCEPT ![s] = r],
         r.step = "checked" => ~Refuses /\ r.at = now
  PROVE  IInv'
<1>1. screen' \in [Screens -> ScreenRec]
  BY Types
<1>2. TypeOK'
  BY <1>1 DEF IInv, TypeOK, ScreenRec
<1>3. ASSUME NEW q \in Screens PROVE ScreenOK(q)'
  <2>1. CASE q = s
    BY <2>1, Types DEF ScreenOK, Refuses
  <2>2. CASE q # s
    BY <2>2, Types DEF IInv, ScreenOK
  <2> QED BY <2>1, <2>2
<1>4. (\A j \in Syncs : SyncOK(j)') /\ StoredOK'
  BY DEF IInv, SyncOK, StoredOK, Listed, Stored
<1> QED BY <1>2, <1>3, <1>4 DEF IInv

(* A sync's steps before its commit; a failure is recorded in the state. *)
LEMMA SyncStep ==
  ASSUME IInv, UNCHANGED <<listedAt, rows, screen, now>>,
         state' = state \/ state' = [state EXCEPT !.status = "failed"],
         NEW j \in Syncs, NEW r \in SyncRec, sync' = [sync EXCEPT ![j] = r],
         r.step # "idle" => /\ r.at <= now /\ now <= r.at + FetchDelay
                            /\ ~Unreadable => \A a \in Listed : listedAt[a] < r.at => a \in r.list
  PROVE  IInv'
<1>1. sync' \in [Syncs -> SyncRec]
  BY Types
<1>2. state'.at = state.at
  BY DEF IInv, TypeOK
<1>3. TypeOK'
  BY <1>1 DEF IInv, TypeOK, SyncRec
<1>4. ASSUME NEW k \in Syncs PROVE SyncOK(k)'
  <2>1. CASE k = j
    BY <2>1, Types DEF SyncOK, Listed
  <2>2. CASE k # j
    BY <2>2, Types DEF IInv, SyncOK, Listed
  <2> QED BY <2>1, <2>2
<1>5. (\A s \in Screens : ScreenOK(s)') /\ StoredOK'
  BY <1>2 DEF IInv, ScreenOK, StoredOK, Listed, Stored
<1> QED BY <1>2, <1>3, <1>4, <1>5 DEF IInv

(* The commit: the rows now hold the list, which is FetchDelay old at most. *)
LEMMA CommitStep ==
  ASSUME IInv, NEW j \in Syncs, SyncCommit(j)
  PROVE  IInv'
<1>1. /\ sync[j].step = "deleting"
      /\ rows' = [a \in Addresses |-> (rows[a] \ sync[j].found[a])
                                        \cup (IF a \in sync[j].list THEN {j} ELSE {})]
      /\ state' = [status |-> "ok", at |-> now, count |-> Cardinality(sync[j].list)]
      /\ sync' = [sync EXCEPT ![j] = NoSync]
      /\ UNCHANGED <<listedAt, screen, now>>
  BY DEF SyncCommit
<1>2. Cardinality(sync[j].list) \in Nat
  <2>1. sync[j].list \in SUBSET Addresses
    BY Types DEF SyncRec
  <2> QED BY <2>1, AddressesAssumption, FS_Subset, FS_CardinalityType
<1>3. rows' \in Rows /\ sync' \in [Syncs -> SyncRec]
  <2>1. \A a \in Addresses : rows[a] \in SUBSET Syncs
    BY Types
  <2>2. rows' \in Rows
    BY <1>1, <2>1 DEF Rows
  <2> QED BY <1>1, <2>2, Types, Blank
<1>4. TypeOK'
  BY <1>1, <1>2, <1>3, Types DEF IInv, TypeOK, SyncRec
<1>5. ASSUME NEW k \in Syncs PROVE SyncOK(k)'
  BY <1>1, Types, Blank DEF IInv, SyncOK, Listed
<1>6. ASSUME NEW s \in Screens PROVE ScreenOK(s)'
  <2>1. screen[s].at \in Nat /\ state'.at = now /\ now # Never
    BY <1>1, Types DEF ScreenRec
  <2> QED BY <1>1, <2>1, Types DEF IInv, ScreenOK
<1>7. StoredOK'
  <2> SUFFICES ASSUME ~Unreadable, NEW a \in Listed, listedAt[a] < now - FetchDelay PROVE a \in Stored'
    BY <1>1 DEF StoredOK, Listed
  <2>1. /\ listedAt[a] < sync[j].at => a \in sync[j].list
        /\ now <= sync[j].at + FetchDelay
    BY <1>1 DEF IInv, SyncOK
  <2>2. a \in Addresses /\ listedAt[a] \in {Never} \cup Nat /\ sync[j].at \in Nat
    BY Types DEF Listed, SyncRec
  <2>3. a \in sync[j].list
    BY <2>1, <2>2, Types
  <2> QED BY <1>1, <2>2, <2>3 DEF Stored
<1> QED BY <1>1, <1>4, <1>5, <1>6, <1>7, Types DEF IInv

(* An address that is listed or delisted asks nothing of the lists fetched so
   far. *)
LEMMA PublishStep ==
  ASSUME IInv, NEW a \in Addresses, Publish(a)
  PROVE  IInv'
<1>1. /\ listedAt' = [listedAt EXCEPT ![a] = IF a \in Listed THEN Never ELSE now]
      /\ UNCHANGED <<rows, state, sync, screen, now>>
  BY DEF Publish
<1>2. listedAt' \in [Addresses -> {Never} \cup Nat]
  BY <1>1, Types
<1>3. TypeOK'
  BY <1>1, <1>2 DEF IInv, TypeOK
<1>4. \A b \in Addresses : listedAt'[b] <= now
  BY <1>1, Types DEF IInv
<1>5. \A b \in Listed' : b = a => listedAt'[b] = now
  BY <1>1, Types DEF Listed
<1>6. \A b \in Listed' : b # a => b \in Listed /\ listedAt'[b] = listedAt[b]
  BY <1>1, Types DEF Listed
<1>7. ASSUME NEW j \in Syncs PROVE SyncOK(j)'
  BY <1>1, <1>5, <1>6, Types DEF IInv, SyncOK, SyncRec
<1>8. StoredOK'
  <2>1. now < state.at - FetchDelay => FALSE
    BY Types DEF IInv
  <2>2. Stored' = Stored
    BY <1>1 DEF Stored
  <2> QED BY <1>1, <1>5, <1>6, <2>1, <2>2 DEF IInv, StoredOK
<1>9. \A s \in Screens : ScreenOK(s)'
  BY <1>1 DEF IInv, ScreenOK
<1> QED BY <1>1, <1>3, <1>4, <1>7, <1>8, <1>9 DEF IInv

LEMMA TickStep ==
  ASSUME IInv, Tick
  PROVE  IInv'
<1>1. /\ now < MaxTime /\ now' = now + 1
      /\ \A j \in Syncs   : sync[j].step # "idle" => now < sync[j].at + FetchDelay
      /\ \A s \in Screens : screen[s].step = "checked" => now < screen[s].at + LookupDelay
      /\ UNCHANGED <<listedAt, rows, state, sync, screen>>
  BY DEF Tick
<1>2. TypeOK'
  BY <1>1, Types DEF IInv, TypeOK
<1>3. ASSUME NEW j \in Syncs PROVE SyncOK(j)'
  <2>1. sync[j].at \in Nat
    BY Types DEF SyncRec
  <2> QED BY <1>1, <2>1, Types DEF IInv, SyncOK, Listed
<1>4. ASSUME NEW s \in Screens PROVE ScreenOK(s)'
  <2>1. screen[s].at \in Nat
    BY Types DEF ScreenRec
  <2> QED BY <1>1, <2>1, Types DEF IInv, ScreenOK
<1>5. StoredOK'
  BY <1>1 DEF IInv, StoredOK, Listed, Stored
<1>6. (state.at <= now)' /\ \A a \in Addresses : (listedAt[a] <= now)'
  BY <1>1, Types DEF IInv
<1> QED BY <1>2, <1>3, <1>4, <1>5, <1>6 DEF IInv

-----------------------------------------------------------------------------
LEMMA InitIInv == Init => IInv
<1> SUFFICES ASSUME Init PROVE IInv
  OBVIOUS
<1>1. /\ listedAt \in [Addresses -> {Never, 0}]
      /\ rows = [a \in Addresses |-> {}]
      /\ state = [status |-> "never_run", at |-> Never, count |-> 0]
      /\ sync = [j \in Syncs |-> NoSync] /\ screen = [s \in Screens |-> NoScreen]
      /\ now = 0
  BY DEF Init
<1>2. listedAt \in [Addresses -> {Never} \cup Nat] /\ now \in 0 .. MaxTime
  BY <1>1, TimesAssumption
<1>3. TypeOK
  BY <1>1, <1>2, Blank DEF TypeOK, SyncRec, ScreenRec, Rows
<1>4. state.at <= now /\ \A a \in Addresses : listedAt[a] <= now
  BY <1>1 DEF Never
<1> QED BY <1>1, <1>3, <1>4, Blank DEF IInv, SyncOK, ScreenOK, StoredOK

(* With Unreadable, what is fetched may be empty. *)
LEMMA FetchStep ==
  ASSUME IInv, NEW j \in Syncs, Fetch(j)
  PROVE  IInv'
<1> DEFINE r(list) == [NoSync EXCEPT !.step = "fetched", !.list = list, !.at = now]
<1>1. PICK list \in Parsed : sync' = [sync EXCEPT ![j] = r(list)]
  BY DEF Fetch
<1>2. UNCHANGED <<listedAt, rows, state, screen, now>>
  BY DEF Fetch
<1>3. list \in SUBSET Addresses /\ (~Unreadable => list = Listed)
  BY DEF Parsed, Listed
<1>4. r(list) \in SyncRec /\ r(list).list = list /\ r(list).at = now
  BY <1>3, Types, Blank DEF SyncRec
<1>5. /\ now <= now + FetchDelay
      /\ ~Unreadable => \A a \in Listed : a \in list
  BY <1>3, Types
<1> DEFINE new == r(list)
<1>6. /\ new \in SyncRec /\ new.list = list /\ new.at = now
      /\ sync' = [sync EXCEPT ![j] = new]
  BY <1>1, <1>4
<1> HIDE DEF new
<1>7. state' = state /\ now <= now
  BY <1>2, Types
<1> QED BY <1>2, <1>5, <1>6, <1>7, SyncStep

LEMMA OtherSyncStep ==
  ASSUME IInv, NEW j \in Syncs, FetchFails(j) \/ SyncDies(j) \/ SyncDelete(j)
  PROVE  IInv'
<1>1. CASE FetchFails(j) \/ SyncDies(j)
  BY <1>1, Blank, SyncStep DEF FetchFails, SyncDies
<1>2. CASE SyncDelete(j)
  <2> DEFINE r == [sync[j] EXCEPT !.step = "deleting", !.found = rows]
  <2>1. /\ sync[j].step = "fetched" /\ sync' = [sync EXCEPT ![j] = r]
        /\ UNCHANGED <<listedAt, rows, state, screen, now>>
    BY <1>2, Types DEF SyncDelete, SyncRec
  <2>2. sync[j] \in SyncRec /\ rows \in Rows
    BY Types DEF Rows
  <2>3. r \in SyncRec /\ r.list = sync[j].list /\ r.at = sync[j].at
    BY <2>2 DEF SyncRec
  <2>4. SyncOK(j)
    BY DEF IInv
  <2> HIDE DEF r
  <2> QED BY <2>1, <2>3, <2>4, SyncStep DEF SyncOK
<1> QED BY <1>1, <1>2

LEMMA ScreeningStep ==
  ASSUME IInv, NEW s \in Screens,
         ScreenLookup(s) \/ ScreenDone(s) \/ \E a \in Addresses : ScreenRead(s, a)
  PROVE  IInv'
<1>1. CASE ScreenLookup(s)
  <2> DEFINE r == [screen[s] EXCEPT !.step = "done", !.passed = screen[s].addr \notin Stored]
  <2>1. screen' = [screen EXCEPT ![s] = r] /\ UNCHANGED <<listedAt, rows, state, sync, now>>
    BY <1>1, Types DEF ScreenLookup, ScreenRec
  <2>2. r \in ScreenRec /\ r.step = "done"
    BY Types DEF ScreenRec
  <2> HIDE DEF r
  <2> QED BY <2>1, <2>2, ScreenStep
<1>2. CASE ScreenDone(s)
  BY <1>2, Blank, ScreenStep DEF ScreenDone
<1>3. ASSUME NEW a \in Addresses, ScreenRead(s, a) PROVE IInv'
  <2> DEFINE r == [step |-> IF Refuses THEN "done" ELSE "checked", addr |-> a, at |-> now, passed |-> FALSE]
  <2>1. screen' = [screen EXCEPT ![s] = r] /\ UNCHANGED <<listedAt, rows, state, sync, now>>
    BY <1>3 DEF ScreenRead
  <2>2. r \in ScreenRec /\ (r.step = "checked" => ~Refuses /\ r.at = now)
    BY Types DEF ScreenRec
  <2> HIDE DEF r
  <2> QED BY <2>1, <2>2, ScreenStep
<1> QED BY <1>1, <1>2, <1>3

LEMMA NextIInv == IInv /\ [Next]_vars => IInv'
<1> SUFFICES ASSUME IInv, [Next]_vars PROVE IInv'
  OBVIOUS
<1>1. CASE UNCHANGED vars
  BY <1>1 DEF vars, IInv, TypeOK, SyncOK, ScreenOK, StoredOK, Listed, Stored
<1> QED BY <1>1, FetchStep, OtherSyncStep, CommitStep, ScreeningStep, PublishStep, TickStep DEF Next

-----------------------------------------------------------------------------
(* Only a lookup lets an address through. *)
LEMMA Passes ==
  ASSUME IInv, [Next]_vars, NEW s \in Screens, screen'[s].passed, ~screen[s].passed
  PROVE  /\ screen[s].step = "checked" /\ screen[s].addr \notin Stored
         /\ UNCHANGED <<listedAt, rows, state, now>>
<1>1. CASE UNCHANGED screen
  BY <1>1
<1>2. ASSUME NEW q \in Screens, ScreenLookup(q)
      PROVE  /\ screen[s].step = "checked" /\ screen[s].addr \notin Stored
             /\ UNCHANGED <<listedAt, rows, state, now>>
  <2>1. q = s
    BY <1>2, Types DEF ScreenLookup
  <2> QED BY <1>2, <2>1, Types DEF ScreenLookup, ScreenRec
<1>3. ASSUME NEW q \in Screens, ScreenDone(q) \/ \E a \in Addresses : ScreenRead(q, a)
      PROVE  FALSE
  BY <1>3, Types, Blank DEF ScreenDone, ScreenRead
<1>4. \/ UNCHANGED screen
      \/ \E q \in Screens : ScreenLookup(q) \/ ScreenDone(q) \/ \E a \in Addresses : ScreenRead(q, a)
  BY DEF Next, vars, Fetch, FetchFails, SyncDies, SyncDelete, SyncCommit, Publish, Tick
<1> QED BY <1>1, <1>2, <1>3, <1>4

LEMMA StepBlocks ==
  ASSUME ~Unreadable, IInv, [Next]_vars,
         NEW s \in Screens, screen'[s].passed, ~screen[s].passed, screen[s].addr \in Listed
  PROVE  now - listedAt[screen[s].addr] <= MaxAge + FetchDelay + LookupDelay
<1> DEFINE a == screen[s].addr
<1>1. screen[s].step = "checked" /\ a \notin Stored
  BY Passes
<1>2. /\ now <= screen[s].at + LookupDelay
      /\ state.at # Never /\ screen[s].at - state.at <= MaxAge
  BY <1>1 DEF IInv, ScreenOK
<1>3. ~(listedAt[a] < state.at - FetchDelay)
  BY <1>1, <1>2 DEF IInv, StoredOK
<1>4. screen[s].at \in Nat /\ state.at \in Nat /\ listedAt[a] \in {Never} \cup Nat
  BY <1>2, Types DEF ScreenRec
<1> HIDE DEF a
<1>5. now - listedAt[a] <= MaxAge + FetchDelay + LookupDelay
  BY <1>2, <1>3, <1>4, Types
<1> QED BY <1>5 DEF a

-----------------------------------------------------------------------------
LEMMA Invariance == Spec => []IInv
BY InitIInv, NextIInv, PTL DEF Spec

(* Every variable keeps its type. *)
THEOREM SanctionsTypeCorrect == Spec => []TypeOK
<1>1. IInv => TypeOK
  BY DEF IInv
<1> QED BY <1>1, Invariance, PTL

(* "Fails closed" (screenAddress): an address that has been on the publisher's
   list for longer than a list may be old, and a sync and a screening may take,
   is never let through, whatever syncs overlap, fail or die, if the lists that
   are fetched can be read. *)
THEOREM ListedBlocked == ASSUME ~Unreadable PROVE Spec => ListedIsBlocked
<1>1. ASSUME IInv, [Next]_vars
      PROVE  [\A s \in Screens : screen'[s].passed /\ ~screen[s].passed =>
                LET a == screen[s].addr
                IN a \notin Listed \/ now - listedAt[a] <= MaxAge + FetchDelay + LookupDelay]_vars
  BY <1>1, StepBlocks
<1> QED BY <1>1, Invariance, PTL DEF Spec, ListedIsBlocked
=============================================================================
