----------------------------- MODULE Sanctions -----------------------------
(***************************************************************************)
(* Sanctions screening (compliance/sanctions.service.ts) and the job that  *)
(* refreshes the list (scripts/sync-sanctions-list.ts, a CronJob that can  *)
(* also be started by hand).                                               *)
(*                                                                         *)
(* A sync fetches the publisher's file, deletes the stored rows, inserts   *)
(* what it parsed and commits both with the sync state.  The database runs *)
(* at READ COMMITTED: the delete removes the rows that were committed when *)
(* it started, not those another sync commits while it waits.  A screening *)
(* reads the state first and looks the address up afterwards.              *)
(***************************************************************************)
EXTENDS Integers, FiniteSets

CONSTANTS
  Addresses,    \* addresses, lowercased
  Syncs,        \* sync jobs that may overlap
  Screens,      \* screenings in flight
  MaxAge,       \* maxStalenessMs
  FetchDelay,   \* bound: the longest from a fetch to the commit of what it read
  LookupDelay,  \* bound: the longest from the state read to the lookup
  Unreadable,   \* TRUE: a fetch may answer 200 with a body that has no address column
  MaxTime       \* bound: the clock stops here

ASSUME AddressesAssumption == IsFiniteSet(Addresses) /\ Addresses # {}
ASSUME TimesAssumption  == /\ MaxAge \in Nat /\ FetchDelay \in Nat /\ LookupDelay \in Nat
                           /\ MaxTime \in Nat
ASSUME UnreadableAssumption == Unreadable \in BOOLEAN

VARIABLES
  listedAt,  \* the publisher's file: since when an address is in it (Never: not)
  rows,      \* sanctioned_addresses: per address, the syncs whose row is stored
  state,     \* compliance_sync_state
  sync,      \* per sync job, its step, what it fetched and what its delete found
  screen,    \* per screening, its step, address and when it read the state
  now        \* the clock

vars == <<listedAt, rows, state, sync, screen, now>>

Never == -1
Rows  == [Addresses -> SUBSET Syncs]
NoSync   == [step |-> "idle", list |-> {}, found |-> [a \in Addresses |-> {}], at |-> 0]
NoScreen == [step |-> "idle", addr |-> CHOOSE a \in Addresses : TRUE, at |-> 0, passed |-> FALSE]

TypeOK ==
  /\ listedAt \in [Addresses -> {Never} \cup Nat]
  /\ rows \in Rows
  /\ state \in [status : {"never_run", "ok", "failed"}, at : {Never} \cup Nat, count : Nat]
  /\ sync \in [Syncs -> [step : {"idle", "fetched", "deleting"}, list : SUBSET Addresses,
                         found : Rows, at : Nat]]
  /\ screen \in [Screens -> [step : {"idle", "checked", "done"}, addr : Addresses,
                             at : Nat, passed : BOOLEAN]]
  /\ now \in 0..MaxTime

Init ==
  /\ listedAt \in [Addresses -> {Never, 0}]
  /\ rows = [a \in Addresses |-> {}]
  /\ state = [status |-> "never_run", at |-> Never, count |-> 0]
  /\ sync = [j \in Syncs |-> NoSync]
  /\ screen = [s \in Screens |-> NoScreen]
  /\ now = 0

Listed == {a \in Addresses : listedAt[a] # Never}
Stored == {a \in Addresses : rows[a] # {}}

-----------------------------------------------------------------------------
(* Definitions marked "Bug" are never used by the specification: each is the
   definition that follows it with a mistake, which some property must catch. *)

(* Bug: only the status is looked at. *)
RefusesByStatus == state.status # "ok"

(* screenAddress's first half: no successful sync, or one too long ago. *)
Refuses == state.status # "ok" \/ state.at = Never \/ now - state.at > MaxAge

(* getStatus *)
Status == [lastSyncStatus |-> state.status, entryCount |-> state.count, isStale |-> Refuses]

(* screenAddress reads the sync state ... *)
ScreenRead(s, a) ==
  /\ screen[s].step = "idle"
  /\ screen' = [screen EXCEPT ![s] = [step |-> IF Refuses THEN "done" ELSE "checked",
                                      addr |-> a, at |-> now, passed |-> FALSE]]
  /\ UNCHANGED <<listedAt, rows, state, sync, now>>

(* ... then looks the address up. *)
ScreenLookup(s) ==
  /\ screen[s].step = "checked"
  /\ screen' = [screen EXCEPT ![s].step = "done", ![s].passed = screen[s].addr \notin Stored]
  /\ UNCHANGED <<listedAt, rows, state, sync, now>>

ScreenDone(s) ==
  /\ screen[s].step = "done"
  /\ screen' = [screen EXCEPT ![s] = NoScreen]
  /\ UNCHANGED <<listedAt, rows, state, sync, now>>

-----------------------------------------------------------------------------
(* parseCsv: a file without an address column has no entries. *)
Parsed == {Listed} \cup (IF Unreadable THEN {{}} ELSE {})

(* fetchAndSync: the file is fetched and parsed ... *)
Fetch(j) ==
  /\ sync[j].step = "idle"
  /\ \E list \in Parsed :
       sync' = [sync EXCEPT ![j] = [NoSync EXCEPT !.step = "fetched", !.list = list, !.at = now]]
  /\ UNCHANGED <<listedAt, rows, state, screen, now>>

(* Bug: a status that the column's type does not have. *)
FetchFailsAsError(j) ==
  /\ state' = [state EXCEPT !.status = "error"]
  /\ sync' = [sync EXCEPT ![j] = NoSync]
  /\ UNCHANGED <<listedAt, rows, screen, now>>

(* ... or any step of it fails, which is recorded. *)
FetchFails(j) ==
  /\ state' = [state EXCEPT !.status = "failed"]
  /\ sync' = [sync EXCEPT ![j] = NoSync]
  /\ UNCHANGED <<listedAt, rows, screen, now>>

(* The job's pod is killed: its transaction rolls back, nothing is recorded. *)
SyncDies(j) ==
  /\ sync[j].step # "idle"
  /\ sync' = [sync EXCEPT ![j] = NoSync]
  /\ UNCHANGED <<listedAt, rows, state, screen, now>>

(* The transaction starts with the delete of the rows it sees ... *)
SyncDelete(j) ==
  /\ sync[j].step = "fetched"
  /\ sync' = [sync EXCEPT ![j].step = "deleting", ![j].found = rows]
  /\ UNCHANGED <<listedAt, rows, state, screen, now>>

(* Bug: the delete is left out, so delisted addresses stay. *)
CommitAdds(j) ==
  /\ sync[j].step = "deleting"
  /\ rows' = [a \in Addresses |-> rows[a] \cup (IF a \in sync[j].list THEN {j} ELSE {})]
  /\ state' = [status |-> "ok", at |-> now, count |-> Cardinality(sync[j].list)]
  /\ sync' = [sync EXCEPT ![j] = NoSync]
  /\ UNCHANGED <<listedAt, screen, now>>

(* Bug: delete and insert are not in one transaction. *)
CommitDeletesFirst(j) ==
  /\ sync[j].step = "deleting"
  /\ \/ /\ \A a \in Addresses : rows[a] \cap sync[j].found[a] = {}
        /\ rows' = [a \in Addresses |-> rows[a] \cup (IF a \in sync[j].list THEN {j} ELSE {})]
        /\ state' = [status |-> "ok", at |-> now, count |-> Cardinality(sync[j].list)]
        /\ sync' = [sync EXCEPT ![j] = NoSync]
     \/ /\ rows' = [a \in Addresses |-> rows[a] \ sync[j].found[a]]
        /\ UNCHANGED <<state, sync>>
  /\ UNCHANGED <<listedAt, screen, now>>

(* ... then inserts the new ones and records the sync, and commits. *)
SyncCommit(j) ==
  /\ sync[j].step = "deleting"
  /\ rows' = [a \in Addresses |-> (rows[a] \ sync[j].found[a])
                                    \cup (IF a \in sync[j].list THEN {j} ELSE {})]
  /\ state' = [status |-> "ok", at |-> now, count |-> Cardinality(sync[j].list)]
  /\ sync' = [sync EXCEPT ![j] = NoSync]
  /\ UNCHANGED <<listedAt, screen, now>>

(* The publisher lists and delists addresses. *)
Publish(a) ==
  /\ listedAt' = [listedAt EXCEPT ![a] = IF a \in Listed THEN Never ELSE now]
  /\ UNCHANGED <<rows, state, sync, screen, now>>

(* Time passes no further than the bounds on a sync and a screening allow. *)
Tick ==
  /\ now < MaxTime
  /\ \A j \in Syncs   : sync[j].step # "idle" => now < sync[j].at + FetchDelay
  /\ \A s \in Screens : screen[s].step = "checked" => now < screen[s].at + LookupDelay
  /\ now' = now + 1
  /\ UNCHANGED <<listedAt, rows, state, sync, screen>>

Next ==
  \/ \E j \in Syncs : Fetch(j) \/ FetchFails(j) \/ SyncDies(j) \/ SyncDelete(j) \/ SyncCommit(j)
  \/ \E s \in Screens : ScreenLookup(s) \/ ScreenDone(s) \/ \E a \in Addresses : ScreenRead(s, a)
  \/ \E a \in Addresses : Publish(a)
  \/ Tick

(* A job that has fetched ends one way or another; the CronJob starts one every
   day, and again and again one succeeds. *)
Ends(j) == sync[j].step # "idle" /\ (SyncDelete(j) \/ SyncCommit(j) \/ FetchFails(j) \/ SyncDies(j))

Fairness ==
  /\ WF_vars(\E j \in Syncs : Fetch(j))
  /\ SF_vars(\E j \in Syncs : SyncDelete(j)) /\ SF_vars(\E j \in Syncs : SyncCommit(j))
  /\ \A j \in Syncs : WF_vars(Ends(j))

Spec == Init /\ [][Next]_vars /\ Fairness

-----------------------------------------------------------------------------
(* "Fails closed" (screenAddress): an address that has been on the publisher's
   list for longer than a list may be old, and a sync and a screening may take,
   is never let through, however syncs and screenings overlap or fail. *)
ListedIsBlocked ==
  [][\A s \in Screens : screen'[s].passed /\ ~screen[s].passed =>
       LET a == screen[s].addr
       IN a \notin Listed \/ now - listedAt[a] <= MaxAge + FetchDelay + LookupDelay]_vars

(* Overlapping syncs may leave the rows of both, and failed ones the rows of an
   older list, but once the publisher's list stays as it is the stored one and
   the entryCount that is reported become that list's for good (fetchAndSync,
   syncFromCsv, getStatus). *)
PublisherRests == <>[][UNCHANGED listedAt]_vars
ListHeals ==
  PublisherRests => <>[](Stored = Listed /\ Status.entryCount = Cardinality(Stored))

(* "a partially-applied previous sync can never leave stale AND fresh rows
   mixed together" (syncFromCsv): the stored rows are those of one sync. *)
RowsOfOneSync == \A a, b \in Addresses : \A i \in rows[a], j \in rows[b] : i = j

(* "an outage in the sync job must not silently turn into 'nothing is ever
   blocked'" (ComplianceSyncState): while the publisher lists addresses, and
   has all along, screening does not go on with an empty list (fetchAndSync). *)
OutageBlocks ==
  ~Refuses /\ (\A a \in Addresses : listedAt[a] = 0) => Stored # {}
=============================================================================
