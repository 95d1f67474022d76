----------------------------- MODULE Guardians -----------------------------
(***************************************************************************)
(* The guardians of one account: invitations, confirmations and removals   *)
(* (recovery.service.ts, "guardians"; guardian.entity.ts).                 *)
(*                                                                         *)
(* Every handler reads first and saves later, without a transaction around *)
(* the two, so a handler in flight is a process here.  save() writes the   *)
(* columns in which the row differs from the entity that was read.         *)
(***************************************************************************)
EXTENDS Naturals, FiniteSets

CONSTANTS
  Emails,        \* addresses, lowercased
  OwnerEmail,    \* the owner's own
  MaxGuardians,  \* MAX_GUARDIANS
  MinGuardians,  \* MIN_GUARDIANS
  InviteTTL,     \* INVITE_TTL_MS
  Procs,         \* handlers in flight, over all replicas
  MaxRows,       \* bound: rows of the table guardians
  MaxTime        \* bound: the clock stops here

ASSUME OwnerAssumption  == OwnerEmail \in Emails
ASSUME LimitsAssumption == /\ MaxGuardians \in Nat \ {0} /\ MinGuardians \in Nat \ {0}
                           /\ InviteTTL \in Nat \ {0}
ASSUME BoundsAssumption == MaxRows \in Nat /\ MaxTime \in Nat \ {0} /\ IsFiniteSet(Procs)

VARIABLES
  row,      \* guardians, by id in creation order
  link,     \* the ids whose invitation was mailed
  recovery, \* whether a recovery of the account was asked for, or has been completed
  now,      \* the clock
  pc, loc   \* where each handler is, and the entity it has read

vars == <<row, link, recovery, now, pc, loc>>

Ids   == 1..MaxRows
NoId  == 0
NoRow == [email |-> OwnerEmail, status |-> "none", invited |-> FALSE, expiresAt |-> 0]

(* invited: inviteTokenHash is not null; every row has a token of its own.  *)
Row == [email     : Emails,
        status    : {"none", "pending", "active", "removed"},
        invited   : BOOLEAN,
        expiresAt : Nat]

NoLocal == [id |-> NoId, copy |-> NoRow]

TypeOK ==
  /\ row \in [Ids -> Row]
  /\ link \in SUBSET Ids
  /\ recovery \in {"none", "open", "done"}
  /\ now \in 1..MaxTime
  /\ pc \in [Procs -> {"idle", "adding", "mailing", "confirming", "removing"}]
  /\ loc \in [Procs -> [id : Ids \cup {NoId}, copy : Row]]

Init ==
  /\ row = [i \in Ids |-> NoRow]
  /\ link = {}
  /\ recovery = "none"
  /\ now = 1
  /\ pc = [p \in Procs |-> "idle"]
  /\ loc = [p \in Procs |-> NoLocal]

Live   == {i \in Ids : row[i].status \in {"pending", "active"}}
Active == {i \in Ids : row[i].status = "active"}

Goto(p, step, l) == pc' = [pc EXCEPT ![p] = step] /\ loc' = [loc EXCEPT ![p] = l]

(* save(entity): the row becomes the entity. *)
Save(i, entity) == row' = [row EXCEPT ![i] = entity]

-----------------------------------------------------------------------------
(* Definitions marked "Bug" are never used by the specification: each is the
   definition that follows it with a mistake, which some property must catch. *)

(* Bug: the list may be full already. *)
RoomForOneMore(e) == e # OwnerEmail /\ Cardinality(Live) <= MaxGuardians
                     /\ e \notin {row[i].email : i \in Live}

(* Bug: only the confirmed guardians are compared. *)
UnconfirmedAddressMayRepeat(e) == e # OwnerEmail /\ Cardinality(Live) < MaxGuardians
                                  /\ e \notin {row[i].email : i \in Active}

(* addGuardian's three checks. *)
MayAdd(e) == /\ e # OwnerEmail
             /\ e \notin {row[i].email : i \in Live}
             /\ Cardinality(Live) < MaxGuardians

AddRead(p, e) ==
  /\ pc[p] = "idle" /\ recovery # "done"
  /\ MayAdd(e)
  /\ Goto(p, "adding", [NoLocal EXCEPT !.copy.email = e])
  /\ UNCHANGED <<row, link, recovery, now>>

AddSave(p, i) ==
  /\ pc[p] = "adding"
  /\ row[i].status = "none" /\ \A j \in 1..(i - 1) : row[j].status # "none"
  /\ Save(i, [email |-> loc[p].copy.email, status |-> "pending",
              invited |-> TRUE, expiresAt |-> now + InviteTTL])
  /\ Goto(p, "mailing", [NoLocal EXCEPT !.id = i])
  /\ UNCHANGED <<link, recovery, now>>

(* The mail goes out, or the notifier throws: the row stays pending and its
   address taken, with a link nobody has. *)
AddMail(p) ==
  /\ pc[p] = "mailing"
  /\ link' \in {link, link \cup {loc[p].id}}
  /\ Goto(p, "idle", NoLocal)
  /\ UNCHANGED <<row, recovery, now>>

-----------------------------------------------------------------------------
(* Bug: an invitation is found by its token alone. *)
FindInviteOfAnyStatus(i) == i \in link /\ row[i].status # "none" /\ ~(row[i].expiresAt < now)

(* findInvite, for the guardian who holds the link of row i. *)
FindInvite(i) == /\ i \in link
                 /\ row[i].status = "pending" /\ row[i].invited
                 /\ ~(row[i].expiresAt < now)

ConfirmRead(p, i) ==
  /\ pc[p] = "idle"
  /\ FindInvite(i)
  /\ Goto(p, "confirming", [id |-> i, copy |-> row[i]])
  /\ UNCHANGED <<row, link, recovery, now>>

(* Bug: a status that no query looks for. *)
ConfirmSaveMisspelt(p) ==
  /\ pc[p] = "confirming"
  /\ Save(loc[p].id, [loc[p].copy EXCEPT !.status = "confirmed", !.invited = FALSE])
  /\ Goto(p, "idle", NoLocal)
  /\ UNCHANGED <<link, recovery, now>>

ConfirmSave(p) ==
  /\ pc[p] = "confirming"
  /\ Save(loc[p].id, [loc[p].copy EXCEPT !.status = "active", !.invited = FALSE])
  /\ Goto(p, "idle", NoLocal)
  /\ UNCHANGED <<link, recovery, now>>

RemoveRead(p, i) ==
  /\ pc[p] = "idle" /\ recovery # "done"
  /\ i \in Live
  /\ Goto(p, "removing", [id |-> i, copy |-> row[i]])
  /\ UNCHANGED <<row, link, recovery, now>>

RemoveSave(p) ==
  /\ pc[p] = "removing"
  /\ Save(loc[p].id, [loc[p].copy EXCEPT !.status = "removed", !.invited = FALSE])
  /\ Goto(p, "idle", NoLocal)
  /\ UNCHANGED <<link, recovery, now>>

(* startRequest wants enough guardians at the time it is asked ... *)
RecoveryStarts ==
  /\ recovery = "none"
  /\ Cardinality(Active) >= MinGuardians
  /\ recovery' = "open"
  /\ UNCHANGED <<row, link, now, pc, loc>>

(* ... and complete, any time later, locks the account and removes whoever is
   then its guardian, in one transaction. *)
RecoveryRemoves(p) ==
  /\ pc[p] = "idle" /\ recovery = "open"
  /\ recovery' = "done"
  /\ row' = [i \in Ids |-> IF i \in Live THEN [row[i] EXCEPT !.status = "removed", !.invited = FALSE]
                           ELSE row[i]]
  /\ UNCHANGED <<link, now, pc, loc>>

Tick == now < MaxTime /\ now' = now + 1 /\ UNCHANGED <<row, link, recovery, pc, loc>>

Next ==
  \/ \E p \in Procs : \/ \E e \in Emails : AddRead(p, e)
                      \/ \E i \in Ids : AddSave(p, i) \/ ConfirmRead(p, i) \/ RemoveRead(p, i)
                      \/ AddMail(p) \/ ConfirmSave(p) \/ RemoveSave(p) \/ RecoveryRemoves(p)
  \/ RecoveryStarts
  \/ Tick

Spec == Init /\ [][Next]_vars

-----------------------------------------------------------------------------
(* What addGuardian and removeGuardian promise.  It holds when one handler
   runs at a time; concurrent handlers break each of the three.              *)

(* "You can have at most 5 guardians" (addGuardian). *)
AtMostMaxGuardians == Cardinality(Live) <= MaxGuardians

(* "That person is already a guardian" (addGuardian): nobody has two votes. *)
OnePlacePerPerson == \A i, j \in Live : row[i].email = row[j].email => i = j

(* "removing a guardian is immediate" (design, abuse limits): a removed one
   never comes back (removeGuardian, confirmInvite). *)
RemovalIsFinal ==
  [][\A i \in Ids : row[i].status = "removed" => row'[i].status = "removed"]_vars

-----------------------------------------------------------------------------
(* Rows that are live, or that a confirmation in flight can make live again. *)
MayBeLive == Live \cup {loc[p].id : p \in {q \in Procs : pc[q] = "confirming"}}
Adding    == {p \in Procs : pc[p] = "adding"}

(* However the handlers interleave, the list outgrows its limit by at most
   one row for each other handler in flight (addGuardian, confirmInvite,
   removeGuardian). *)
OverLimitByHandlersInFlight ==
  Cardinality(MayBeLive) + Cardinality(Adding) < MaxGuardians + Cardinality(Procs)

(* Removed, and no confirmation that read the row before is still to save it. *)
Gone(i) == row[i].status = "removed" /\ \A p \in Procs : ~(pc[p] = "confirming" /\ loc[p].id = i)

(* A confirmation in flight can revive a removed guardian, and several of one
   link can do so once each; but once they are through, a guardian who is
   removed stays so and no link starts another one (removeGuardian,
   confirmInvite, findInvite). *)
RemovalSettles == [][\A i \in Ids : Gone(i) => Gone(i)']_vars
=============================================================================
