------------------------------ MODULE Accounts ------------------------------
(***************************************************************************)
(* Accounts and sign-in (auth.service.ts, user.entity.ts, jwt.strategy.ts):*)
(* sign-up and password login through Supabase, sign-in through a WorkOS   *)
(* identity, and which tokens the API accepts afterwards.                  *)
(*                                                                         *)
(* Supabase keeps one user per address, whose id becomes users.id, so an   *)
(* account is named by its address here.  users.id has no default in the   *)
(* schema and loginWithWorkOs gives none: an insert without an id fails.   *)
(* Handlers read, check and save without a transaction; save() writes the  *)
(* columns in which the row differs from the entity.  emailVerified, which *)
(* no decision reads, is left out.                                         *)
(***************************************************************************)
EXTENDS FiniteSets

CONSTANTS
  Emails,      \* addresses
  Identities,  \* WorkOS users
  Nobody,      \* null
  Procs        \* handlers in flight, over all replicas

ASSUME NobodyAssumption == Nobody \notin Identities \cup Emails /\ "password" \notin Identities

VARIABLES
  supabase,   \* the addresses that have a user at Supabase
  row,        \* users, by address
  recovered,  \* the accounts a completed recovery has locked
  profile,    \* WorkOS: each identity's address and whether it is verified
  token,      \* any one of the tokens minted: for which account, and to whom
  proved,     \* history: the addresses each identity has signed in with, verified
  undone,     \* history: the accounts in which a save put back a lock
  pc, loc     \* where each handler is, and its local variables

vars == <<supabase, row, recovered, profile, token, proved, undone, pc, loc>>

(* locked: lockedAt and sessionsValidAfter, which are set together. *)
User   == [exists : BOOLEAN, workosUserId : Identities \cup {Nobody}, locked : BOOLEAN]
NoUser == [exists |-> FALSE, workosUserId |-> Nobody, locked |-> FALSE]

Password == "password"
Holders  == Identities \cup {Password}
Token    == [account : Emails, holder : Holders]
NoToken  == [account |-> Nobody, holder |-> Nobody]
Profile  == [email : Emails, verified : BOOLEAN]
Local    == [email : Emails \cup {Nobody}, who : Holders, verified : BOOLEAN, copy : User,
             seen : Identities \cup {Nobody}]
NoLocal  == [email |-> Nobody, who |-> Password,
             verified |-> FALSE, copy |-> NoUser, seen |-> Nobody]

TypeOK ==
  /\ supabase \in SUBSET Emails
  /\ row \in [Emails -> User] /\ \A e \in Emails : row[e].exists => e \in supabase
  /\ recovered \in SUBSET Emails
  /\ profile \in [Identities -> Profile]
  /\ token \in Token \cup {NoToken}
  /\ proved \subseteq Identities \X Emails
  /\ undone \in SUBSET recovered
  /\ pc \in [Procs -> {"idle", "insert", "byEmail", "save", "cancel", "refused"}]
  /\ loc \in [Procs -> Local]

Init ==
  /\ supabase = {}
  /\ row = [e \in Emails |-> NoUser]
  /\ recovered = {}
  /\ profile \in [Identities -> Profile]
  /\ token = NoToken /\ proved = {} /\ undone = {}
  /\ pc = [p \in Procs |-> "idle"]
  /\ loc = [p \in Procs |-> NoLocal]

Goto(p, step, l) == pc' = [pc EXCEPT ![p] = step] /\ loc' = [loc EXCEPT ![p] = l]
Done(p) == Goto(p, "idle", NoLocal)

-----------------------------------------------------------------------------
(* Definitions marked "Bug" are never used by the specification: each is the
   definition that follows it with a mistake, which some property must catch. *)

(* Bug: the profile is inserted first. *)
SignupRowFirst(p, e) ==
  /\ pc[p] = "idle" /\ e \notin supabase
  /\ row' = [row EXCEPT ![e] = [NoUser EXCEPT !.exists = TRUE]]
  /\ Goto(p, "insert", [NoLocal EXCEPT !.email = e])
  /\ UNCHANGED <<supabase, recovered, profile, token, proved, undone>>

(* signup: Supabase makes the user, or refuses an address it has ... *)
Signup(p, e) ==
  /\ pc[p] = "idle" /\ e \notin supabase
  /\ supabase' = supabase \cup {e}
  /\ Goto(p, "insert", [NoLocal EXCEPT !.email = e])
  /\ UNCHANGED <<row, recovered, profile, token, proved, undone>>

(* ... and the profile is inserted under the same id. *)
SignupInsert(p) ==
  /\ pc[p] = "insert"
  /\ row' = [row EXCEPT ![loc[p].email] = [NoUser EXCEPT !.exists = TRUE]]
  /\ Done(p)
  /\ UNCHANGED <<supabase, recovered, profile, token, proved, undone>>

(* assertNotLocked *)
NotLocked(u) == ~u.locked

(* login: Supabase accepts the password; the account is there and not locked. *)
Login(p, e) ==
  /\ pc[p] = "idle" /\ e \in supabase
  /\ row[e].exists /\ NotLocked(row[e])
  /\ Goto(p, "cancel", [NoLocal EXCEPT !.email = e])
  /\ UNCHANGED <<supabase, row, recovered, profile, token, proved, undone>>

-----------------------------------------------------------------------------
Linked(i) == {e \in Emails : row[e].exists /\ row[e].workosUserId = i}

(* loginWithWorkOs looks for the account linked to the identity ... *)
SignInByIdentity(p, i) ==
  LET l == [NoLocal EXCEPT !.email = profile[i].email, !.who = i, !.verified = profile[i].verified]
  IN /\ pc[p] = "idle"
     /\ proved' = IF l.verified THEN proved \cup {<<i, l.email>>} ELSE proved
     /\ IF Linked(i) = {} THEN Goto(p, "byEmail", l)
        ELSE \E e \in Linked(i) :
               /\ NotLocked(row[e])
               /\ Goto(p, "save", [l EXCEPT !.email = e, !.verified = FALSE,
                                           !.copy = row[e], !.seen = i])
     /\ UNCHANGED <<supabase, row, recovered, profile, token, undone>>

(* Bug: an unverified address is as good. *)
MayLinkUnverified(l, u) == u.workosUserId \in {Nobody, l.who}

(* Bug: the account may be linked to another identity. *)
MayRelink(l, u) == l.verified

(* Linking by email wants a verified address and no other identity. *)
MayLink(l, u) == l.verified /\ u.workosUserId \in {Nobody, l.who}

(* ... else for the one with its address, which it links, else makes one. *)
SignInByEmail(p) ==
  LET l == loc[p]
      u == row[l.email]
  IN /\ pc[p] = "byEmail"
     /\ IF ~u.exists THEN Goto(p, "save", [l EXCEPT !.verified = FALSE])
        ELSE /\ MayLink(l, u) /\ NotLocked(u)
             /\ Goto(p, "save", [l EXCEPT !.verified = FALSE, !.seen = u.workosUserId,
                                         !.copy = [u EXCEPT !.workosUserId = l.who]])
     /\ UNCHANGED <<supabase, row, recovered, profile, token, proved, undone>>

(* The unique index on workosUserId. *)
Unique(l) == Linked(l.who) \subseteq {l.email}

(* The account that was found is saved ... *)
SignInSave(p) ==
  LET l == loc[p]
  IN /\ pc[p] = "save" /\ l.copy.exists /\ Unique(l)
     /\ row' = [row EXCEPT ![l.email] = l.copy]
     /\ undone' = IF row[l.email].locked /\ ~l.copy.locked THEN undone \cup {l.email} ELSE undone
     /\ Goto(p, "cancel", [l EXCEPT !.copy = NoUser, !.seen = Nobody])
     /\ UNCHANGED <<supabase, recovered, profile, token, proved>>

(* ... or the database refuses: the identity is linked elsewhere, or the new
   account has no id. *)
SignInRefused(p) ==
  /\ pc[p] = "save"
  /\ ~loc[p].copy.exists \/ ~Unique(loc[p])
  /\ Goto(p, "refused", loc[p])
  /\ UNCHANGED <<supabase, row, recovered, profile, token, proved, undone>>

(* cancelForSignIn ends the open recovery requests, and the token is minted. *)
Mint(p) ==
  /\ pc[p] = "cancel"
  /\ token' \in {token, [account |-> loc[p].email, holder |-> loc[p].who]}
  /\ Done(p)
  /\ UNCHANGED <<supabase, row, recovered, profile, proved, undone>>

(* The handler answers with an error, or its pod dies. *)
Abort(p) ==
  /\ pc[p] # "idle"
  /\ Done(p)
  /\ UNCHANGED <<supabase, row, recovered, profile, token, proved, undone>>

-----------------------------------------------------------------------------
(* complete() locks the account whose wallets it has moved. *)
Recover(e) ==
  /\ row[e].exists /\ e \notin recovered
  /\ recovered' = recovered \cup {e}
  /\ row' = [row EXCEPT ![e].locked = TRUE]
  /\ UNCHANGED <<supabase, profile, token, proved, undone, pc, loc>>

(* At WorkOS an identity's address changes or is verified. *)
ProfileChanges(i, f) ==
  /\ profile' = [profile EXCEPT ![i] = f]
  /\ profile' # profile
  /\ UNCHANGED <<supabase, row, recovered, token, proved, undone, pc, loc>>

Next ==
  \/ \E p \in Procs : \/ \E e \in Emails : Signup(p, e) \/ Login(p, e)
                      \/ \E i \in Identities : SignInByIdentity(p, i)
                      \/ SignupInsert(p) \/ SignInByEmail(p) \/ SignInSave(p) \/ SignInRefused(p)
                      \/ Mint(p) \/ Abort(p)
  \/ \E e \in Emails : Recover(e)
  \/ \E i \in Identities, f \in Profile : ProfileChanges(i, f)

Spec == Init /\ [][Next]_vars

-----------------------------------------------------------------------------
(* Bug: only sessions issued before the lock are looked at. *)
AcceptsUnlessGone == token # NoToken /\ row[token.account].exists

(* JwtStrategy.validate: the account is there, not locked, and its sessions
   were not revoked after the token was issued. *)
Accepts == token # NoToken /\ row[token.account].exists /\ ~row[token.account].locked

(* "Otherwise anyone could register the victim's email unverified and take over
   the account" (loginWithWorkOs): whatever sign-ins overlap and addresses
   change, an identity gets a token only for an account whose address it has
   signed in with, verified. *)
OnlyProvenOwners ==
  token.holder \in Identities => <<token.holder, token.account>> \in proved

(* "This email is already linked to a different sign-in identity"
   (loginWithWorkOs): an account's link changes only under a sign-in that read
   the account before it was linked. *)
RelinkedByOverlapOnly ==
  [][\A e \in Emails : row[e].workosUserId \notin {Nobody, row'[e].workosUserId}
       => \E p \in Procs : /\ pc[p] = "save" /\ loc[p].email = e
                           /\ loc[p].seen # row[e].workosUserId]_vars

(* "It can no longer sign in" (User.lockedAt, assertNotLocked, validate): no
   token of a recovered account is accepted, old ones included, unless a
   sign-in that read the account before the lock saved it after. *)
RecoveredIsOut ==
  token.account \in recovered \ undone => ~Accepts

(* "creates a new local user with the workos id" (workos-auth.security.test),
   "The same button creates your account" (LoginScreen): the database does not
   refuse a new identity's first sign-in. *)
FirstSignInWorks == \A p \in Procs : pc[p] = "refused" => loc[p].copy.exists
=============================================================================
