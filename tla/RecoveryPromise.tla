--------------------------- MODULE RecoveryPromise ---------------------------
(***************************************************************************)
(* What social recovery promises, without handlers, rows, mails or locks:  *)
(* requests are put to a vote; while no guardian has declined, an approval *)
(* by a majority starts the time lock; once it is over the request may be  *)
(* granted, once.  A grant that begins while the old account has the       *)
(* wallets gets them, whatever is granted before it ends; one that begins  *)
(* later gets nothing.  A request that is never granted was cancelled,     *)
(* declined or expired.                                                    *)
(***************************************************************************)
EXTENDS Integers, FiniteSets

CONSTANTS Guardians, Requesters, Owner, Requests, Nobody, TimeLock

VARIABLES
  newUser,   \* who made each request
  vote,      \* the guardians' votes on it
  quorumAt,  \* when a majority had approved it; 0: not yet
  begun,     \* the requests whose grant began while the old account had the wallets
  granted,   \* the requests that were granted
  holder,    \* the account that holds the wallets
  now

vars == <<newUser, vote, quorumAt, begun, granted, holder, now>>

Asked(r)    == {g \in Guardians : vote[r][g] # "none"}
Approved(r) == {g \in Guardians : vote[r][g] = "approved"}
Declined(r) == {g \in Guardians : vote[r][g] = "declined"}

Init == /\ newUser = [r \in Requests |-> Nobody]
        /\ vote = [r \in Requests |-> [g \in Guardians |-> "none"]]
        /\ quorumAt = [r \in Requests |-> 0]
        /\ begun = {}
        /\ granted = {}
        /\ holder = Owner
        /\ now = 1

(* A request is put to some of the guardians. *)
Ask(r, u, voters) ==
  /\ newUser[r] = Nobody
  /\ newUser' = [newUser EXCEPT ![r] = u]
  /\ vote' = [vote EXCEPT ![r] = [g \in Guardians |-> IF g \in voters THEN "pending" ELSE "none"]]
  /\ UNCHANGED <<quorumAt, begun, granted, holder, now>>

(* A guardian votes, once, while the vote is open. *)
Cast(r, g, d) ==
  /\ vote[r][g] = "pending"
  /\ Declined(r) = {}
  /\ quorumAt[r] = 0
  /\ vote' = [vote EXCEPT ![r][g] = d]
  /\ UNCHANGED <<newUser, begun, granted, holder, now>>

Vote(r, g, d) == Cast(r, g, d) /\ UNCHANGED quorumAt

(* An approval that makes a majority starts the time lock. *)
Pass(r, g) ==
  /\ Cast(r, g, "approved")
  /\ 2 * Cardinality(Approved(r)') > Cardinality(Asked(r))
  /\ quorumAt' = [quorumAt EXCEPT ![r] = now]

(* The time lock of a request is over, and it has not been granted. *)
Grantable(r) == r \notin granted /\ quorumAt[r] # 0 /\ now >= quorumAt[r] + TimeLock

Begin(r) ==
  /\ Grantable(r)
  /\ holder = Owner
  /\ begun' = begun \cup {r}
  /\ UNCHANGED <<newUser, vote, quorumAt, granted, holder, now>>

GiveUp(r) ==
  /\ begun' = begun \ {r}
  /\ UNCHANGED <<newUser, vote, quorumAt, granted, holder, now>>

(* The request is granted, with or without the wallets. *)
Grant(r) ==
  /\ Grantable(r)
  /\ r \in begun \/ holder # Owner
  /\ granted' = granted \cup {r}
  /\ begun' = begun \ {r}
  /\ holder' = IF r \in begun THEN newUser[r] ELSE holder
  /\ UNCHANGED <<newUser, vote, quorumAt, now>>

Tick == now' = now + 1 /\ UNCHANGED <<newUser, vote, quorumAt, begun, granted, holder>>

Next == \/ \E r \in Requests :
             \/ \E u \in Requesters, voters \in SUBSET Guardians : Ask(r, u, voters)
             \/ \E g \in Guardians : Pass(r, g)
             \/ \E g \in Guardians, d \in {"approved", "declined"} : Vote(r, g, d)
             \/ Begin(r) \/ GiveUp(r) \/ Grant(r)
        \/ Tick

Spec == Init /\ [][Next]_vars
=============================================================================
