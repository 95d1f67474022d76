--------------------------- MODULE AccountsProofs ---------------------------
(***************************************************************************)
(* The safety properties of Accounts, for any addresses, identities and    *)
(* handlers.  What a handler has read may be stale; the invariant says     *)
(* what its copy is still good for.                                        *)
(***************************************************************************)
EXTENDS Accounts, TLAPS

(* Who a row is linked to has proved its address; a row that is not there is
   blank, and one that a recovery has locked is locked unless undone. *)
RowOK(e) ==
  /\ row[e].workosUserId \in Identities => <<row[e].workosUserId, e>> \in proved
  /\ ~row[e].exists => row[e] = NoUser
  /\ e \in recovered => row[e].exists
  /\ row[e].locked => e \in recovered
  /\ e \in recovered \ undone => row[e].locked

(* A handler that inserts is the only one for its address; one that has looked
   for an account knows an address that its identity has proved. *)
HandlerOK(p) ==
  /\ pc[p] \in {"insert", "byEmail", "save", "cancel"} => loc[p].email \in Emails
  /\ pc[p] = "insert" =>
       /\ loc[p].email \in supabase /\ ~row[loc[p].email].exists
       /\ \A q \in Procs \ {p} : pc[q] = "insert" => loc[q].email # loc[p].email
  /\ pc[p] \in {"byEmail", "save"} => loc[p].who \in Identities
  /\ pc[p] = "byEmail" => ~loc[p].copy.exists
  /\ pc[p] = "byEmail" /\ loc[p].verified => <<loc[p].who, loc[p].email>> \in proved
  /\ pc[p] = "save" /\ loc[p].copy.exists =>
       /\ row[loc[p].email].exists /\ ~loc[p].copy.locked
       /\ loc[p].copy.workosUserId = loc[p].who /\ loc[p].seen \in {Nobody, loc[p].who}
       /\ <<loc[p].who, loc[p].email>> \in proved
  /\ pc[p] = "cancel" /\ loc[p].who \in Identities => <<loc[p].who, loc[p].email>> \in proved

IInv == /\ TypeOK
        /\ \A e \in Emails : RowOK(e)
        /\ \A p \in Procs : HandlerOK(p)
        /\ OnlyProvenOwners

LEMMA Nulls == NoUser \in User /\ NoLocal \in Local /\ Identities \subseteq Holders
BY DEF NoUser, User, NoLocal, Local, Holders, Password

LEMMA InitIInv == Init => IInv
BY NobodyAssumption, Nulls
DEF Init, IInv, TypeOK, RowOK, HandlerOK, OnlyProvenOwners, NoUser, NoToken

-----------------------------------------------------------------------------
(* What a handler's step leaves alone, and how far it moves. *)
Keeps(p) == /\ \A q \in Procs \ {p} : pc'[q] = pc[q] /\ loc'[q] = loc[q]
            /\ supabase \subseteq supabase' /\ proved \subseteq proved'

(* A step that changes no row: only the handler's own place is to be shown. *)
LEMMA QuietStep ==
  ASSUME IInv, NEW p \in Procs, Keeps(p), UNCHANGED <<row, recovered, undone, profile>>,
         supabase' \subseteq Emails, proved' \subseteq Identities \X Emails,
         NEW step \in {"idle", "insert", "byEmail", "save", "cancel", "refused"},
         NEW l \in Local, Goto(p, step, l),
         step = "insert" => l.email \notin supabase,
         HandlerOK(p)', token' \in Token \cup {NoToken}, OnlyProvenOwners'
  PROVE  IInv'
<1>1. TypeOK'
  BY DEF IInv, TypeOK, Goto, Keeps
<1>2. ASSUME NEW e \in Emails PROVE RowOK(e)'
  BY DEF IInv, RowOK, Keeps
<1>3. ASSUME NEW q \in Procs PROVE HandlerOK(q)'
  <2>1. CASE q = p
    BY <2>1
  <2>2. CASE q # p
    <3>1. HandlerOK(q) /\ pc'[q] = pc[q] /\ loc'[q] = loc[q]
      BY <2>2 DEF IInv, Keeps
    <3>2. pc'[p] = step /\ loc'[p] = l
      BY DEF IInv, TypeOK, Goto
    <3> QED BY <2>2, <3>1, <3>2 DEF HandlerOK, Keeps
  <2> QED BY <2>1, <2>2
<1> QED BY <1>1, <1>2, <1>3 DEF IInv

LEMMA SignupStep ==
  ASSUME IInv, NEW p \in Procs, NEW e \in Emails, Signup(p, e)
  PROVE  IInv'
<1> DEFINE l == [NoLocal EXCEPT !.email = e]
<1>1. l \in Local /\ l.email = e
  BY Nulls DEF Local, NoLocal
<1>2. Goto(p, "insert", l) /\ Keeps(p) /\ pc'[p] = "insert" /\ loc'[p] = l
  BY DEF IInv, TypeOK, Signup, Goto, Keeps
<1>3. e \notin supabase /\ ~row[e].exists /\ supabase' = supabase \cup {e}
  BY DEF IInv, TypeOK, Signup
<1>4. HandlerOK(p)'
  <2>1. ASSUME NEW q \in Procs \ {p}, pc'[q] = "insert" PROVE loc'[q].email # e
    <3>1. HandlerOK(q) /\ pc[q] = "insert" /\ loc'[q] = loc[q]
      BY <1>2, <2>1 DEF IInv, Keeps
    <3> QED BY <1>3, <3>1 DEF HandlerOK
  <2> QED BY <1>1, <1>2, <1>3, <2>1 DEF HandlerOK, Signup
<1> HIDE DEF l
<1> QED BY <1>1, <1>2, <1>3, <1>4, QuietStep DEF IInv, TypeOK, Signup, OnlyProvenOwners

LEMMA LoginStep ==
  ASSUME IInv, NEW p \in Procs, NEW e \in Emails, Login(p, e)
  PROVE  IInv'
<1> DEFINE l == [NoLocal EXCEPT !.email = e]
<1>1. l \in Local /\ l.email = e /\ l.who = Password
  BY Nulls DEF Local, NoLocal
<1>2. Goto(p, "cancel", l) /\ Keeps(p) /\ pc'[p] = "cancel" /\ loc'[p] = l
  BY DEF IInv, TypeOK, Login, Goto, Keeps
<1>3. HandlerOK(p)'
  BY <1>1, <1>2, NobodyAssumption DEF HandlerOK, Password
<1> HIDE DEF l
<1> QED BY <1>1, <1>2, <1>3, QuietStep DEF IInv, TypeOK, Login, OnlyProvenOwners

LEMMA ByIdentityStep ==
  ASSUME IInv, NEW p \in Procs, NEW i \in Identities, SignInByIdentity(p, i)
  PROVE  IInv'
<1> DEFINE l == [NoLocal EXCEPT !.email = profile[i].email, !.who = i,
                               !.verified = profile[i].verified]
<1>0. profile[i].email \in Emails /\ profile[i].verified \in BOOLEAN
  BY DEF IInv, TypeOK, Profile
<1>1. l \in Local /\ l.email \in Emails /\ l.who = i /\ ~l.copy.exists
  BY <1>0, Nulls DEF Local, NoLocal, NoUser
<1>2. /\ proved' = IF l.verified THEN proved \cup {<<i, l.email>>} ELSE proved
      /\ UNCHANGED <<supabase, row, recovered, profile, token, undone>>
  BY DEF SignInByIdentity
<1>3. CASE Linked(i) = {}
  <2>1. Goto(p, "byEmail", l)
    BY <1>3 DEF SignInByIdentity
  <2>2. Keeps(p) /\ pc'[p] = "byEmail" /\ loc'[p] = l
    BY <1>2, <2>1 DEF IInv, TypeOK, Goto, Keeps
  <2> HIDE DEF l
  <2>3. HandlerOK(p)'
    BY <1>1, <1>2, <2>2 DEF HandlerOK
  <2> QED BY <1>1, <1>2, <2>1, <2>2, <2>3, QuietStep DEF IInv, TypeOK, OnlyProvenOwners
<1>4. CASE Linked(i) # {}
  <2>1. PICK e \in Linked(i) :
          NotLocked(row[e]) /\ Goto(p, "save", [l EXCEPT !.email = e, !.verified = FALSE,
                                                         !.copy = row[e], !.seen = i])
    BY <1>4 DEF SignInByIdentity
  <2> DEFINE m == [l EXCEPT !.email = e, !.verified = FALSE, !.copy = row[e], !.seen = i]
  <2>2. e \in Emails /\ row[e].exists /\ row[e].workosUserId = i /\ <<i, e>> \in proved
    BY DEF Linked, IInv, RowOK
  <2> HIDE DEF l
  <2>3. row[e] \in User
    BY <2>2 DEF IInv, TypeOK
  <2>4. m \in Local /\ m.email = e /\ m.who = i /\ m.copy = row[e] /\ m.seen = i
    BY <1>1, <2>2, <2>3 DEF Local
  <2>5. Keeps(p) /\ pc'[p] = "save" /\ loc'[p] = m
    BY <1>2, <2>1 DEF IInv, TypeOK, Goto, Keeps
  <2>6. Goto(p, "save", m)
    BY <2>1
  <2> HIDE DEF m
  <2>7. HandlerOK(p)'
    BY <1>2, <2>1, <2>2, <2>4, <2>5 DEF HandlerOK, NotLocked
  <2> QED BY <1>1, <1>2, <2>4, <2>5, <2>6, <2>7, QuietStep DEF IInv, TypeOK, OnlyProvenOwners
<1> QED BY <1>3, <1>4

LEMMA ByEmailStep ==
  ASSUME IInv, NEW p \in Procs, SignInByEmail(p)
  PROVE  IInv'
<1> DEFINE l == loc[p]
           u == row[l.email]
<1>0. /\ pc[p] = "byEmail" /\ UNCHANGED <<supabase, row, recovered, profile, token, proved, undone>>
      /\ l \in Local /\ HandlerOK(p)
  BY DEF SignInByEmail, IInv, TypeOK
<1>1. /\ l.email \in Emails /\ l.who \in Identities
      /\ l.verified => <<l.who, l.email>> \in proved
      /\ ~l.copy.exists
  BY <1>0 DEF HandlerOK
<1>2. u \in User
  BY <1>1 DEF IInv, TypeOK
<1>3. CASE ~u.exists
  <2> DEFINE m == [l EXCEPT !.verified = FALSE]
  <2>1. Goto(p, "save", m)
    BY <1>3 DEF SignInByEmail
  <2>2. m \in Local /\ m.email = l.email /\ m.who = l.who /\ m.copy = l.copy
    BY <1>0 DEF Local
  <2> QED
    <3>1. Keeps(p) /\ pc'[p] = "save" /\ loc'[p] = m
      BY <1>0, <2>1 DEF IInv, TypeOK, Goto, Keeps
    <3> HIDE DEF m, l, u
    <3>2. HandlerOK(p)'
      BY <1>0, <1>1, <2>2, <3>1 DEF HandlerOK
    <3> QED BY <1>0, <2>1, <2>2, <3>1, <3>2, QuietStep DEF IInv, TypeOK, OnlyProvenOwners
<1>4. CASE u.exists
  <2> DEFINE c == [u EXCEPT !.workosUserId = l.who]
             m == [l EXCEPT !.verified = FALSE, !.seen = u.workosUserId, !.copy = c]
  <2>1. Goto(p, "save", m) /\ l.verified /\ u.workosUserId \in {Nobody, l.who} /\ ~u.locked
    BY <1>4 DEF SignInByEmail, MayLink, NotLocked
  <2>2. c \in User /\ c.workosUserId = l.who /\ c.exists /\ ~c.locked
    BY <1>1, <1>2, <1>4, <2>1 DEF User
  <2> HIDE DEF c
  <2>3. m \in Local /\ m.email = l.email /\ m.who = l.who /\ m.copy = c /\ m.seen = u.workosUserId
    BY <1>0, <1>1, <2>1, <2>2 DEF Local
  <2>4. Keeps(p) /\ pc'[p] = "save" /\ loc'[p] = m
    BY <1>0, <2>1 DEF IInv, TypeOK, Goto, Keeps
  <2>5. row'[l.email].exists
    BY <1>0, <1>4
  <2> HIDE DEF m, l, u
  <2>6. HandlerOK(p)'
    BY <1>0, <1>1, <2>1, <2>2, <2>3, <2>4, <2>5 DEF HandlerOK
  <2> QED BY <1>0, <2>1, <2>3, <2>4, <2>6, QuietStep DEF IInv, TypeOK, OnlyProvenOwners
<1> QED BY <1>3, <1>4

(* Saving the account that was found: the row is the handler's copy. *)
LEMMA SaveStep ==
  ASSUME IInv, NEW p \in Procs, SignInSave(p)
  PROVE  IInv' /\ \A e \in Emails : row[e].workosUserId \notin {Nobody, row'[e].workosUserId}
                                    => loc[p].email = e /\ loc[p].seen # row[e].workosUserId
<1> DEFINE l == loc[p]
           m == [l EXCEPT !.copy = NoUser, !.seen = Nobody]
           f == l.email
<1>0. /\ pc[p] = "save" /\ l.copy.exists
      /\ row' = [row EXCEPT ![f] = l.copy]
      /\ undone' = IF row[f].locked /\ ~l.copy.locked THEN undone \cup {f} ELSE undone
      /\ Goto(p, "cancel", m)
      /\ UNCHANGED <<supabase, recovered, profile, token, proved>>
  BY DEF SignInSave
<1>1. /\ f \in Emails /\ l \in Local /\ l.copy \in User /\ l.who \in Identities
      /\ row[f].exists /\ l.copy.workosUserId = l.who /\ l.seen \in {Nobody, l.who}
      /\ <<l.who, f>> \in proved /\ ~l.copy.locked
  BY <1>0 DEF IInv, TypeOK, HandlerOK, Local
<1>2. m \in Local /\ m.email = f /\ m.who = l.who
  BY <1>1, Nulls DEF Local
<1>3. /\ \A q \in Procs \ {p} : pc'[q] = pc[q] /\ loc'[q] = loc[q]
      /\ pc'[p] = "cancel" /\ loc'[p] = m
      /\ pc' \in [Procs -> {"idle", "insert", "byEmail", "save", "cancel", "refused"}]
  BY <1>0 DEF IInv, TypeOK, Goto
<1>4. row'[f] = l.copy /\ \A e \in Emails \ {f} : row'[e] = row[e]
  BY <1>0, <1>1 DEF IInv, TypeOK
<1>5. loc' \in [Procs -> Local]
  BY <1>0, <1>2 DEF IInv, TypeOK, Goto
<1>a. row' \in [Emails -> User]
  BY <1>0, <1>1 DEF IInv, TypeOK
<1> HIDE DEF m
<1>6. TypeOK'
  <2>1. ASSUME NEW e \in Emails, row'[e].exists PROVE e \in supabase'
    BY <1>0, <1>1, <1>4, <2>1 DEF IInv, TypeOK
  <2>2. undone' \in SUBSET recovered'
    <3>1. row[f].locked /\ ~l.copy.locked => f \in recovered
      BY <1>0, <1>1 DEF IInv, RowOK
    <3> QED BY <1>0, <3>1 DEF IInv, TypeOK
  <2> QED BY <1>0, <1>3, <1>5, <1>a, <2>1, <2>2 DEF IInv, TypeOK
<1>7. ASSUME NEW e \in Emails PROVE RowOK(e)'
  <2>0. RowOK(e)
    BY DEF IInv
  <2>1. CASE e = f
    BY <1>0, <1>1, <1>4, <2>0, <2>1 DEF RowOK
  <2>2. CASE e # f
    BY <1>0, <1>4, <2>0, <2>2 DEF RowOK
  <2> QED BY <2>1, <2>2
<1>8. ASSUME NEW q \in Procs PROVE HandlerOK(q)'
  <2>0. \A e \in Emails : row'[e].exists <=> row[e].exists
    BY <1>0, <1>1, <1>4
  <2>1. CASE q = p
    BY <1>0, <1>1, <1>2, <1>3, <2>1 DEF HandlerOK
  <2>2. CASE q # p
    <3>1. HandlerOK(q) /\ pc'[q] = pc[q] /\ loc'[q] = loc[q]
      BY <1>3, <2>2 DEF IInv
    <3> QED BY <1>0, <1>3, <2>0, <2>2, <3>1 DEF HandlerOK
  <2> QED BY <2>1, <2>2
<1>9. OnlyProvenOwners'
  BY <1>0 DEF IInv, OnlyProvenOwners
<1>10. \A e \in Emails : row[e].workosUserId \notin {Nobody, row'[e].workosUserId}
                          => loc[p].email = e /\ loc[p].seen # row[e].workosUserId
  BY <1>1, <1>4
<1> QED BY <1>6, <1>7, <1>8, <1>9, <1>10 DEF IInv

(* The profile of a new account: only this handler inserts it, and its row is
   blank until it does. *)
LEMMA InsertStep ==
  ASSUME IInv, NEW p \in Procs, SignupInsert(p)
  PROVE  IInv' /\ \A e \in Emails : row[e].workosUserId \in {Nobody, row'[e].workosUserId}
<1> DEFINE f == loc[p].email
           new == [NoUser EXCEPT !.exists = TRUE]
<1>0. /\ pc[p] = "insert" /\ row' = [row EXCEPT ![f] = new] /\ Goto(p, "idle", NoLocal)
      /\ UNCHANGED <<supabase, recovered, profile, token, proved, undone>>
  BY DEF SignupInsert, Done
<1>1. /\ f \in Emails /\ f \in supabase /\ ~row[f].exists /\ row[f] = NoUser
      /\ f \notin recovered
  BY <1>0 DEF IInv, HandlerOK, RowOK
<1>2. /\ \A q \in Procs \ {p} : pc'[q] = pc[q] /\ loc'[q] = loc[q]
      /\ pc'[p] = "idle" /\ loc'[p] = NoLocal
  BY <1>0 DEF IInv, TypeOK, Goto
<1>3. new \in User /\ new.exists /\ ~new.locked /\ new.workosUserId = Nobody
  BY Nulls DEF User, NoUser
<1> HIDE DEF new
<1>4. row'[f] = new /\ \A e \in Emails \ {f} : row'[e] = row[e]
  BY <1>0, <1>1 DEF IInv, TypeOK
<1>5. TypeOK'
  <2>1. row' \in [Emails -> User] /\ loc' \in [Procs -> Local]
        /\ pc' \in [Procs -> {"idle", "insert", "byEmail", "save", "cancel", "refused"}]
    BY <1>0, <1>3, Nulls DEF IInv, TypeOK, Goto
  <2>2. \A e \in Emails : row'[e].exists => e \in supabase'
    BY <1>0, <1>1, <1>4 DEF IInv, TypeOK
  <2> QED BY <1>0, <2>1, <2>2 DEF IInv, TypeOK
<1>6. ASSUME NEW e \in Emails PROVE RowOK(e)'
  <2>0. RowOK(e)
    BY DEF IInv
  <2>1. CASE e = f
    BY <1>0, <1>1, <1>3, <1>4, <2>1, NobodyAssumption DEF RowOK
  <2>2. CASE e # f
    BY <1>0, <1>4, <2>0, <2>2 DEF RowOK
  <2> QED BY <2>1, <2>2
<1>7. ASSUME NEW q \in Procs PROVE HandlerOK(q)'
  <2>1. CASE q = p
    BY <1>2, <2>1 DEF HandlerOK
  <2>2. CASE q # p
    <3>1. HandlerOK(q) /\ pc'[q] = pc[q] /\ loc'[q] = loc[q]
      BY <1>2, <2>2 DEF IInv
    <3>2. pc[q] = "insert" => loc[q].email # f
      BY <1>0, <2>2, <3>1 DEF HandlerOK
    <3>3. \A e \in Emails : row[e].exists => row'[e].exists
      BY <1>1, <1>3, <1>4
    <3>4. \A e \in Emails : e # f => row'[e] = row[e]
      BY <1>4
    <3> QED BY <1>0, <1>2, <2>2, <3>1, <3>2, <3>3, <3>4 DEF HandlerOK
  <2> QED BY <2>1, <2>2
<1>8. OnlyProvenOwners'
  BY <1>0 DEF IInv, OnlyProvenOwners
<1>9. \A e \in Emails : row[e].workosUserId \in {Nobody, row'[e].workosUserId}
  BY <1>1, <1>4 DEF NoUser
<1> QED BY <1>5, <1>6, <1>7, <1>8, <1>9 DEF IInv

LEMMA EndStep ==
  ASSUME IInv, NEW p \in Procs, SignInRefused(p) \/ Mint(p) \/ Abort(p)
  PROVE  IInv'
<1>1. CASE SignInRefused(p)
  <2>1. Goto(p, "refused", loc[p]) /\ UNCHANGED <<supabase, row, recovered, profile, token, proved, undone>>
        /\ loc[p] \in Local
    BY <1>1 DEF SignInRefused, IInv, TypeOK
  <2>2. Keeps(p) /\ pc'[p] = "refused"
    BY <2>1 DEF IInv, TypeOK, Goto, Keeps
  <2>3. HandlerOK(p)'
    BY <2>2 DEF HandlerOK
  <2> QED BY <2>1, <2>2, <2>3, QuietStep DEF IInv, TypeOK, OnlyProvenOwners
<1>2. CASE Mint(p) \/ Abort(p)
  <2>1. Goto(p, "idle", NoLocal) /\ UNCHANGED <<supabase, row, recovered, profile, proved, undone>>
    BY <1>2 DEF Mint, Abort, Done
  <2>2. Keeps(p) /\ pc'[p] = "idle"
    BY <2>1 DEF IInv, TypeOK, Goto, Keeps
  <2>3. HandlerOK(p)'
    BY <2>2 DEF HandlerOK
  <2>4. token' \in Token \cup {NoToken} /\ OnlyProvenOwners'
    <3>1. CASE token' = token
      BY <2>1, <3>1 DEF IInv, TypeOK, OnlyProvenOwners
    <3>2. CASE token' # token
      <4>1. pc[p] = "cancel" /\ token' = [account |-> loc[p].email, holder |-> loc[p].who]
        BY <1>2, <3>2 DEF Mint, Abort
      <4>2. loc[p].who \in Holders /\ HandlerOK(p)
        BY DEF IInv, TypeOK, Local
      <4> QED BY <2>1, <4>1, <4>2 DEF HandlerOK, Token, OnlyProvenOwners
    <3> QED BY <3>1, <3>2
  <2> QED BY <2>1, <2>2, <2>3, <2>4, Nulls, QuietStep DEF IInv, TypeOK
<1> QED BY <1>1, <1>2

LEMMA RecoverStep ==
  ASSUME IInv, NEW e \in Emails, Recover(e)
  PROVE  IInv' /\ \A d \in Emails : row'[d].workosUserId = row[d].workosUserId
<1>0. /\ row[e].exists /\ row' = [row EXCEPT ![e].locked = TRUE]
      /\ recovered' = recovered \cup {e} /\ row[e] \in User
      /\ UNCHANGED <<supabase, profile, token, proved, undone, pc, loc>>
  BY DEF Recover, IInv, TypeOK
<1>1. /\ row' \in [Emails -> User] /\ row'[e].locked
      /\ \A d \in Emails : /\ row'[d].exists = row[d].exists
                            /\ row'[d].workosUserId = row[d].workosUserId
                            /\ d # e => row'[d] = row[d]
  BY <1>0 DEF IInv, TypeOK, User
<1>2. TypeOK'
  BY <1>0, <1>1 DEF IInv, TypeOK
<1>3. ASSUME NEW d \in Emails PROVE RowOK(d)'
  <2>0. RowOK(d)
    BY DEF IInv
  <2> QED BY <1>0, <1>1, <2>0 DEF RowOK
<1>4. ASSUME NEW q \in Procs PROVE HandlerOK(q)'
  <2>0. HandlerOK(q)
    BY DEF IInv
  <2> QED BY <1>0, <1>1, <2>0 DEF HandlerOK
<1> QED BY <1>0, <1>1, <1>2, <1>3, <1>4 DEF IInv, OnlyProvenOwners

LEMMA ProfileStep ==
  ASSUME IInv, NEW i \in Identities, NEW f \in Profile, ProfileChanges(i, f)
  PROVE  IInv' /\ row' = row
BY DEF IInv, TypeOK, RowOK, HandlerOK, OnlyProvenOwners, ProfileChanges

(* Every step keeps the invariant, and relinks an account only by the save of
   a sign-in that had read it before. *)
LEMMA NextIInv ==
  ASSUME IInv, [Next]_vars
  PROVE  /\ IInv'
         /\ \A e \in Emails : row[e].workosUserId \notin {Nobody, row'[e].workosUserId}
              => \E p \in Procs : /\ pc[p] = "save" /\ loc[p].email = e
                                  /\ loc[p].seen # row[e].workosUserId
<1>1. ASSUME NEW p \in Procs, NEW e \in Emails, Signup(p, e) \/ Login(p, e)
      PROVE  IInv' /\ row' = row
  BY <1>1, SignupStep, LoginStep DEF Signup, Login
<1>2. ASSUME NEW p \in Procs, NEW i \in Identities, SignInByIdentity(p, i)
      PROVE  IInv' /\ row' = row
  BY <1>2, ByIdentityStep DEF SignInByIdentity
<1>3. ASSUME NEW p \in Procs, SignInByEmail(p) PROVE IInv' /\ row' = row
  BY <1>3, ByEmailStep DEF SignInByEmail
<1>4. ASSUME NEW p \in Procs, SignInRefused(p) \/ Mint(p) \/ Abort(p) PROVE IInv' /\ row' = row
  BY <1>4, EndStep DEF SignInRefused, Mint, Abort
<1>5. ASSUME NEW p \in Procs, SignInSave(p) PROVE pc[p] = "save"
  BY <1>5 DEF SignInSave
<1>6. CASE UNCHANGED vars
  BY <1>6 DEF vars, IInv, TypeOK, RowOK, HandlerOK, OnlyProvenOwners
<1> QED BY <1>1, <1>2, <1>3, <1>4, <1>5, <1>6, SaveStep, InsertStep, RecoverStep, ProfileStep
        DEF Next, vars

LEMMA Invariance == Spec => []IInv
<1>1. IInv /\ [Next]_vars => IInv'
  BY NextIInv
<1> QED BY <1>1, InitIInv, PTL DEF Spec

-----------------------------------------------------------------------------
(* Every variable keeps its type. *)
THEOREM AccountTypeCorrect == Spec => []TypeOK
<1>1. IInv => TypeOK
  BY DEF IInv
<1> QED BY <1>1, Invariance, PTL

(* Whatever sign-ins overlap and addresses change at WorkOS, an identity gets a
   token only for an account whose address it has signed in with, verified
   (loginWithWorkOs). *)
THEOREM ProvenOwners == Spec => []OnlyProvenOwners
<1>1. IInv => OnlyProvenOwners
  BY DEF IInv
<1> QED BY <1>1, Invariance, PTL

(* No token of a recovered account is accepted, unless a sign-in that had read
   the account before the lock saved it afterwards (assertNotLocked,
   JwtStrategy.validate, complete). *)
THEOREM RecoveredStaysOut == Spec => []RecoveredIsOut
<1>1. IInv => RecoveredIsOut
  <2> SUFFICES ASSUME IInv, token.account \in recovered \ undone PROVE ~Accepts
    BY DEF RecoveredIsOut
  <2>1. token.account \in Emails
    BY DEF IInv, TypeOK
  <2> QED BY <2>1 DEF IInv, RowOK, Accepts
<1> QED BY <1>1, Invariance, PTL

(* An account's link to an identity changes only under a sign-in that had read
   the account before it was linked (loginWithWorkOs). *)
THEOREM Relinking == Spec => RelinkedByOverlapOnly
<1>1. IInv /\ [Next]_vars =>
        [\A e \in Emails : row[e].workosUserId \notin {Nobody, row'[e].workosUserId}
           => \E p \in Procs : /\ pc[p] = "save" /\ loc[p].email = e
                               /\ loc[p].seen # row[e].workosUserId]_vars
  BY NextIInv
<1> QED BY <1>1, Invariance, PTL DEF Spec, RelinkedByOverlapOnly
=============================================================================
