--------------------------- MODULE GuardiansProofs ---------------------------
(***************************************************************************)
(* The safety properties of Guardians, for any limits, addresses and       *)
(* number of handlers.                                                     *)
(***************************************************************************)
EXTENDS Guardians, FiniteSetTheorems, TLAPS

(* A handler that saves an entity has read its row; an invitation was pending
   when the handler that confirms it found it. *)
HandlerOK(p) ==
  /\ pc[p] \in {"mailing", "confirming", "removing"} => loc[p].id \in Ids
  /\ pc[p] = "confirming" => loc[p].copy.status = "pending"

IInv == /\ TypeOK
        /\ \A p \in Procs : HandlerOK(p)
        /\ OverLimitByHandlersInFlight

LEMMA Blank == NoRow \in Row /\ NoLocal \in [id : Ids \cup {NoId}, copy : Row]
BY OwnerAssumption DEF NoRow, Row, NoLocal

-----------------------------------------------------------------------------
(* Counting rows and handlers. *)
Confirming == {p \in Procs : pc[p] = "confirming"}

LEMMA Counts ==
  ASSUME IInv
  PROVE  /\ IsFiniteSet(Live) /\ IsFiniteSet(MayBeLive) /\ IsFiniteSet(Adding)
         /\ IsFiniteSet(Confirming)
         /\ Cardinality(Live) \in Nat /\ Cardinality(MayBeLive) \in Nat
         /\ Cardinality(Adding) \in Nat /\ Cardinality(Procs) \in Nat
         /\ Cardinality(Confirming) \in Nat
<1>1. IsFiniteSet(Ids)
  BY BoundsAssumption, FS_Interval DEF Ids
<1>2. Live \in SUBSET Ids /\ MayBeLive \in SUBSET Ids
  BY DEF IInv, HandlerOK, Live, MayBeLive
<1>3. Adding \in SUBSET Procs /\ Confirming \in SUBSET Procs /\ IsFiniteSet(Procs)
  BY BoundsAssumption DEF Adding, Confirming
<1>4. IsFiniteSet(Live) /\ IsFiniteSet(MayBeLive)
  BY <1>1, <1>2, FS_Subset
<1>5. IsFiniteSet(Adding) /\ IsFiniteSet(Confirming)
  BY <1>3, FS_Subset
<1> QED BY <1>3, <1>4, <1>5, FS_CardinalityType

(* Rows that are not live yet: at most one for each confirmation in flight. *)
LEMMA AtMostOneEach ==
  ASSUME IInv
  PROVE  Cardinality(MayBeLive) <= Cardinality(Live) + Cardinality(Confirming)
<1> DEFINE More == {loc[p].id : p \in Confirming}
           f    == [p \in Confirming |-> loc[p].id]
<1>1. f \in Surjection(Confirming, More)
  BY DEF Surjection
<1>2. IsFiniteSet(More) /\ Cardinality(More) <= Cardinality(Confirming)
  BY <1>1, Counts, FS_Surjection
<1>3. MayBeLive = Live \cup More
  BY DEF MayBeLive, Confirming
<1> HIDE DEF More
<1>4. Cardinality(MayBeLive) = Cardinality(Live) + Cardinality(More) - Cardinality(Live \cap More)
  BY <1>2, <1>3, Counts, FS_Union
<1>5. IsFiniteSet(Live \cap More)
  BY Counts, FS_Intersection
<1>6. Cardinality(More) \in Nat /\ Cardinality(Live \cap More) \in Nat
  BY <1>2, <1>5, FS_CardinalityType
<1> QED BY <1>2, <1>4, <1>6, Counts

(* A step that makes no row live and adds none keeps the list in its limit. *)
LEMMA NoMore ==
  ASSUME IInv, MayBeLive' \subseteq MayBeLive, Adding' \subseteq Adding
  PROVE  OverLimitByHandlersInFlight'
<1>1. /\ IsFiniteSet(MayBeLive') /\ Cardinality(MayBeLive') <= Cardinality(MayBeLive)
      /\ IsFiniteSet(Adding') /\ Cardinality(Adding') <= Cardinality(Adding)
  BY Counts, FS_Subset
<1>2. Cardinality(MayBeLive') \in Nat /\ Cardinality(Adding') \in Nat
  BY <1>1, FS_CardinalityType
<1> QED BY <1>1, <1>2, Counts, LimitsAssumption DEF IInv, OverLimitByHandlersInFlight

-----------------------------------------------------------------------------
(* The handler that moves, and those that do not. *)
LEMMA Moves ==
  ASSUME TypeOK, NEW p \in Procs, NEW l \in [id : Ids \cup {NoId}, copy : Row],
         NEW step \in {"idle", "adding", "mailing", "confirming", "removing"},
         Goto(p, step, l)
  PROVE  /\ pc' \in [Procs -> {"idle", "adding", "mailing", "confirming", "removing"}]
         /\ loc' \in [Procs -> [id : Ids \cup {NoId}, copy : Row]]
         /\ pc'[p] = step /\ loc'[p] = l
         /\ \A q \in Procs \ {p} : pc'[q] = pc[q] /\ loc'[q] = loc[q]
BY DEF TypeOK, Goto

(* addGuardian's checks: the list has room, and only the other handlers can
   have filled it since. *)
LEMMA AddReadStep ==
  ASSUME IInv, NEW p \in Procs, NEW e \in Emails, AddRead(p, e)
  PROVE  IInv'
<1> DEFINE l == [NoLocal EXCEPT !.copy.email = e]
<1>1. l \in [id : Ids \cup {NoId}, copy : Row]
  BY Blank DEF NoLocal, NoRow, Row
<1>2. pc[p] = "idle" /\ Goto(p, "adding", l) /\ UNCHANGED <<row, link, recovery, now>>
      /\ Cardinality(Live) < MaxGuardians
  BY DEF AddRead, MayAdd
<1> HIDE DEF l
<1>3. /\ pc' \in [Procs -> {"idle", "adding", "mailing", "confirming", "removing"}]
      /\ loc' \in [Procs -> [id : Ids \cup {NoId}, copy : Row]]
      /\ pc'[p] = "adding" /\ \A q \in Procs \ {p} : pc'[q] = pc[q] /\ loc'[q] = loc[q]
  BY <1>1, <1>2, Moves DEF IInv
<1>4. TypeOK'
  BY <1>2, <1>3 DEF IInv, TypeOK
<1>5. \A q \in Procs : HandlerOK(q)'
  BY <1>3 DEF IInv, HandlerOK
<1>6. OverLimitByHandlersInFlight'
  <2>1. MayBeLive' = MayBeLive
    BY <1>2, <1>3 DEF MayBeLive, Live
  <2>2. p \notin Adding /\ Adding' = Adding \cup {p}
    BY <1>2, <1>3 DEF Adding
  <2>3. Cardinality(Adding') = Cardinality(Adding) + 1
    BY <2>2, Counts, FS_AddElement
  <2>4. Cardinality(Confirming) + Cardinality(Adding) < Cardinality(Procs)
    <3>1. Confirming \cup Adding \subseteq Procs \ {p} /\ Confirming \cap Adding = {}
      BY <1>2 DEF Confirming, Adding
    <3>2. Cardinality(Confirming \cup Adding) = Cardinality(Confirming) + Cardinality(Adding)
      <4>1. Cardinality(Confirming \cup Adding) =
              Cardinality(Confirming) + Cardinality(Adding) - Cardinality(Confirming \cap Adding)
        BY Counts, FS_Union, Zenon
      <4>2. Cardinality(Confirming \cap Adding) = 0
        BY <3>1, FS_EmptySet
      <4> QED BY <4>1, <4>2, Counts
    <3>3. IsFiniteSet(Procs \ {p}) /\ Cardinality(Procs \ {p}) = Cardinality(Procs) - 1
      BY BoundsAssumption, FS_RemoveElement
    <3>4. Cardinality(Confirming \cup Adding) <= Cardinality(Procs \ {p})
      BY <3>1, <3>3, FS_Subset
    <3> QED BY <3>2, <3>3, <3>4, Counts
  <2> QED BY <1>2, <2>1, <2>3, <2>4, AtMostOneEach, Counts, LimitsAssumption
          DEF OverLimitByHandlersInFlight
<1> QED BY <1>4, <1>5, <1>6 DEF IInv

(* The new row takes the place its handler had in the count. *)
LEMMA AddSaveStep ==
  ASSUME IInv, NEW p \in Procs, NEW i \in Ids, AddSave(p, i)
  PROVE  IInv'
<1> DEFINE l == [NoLocal EXCEPT !.id = i]
           r == [email |-> loc[p].copy.email, status |-> "pending",
                 invited |-> TRUE, expiresAt |-> now + InviteTTL]
<1>1. l \in [id : Ids \cup {NoId}, copy : Row] /\ l.id = i
  BY Blank DEF NoLocal
<1>2. r \in Row
  BY LimitsAssumption, BoundsAssumption DEF IInv, TypeOK, Row
<1>3. /\ pc[p] = "adding" /\ Goto(p, "mailing", l) /\ UNCHANGED <<link, recovery, now>>
      /\ row' = [row EXCEPT ![i] = r] /\ row[i].status = "none"
  BY DEF AddSave, Save
<1> HIDE DEF l, r
<1>4. /\ pc' \in [Procs -> {"idle", "adding", "mailing", "confirming", "removing"}]
      /\ loc' \in [Procs -> [id : Ids \cup {NoId}, copy : Row]]
      /\ pc'[p] = "mailing" /\ loc'[p] = l
      /\ \A q \in Procs \ {p} : pc'[q] = pc[q] /\ loc'[q] = loc[q]
  BY <1>1, <1>3, Moves DEF IInv
<1>5. TypeOK'
  BY <1>2, <1>3, <1>4 DEF IInv, TypeOK
<1>6. \A q \in Procs : HandlerOK(q)'
  BY <1>1, <1>4 DEF IInv, HandlerOK
<1>7. OverLimitByHandlersInFlight'
  <2>1. Live' \subseteq Live \cup {i}
    BY <1>3 DEF IInv, TypeOK, Live
  <2>2. Confirming' = Confirming /\ \A q \in Confirming : loc'[q] = loc[q]
    BY <1>3, <1>4 DEF Confirming
  <2>3. MayBeLive = Live \cup {loc[q].id : q \in Confirming}
        /\ MayBeLive' = Live' \cup {loc'[q].id : q \in Confirming'}
    BY DEF MayBeLive, Confirming
  <2>4. MayBeLive' \in SUBSET (MayBeLive \cup {i})
    BY <2>1, <2>2, <2>3
  <2>5. p \in Adding /\ Adding' = Adding \ {p}
    BY <1>3, <1>4 DEF Adding
  <2>6. Cardinality(Adding') = Cardinality(Adding) - 1
    BY <2>5, Counts, FS_RemoveElement
  <2>7. /\ IsFiniteSet(MayBeLive \cup {i})
        /\ Cardinality(MayBeLive \cup {i}) <= Cardinality(MayBeLive) + 1
    <3>1. /\ IsFiniteSet(MayBeLive \cup {i})
          /\ Cardinality(MayBeLive \cup {i}) =
               IF i \in MayBeLive THEN Cardinality(MayBeLive) ELSE Cardinality(MayBeLive) + 1
      BY Counts, FS_AddElement, Zenon
    <3> QED BY <3>1, Counts
  <2>8. IsFiniteSet(MayBeLive') /\ Cardinality(MayBeLive') <= Cardinality(MayBeLive \cup {i})
    BY <2>4, <2>7, FS_Subset
  <2>9. Cardinality(MayBeLive') \in Nat /\ Cardinality(MayBeLive \cup {i}) \in Nat
    BY <2>7, <2>8, FS_CardinalityType
  <2> QED BY <2>6, <2>7, <2>8, <2>9, Counts, LimitsAssumption
          DEF IInv, OverLimitByHandlersInFlight
<1> QED BY <1>5, <1>6, <1>7 DEF IInv

(* Reading a row or mailing a link changes none. *)
LEMMA QuietStep ==
  ASSUME IInv, NEW p \in Procs, NEW i \in Ids, AddMail(p) \/ ConfirmRead(p, i) \/ RemoveRead(p, i)
  PROVE  IInv' /\ row' = row
<1>1. PICK step \in {"idle", "confirming", "removing"}, l \in [id : Ids \cup {NoId}, copy : Row] :
        /\ Goto(p, step, l)
        /\ step # "idle" => l.id = i
        /\ step = "confirming" => l.copy.status = "pending" /\ i \in Live
  <2>1. CASE AddMail(p)
    BY <2>1, Blank DEF AddMail
  <2>2. CASE ConfirmRead(p, i)
    <3> DEFINE l == [id |-> i, copy |-> row[i]]
    <3>1. l \in [id : Ids \cup {NoId}, copy : Row] /\ l.id = i /\ l.copy.status = "pending" /\ i \in Live
      BY <2>2 DEF ConfirmRead, FindInvite, IInv, TypeOK, Live
    <3>2. Goto(p, "confirming", l)
      BY <2>2 DEF ConfirmRead
    <3> HIDE DEF l
    <3> QED BY <3>1, <3>2
  <2>3. CASE RemoveRead(p, i)
    <3> DEFINE l == [id |-> i, copy |-> row[i]]
    <3>1. l \in [id : Ids \cup {NoId}, copy : Row] /\ l.id = i
      BY <2>3 DEF IInv, TypeOK
    <3>2. Goto(p, "removing", l)
      BY <2>3 DEF RemoveRead
    <3> HIDE DEF l
    <3> QED BY <3>1, <3>2
  <2> QED BY <2>1, <2>2, <2>3
<1>2. /\ pc' \in [Procs -> {"idle", "adding", "mailing", "confirming", "removing"}]
      /\ loc' \in [Procs -> [id : Ids \cup {NoId}, copy : Row]]
      /\ pc'[p] = step /\ loc'[p] = l
      /\ \A q \in Procs \ {p} : pc'[q] = pc[q] /\ loc'[q] = loc[q]
  BY <1>1, Moves DEF IInv
<1>3. UNCHANGED <<row, recovery, now>> /\ link' \in SUBSET Ids
  BY DEF AddMail, ConfirmRead, RemoveRead, IInv, HandlerOK, TypeOK
<1>4. TypeOK'
  BY <1>2, <1>3 DEF IInv, TypeOK
<1>5. \A q \in Procs : HandlerOK(q)'
  BY <1>1, <1>2 DEF IInv, HandlerOK
<1>6. MayBeLive' \subseteq MayBeLive /\ Adding' \subseteq Adding
  BY <1>1, <1>2, <1>3 DEF MayBeLive, Live, Adding
<1> QED BY <1>3, <1>4, <1>5, <1>6, NoMore DEF IInv

(* Saving a confirmed or removed guardian: the row stays live, or was counted. *)
LEMMA SaveStep ==
  ASSUME IInv, NEW p \in Procs, ConfirmSave(p) \/ RemoveSave(p)
  PROVE  /\ IInv'
         /\ \A i \in Ids : row[i].status = "removed" /\ row'[i].status # "removed"
              => pc[p] = "confirming" /\ loc[p].id = i
         /\ \A q \in Procs : pc'[q] = "confirming" => pc[q] = "confirming" /\ loc'[q] = loc[q]
<1> DEFINE i == loc[p].id
           r == [loc[p].copy EXCEPT !.status = IF pc[p] = "confirming" THEN "active" ELSE "removed",
                                    !.invited = FALSE]
<1>1. /\ pc[p] \in {"confirming", "removing"} /\ Goto(p, "idle", NoLocal)
      /\ row' = [row EXCEPT ![i] = r] /\ UNCHANGED <<link, recovery, now>>
  BY DEF ConfirmSave, RemoveSave, Save
<1>2. /\ i \in Ids /\ r \in Row
      /\ r.status = IF pc[p] = "confirming" THEN "active" ELSE "removed"
      /\ pc[p] = "confirming" => loc[p].copy.status = "pending"
  <2>1. loc[p] \in [id : Ids \cup {NoId}, copy : Row]
    BY DEF IInv, TypeOK
  <2>2. loc[p].copy \in Row
    BY <2>1
  <2>3. i \in Ids /\ (pc[p] = "confirming" => loc[p].copy.status = "pending")
    BY <1>1 DEF IInv, HandlerOK
  <2>4. r \in Row /\ r.status = IF pc[p] = "confirming" THEN "active" ELSE "removed"
    BY <2>2 DEF Row
  <2> QED BY <2>3, <2>4
<1> HIDE DEF r
<1>3. /\ pc' \in [Procs -> {"idle", "adding", "mailing", "confirming", "removing"}]
      /\ loc' \in [Procs -> [id : Ids \cup {NoId}, copy : Row]]
      /\ pc'[p] = "idle"
      /\ \A q \in Procs \ {p} : pc'[q] = pc[q] /\ loc'[q] = loc[q]
  BY <1>1, Blank, Moves DEF IInv
<1>4. row' \in [Ids -> Row] /\ row'[i] = r /\ \A j \in Ids \ {i} : row'[j] = row[j]
  BY <1>1, <1>2 DEF IInv, TypeOK
<1>5. TypeOK'
  BY <1>1, <1>3, <1>4 DEF IInv, TypeOK
<1>6. \A q \in Procs : HandlerOK(q)'
  BY <1>3 DEF IInv, HandlerOK
<1>7. Adding' \subseteq Adding
  BY <1>3 DEF Adding
<1>8. MayBeLive' \subseteq MayBeLive
  <2>1. Live' \subseteq MayBeLive
    BY <1>2, <1>4 DEF Live, MayBeLive
  <2>2. \A q \in Procs : pc'[q] = "confirming" => pc[q] = "confirming" /\ loc'[q] = loc[q]
    BY <1>3
  <2> QED BY <2>1, <2>2 DEF MayBeLive
<1>9. /\ \A j \in Ids : row[j].status = "removed" /\ row'[j].status # "removed"
           => pc[p] = "confirming" /\ i = j
      /\ \A q \in Procs : pc'[q] = "confirming" => pc[q] = "confirming" /\ loc'[q] = loc[q]
  BY <1>1, <1>2, <1>3, <1>4
<1> QED BY <1>5, <1>6, <1>7, <1>8, <1>9, NoMore DEF IInv

(* A completed recovery removes every guardian there is. *)
LEMMA RecoveryStep ==
  ASSUME IInv, NEW p \in Procs, RecoveryRemoves(p)
  PROVE  IInv' /\ \A i \in Ids : row[i].status = "removed" => row'[i].status = "removed"
<1>1. /\ row' = [i \in Ids |-> IF i \in Live THEN [row[i] EXCEPT !.status = "removed", !.invited = FALSE]
                                ELSE row[i]]
      /\ recovery' = "done" /\ UNCHANGED <<link, now, pc, loc>>
  BY DEF RecoveryRemoves
<1>2. \A i \in Ids : row'[i] \in Row /\ row'[i].status \in {"removed", row[i].status}
                     /\ (i \in Live => row'[i].status = "removed")
  BY <1>1 DEF IInv, TypeOK, Row
<1>3. row' \in [Ids -> Row]
  BY <1>1, <1>2
<1>4. TypeOK' /\ \A q \in Procs : HandlerOK(q)'
  BY <1>1, <1>3 DEF IInv, TypeOK, HandlerOK
<1>5. Live' \subseteq Live
  BY <1>2 DEF Live
<1>6. MayBeLive' \subseteq MayBeLive /\ Adding' \subseteq Adding
  BY <1>1, <1>5 DEF MayBeLive, Adding
<1> QED BY <1>2, <1>4, <1>6, NoMore DEF IInv

-----------------------------------------------------------------------------
LEMMA InitIInv == Init => IInv
<1> SUFFICES ASSUME Init PROVE IInv
  OBVIOUS
<1>1. TypeOK
  BY Blank, BoundsAssumption DEF Init, TypeOK
<1>2. \A p \in Procs : HandlerOK(p)
  BY DEF Init, HandlerOK
<1>3. OverLimitByHandlersInFlight
  <2>1. MayBeLive = {} /\ Adding = {}
    BY DEF Init, MayBeLive, Live, Adding, NoRow
  <2>2. Cardinality(Procs) \in Nat
    BY BoundsAssumption, FS_CardinalityType
  <2> QED BY <2>1, <2>2, FS_EmptySet, LimitsAssumption DEF OverLimitByHandlersInFlight
<1> QED BY <1>1, <1>2, <1>3 DEF IInv

(* Every step keeps the invariant, and a removed row that no confirmation in
   flight has read. *)
LEMMA NextIInv ==
  ASSUME IInv, [Next]_vars
  PROVE  IInv' /\ \A i \in Ids : Gone(i) => Gone(i)'
<1>1. ASSUME NEW p \in Procs, NEW e \in Emails, AddRead(p, e)
      PROVE  IInv' /\ \A i \in Ids : Gone(i) => Gone(i)'
  <2>1. row' = row /\ \A q \in Procs : pc'[q] = "confirming" => pc[q] = "confirming" /\ loc'[q] = loc[q]
    BY <1>1 DEF AddRead, Goto, IInv, TypeOK
  <2> QED BY <1>1, <2>1, AddReadStep DEF Gone
<1>2. ASSUME NEW p \in Procs, NEW i \in Ids, AddSave(p, i)
      PROVE  IInv' /\ \A j \in Ids : Gone(j) => Gone(j)'
  <2>1. /\ \A j \in Ids : row[j].status = "removed" => row'[j].status = "removed"
        /\ \A q \in Procs : pc'[q] = "confirming" => pc[q] = "confirming" /\ loc'[q] = loc[q]
    BY <1>2 DEF AddSave, Save, Goto, IInv, TypeOK
  <2> QED BY <1>2, <2>1, AddSaveStep DEF Gone
<1>3. ASSUME NEW p \in Procs, NEW i \in Ids, AddMail(p) \/ ConfirmRead(p, i) \/ RemoveRead(p, i)
      PROVE  IInv' /\ \A j \in Ids : Gone(j) => Gone(j)'
  <2>1. \A q \in Procs : pc'[q] = "confirming" =>
          (pc[q] = "confirming" /\ loc'[q] = loc[q]) \/ (loc'[q].id = i /\ row[i].status = "pending")
    BY <1>3 DEF AddMail, ConfirmRead, FindInvite, RemoveRead, Goto, IInv, TypeOK
  <2> QED BY <1>3, <2>1, QuietStep DEF Gone
<1>4. ASSUME NEW p \in Procs, AddMail(p) PROVE loc[p].id \in Ids
  BY <1>4 DEF AddMail, IInv, HandlerOK
<1>5. ASSUME NEW p \in Procs, ConfirmSave(p) \/ RemoveSave(p)
      PROVE  IInv' /\ \A i \in Ids : Gone(i) => Gone(i)'
  BY <1>5, SaveStep DEF Gone
<1>6. ASSUME NEW p \in Procs, RecoveryRemoves(p)
      PROVE  IInv' /\ \A i \in Ids : Gone(i) => Gone(i)'
  BY <1>6, RecoveryStep DEF RecoveryRemoves, Gone
<1>7. CASE RecoveryStarts \/ Tick \/ UNCHANGED vars
  <2>1. UNCHANGED <<row, link, pc, loc>> /\ recovery' \in {"none", "open", "done"} /\ now' \in 1..MaxTime
    BY <1>7, BoundsAssumption DEF RecoveryStarts, Tick, vars, IInv, TypeOK
  <2> QED BY <2>1 DEF IInv, TypeOK, HandlerOK, OverLimitByHandlersInFlight, MayBeLive, Live, Adding, Gone
<1> QED BY <1>1, <1>2, <1>3, <1>4, <1>5, <1>6, <1>7 DEF Next

LEMMA Invariance == Spec => []IInv
<1>1. IInv /\ [Next]_vars => IInv'
  BY NextIInv
<1> QED BY <1>1, InitIInv, PTL DEF Spec

-----------------------------------------------------------------------------
(* Every variable keeps its type. *)
THEOREM GuardianTypeCorrect == Spec => []TypeOK
<1>1. IInv => TypeOK
  BY DEF IInv
<1> QED BY <1>1, Invariance, PTL

(* However many handlers overlap, the list outgrows its limit by fewer rows
   than there are handlers (addGuardian, confirmInvite, removeGuardian). *)
THEOREM LimitHeldUpToOverlap == Spec => []OverLimitByHandlersInFlight
<1>1. IInv => OverLimitByHandlersInFlight
  BY DEF IInv
<1> QED BY <1>1, Invariance, PTL

(* A guardian who is removed while no confirmation of theirs is in flight
   stays removed (removeGuardian, confirmInvite). *)
THEOREM RemovalLasts == Spec => RemovalSettles
<1>1. IInv /\ [Next]_vars => [\A i \in Ids : Gone(i) => Gone(i)']_vars
  BY NextIInv
<1> QED BY <1>1, Invariance, PTL DEF Spec, RemovalSettles

-----------------------------------------------------------------------------
(* One handler at a time: what a handler has read is still so when it saves. *)
OneAtATime == \A p, q \in Procs : p = q

SoloOK ==
  /\ OnePlacePerPerson
  /\ \A p \in Procs :
       /\ pc[p] = "adding" => loc[p].copy.email \notin {row[i].email : i \in Live}
       /\ pc[p] \in {"confirming", "removing"} =>
            loc[p].copy = row[loc[p].id] /\ loc[p].id \in Live

LEMMA SoloStep ==
  ASSUME OneAtATime, IInv, SoloOK, [Next]_vars
  PROVE  SoloOK' /\ \A i \in Ids : row[i].status = "removed" => row'[i].status = "removed"
<1>1. ASSUME NEW p \in Procs, NEW e \in Emails, AddRead(p, e)
      PROVE  SoloOK' /\ row' = row
  <2>1. row' = row /\ pc'[p] = "adding" /\ loc'[p].copy.email = e
    BY <1>1 DEF AddRead, Goto, IInv, TypeOK, NoLocal, NoRow
  <2>2. e \notin {row[i].email : i \in Live}
    BY <1>1 DEF AddRead, MayAdd
  <2> QED BY <2>1, <2>2 DEF OneAtATime, SoloOK, OnePlacePerPerson, Live
<1>2. ASSUME NEW p \in Procs, NEW j \in Ids, AddSave(p, j)
      PROVE  SoloOK' /\ \A i \in Ids : row[i].status = "removed" => row'[i].status = "removed"
  <2>1. /\ pc[p] = "adding" /\ pc'[p] = "mailing" /\ row[j].status = "none"
        /\ row'[j].email = loc[p].copy.email /\ row'[j].status = "pending"
        /\ \A i \in Ids \ {j} : row'[i] = row[i]
    BY <1>2 DEF AddSave, Save, Goto, IInv, TypeOK
  <2>2. Live' = Live \cup {j} /\ j \notin Live
    BY <2>1 DEF Live
  <2>3. loc[p].copy.email \notin {row[i].email : i \in Live}
    BY <2>1 DEF SoloOK
  <2>4. OnePlacePerPerson'
    BY <2>1, <2>2, <2>3 DEF SoloOK, OnePlacePerPerson, Live
  <2> QED BY <2>1, <2>4 DEF OneAtATime, SoloOK
<1>3. ASSUME NEW p \in Procs, NEW j \in Ids, AddMail(p) \/ ConfirmRead(p, j) \/ RemoveRead(p, j)
      PROVE  SoloOK' /\ row' = row
  <2>1. row' = row /\ pc'[p] \in {"idle", "confirming", "removing"}
        /\ (pc'[p] # "idle" => loc'[p] = [id |-> j, copy |-> row[j]] /\ j \in Live)
    BY <1>3 DEF AddMail, ConfirmRead, FindInvite, RemoveRead, Live, Goto, IInv, TypeOK
  <2> QED BY <2>1 DEF OneAtATime, SoloOK, OnePlacePerPerson, Live
<1>4. ASSUME NEW p \in Procs, ConfirmSave(p) \/ RemoveSave(p)
      PROVE  SoloOK' /\ \A i \in Ids : row[i].status = "removed" => row'[i].status = "removed"
  <2> DEFINE i == loc[p].id
  <2>1. /\ pc[p] \in {"confirming", "removing"} /\ pc'[p] = "idle"
        /\ i \in Live /\ loc[p].copy = row[i] /\ row[i] \in Row
        /\ row' = [row EXCEPT ![i] = [loc[p].copy EXCEPT !.status =
                     IF pc[p] = "confirming" THEN "active" ELSE "removed", !.invited = FALSE]]
    BY <1>4 DEF ConfirmSave, RemoveSave, Save, Goto, SoloOK, IInv, TypeOK, Live
  <2>2. row'[i].email = row[i].email /\ \A j \in Ids \ {i} : row'[j] = row[j]
    BY <2>1 DEF IInv, TypeOK, Row
  <2>3. Live' \subseteq Live /\ \A j \in Live' : row'[j].email = row[j].email
    BY <2>1, <2>2 DEF Live
  <2>4. OnePlacePerPerson'
    BY <2>3 DEF SoloOK, OnePlacePerPerson
  <2>5. \A j \in Ids : row[j].status = "removed" => row'[j].status = "removed"
    BY <2>1, <2>2 DEF Live
  <2> QED BY <2>1, <2>4, <2>5 DEF OneAtATime, SoloOK
<1>5. ASSUME NEW p \in Procs, RecoveryRemoves(p)
      PROVE  SoloOK' /\ \A i \in Ids : row[i].status = "removed" => row'[i].status = "removed"
  <2>1. pc[p] = "idle" /\ pc' = pc /\ loc' = loc
        /\ row' = [i \in Ids |-> IF i \in Live THEN [row[i] EXCEPT !.status = "removed", !.invited = FALSE]
                                 ELSE row[i]]
    BY <1>5 DEF RecoveryRemoves
  <2>2. \A i \in Ids : row'[i].status \in {"removed", row[i].status} /\ (i \in Live => row'[i].status = "removed")
    BY <2>1 DEF IInv, TypeOK, Row
  <2>3. Live' = {}
    BY <2>2 DEF Live
  <2> QED BY <2>1, <2>2, <2>3 DEF OneAtATime, SoloOK, OnePlacePerPerson
<1>6. CASE RecoveryStarts \/ Tick \/ UNCHANGED vars
  BY <1>6 DEF RecoveryStarts, Tick, vars, SoloOK, OnePlacePerPerson, Live
<1>7. ASSUME NEW p \in Procs, AddMail(p) PROVE loc[p].id \in Ids
  BY <1>7 DEF AddMail, IInv, HandlerOK
<1> QED BY <1>1, <1>2, <1>3, <1>4, <1>5, <1>6, <1>7 DEF Next

LEMMA SoloInvariance ==
  ASSUME OneAtATime
  PROVE  Spec => [](IInv /\ SoloOK)
<1>1. Init => SoloOK
  BY DEF Init, SoloOK, OnePlacePerPerson, Live, NoRow
<1>2. IInv /\ SoloOK /\ [Next]_vars => IInv' /\ SoloOK'
  BY NextIInv, SoloStep
<1> QED BY <1>1, <1>2, InitIInv, PTL DEF Spec

(* addGuardian's and removeGuardian's promises are kept by handlers that do
   not overlap: at most MaxGuardians, nobody twice, no removed one back.  So
   nothing but the overlap of two handlers breaks them. *)
THEOREM KeptOneAtATime ==
  ASSUME OneAtATime
  PROVE  Spec => [](AtMostMaxGuardians /\ OnePlacePerPerson) /\ RemovalIsFinal
<1>1. IInv => AtMostMaxGuardians
  <2> SUFFICES ASSUME IInv PROVE AtMostMaxGuardians
    OBVIOUS
  <2>1. Cardinality(Live) <= Cardinality(MayBeLive)
    BY Counts, FS_Subset DEF MayBeLive
  <2>2. Cardinality(Procs) <= 1
    <3>1. CASE Procs = {}
      BY <3>1, FS_EmptySet
    <3>2. ASSUME NEW p \in Procs PROVE Cardinality(Procs) = 1
      <4>1. Procs = {p}
        BY DEF OneAtATime
      <4> QED BY <4>1, FS_Singleton
    <3> QED BY <3>1, <3>2
  <2> QED BY <2>1, <2>2, Counts, LimitsAssumption
          DEF IInv, OverLimitByHandlersInFlight, AtMostMaxGuardians
<1>2. SoloOK => OnePlacePerPerson
  BY DEF SoloOK
<1>3. IInv /\ SoloOK /\ [Next]_vars =>
        [\A i \in Ids : row[i].status = "removed" => row'[i].status = "removed"]_vars
  BY SoloStep
<1> QED BY <1>1, <1>2, <1>3, SoloInvariance, PTL DEF Spec, RemovalIsFinal
=============================================================================
