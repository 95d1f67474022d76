-------------------------- MODULE KeyRotationProofs --------------------------
(***************************************************************************)
(* The safety properties of KeyRotation, for any servers, keys, chains,    *)
(* number of wallets and batch size.                                       *)
(***************************************************************************)
EXTENDS KeyRotation, FiniteSetTheorems, TLAPS

(* Nobody is ahead of the secret, and a job runs, or has run to its verdict,
   only after every server has been given both keys. *)
PhaseOK ==
  /\ job.step # "none" => secret = During /\ ~safe
  /\ safe => secret # Before
  /\ secret = After => safe

ConfOK(s) ==
  /\ conf[s] \in {Before, During, After}
  /\ secret = Before => conf[s] = Before
  /\ secret = During => conf[s] # After
  /\ job.step # "none" \/ safe => conf[s] # Before

(* A row that no stale save has hit opens for its owner with the secret, and
   its tag tells its key; when the job has printed its verdict, the new one. *)
WalletOK(i) ==
  wallet[i].mode = "software" /\ i \notin undone =>
    /\ wallet[i].cipher.user = wallet[i].owner
    /\ wallet[i].cipher.key = wallet[i].keyId
    /\ wallet[i].keyId \in {secret.current} \cup secret.previous
    /\ safe => wallet[i].keyId = NextKey

(* What is encrypted now is for its owner, under the server's current key. *)
Encrypted(s, r) ==
  r.mode = "software" => r.cipher = [user |-> r.owner, key |-> conf[s].current]
                         /\ r.keyId = conf[s].current

(* The copies in flight: a wallet is created by one handler only, and moved by
   a server that could open it when it was read. *)
CopyOK(s, i) ==
  loc[s][i].mode # "none" =>
    /\ pc[s] = "creating" => /\ wallet[i].mode = "none"
                             /\ Encrypted(s, loc[s][i])
                             /\ \A t \in Servers \ {s} : loc[t][i].mode = "none"
    /\ pc[s] \in {"saving", "moving"} => wallet[i].mode = loc[s][i].mode
    /\ pc[s] = "moving" =>
         /\ loc[s][i].owner = NewUser
         /\ Encrypted(s, loc[s][i])
         /\ loc[s][i].mode = "software" /\ ~locked /\ conf[s] = Before /\ i \notin undone
              => wallet[i].cipher.key = FirstKey

IInv ==
  /\ RotTypeOK
  /\ PhaseOK
  /\ \A s \in Servers : ConfOK(s)
  /\ \A i \in Ids : WalletOK(i)
  /\ \A s \in Servers, i \in Ids : CopyOK(s, i)

-----------------------------------------------------------------------------
(* A batch has a last row. *)
LEMMA LastOfBatch ==
  ASSUME NEW batch \in SUBSET Ids, batch # {}
  PROVE  \E i \in batch : \A j \in batch : j <= i
<1> DEFINE R == OpToRel(<, Nat)
           T == {MaxWallets - i : i \in batch}
<1>1. IsWellFoundedOn(R, Nat)
  BY NatLessThanWellFounded
<1>2. T \subseteq Nat /\ T # {}
  <2>1. ASSUME NEW i \in batch PROVE MaxWallets - i \in Nat
    BY BoundsAssumption DEF Ids
  <2> QED BY <2>1
<1>3. \A x, y \in Nat : x < y => <<x, y>> \in R
  BY DEF OpToRel
<1> HIDE DEF R, T
<1>4. PICK x \in T : \A y \in T : ~(<<y, x>> \in R)
  BY <1>1, <1>2, WFMin
<1>5. \A y \in T : ~(y < x)
  BY <1>2, <1>3, <1>4
<1>6. PICK i \in batch : x = MaxWallets - i
  BY DEF T
<1>7. \A j \in batch : ~(MaxWallets - j < x)
  BY <1>5 DEF T
<1>8. ASSUME NEW j \in batch PROVE j <= i
  <2>1. i \in Nat /\ j \in Nat /\ MaxWallets \in Nat
    BY BoundsAssumption DEF Ids
  <2>2. ~(MaxWallets - j < MaxWallets - i)
    BY <1>6, <1>7
  <2> QED BY <2>1, <2>2
<1> QED BY <1>8

LEMMA Keyrings ==
  /\ FirstKey \in Keys /\ NextKey \in Keys /\ FirstKey # NextKey
  /\ \A c \in {Before, During, After} :
       /\ c \in Config /\ ValidConfig(c)
       /\ {c.current} \cup c.previous \subseteq {FirstKey, NextKey}
       /\ c.current = IF c = Before THEN FirstKey ELSE NextKey
  /\ Before # During /\ Before # After /\ During # After
<1>1. FirstKey \in Keys /\ NextKey \in Keys /\ FirstKey # NextKey
  BY KeysAssumption, NextKeyAssumption
<1>2. Before \in Config /\ During \in Config /\ After \in Config
  BY <1>1 DEF Before, During, After, Config
<1>3. /\ Before.current = FirstKey /\ Before.previous = {}
      /\ During.current = NextKey /\ During.previous = {FirstKey}
      /\ After.current = NextKey /\ After.previous = {}
  BY DEF Before, During, After
<1> QED BY <1>1, <1>2, <1>3 DEF ValidConfig

LEMMA Blank == NoRow \in Row /\ NoRow.mode = "none" /\ NoCopies \in [Ids -> Row]
               /\ \A i \in Ids : NoCopies[i] = NoRow
<1>1. (CHOOSE c \in Chains : TRUE) \in Chains
  BY ChainsAssumption
<1>2. [user |-> NewUser, key |-> FirstKey] \in Cipher
  BY KeysAssumption DEF Cipher, Users
<1>3. NoRow \in Row /\ NoRow.mode = "none"
  BY <1>1, <1>2, KeysAssumption DEF NoRow, Row, Users
<1> QED BY <1>3 DEF NoCopies

-----------------------------------------------------------------------------
(* What a server's step does to its place and its copies. *)
LEMMA Moves ==
  ASSUME TypeOK, NEW s \in Servers, NEW c \in [Ids -> Row],
         NEW step \in {"idle", "creating", "saving", "moving"}, Goto(s, step, c)
  PROVE  /\ pc' \in [Servers -> {"idle", "creating", "saving", "moving"}]
         /\ loc' \in [Servers -> [Ids -> Row]]
         /\ pc'[s] = step /\ loc'[s] = c
         /\ \A t \in Servers \ {s} : pc'[t] = pc[t] /\ loc'[t] = loc[t]
BY DEF TypeOK, Goto

(* A handler that ends drops its copies, which the invariant does not mind. *)
LEMMA Drops ==
  ASSUME TypeOK, NEW s \in Servers, Done(s)
  PROVE  /\ pc' \in [Servers -> {"idle", "creating", "saving", "moving"}]
         /\ loc' \in [Servers -> [Ids -> Row]]
         /\ pc'[s] = "idle" /\ \A i \in Ids : loc'[s][i].mode = "none"
         /\ \A t \in Servers \ {s} : pc'[t] = pc[t] /\ loc'[t] = loc[t]
BY Blank, Moves DEF Done

(* A handler reads: no row changes, and what it has read is all there is to show. *)
LEMMA ReadStep ==
  ASSUME IInv, UNCHANGED <<wallet, locked, undone, conf, rotation>>, token' \in SUBSET Ids,
         NEW s \in Servers, NEW c \in [Ids -> Row],
         NEW step \in {"idle", "creating", "saving", "moving"}, Goto(s, step, c),
         \A i \in Ids : CopyOK(s, i)',
         \A i \in Ids, t \in Servers \ {s} :
           c[i].mode # "none" /\ pc[t] = "creating" => loc[t][i].mode = "none"
  PROVE  IInv'
<1>1. /\ pc' \in [Servers -> {"idle", "creating", "saving", "moving"}]
      /\ loc' \in [Servers -> [Ids -> Row]]
      /\ pc'[s] = step /\ loc'[s] = c
      /\ \A t \in Servers \ {s} : pc'[t] = pc[t] /\ loc'[t] = loc[t]
  BY Moves DEF IInv, RotTypeOK
<1>2. UNCHANGED <<secret, job, safe, deaths>>
  BY DEF rotation
<1>3. RotTypeOK'
  BY <1>1, <1>2 DEF IInv, RotTypeOK, TypeOK
<1>4. PhaseOK' /\ (\A t \in Servers : ConfOK(t)') /\ (\A i \in Ids : WalletOK(i)')
  BY <1>2 DEF IInv, PhaseOK, ConfOK, WalletOK
<1>5. ASSUME NEW t \in Servers \ {s}, NEW i \in Ids PROVE CopyOK(t, i)'
  <2>1. CopyOK(t, i) /\ pc'[t] = pc[t] /\ loc'[t] = loc[t]
    BY <1>1 DEF IInv
  <2>2. pc[t] = "creating" /\ loc[t][i].mode # "none" => loc'[s][i].mode = "none"
    BY <1>1
  <2> QED BY <1>1, <2>1, <2>2 DEF CopyOK, Encrypted
<1> QED BY <1>3, <1>4, <1>5 DEF IInv

(* The rows change: what holds of the rows is to be shown, and that the other
   handlers' copies agree with them. *)
LEMMA RowsStep ==
  ASSUME IInv, UNCHANGED <<token, conf, rotation>>, NEW s \in Servers, Done(s),
         wallet' \in [Ids -> Row], undone' \in SUBSET Ids, undone \subseteq undone',
         locked' \in BOOLEAN, locked => locked',
         \A i \in Ids : WalletOK(i)',
         \A i \in Ids : \/ wallet'[i].mode = wallet[i].mode
                        \/ pc[s] = "creating" /\ loc[s][i].mode # "none",
         \A i \in Ids : ~locked' /\ i \notin undone' /\ wallet[i].mode # "none"
           => wallet'[i].cipher.key = wallet[i].cipher.key
  PROVE  IInv'
<1>1. /\ pc' \in [Servers -> {"idle", "creating", "saving", "moving"}]
      /\ loc' \in [Servers -> [Ids -> Row]]
      /\ pc'[s] = "idle" /\ \A i \in Ids : loc'[s][i].mode = "none"
      /\ \A t \in Servers \ {s} : pc'[t] = pc[t] /\ loc'[t] = loc[t]
  BY Drops DEF IInv, RotTypeOK
<1>2. UNCHANGED <<secret, job, safe, deaths>>
  BY DEF rotation
<1>3. RotTypeOK'
  BY <1>1, <1>2 DEF IInv, RotTypeOK, TypeOK
<1>4. PhaseOK' /\ (\A t \in Servers : ConfOK(t)')
  BY <1>2 DEF IInv, PhaseOK, ConfOK
<1>5. ASSUME NEW t \in Servers, NEW i \in Ids PROVE CopyOK(t, i)'
  <2>1. CASE t = s
    BY <1>1, <2>1 DEF CopyOK
  <2>2. CASE t # s /\ loc[t][i].mode # "none"
    <3>1. CopyOK(t, i) /\ pc'[t] = pc[t] /\ loc'[t] = loc[t]
      BY <1>1, <2>2 DEF IInv
    <3>2. wallet'[i].mode = wallet[i].mode
      <4>1. CASE pc[s] = "creating" /\ loc[s][i].mode # "none"
        BY <2>2, <4>1 DEF IInv, CopyOK
      <4> QED BY <4>1
    <3>3. \A r \in Servers \ {t} : pc[t] = "creating" => loc'[r][i].mode = "none"
      <4> SUFFICES ASSUME NEW r \in Servers \ {t}, pc[t] = "creating" PROVE loc'[r][i].mode = "none"
        OBVIOUS
      <4>1. loc[r][i].mode = "none"
        BY <2>2, <3>1 DEF CopyOK
      <4> QED BY <1>1, <4>1
    <3>4. ASSUME pc[t] = "moving", loc[t][i].mode = "software", ~locked', conf[t] = Before, i \notin undone'
          PROVE  wallet'[i].cipher.key = FirstKey
      BY <2>2, <3>1, <3>4 DEF CopyOK
    <3>5. Encrypted(t, loc[t][i]) => Encrypted(t, loc[t][i])'
      BY <3>1 DEF Encrypted
    <3> QED BY <3>1, <3>2, <3>3, <3>4, <3>5 DEF CopyOK
  <2>3. CASE t # s /\ loc[t][i].mode = "none"
    BY <1>1, <2>3 DEF CopyOK
  <2> QED BY <2>1, <2>2, <2>3
<1> QED BY <1>3, <1>4, <1>5 DEF IInv

-----------------------------------------------------------------------------
(* What a server encrypts opens with the secret, and with the new key alone
   once the job has printed its verdict. *)
LEMMA FreshKey ==
  ASSUME IInv, NEW s \in Servers
  PROVE  /\ conf[s].current \in {secret.current} \cup secret.previous
         /\ safe => conf[s].current = NextKey
         /\ conf[s].current \in Keys
<1>1. secret \in {Before, During, After} /\ conf[s] \in {Before, During, After}
  BY DEF IInv, RotTypeOK, ConfOK
<1>2. /\ secret = Before => conf[s] = Before
      /\ secret = After => conf[s] # Before
      /\ safe => conf[s] # Before
  BY DEF IInv, PhaseOK, ConfOK
<1>3. secret = During => {secret.current} \cup secret.previous = {FirstKey, NextKey}
  BY DEF During
<1> QED BY <1>1, <1>2, <1>3, Keyrings

(* A row and the copies of it, in the terms of the types. *)
LEMMA Types ==
  ASSUME IInv
  PROVE  /\ \A i \in Ids : wallet[i] \in Row
         /\ \A s \in Servers, i \in Ids : loc[s][i] \in Row
         /\ \A s \in Servers : loc[s] \in [Ids -> Row]
         /\ token \in SUBSET Ids /\ undone \in SUBSET Ids /\ locked \in BOOLEAN
         /\ wallet \in [Ids -> Row]
BY DEF IInv, RotTypeOK, TypeOK

LEMMA CreateStep ==
  ASSUME IInv, UNCHANGED rotation, NEW s \in Servers, NEW u \in Users, NEW ch \in Chains, NEW i \in Ids,
         Create(s, u, ch, i) \/ CreateHsm(s, u, ch, i)
  PROVE  IInv'
<1>1. PICK r \in Row :
        /\ r.mode # "none" /\ Encrypted(s, r)
        /\ Goto(s, "creating", [NoCopies EXCEPT ![i] = r])
  <2>1. CASE Create(s, u, ch, i)
    <3> DEFINE r == [mode |-> "software", owner |-> u, chain |-> ch, cipher |-> Encrypt(s, u),
                     keyId |-> conf[s].current, email |-> FALSE]
    <3>1. Encrypt(s, u) \in Cipher
      BY FreshKey DEF Encrypt, Cipher
    <3>2. r \in Row /\ r.mode = "software" /\ Encrypted(s, r)
      BY <3>1, FreshKey DEF Row, Encrypted, Encrypt
    <3>3. Goto(s, "creating", [NoCopies EXCEPT ![i] = r])
      BY <2>1 DEF Create
    <3> HIDE DEF r
    <3> QED BY <3>2, <3>3
  <2>2. CASE CreateHsm(s, u, ch, i)
    <3> DEFINE r == [NoRow EXCEPT !.mode = "hsm", !.owner = u, !.chain = ch]
    <3>1. r \in Row /\ r.mode = "hsm" /\ Encrypted(s, r)
      BY Blank DEF Row, Encrypted
    <3>2. Goto(s, "creating", [NoCopies EXCEPT ![i] = r])
      BY <2>2 DEF CreateHsm
    <3> HIDE DEF r
    <3> QED BY <3>1, <3>2
  <2> QED BY <2>1, <2>2
<1> DEFINE c == [NoCopies EXCEPT ![i] = r]
<1>2. c \in [Ids -> Row] /\ c[i] = r /\ \A j \in Ids \ {i} : c[j].mode = "none"
  BY Blank
<1>3. Goto(s, "creating", c)
  BY <1>1
<1>4. /\ UNCHANGED <<wallet, locked, undone, conf>> /\ token' \in SUBSET Ids
      /\ wallet[i].mode = "none" /\ \A t \in Servers : loc[t][i].mode = "none"
  BY Blank, Types DEF Create, CreateHsm, Fresh, Generates, Held
<1> HIDE DEF c
<1>5. /\ pc'[s] = "creating" /\ loc'[s] = c
      /\ \A t \in Servers \ {s} : pc'[t] = pc[t] /\ loc'[t] = loc[t]
  BY <1>2, <1>3, Moves DEF IInv, RotTypeOK
<1>6. ASSUME NEW j \in Ids PROVE CopyOK(s, j)'
  <2>1. CASE j = i
    BY <1>1, <1>2, <1>4, <1>5, <2>1 DEF CopyOK, Encrypted
  <2>2. CASE j # i
    BY <1>2, <1>5, <2>2 DEF CopyOK
  <2> QED BY <2>1, <2>2
<1> QED BY <1>2, <1>3, <1>4, <1>6, ReadStep

LEMMA EmailReadStep ==
  ASSUME IInv, UNCHANGED rotation, NEW s \in Servers, NEW u \in Users, NEW i \in Ids,
         SetEmailRead(s, u, i)
  PROVE  IInv'
<1> DEFINE r == [wallet[i] EXCEPT !.email = TRUE]
           c == [NoCopies EXCEPT ![i] = r]
<1>1. r \in Row /\ r.mode = wallet[i].mode
  BY Types DEF Row
<1>2. /\ wallet[i].mode # "none" /\ Goto(s, "saving", c)
      /\ UNCHANGED <<wallet, token, locked, undone, conf>>
  BY DEF SetEmailRead, Owned
<1> HIDE DEF r
<1>3. c \in [Ids -> Row] /\ c[i] = r /\ \A j \in Ids \ {i} : c[j].mode = "none"
  BY <1>1, Blank
<1> HIDE DEF c
<1>4. pc'[s] = "saving" /\ loc'[s] = c
  BY <1>2, <1>3, Moves DEF IInv, RotTypeOK
<1>5. ASSUME NEW j \in Ids PROVE CopyOK(s, j)'
  <2>1. CASE j = i
    BY <1>1, <1>2, <1>3, <1>4, <2>1 DEF CopyOK
  <2>2. CASE j # i
    BY <1>3, <1>4, <2>2 DEF CopyOK
  <2> QED BY <2>1, <2>2
<1>6. ASSUME NEW j \in Ids, NEW t \in Servers \ {s}, c[j].mode # "none", pc[t] = "creating"
      PROVE  loc[t][j].mode = "none"
  BY <1>2, <1>3, <1>6 DEF IInv, CopyOK
<1> QED BY <1>2, <1>3, <1>5, <1>6, Types, ReadStep

LEMMA RecoverReadStep ==
  ASSUME IInv, UNCHANGED rotation, NEW s \in Servers, RecoverRead(s)
  PROVE  IInv'
<1> DEFINE c == [i \in Ids |-> IF i \in Owned(OldUser) THEN Moved(s, wallet[i]) ELSE NoRow]
<1>1. /\ Goto(s, "moving", c) /\ UNCHANGED <<wallet, token, locked, undone, conf>>
      /\ \A i \in Owned(OldUser) : wallet[i].mode = "software" => Opens(conf[s], wallet[i].cipher, OldUser)
  BY DEF RecoverRead, Signs
<1>2. ASSUME NEW i \in Owned(OldUser)
      PROVE  /\ i \in Ids /\ wallet[i].mode # "none" /\ Moved(s, wallet[i]) \in Row
             /\ Moved(s, wallet[i]).mode = wallet[i].mode
             /\ Moved(s, wallet[i]).owner = NewUser /\ Encrypted(s, Moved(s, wallet[i]))
  <2>1. i \in Ids /\ wallet[i].mode # "none" /\ wallet[i] \in Row
    BY Types DEF Owned
  <2>2. Encrypt(s, NewUser) \in Cipher /\ NewUser \in Users
    BY FreshKey DEF Encrypt, Cipher, Users
  <2> QED BY <2>1, <2>2, FreshKey DEF Moved, Row, Encrypted, Encrypt
<1>3. /\ c \in [Ids -> Row]
      /\ \A i \in Ids : c[i].mode # "none" => i \in Owned(OldUser) /\ c[i] = Moved(s, wallet[i])
  BY <1>2, Blank
<1> HIDE DEF c
<1>4. pc'[s] = "moving" /\ loc'[s] = c
  BY <1>1, <1>3, Moves DEF IInv, RotTypeOK
<1>5. ASSUME NEW i \in Ids PROVE CopyOK(s, i)'
  <2> SUFFICES ASSUME c[i].mode # "none" PROVE CopyOK(s, i)'
    BY <1>4 DEF CopyOK
  <2>1. i \in Owned(OldUser) /\ c[i] = Moved(s, wallet[i])
    BY <1>3
  <2>2. c[i].mode = "software" /\ conf[s] = Before => wallet[i].cipher.key = FirstKey
    BY <1>1, <1>2, <2>1 DEF Opens, OpensUnder, Before
  <2> QED BY <1>1, <1>2, <1>4, <2>1, <2>2 DEF CopyOK, Encrypted
<1>6. ASSUME NEW i \in Ids, NEW t \in Servers \ {s}, c[i].mode # "none", pc[t] = "creating"
      PROVE  loc[t][i].mode = "none"
  BY <1>2, <1>3, <1>6 DEF IInv, CopyOK
<1> QED BY <1>1, <1>3, <1>5, <1>6, Types, ReadStep

-----------------------------------------------------------------------------
(* A row that a server has just encrypted. *)
LEMMA EncryptedOK ==
  ASSUME IInv, UNCHANGED rotation, NEW s \in Servers, NEW i \in Ids,
         Encrypted(s, loc[s][i]), wallet'[i] = loc[s][i]
  PROVE  WalletOK(i)'
<1>1. UNCHANGED <<secret, safe>>
  BY DEF rotation
<1> QED BY <1>1, FreshKey DEF WalletOK, Encrypted

(* The steps that end a handler.  Only a stale save moves a wallet back, or
   puts an older key's ciphertext over a newer one's. *)
LEMMA EndStep ==
  ASSUME IInv, UNCHANGED rotation, NEW s \in Servers,
         CreateSave(s) \/ SetEmailSave(s) \/ RecoverCommit(s) \/ Abort(s)
  PROVE  /\ IInv'
         /\ \A i \in Ids \ undone' : /\ wallet[i].mode # "none" /\ wallet[i].owner = NewUser
                                          => wallet'[i].owner = NewUser
                                     /\ wallet[i].mode = "software" /\ wallet[i].cipher.key = NextKey
                                          => wallet'[i].cipher.key = NextKey
<1>1. /\ Done(s) /\ UNCHANGED <<token, conf>>
      /\ locked' \in BOOLEAN /\ (locked => locked')
      /\ undone \subseteq undone' /\ undone' \in SUBSET Ids
  <2>1. locked \in BOOLEAN /\ undone \in SUBSET Ids
    BY Types
  <2>2. CASE CreateSave(s)
    BY <2>1, <2>2 DEF CreateSave
  <2>3. CASE SetEmailSave(s)
    <3>1. /\ Done(s) /\ UNCHANGED <<token, locked, conf>>
          /\ undone' = undone \cup {i \in Held(s) : loc[s][i] # [wallet[i] EXCEPT !.email = TRUE]}
      BY <2>3 DEF SetEmailSave
    <3>2. Held(s) \subseteq Ids
      BY DEF Held
    <3> QED BY <2>1, <3>1, <3>2
  <2>4. CASE RecoverCommit(s)
    BY <2>1, <2>4 DEF RecoverCommit
  <2>5. CASE Abort(s)
    BY <2>1, <2>5 DEF Abort
  <2> QED BY <2>2, <2>3, <2>4, <2>5
<1>2. UNCHANGED <<secret, safe>>
  BY DEF rotation
<1>3. CASE Abort(s)
  <2>1. UNCHANGED <<wallet, locked, undone>>
    BY <1>3 DEF Abort
  <2>2. \A i \in Ids : WalletOK(i)'
    BY <1>2, <2>1 DEF IInv, WalletOK
  <2> QED BY <1>1, <2>1, <2>2, Types, RowsStep
<1>4. CASE CreateSave(s) \/ SetEmailSave(s) \/ RecoverCommit(s)
  <2>1. SaveCopies(s)
    BY <1>4 DEF CreateSave, SetEmailSave, RecoverCommit
  <2>2. \A i \in Ids : wallet'[i] = IF loc[s][i].mode # "none" THEN loc[s][i] ELSE wallet[i]
    BY <2>1 DEF SaveCopies, Held
  <2>3. wallet' \in [Ids -> Row]
    BY <2>1, Types DEF SaveCopies
  <2>4. CASE CreateSave(s)
    <3>1. pc[s] = "creating" /\ UNCHANGED <<locked, undone>>
      BY <2>4 DEF CreateSave
    <3>2. ASSUME NEW i \in Ids
          PROVE  WalletOK(i)' /\ (wallet[i].mode # "none" => wallet'[i] = wallet[i])
                 /\ (wallet'[i].mode = wallet[i].mode \/ loc[s][i].mode # "none")
      <4>1. CASE loc[s][i].mode # "none"
        <5>1. wallet[i].mode = "none" /\ Encrypted(s, loc[s][i])
          BY <3>1, <4>1 DEF IInv, CopyOK
        <5> QED BY <2>2, <4>1, <5>1, EncryptedOK
      <4>2. CASE loc[s][i].mode = "none"
        BY <1>2, <2>2, <3>1, <4>2 DEF IInv, WalletOK
      <4> QED BY <4>1, <4>2
    <3>3. IInv'
      BY <1>1, <2>3, <3>1, <3>2, Types, RowsStep
    <3> QED BY <3>2, <3>3
  <2>5. CASE SetEmailSave(s)
    <3>1. /\ pc[s] = "saving" /\ UNCHANGED locked
          /\ undone' = undone \cup {i \in Held(s) : loc[s][i] # [wallet[i] EXCEPT !.email = TRUE]}
      BY <2>5 DEF SetEmailSave
    <3>2. ASSUME NEW i \in Ids
          PROVE  /\ wallet'[i].mode = wallet[i].mode
                 /\ i \notin undone' => /\ wallet'[i].owner = wallet[i].owner
                                        /\ wallet'[i].cipher = wallet[i].cipher
                                        /\ wallet'[i].keyId = wallet[i].keyId
      <4>1. CASE loc[s][i].mode # "none"
        <5>1. wallet'[i].mode = wallet[i].mode /\ wallet'[i] = loc[s][i] /\ wallet[i] \in Row
          BY <2>2, <3>1, <4>1, Types DEF IInv, CopyOK
        <5>2. i \notin undone' => loc[s][i] = [wallet[i] EXCEPT !.email = TRUE]
          BY <3>1, <4>1 DEF Held
        <5> QED BY <5>1, <5>2 DEF Row
      <4>2. CASE loc[s][i].mode = "none"
        BY <2>2, <4>2
      <4> QED BY <4>1, <4>2
    <3>3. \A i \in Ids : WalletOK(i)'
      BY <1>1, <1>2, <3>2 DEF IInv, WalletOK
    <3>4. IInv'
      BY <1>1, <2>3, <3>1, <3>2, <3>3, Types, RowsStep
    <3> QED BY <3>2, <3>4
  <2>6. CASE RecoverCommit(s)
    <3>1. pc[s] = "moving" /\ locked' = TRUE /\ ~locked /\ UNCHANGED undone
      BY <2>6 DEF RecoverCommit
    <3>2. ASSUME NEW i \in Ids
          PROVE  /\ WalletOK(i)' /\ wallet'[i].mode = wallet[i].mode
                 /\ wallet[i].owner = NewUser => wallet'[i].owner = NewUser
                 /\ wallet[i].mode = "software" /\ i \notin undone /\ wallet[i].cipher.key = NextKey
                      => wallet'[i].cipher.key = NextKey
      <4>1. CASE loc[s][i].mode # "none"
        <5>1. /\ loc[s][i].mode = wallet[i].mode /\ loc[s][i].owner = NewUser
              /\ Encrypted(s, loc[s][i])
              /\ loc[s][i].mode = "software" /\ conf[s] = Before /\ i \notin undone
                   => wallet[i].cipher.key = FirstKey
          BY <3>1, <4>1 DEF IInv, CopyOK
        <5>2. conf[s] # Before => conf[s].current = NextKey
          BY Keyrings DEF IInv, ConfOK
        <5>3. FirstKey # NextKey
          BY Keyrings
        <5>4. WalletOK(i)'
          BY <2>2, <4>1, <5>1, EncryptedOK
        <5>5. wallet'[i] = loc[s][i]
          BY <2>2, <4>1
        <5> QED BY <5>1, <5>2, <5>3, <5>4, <5>5 DEF Encrypted
      <4>2. CASE loc[s][i].mode = "none"
        BY <1>2, <2>2, <3>1, <4>2 DEF IInv, WalletOK
      <4> QED BY <4>1, <4>2
    <3>3. IInv'
      BY <1>1, <2>3, <3>1, <3>2, Types, RowsStep
    <3> QED BY <3>1, <3>2, <3>3
  <2> QED BY <1>4, <2>4, <2>5, <2>6
<1> QED BY <1>3, <1>4

-----------------------------------------------------------------------------
JobRec == [step : {"none", "scan", "rotate", "count"}, last : Ids \cup {0},
           batch : [Ids -> Row], failed : BOOLEAN]

LEMMA Jobs ==
  /\ NoJob \in JobRec /\ NoJob.step = "none"
  /\ [NoJob EXCEPT !.step = "scan"] \in JobRec
BY Blank DEF NoJob, JobRec

(* The job works on copies: only the update of a row, and the verdict, count. *)
LEMMA JobQuietStep ==
  ASSUME IInv, UNCHANGED <<wallet, token, locked, undone, conf, pc, loc, secret, safe>>,
         job' \in JobRec, deaths' \in 0 .. MaxDeaths,
         job'.step # "none" => /\ secret = During /\ ~safe
                               /\ \A s \in Servers : conf[s] # Before
  PROVE  IInv'
<1>1. RotTypeOK'
  BY DEF IInv, RotTypeOK, TypeOK, JobRec
<1>2. PhaseOK' /\ (\A s \in Servers : ConfOK(s)')
  BY DEF IInv, PhaseOK, ConfOK
<1>3. (\A i \in Ids : WalletOK(i)') /\ (\A s \in Servers, i \in Ids : CopyOK(s, i)')
  BY DEF IInv, WalletOK, CopyOK, Encrypted
<1> QED BY <1>1, <1>2, <1>3 DEF IInv

LEMMA Running ==
  ASSUME IInv, job.step # "none"
  PROVE  /\ secret = During /\ ~safe
         /\ \A s \in Servers : conf[s] # Before
BY DEF IInv, PhaseOK, ConfOK

LEMMA NextInBatchOK ==
  ASSUME IInv, NEW i \in Ids, NEW failed \in BOOLEAN, NextInBatch(i, failed)
  PROVE  job' \in JobRec /\ job'.step # "none"
<1>1. job \in JobRec
  BY DEF IInv, RotTypeOK, JobRec
<1>2. [job.batch EXCEPT ![i] = NoRow] \in [Ids -> Row]
  BY <1>1, Blank DEF JobRec
<1> QED BY <1>1, <1>2 DEF NextInBatch, JobRec

LEMMA JobScanOK ==
  ASSUME IInv, JobScan
  PROVE  job' \in JobRec
<1> DEFINE rest  == {i \in ToRotate : i > job.last}
           batch == {i \in rest : Cardinality({j \in rest : j < i}) < BatchSize}
           last  == CHOOSE i \in batch : \A j \in batch : j <= i
           rows  == [i \in Ids |-> IF i \in batch THEN wallet[i] ELSE NoRow]
<1>1. job' = IF batch = {} THEN [job EXCEPT !.step = "count"]
             ELSE [job EXCEPT !.step = "rotate", !.last = last, !.batch = rows]
  BY DEF JobScan
<1>2. batch \in SUBSET Ids
  BY DEF ToRotate
<1> HIDE DEF batch
<1>3. batch # {} => last \in Ids
  BY <1>2, LastOfBatch
<1>4. rows \in [Ids -> Row]
  BY Blank, Types
<1>5. job \in JobRec
  BY DEF IInv, RotTypeOK, JobRec
<1> HIDE DEF last, rows
<1> QED BY <1>1, <1>3, <1>4, <1>5 DEF JobRec

LEMMA JobStep1 ==
  ASSUME IInv, \/ JobStart \/ JobScan \/ JobDies \/ \E i \in Ids : RotateFails(i)
  PROVE  IInv'
<1>0. UNCHANGED <<wallet, token, locked, undone, conf, pc, loc, secret, safe>>
  BY DEF JobStart, JobScan, JobDies, RotateFails, vars
<1>1. deaths \in 0 .. MaxDeaths
  BY DEF IInv, RotTypeOK
<1>2. CASE JobStart
  <2>1. /\ job' = [NoJob EXCEPT !.step = "scan"] /\ deaths' = deaths
        /\ secret = During /\ ~safe /\ \A s \in Servers : conf[s] = During
    BY <1>2 DEF JobStart
  <2> QED BY <1>0, <1>1, <2>1, Jobs, Keyrings, JobQuietStep
<1>3. CASE JobScan
  <2>1. job.step = "scan" /\ deaths' = deaths
    BY <1>3 DEF JobScan
  <2> QED BY <1>0, <1>1, <1>3, <2>1, JobScanOK, Running, JobQuietStep
<1>4. CASE JobDies
  <2>1. job' = NoJob /\ deaths' \in 0 .. MaxDeaths
    BY <1>1, <1>4, BatchAssumption DEF JobDies
  <2> QED BY <1>0, <2>1, Jobs, JobQuietStep
<1>5. ASSUME NEW i \in Ids, RotateFails(i) PROVE IInv'
  <2>1. job.step = "rotate" /\ NextInBatch(i, TRUE) /\ deaths' = deaths
    BY <1>5 DEF RotateFails
  <2> QED BY <1>0, <1>1, <2>1, NextInBatchOK, Running, JobQuietStep
<1> QED BY <1>2, <1>3, <1>4, <1>5

(* UPDATE ... WHERE "encryptedPrivateKey" = :old: the row is still the one that
   was decrypted for its owner. *)
LEMMA RotateStep ==
  ASSUME IInv, NEW i \in Ids, Rotate(i)
  PROVE  /\ IInv'
         /\ \A j \in Ids : wallet'[j].owner = wallet[j].owner
                           /\ wallet'[j].cipher.key \in {wallet[j].cipher.key, NextKey}
<1> DEFINE r == [wallet[i] EXCEPT !.cipher = [user |-> job.batch[i].owner, key |-> NextKey],
                                  !.keyId  = NextKey]
<1>1. /\ job.step = "rotate" /\ CanRotate(i) /\ wallet[i].cipher = job.batch[i].cipher
      /\ NextInBatch(i, FALSE)
      /\ UNCHANGED <<token, locked, undone, conf, pc, loc, secret, safe, deaths>>
  BY DEF Rotate
<1>2. wallet' = [wallet EXCEPT ![i] = r]
  BY Types DEF Rotate, Row
<1>3. /\ secret = During /\ ~safe /\ (\A s \in Servers : conf[s] # Before)
      /\ job' \in JobRec /\ job'.step # "none"
  BY <1>1, Running, NextInBatchOK
<1>4. job.batch[i] \in Row /\ wallet[i] \in Row
  BY Types DEF IInv, RotTypeOK
<1>5. /\ r \in Row /\ r.mode = wallet[i].mode /\ r.owner = wallet[i].owner
      /\ r.cipher.key = NextKey /\ r.cipher.user = job.batch[i].owner /\ r.keyId = NextKey
  <2>1. [user |-> job.batch[i].owner, key |-> NextKey] \in Cipher
    BY <1>4, Keyrings DEF Row, Cipher
  <2> QED BY <1>4, <2>1, Keyrings DEF Row
<1>6. wallet[i].cipher.user = job.batch[i].owner
  BY <1>1 DEF CanRotate, Opens, OpensUnder
<1> HIDE DEF r
<1>7. wallet'[i] = r /\ \A j \in Ids \ {i} : wallet'[j] = wallet[j]
  BY <1>2, Types
<1>8. RotTypeOK'
  <2>1. wallet' \in [Ids -> Row]
    BY <1>2, <1>5, Types
  <2> QED BY <1>1, <1>3, <2>1 DEF IInv, RotTypeOK, TypeOK, JobRec
<1>9. PhaseOK' /\ (\A s \in Servers : ConfOK(s)')
  BY <1>1, <1>3 DEF IInv, PhaseOK, ConfOK
<1>10. ASSUME NEW j \in Ids PROVE WalletOK(j)'
  <2>1. WalletOK(j)
    BY DEF IInv
  <2>2. CASE j = i
    BY <1>1, <1>3, <1>5, <1>6, <1>7, <2>1, <2>2 DEF WalletOK, During
  <2>3. CASE j # i
    BY <1>1, <1>7, <2>1, <2>3 DEF WalletOK
  <2> QED BY <2>2, <2>3
<1>11. ASSUME NEW s \in Servers, NEW j \in Ids PROVE CopyOK(s, j)'
  <2>1. CopyOK(s, j) /\ wallet'[j].mode = wallet[j].mode /\ conf[s] # Before
    BY <1>3, <1>5, <1>7 DEF IInv
  <2> QED BY <1>1, <2>1 DEF CopyOK, Encrypted
<1> QED BY <1>5, <1>7, <1>8, <1>9, <1>10, <1>11 DEF IInv

(* SAFE_TO_RETIRE_PREVIOUS_KEYS: every tag is the new key, and tells the truth. *)
LEMMA JobEndStep ==
  ASSUME IInv, JobEnd
  PROVE  IInv'
<1>1. /\ job.step = "count" /\ job' = NoJob /\ safe' \in BOOLEAN
      /\ safe' => ToRotate = {}
      /\ UNCHANGED <<wallet, token, locked, undone, conf, pc, loc, secret, deaths>>
  BY DEF JobEnd, vars
<1>2. secret = During /\ (\A s \in Servers : conf[s] # Before)
  BY <1>1, Running
<1>3. RotTypeOK'
  BY <1>1, Jobs DEF IInv, RotTypeOK, TypeOK, JobRec
<1>4. PhaseOK' /\ (\A s \in Servers : ConfOK(s)')
  BY <1>1, <1>2, Jobs, Keyrings DEF IInv, PhaseOK, ConfOK
<1>5. \A i \in Ids : WalletOK(i)'
  BY <1>1 DEF IInv, WalletOK, ToRotate
<1>6. \A s \in Servers, i \in Ids : CopyOK(s, i)'
  BY <1>1 DEF IInv, CopyOK, Encrypted
<1> QED BY <1>3, <1>4, <1>5, <1>6 DEF IInv

-----------------------------------------------------------------------------
(* The operator publishes both keys, and the new one alone after the verdict. *)
LEMMA PublishStep ==
  ASSUME IInv, PublishBoth \/ PublishNew
  PROVE  IInv'
<1>1. UNCHANGED <<wallet, token, locked, undone, conf, pc, loc, job, safe, deaths>>
  BY DEF PublishBoth, PublishNew, vars
<1>2. \/ secret = Before /\ secret' = During
      \/ secret = During /\ safe /\ secret' = After
  BY DEF PublishBoth, PublishNew
<1>3. RotTypeOK'
  BY <1>1, <1>2 DEF IInv, RotTypeOK, TypeOK
<1>4. PhaseOK' /\ (\A s \in Servers : ConfOK(s)')
  BY <1>1, <1>2, Keyrings DEF IInv, PhaseOK, ConfOK
<1>5. \A i \in Ids : WalletOK(i)'
  <2>1. CASE secret = Before /\ secret' = During
    BY <1>1, <2>1 DEF IInv, WalletOK, Before, During
  <2>2. CASE safe /\ secret' = After
    BY <1>1, <2>2 DEF IInv, WalletOK, After
  <2> QED BY <1>2, <2>1, <2>2
<1>6. \A s \in Servers, i \in Ids : CopyOK(s, i)'
  BY <1>1 DEF IInv, CopyOK, Encrypted
<1> QED BY <1>3, <1>4, <1>5, <1>6 DEF IInv

(* A server starts with what is in the secret and without copies. *)
LEMMA RestartStep ==
  ASSUME IInv, NEW s \in Servers, Restart(s)
  PROVE  IInv'
<1>1. /\ conf' = [conf EXCEPT ![s] = secret] /\ Done(s)
      /\ UNCHANGED <<wallet, token, locked, undone, secret, job, safe, deaths>>
  BY DEF Restart, rotation
<1>2. /\ pc' \in [Servers -> {"idle", "creating", "saving", "moving"}]
      /\ loc' \in [Servers -> [Ids -> Row]]
      /\ pc'[s] = "idle" /\ \A i \in Ids : loc'[s][i].mode = "none"
      /\ \A t \in Servers \ {s} : pc'[t] = pc[t] /\ loc'[t] = loc[t]
  BY <1>1, Drops DEF IInv, RotTypeOK
<1>3. secret \in {Before, During, After} /\ conf \in [Servers -> Config]
      /\ \A t \in Servers : ValidConfig(conf[t])
  BY DEF IInv, RotTypeOK, TypeOK
<1>4. conf'[s] = secret /\ \A t \in Servers \ {s} : conf'[t] = conf[t]
  BY <1>1, <1>3
<1>5. RotTypeOK'
  <2>1. conf' \in [Servers -> Config] /\ \A t \in Servers : ValidConfig(conf'[t])
    BY <1>1, <1>3, <1>4, Keyrings
  <2>2. (\A t \in Servers : ValidConfig(conf[t]))' <=> \A t \in Servers : ValidConfig(conf'[t])
    OBVIOUS
  <2> QED BY <1>1, <1>2, <2>1 DEF IInv, RotTypeOK, TypeOK
<1>6. PhaseOK' /\ (\A i \in Ids : WalletOK(i)')
  BY <1>1 DEF IInv, PhaseOK, WalletOK
<1>7. ASSUME NEW t \in Servers PROVE ConfOK(t)'
  <2>1. CASE t = s
    BY <1>1, <1>3, <1>4, <2>1, Keyrings DEF IInv, PhaseOK, ConfOK
  <2>2. CASE t # s
    BY <1>1, <1>4, <2>2 DEF IInv, ConfOK
  <2> QED BY <2>1, <2>2
<1>8. ASSUME NEW t \in Servers, NEW i \in Ids PROVE CopyOK(t, i)'
  <2>1. CASE t = s
    BY <1>2, <2>1 DEF CopyOK
  <2>2. CASE t # s
    <3>1. CopyOK(t, i) /\ pc'[t] = pc[t] /\ loc'[t] = loc[t] /\ conf'[t] = conf[t]
      BY <1>2, <1>4, <2>2 DEF IInv
    <3>2. \A r \in Servers \ {t} : loc[r][i].mode = "none" => loc'[r][i].mode = "none"
      BY <1>2
    <3> QED BY <1>1, <3>1, <3>2 DEF CopyOK, Encrypted
  <2> QED BY <2>1, <2>2
<1> QED BY <1>5, <1>6, <1>7, <1>8 DEF IInv

-----------------------------------------------------------------------------
LEMMA InitIInv == RotInit => IInv
<1> SUFFICES ASSUME RotInit PROVE IInv
  OBVIOUS
<1>1. /\ wallet = NoCopies /\ token = {} /\ locked = FALSE /\ undone = {}
      /\ conf = [s \in Servers |-> Before] /\ pc = [s \in Servers |-> "idle"]
      /\ loc = [s \in Servers |-> NoCopies]
      /\ secret = Before /\ job = NoJob /\ safe = FALSE /\ deaths = 0
  BY DEF RotInit, Init, Before
<1>2. RotTypeOK
  <2>1. 0 \in 0 .. MaxDeaths
    BY BatchAssumption
  <2> QED BY <1>1, <2>1, Blank, Jobs, Keyrings DEF RotTypeOK, TypeOK, JobRec
<1> QED BY <1>1, <1>2, Blank, Jobs, Keyrings DEF IInv, PhaseOK, ConfOK, WalletOK, CopyOK

(* Every step keeps the invariant; a wallet is moved back, or its new key's
   ciphertext lost, by a stale save alone. *)
LEMMA NextIInv ==
  ASSUME IInv, [RotNext]_allVars
  PROVE  /\ IInv'
         /\ \A i \in Ids \ undone' : /\ wallet[i].mode # "none" /\ wallet[i].owner = NewUser
                                          => wallet'[i].owner = NewUser
                                     /\ wallet[i].mode = "software" /\ wallet[i].cipher.key = NextKey
                                          => wallet'[i].cipher.key = NextKey
<1>1. ASSUME NEW s \in Servers, UNCHANGED rotation,
             \/ \E u \in Users, i \in Ids : \/ \E ch \in Chains : Create(s, u, ch, i) \/ CreateHsm(s, u, ch, i)
                                            \/ SetEmailRead(s, u, i)
             \/ RecoverRead(s)
      PROVE  IInv' /\ wallet' = wallet
  <2>1. wallet' = wallet
    BY <1>1 DEF Create, CreateHsm, SetEmailRead, RecoverRead
  <2> QED BY <1>1, <2>1, CreateStep, EmailReadStep, RecoverReadStep
<1>2. ASSUME NEW s \in Servers, Restart(s) PROVE IInv' /\ wallet' = wallet
  BY <1>2, RestartStep DEF Restart
<1>3. CASE PublishBoth \/ PublishNew \/ JobStart \/ JobScan \/ JobEnd \/ JobDies
           \/ \E i \in Ids : RotateFails(i)
  <2>1. wallet' = wallet
    BY <1>3 DEF PublishBoth, PublishNew, JobStart, JobScan, JobEnd, JobDies, RotateFails, vars
  <2> QED BY <1>3, <2>1, PublishStep, JobStep1, JobEndStep
<1>4. CASE UNCHANGED allVars
  BY <1>4 DEF allVars, vars, rotation, IInv, RotTypeOK, TypeOK, PhaseOK, ConfOK, WalletOK, CopyOK, Encrypted
<1>5. ASSUME NEW i \in Ids, Rotate(i)
      PROVE  IInv' /\ \A j \in Ids : /\ wallet'[j].owner = wallet[j].owner
                                     /\ wallet'[j].cipher.key \in {wallet[j].cipher.key, NextKey}
  BY <1>5, RotateStep
<1>6. ASSUME NEW s \in Servers, Handle(s), UNCHANGED rotation
      PROVE  IInv' /\ (wallet' = wallet \/ CreateSave(s) \/ SetEmailSave(s) \/ RecoverCommit(s))
  BY <1>1, <1>6, EndStep DEF Handle, Abort
<1> QED BY <1>2, <1>3, <1>4, <1>5, <1>6, EndStep DEF RotNext, JobStep

LEMMA Invariance == RotSpec => []IInv
<1>1. IInv /\ [RotNext]_allVars => IInv'
  BY NextIInv
<1> QED BY <1>1, InitIInv, PTL DEF RotSpec

-----------------------------------------------------------------------------
(* Every variable of the servers, of the secret and of the job keeps its type. *)
THEOREM RotationTypeCorrect == RotSpec => []RotTypeOK
<1>1. IInv => RotTypeOK
  BY DEF IInv
<1> QED BY <1>1, Invariance, PTL

(* Through creations, recoveries, restarts, failing and dying jobs, a wallet's
   key opens for its owner with the master keys in the secret, unless a stale
   save of its recovery email has hit its row (rotateWallets, complete,
   createWallet, setRecoveryEmail). *)
THEOREM LostByStaleSaveOnly == RotSpec => []OnlyStaleSaveLoses
<1>1. IInv => OnlyStaleSaveLoses
  BY DEF IInv, WalletOK, OnlyStaleSaveLoses, Opens, OpensUnder
<1> QED BY <1>1, Invariance, PTL

(* No server puts a row back under the old key that the job has moved to the
   new one, but by a stale save (createWallet, complete, rotateWallets). *)
THEOREM RotatedForGood == RotSpec => RotatedStaysRotated
<1>1. IInv /\ [RotNext]_allVars =>
        [\A i \in Ids : wallet[i].mode = "software" /\ wallet[i].cipher.key = NextKey
           => wallet'[i].cipher.key = NextKey \/ i \in undone']_allVars
  BY NextIInv
<1> QED BY <1>1, Invariance, PTL DEF RotSpec, RotatedStaysRotated

(* A wallet that a recovery has moved to the new account goes back by a stale
   save alone, while keys rotate too (complete, setRecoveryEmail). *)
THEOREM MovedForGood == RotSpec => OnlyStaleSaveUndoesMove
<1>1. IInv /\ [RotNext]_allVars =>
        [\A i \in Existing : wallet[i].owner = NewUser => wallet'[i].owner = NewUser \/ i \in undone']_vars
  BY NextIInv DEF Existing
<1> QED BY <1>1, Invariance, PTL DEF RotSpec, OnlyStaleSaveUndoesMove

-----------------------------------------------------------------------------
(* Nothing but setRecoveryEmail writes a row it has not just checked. *)
NoStaleSave == undone = {} /\ \A s \in Servers : pc[s] # "saving"

LEMMA NoEmailStep ==
  ASSUME "email" \notin Ops, IInv, NoStaleSave, [RotNext]_allVars
  PROVE  NoStaleSave'
<1>1. ASSUME NEW s \in Servers, NEW step, step # "saving", NEW c, Goto(s, step, c), UNCHANGED undone
      PROVE  NoStaleSave'
  BY <1>1, Types DEF NoStaleSave, Goto
<1>2. ASSUME NEW s \in Servers, Handle(s) PROVE NoStaleSave'
  <2>1. CASE \E u \in Users, i \in Ids, ch \in Chains : Create(s, u, ch, i) \/ CreateHsm(s, u, ch, i)
    BY <1>1, <2>1 DEF Create, CreateHsm
  <2>2. CASE CreateSave(s) \/ RecoverRead(s) \/ RecoverCommit(s) \/ Abort(s)
    BY <1>1, <2>2 DEF CreateSave, RecoverRead, RecoverCommit, Abort, Done
  <2>3. ~SetEmailSave(s) /\ \A u \in Users, i \in Ids : ~SetEmailRead(s, u, i)
    BY DEF NoStaleSave, SetEmailSave, SetEmailRead, MayCall
  <2> QED BY <1>2, <2>1, <2>2, <2>3 DEF Handle
<1>3. ASSUME NEW s \in Servers, Restart(s) PROVE NoStaleSave'
  BY <1>1, <1>3 DEF Restart, Done
<1>4. CASE UNCHANGED <<undone, pc>>
  BY <1>4 DEF NoStaleSave
<1>5. \/ \E s \in Servers : Restart(s) \/ Handle(s)
      \/ UNCHANGED <<undone, pc>>
  BY DEF RotNext, PublishBoth, PublishNew, JobStart, JobStep, JobScan, JobEnd, Rotate, RotateFails,
         JobDies, allVars, vars
<1> QED BY <1>2, <1>3, <1>4, <1>5

(* "Rows still under a retired key are permanently undecryptable" (runbook):
   while nobody sets a recovery email there are none, and a moved wallet stays
   moved, whatever creations, recoveries, restarts and dying jobs run; so
   setRecoveryEmail alone is to blame for the counterexamples. *)
THEOREM NothingLostWithoutEmails ==
  ASSUME "email" \notin Ops
  PROVE  RotSpec => []NothingLost /\ MoveIsFinal
<1>1. RotInit => NoStaleSave
  BY DEF RotInit, Init, NoStaleSave
<1>2. IInv /\ NoStaleSave /\ [RotNext]_allVars => NoStaleSave'
  BY NoEmailStep
<1>3. IInv /\ NoStaleSave => NothingLost
  BY DEF IInv, WalletOK, NoStaleSave, NothingLost, Opens, OpensUnder
<1>4. IInv /\ NoStaleSave /\ NoStaleSave' /\ [RotNext]_allVars =>
        [\A i \in Existing : wallet[i].owner = NewUser => wallet'[i].owner = NewUser]_vars
  <2> SUFFICES ASSUME IInv, NoStaleSave', [RotNext]_allVars,
                      NEW i \in Existing, wallet[i].owner = NewUser
               PROVE  wallet'[i].owner = NewUser
    OBVIOUS
  <2> QED BY NextIInv DEF Existing, NoStaleSave
<1> QED BY <1>1, <1>2, <1>3, <1>4, Invariance, PTL DEF RotSpec, MoveIsFinal
=============================================================================
