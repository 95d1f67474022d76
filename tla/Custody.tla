------------------------------ MODULE Custody ------------------------------
(***************************************************************************)
(* Custodial wallets: creation, the recovery email, signing, and the move  *)
(* of an account's wallets by a recovery (wallet.service.ts,               *)
(* encryption.service.ts, RecoveryService.complete).                       *)
(*                                                                         *)
(* A private key is stored encrypted under a key derived from the owner    *)
(* and a master key, or kept on an HSM.  A server encrypts under the       *)
(* current master key of the configuration it started with and decrypts    *)
(* under any key of it.  A handler reads rows, works on the copies and     *)
(* saves them; save() writes every column that differs from the copy.      *)
(***************************************************************************)
EXTENDS Naturals, FiniteSets

CONSTANTS
  Servers,    \* replicas; each has at most one handler in flight
  OldUser,    \* an account that a recovery moves ...
  NewUser,    \* ... to this one
  Chains,     \* bound: the chains asked for, a subset of those CreateWalletDto accepts
  Keys,       \* master keys
  FirstKey,   \* the one every server starts with
  MaxWallets, \* bound: rows of the table wallets
  Ops         \* bound: the handlers that are called, a subset of AllOps

AllOps      == {"create", "hsm", "email", "recover"}
EvmChains   == {"ethereum", "polygon"}                                 \* createHsmWallet
KeyChains   == EvmChains \cup {"solana"}                               \* createWallet
ProofChains == KeyChains \cup {"arbitrum", "optimism", "base"}         \* assertKeyMatchesAddress

ASSUME ChainsAssumption == Chains # {} /\ Chains \subseteq {"ethereum", "solana", "polygon", "arbitrum"}
ASSUME UsersAssumption  == OldUser # NewUser
ASSUME KeysAssumption   == FirstKey \in Keys
ASSUME BoundsAssumption == MaxWallets \in Nat /\ Ops \subseteq AllOps

VARIABLES
  wallet,   \* wallets, by id
  token,    \* the ids whose HSM key was generated on the PKCS#11 token
  locked,   \* the old account was recovered: lockedAt, sessionsValidAfter
  undone,   \* history: the ids in which a save put back columns changed since its read
  conf,     \* the master keys each server runs with
  pc, loc   \* per server, where its handler is and the copies it holds

vars == <<wallet, token, locked, undone, conf, pc, loc>>

Users  == {OldUser, NewUser}
Ids    == 1..MaxWallets
Config == [current : Keys, previous : SUBSET Keys]

(* EncryptionService's constructor: no previous key equals the current one. *)
ValidConfig(c) == c.current \notin c.previous

(* A ciphertext opens only under the master key and the user it was made for. *)
Cipher == [user : Users, key : Keys]
Row    == [mode   : {"none", "software", "hsm"},
           owner  : Users,
           chain  : Chains,
           cipher : Cipher,
           keyId  : Keys,
           email  : BOOLEAN]

NoRow == [mode |-> "none", owner |-> NewUser, chain |-> CHOOSE c \in Chains : TRUE,
          cipher |-> [user |-> NewUser, key |-> FirstKey], keyId |-> FirstKey, email |-> FALSE]
NoCopies == [i \in Ids |-> NoRow]

TypeOK ==
  /\ wallet \in [Ids -> Row]
  /\ token \in SUBSET Ids
  /\ locked \in BOOLEAN
  /\ undone \in SUBSET Ids
  /\ conf \in [Servers -> Config] /\ \A s \in Servers : ValidConfig(conf[s])
  /\ pc \in [Servers -> {"idle", "creating", "saving", "moving"}]
  /\ loc \in [Servers -> [Ids -> Row]]

Init ==
  /\ wallet = NoCopies
  /\ token = {}
  /\ locked = FALSE
  /\ undone = {}
  /\ conf = [s \in Servers |-> [current |-> FirstKey, previous |-> {}]]
  /\ pc = [s \in Servers |-> "idle"]
  /\ loc = [s \in Servers |-> NoCopies]

-----------------------------------------------------------------------------
(* Definitions marked "Bug" are never used by the specification: each is the
   definition that follows it with a mistake, which some property must catch. *)

(* encrypt: under the server's current key and the user's derivation. *)
Encrypt(s, u) == [user |-> u, key |-> conf[s].current]

(* decryptWith: the authentication tag fails for any other key or user. *)
OpensUnder(k, cipher, u) == cipher.key = k /\ cipher.user = u

(* decryptWithKeyId tries the current key, then the previous ones. *)
Opens(c, cipher, u) == \E k \in {c.current} \cup c.previous : OpensUnder(k, cipher, u)

(* assertKeyMatchesAddress: what was decrypted is the wallet's own key, if the
   chain is one whose addresses it can derive. *)
KeyMatchesAddress(r) == r.chain \in ProofChains

(* HsmSigningKey: a key pair is generated on the token under the wallet's label,
   and found there later by it. *)
Generates(i) == token' = token \cup {i}
Loads(i)     == i \in token

(* The key of wallet i within reach of server s for user u: the owner check,
   then the token's key (getEvmSigner) or the decrypted one
   (getDecryptedPrivateKey). *)
Signs(s, i, u) == /\ wallet[i].mode # "none" /\ wallet[i].owner = u
                  /\ IF wallet[i].mode = "hsm" THEN Loads(i)
                     ELSE Opens(conf[s], wallet[i].cipher, u)

(* The JWT check lets the old account in until it is locked. *)
MayCall(s, op, u) == pc[s] = "idle" /\ op \in Ops /\ (u = OldUser => ~locked)

Goto(s, step, copies) == pc' = [pc EXCEPT ![s] = step] /\ loc' = [loc EXCEPT ![s] = copies]
Done(s)   == Goto(s, "idle", NoCopies)
Held(s)   == {i \in Ids : loc[s][i].mode # "none"}
Owned(u)  == {i \in Ids : wallet[i].mode # "none" /\ wallet[i].owner = u}

(* A new row's id is a UUID: no row, key or handler has it yet. *)
Fresh(i) == wallet[i] = NoRow /\ i \notin token /\ \A s \in Servers : i \notin Held(s)

(* The copies are saved, all in one transaction. *)
SaveCopies(s) == wallet' = [i \in Ids |-> IF i \in Held(s) THEN loc[s][i] ELSE wallet[i]]

-----------------------------------------------------------------------------
(* createWallet: no wallet for this chain; a key is made and encrypted ... *)
Create(s, u, ch, i) ==
  /\ MayCall(s, "create", u) /\ ch \in KeyChains
  /\ \A j \in Owned(u) : wallet[j].chain # ch
  /\ Fresh(i)
  /\ Goto(s, "creating", [NoCopies EXCEPT ![i] =
       [mode |-> "software", owner |-> u, chain |-> ch, cipher |-> Encrypt(s, u),
        keyId |-> conf[s].current, email |-> FALSE]])
  /\ UNCHANGED <<wallet, token, locked, undone, conf>>

(* ... or generated on the token, where it stays if the save fails ... *)
CreateHsm(s, u, ch, i) ==
  /\ MayCall(s, "hsm", u) /\ ch \in EvmChains
  /\ \A j \in Owned(u) : wallet[j].chain # ch
  /\ Fresh(i)
  /\ Generates(i)
  /\ Goto(s, "creating", [NoCopies EXCEPT ![i] =
       [NoRow EXCEPT !.mode = "hsm", !.owner = u, !.chain = ch]])
  /\ UNCHANGED <<wallet, locked, undone, conf>>

(* ... and the row is saved. *)
CreateSave(s) ==
  /\ pc[s] = "creating"
  /\ SaveCopies(s)
  /\ Done(s)
  /\ UNCHANGED <<token, locked, undone, conf>>

(* setRecoveryEmail: getOwnedWallet, then save of the whole entity. *)
SetEmailRead(s, u, i) ==
  /\ MayCall(s, "email", u)
  /\ i \in Owned(u)
  /\ Goto(s, "saving", [NoCopies EXCEPT ![i] = [wallet[i] EXCEPT !.email = TRUE]])
  /\ UNCHANGED <<wallet, token, locked, undone, conf>>

SetEmailSave(s) ==
  /\ pc[s] = "saving"
  /\ SaveCopies(s)
  /\ undone' = undone \cup {i \in Held(s) : loc[s][i] # [wallet[i] EXCEPT !.email = TRUE]}
  /\ Done(s)
  /\ UNCHANGED <<token, locked, conf>>

-----------------------------------------------------------------------------
(* What a wallet becomes: re-encrypted for its new owner, unless on the HSM. *)
Moved(s, r) == IF r.mode = "hsm" THEN [r EXCEPT !.owner = NewUser]
               ELSE [r EXCEPT !.owner = NewUser, !.cipher = Encrypt(s, NewUser),
                              !.keyId = conf[s].current]

(* complete() reads the old account's wallets, if it has any, in its
   transaction and re-encrypts them; one that does not decrypt makes it fail ... *)
RecoverRead(s) ==
  /\ MayCall(s, "recover", OldUser)
  /\ \A i \in Owned(OldUser) : wallet[i].mode = "software"
                               => Signs(s, i, OldUser) /\ KeyMatchesAddress(wallet[i])
  /\ Goto(s, "moving", [i \in Ids |-> IF i \in Owned(OldUser) THEN Moved(s, wallet[i]) ELSE NoRow])
  /\ UNCHANGED <<wallet, token, locked, undone, conf>>

(* ... then saves them, locks the account and commits.  There is one request
   here, and its claim keeps a second completion of it out; Recovery has the
   completions of two requests. *)
RecoverCommit(s) ==
  /\ pc[s] = "moving" /\ ~locked
  /\ SaveCopies(s)
  /\ locked' = TRUE
  /\ Done(s)
  /\ UNCHANGED <<token, undone, conf>>

(* The handler throws, or its pod dies: an open transaction rolls back. *)
Abort(s) == pc[s] # "idle" /\ Done(s) /\ UNCHANGED <<wallet, token, locked, undone, conf>>

Handle(s) ==
  \/ \E u \in Users, i \in Ids : \/ \E ch \in Chains : Create(s, u, ch, i) \/ CreateHsm(s, u, ch, i)
                                 \/ SetEmailRead(s, u, i)
  \/ CreateSave(s) \/ SetEmailSave(s) \/ RecoverRead(s) \/ RecoverCommit(s) \/ Abort(s)

Next == \E s \in Servers : Handle(s)
Spec == Init /\ [][Next]_vars

-----------------------------------------------------------------------------
Existing == {i \in Ids : wallet[i].mode # "none"}

(* Every owner can sign with every wallet of theirs, on every server, through
   concurrent creations, moves, stale saves and failures (createWallet,
   setRecoveryEmail, complete, getEvmSigner).  "Live traffic keeps working"
   (EncryptionService): while keys are rolled out, KeyRotation refutes it. *)
EveryServerSigns == \A i \in Existing, s \in Servers : Signs(s, i, wallet[i].owner)

(* "Moves every wallet of the old account to the new one" (complete): one that
   has moved returns by setRecoveryEmail's stale save alone ... *)
OnlyStaleSaveUndoesMove ==
  [][\A i \in Existing : wallet[i].owner = NewUser => wallet'[i].owner = NewUser \/ i \in undone']_vars

(* ... which the comment does not allow for. *)
MoveIsFinal ==
  [][\A i \in Existing : wallet[i].owner = NewUser => wallet'[i].owner = NewUser]_vars

(* The same: the locked account is left with none (complete, createWallet). *)
MovesEveryWallet == locked => Owned(OldUser) = {}

(* "Wallet already exists for chain" (createWallet): an account has one wallet
   per chain. *)
OneWalletPerChain == \A u \in Users : \A i, j \in Owned(u) : wallet[i].chain = wallet[j].chain => i = j
=============================================================================
