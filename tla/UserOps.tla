------------------------------- MODULE UserOps -------------------------------
(***************************************************************************)
(* Account abstraction: the backend that builds, screens and submits user  *)
(* operations (userop.service.ts, userop-format.ts, paymaster.service.ts), *)
(* and the contracts that check them (SimpleAccount, its factory and       *)
(* OpenPrivyPaymaster), for one smart account.                             *)
(*                                                                         *)
(* A hash is the record of what is hashed and a signature names its key    *)
(* and the hash.  Packed words are numbers of two halves below Half, which *)
(* stands for 2^128.  Byte strings are sequences of cells: an address of   *)
(* 20 bytes is two cells, so that one may be cut in half, a limit of 16 is *)
(* one, and so is a hash or a signature.  The bundler, the paymaster's     *)
(* service and the EntryPoint are external: the first two pack the JSON    *)
(* form as fromRpcUserOp does, and handleOps validates all the operations  *)
(* of a bundle before it executes the first.                               *)
(***************************************************************************)
EXTENDS Naturals, Sequences, FiniteSets

CONSTANTS
  Addresses,   \* where the account's calls may go
  Lists,       \* lists of sanctioned addresses that a sync may store
  Account,     \* the account itself
  Keys,        \* the keys that may own it
  FirstOwner,  \* the one its initCode names
  NoKey,       \* the new owner of a call that rotates none
  InitCodes,   \* initCode that clients give
  Procs,       \* handlers in flight, over all replicas
  Half,        \* 2^128
  CallDatas,   \* callData the client may submit: sets of calls
  Estimates,   \* gas estimates
  Prices,      \* gas prices
  Sponsorships,\* answers of a paymaster: the limits it names
  Cuts,        \* cells of paymasterAndData that clients may leave
  MaxNonce,    \* bound: operations the account executes
  MaxSigned,   \* bound: operations signed
  MaxSends     \* bound: calls of sendUserOp

(* A call: its target, the addresses that an ERC-20 transfer, approve or
   transferFrom in it names, and the owner an updateOwner in it sets. *)
Call == [to : Addresses, args : SUBSET Addresses, newOwner : {NoKey}]
          \cup [to : {Account}, args : {{}}, newOwner : Keys]

ASSUME KeysAssumption == FirstOwner \in Keys /\ NoKey \notin Keys
ASSUME CallDatasAssumption == CallDatas \subseteq SUBSET Call
ASSUME ListsAssumption == Lists \subseteq SUBSET Addresses
ASSUME BoundsAssumption ==
  /\ Half \in Nat \ {0} /\ MaxNonce \in Nat /\ MaxSigned \in Nat /\ MaxSends \in Nat
  /\ Estimates \subseteq Nat /\ Prices \subseteq Nat
  /\ \A r \in Sponsorships : \A name \in DOMAIN r : r[name] \in Nat
ASSUME InitCodesAssumption ==
  \A code \in InitCodes : Len(code) \in Nat /\ code = [i \in 1 .. Len(code) |-> code[i]]

VARIABLES
  listed,    \* the backend's stored copy of the list of sanctioned addresses
  signed,    \* operations the client holds, signed
  mempool,   \* operations the bundler took
  records,   \* transactions: hashes of the operations saved
  pc, loc,   \* where each handler is, and the operation it holds
  left,      \* the destinations it still has to screen
  sends,     \* calls of sendUserOp so far
  deployed, owner, nonce,  \* the account on the chain
  allowed,   \* the paymaster's sponsoredAccounts holds the account
  bundle,    \* handleOps: the operations validated
  running    \* handleOps: whether it executes them by now

vars == <<listed, signed, mempool, records, pc, loc, left, sends, deployed, owner, nonce, allowed,
          bundle, running>>

backend == <<signed, records, pc, loc, left, sends>>
chain   == <<deployed, owner, nonce, allowed, bundle, running>>

-----------------------------------------------------------------------------
(* Definitions marked "Bug" are never used by the specification: each is the
   definition that follows it with a mistake, which some property must catch. *)

(* Bug: the greatest half is one too great. *)
FitsInclusive(hi, lo) == hi <= Half /\ lo <= Half

(* userop-format: two halves in a word; pack128 and toBeHex throw when one does
   not fit. *)
Fits(hi, lo)    == hi < Half /\ lo < Half
pack128(hi, lo) == hi * Half + lo
unpack128(w)    == <<w \div Half, w % Half>>

(* The addresses of the factory and of the paymaster. *)
Factory   == <<"fac", "tory">>
Paymaster == <<"pay", "master">>

packPaymasterAndData(paymaster, verification, postOp, data) ==
  paymaster \o <<verification, postOp>> \o data

(* toRpcUserOp throws on less than a factory's address, or than the paymaster's
   header of an address and two limits. *)
Readable(op) ==
  /\ op.initCode = <<>> \/ Len(op.initCode) >= 2
  /\ op.paymasterAndData = <<>> \/ Len(op.paymasterAndData) >= 4

(* The JSON form; what is left out of it is <<>>. *)
toRpcUserOp(op) ==
  LET initCode == op.initCode
      pmd      == op.paymasterAndData
  IN [nonce |-> op.nonce, callData |-> op.callData,
      factory     |-> IF initCode = <<>> THEN <<>> ELSE SubSeq(initCode, 1, 2),
      factoryData |-> IF initCode = <<>> THEN <<>> ELSE SubSeq(initCode, 3, Len(initCode)),
      verificationGasLimit |-> unpack128(op.accountGasLimits)[1],
      callGasLimit         |-> unpack128(op.accountGasLimits)[2],
      preVerificationGas   |-> op.preVerificationGas,
      maxPriorityFeePerGas |-> unpack128(op.gasFees)[1],
      maxFeePerGas         |-> unpack128(op.gasFees)[2],
      paymaster     |-> IF pmd = <<>> THEN <<>> ELSE SubSeq(pmd, 1, 2),
      paymasterVerificationGasLimit |-> IF pmd = <<>> THEN 0 ELSE pmd[3],
      paymasterPostOpGasLimit       |-> IF pmd = <<>> THEN 0 ELSE pmd[4],
      paymasterData |-> IF pmd = <<>> THEN <<>> ELSE SubSeq(pmd, 5, Len(pmd))]

fromRpcUserOp(r) ==
  [nonce |-> r.nonce, callData |-> r.callData,
   initCode |-> IF r.factory = <<>> THEN <<>> ELSE r.factory \o r.factoryData,
   accountGasLimits |-> pack128(r.verificationGasLimit, r.callGasLimit),
   preVerificationGas |-> r.preVerificationGas,
   gasFees |-> pack128(r.maxPriorityFeePerGas, r.maxFeePerGas),
   paymasterAndData |->
     IF r.paymaster = <<>> THEN <<>>
     ELSE packPaymasterAndData(r.paymaster, r.paymasterVerificationGasLimit,
                               r.paymasterPostOpGasLimit, r.paymasterData)]

(* calculateUserOpHash, and the EntryPoint's getUserOpHash. *)
Hash(op) == op

(* OpenPrivyPaymaster.getHash: of paymasterAndData, the gas limits only. *)
PaymasterHash(op) == [op EXCEPT !.paymasterAndData = SubSeq(@, 3, 4)]

(* extractDestinations *)
Destinations(cd) == UNION {{c.to} \cup c.args : c \in cd}

-----------------------------------------------------------------------------
(* Limits that an answer need not name. *)
Named(r, name, default) == IF name \in DOMAIN r THEN r[name] ELSE default

(* What the paymaster signs: the hash of the operation it was sent, with the
   limits it answers. *)
PaymasterSigns(rpc, r) ==
  PaymasterHash(fromRpcUserOp(
    [rpc EXCEPT !.verificationGasLimit = Named(r, "verificationGasLimit", @),
                !.callGasLimit = Named(r, "callGasLimit", @),
                !.preVerificationGas = Named(r, "preVerificationGas", @),
                !.paymaster = Paymaster,
                !.paymasterVerificationGasLimit = Named(r, "paymasterVerificationGasLimit", 0),
                !.paymasterPostOpGasLimit = Named(r, "paymasterPostOpGasLimit", 0)]))

(* The limits of an operation as its builder or its paymaster means them:
   verification, call, priority fee and fee. *)
LimitsNamed(limits, r) ==
  <<Named(r, "verificationGasLimit", limits[1]), Named(r, "callGasLimit", limits[2]),
    limits[3], limits[4]>>

(* mergeSponsorship's words hold the limits it packs. *)
MergeFits(op, r) ==
  LET own == unpack128(op.accountGasLimits)
  IN /\ Fits(Named(r, "verificationGasLimit", own[1]), Named(r, "callGasLimit", own[2]))
     /\ Fits(Named(r, "paymasterVerificationGasLimit", 0), Named(r, "paymasterPostOpGasLimit", 0))

(* mergeSponsorship: what the answer does not name keeps its value; the limits
   of the paymaster itself are then none. *)
mergeSponsorship(op, r, data) ==
  LET own == unpack128(op.accountGasLimits)
  IN [op EXCEPT !.accountGasLimits = pack128(Named(r, "verificationGasLimit", own[1]),
                                             Named(r, "callGasLimit", own[2])),
                !.preVerificationGas = Named(r, "preVerificationGas", @),
                !.paymasterAndData =
                  packPaymasterAndData(Paymaster, Named(r, "paymasterVerificationGasLimit", 0),
                                       Named(r, "paymasterPostOpGasLimit", 0), data)]

(* The operation as the paymaster's answer r leaves it. *)
sponsorUserOp(op, r) ==
  mergeSponsorship(op, r, <<PaymasterSigns(toRpcUserOp([op EXCEPT !.paymasterAndData = <<>>]), r)>>)

-----------------------------------------------------------------------------
NoOp == [nonce |-> 0, callData |-> {}, initCode |-> <<>>, accountGasLimits |-> 0,
         preVerificationGas |-> 0, gasFees |-> 0, paymasterAndData |-> <<>>]

(* An operation, the key that signed and the hash it signed; history: the limits
   meant for it, and those of its destinations that were listed at every moment
   since its sendUserOp began. *)
NoSigned == [op |-> NoOp, by |-> FirstOwner, of |-> NoOp, limits |-> <<0, 0, 0, 0>>, barred |-> {}]

IsOp(op) ==
  /\ op.nonce \in 0 .. MaxNonce /\ op.callData \in CallDatas
  /\ op.initCode \in {<<>>} \cup InitCodes
  /\ op.accountGasLimits \in 0 .. Half * Half - 1 /\ op.gasFees \in 0 .. Half * Half - 1
  /\ op.preVerificationGas \in Nat
  /\ Len(op.paymasterAndData) <= 5

TypeOK ==
  /\ listed \in SUBSET Addresses
  /\ \A s \in signed \cup mempool : IsOp(s.op) /\ s.by \in Keys
  /\ \A hash \in records : IsOp(hash)
  /\ pc \in [Procs -> {"idle", "build", "sponsor", "send", "save"}]
  /\ \A p \in Procs : pc[p] \notin {"idle", "build"} => IsOp(loc[p].op)
  /\ \A p \in Procs : left[p] \subseteq Destinations(loc[p].op.callData)
  /\ sends \in 0 .. MaxSends
  /\ deployed \in BOOLEAN /\ owner \in Keys /\ nonce \in 0 .. MaxNonce
  /\ allowed \in BOOLEAN /\ running \in BOOLEAN
  /\ Len(bundle) <= nonce /\ (bundle # <<>> => deployed)

Init ==
  /\ listed = {}
  /\ signed = {} /\ mempool = {} /\ records = {}
  /\ pc = [p \in Procs |-> "idle"] /\ loc = [p \in Procs |-> NoSigned]
  /\ left = [p \in Procs |-> {}] /\ sends = 0
  /\ deployed = FALSE /\ owner = FirstOwner /\ nonce = 0
  /\ allowed \in BOOLEAN
  /\ bundle = <<>> /\ running = FALSE

Goto(p, step, l, ds) ==
  /\ pc' = [pc EXCEPT ![p] = step]
  /\ loc' = [loc EXCEPT ![p] = l]
  /\ left' = [left EXCEPT ![p] = ds]
Done(p) == Goto(p, "idle", NoSigned, {})

-----------------------------------------------------------------------------
(* The EntryPoint's NonceManager, for an account deployed or not. *)
getNonce == nonce

(* buildUserOp: the one call is to be screened ... *)
BuildBegins(p, c) ==
  /\ pc[p] = "idle" /\ Cardinality(signed) < MaxSigned
  /\ {c} \in CallDatas
  /\ Goto(p, "build", [NoSigned EXCEPT !.op.callData = {c}], Destinations({c}))
  /\ UNCHANGED <<listed, signed, mempool, records, sends, chain>>

(* assertNotSanctioned: one destination after the other is looked up in the
   stored list, and one that is blocked ends the request. *)
Screen(p, d) ==
  /\ pc[p] \in {"build", "send"} /\ d \in left[p]
  /\ d \notin listed
  /\ Goto(p, pc[p], loc[p], left[p] \ {d})
  /\ UNCHANGED <<listed, signed, mempool, records, sends, chain>>

(* ... the nonce read, and the limits and fees estimated; initCode is what the
   client gives ... *)
BuildReads(p, estimate, price, code) ==
  LET limits == <<IF code # <<>> THEN 3 ELSE 1, estimate + 1, price \div 2, price * 2>>
  IN /\ pc[p] = "build" /\ left[p] = {}
     /\ Fits(limits[1], limits[2]) /\ Fits(limits[3], limits[4])
     /\ Goto(p, "sponsor",
             [loc[p] EXCEPT !.op = [@ EXCEPT !.nonce = getNonce, !.initCode = code,
                                             !.accountGasLimits = pack128(limits[1], limits[2]),
                                             !.preVerificationGas = 1,
                                             !.gasFees = pack128(limits[3], limits[4])],
                            !.limits = limits], {})
     /\ UNCHANGED <<listed, signed, mempool, records, sends, chain>>

Owner == IF deployed THEN owner ELSE FirstOwner

(* signUserOp: the client signs the hash it is given with the owner's key. *)
Sign(op, hash, limits) ==
  [op |-> op, by |-> Owner, of |-> hash, limits |-> limits, barred |-> {}]

(* ... and the operation sponsored if the client wants that, then hashed. *)
BuildEnds(p) ==
  LET op == loc[p].op
  IN /\ pc[p] = "sponsor" /\ Cardinality(signed) < MaxSigned
     /\ \/ signed' = signed \cup {Sign(op, Hash(op), loc[p].limits)}
        \/ /\ Readable(op)
           /\ \E r \in Sponsorships :
                /\ MergeFits(op, r)
                /\ signed' = signed \cup
                     {Sign(sponsorUserOp(op, r), Hash(sponsorUserOp(op, r)),
                           LimitsNamed(loc[p].limits, r))}
     /\ Done(p)
     /\ UNCHANGED <<listed, mempool, records, sends, chain>>

(* An operation as the client sends it: it may have changed the callData or cut
   paymasterAndData, and signed the hash of that. *)
Sent(s, cd, n) ==
  LET op == [s.op EXCEPT !.callData = cd, !.paymasterAndData = SubSeq(@, 1, n)]
  IN [(IF op = s.op THEN s ELSE Sign(op, Hash(op), s.limits))
        EXCEPT !.barred = Destinations(cd) \cap listed]

(* Bug: what was built is screened, not what was sent. *)
SendScreensBuilt(p, s, cd, n) ==
  /\ pc[p] = "idle" /\ sends < MaxSends
  /\ n \in Cuts \cup {Len(s.op.paymasterAndData)}
  /\ Goto(p, "send", Sent(s, cd, n), Destinations(s.op.callData))
  /\ sends' = sends + 1
  /\ UNCHANGED <<listed, signed, mempool, records, chain>>

(* sendUserOp: what the client sent is to be screened (callData that cannot be
   read is refused) ... *)
SendBegins(p, s, cd, n) ==
  /\ pc[p] = "idle" /\ sends < MaxSends
  /\ n \in Cuts \cup {Len(s.op.paymasterAndData)}
  /\ Goto(p, "send", Sent(s, cd, n), Destinations(cd))
  /\ sends' = sends + 1
  /\ UNCHANGED <<listed, signed, mempool, records, chain>>

(* ... submitted ... *)
SendSubmits(p) ==
  /\ pc[p] = "send" /\ left[p] = {}
  /\ Readable(loc[p].op)
  /\ mempool' = mempool \cup {[loc[p] EXCEPT !.op = fromRpcUserOp(toRpcUserOp(@))]}
  /\ Goto(p, "save", loc[p], {})
  /\ UNCHANGED <<listed, signed, records, sends, chain>>

(* ... and recorded as pending. *)
SendSaves(p) ==
  /\ pc[p] = "save"
  /\ records' = records \cup {loc[p].of}
  /\ Done(p)
  /\ UNCHANGED <<listed, signed, mempool, sends, chain>>

(* An error ends the request: a destination that is blocked, a form that cannot
   be read, a limit that does not fit, or one at the chain, the paymaster, the
   bundler or the database; so does the death of its pod. *)
Abort(p) ==
  /\ pc[p] # "idle"
  /\ Done(p)
  /\ UNCHANGED <<listed, signed, mempool, records, sends, chain>>

-----------------------------------------------------------------------------
(* Bug: any signature that recovers a key will do. *)
RecoversAKey(o) == o.of = Hash(o.op)

(* SimpleAccount._validateSignature *)
ValidSignature(o) == o.of = Hash(o.op) /\ o.by = Owner

(* OpenPrivyPaymaster._validatePaymasterUserOp *)
Sponsored(op) ==
  /\ allowed /\ Len(op.paymasterAndData) = 5
  /\ op.paymasterAndData[5] = PaymasterHash(op)

(* EntryPoint: an account is deployed once and its nonces follow one another. *)
Valid(o) ==
  /\ o.op.initCode = IF deployed THEN <<>> ELSE Factory \o <<FirstOwner>>
  /\ o.op.nonce = nonce
  /\ ValidSignature(o)
  /\ o.op.paymasterAndData # <<>> => Sponsored(o.op)

(* handleOps validates an operation, whose initCode has the factory deploy the
   account (createAccount, initialize) ... *)
HandleValidates(o) ==
  /\ ~running /\ nonce < MaxNonce /\ Valid(o)
  /\ mempool' = mempool \ {o}
  /\ deployed' = TRUE /\ owner' = Owner
  /\ nonce' = nonce + 1
  /\ bundle' = Append(bundle, o)
  /\ UNCHANGED <<listed, backend, allowed, running>>

(* The owners that calls from the account may leave: updateOwner is the
   account's own to call, and a call that reverts reverts all. *)
OwnersAfter(cd) == {owner} \cup ({c.newOwner : c \in cd} \ {NoKey})

(* ... and when all are validated executes them in turn: execute and
   executeBatch are the EntryPoint's to call. *)
HandleExecutes ==
  /\ bundle # <<>>
  /\ owner' \in OwnersAfter(Head(bundle).op.callData)
  /\ bundle' = Tail(bundle)
  /\ running' = (Len(bundle) > 1)
  /\ UNCHANGED <<listed, backend, mempool, deployed, nonce, allowed>>

(* The factory deploys the account for whoever asks. *)
createAccount ==
  /\ bundle = <<>> /\ ~deployed
  /\ deployed' = TRUE /\ owner' = FirstOwner
  /\ UNCHANGED <<listed, backend, mempool, nonce, allowed, bundle, running>>

(* The owner's own transaction. *)
updateOwner(k) ==
  /\ bundle = <<>> /\ deployed /\ k # owner
  /\ owner' = k
  /\ UNCHANGED <<listed, backend, mempool, deployed, nonce, allowed, bundle, running>>

setSponsorshipStatus ==
  /\ bundle = <<>>
  /\ allowed' = ~allowed
  /\ UNCHANGED <<listed, backend, mempool, deployed, owner, nonce, bundle, running>>

(* A sync of the sanctions list replaces the stored copy. *)
Sync(list) ==
  /\ list # listed
  /\ listed' = list
  /\ loc' = [p \in Procs |-> IF pc[p] = "send" THEN [loc[p] EXCEPT !.barred = @ \cap list]
                             ELSE loc[p]]
  /\ UNCHANGED <<signed, records, pc, left, sends, mempool, chain>>

Next ==
  \/ \E p \in Procs :
       \/ \E c \in UNION CallDatas : BuildBegins(p, c)
       \/ \E d \in left[p] : Screen(p, d)
       \/ \E e \in Estimates, price \in Prices, code \in {<<>>} \cup InitCodes :
            BuildReads(p, e, price, code)
       \/ BuildEnds(p)
       \/ \E s \in signed, cd \in CallDatas :
            \E n \in 0 .. Len(s.op.paymasterAndData) : SendBegins(p, s, cd, n)
       \/ SendSubmits(p) \/ SendSaves(p) \/ Abort(p)
  \/ \E o \in mempool : HandleValidates(o)
  \/ HandleExecutes \/ createAccount \/ setSponsorshipStatus
  \/ \E k \in Keys : updateOwner(k)
  \/ \E list \in Lists : Sync(list)

Spec == Init /\ [][Next]_vars

-----------------------------------------------------------------------------
(* "The exact hash the account owner must sign" (buildUserOp), "so adding it
   after the owner signs invalidates the signature": what the bundler packs of
   the JSON form of a signed operation has the hash the owner signed, the limits
   and fees its builder and its paymaster meant, none spilt into the other half
   of its word, and the hash the paymaster signed. *)
HashesSurvive ==
  \A s \in {s \in signed : Readable(s.op)} :
    LET op == fromRpcUserOp(toRpcUserOp(s.op))
    IN /\ Hash(op) = s.of
       /\ unpack128(op.accountGasLimits) = <<s.limits[1], s.limits[2]>>
       /\ unpack128(op.gasFees) = <<s.limits[3], s.limits[4]>>
       /\ op.paymasterAndData # <<>> => op.paymasterAndData[5] = PaymasterHash(op)

(* "Re-screen what is actually being submitted; the client could have changed
   callData after build-userop" (sendUserOp): nothing the bundler holds or the
   chain runs sends to an address that the stored list had from the moment its
   sendUserOp began until it was submitted.  An address that a sync adds in
   between is found or not, as its own lookup comes before or after that; one
   added once the operation is with the bundler is not found. *)
ScreenedWhenSent ==
  \A o \in mempool \cup {bundle[i] : i \in 1 .. Len(bundle)} : o.barred = {}

(* "Owner rotation via UserOp: the old key stops working" (SimpleAccount.test):
   an operation signed by another key than the owner's is about to run only in
   a bundle whose earlier operation was executed, and rotated the owner, after
   this one was validated. *)
OldKeyStops == \A i \in 1 .. Len(bundle) : bundle[i].by # owner => running
=============================================================================
