---------------------------- MODULE UserOpsProofs ----------------------------
(***************************************************************************)
(* The safety properties of UserOps, for any calls, keys, initCode, lists, *)
(* estimates, paymaster answers and number of handlers, and any width of a *)
(* half word.                                                              *)
(***************************************************************************)
EXTENDS UserOps, SequenceTheorems, TLAPS

-----------------------------------------------------------------------------
(* The shape of an operation.  A paymaster signs one whose paymasterAndData
   holds its own two limits only. *)
Words == 0 .. Half * Half - 1
Codes == {<<>>} \cup InitCodes

OpsWith(data) == [nonce : 0 .. MaxNonce, callData : CallDatas, initCode : Codes,
                  accountGasLimits : Words, preVerificationGas : Nat, gasFees : Words,
                  paymasterAndData : data]

Plain  == OpsWith({<<>>})
Hashed == OpsWith({<<v, o>> : v \in Nat, o \in Nat})
Cell   == {"pay", "master"} \cup Nat \cup Hashed
OpRec  == OpsWith({d \in Seq(Cell) : Len(d) \in 0 .. 5})
Limits == Nat \X Nat \X Nat \X Nat

SignedRec == [op : OpRec, by : Keys, of : OpRec, limits : Limits,
              barred : SUBSET (Addresses \cup {Account})]

PaymasterAgrees(op) ==
  op.paymasterAndData # <<>> => /\ Len(op.paymasterAndData) = 5
                                /\ op.paymasterAndData[5] = PaymasterHash(op)

(* The words of an operation hold the limits and fees meant for it. *)
LimitsHeld(op, limits) ==
  /\ unpack128(op.accountGasLimits) = <<limits[1], limits[2]>>
  /\ unpack128(op.gasFees) = <<limits[3], limits[4]>>

Types ==
  /\ listed \in SUBSET Addresses
  /\ signed \in SUBSET SignedRec /\ mempool \in SUBSET SignedRec
  /\ records \in SUBSET OpRec
  /\ pc \in [Procs -> {"idle", "build", "sponsor", "send", "save"}]
  /\ loc = [p \in Procs |-> loc[p]] /\ left = [p \in Procs |-> left[p]]
  /\ sends \in 0 .. MaxSends
  /\ deployed \in BOOLEAN /\ owner \in Keys /\ nonce \in 0 .. MaxNonce
  /\ allowed \in BOOLEAN /\ running \in BOOLEAN
  /\ bundle \in Seq(SignedRec)
  /\ Len(bundle) <= nonce /\ (bundle # <<>> => deployed)

(* What a handler holds at each of its steps. *)
HoldsAt(step, l, ds) ==
  /\ step = "build" => /\ l.op.callData \in CallDatas
                       /\ l = [NoSigned EXCEPT !.op.callData = l.op.callData]
  /\ step = "sponsor" => l.op \in Plain /\ l.limits \in Limits /\ LimitsHeld(l.op, l.limits)
  /\ step \in {"send", "save"} => l \in SignedRec
  /\ step = "send" => l.barred \subseteq ds \cap listed
  /\ ds \subseteq Destinations(l.op.callData)

Holds(p) == HoldsAt(pc[p], loc[p], left[p])

(* Of a submission nothing is barred once all is screened: what is listed all
   the time is still to be screened. *)
Screened(o) == o.barred = {}

(* The owner's hash and the paymaster's are those of what was signed. *)
SignedOK == \A s \in signed : s.of = s.op /\ LimitsHeld(s.op, s.limits) /\ PaymasterAgrees(s.op)

IInv ==
  /\ Types
  /\ \A p \in Procs : Holds(p)
  /\ \A p \in Procs : pc[p] = "save" => Screened(loc[p])
  /\ SignedOK
  /\ \A o \in mempool : Screened(o)
  /\ \A i \in 1 .. Len(bundle) : Screened(bundle[i])
  /\ OldKeyStops

-----------------------------------------------------------------------------
(* Words: two halves pack into one, and unpack again. *)
LEMMA Widths == Half \in Nat \ {0} /\ MaxNonce \in Nat /\ MaxSends \in Nat
BY BoundsAssumption

LEMMA PackFits ==
  ASSUME NEW hi \in Nat, NEW lo \in Nat, Fits(hi, lo)
  PROVE  pack128(hi, lo) \in Words
<1>1. hi * Half <= (Half - 1) * Half
  BY Widths DEF Fits
<1>2. (Half - 1) * Half = Half * Half - Half
  BY Widths
<1>3. hi * Half \in Nat /\ Half * Half \in Nat
  BY Widths
<1> QED BY <1>1, <1>2, <1>3, Widths DEF Fits, pack128, Words

LEMMA Halves ==
  ASSUME NEW q \in Nat, NEW h \in Nat, NEW a \in 0 .. Half - 1, NEW b \in 0 .. Half - 1,
         q * Half + a = h * Half + b
  PROVE  q = h /\ a = b
<1>1. ASSUME NEW m \in Nat, NEW n \in Nat, m < n PROVE m * Half + Half <= n * Half
  <2>1. (m + 1) * Half <= n * Half
    BY <1>1, Widths
  <2>2. (m + 1) * Half = m * Half + Half
    BY Widths
  <2> QED BY <2>1, <2>2
<1>2. q * Half \in Nat /\ h * Half \in Nat
  BY Widths
<1>3. ~(q < h) /\ ~(h < q)
  BY <1>1, <1>2, Widths
<1>4. q = h
  BY <1>3
<1> QED BY <1>2, <1>4, Widths

LEMMA PackUnpacks ==
  ASSUME NEW hi \in Nat, NEW lo \in Nat, Fits(hi, lo)
  PROVE  unpack128(pack128(hi, lo)) = <<hi, lo>>
<1> DEFINE w == hi * Half + lo
<1>1. w \in Nat
  <2>1. hi * Half \in Nat
    BY Widths
  <2> QED BY <2>1
<1> HIDE DEF w
<1>2. w \div Half \in Nat /\ w % Half \in 0 .. Half - 1
  BY <1>1, Widths
<1>3. (w \div Half) * Half + (w % Half) = w
  BY <1>1, Widths
<1>4. lo \in 0 .. Half - 1
  BY Widths DEF Fits
<1>5. w \div Half = hi /\ w % Half = lo
  <2> DEFINE q == w \div Half  r == w % Half
  <2>1. q \in Nat /\ r \in 0 .. Half - 1 /\ q * Half + r = hi * Half + lo
    BY <1>2, <1>3 DEF w
  <2> HIDE DEF q, r
  <2>2. q = hi /\ r = lo
    BY <1>4, <2>1, Halves
  <2> QED BY <2>2 DEF q, r
<1> QED BY <1>5 DEF w, unpack128, pack128

LEMMA Unpacks ==
  ASSUME NEW w \in Words
  PROVE  /\ unpack128(w)[1] \in Nat /\ unpack128(w)[2] \in Nat
         /\ pack128(unpack128(w)[1], unpack128(w)[2]) = w
<1>1. w \in Nat
  BY DEF Words
<1>2. w \div Half \in Nat /\ w % Half \in 0 .. Half - 1
  BY <1>1, Widths
<1>3. (w \div Half) * Half + (w % Half) = w
  BY <1>1, Widths
<1> QED BY <1>2, <1>3, Widths DEF unpack128, pack128

-----------------------------------------------------------------------------
(* Byte strings: what is sliced is put together again. *)
LEMMA Slices ==
  ASSUME NEW S, NEW b \in Seq(S), NEW k \in 1 .. Len(b)
  PROVE  /\ SubSeq(b, 1, k) \o SubSeq(b, k + 1, Len(b)) = b
         /\ SubSeq(b, 1, k) # <<>>
<1>1. Len(b) \in Nat
  BY LenProperties
<1>2. SubSeq(b, 1, k) \o SubSeq(b, k + 1, Len(b)) = SubSeq(b, 1, Len(b))
  BY <1>1, ConcatAdjacentSubSeq
<1>3. \A i \in 1 .. k : b[i] \in S
  BY <1>1, ElementOfSeq
<1>4. Len(SubSeq(b, 1, k)) = k
  BY <1>1, <1>3, SubSeqProperties
<1>5. Len(<<>>) = 0
  BY EmptySeq
<1> QED BY <1>1, <1>2, <1>4, <1>5, SubSeqFull

LEMMA CodeIsSeq ==
  ASSUME NEW code \in Codes
  PROVE  \E S : code \in Seq(S)
<1>1. CASE code = <<>>
  BY <1>1, EmptySeq
<1>2. CASE code # <<>>
  <2>1. Len(code) \in Nat /\ code = [i \in 1 .. Len(code) |-> code[i]]
    BY <1>2, InitCodesAssumption DEF Codes
  <2> DEFINE S == {code[i] : i \in 1 .. Len(code)}
  <2>2. \A i \in 1 .. Len(code) : code[i] \in S
    OBVIOUS
  <2>3. code \in [1 .. Len(code) -> S]
    BY <2>1, <2>2
  <2>4. code \in Seq(S)
    BY <2>1, <2>3
  <2> QED BY <2>4
<1> QED BY <1>1, <1>2

(* The initCode of an operation comes back from its factory and factoryData. *)
LEMMA CodeRoundTrip ==
  ASSUME NEW code \in Codes, code # <<>>, Len(code) >= 2
  PROVE  /\ SubSeq(code, 1, 2) \o SubSeq(code, 3, Len(code)) = code
         /\ SubSeq(code, 1, 2) # <<>>
<1>1. PICK S : code \in Seq(S)
  BY CodeIsSeq
<1>2. 2 \in 1 .. Len(code)
  BY <1>1, LenProperties
<1> QED BY <1>1, <1>2, Slices

(* So does paymasterAndData from its four fields. *)
LEMMA DataRoundTrip ==
  ASSUME NEW d \in Seq(Cell), Len(d) >= 4
  PROVE  /\ packPaymasterAndData(SubSeq(d, 1, 2), d[3], d[4], SubSeq(d, 5, Len(d))) = d
         /\ SubSeq(d, 1, 2) # <<>>
<1>1. Len(d) \in Nat /\ 2 \in 1 .. Len(d) /\ 4 \in 1 .. Len(d)
  BY LenProperties
<1>2. d[3] \in Cell /\ d[4] \in Cell
  BY <1>1, ElementOfSeq
<1>3. SubSeq(d, 3, 4) = <<d[3], d[4]>>
  <2>1. \A i \in 3 .. 4 : d[i] \in Cell
    BY <1>1, ElementOfSeq
  <2>2. /\ SubSeq(d, 3, 4) \in Seq(Cell) /\ Len(SubSeq(d, 3, 4)) = 2
        /\ \A i \in 1 .. 2 : SubSeq(d, 3, 4)[i] = d[3 + i - 1]
    BY <2>1, SubSeqProperties
  <2>3. <<d[3], d[4]>> \in Seq(Cell) /\ Len(<<d[3], d[4]>>) = 2
    BY <1>2
  <2>4. \A i \in 1 .. 2 : SubSeq(d, 3, 4)[i] = <<d[3], d[4]>>[i]
    BY <2>2
  <2> QED BY <2>2, <2>3, <2>4, SeqEqual
<1>4. SubSeq(d, 1, 2) \o SubSeq(d, 3, 4) = SubSeq(d, 1, 4)
  BY <1>1, ConcatAdjacentSubSeq
<1>5. SubSeq(d, 1, 4) \o SubSeq(d, 5, Len(d)) = d
  BY <1>1, Slices
<1>6. SubSeq(d, 1, 2) # <<>>
  BY <1>1, Slices
<1> QED BY <1>3, <1>4, <1>5, <1>6 DEF packPaymasterAndData

(* The bundler's JSON form loses nothing. *)
LEMMA RoundTrip ==
  ASSUME NEW op \in OpRec, Readable(op)
  PROVE  fromRpcUserOp(toRpcUserOp(op)) = op
<1> DEFINE rpc == toRpcUserOp(op)
           back == fromRpcUserOp(rpc)
<1>1. /\ op.accountGasLimits \in Words /\ op.gasFees \in Words /\ op.initCode \in Codes
      /\ op.paymasterAndData \in Seq(Cell)
  BY DEF OpRec, OpsWith
<1>2. back.accountGasLimits = op.accountGasLimits /\ back.gasFees = op.gasFees
  BY <1>1, Unpacks DEF fromRpcUserOp, toRpcUserOp
<1>3. back.initCode = op.initCode
  <2>1. CASE op.initCode = <<>>
    BY <2>1 DEF fromRpcUserOp, toRpcUserOp
  <2>2. CASE op.initCode # <<>>
    <3>1. Len(op.initCode) >= 2
      BY <2>2 DEF Readable
    <3>2. /\ rpc.factory = SubSeq(op.initCode, 1, 2)
          /\ rpc.factoryData = SubSeq(op.initCode, 3, Len(op.initCode))
      BY <2>2 DEF toRpcUserOp
    <3>3. rpc.factory # <<>> /\ rpc.factory \o rpc.factoryData = op.initCode
      BY <1>1, <2>2, <3>1, <3>2, CodeRoundTrip
    <3> HIDE DEF rpc
    <3> QED BY <3>3 DEF fromRpcUserOp
  <2> QED BY <2>1, <2>2
<1>4. back.paymasterAndData = op.paymasterAndData
  <2>1. CASE op.paymasterAndData = <<>>
    BY <2>1 DEF fromRpcUserOp, toRpcUserOp
  <2>2. CASE op.paymasterAndData # <<>>
    <3> DEFINE d == op.paymasterAndData
    <3>1. Len(d) >= 4
      BY <2>2 DEF Readable
    <3>2. /\ rpc.paymaster = SubSeq(d, 1, 2) /\ rpc.paymasterVerificationGasLimit = d[3]
          /\ rpc.paymasterPostOpGasLimit = d[4] /\ rpc.paymasterData = SubSeq(d, 5, Len(d))
      BY <2>2 DEF toRpcUserOp
    <3>3. /\ rpc.paymaster # <<>>
          /\ packPaymasterAndData(rpc.paymaster, rpc.paymasterVerificationGasLimit,
                                  rpc.paymasterPostOpGasLimit, rpc.paymasterData) = d
      BY <1>1, <3>1, <3>2, DataRoundTrip
    <3> HIDE DEF rpc, d
    <3>4. back.paymasterAndData = d
      BY <3>3 DEF fromRpcUserOp
    <3> QED BY <3>4 DEF d
  <2> QED BY <2>1, <2>2
<1>5. /\ back.nonce = op.nonce /\ back.callData = op.callData
      /\ back.preVerificationGas = op.preVerificationGas
  BY DEF fromRpcUserOp, toRpcUserOp
<1>6. back = [nonce |-> back.nonce, callData |-> back.callData, initCode |-> back.initCode,
              accountGasLimits |-> back.accountGasLimits,
              preVerificationGas |-> back.preVerificationGas, gasFees |-> back.gasFees,
              paymasterAndData |-> back.paymasterAndData]
  BY DEF fromRpcUserOp
<1>7. op = [nonce |-> op.nonce, callData |-> op.callData, initCode |-> op.initCode,
            accountGasLimits |-> op.accountGasLimits,
            preVerificationGas |-> op.preVerificationGas, gasFees |-> op.gasFees,
            paymasterAndData |-> op.paymasterAndData]
  BY DEF OpRec, OpsWith
<1> HIDE DEF back
<1>8. back = op
  BY <1>2, <1>3, <1>4, <1>5, <1>6, <1>7
<1> QED BY <1>8 DEF back

-----------------------------------------------------------------------------
(* The paymaster's data with its header. *)
LEMMA Header ==
  ASSUME NEW v \in Nat, NEW o \in Nat, NEW data \in Seq(Cell), Len(data) <= 1
  PROVE  LET d == packPaymasterAndData(Paymaster, v, o, data)
         IN /\ d \in Seq(Cell) /\ Len(d) = 4 + Len(data)
            /\ SubSeq(d, 3, 4) = <<v, o>>
            /\ Len(data) = 1 => d[5] = data[1]
<1> DEFINE d == packPaymasterAndData(Paymaster, v, o, data)
           two == <<v, o>>
           e == Paymaster \o two
<1>1. /\ Paymaster \in Seq(Cell) /\ Len(Paymaster) = 2
      /\ two \in Seq(Cell) /\ Len(two) = 2 /\ two[1] = v /\ two[2] = o
  BY DEF Paymaster, Cell
<1> HIDE DEF two
<1>2. /\ e \in Seq(Cell) /\ Len(e) = Len(Paymaster) + Len(two)
      /\ \A i \in 1 .. Len(Paymaster) + Len(two) :
           e[i] = IF i <= Len(Paymaster) THEN Paymaster[i] ELSE two[i - Len(Paymaster)]
  BY <1>1, ConcatProperties
<1>3. Len(e) = 4 /\ e[3] = v /\ e[4] = o
  <2> HIDE DEF e
  <2> QED BY <1>1, <1>2
<1> HIDE DEF e
<1>4. Len(data) \in Nat
  BY LenProperties
<1> DEFINE f == e \o data
<1>5. /\ f \in Seq(Cell) /\ Len(f) = Len(e) + Len(data)
      /\ \A i \in 1 .. Len(e) + Len(data) : f[i] = IF i <= Len(e) THEN e[i] ELSE data[i - Len(e)]
  BY <1>2, ConcatProperties
<1>6. d = f
  BY DEF packPaymasterAndData, e, two
<1> HIDE DEF d, f
<1>7. d[3] = v /\ d[4] = o /\ (Len(data) = 1 => d[5] = data[1])
  BY <1>3, <1>4, <1>5, <1>6
<1>8. SubSeq(d, 3, 4) = <<v, o>>
  <2>1. \A i \in 3 .. 4 : d[i] \in Cell
    BY <1>7 DEF Cell
  <2>2. /\ SubSeq(d, 3, 4) \in Seq(Cell) /\ Len(SubSeq(d, 3, 4)) = 2
        /\ \A i \in 1 .. 2 : SubSeq(d, 3, 4)[i] = d[3 + i - 1]
    BY <2>1, SubSeqProperties
  <2>3. \A i \in 1 .. 2 : SubSeq(d, 3, 4)[i] = two[i]
    BY <1>1, <1>7, <2>2
  <2>4. SubSeq(d, 3, 4) = two
    BY <1>1, <2>2, <2>3, SeqEqual
  <2> QED BY <2>4 DEF two
<1> QED BY <1>3, <1>5, <1>6, <1>7, <1>8 DEF d

(* A sponsored operation is well formed, has the limits that are meant, and the
   paymaster signed its hash. *)
LEMMA Merged ==
  ASSUME NEW op \in Plain, NEW r \in Sponsorships, NEW limits \in Limits,
         Readable(op), MergeFits(op, r), LimitsHeld(op, limits)
  PROVE  /\ sponsorUserOp(op, r) \in OpRec
         /\ PaymasterAgrees(sponsorUserOp(op, r))
         /\ LimitsHeld(sponsorUserOp(op, r), LimitsNamed(limits, r))
         /\ LimitsNamed(limits, r) \in Limits
<1> DEFINE own == unpack128(op.accountGasLimits)
           hi  == Named(r, "verificationGasLimit", own[1])
           lo  == Named(r, "callGasLimit", own[2])
           g   == Named(r, "preVerificationGas", op.preVerificationGas)
           v   == Named(r, "paymasterVerificationGasLimit", 0)
           o   == Named(r, "paymasterPostOpGasLimit", 0)
           h   == PaymasterSigns(toRpcUserOp(op), r)
           m   == sponsorUserOp(op, r)
           WithData(d) == [nonce |-> op.nonce, callData |-> op.callData, initCode |-> op.initCode,
                           accountGasLimits |-> pack128(hi, lo), preVerificationGas |-> g,
                           gasFees |-> op.gasFees, paymasterAndData |-> d]
<1>1. /\ op = [nonce |-> op.nonce, callData |-> op.callData, initCode |-> op.initCode,
               accountGasLimits |-> op.accountGasLimits,
               preVerificationGas |-> op.preVerificationGas, gasFees |-> op.gasFees,
               paymasterAndData |-> <<>>]
      /\ op.nonce \in 0 .. MaxNonce /\ op.callData \in CallDatas /\ op.initCode \in Codes
      /\ op.accountGasLimits \in Words /\ op.gasFees \in Words /\ op.preVerificationGas \in Nat
      /\ op.paymasterAndData = <<>>
  BY DEF Plain, OpsWith
<1>2. \A name \in DOMAIN r : r[name] \in Nat
  BY BoundsAssumption
<1>3. own[1] \in Nat /\ own[2] \in Nat
  BY <1>1, Unpacks
<1>4. hi \in Nat /\ lo \in Nat /\ g \in Nat /\ v \in Nat /\ o \in Nat
  <2> HIDE DEF own
  <2> QED BY <1>1, <1>2, <1>3 DEF Named
<1>5. Fits(hi, lo)
  BY DEF MergeFits
<1>6. pack128(hi, lo) \in Words /\ unpack128(pack128(hi, lo)) = <<hi, lo>>
  <2> HIDE DEF hi, lo
  <2> QED BY <1>4, <1>5, PackFits, PackUnpacks
<1>7. op.initCode # <<>> => /\ SubSeq(op.initCode, 1, 2) \o SubSeq(op.initCode, 3, Len(op.initCode))
                                 = op.initCode
                            /\ SubSeq(op.initCode, 1, 2) # <<>>
  BY <1>1, CodeRoundTrip DEF Readable
<1>8. Paymaster # <<>>
  BY DEF Paymaster
<1>9. pack128(unpack128(op.gasFees)[1], unpack128(op.gasFees)[2]) = op.gasFees
  BY <1>1, Unpacks
<1>10. h = [WithData(packPaymasterAndData(Paymaster, v, o, <<>>)) EXCEPT !.paymasterAndData = SubSeq(@, 3, 4)]
  <2> DEFINE rpc == toRpcUserOp(op)
             asked == [rpc EXCEPT !.verificationGasLimit = Named(r, "verificationGasLimit", @),
                !.callGasLimit = Named(r, "callGasLimit", @),
                !.preVerificationGas = Named(r, "preVerificationGas", @),
                !.paymaster = Paymaster,
                !.paymasterVerificationGasLimit = v,
                !.paymasterPostOpGasLimit = o]
  <2>1. PICK factory, data :
          /\ rpc = [nonce |-> op.nonce, callData |-> op.callData,
                    factory |-> factory, factoryData |-> data,
                    verificationGasLimit |-> own[1], callGasLimit |-> own[2],
                    preVerificationGas   |-> op.preVerificationGas,
                    maxPriorityFeePerGas |-> unpack128(op.gasFees)[1],
                    maxFeePerGas         |-> unpack128(op.gasFees)[2],
                    paymaster |-> <<>>, paymasterVerificationGasLimit |-> 0,
                    paymasterPostOpGasLimit |-> 0, paymasterData |-> <<>>]
          /\ IF factory = <<>> THEN op.initCode = <<>> ELSE factory \o data = op.initCode
    <3>1. CASE op.initCode = <<>>
      BY <1>1, <3>1 DEF toRpcUserOp
    <3>2. CASE op.initCode # <<>>
      BY <1>1, <1>7, <3>2 DEF toRpcUserOp
    <3> QED BY <3>1, <3>2
  <2> DEFINE Rpc(ver, call, pre, pm, pmv, pmo) ==
               [nonce |-> op.nonce, callData |-> op.callData,
                factory |-> factory, factoryData |-> data,
                verificationGasLimit |-> ver, callGasLimit |-> call, preVerificationGas |-> pre,
                maxPriorityFeePerGas |-> unpack128(op.gasFees)[1],
                maxFeePerGas         |-> unpack128(op.gasFees)[2],
                paymaster |-> pm, paymasterVerificationGasLimit |-> pmv,
                paymasterPostOpGasLimit |-> pmo, paymasterData |-> <<>>]
             a1 == [rpc EXCEPT !.verificationGasLimit = Named(r, "verificationGasLimit", @),
                               !.callGasLimit = Named(r, "callGasLimit", @)]
             a2 == [a1 EXCEPT !.preVerificationGas = Named(r, "preVerificationGas", @),
                              !.paymaster = Paymaster]
             a3 == [a2 EXCEPT !.paymasterVerificationGasLimit = v, !.paymasterPostOpGasLimit = o]
  <2>3a. asked = a3
    OBVIOUS
  <2>3b. a1 = Rpc(hi, lo, op.preVerificationGas, <<>>, 0, 0)
    <3>1. rpc = Rpc(own[1], own[2], op.preVerificationGas, <<>>, 0, 0)
      BY <2>1
    <3> HIDE DEF rpc, own
    <3>2. a1 = [rpc EXCEPT !.verificationGasLimit = hi, !.callGasLimit = lo]
      BY <3>1
    <3> HIDE DEF a1, hi, lo
    <3> QED BY <3>1, <3>2
  <2> HIDE DEF a1, hi, lo, v, o
  <2>3c. a2 = Rpc(hi, lo, g, Paymaster, 0, 0)
    <3>1. a2 = [a1 EXCEPT !.preVerificationGas = g, !.paymaster = Paymaster]
      BY <2>3b
    <3> HIDE DEF a2, g
    <3> QED BY <2>3b, <3>1
  <2> HIDE DEF a2
  <2>3d. a3 = Rpc(hi, lo, g, Paymaster, v, o)
    <3>1. a3 = [a2 EXCEPT !.paymasterVerificationGasLimit = v, !.paymasterPostOpGasLimit = o]
      OBVIOUS
    <3> HIDE DEF a3, g
    <3> QED BY <2>3c, <3>1
  <2>3. asked = Rpc(hi, lo, g, Paymaster, v, o)
    BY <2>3a, <2>3d
  <2> HIDE DEF asked, hi, lo, g, v, o, rpc
  <2>4. fromRpcUserOp(asked) = WithData(packPaymasterAndData(Paymaster, v, o, <<>>))
    BY <1>8, <1>9, <2>1, <2>3 DEF fromRpcUserOp
  <2>5. h = PaymasterHash(fromRpcUserOp(asked))
    BY DEF PaymasterSigns, asked, rpc, v, o
  <2> HIDE DEF h
  <2> QED BY <2>4, <2>5 DEF PaymasterHash
<1>11. m = WithData(packPaymasterAndData(Paymaster, v, o, <<h>>))
  <2>1. [op EXCEPT !.paymasterAndData = <<>>] = op
    BY <1>1
  <2>2. m = mergeSponsorship(op, r, <<h>>)
    BY <2>1 DEF sponsorUserOp
  <2> HIDE DEF m, h
  <2>3. mergeSponsorship(op, r, <<h>>)
          = [op EXCEPT !.accountGasLimits = pack128(hi, lo), !.preVerificationGas = g,
                       !.paymasterAndData = packPaymasterAndData(Paymaster, v, o, <<h>>)]
    BY DEF mergeSponsorship
  <2> HIDE DEF hi, lo, g, v, o
  <2> QED BY <1>1, <2>2, <2>3
<1> HIDE DEF hi, lo, g, v, o, h, m, own
<1>13. SubSeq(packPaymasterAndData(Paymaster, v, o, <<>>), 3, 4) = <<v, o>>
  <2> DEFINE none == <<>>
  <2>1. none \in Seq(Cell) /\ Len(none) <= 1
    OBVIOUS
  <2> HIDE DEF none
  <2>2. SubSeq(packPaymasterAndData(Paymaster, v, o, none), 3, 4) = <<v, o>>
    BY <1>4, <2>1, Header
  <2> QED BY <2>2 DEF none
<1>14. h = WithData(<<v, o>>)
  BY <1>10, <1>13
<1>15. h \in Hashed
  BY <1>1, <1>4, <1>6, <1>14 DEF Hashed, OpsWith
<1> DEFINE one == <<h>>
           d == packPaymasterAndData(Paymaster, v, o, one)
<1>16. one \in Seq(Cell) /\ Len(one) = 1 /\ one[1] = h
  BY <1>15 DEF Cell
<1>18. m = WithData(d)
  BY <1>11
<1> HIDE DEF one
<1>17. d \in Seq(Cell) /\ Len(d) = 5 /\ SubSeq(d, 3, 4) = <<v, o>> /\ d[5] = h
  <2>1. Len(one) <= 1
    BY <1>16
  <2>2. /\ d \in Seq(Cell) /\ Len(d) = 4 + Len(one) /\ SubSeq(d, 3, 4) = <<v, o>>
        /\ Len(one) = 1 => d[5] = one[1]
    BY <1>4, <1>16, <2>1, Header
  <2> HIDE DEF d
  <2> QED BY <1>16, <2>2
<1> HIDE DEF d
<1>19. m \in OpRec
  <2>1. d \in {b \in Seq(Cell) : Len(b) \in 0 .. 5}
    <3>1. Len(d) \in 0 .. 5
      BY <1>17
    <3> QED BY <1>17, <3>1
  <2> QED BY <1>1, <1>4, <1>6, <1>18, <2>1 DEF OpRec, OpsWith
<1>20. PaymasterAgrees(m)
  <2>1. m.paymasterAndData = d
    BY <1>18
  <2>2. PaymasterHash(m) = [m EXCEPT !.paymasterAndData = <<v, o>>]
    BY <1>17, <2>1 DEF PaymasterHash
  <2>3. [m EXCEPT !.paymasterAndData = <<v, o>>] = WithData(<<v, o>>)
    BY <1>18
  <2>4. m.paymasterAndData[5] = PaymasterHash(m)
    BY <1>14, <1>17, <2>1, <2>2, <2>3
  <2> QED BY <1>17, <2>1, <2>4 DEF PaymasterAgrees
<1>21. own = <<limits[1], limits[2]>> /\ unpack128(op.gasFees) = <<limits[3], limits[4]>>
  BY DEF LimitsHeld, own
<1>22. LimitsNamed(limits, r) = <<hi, lo, limits[3], limits[4]>>
  BY <1>21 DEF LimitsNamed, hi, lo
<1>23. LimitsHeld(m, LimitsNamed(limits, r))
  BY <1>6, <1>18, <1>21, <1>22 DEF LimitsHeld
<1>24. LimitsNamed(limits, r) \in Limits
  BY <1>4, <1>22 DEF Limits
<1> QED BY <1>19, <1>20, <1>23, <1>24 DEF m

LEMMA Owners == IInv => Owner \in Keys
BY KeysAssumption DEF IInv, Types, Owner

-----------------------------------------------------------------------------
(* A handler's step that signs nothing and submits nothing. *)
LEMMA HandlerStep ==
  ASSUME IInv, NEW p \in Procs, NEW l, NEW ds,
         NEW step \in {"idle", "build", "sponsor", "send", "save"},
         Goto(p, step, l, ds), HoldsAt(step, l, ds), step = "save" => Screened(l),
         UNCHANGED <<listed, signed, mempool, deployed, owner, nonce, allowed, bundle, running>>,
         records' \in SUBSET OpRec, sends' \in 0 .. MaxSends
  PROVE  IInv'
<1>1. /\ pc' = [pc EXCEPT ![p] = step] /\ loc' = [loc EXCEPT ![p] = l]
      /\ left' = [left EXCEPT ![p] = ds]
  BY DEF Goto
<1>2. Types'
  BY <1>1 DEF IInv, Types
<1>3. /\ pc'[p] = step /\ loc'[p] = l /\ left'[p] = ds
      /\ \A q \in Procs \ {p} : pc'[q] = pc[q] /\ loc'[q] = loc[q] /\ left'[q] = left[q]
  BY <1>1 DEF IInv, Types
<1>4. ASSUME NEW q \in Procs
      PROVE  Holds(q)' /\ (pc[q] = "save" => Screened(loc[q]))'
  <2>1. CASE q = p
    BY <1>3, <2>1 DEF Holds, HoldsAt, Screened
  <2>2. CASE q # p
    BY <1>3, <2>2 DEF IInv, Holds, HoldsAt, Screened
  <2> QED BY <2>1, <2>2
<1>5. SignedOK' /\ (\A o \in mempool' : Screened(o)') /\ OldKeyStops'
  BY DEF IInv, SignedOK, Screened, OldKeyStops
<1>6. \A i \in 1 .. Len(bundle') : Screened(bundle[i])'
  BY DEF IInv, Screened
<1> QED BY <1>2, <1>4, <1>5, <1>6 DEF IInv

LEMMA BuildStep ==
  ASSUME IInv, NEW p \in Procs,
         \/ \E c \in UNION CallDatas : BuildBegins(p, c)
         \/ \E e \in Estimates, price \in Prices, code \in Codes : BuildReads(p, e, price, code)
  PROVE  IInv'
<1>1. ASSUME NEW c \in UNION CallDatas, BuildBegins(p, c) PROVE IInv'
  <2> DEFINE l == [NoSigned EXCEPT !.op.callData = {c}]
  <2>1. /\ {c} \in CallDatas /\ Goto(p, "build", l, Destinations({c}))
        /\ UNCHANGED <<listed, signed, mempool, records, sends, deployed, owner, nonce, allowed,
                       bundle, running>>
    BY <1>1 DEF BuildBegins, chain
  <2>2. l.op.callData = {c}
    BY DEF NoSigned, NoOp
  <2>3. l = [NoSigned EXCEPT !.op.callData = l.op.callData]
    BY <2>2
  <2> HIDE DEF l
  <2>4. HoldsAt("build", l, Destinations({c}))
    BY <2>1, <2>2, <2>3 DEF HoldsAt
  <2>5. records' \in SUBSET OpRec /\ sends' \in 0 .. MaxSends
    BY <2>1 DEF IInv, Types
  <2> QED BY <2>1, <2>4, <2>5, HandlerStep
<1>2. ASSUME NEW e \in Estimates, NEW price \in Prices, NEW code \in Codes,
             BuildReads(p, e, price, code)
      PROVE  IInv'
  <2> DEFINE a == IF code # <<>> THEN 3 ELSE 1
             b == e + 1
             c == price \div 2
             d == price * 2
             words  == pack128(a, b)
             fees   == pack128(c, d)
             limits == <<a, b, c, d>>
             op == [loc[p].op EXCEPT !.nonce = getNonce, !.initCode = code,
                                     !.accountGasLimits = words, !.preVerificationGas = 1,
                                     !.gasFees = fees]
             l  == [loc[p] EXCEPT !.op = [@ EXCEPT !.nonce = getNonce, !.initCode = code,
                                                   !.accountGasLimits = words,
                                                   !.preVerificationGas = 1, !.gasFees = fees],
                                  !.limits = limits]
  <2>1. /\ pc[p] = "build" /\ Fits(a, b) /\ Fits(c, d) /\ Goto(p, "sponsor", l, {})
        /\ UNCHANGED <<listed, signed, mempool, records, sends, deployed, owner, nonce, allowed,
                       bundle, running>>
    BY <1>2 DEF BuildReads, chain
  <2>2. a \in Nat /\ b \in Nat /\ c \in Nat /\ d \in Nat
    BY BoundsAssumption
  <2> HIDE DEF a, b, c, d
  <2>3. /\ words \in Words /\ unpack128(words) = <<a, b>>
        /\ fees \in Words /\ unpack128(fees) = <<c, d>>
    BY <2>1, <2>2, PackFits, PackUnpacks
  <2>4. getNonce \in 0 .. MaxNonce
    BY DEF IInv, Types, getNonce
  <2> HIDE DEF words, fees
  <2>5. PICK cd \in CallDatas : loc[p] = [NoSigned EXCEPT !.op.callData = cd]
    BY <2>1 DEF IInv, Holds, HoldsAt
  <2>6. /\ l.op = [nonce |-> getNonce, callData |-> cd, initCode |-> code,
                   accountGasLimits |-> words, preVerificationGas |-> 1, gasFees |-> fees,
                   paymasterAndData |-> <<>>]
        /\ l.limits = limits
    <3> DEFINE With(n, i, w, v, g) ==
                 [nonce |-> n, callData |-> cd, initCode |-> i, accountGasLimits |-> w,
                  preVerificationGas |-> v, gasFees |-> g, paymasterAndData |-> <<>>]
               zero == <<0, 0, 0, 0>>
               base == loc[p].op
               op1 == [base EXCEPT !.nonce = getNonce]
               op2 == [op1 EXCEPT !.initCode = code]
               op3 == [op2 EXCEPT !.accountGasLimits = words]
               op4 == [op3 EXCEPT !.preVerificationGas = 1]
               op5 == [op4 EXCEPT !.gasFees = fees]
    <3>1. NoSigned = [op |-> NoOp, by |-> FirstOwner, of |-> NoOp, limits |-> zero, barred |-> {}]
      BY DEF NoSigned
    <3> HIDE DEF zero
    <3>2. [NoOp EXCEPT !.callData = cd] = With(0, <<>>, 0, 0, 0)
      BY DEF NoOp
    <3>3. loc[p] = [op |-> With(0, <<>>, 0, 0, 0), by |-> FirstOwner, of |-> NoOp,
                    limits |-> zero, barred |-> {}]
      BY <2>5, <3>1, <3>2
    <3>4. base = With(0, <<>>, 0, 0, 0)
      BY <3>3
    <3>5. op = op5
      OBVIOUS
    <3>6. l = [loc[p] EXCEPT !.op = op, !.limits = limits]
      OBVIOUS
    <3> HIDE DEF base, op, l, limits, getNonce
    <3>7. op2 = With(getNonce, code, 0, 0, 0)
      <4>1. op1 = With(getNonce, <<>>, 0, 0, 0)
        BY <3>4
      <4> HIDE DEF op1
      <4> QED BY <4>1
    <3> HIDE DEF op2
    <3>8. op4 = With(getNonce, code, words, 1, 0)
      <4>1. op3 = With(getNonce, code, words, 0, 0)
        BY <3>7
      <4> HIDE DEF op3
      <4> QED BY <4>1
    <3> HIDE DEF op4
    <3>9. op5 = With(getNonce, code, words, 1, fees)
      BY <3>8
    <3> HIDE DEF op5
    <3>10. l.op = op /\ l.limits = limits
      BY <3>3, <3>6
    <3> QED BY <3>5, <3>9, <3>10
  <2> HIDE DEF l
  <2>7. l.op \in Plain
    BY <2>3, <2>4, <2>5, <2>6 DEF Plain, OpsWith
  <2>8. limits \in Limits
    BY <2>2 DEF Limits
  <2>9. LimitsHeld(l.op, limits)
    BY <2>3, <2>6 DEF LimitsHeld
  <2>10. HoldsAt("sponsor", l, {})
    <3> HIDE DEF limits
    <3> QED BY <2>6, <2>7, <2>8, <2>9 DEF HoldsAt
  <2>11. records' \in SUBSET OpRec /\ sends' \in 0 .. MaxSends
    BY <2>1 DEF IInv, Types
  <2> QED BY <2>1, <2>10, <2>11, HandlerStep
<1> QED BY <1>1, <1>2

(* A lookup that finds nothing: an address that was listed all the time is not
   the one. *)
LEMMA ScreenStep ==
  ASSUME IInv, NEW p \in Procs, NEW d \in left[p], Screen(p, d)
  PROVE  IInv'
<1>1. /\ pc[p] \in {"build", "send"} /\ d \notin listed
      /\ Goto(p, pc[p], loc[p], left[p] \ {d})
      /\ UNCHANGED <<listed, signed, mempool, records, sends, deployed, owner, nonce, allowed,
                     bundle, running>>
  BY DEF Screen, chain
<1>2. HoldsAt(pc[p], loc[p], left[p] \ {d})
  BY <1>1 DEF IInv, Holds, HoldsAt
<1>3. records' \in SUBSET OpRec /\ sends' \in 0 .. MaxSends
  BY <1>1 DEF IInv, Types
<1> QED BY <1>1, <1>2, <1>3, HandlerStep

(* The hash is made of the operation as it is sponsored, or not. *)
LEMMA BuildEndsStep ==
  ASSUME IInv, NEW p \in Procs, BuildEnds(p)
  PROVE  IInv'
<1>1. /\ pc[p] = "sponsor" /\ Goto(p, "idle", NoSigned, {})
      /\ UNCHANGED <<listed, mempool, records, sends, deployed, owner, nonce, allowed, bundle, running>>
  BY DEF BuildEnds, Done, chain
<1>2. loc[p].op \in Plain /\ loc[p].limits \in Limits /\ LimitsHeld(loc[p].op, loc[p].limits)
  BY <1>1 DEF IInv, Holds, HoldsAt
<1>3. \E op \in OpRec, limits \in Limits :
        /\ PaymasterAgrees(op) /\ LimitsHeld(op, limits)
        /\ signed' = signed \cup {Sign(op, Hash(op), limits)}
  <2>1. CASE signed' = signed \cup {Sign(loc[p].op, Hash(loc[p].op), loc[p].limits)}
    <3>1. PaymasterAgrees(loc[p].op)
      BY <1>2 DEF Plain, OpsWith, PaymasterAgrees
    <3>2. <<>> \in {d \in Seq(Cell) : Len(d) \in 0 .. 5}
      BY EmptySeq
    <3>3. loc[p].op \in OpRec
      BY <1>2, <3>2 DEF Plain, OpRec, OpsWith
    <3> QED BY <1>2, <2>1, <3>1, <3>3
  <2>2. ASSUME Readable(loc[p].op), NEW r \in Sponsorships, MergeFits(loc[p].op, r),
               signed' = signed \cup {Sign(sponsorUserOp(loc[p].op, r),
                                           Hash(sponsorUserOp(loc[p].op, r)),
                                           LimitsNamed(loc[p].limits, r))}
        PROVE  \E op \in OpRec, limits \in Limits :
                 /\ PaymasterAgrees(op) /\ LimitsHeld(op, limits)
                 /\ signed' = signed \cup {Sign(op, Hash(op), limits)}
    <3> DEFINE op == sponsorUserOp(loc[p].op, r)
               limits == LimitsNamed(loc[p].limits, r)
    <3>1. op \in OpRec /\ PaymasterAgrees(op) /\ LimitsHeld(op, limits) /\ limits \in Limits
      BY <1>2, <2>2, Merged
    <3>2. signed' = signed \cup {Sign(op, Hash(op), limits)}
      BY <2>2
    <3> HIDE DEF op, limits
    <3> QED BY <3>1, <3>2
  <2> QED BY <2>1, <2>2 DEF BuildEnds
<1>4. PICK op \in OpRec, limits \in Limits :
        /\ PaymasterAgrees(op) /\ LimitsHeld(op, limits)
        /\ signed' = signed \cup {Sign(op, Hash(op), limits)}
  BY <1>3
<1> DEFINE s == Sign(op, Hash(op), limits)
<1>5. s \in SignedRec /\ s.of = s.op /\ LimitsHeld(s.op, s.limits) /\ PaymasterAgrees(s.op)
  BY <1>4, Owners DEF Sign, Hash, SignedRec
<1> HIDE DEF s
<1>6. signed' = signed \cup {s}
  BY <1>4 DEF s
<1>7. /\ pc' = [pc EXCEPT ![p] = "idle"] /\ loc' = [loc EXCEPT ![p] = NoSigned]
      /\ left' = [left EXCEPT ![p] = {}]
  BY <1>1 DEF Goto
<1>8. Types'
  BY <1>1, <1>5, <1>6, <1>7 DEF IInv, Types
<1>9. /\ pc'[p] = "idle" /\ left'[p] = {}
      /\ \A q \in Procs \ {p} : pc'[q] = pc[q] /\ loc'[q] = loc[q] /\ left'[q] = left[q]
  BY <1>7 DEF IInv, Types
<1>10. ASSUME NEW q \in Procs
       PROVE  Holds(q)' /\ (pc[q] = "save" => Screened(loc[q]))'
  <2>1. CASE q = p
    BY <1>9, <2>1 DEF Holds, HoldsAt
  <2>2. CASE q # p
    BY <1>1, <1>9, <2>2 DEF IInv, Holds, HoldsAt, Screened
  <2> QED BY <2>1, <2>2
<1>11. SignedOK'
  BY <1>5, <1>6 DEF IInv, SignedOK
<1>12. (\A o \in mempool' : Screened(o)') /\ OldKeyStops'
  BY <1>1 DEF IInv, Screened, OldKeyStops
<1>13. \A i \in 1 .. Len(bundle') : Screened(bundle[i])'
  BY <1>1 DEF IInv, Screened
<1> QED BY <1>8, <1>10, <1>11, <1>12, <1>13 DEF IInv

(* What a client sends is an operation, whatever it changed in it. *)
LEMMA SentIsSigned ==
  ASSUME IInv, NEW s \in signed, NEW cd \in CallDatas,
         NEW n \in 0 .. Len(s.op.paymasterAndData)
  PROVE  /\ Sent(s, cd, n) \in SignedRec
         /\ Sent(s, cd, n).op.callData = cd
         /\ Sent(s, cd, n).barred = Destinations(cd) \cap listed
<1> DEFINE data   == SubSeq(s.op.paymasterAndData, 1, n)
           op     == [s.op EXCEPT !.callData = cd, !.paymasterAndData = data]
           barred == Destinations(cd) \cap listed
           base   == IF op = s.op THEN s ELSE Sign(op, Hash(op), s.limits)
<1>1. /\ s \in SignedRec /\ s.op \in OpRec /\ s.limits \in Limits
      /\ s.op.paymasterAndData \in Seq(Cell) /\ Len(s.op.paymasterAndData) \in 0 .. 5
  BY DEF IInv, Types, SignedRec, OpRec, OpsWith
<1>2. data \in Seq(Cell) /\ Len(data) \in 0 .. 5
  <2>1. \A i \in 1 .. n : s.op.paymasterAndData[i] \in Cell
    BY <1>1, ElementOfSeq
  <2>2. n \in 0 .. 5
    <3> DEFINE k == Len(s.op.paymasterAndData)
    <3>1. k \in 0 .. 5 /\ n \in 0 .. k
      BY <1>1
    <3> HIDE DEF k
    <3> QED BY <3>1
  <2>3. data \in Seq(Cell) /\ Len(data) = IF 1 <= n THEN n - 1 + 1 ELSE 0
    BY <2>1, <2>2, SubSeqProperties
  <2> QED BY <2>2, <2>3
<1>3. Sent(s, cd, n) = [base EXCEPT !.barred = barred]
  BY DEF Sent
<1> HIDE DEF data
<1>4. op \in OpRec /\ op.callData = cd
  BY <1>1, <1>2 DEF OpRec, OpsWith
<1> HIDE DEF op
<1>5. base \in SignedRec /\ base.op = op
  <2>1. CASE op = s.op
    BY <1>1, <2>1
  <2>2. CASE op # s.op
    BY <1>1, <1>4, <2>2, Owners DEF Sign, Hash, SignedRec
  <2> QED BY <2>1, <2>2
<1> HIDE DEF base
<1>6. barred \in SUBSET (Addresses \cup {Account})
  BY DEF IInv, Types
<1> HIDE DEF barred
<1>7. /\ [base EXCEPT !.barred = barred] \in SignedRec
      /\ [base EXCEPT !.barred = barred].op = op
      /\ [base EXCEPT !.barred = barred].barred = barred
  BY <1>5, <1>6 DEF SignedRec
<1> QED BY <1>3, <1>4, <1>7 DEF barred

LEMMA SendStep ==
  ASSUME IInv, NEW p \in Procs,
         \/ \E s \in signed, cd \in CallDatas :
              \E n \in 0 .. Len(s.op.paymasterAndData) : SendBegins(p, s, cd, n)
         \/ SendSaves(p) \/ Abort(p)
  PROVE  IInv'
<1>1. ASSUME NEW s \in signed, NEW cd \in CallDatas, NEW n \in 0 .. Len(s.op.paymasterAndData),
             SendBegins(p, s, cd, n)
      PROVE  IInv'
  <2> DEFINE l == Sent(s, cd, n)
  <2>1. /\ sends < MaxSends /\ sends' = sends + 1
        /\ Goto(p, "send", l, Destinations(cd))
        /\ UNCHANGED <<listed, signed, mempool, records, deployed, owner, nonce, allowed, bundle,
                       running>>
    BY <1>1 DEF SendBegins, chain
  <2>2. l \in SignedRec /\ l.op.callData = cd /\ l.barred = Destinations(cd) \cap listed
    BY SentIsSigned
  <2> HIDE DEF l
  <2>3. HoldsAt("send", l, Destinations(cd))
    BY <2>2 DEF HoldsAt
  <2>4. records' \in SUBSET OpRec /\ sends' \in 0 .. MaxSends
    BY <2>1, Widths DEF IInv, Types
  <2> QED BY <2>1, <2>3, <2>4, HandlerStep
<1>2. CASE SendSaves(p)
  <2>1. /\ pc[p] = "save" /\ records' = records \cup {loc[p].of} /\ Goto(p, "idle", NoSigned, {})
        /\ UNCHANGED <<listed, signed, mempool, sends, deployed, owner, nonce, allowed, bundle, running>>
    BY <1>2 DEF SendSaves, Done, chain
  <2>2. loc[p].of \in OpRec
    BY <2>1 DEF IInv, Holds, HoldsAt, SignedRec
  <2>3. records' \in SUBSET OpRec /\ sends' \in 0 .. MaxSends
    BY <2>1, <2>2 DEF IInv, Types
  <2>4. HoldsAt("idle", NoSigned, {})
    BY DEF HoldsAt
  <2> QED BY <2>1, <2>3, <2>4, HandlerStep
<1>3. CASE Abort(p)
  <2>1. /\ Goto(p, "idle", NoSigned, {})
        /\ UNCHANGED <<listed, signed, mempool, records, sends, deployed, owner, nonce, allowed,
                       bundle, running>>
    BY <1>3 DEF Abort, Done, chain
  <2>2. records' \in SUBSET OpRec /\ sends' \in 0 .. MaxSends
    BY <2>1 DEF IInv, Types
  <2>3. HoldsAt("idle", NoSigned, {})
    BY DEF HoldsAt
  <2> QED BY <2>1, <2>2, <2>3, HandlerStep
<1> QED BY <1>1, <1>2, <1>3

(* The bundler has what was screened to the last destination. *)
LEMMA SubmitStep ==
  ASSUME IInv, NEW p \in Procs, SendSubmits(p)
  PROVE  IInv'
<1>1. /\ pc[p] = "send" /\ left[p] = {} /\ Readable(loc[p].op) /\ Goto(p, "save", loc[p], {})
      /\ mempool' = mempool \cup {[loc[p] EXCEPT !.op = fromRpcUserOp(toRpcUserOp(@))]}
      /\ UNCHANGED <<listed, signed, records, sends, deployed, owner, nonce, allowed, bundle, running>>
  BY DEF SendSubmits, chain
<1>2. loc[p] \in SignedRec /\ Screened(loc[p])
  BY <1>1 DEF IInv, Holds, HoldsAt, Screened
<1>3. mempool' = mempool \cup {loc[p]}
  <2>1. fromRpcUserOp(toRpcUserOp(loc[p].op)) = loc[p].op
    BY <1>1, <1>2, RoundTrip DEF SignedRec
  <2> QED BY <1>1, <1>2, <2>1 DEF SignedRec
<1>4. /\ pc' = [pc EXCEPT ![p] = "save"] /\ loc' = [loc EXCEPT ![p] = loc[p]]
      /\ left' = [left EXCEPT ![p] = {}]
  BY <1>1 DEF Goto
<1>5. Types'
  BY <1>1, <1>2, <1>3, <1>4 DEF IInv, Types
<1>6. /\ pc'[p] = "save" /\ left'[p] = {} /\ \A q \in Procs : loc'[q] = loc[q]
      /\ \A q \in Procs \ {p} : pc'[q] = pc[q] /\ left'[q] = left[q]
  BY <1>4 DEF IInv, Types
<1>7. ASSUME NEW q \in Procs
      PROVE  Holds(q)' /\ (pc[q] = "save" => Screened(loc[q]))'
  <2>1. CASE q = p
    BY <1>1, <1>2, <1>6, <2>1 DEF Holds, HoldsAt, Screened
  <2>2. CASE q # p
    BY <1>1, <1>6, <2>2 DEF IInv, Holds, HoldsAt, Screened
  <2> QED BY <2>1, <2>2
<1>8. SignedOK' /\ OldKeyStops'
  BY <1>1 DEF IInv, SignedOK, OldKeyStops
<1>9. \A o \in mempool' : Screened(o)'
  BY <1>1, <1>2, <1>3 DEF IInv, Screened
<1>10. \A i \in 1 .. Len(bundle') : Screened(bundle[i])'
  BY <1>1 DEF IInv, Screened
<1> QED BY <1>5, <1>7, <1>8, <1>9, <1>10 DEF IInv

-----------------------------------------------------------------------------
(* A step of the chain leaves the backend alone. *)
LEMMA ChainStep ==
  ASSUME IInv, UNCHANGED <<listed, signed, records, pc, loc, left, sends>>,
         mempool' \subseteq mempool, deployed' \in BOOLEAN, owner' \in Keys, nonce' \in 0 .. MaxNonce,
         allowed' \in BOOLEAN, running' \in BOOLEAN,
         bundle' \in Seq(SignedRec), Len(bundle') <= nonce', bundle' # <<>> => deployed',
         \A i \in 1 .. Len(bundle') : /\ Screened(bundle'[i])
                                      /\ bundle'[i].by # owner' => running'
  PROVE  IInv'
<1>1. Types'
  BY DEF IInv, Types
<1>2. \A p \in Procs : Holds(p)' /\ (pc[p] = "save" => Screened(loc[p]))'
  BY DEF IInv, Holds, HoldsAt, Screened
<1>3. SignedOK' /\ OldKeyStops' /\ \A o \in mempool' : Screened(o)'
  BY DEF IInv, SignedOK, OldKeyStops, Screened
<1>4. \A i \in 1 .. Len(bundle') : Screened(bundle[i])'
  BY DEF Screened
<1> QED BY <1>1, <1>2, <1>3, <1>4 DEF IInv

(* The EntryPoint validates for the owner of the moment: until the bundle runs,
   nobody changes it. *)
LEMMA ValidatesStep ==
  ASSUME IInv, NEW o \in mempool, HandleValidates(o)
  PROVE  IInv'
<1>1. /\ ~running /\ nonce < MaxNonce /\ o.by = Owner
      /\ mempool' = mempool \ {o} /\ deployed' = TRUE /\ owner' = Owner /\ nonce' = nonce + 1
      /\ bundle' = Append(bundle, o)
      /\ UNCHANGED <<listed, signed, records, pc, loc, left, sends, allowed, running>>
  BY DEF HandleValidates, Valid, ValidSignature, backend
<1>2. o \in SignedRec /\ Screened(o) /\ bundle \in Seq(SignedRec)
  BY DEF IInv, Types
<1>3. /\ bundle' \in Seq(SignedRec) /\ Len(bundle') = Len(bundle) + 1
      /\ \A i \in 1 .. Len(bundle) : bundle'[i] = bundle[i]
      /\ bundle'[Len(bundle) + 1] = o
  BY <1>1, <1>2, AppendProperties
<1>4. Len(bundle) \in Nat
  BY <1>2, LenProperties
<1>5. \A i \in 1 .. Len(bundle) : bundle[i].by = Owner
  <2>1. CASE bundle = <<>>
    BY <2>1
  <2>2. CASE bundle # <<>>
    BY <1>1, <2>2 DEF IInv, Types, OldKeyStops, Owner
  <2> QED BY <2>1, <2>2
<1>6. ASSUME NEW i \in 1 .. Len(bundle') PROVE Screened(bundle'[i]) /\ bundle'[i].by = owner'
  <2>1. CASE i = Len(bundle) + 1
    BY <1>1, <1>2, <1>3, <2>1
  <2>2. CASE i # Len(bundle) + 1
    <3>1. i \in 1 .. Len(bundle)
      BY <1>3, <1>4, <2>2
    <3> QED BY <1>1, <1>3, <1>5, <3>1 DEF IInv
  <2> QED BY <2>1, <2>2
<1>7. nonce' \in 0 .. MaxNonce /\ Len(bundle') <= nonce'
  BY <1>1, <1>3, <1>4, Widths DEF IInv, Types
<1>8. owner' \in Keys /\ allowed' \in BOOLEAN /\ running' \in BOOLEAN
  BY <1>1, Owners DEF IInv, Types
<1> QED BY <1>1, <1>3, <1>6, <1>7, <1>8, ChainStep

(* Once the first has been executed, the bundle runs until it is empty. *)
LEMMA ExecutesStep ==
  ASSUME IInv, HandleExecutes
  PROVE  IInv'
<1>1. /\ bundle # <<>> /\ owner' \in OwnersAfter(Head(bundle).op.callData)
      /\ bundle' = Tail(bundle) /\ running' = (Len(bundle) > 1)
      /\ UNCHANGED <<listed, signed, records, pc, loc, left, sends, mempool, deployed, nonce, allowed>>
  BY DEF HandleExecutes, backend
<1>2. bundle \in Seq(SignedRec) /\ Len(bundle) \in Nat
  BY LenProperties DEF IInv, Types
<1>3. /\ Head(bundle) \in SignedRec /\ bundle' \in Seq(SignedRec)
      /\ Len(bundle') = Len(bundle) - 1
      /\ \A i \in 1 .. Len(bundle') : bundle'[i] = bundle[i + 1]
  BY <1>1, <1>2, HeadTailProperties
<1>4. owner' \in Keys
  <2>1. Head(bundle).op.callData \in SUBSET Call
    BY <1>3, CallDatasAssumption DEF SignedRec, OpRec, OpsWith
  <2>2. \A c \in Call : c.newOwner \in Keys \cup {NoKey}
    BY DEF Call
  <2> QED BY <1>1, <2>1, <2>2 DEF OwnersAfter, IInv, Types
<1>5. ASSUME NEW i \in 1 .. Len(bundle') PROVE Screened(bundle'[i]) /\ running'
  <2>1. i + 1 \in 1 .. Len(bundle) /\ Len(bundle) > 1
    BY <1>2, <1>3
  <2> QED BY <1>1, <1>3, <2>1 DEF IInv
<1>6. /\ Len(bundle') <= nonce' /\ nonce' \in 0 .. MaxNonce /\ running' \in BOOLEAN
      /\ deployed' \in BOOLEAN /\ deployed' /\ allowed' \in BOOLEAN
  BY <1>1, <1>2, <1>3 DEF IInv, Types
<1> QED BY <1>1, <1>3, <1>4, <1>5, <1>6, ChainStep

LEMMA OwnerStep ==
  ASSUME IInv, createAccount \/ setSponsorshipStatus \/ \E k \in Keys : updateOwner(k)
  PROVE  IInv'
<1>1. /\ bundle = <<>> /\ owner' \in Keys /\ deployed' \in BOOLEAN /\ allowed' \in BOOLEAN
      /\ UNCHANGED <<listed, signed, records, pc, loc, left, sends, mempool, nonce, bundle, running>>
  BY KeysAssumption DEF createAccount, setSponsorshipStatus, updateOwner, backend, IInv, Types
<1>2. Len(bundle') = 0 /\ nonce' \in 0 .. MaxNonce /\ running' \in BOOLEAN /\ bundle' \in Seq(SignedRec)
  BY <1>1 DEF IInv, Types
<1>3. Len(bundle') <= nonce' /\ bundle' = <<>> /\ 1 .. Len(bundle') = {}
  BY <1>1, <1>2
<1> QED BY <1>1, <1>2, <1>3, ChainStep

(* A sync lifts what it takes off the list, and bars nothing new. *)
LEMMA SyncStep ==
  ASSUME IInv, NEW list \in Lists, Sync(list)
  PROVE  IInv'
<1> DEFINE l(p) == [loc[p] EXCEPT !.barred = @ \cap list]
<1>1. /\ listed' = list
      /\ loc' = [p \in Procs |-> IF pc[p] = "send" THEN l(p) ELSE loc[p]]
      /\ UNCHANGED <<signed, records, pc, left, sends, mempool, deployed, owner, nonce, allowed,
                     bundle, running>>
  BY DEF Sync, chain
<1>2. Types'
  BY <1>1, ListsAssumption DEF IInv, Types
<1>3. ASSUME NEW p \in Procs PROVE Holds(p)' /\ (pc[p] = "save" => Screened(loc[p]))'
  <2>1. CASE pc[p] = "send"
    <3>1. loc[p] \in SignedRec /\ loc[p].barred \subseteq left[p]
          /\ left[p] \subseteq Destinations(loc[p].op.callData)
      BY <2>1 DEF IInv, Holds, HoldsAt
    <3>2. l(p) \in SignedRec /\ l(p).barred = loc[p].barred \cap list /\ l(p).op = loc[p].op
      BY <3>1 DEF SignedRec
    <3>3. pc'[p] = "send" /\ loc'[p] = l(p) /\ left'[p] = left[p]
      BY <1>1, <2>1
    <3> QED BY <1>1, <3>1, <3>2, <3>3 DEF Holds, HoldsAt
  <2>2. CASE pc[p] # "send"
    <3>1. loc'[p] = loc[p] /\ pc'[p] = pc[p] /\ left'[p] = left[p]
      BY <1>1, <2>2
    <3> QED BY <2>2, <3>1 DEF IInv, Holds, HoldsAt, Screened
  <2> QED BY <2>1, <2>2
<1>4. SignedOK' /\ OldKeyStops' /\ \A o \in mempool' : Screened(o)'
  BY <1>1 DEF IInv, SignedOK, OldKeyStops, Screened
<1>5. \A i \in 1 .. Len(bundle') : Screened(bundle[i])'
  BY <1>1 DEF IInv, Screened
<1> QED BY <1>2, <1>3, <1>4, <1>5 DEF IInv

-----------------------------------------------------------------------------
LEMMA InitIInv == Init => IInv
<1> SUFFICES ASSUME Init PROVE IInv
  OBVIOUS
<1>1. /\ listed = {} /\ signed = {} /\ mempool = {} /\ records = {}
      /\ pc = [p \in Procs |-> "idle"] /\ loc = [p \in Procs |-> NoSigned]
      /\ left = [p \in Procs |-> {}] /\ sends = 0
      /\ deployed = FALSE /\ owner = FirstOwner /\ nonce = 0 /\ allowed \in BOOLEAN
      /\ bundle = <<>> /\ running = FALSE
  BY DEF Init
<1>2. <<>> \in Seq(SignedRec) /\ Len(<<>>) = 0 /\ 0 \in 0 .. MaxNonce /\ 0 \in 0 .. MaxSends /\ 1 .. 0 = {}
  BY EmptySeq, Widths
<1>3. /\ pc \in [Procs -> {"idle", "build", "sponsor", "send", "save"}]
      /\ loc = [p \in Procs |-> loc[p]] /\ left = [p \in Procs |-> left[p]]
      /\ \A p \in Procs : pc[p] = "idle" /\ left[p] = {}
  BY <1>1
<1>4. Types
  <2>1. /\ records \in SUBSET OpRec /\ bundle \in Seq(SignedRec) /\ sends \in 0 .. MaxSends
        /\ Len(bundle) <= nonce /\ nonce \in 0 .. MaxNonce
    BY <1>1, <1>2
  <2>2. /\ listed \in SUBSET Addresses /\ bundle = <<>>
        /\ signed \in SUBSET SignedRec /\ mempool \in SUBSET SignedRec
        /\ deployed \in BOOLEAN /\ owner \in Keys /\ allowed \in BOOLEAN /\ running \in BOOLEAN
    BY <1>1, KeysAssumption
  <2> QED BY <1>3, <2>1, <2>2 DEF Types
<1> QED BY <1>1, <1>2, <1>3, <1>4 DEF IInv, Holds, HoldsAt, SignedOK, OldKeyStops

LEMMA NextIInv == IInv /\ [Next]_vars => IInv'
<1> SUFFICES ASSUME IInv, [Next]_vars PROVE IInv'
  OBVIOUS
<1>1. CASE UNCHANGED vars
  BY <1>1, ChainStep DEF vars, IInv, Types, OldKeyStops
<1> QED BY <1>1, BuildStep, ScreenStep, BuildEndsStep, SendStep, SubmitStep, ValidatesStep,
           ExecutesStep, OwnerStep, SyncStep DEF Next, Codes

LEMMA Invariance == Spec => []IInv
BY InitIInv, NextIInv, PTL DEF Spec

-----------------------------------------------------------------------------
(* Every variable keeps its type: whatever limits are estimated, or named by the
   paymaster, an operation's packed words hold them. *)
THEOREM UserOpsTypeCorrect == Spec => []TypeOK
<1>1. ASSUME NEW op \in OpRec PROVE IsOp(op)
  <2>1. Len(op.paymasterAndData) \in 0 .. 5
    BY DEF OpRec, OpsWith
  <2>2. Len(op.paymasterAndData) <= 5
    <3> DEFINE k == Len(op.paymasterAndData)
    <3>1. k \in 0 .. 5
      BY <2>1
    <3> HIDE DEF k
    <3>2. k <= 5
      BY <3>1
    <3> QED BY <3>2 DEF k
  <2> QED BY <2>2 DEF OpRec, OpsWith, Words, Codes, IsOp
<1>2. \A op \in Plain : IsOp(op)
  BY EmptySeq DEF Plain, OpsWith, Words, Codes, IsOp
<1>3. IInv => TypeOK
  BY <1>1, <1>2 DEF IInv, Types, SignedRec, Holds, HoldsAt, TypeOK
<1> QED BY <1>3, Invariance, PTL

(* What the bundler packs of a signed operation's JSON form has the hash that
   the owner signed, the limits that were meant for it and the hash that the
   paymaster signed (buildUserOp, sponsorUserOp, toRpcUserOp, fromRpcUserOp). *)
THEOREM SignaturesHold == Spec => []HashesSurvive
<1>1. ASSUME IInv, NEW s \in signed, Readable(s.op)
      PROVE  LET op == fromRpcUserOp(toRpcUserOp(s.op))
             IN /\ Hash(op) = s.of
                /\ unpack128(op.accountGasLimits) = <<s.limits[1], s.limits[2]>>
                /\ unpack128(op.gasFees) = <<s.limits[3], s.limits[4]>>
                /\ op.paymasterAndData # <<>> => op.paymasterAndData[5] = PaymasterHash(op)
  <2>1. s.op \in OpRec /\ s.of = s.op /\ LimitsHeld(s.op, s.limits) /\ PaymasterAgrees(s.op)
    BY <1>1 DEF IInv, Types, SignedRec, SignedOK
  <2>2. fromRpcUserOp(toRpcUserOp(s.op)) = s.op
    BY <1>1, <2>1, RoundTrip
  <2> QED BY <2>1, <2>2 DEF Hash, LimitsHeld, PaymasterAgrees
<1>2. IInv => HashesSurvive
  BY <1>1 DEF HashesSurvive
<1> QED BY <1>2, Invariance, PTL

(* Nothing the bundler holds or the chain runs sends to an address that the
   stored list had from the moment its sendUserOp began until it was submitted:
   the lookups, one after the other, all came in between. *)
THEOREM SentWasScreened == Spec => []ScreenedWhenSent
<1>1. IInv => ScreenedWhenSent
  BY DEF IInv, Screened, ScreenedWhenSent
<1> QED BY <1>1, Invariance, PTL

(* A key that is rotated out signs nothing more, except what was validated in
   the same bundle before the rotation was executed (SimpleAccount). *)
THEOREM RotatedOutStops == Spec => []OldKeyStops
<1>1. IInv => OldKeyStops
  BY DEF IInv
<1> QED BY <1>1, Invariance, PTL
=============================================================================
