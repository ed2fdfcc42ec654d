--------------------------- MODULE Ledger_proofs ---------------------------
(***************************************************************************)
(* Proofs about Ledger, for any first UTXOs and any transactions that      *)
(* satisfy its assumption.                                                 *)
(***************************************************************************)
EXTENDS Ledger, Collections_proofs

\* Where a UTXO comes from: the first ones, or a transaction that was executed.
Known(u) == u \in DOMAIN Genesis \/ \E t \in executed : u[1] = t.id

-----------------------------------------------------------------------------
(* The types of what transactions are made of.                             *)

\* A sequence of sequences, one after the other.
LEMMA SumAlongAll ==
  ASSUME NEW V, NEW ss \in Seq(Seq(V))
  PROVE  /\ FlattenSeq(ss) \in Seq(V)
         /\ \A w \in [V -> Nat] :
              SumAlong(FlattenSeq(ss), w)
                = SumFunctionOnSet([k \in DOMAIN ss |-> SumAlong(ss[k], w)], DOMAIN ss)
<1> DEFINE n == Len(ss)
           sums(w) == [k \in 1..n |-> SumAlong(ss[k], w)]
<1>1. n \in Nat /\ DOMAIN ss = 1..n /\ \A k \in 1..n : ss[k] \in Seq(V)
  OBVIOUS
<1>2. PICK at \in [0..n -> Seq(V)] :
        /\ at[0] = <<>> /\ \A k \in 1..n : at[k] = at[k - 1] \o ss[k]
        /\ FlattenSeq(ss) = at[n]
  BY FlattenParts, Zenon DEF Parts
<1> DEFINE P == {k \in 0..n : \A w \in [V -> Nat] :
                   SumAlong(at[k], w) = SumFunctionOnSet(sums(w), 1..k)}
<1> HIDE DEF n
<1>3. 0 \in P
  <2>1. ASSUME NEW w PROVE SumAlong(<<>>, w) = SumFunctionOnSet(sums(w), 1..0)
    <3>1. DOMAIN <<>> = {} /\ 1..0 = {}
      OBVIOUS
    <3>2. \A v : SumFunctionOnSet(v, {}) = 0
      BY FS_EmptySet, SumFirst
    <3>3. QED
      BY <3>1, <3>2, Zenon DEF SumAlong
  <2>2. 0 \in 0..n
    BY <1>1
  <2>3. QED
    BY <1>2, <2>1, <2>2, Zenon
<1>4. ASSUME NEW k \in 1..n, k - 1 \in P
      PROVE  k \in P
  <2>1. k \in 0..n /\ k \in Nat /\ k > 0 /\ k - 1 \in 0..n
    BY <1>1
  <2>2. at[k - 1] \in Seq(V) /\ ss[k] \in Seq(V) /\ at[k] = at[k - 1] \o ss[k]
    BY <1>1, <1>2, <2>1
  <2>3. ASSUME NEW w \in [V -> Nat]
        PROVE  SumAlong(at[k], w) = SumFunctionOnSet(sums(w), 1..k)
    <3>1. \A i \in 1..k : sums(w)[i] = SumAlong(ss[i], w) /\ SumAlong(ss[i], w) \in Nat
      BY <1>1, SumAlongType
    <3>2. SumAlong(at[k - 1], w) = SumFunctionOnSet(sums(w), 1..(k - 1))
      BY <1>4
    <3> HIDE DEF sums
    <3>3. SumFunctionOnSet(sums(w), 1..k) = SumFunctionOnSet(sums(w), 1..(k - 1)) + sums(w)[k]
      BY <2>1, <3>1, SumOfPrefix
    <3>4. SumAlong(at[k], w) = SumAlong(at[k - 1], w) + SumAlong(ss[k], w)
      BY <2>2, SumAlongBoth
    <3>5. sums(w)[k] = SumAlong(ss[k], w)
      BY <2>1, <3>1
    <3>6. QED
      BY <3>2, <3>3, <3>4, <3>5
  <2>4. QED
    BY <2>1, <2>3
<1> HIDE DEF P
<1>5. 0..n \subseteq P
  BY <1>1, <1>3, <1>4, LoopInduction
<1>6. n \in P /\ n \in 0..n
  BY <1>1, <1>5
<1>7. \A w \in [V -> Nat] : SumAlong(at[n], w) = SumFunctionOnSet(sums(w), 1..n)
  BY <1>6 DEF P
<1>8. ASSUME NEW w \in [V -> Nat]
      PROVE  SumAlong(FlattenSeq(ss), w)
               = SumFunctionOnSet([k \in DOMAIN ss |-> SumAlong(ss[k], w)], DOMAIN ss)
  BY <1>1, <1>2, <1>7, Zenon
<1>9. FlattenSeq(ss) \in Seq(V)
  BY <1>2, <1>6
<1>10. QED
  BY <1>8, <1>9

\* An input of a transaction.
LEMMA InputTypes ==
  ASSUME NEW t \in Txs, NEW p \in Places(t)
  PROVE  InputAt(t, p) \in TransferableInput
<1>1. t.ins \in Seq(Seq(TransferableInput))
  BY EntryAssumption
<1>2. PICK i \in DOMAIN t.ins : \E j \in DOMAIN t.ins[i] : p = <<i, j>>
  BY DEF Places
<1>3. PICK j \in DOMAIN t.ins[i] : p = <<i, j>>
  BY <1>2
<1>4. t.ins[i] \in Seq(TransferableInput)
  BY <1>1
<1>5. t.ins[i][j] \in TransferableInput
  BY <1>4
<1>6. QED
  BY <1>3, <1>5 DEF InputAt

\* What it and an operation are signed with.
LEMMA SignatureTypes ==
  ASSUME NEW t \in Txs
  PROVE  /\ \A x \in Inputs(t) : x.in \in Seq(Nat) /\ x.sigs \in Seq(Fx!Signature)
         /\ \A x \in Operations(t) : x.op.in \in Seq(Nat) /\ x.sigs \in Seq(Fx!Signature)
<1>1. ASSUME NEW x \in Inputs(t)
      PROVE  x.in \in Seq(Nat) /\ x.sigs \in Seq(Fx!Signature)
  <2>1. PICK p \in Places(t) : x = InputAt(t, p)
    BY <1>1 DEF Inputs
  <2>2. x \in TransferableInput
    BY <2>1, InputTypes
  <2>3. QED
    BY <2>2 DEF TransferableInput
<1>2. QED
  BY <1>1, EntryAssumption

\* What a transaction produces, and what it adds to a sum.
LEMMA OutputTypes ==
  ASSUME NEW t \in Txs
  PROVE  /\ Transferred(t.outs) \in Seq(Entry)
         /\ \A k \in DOMAIN t.ops : Left(t.ops[k]) \in Seq(Entry)
         /\ DOMAIN t.ops = 1..Len(t.ops) /\ Len(t.ops) \in Nat
         /\ OutputsOf(t) \in Seq(Entry)
         /\ \A w \in [Entry -> Nat] :
              SumAlong(OutputsOf(t), w)
                = SumAlong(Transferred(t.outs), w)
                    + SumFunctionOnSet([k \in DOMAIN t.ops |-> SumAlong(Left(t.ops[k]), w)], DOMAIN t.ops)
<1> DEFINE outs == t.outs
           moved == Transferred(outs)
           lefts == [k \in DOMAIN t.ops |-> Left(t.ops[k])]
<1>1. outs \in Seq(TransferableOutput)
  BY EntryAssumption
<1>2. moved \in Seq(Entry)
  <2>1. DOMAIN outs = 1..Len(outs) /\ Len(outs) \in Nat /\ \A i \in 1..Len(outs) : outs[i] \in TransferableOutput
    BY <1>1
  <2>2. ASSUME NEW o \in TransferableOutput
        PROVE  [asset |-> o.asset, out |-> Transfer(o.amt, o.owners)] \in Entry
    BY DEF TransferableOutput, Entry, Output, Transfer
  <2> HIDE DEF outs
  <2>3. moved = [i \in 1..Len(outs) |->
                   [asset |-> outs[i].asset, out |-> Transfer(outs[i].amt, outs[i].owners)]]
    BY <2>1, Zenon DEF Transferred
  <2>4. \A i \in 1..Len(outs) :
          [asset |-> outs[i].asset, out |-> Transfer(outs[i].amt, outs[i].owners)] \in Entry
    BY <2>1, <2>2
  <2> HIDE DEF moved
  <2>5. QED
    BY <2>1, <2>3, <2>4
<1>3. /\ DOMAIN t.ops = 1..Len(t.ops) /\ Len(t.ops) \in Nat
      /\ \A k \in DOMAIN t.ops : t.ops[k] \in Operations(t)
  <2>1. t.ops \in Seq(Operations(t))
    BY EntryAssumption
  <2>2. QED
    BY <2>1
<1>4. \A k \in DOMAIN t.ops : Left(t.ops[k]) \in Seq(Entry)
  BY <1>3, EntryAssumption
<1>5. lefts \in Seq(Seq(Entry)) /\ DOMAIN lefts = DOMAIN t.ops
  <2> DEFINE E == Seq(Entry)
             n == Len(t.ops)
  <2>1. lefts = [k \in 1..n |-> Left(t.ops[k])] /\ n \in Nat /\ \A k \in 1..n : Left(t.ops[k]) \in E
    BY <1>3, <1>4
  <2> HIDE DEF lefts, E, n
  <2>2. lefts \in Seq(E) /\ DOMAIN lefts = 1..n
    BY <2>1
  <2>3. QED
    BY <1>3, <2>2 DEF E, n
<1>6. OutputsOf(t) = moved \o FlattenSeq(lefts)
  BY Zenon DEF OutputsOf
<1>7. ASSUME NEW w
      PROVE  [k \in DOMAIN lefts |-> SumAlong(lefts[k], w)]
               = [k \in DOMAIN t.ops |-> SumAlong(Left(t.ops[k]), w)]
  OBVIOUS
<1> HIDE DEF moved, lefts, outs
<1>8. /\ FlattenSeq(lefts) \in Seq(Entry)
      /\ \A w \in [Entry -> Nat] :
           SumAlong(FlattenSeq(lefts), w)
             = SumFunctionOnSet([k \in DOMAIN lefts |-> SumAlong(lefts[k], w)], DOMAIN lefts)
  BY <1>5, SumAlongAll
<1>9. OutputsOf(t) \in Seq(Entry)
  BY <1>2, <1>6, <1>8
<1>10. ASSUME NEW w \in [Entry -> Nat]
       PROVE  SumAlong(OutputsOf(t), w)
                = SumAlong(moved, w)
                    + SumFunctionOnSet([k \in DOMAIN t.ops |-> SumAlong(Left(t.ops[k]), w)], DOMAIN t.ops)
  <2>1. SumAlong(moved \o FlattenSeq(lefts), w) = SumAlong(moved, w) + SumAlong(FlattenSeq(lefts), w)
    BY <1>2, <1>8, SumAlongBoth
  <2>2. SumAlong(FlattenSeq(lefts), w)
          = SumFunctionOnSet([k \in DOMAIN t.ops |-> SumAlong(Left(t.ops[k]), w)], DOMAIN t.ops)
    BY <1>5, <1>7, <1>8, Zenon
  <2>3. QED
    BY <1>6, <2>1, <2>2, Zenon
<1>11. QED
  BY <1>2, <1>3, <1>4, <1>9, <1>10 DEF moved, outs

-----------------------------------------------------------------------------
(* What VerifyTx counts of a transaction.                                 *)

\* A sum of VerifyTx is a sum.
LEMMA SumOfVerifyTx ==
  ASSUME NEW w
  PROVE  VT!SumFunction(w) = SumFunctionOnSet(w, DOMAIN w)
<1>1. ASSUME NEW S PROVE VT!SumFunctionOnSet(w, S) = SumFunctionOnSet(w, S)
  BY DEF SumFunctionOnSet, FoldFunctionOnSet, MapThenFoldSet, VT!SumFunctionOnSet,
         VT!FoldFunctionOnSet, VT!MapThenFoldSet
<1>2. QED
  BY <1>1 DEF VT!SumFunction

\* What the outputs of a transaction that is accepted are taken for.
LEMMA OutputsValid ==
  ASSUME NEW t \in Txs, FlowCheck(t)
  PROVE  /\ \A i \in DOMAIN t.outs : Fx!ValidTransferOutput(t.outs[i])
         /\ \A i \in DOMAIN t.exported : Fx!ValidTransferOutput(t.exported[i])
<1> DEFINE flow == Flow(t)
<1>1. VT!OutputsWellFormed(flow)
  BY Zenon DEF FlowCheck, VT!WellFormed
<1>2. flow.outs = <<FlowOuts(t.outs), FlowOuts(t.exported)>>
  BY DEF Flow
<1> HIDE DEF flow
<1>3. \A i \in DOMAIN flow.outs : \A j \in DOMAIN flow.outs[i] : VT!Valid(flow.outs[i][j])
  BY <1>1, Zenon DEF VT!OutputsWellFormed
<1>4. /\ \A j \in DOMAIN FlowOuts(t.outs) : VT!Valid(FlowOuts(t.outs)[j])
      /\ \A j \in DOMAIN FlowOuts(t.exported) : VT!Valid(FlowOuts(t.exported)[j])
  <2>1. 1 \in DOMAIN flow.outs /\ 2 \in DOMAIN flow.outs
    BY <1>2
  <2>2. flow.outs[1] = FlowOuts(t.outs) /\ flow.outs[2] = FlowOuts(t.exported)
    BY <1>2
  <2>3. QED
    BY <1>3, <2>1, <2>2, Zenon
<1>5. ASSUME NEW outs, \A j \in DOMAIN FlowOuts(outs) : VT!Valid(FlowOuts(outs)[j])
      PROVE  \A i \in DOMAIN outs : Fx!ValidTransferOutput(outs[i])
  BY <1>5 DEF FlowOuts, VT!Valid
<1>6. QED
  BY <1>4, <1>5

\* What an output adds to an asset.
AmountsIn(outs, a) == [i \in DOMAIN outs |-> IF outs[i].asset = a THEN outs[i].amt ELSE 0]

\* Its sum is a number.
LEMMA AmountsInType ==
  ASSUME NEW outs \in Seq(TransferableOutput), NEW a
  PROVE  /\ IsFiniteSet(DOMAIN outs)
         /\ \A i \in DOMAIN outs : AmountsIn(outs, a)[i] \in Nat
         /\ SumFunctionOnSet(AmountsIn(outs, a), DOMAIN outs) \in Nat
<1> DEFINE z == AmountsIn(outs, a)
<1>1. DOMAIN outs = 1..Len(outs) /\ Len(outs) \in Nat /\ \A i \in DOMAIN outs : outs[i] \in TransferableOutput
  OBVIOUS
<1>2. IsFiniteSet(DOMAIN outs)
  BY <1>1, FS_Interval
<1>3. \A i \in DOMAIN outs : z[i] \in Nat
  BY <1>1 DEF AmountsIn, TransferableOutput
<1> HIDE DEF z
<1>4. SumFunctionOnSet(z, DOMAIN outs) \in Nat
  BY <1>2, <1>3, SumFirst
<1>5. QED
  BY <1>2, <1>3, <1>4 DEF z

\* What a transaction exports is such a sum.
LEMMA ExportedByType ==
  ASSUME NEW t \in Txs, NEW a
  PROVE  /\ ExportedBy(t, a) = SumFunctionOnSet(AmountsIn(t.exported, a), DOMAIN t.exported)
         /\ ExportedBy(t, a) \in Nat
<1>1. DOMAIN AmountsIn(t.exported, a) = DOMAIN t.exported
  BY DEF AmountsIn
<1>2. ExportedBy(t, a) = SumFunctionOnSet(AmountsIn(t.exported, a), DOMAIN t.exported)
  BY <1>1, Zenon DEF ExportedBy, SumFunction, AmountsIn
<1>3. QED
  BY <1>2, AmountsInType, EntryAssumption

\* What VerifyTx counts of the outputs is what is moved and what is exported.
LEMMA OutTotal ==
  ASSUME NEW t \in Txs, FlowCheck(t), NEW a
  PROVE  VT!Sum(Flow(t).outs, a)
           = SumFunctionOnSet(AmountsIn(t.outs, a), DOMAIN t.outs) + ExportedBy(t, a)
<1> DEFINE lists == Flow(t).outs
           shares == VT!Shares(lists, a)
<1>1. lists = <<FlowOuts(t.outs), FlowOuts(t.exported)>>
  BY DEF Flow
<1>2. ASSUME NEW outs, \A i \in DOMAIN outs : Fx!ValidTransferOutput(outs[i])
      PROVE  VT!SumFunction(VT!Share(FlowOuts(outs), a))
               = SumFunctionOnSet(AmountsIn(outs, a), DOMAIN outs)
  <2> DEFINE f == FlowOuts(outs)
  <2>1. DOMAIN f = DOMAIN outs
    BY DEF FlowOuts
  <2>2. \A i \in DOMAIN outs : f[i].asset = outs[i].asset /\ f[i].amount = outs[i].amt
    BY <1>2 DEF FlowOuts
  <2> HIDE DEF f
  <2>3. VT!Share(f, a) = AmountsIn(outs, a) /\ DOMAIN AmountsIn(outs, a) = DOMAIN outs
    BY <2>1, <2>2 DEF VT!Share, AmountsIn
  <2>4. VT!SumFunction(VT!Share(f, a)) = SumFunctionOnSet(VT!Share(f, a), DOMAIN VT!Share(f, a))
    BY SumOfVerifyTx, Zenon
  <2>5. QED
    BY <2>3, <2>4, Zenon DEF f
<1> HIDE DEF lists
<1>3. /\ shares = [l \in DOMAIN lists |-> VT!SumFunction(VT!Share(lists[l], a))]
      /\ DOMAIN lists = 1..2
      /\ lists[1] = FlowOuts(t.outs) /\ lists[2] = FlowOuts(t.exported)
  <2>1. shares = [l \in DOMAIN lists |-> VT!SumFunction(VT!Share(lists[l], a))]
    BY Zenon DEF VT!Shares
  <2>2. QED
    BY <1>1, <2>1
<1> HIDE DEF shares
<1>4. /\ shares[1] = VT!SumFunction(VT!Share(lists[1], a))
      /\ shares[2] = VT!SumFunction(VT!Share(lists[2], a))
      /\ DOMAIN shares = 1..2
  BY <1>3
<1>5. /\ shares[1] = SumFunctionOnSet(AmountsIn(t.outs, a), DOMAIN t.outs)
      /\ shares[2] = ExportedBy(t, a)
      /\ shares[1] \in Nat /\ shares[2] \in Nat
  BY <1>2, <1>3, <1>4, OutputsValid, ExportedByType, AmountsInType, EntryAssumption
<1>6. VT!Sum(lists, a) = VT!SumFunction(shares)
  BY Zenon DEF VT!Sum, shares
<1>7. VT!SumFunction(shares) = SumFunctionOnSet(shares, 1..2)
  BY <1>4, SumOfVerifyTx
<1>8. SumFunctionOnSet(shares, 1..2) = shares[1] + shares[2]
  BY <1>5, SumOfTwo
<1>9. QED
  BY <1>5, <1>6, <1>7, <1>8 DEF lists

\* A transaction that VerifyTx accepts names something: without inputs nothing pays
\* the fee.
LEMMA FeeIsPaid ==
  ASSUME NEW t \in Txs, FlowCheck(t)
  PROVE  Named(t) # {}
<1> SUFFICES ASSUME Named(t) = {} PROVE FALSE
  OBVIOUS
<1> DEFINE S == DOMAIN t.ins
           flow == Flow(t).ins
           shares == VT!Shares(flow, FeeAsset)
<1>1. \A i \in S : DOMAIN t.ins[i] = {}
  <2> SUFFICES ASSUME NEW i \in S, NEW j \in DOMAIN t.ins[i] PROVE FALSE
    OBVIOUS
  <2>1. <<i, j>> \in Places(t)
    BY DEF Places
  <2>2. InputAt(t, <<i, j>>) \in Inputs(t)
    BY <2>1, Zenon DEF Inputs
  <2>3. InputAt(t, <<i, j>>).utxo \in Named(t)
    BY <2>2, Zenon DEF Named
  <2>4. QED
    BY <2>3
<1>2. flow = [i \in S |-> FlowIns(t.ins[i])]
  BY DEF Flow
<1>3. IsFiniteSet(S)
  <2>1. S = 1..Len(t.ins) /\ Len(t.ins) \in Nat
    BY EntryAssumption
  <2>2. QED
    BY <2>1, FS_Interval
<1>4. \A v : SumFunctionOnSet(v, {}) = 0
  BY FS_EmptySet, SumFirst
<1>5. ASSUME NEW i \in S
      PROVE  VT!SumFunction(VT!Share(flow[i], FeeAsset)) = 0
  <2> DEFINE share == VT!Share(FlowIns(t.ins[i]), FeeAsset)
  <2>1. DOMAIN share = {}
    BY <1>1 DEF FlowIns, VT!Share
  <2> HIDE DEF share
  <2>2. VT!SumFunction(share) = 0
    BY <1>4, <2>1, SumOfVerifyTx, Zenon
  <2>3. QED
    BY <1>2, <2>2 DEF share
<1>6. VT!Sum(flow, FeeAsset) = 0
  <2>1. shares = [i \in DOMAIN flow |-> VT!SumFunction(VT!Share(flow[i], FeeAsset))]
    BY Zenon DEF VT!Shares
  <2>2. DOMAIN flow = S
    BY <1>2
  <2> HIDE DEF flow, shares, S
  <2>3. DOMAIN shares = S /\ \A i \in S : shares[i] = 0
    BY <1>5, <2>1, <2>2
  <2>4. SumFunctionOnSet(shares, S) = 0
    BY <1>3, <2>3, SumOfZeros
  <2>5. QED
    BY <2>3, <2>4, SumOfVerifyTx, Zenon DEF VT!Sum, shares
<1>7. VT!Sum(Flow(t).outs, FeeAsset) \in Nat
  <2>1. t.outs \in Seq(TransferableOutput)
    BY EntryAssumption
  <2>2. SumFunctionOnSet(AmountsIn(t.outs, FeeAsset), DOMAIN t.outs) \in Nat
    BY <2>1, AmountsInType
  <2>3. QED
    BY <2>2, OutTotal, ExportedByType
<1>8. VT!Sum(Flow(t).outs, FeeAsset) + TxFee <= VT!Sum(flow, FeeAsset)
  <2>1. VT!Sum(Flow(t).outs, FeeAsset) + VT!Fee(Flow(t), FeeAsset) <= VT!Sum(flow, FeeAsset)
    BY LedgerAssumption, Zenon DEF FlowCheck, VT!Balanced
  <2>2. Flow(t).fee = TxFee
    BY DEF Flow
  <2>3. VT!Fee(Flow(t), FeeAsset) = TxFee
    BY <2>2, Zenon DEF VT!Fee
  <2>4. QED
    BY <2>1, <2>3, Zenon
<1>9. QED
  BY <1>6, <1>7, <1>8, LedgerAssumption

-----------------------------------------------------------------------------
(* The inductive invariant.  What is produced is new because its name has  *)
(* the identifier of a transaction that was not executed before, while     *)
(* every name that was ever in the set, spent or not, is known.            *)

LedgerInv ==
  /\ executed \subseteq Txs
  /\ SpentOnce
  /\ \A u \in DOMAIN utxos : Known(u)
  /\ \A t \in executed : \A u \in Named(t) : Known(u)

\* Nothing has been spent at first.
LEMMA LedgerInvInit == Init => LedgerInv
  BY DEF Init, LedgerInv, SpentOnce, Known

\* What a transaction leaves of a set.
Remaining(set, t) == RemoveTaken(Consume(set, Inputs(t)), Operations(t))

\* That is everything but the UTXOs it names.
LEMMA RemainingIs ==
  ASSUME NEW set, NEW t
  PROVE  Remaining(set, t) = [u \in DOMAIN set \ Named(t) |-> set[u]]
<1> DEFINE ins  == {in.utxo : in \in Inputs(t)}
           ops  == {o.utxo : o \in Operations(t)}
           left == Consume(set, Inputs(t))
<1>1. left = [u \in DOMAIN set \ ins |-> set[u]]
  BY Zenon DEF Consume
<1>2. DOMAIN left = DOMAIN set \ ins /\ \A u \in DOMAIN set \ ins : left[u] = set[u]
  BY <1>1
<1>3. Remaining(set, t) = [u \in DOMAIN left \ ops |-> left[u]]
  BY Zenon DEF Remaining, RemoveTaken
<1>4. Named(t) = ins \cup ops
  BY DEF Named
<1> HIDE DEF left, ins, ops
<1>5. DOMAIN left \ ops = DOMAIN set \ Named(t)
  BY <1>2, <1>4
<1>6. \A u \in DOMAIN set \ Named(t) : left[u] = set[u]
  BY <1>2, <1>4
<1>7. QED
  BY <1>3, <1>5, <1>6

\* The set after a transaction.
LEMMA SetAfter ==
  ASSUME NEW t \in Txs, Execute(t)
  PROVE  \A u \in DOMAIN utxos' : u[1] = t.id \/ u \in DOMAIN utxos \ Named(t)
<1> DEFINE set  == Remaining(utxos, t)
           outs == OutputsOf(t)
           new  == {<<t.id, i - 1>> : i \in DOMAIN outs}
<1>1. DOMAIN set = DOMAIN utxos \ Named(t)
  BY RemainingIs
<1>2. utxos' = Produce(set, t.id, outs)
  BY DEF Execute, Remaining
<1> HIDE DEF set, outs
<1>3. DOMAIN utxos' = DOMAIN set \cup new
  BY <1>2 DEF Produce
<1>4. \A u \in new : u[1] = t.id
  OBVIOUS
<1>5. QED
  BY <1>1, <1>3, <1>4

\* It keeps what the transaction does not name.
LEMMA SetKeeps ==
  ASSUME NEW t \in Txs, Execute(t)
  PROVE  DOMAIN utxos \ Named(t) \subseteq DOMAIN utxos'
<1> DEFINE set == Remaining(utxos, t)
<1>1. DOMAIN set = DOMAIN utxos \ Named(t)
  BY RemainingIs
<1>2. utxos' = Produce(set, t.id, OutputsOf(t))
  BY Zenon DEF Execute, Remaining
<1> HIDE DEF set
<1>3. DOMAIN set \subseteq DOMAIN utxos'
  BY <1>2, Zenon DEF Produce
<1>4. QED
  BY <1>1, <1>3

\* A transaction that is executed names UTXOs of the set, at least one.
LEMMA NamesStored ==
  ASSUME NEW t \in Txs, Verifies(t)
  PROVE  Named(t) # {} /\ Named(t) \subseteq DOMAIN utxos
<1>1. \A x \in Inputs(t) \cup Operations(t) : Found(x)
  BY DEF Verifies, InputVerifies, OperationVerifies
<1>2. Named(t) \subseteq DOMAIN utxos
  BY <1>1 DEF Named, Found
<1>3. Named(t) # {}
  BY FeeIsPaid DEF Verifies
<1>4. QED
  BY <1>2, <1>3

\* A transaction that is executed has not been executed before, and nothing that
\* is known has its identifier.
LEMMA NeverBefore ==
  ASSUME LedgerInv, NEW t \in Txs, Execute(t)
  PROVE  t \notin executed /\ \A u : Known(u) => u[1] # t.id
<1>1. Named(t) # {} /\ Named(t) \subseteq DOMAIN utxos
  BY NamesStored DEF Execute
<1>2. t \notin executed
  BY <1>1 DEF LedgerInv, SpentOnce
<1>3. \A s \in executed : s.id # t.id
  BY <1>2, LedgerAssumption DEF LedgerInv
<1>4. ASSUME NEW u, Known(u)
      PROVE  u[1] # t.id
  <2>1. u \in DOMAIN Genesis => u[1] = GenesisID
    <3>1. ASSUME NEW g \in DOMAIN Genesis, NEW n, g = <<GenesisID, n>>
          PROVE  g[1] = GenesisID
      BY <3>1
    <3>2. QED
      BY <3>1, LedgerAssumption
  <2>2. QED
    BY <1>3, <1>4, <2>1, LedgerAssumption DEF Known
<1>5. QED
  BY <1>2, <1>4

\* Executing a transaction keeps the invariant.
LEMMA ExecuteStep ==
  ASSUME LedgerInv, NEW t \in Txs, Execute(t)
  PROVE  LedgerInv'
<1>1. executed' = executed \cup {t} /\ Named(t) # {} /\ Named(t) \subseteq DOMAIN utxos
  BY NamesStored DEF Execute
<1>4. ASSUME NEW u, Known(u)
      PROVE  u[1] # t.id /\ Known(u)'
  BY <1>1, <1>4, NeverBefore DEF Known
<1>5. \A u \in DOMAIN utxos' : u[1] = t.id \/ u \in DOMAIN utxos \ Named(t)
  BY SetAfter
<1>6. SpentOnce'
  <2> SUFFICES ASSUME NEW s \in executed', NEW u \in Named(s)
               PROVE  u \notin DOMAIN utxos'
    BY DEF SpentOnce
  <2>1. u[1] # t.id
    BY <1>1, <1>4 DEF LedgerInv
  <2>2. u \notin DOMAIN utxos \/ u \in Named(t)
    BY <1>1 DEF LedgerInv, SpentOnce
  <2>3. QED
    BY <1>5, <2>1, <2>2
<1>7. ASSUME NEW u \in DOMAIN utxos'
      PROVE  Known(u)'
  <2>1. CASE u[1] = t.id
    BY <1>1, <2>1 DEF Known
  <2>2. CASE u \in DOMAIN utxos
    BY <1>4, <2>2 DEF LedgerInv
  <2>3. QED
    BY <1>5, <2>1, <2>2
<1>8. ASSUME NEW s \in executed', NEW u \in Named(s)
      PROVE  Known(u)'
  BY <1>1, <1>4, <1>8 DEF LedgerInv
<1>9. executed' \subseteq Txs
  BY <1>1 DEF LedgerInv
<1>10. QED
  BY <1>6, <1>7, <1>8, <1>9 DEF LedgerInv

\* LedgerInv holds always.
LEMMA LedgerInvAlways == Spec => []LedgerInv
<1>1. LedgerInv /\ [Next]_vars => LedgerInv'
  <2> SUFFICES ASSUME LedgerInv, [Next]_vars
               PROVE  LedgerInv'
    OBVIOUS
  <2>1. CASE \E t \in Txs : Execute(t)
    BY <2>1, ExecuteStep
  <2>2. CASE UNCHANGED <<utxos, executed>>
    BY <2>2 DEF LedgerInv, SpentOnce, Known
  <2>3. QED
    BY <2>1, <2>2 DEF Next, Tick, Bootstrapped, vars
<1>2. QED
  BY <1>1, LedgerInvInit, PTL DEF Spec

\* No UTXO is spent twice and no transaction is executed twice, not even with
\* other credentials, for any first UTXOs and transactions (utxo_handler.go 9-32,
\* transferables.go 227, metadata.go 28-32).
THEOREM NothingSpentTwice == Spec => []SpentOnce
<1>1. LedgerInv => SpentOnce
  BY DEF LedgerInv
<1>2. QED
  BY <1>1, LedgerInvAlways, PTL

-----------------------------------------------------------------------------
(* Owners consent: an output that leaves the set was taken by an input or  *)
(* an operation, which its fx accepted.                                    *)

\* What the fxs have in common: the order of indices and addresses, and the
\* credentials.
Consents(tx, in, sigs, owners) ==
  /\ Fx!ValidInput(in) /\ Fx!ValidOwners(owners)
  /\ ~(owners.locktime > clock)
  /\ owners.threshold = Len(in) /\ Len(in) = Len(sigs)
  /\ bootstrapped =>
       \A i \in DOMAIN in : /\ in[i] < Len(owners.addrs)
                            /\ Fx!Recover(tx, sigs[i]) = owners.addrs[in[i] + 1]

\* An operation takes an output only with the consent of its owners.
LEMMA OperationConsent ==
  ASSUME NEW tx, NEW op, NEW sigs, NEW out, VerifyOperation(tx, op, sigs, out)
  PROVE  Consents(tx, op.in, sigs, out.owners)
<1> USE DEF Consents, Call, Fx!VerifyCredentials, Fx!Signed
<1>1. CASE VerifyMint(tx, op, sigs, out)
  BY <1>1 DEF VerifyMint, Fx!VerifyOperation, Fx!ValidMintOperation
<1>2. CASE VerifyNFTMint(tx, op, sigs, out)
  BY <1>2 DEF VerifyNFTMint, ValidNFTMint
<1>3. CASE VerifyNFTTransfer(tx, op, sigs, out)
  BY <1>3 DEF VerifyNFTTransfer, ValidNFT
<1>4. CASE VerifyPropertyMint(tx, op, sigs, out)
  BY <1>4 DEF VerifyPropertyMint
<1>5. CASE VerifyBurn(tx, op, sigs, out)
  BY <1>5 DEF VerifyBurn
<1>6. QED
  BY <1>1, <1>2, <1>3, <1>4, <1>5 DEF VerifyOperation

\* And so does an input.
LEMMA InputConsent ==
  ASSUME NEW tx, NEW in, NEW sigs, NEW out, VerifyTransfer(tx, in, sigs, out)
  PROVE  Consents(tx, in.in, sigs, out.owners)
  BY DEF Consents, VerifyTransfer, Fx!VerifySpend, Fx!ValidTransferOutput,
         Fx!ValidTransferInput, Fx!VerifyCredentials, Fx!Signed

\* The keys among the addresses of the owners that have signed for tx.
Signers(tx, sigs, owners) ==
  {k \in Key : /\ \E i \in DOMAIN owners.addrs : owners.addrs[i] = k
               /\ \E i \in DOMAIN sigs : sigs[i] = [key |-> k, tx |-> tx]}

\* Owners are finitely many.
LEMMA SignersFinite ==
  ASSUME NEW tx, NEW sigs, NEW owners \in Fx!Owners
  PROVE  IsFiniteSet(Signers(tx, sigs, owners))
<1> DEFINE addrs == owners.addrs
           keys  == {addrs[i] : i \in 1..Len(addrs)}
           f     == [i \in 1..Len(addrs) |-> addrs[i]]
<1>1. addrs \in Seq(Key)
  BY DEF Fx!Owners
<1>2. Len(addrs) \in Nat /\ DOMAIN addrs = 1..Len(addrs)
  BY <1>1
<1> HIDE DEF addrs
<1>3. IsFiniteSet(1..Len(addrs))
  BY <1>2, FS_Interval
<1>4. f \in Surjection(1..Len(addrs), keys)
  BY DEF Surjection
<1>5. IsFiniteSet(keys)
  BY <1>3, <1>4, FS_Surjection
<1>6. Signers(tx, sigs, owners) \subseteq keys
  BY <1>2 DEF Signers, addrs
<1>7. QED
  BY <1>5, <1>6, FS_Subset

\* Addresses are numbers.
LEMMA AddressesAreNumbers ==
  ASSUME NEW addrs \in Seq(Key)
  PROVE  /\ addrs \in Seq(Nat) /\ Len(addrs) \in Nat /\ DOMAIN addrs = 1..Len(addrs)
         /\ \A i \in 1..Len(addrs) : addrs[i] \in Nat
<1>1. /\ Len(addrs) \in Nat /\ DOMAIN addrs = 1..Len(addrs)
      /\ \A i \in 1..Len(addrs) : addrs[i] \in Key
  OBVIOUS
<1>2. \A i \in 1..Len(addrs) : addrs[i] \in Nat
  BY <1>1, EntryAssumption
<1>3. addrs = [i \in 1..Len(addrs) |-> addrs[i]]
  OBVIOUS
<1>4. addrs \in Seq(Nat)
  BY <1>1, <1>2, <1>3
<1>5. QED
  BY <1>1, <1>2, <1>4

\* Every signature is that of another owner, because the indices ascend and the
\* addresses do.
LEMMA SignersDiffer ==
  ASSUME NEW tx, NEW in \in Seq(Nat), NEW sigs \in Seq(Fx!Signature),
         NEW owners \in Fx!Owners, Consents(tx, in, sigs, owners), bootstrapped
  PROVE  [i \in 1..Len(in) |-> sigs[i].key]
           \in Injection(1..Len(in), Signers(tx, sigs, owners))
<1> DEFINE addrs == owners.addrs
<1>1. addrs \in Seq(Key)
  BY DEF Fx!Owners
<1>2. /\ addrs \in Seq(Nat) /\ Len(addrs) \in Nat /\ DOMAIN addrs = 1..Len(addrs)
      /\ \A i \in 1..Len(addrs) : addrs[i] \in Nat
  BY <1>1, AddressesAreNumbers
<1>3. /\ \A i, j \in DOMAIN in : i < j => in[i] < in[j]
      /\ \A i, j \in DOMAIN addrs : i < j => addrs[i] < addrs[j]
  BY <1>2, NeighborsAscend DEF Consents, Fx!ValidInput, Fx!ValidOwners, Fx!isSortedAndUniqueByCompare
<1>4. ASSUME NEW i \in 1..Len(in)
      PROVE  /\ in[i] + 1 \in DOMAIN addrs
             /\ i \in DOMAIN sigs /\ sigs[i] \in Fx!Signature
             /\ sigs[i].key = addrs[in[i] + 1] /\ sigs[i].tx = tx
  <2>1. /\ in[i] \in Nat /\ in[i] < Len(addrs)
        /\ Fx!Recover(tx, sigs[i]) = addrs[in[i] + 1]
    <3>1. in[i] \in Nat /\ i \in DOMAIN in
      OBVIOUS
    <3>2. QED
      BY <3>1 DEF Consents
  <2>2. in[i] + 1 \in 1..Len(addrs)
    BY <1>2, <2>1
  <2>3. addrs[in[i] + 1] \in Nat
    BY <1>2, <2>2
  <2>4. i \in DOMAIN sigs
    <3>1. Len(in) = Len(sigs) /\ DOMAIN sigs = 1..Len(sigs)
      BY DEF Consents
    <3>2. QED
      BY <3>1
  <2>5. QED
    BY <1>2, <2>1, <2>2, <2>3, <2>4 DEF Fx!Recover, Fx!NoKey
<1>5. ASSUME NEW i \in 1..Len(in)
      PROVE  sigs[i].key \in Signers(tx, sigs, owners)
  <2>1. sigs[i] = [key |-> sigs[i].key, tx |-> tx] /\ sigs[i].key \in Key
    BY <1>4 DEF Fx!Signature
  <2>2. QED
    BY <1>4, <2>1 DEF Signers
<1>6. ASSUME NEW i \in 1..Len(in), NEW j \in 1..Len(in), i < j
      PROVE  sigs[i].key # sigs[j].key
  <2>1. in[i] \in Nat /\ in[j] \in Nat /\ in[i] + 1 < in[j] + 1
    <3>1. in[i] \in Nat /\ in[j] \in Nat
      BY <1>6
    <3>2. in[i] < in[j]
      BY <1>3, <1>6
    <3>3. QED
      BY <3>1, <3>2
  <2>2. addrs[in[i] + 1] < addrs[in[j] + 1]
    BY <1>3, <1>4, <2>1
  <2>3. addrs[in[i] + 1] \in Nat /\ addrs[in[j] + 1] \in Nat
    <3>1. in[i] + 1 \in 1..Len(addrs) /\ in[j] + 1 \in 1..Len(addrs)
      BY <1>2, <1>4
    <3>2. QED
      BY <1>2, <3>1
  <2>4. QED
    BY <1>4, <2>2, <2>3
<1>7. ASSUME NEW i \in 1..Len(in), NEW j \in 1..Len(in), sigs[i].key = sigs[j].key
      PROVE  i = j
  BY <1>6, <1>7
<1>8. QED
  BY <1>5, <1>7 DEF Injection, IsInjective

\* So the threshold is met.
LEMMA ThresholdMet ==
  ASSUME NEW tx, NEW in \in Seq(Nat), NEW sigs \in Seq(Fx!Signature),
         NEW owners \in Fx!Owners, Consents(tx, in, sigs, owners), bootstrapped
  PROVE  Cardinality(Signers(tx, sigs, owners)) >= owners.threshold
<1>1. Cardinality(1..Len(in)) <= Cardinality(Signers(tx, sigs, owners))
  BY SignersDiffer, SignersFinite, FS_Injection
<1>2. Cardinality(1..Len(in)) = Len(in) /\ Len(in) \in Nat
  <2> DEFINE n == Len(in)
  <2>1. n \in Nat /\ n \in Int /\ 1 \in Int
    OBVIOUS
  <2> HIDE DEF n
  <2>2. Cardinality(1..n) = IF 1 > n THEN 0 ELSE n - 1 + 1
    BY <2>1, FS_Interval, Zenon
  <2>3. Cardinality(1..n) = n
    BY <2>1, <2>2
  <2>4. QED
    BY <2>1, <2>3 DEF n
<1>3. Cardinality(Signers(tx, sigs, owners)) \in Nat
  BY SignersFinite, FS_CardinalityType
<1>4. QED
  BY <1>1, <1>2, <1>3 DEF Consents

\* What is stored is of its type.
EntryInv == clock \in Nat /\ \A u \in DOMAIN utxos : utxos[u] \in Entry

\* What is produced is an output of the transaction.
LEMMA ProducedEntries ==
  ASSUME EntryInv, NEW t \in Txs, Execute(t)
  PROVE  \A u \in DOMAIN utxos' : utxos'[u] \in Entry
<1> DEFINE set  == Remaining(utxos, t)
           outs == OutputsOf(t)
           new  == {<<t.id, i - 1>> : i \in DOMAIN outs}
<1>1. \A u \in DOMAIN set : set[u] \in Entry
  BY RemainingIs DEF EntryInv
<1>2. outs \in Seq(Entry)
  BY OutputTypes
<1>3. utxos' = Produce(set, t.id, outs)
  BY DEF Execute, Remaining
<1> HIDE DEF set, outs
<1>4. utxos' = [u \in DOMAIN set \cup new |-> IF u \in new THEN outs[u[2] + 1] ELSE set[u]]
  BY <1>3 DEF Produce
<1>5. ASSUME NEW u \in new
      PROVE  outs[u[2] + 1] \in Entry
  <2>1. PICK i \in DOMAIN outs : u = <<t.id, i - 1>>
    BY <1>5
  <2>2. i \in 1..Len(outs) /\ u[2] + 1 = i
    BY <1>2, <2>1
  <2>3. QED
    BY <1>2, <2>2
<1>6. QED
  BY <1>1, <1>4, <1>5

\* EntryInv holds always.
LEMMA EntryInvAlways == Spec => []EntryInv
<1>1. Init => EntryInv
  BY EntryAssumption DEF Init, EntryInv
<1>2. EntryInv /\ [Next]_vars => EntryInv'
  <2> SUFFICES ASSUME EntryInv, [Next]_vars
               PROVE  EntryInv'
    OBVIOUS
  <2>1. CASE Tick
    BY <2>1 DEF Tick, EntryInv
  <2>2. ASSUME NEW t \in Txs, Execute(t)
        PROVE  EntryInv'
    BY <2>2, ProducedEntries DEF Execute, EntryInv
  <2>3. CASE UNCHANGED <<clock, utxos>>
    BY <2>3 DEF EntryInv
  <2>4. QED
    BY <2>1, <2>2, <2>3 DEF Next, Bootstrapped, vars
<1>3. QED
  BY <1>1, <1>2, PTL DEF Spec

\* Once the chain is bootstrapped, whatever leaves the set has been signed away
\* by as many of its owners as its threshold says, after its locktime, whichever
\* the fx (secp256k1fx/fx.go 173-218, nftfx/fx.go 64-100, propertyfx/fx.go 62-91).
THEOREM OwnersHaveConsented == Spec => OwnersConsent
<1> DEFINE Signed(x, t, owners) ==
      Cardinality({k \in Key : /\ \E i \in DOMAIN owners.addrs : owners.addrs[i] = k
                               /\ \E i \in DOMAIN x.sigs :
                                    x.sigs[i] = [key |-> k, tx |-> t.body]})
        >= owners.threshold
<1>1. ASSUME EntryInv, [Next]_vars, ~UNCHANGED vars, bootstrapped,
             NEW u \in DOMAIN utxos \ DOMAIN utxos'
      PROVE  \E t \in executed' : \E x \in Inputs(t) \cup Operations(t) :
               /\ x.utxo = u
               /\ utxos[u].out.owners.locktime <= clock
               /\ Signed(x, t, utxos[u].out.owners)
  <2> DEFINE owners == utxos[u].out.owners
  <2>1. PICK t \in Txs : Execute(t)
    BY <1>1 DEF Next, Tick, Bootstrapped
  <2>2. t \in executed' /\ Verifies(t) /\ u \in Named(t)
    <3>1. DOMAIN utxos \ Named(t) \subseteq DOMAIN utxos'
      BY <2>1, SetKeeps
    <3>2. QED
      BY <1>1, <2>1, <3>1 DEF Execute
  <2>3. PICK x \in Inputs(t) \cup Operations(t) : x.utxo = u
    BY <2>2 DEF Named
  <2>4. owners \in Fx!Owners
    BY <1>1 DEF EntryInv, Entry, Output
  <2>5. \E in \in Seq(Nat) : Consents(t.body, in, x.sigs, owners)
    <3>1. CASE x \in Inputs(t)
      BY <2>2, <2>3, <3>1, InputConsent, SignatureTypes DEF Verifies, InputVerifies
    <3>2. CASE x \in Operations(t)
      BY <2>2, <2>3, <3>2, OperationConsent, SignatureTypes DEF Verifies, OperationVerifies
    <3>3. QED
      BY <2>3, <3>1, <3>2
  <2>6. PICK in \in Seq(Nat) : Consents(t.body, in, x.sigs, owners)
    BY <2>5
  <2>7. x.sigs \in Seq(Fx!Signature)
    BY <2>3, SignatureTypes
  <2>8. Cardinality(Signers(t.body, x.sigs, owners)) >= owners.threshold
    BY <1>1, <2>4, <2>6, <2>7, ThresholdMet
  <2>9. owners.locktime <= clock
    BY <1>1, <2>4, <2>6 DEF Consents, EntryInv, Fx!Owners
  <2>10. QED
    BY <2>2, <2>3, <2>8, <2>9 DEF Signers
<1>2. EntryInv /\ [Next]_vars =>
        [bootstrapped =>
           \A u \in DOMAIN utxos \ DOMAIN utxos' :
             \E t \in executed' : \E x \in Inputs(t) \cup Operations(t) :
               LET owners == utxos[u].out.owners
                   signers == {k \in Key : /\ \E i \in DOMAIN owners.addrs : owners.addrs[i] = k
                                           /\ \E i \in DOMAIN x.sigs :
                                                x.sigs[i] = [key |-> k, tx |-> t.body]}
               IN  /\ x.utxo = u
                   /\ owners.locktime <= clock
                   /\ Cardinality(signers) >= owners.threshold]_vars
  BY <1>1
<1>3. QED
  BY <1>2, EntryInvAlways, PTL DEF Spec, OwnersConsent

-----------------------------------------------------------------------------
(* What is stored adds up: a weight is a number for each thing that can be *)
(* stored, and the total of a set is the sum of the weights in it.         *)

Total(set, w) == SumFunctionOnSet([u \in DOMAIN set |-> w[set[u]]], DOMAIN set)

\* A set of UTXOs.
IsSet(set) == IsFiniteSet(DOMAIN set) /\ \A u \in DOMAIN set : set[u] \in Entry

\* The weight of a UTXO is a number.
LEMMA WeightType ==
  ASSUME NEW set, IsSet(set), NEW w \in [Entry -> Nat]
  PROVE  /\ \A u \in DOMAIN set : w[set[u]] \in Nat
         /\ Total(set, w) \in Nat
<1> DEFINE S == DOMAIN set
           z == [u \in S |-> w[set[u]]]
<1>1. \A u \in S : w[set[u]] \in Nat /\ z[u] \in Nat
  BY DEF IsSet
<1>2. IsFiniteSet(S)
  BY DEF IsSet
<1>3. Total(set, w) = SumFunctionOnSet(z, S)
  BY Zenon DEF Total
<1> HIDE DEF z, S
<1>4. SumFunctionOnSet(z, S) \in Nat
  BY <1>1, <1>2, SumFirst
<1>5. QED
  BY <1>1, <1>3, <1>4 DEF S

\* Outputs that are stored under new names add their weights.
LEMMA ProduceTotal ==
  ASSUME NEW set, IsSet(set), NEW id, \A u \in DOMAIN set : u[1] # id,
         NEW outs \in Seq(Entry), NEW w \in [Entry -> Nat]
  PROVE  /\ IsFiniteSet(DOMAIN Produce(set, id, outs))
         /\ Total(Produce(set, id, outs), w) = Total(set, w) + SumAlong(outs, w)
<1> DEFINE S == DOMAIN set
           J == 1..Len(outs)
           f == [i \in J |-> <<id, i - 1>>]
           new == {f[i] : i \in J}
           made == Produce(set, id, outs)
           v == [u \in S |-> w[set[u]]]
           z == [u \in S \cup new |-> w[made[u]]]
           x == [i \in J |-> w[outs[i]]]
<1>1. DOMAIN outs = J /\ IsFiniteSet(J) /\ \A i \in J : outs[i] \in Entry /\ i \in Nat
  <2>1. Len(outs) \in Nat /\ DOMAIN outs = J /\ \A i \in J : outs[i] \in Entry /\ i \in Nat
    OBVIOUS
  <2>2. QED
    BY <2>1, FS_Interval
<1>2. new = {<<id, i - 1>> : i \in DOMAIN outs}
  BY <1>1
<1>3. made = [u \in S \cup new |-> IF u \in new THEN outs[u[2] + 1] ELSE set[u]]
  BY <1>2, Zenon DEF Produce
<1>4. \A i \in J : f[i] = <<id, i - 1>> /\ f[i][1] = id /\ f[i][2] + 1 = i
  BY <1>1
<1>5. \A i, j \in J : f[i] = f[j] => i = j
  BY <1>1, <1>4
<1>6. S \cap new = {}
  BY <1>4
<1>7. \A i \in J : made[f[i]] = outs[i]
  BY <1>3, <1>4
<1>8. \A u \in S : made[u] = set[u]
  BY <1>3, <1>6
<1>9. DOMAIN made = S \cup new
  BY <1>3
<1> HIDE DEF S, J, f, made
<1>10. /\ \A u \in S : v[u] \in Nat /\ z[u] = v[u]
       /\ \A i \in J : x[i] \in Nat /\ z[f[i]] = x[i]
  <2>1. \A u \in S : w[set[u]] \in Nat
    BY WeightType DEF S
  <2>2. \A i \in J : w[outs[i]] \in Nat
    BY <1>1
  <2>3. \A i \in J : f[i] \in S \cup new
    OBVIOUS
  <2> HIDE DEF new
  <2>4. QED
    BY <1>7, <1>8, <2>1, <2>2, <2>3
<1>11. Total(set, w) = SumFunctionOnSet(v, S) /\ SumAlong(outs, w) = SumFunctionOnSet(x, J)
  BY <1>1, Zenon DEF Total, SumAlong, S
<1>12. Total(made, w) = SumFunctionOnSet(z, S \cup new)
  BY <1>9, Zenon DEF Total
<1> HIDE DEF v, z, x
<1>13. IsFiniteSet(S)
  BY DEF IsSet, S
<1>14. IsFiniteSet(new) /\ SumFunctionOnSet(z, new) = SumFunctionOnSet(x, J)
  <2>1. \A i \in J : z[f[i]] \in Nat
    BY <1>10
  <2>6. IsFiniteSet(J)
    BY <1>1
  <2>2. IsFiniteSet(new) /\ SumFunctionOnSet(z, new) = SumFunctionOnSet([i \in J |-> z[f[i]]], J)
    BY <1>5, <2>1, <2>6, SumThrough
  <2> DEFINE y == [i \in J |-> z[f[i]]]
  <2>3. \A i \in J : x[i] \in Nat /\ y[i] = x[i]
    BY <1>10
  <2> HIDE DEF y
  <2>4. SumFunctionOnSet(y, J) = SumFunctionOnSet(x, J)
    BY <1>1, <2>3, SumSame
  <2>5. QED
    BY <2>2, <2>4 DEF y
<1>15. SumFunctionOnSet(z, S) = SumFunctionOnSet(v, S)
  BY <1>10, <1>13, SumSame
<1>16. SumFunctionOnSet(z, S \cup new) = SumFunctionOnSet(z, S) + SumFunctionOnSet(z, new)
  <2>1. \A u \in S \cup new : z[u] \in Nat
    BY <1>10
  <2> HIDE DEF new
  <2>2. QED
    BY <1>6, <1>13, <1>14, <2>1, SumOfUnion
<1>17. IsFiniteSet(S \cup new)
  BY <1>13, <1>14, FS_Union
<1>18. QED
  BY <1>9, <1>11, <1>12, <1>14, <1>15, <1>16, <1>17 DEF made

\* What is taken takes its weight away.
LEMMA RemainingTotal ==
  ASSUME NEW set, IsSet(set), NEW t, Named(t) \subseteq DOMAIN set, NEW w \in [Entry -> Nat]
  PROVE  /\ IsSet(Remaining(set, t))
         /\ Total(set, w) = Total(Remaining(set, t), w)
                              + SumFunctionOnSet([u \in DOMAIN set |-> w[set[u]]], Named(t))
<1> DEFINE S == DOMAIN set
           N == Named(t)
           R == S \ N
           left == Remaining(set, t)
           v == [u \in S |-> w[set[u]]]
           z == [u \in R |-> w[left[u]]]
<1>1. left = [u \in R |-> set[u]]
  BY RemainingIs, Zenon
<1>2. DOMAIN left = R /\ \A u \in R : left[u] = set[u] /\ set[u] \in Entry
  BY <1>1 DEF IsSet
<1>3. IsFiniteSet(R) /\ IsFiniteSet(N)
  BY FS_Subset DEF IsSet
<1>4. \A u \in S : v[u] \in Nat
  BY WeightType
<1>5. \A u \in R : v[u] \in Nat /\ z[u] = v[u]
  BY <1>2, <1>4
<1>6. Total(left, w) = SumFunctionOnSet(z, R) /\ Total(set, w) = SumFunctionOnSet(v, S)
  BY <1>2, Zenon DEF Total
<1>7. R \cup N = S /\ R \cap N = {}
  OBVIOUS
<1>8. IsSet(left)
  BY <1>2, <1>3 DEF IsSet
<1> HIDE DEF v, z, R, N, S, left
<1>9. SumFunctionOnSet(z, R) = SumFunctionOnSet(v, R)
  BY <1>3, <1>5, SumSame
<1>10. SumFunctionOnSet(v, R \cup N) = SumFunctionOnSet(v, R) + SumFunctionOnSet(v, N)
  BY <1>3, <1>4, <1>7, SumOfUnion
<1>11. SumFunctionOnSet(v, S) = SumFunctionOnSet(v, R \cup N)
  BY <1>7, Zenon
<1>12. Total(set, w) = Total(left, w) + SumFunctionOnSet(v, N)
  BY <1>6, <1>9, <1>10, <1>11
<1>13. QED
  BY <1>8, <1>12 DEF v, N, S, left

\* The places of the inputs are finitely many, and sums over them go list by list.
LEMMA PlacesFinite ==
  ASSUME NEW t \in Txs
  PROVE  LET D == [i \in DOMAIN t.ins |-> DOMAIN t.ins[i]]
         IN  /\ IsFiniteSet(DOMAIN D) /\ \A i \in DOMAIN D : IsFiniteSet(D[i])
             /\ \A p : p \in Places(t) <=> \E i \in DOMAIN D : p \in {i} \X D[i]
             /\ \A p \in Places(t) : p[1] \in DOMAIN t.ins /\ p[2] \in DOMAIN t.ins[p[1]]
             /\ IsFiniteSet(Places(t))
<1> DEFINE P == Places(t)
           S == DOMAIN t.ins
           D == [i \in S |-> DOMAIN t.ins[i]]
           zero == [p \in P |-> 0]
           zeros == [i \in S |-> SumFunctionOnSet([j \in D[i] |-> 0], D[i])]
<1>1. t.ins \in Seq(Seq(TransferableInput))
  BY EntryAssumption
<1>2. IsFiniteSet(S)
  <2>1. S = 1..Len(t.ins) /\ Len(t.ins) \in Nat
    BY <1>1
  <2>2. QED
    BY <2>1, FS_Interval
<1>3. \A i \in S : IsFiniteSet(D[i])
  <2> SUFFICES ASSUME NEW i \in S PROVE IsFiniteSet(DOMAIN t.ins[i])
    OBVIOUS
  <2>1. t.ins[i] \in Seq(TransferableInput)
    BY <1>1
  <2>2. DOMAIN t.ins[i] = 1..Len(t.ins[i]) /\ Len(t.ins[i]) \in Nat
    BY <2>1
  <2>3. QED
    BY <2>2, FS_Interval
<1>4. DOMAIN D = S /\ \A i \in S : D[i] = DOMAIN t.ins[i]
  OBVIOUS
<1>5. P = UNION {{<<i, j>> : j \in DOMAIN t.ins[i]} : i \in S}
  BY Zenon DEF Places
<1> HIDE DEF D, S, P
<1>6. \A p : p \in P <=> \E i \in S : \E j \in D[i] : p = <<i, j>>
  BY <1>4, <1>5
<1>7. \A i, p : p \in {i} \X D[i] <=> \E j \in D[i] : p = <<i, j>>
  OBVIOUS
<1>8. \A p : p \in P <=> \E i \in S : p \in {i} \X D[i]
  BY <1>6, <1>7, Zenon
<1>9. \A p \in P : p[1] \in S /\ p[2] \in D[p[1]]
  BY <1>6
<1>10. \A i \in S : \E row : /\ zeros[i] = SumFunctionOnSet(row, D[i])
                            /\ \A p \in {i} \X D[i] : row[p[2]] = zero[p]
  <2> TAKE i \in S
  <2> DEFINE nothing == [j \in D[i] |-> 0]
  <2>1. zeros[i] = SumFunctionOnSet(nothing, D[i])
    OBVIOUS
  <2>2. \A p \in {i} \X D[i] : p \in P /\ p[2] \in D[i]
    BY <1>8
  <2>3. \A p \in {i} \X D[i] : nothing[p[2]] = zero[p]
    BY <2>2
  <2> HIDE DEF nothing
  <2>4. QED
    BY <2>1, <2>3
<1>11. IsFiniteSet(P)
  <2>1. \A p \in P : zero[p] \in Nat
    OBVIOUS
  <2>2. /\ IsFiniteSet(DOMAIN D) /\ (\A i \in DOMAIN D : IsFiniteSet(D[i]))
        /\ (\A p : p \in P <=> \E i \in DOMAIN D : p \in {i} \X D[i])
    BY <1>2, <1>3, <1>4, <1>8
  <2>3. \A i \in DOMAIN D : \E row : /\ zeros[i] = SumFunctionOnSet(row, D[i])
                                    /\ \A p \in {i} \X D[i] : row[p[2]] = zero[p]
    BY <1>4, <1>10, Zenon
  <2> HIDE DEF zero, zeros
  <2>4. PairsAdd(D, P, zero, zeros)
    BY <2>1, <2>2, <2>3, SumOfPairs
  <2>5. QED
    BY <2>4 DEF PairsAdd
<1>12. /\ IsFiniteSet(DOMAIN D) /\ (\A i \in DOMAIN D : IsFiniteSet(D[i]))
       /\ \A p : p \in P <=> \E i \in DOMAIN D : p \in {i} \X D[i]
  BY <1>2, <1>3, <1>4, <1>8
<1>13. \A p \in P : p[1] \in S /\ p[2] \in DOMAIN t.ins[p[1]]
  BY <1>4, <1>9
<1>14. QED
  BY <1>11, <1>12, <1>13, Zenon DEF P, S, D

\* What a transaction names is taken by its inputs and by its operations.
LEMMA NamedTotal ==
  ASSUME NEW t \in Txs, NamedOnce(t), NEW v, \A u \in Named(t) : v[u] \in Nat
  PROVE  SumFunctionOnSet(v, Named(t))
           = SumFunctionOnSet([p \in Places(t) |-> v[InputAt(t, p).utxo]], Places(t))
               + SumFunctionOnSet([k \in DOMAIN t.ops |-> v[t.ops[k].utxo]], DOMAIN t.ops)
<1> DEFINE P == Places(t)
           K == DOMAIN t.ops
           f == [p \in P |-> InputAt(t, p).utxo]
           g == [k \in K |-> t.ops[k].utxo]
           F == {f[p] : p \in P}
           G == {g[k] : k \in K}
<1>1. Named(t) = F \cup G
  BY DEF Named, Inputs, Operations
<1>2. /\ \A p, q \in P : f[p] = f[q] => p = q
      /\ \A k, l \in K : g[k] = g[l] => k = l
      /\ F \cap G = {}
  BY DEF NamedOnce
<1>3. IsFiniteSet(P)
  BY PlacesFinite
<1>4. IsFiniteSet(K)
  BY OutputTypes, FS_Interval
<1>5. /\ \A p \in P : v[f[p]] \in Nat
      /\ \A k \in K : v[g[k]] \in Nat
  BY <1>1
<1>6. /\ [p \in P |-> v[f[p]]] = [p \in P |-> v[InputAt(t, p).utxo]]
      /\ [k \in K |-> v[g[k]]] = [k \in K |-> v[t.ops[k].utxo]]
  OBVIOUS
<1> HIDE DEF P, K, f, g
<1>7. IsFiniteSet(F) /\ SumFunctionOnSet(v, F) = SumFunctionOnSet([p \in P |-> v[f[p]]], P)
  BY <1>2, <1>3, <1>5, SumThrough
<1>8. IsFiniteSet(G) /\ SumFunctionOnSet(v, G) = SumFunctionOnSet([k \in K |-> v[g[k]]], K)
  BY <1>2, <1>4, <1>5, SumThrough
<1>9. SumFunctionOnSet(v, F \cup G) = SumFunctionOnSet(v, F) + SumFunctionOnSet(v, G)
  <2>1. \A u \in F \cup G : v[u] \in Nat
    BY <1>5
  <2> HIDE DEF F, G
  <2>2. QED
    BY <1>2, <1>7, <1>8, <2>1, SumOfUnion
<1>10. SumFunctionOnSet(v, Named(t)) = SumFunctionOnSet(v, F \cup G)
  BY <1>1, Zenon
<1>11. /\ SumFunctionOnSet(v, F) = SumFunctionOnSet([p \in P |-> v[InputAt(t, p).utxo]], P)
       /\ SumFunctionOnSet(v, G) = SumFunctionOnSet([k \in K |-> v[t.ops[k].utxo]], K)
  BY <1>6, <1>7, <1>8, Zenon
<1>12. QED
  BY <1>9, <1>10, <1>11 DEF P, K

\* What the inputs of a transaction take, what its operations take, and what they leave.
InTotal(t, w) ==
  SumFunctionOnSet([p \in Places(t) |-> w[utxos[InputAt(t, p).utxo]]], Places(t))

TakenTotal(t, w) ==
  SumFunctionOnSet([k \in DOMAIN t.ops |-> w[utxos[t.ops[k].utxo]]], DOMAIN t.ops)

LeftTotal(t, w) ==
  SumFunctionOnSet([k \in DOMAIN t.ops |-> SumAlong(Left(t.ops[k]), w)], DOMAIN t.ops)

\* What a transaction changes.
LEMMA ExecuteTotal ==
  ASSUME LedgerInv, IsSet(utxos), NEW t \in Txs, Execute(t), NEW w \in [Entry -> Nat]
  PROVE  /\ IsFiniteSet(DOMAIN utxos')
         /\ Total(utxos', w) + (InTotal(t, w) + TakenTotal(t, w))
              = Total(utxos, w) + (SumAlong(Transferred(t.outs), w) + LeftTotal(t, w))
<1> DEFINE left == Remaining(utxos, t)
           outs == OutputsOf(t)
           v == [u \in DOMAIN utxos |-> w[utxos[u]]]
<1>1. Verifies(t) /\ utxos' = Produce(left, t.id, outs)
  BY Zenon DEF Execute, Remaining
<1>2. Named(t) \subseteq DOMAIN utxos
  BY <1>1, NamesStored
<1>3. /\ IsSet(left)
      /\ Total(utxos, w) = Total(left, w) + SumFunctionOnSet(v, Named(t))
  BY <1>2, RemainingTotal
<1>4. \A u \in DOMAIN left : u[1] # t.id
  BY NeverBefore, RemainingIs DEF LedgerInv
<1>5. outs \in Seq(Entry)
  BY OutputTypes
<1>6. SumAlong(outs, w) = SumAlong(Transferred(t.outs), w) + LeftTotal(t, w)
  BY OutputTypes, Zenon DEF LeftTotal
<1>7. \A u \in DOMAIN utxos : v[u] \in Nat
  BY WeightType
<1>8. SumFunctionOnSet(v, Named(t)) = InTotal(t, w) + TakenTotal(t, w)
  <2>1. /\ \A p \in Places(t) : InputAt(t, p).utxo \in DOMAIN utxos
        /\ \A k \in DOMAIN t.ops : t.ops[k].utxo \in DOMAIN utxos
    BY <1>2 DEF Named, Inputs, Operations
  <2>2. /\ [p \in Places(t) |-> v[InputAt(t, p).utxo]]
             = [p \in Places(t) |-> w[utxos[InputAt(t, p).utxo]]]
        /\ [k \in DOMAIN t.ops |-> v[t.ops[k].utxo]]
             = [k \in DOMAIN t.ops |-> w[utxos[t.ops[k].utxo]]]
    BY <2>1
  <2>3. NamedOnce(t) /\ \A u \in Named(t) : v[u] \in Nat
    BY <1>1, <1>2, <1>7 DEF Verifies
  <2> HIDE DEF v
  <2>4. SumFunctionOnSet(v, Named(t))
          = SumFunctionOnSet([p \in Places(t) |-> v[InputAt(t, p).utxo]], Places(t))
              + SumFunctionOnSet([k \in DOMAIN t.ops |-> v[t.ops[k].utxo]], DOMAIN t.ops)
    BY <2>3, NamedTotal
  <2>5. QED
    BY <2>2, <2>4, Zenon DEF InTotal, TakenTotal
<1> HIDE DEF left, outs, v
<1>9. /\ IsFiniteSet(DOMAIN Produce(left, t.id, outs))
      /\ Total(Produce(left, t.id, outs), w) = Total(left, w) + SumAlong(outs, w)
  BY <1>3, <1>4, <1>5, ProduceTotal
<1>10. IsFiniteSet(DOMAIN utxos') /\ Total(utxos', w) = Total(left, w) + SumAlong(outs, w)
  BY <1>1, <1>9, Zenon
<1>11. /\ Total(left, w) \in Nat /\ SumAlong(Transferred(t.outs), w) \in Nat
       /\ SumAlong(outs, w) \in Nat
  BY <1>3, <1>5, WeightType, SumAlongType, OutputTypes
<1>12. SumFunctionOnSet(v, Named(t)) \in Nat
  <2>1. IsFiniteSet(Named(t)) /\ \A u \in Named(t) : v[u] \in Nat
    BY <1>2, <1>7, FS_Subset DEF IsSet
  <2>2. QED
    BY <2>1, SumFirst
<1>13. QED
  BY <1>3, <1>6, <1>8, <1>10, <1>11, <1>12

-----------------------------------------------------------------------------
(* What operations do: a tally adds a number for each that was executed.   *)

OpTotal(t, n) == SumFunctionOnSet([k \in DOMAIN t.ops |-> n[t.ops[k]]], DOMAIN t.ops)

\* The operations of a transaction.
LEMMA OpsOf ==
  ASSUME NEW t \in Txs
  PROVE  /\ IsFiniteSet(DOMAIN t.ops)
         /\ \A k \in DOMAIN t.ops : /\ t.ops[k] \in Operations(t) /\ t.ops[k] \in Ops
                                    /\ Left(t.ops[k]) \in Seq(Entry)
<1>1. DOMAIN t.ops = 1..Len(t.ops) /\ Len(t.ops) \in Nat
  BY OutputTypes
<1>2. IsFiniteSet(DOMAIN t.ops)
  BY <1>1, FS_Interval
<1>3. \A k \in DOMAIN t.ops : /\ t.ops[k] \in Operations(t) /\ t.ops[k] \in Ops
                              /\ Left(t.ops[k]) \in Seq(Entry)
  BY OutputTypes DEF Operations, Ops
<1>4. QED
  BY <1>2, <1>3

\* Its total is a number.
LEMMA OpTotalType ==
  ASSUME NEW t \in Txs, NEW n \in [Ops -> Nat]
  PROVE  OpTotal(t, n) \in Nat
<1> DEFINE K == DOMAIN t.ops
           z == [k \in K |-> n[t.ops[k]]]
<1>1. IsFiniteSet(K) /\ \A k \in K : z[k] \in Nat
  BY OpsOf
<1>2. OpTotal(t, n) = SumFunctionOnSet(z, K)
  BY Zenon DEF OpTotal
<1> HIDE DEF K, z
<1>3. QED
  BY <1>1, <1>2, SumFirst

\* A tally is the sum of these over the transactions.
LEMMA TallyOfTotals ==
  ASSUME NEW n
  PROVE  /\ Tally(n) = SumFunctionOnSet([t \in executed |-> OpTotal(t, n)], executed)
         /\ Tally(n)' = SumFunctionOnSet([t \in executed' |-> OpTotal(t, n)], executed')
<1>1. \A t : SumFunction([k \in DOMAIN t.ops |-> n[t.ops[k]]]) = OpTotal(t, n)
  BY Zenon DEF SumFunction, OpTotal
<1>2. \A S : SumFunction([t \in S |-> SumFunction([k \in DOMAIN t.ops |-> n[t.ops[k]]])])
               = SumFunctionOnSet([t \in S |-> OpTotal(t, n)], S)
  <2> TAKE S
  <2>1. [t \in S |-> SumFunction([k \in DOMAIN t.ops |-> n[t.ops[k]]])] = [t \in S |-> OpTotal(t, n)]
    BY <1>1
  <2>2. DOMAIN [t \in S |-> OpTotal(t, n)] = S
    OBVIOUS
  <2>3. QED
    BY <2>1, <2>2, Zenon DEF SumFunction
<1>3. QED
  BY <1>2, Zenon DEF Tally

\* Those that are executed are finitely many, and of what is given.
Finite == IsFiniteSet(executed) /\ executed \subseteq Txs

\* Then a tally is a number.
LEMMA TallyType ==
  ASSUME Finite, NEW n \in [Ops -> Nat]
  PROVE  Tally(n) \in Nat
<1> DEFINE z == [t \in executed |-> OpTotal(t, n)]
<1>1. IsFiniteSet(executed) /\ \A t \in executed : z[t] \in Nat
  BY OpTotalType DEF Finite
<1>2. Tally(n) = SumFunctionOnSet(z, executed)
  BY TallyOfTotals, Zenon
<1> HIDE DEF z
<1>3. QED
  BY <1>1, <1>2, SumFirst

\* A transaction adds its total to every tally: it was not executed before.
LEMMA TallyAdds ==
  ASSUME Finite, LedgerInv, NEW t \in Txs, Execute(t), NEW n \in [Ops -> Nat]
  PROVE  Tally(n)' = Tally(n) + OpTotal(t, n)
<1> DEFINE z == [s \in executed |-> OpTotal(s, n)]
           y == [s \in executed' |-> OpTotal(s, n)]
<1>1. executed' = executed \cup {t} /\ t \notin executed
  BY NeverBefore DEF Execute
<1>2. \A s \in executed \cup {t} : y[s] = OpTotal(s, n) /\ y[s] \in Nat
  BY <1>1, OpTotalType DEF Finite
<1>3. \A s \in executed : z[s] = OpTotal(s, n)
  OBVIOUS
<1>4. Tally(n) = SumFunctionOnSet(z, executed) /\ Tally(n)' = SumFunctionOnSet(y, executed')
  BY TallyOfTotals, Zenon
<1> HIDE DEF z, y
<1>5. IsFiniteSet(executed)
  BY DEF Finite
<1>6. SumFunctionOnSet(y, executed \cup {t}) = SumFunctionOnSet(y, executed) + y[t]
  BY <1>1, <1>2, <1>5, SumAdds
<1>7. SumFunctionOnSet(z, executed) = SumFunctionOnSet(y, executed)
  BY <1>2, <1>3, <1>5, SumSame
<1>8. SumFunctionOnSet(y, executed') = SumFunctionOnSet(y, executed \cup {t})
  BY <1>1, Zenon
<1>9. QED
  BY <1>2, <1>4, <1>6, <1>7, <1>8

\* What an operation has in common with the output it takes, as its fx asks.
Agrees(o, e) ==
  /\ e.asset = o.asset
  /\ e.out.kind = o.op.kind
  /\ o.op.kind \in {"mint", "nftMint", "nft", "propertyMint", "owned"}
  /\ o.op.kind \in {"mint", "propertyMint"} => Fx!Equals(e.out.owners, o.op.mint)
  /\ o.op.kind \in {"nft", "nftMint"} => e.out.group = o.op.group
  /\ o.op.kind = "nft" => e.out.payload = o.op.payload

\* A transaction is executed only if its operations agree with what they take.
LEMMA OperationAgrees ==
  ASSUME NEW t \in Txs, Verifies(t), NEW o \in Operations(t)
  PROVE  o.utxo \in DOMAIN utxos /\ Agrees(o, utxos[o.utxo])
<1> DEFINE e == utxos[o.utxo]
           op == o.op
<1>1. o.utxo \in DOMAIN utxos /\ e.asset = o.asset /\ VerifyOperation(t.body, op, o.sigs, e.out)
  BY DEF Verifies, OperationVerifies, Found
<1> HIDE DEF e, op
<1>2. e.out.kind = op.kind
  BY <1>1 DEF VerifyOperation
<1> USE DEF Agrees
<1>3. CASE op.kind = "mint" /\ VerifyMint(t.body, op, o.sigs, e.out)
  BY <1>1, <1>2, <1>3 DEF VerifyMint, Fx!VerifyOperation, op, e
<1>4. CASE op.kind = "nftMint" /\ VerifyNFTMint(t.body, op, o.sigs, e.out)
  BY <1>1, <1>2, <1>4 DEF VerifyNFTMint, op, e
<1>5. CASE op.kind = "nft" /\ VerifyNFTTransfer(t.body, op, o.sigs, e.out)
  BY <1>1, <1>2, <1>5 DEF VerifyNFTTransfer, op, e
<1>6. CASE op.kind = "propertyMint" /\ VerifyPropertyMint(t.body, op, o.sigs, e.out)
  BY <1>1, <1>2, <1>6 DEF VerifyPropertyMint, op, e
<1>7. CASE op.kind = "owned" /\ VerifyBurn(t.body, op, o.sigs, e.out)
  BY <1>1, <1>2, <1>7 DEF op, e
<1>8. QED
  BY <1>1, <1>3, <1>4, <1>5, <1>6, <1>7 DEF VerifyOperation

\* A weight is accounted for if every operation leaves as much as it takes, but for
\* what it makes and what it destroys.
Accounts(w, made, gone) ==
  /\ w \in [Entry -> Nat] /\ made \in [Ops -> Nat] /\ gone \in [Ops -> Nat]
  /\ \A o \in Ops : \A e \in Entry :
       Agrees(o, e) => w[e] + made[o] = SumAlong(Left(o), w) + gone[o]

\* Then so do the operations of a transaction.
LEMMA OperationsAccount ==
  ASSUME IsSet(utxos), NEW t \in Txs, Execute(t), NEW w, NEW made, NEW gone, Accounts(w, made, gone)
  PROVE  TakenTotal(t, w) + OpTotal(t, made) = LeftTotal(t, w) + OpTotal(t, gone)
<1> DEFINE K == DOMAIN t.ops
           taken == [k \in K |-> w[utxos[t.ops[k].utxo]]]
           left == [k \in K |-> SumAlong(Left(t.ops[k]), w)]
           m == [k \in K |-> made[t.ops[k]]]
           g == [k \in K |-> gone[t.ops[k]]]
           z == [k \in K |-> taken[k] + m[k]]
<1>1. IsFiniteSet(K) /\ \A k \in K : /\ t.ops[k] \in Operations(t) /\ t.ops[k] \in Ops
                                     /\ Left(t.ops[k]) \in Seq(Entry)
  BY OpsOf
<1>2. w \in [Entry -> Nat] /\ made \in [Ops -> Nat] /\ gone \in [Ops -> Nat]
  BY DEF Accounts
<1>3. ASSUME NEW k \in K
      PROVE  /\ taken[k] \in Nat /\ m[k] \in Nat /\ left[k] \in Nat /\ g[k] \in Nat
             /\ z[k] = taken[k] + m[k] /\ z[k] = left[k] + g[k]
  <2> DEFINE o == t.ops[k]
             e == utxos[o.utxo]
  <2>1. o \in Ops /\ o \in Operations(t) /\ Left(o) \in Seq(Entry)
    BY <1>1
  <2>2. Agrees(o, e) /\ e \in Entry
    <3>1. Verifies(t)
      BY DEF Execute
    <3> HIDE DEF o
    <3>2. o.utxo \in DOMAIN utxos /\ Agrees(o, utxos[o.utxo])
      BY <2>1, <3>1, OperationAgrees
    <3>3. QED
      BY <3>2 DEF IsSet
  <2>3. /\ taken[k] = w[e] /\ m[k] = made[o] /\ left[k] = SumAlong(Left(o), w) /\ g[k] = gone[o]
        /\ z[k] = taken[k] + m[k]
    OBVIOUS
  <2> HIDE DEF o, e, taken, left, m, g, z
  <2>4. SumAlong(Left(o), w) \in Nat
    BY <1>2, <2>1, SumAlongType
  <2>5. w[e] \in Nat /\ made[o] \in Nat /\ gone[o] \in Nat
    BY <1>2, <2>1, <2>2
  <2>6. w[e] + made[o] = SumAlong(Left(o), w) + gone[o]
    BY <2>1, <2>2 DEF Accounts
  <2>7. QED
    BY <2>3, <2>4, <2>5, <2>6
<1>4. /\ TakenTotal(t, w) = SumFunctionOnSet(taken, K) /\ LeftTotal(t, w) = SumFunctionOnSet(left, K)
      /\ OpTotal(t, made) = SumFunctionOnSet(m, K) /\ OpTotal(t, gone) = SumFunctionOnSet(g, K)
  BY Zenon DEF TakenTotal, LeftTotal, OpTotal
<1> HIDE DEF K, taken, left, m, g, z
<1>5. SumFunctionOnSet(z, K) = SumFunctionOnSet(taken, K) + SumFunctionOnSet(m, K)
  BY <1>1, <1>3, SumOfSums
<1>6. SumFunctionOnSet(z, K) = SumFunctionOnSet(left, K) + SumFunctionOnSet(g, K)
  BY <1>1, <1>3, SumOfSums
<1>7. QED
  BY <1>4, <1>5, <1>6

\* A weight that no transferred amount has.
OfTokens(w) == \A e \in Entry : e.out.kind = "transfer" => w[e] = 0

\* Whatever is accounted for adds up.
AddsUp(w, made, gone) == Total(utxos, w) + Tally(gone) = Total(Genesis, w) + Tally(made)

AccountInv ==
  /\ LedgerInv /\ EntryInv /\ IsSet(utxos) /\ Finite
  /\ \A w, made, gone : Accounts(w, made, gone) /\ OfTokens(w) => AddsUp(w, made, gone)

\* An input takes an amount.
LEMMA InputTakesAmount ==
  ASSUME NEW t \in Txs, Verifies(t), NEW p \in Places(t)
  PROVE  LET in == InputAt(t, p)
             e  == utxos[in.utxo]
         IN  /\ in \in TransferableInput /\ in \in Inputs(t)
             /\ in.utxo \in DOMAIN utxos /\ e.asset = in.asset /\ e.out.kind = "transfer"
             /\ in.amt # 0 /\ e.out.amt = in.amt /\ Fx!ValidInput(in.in)
<1> DEFINE in == InputAt(t, p)
           e  == utxos[in.utxo]
<1>1. in \in TransferableInput /\ in \in Inputs(t)
  BY InputTypes DEF Inputs
<1>2. InputVerifies(t, in)
  BY <1>1 DEF Verifies
<1> HIDE DEF in
<1>3. in.utxo \in DOMAIN utxos /\ e.asset = in.asset /\ VerifyTransfer(t.body, in, in.sigs, e.out)
  BY <1>2 DEF InputVerifies, Found
<1> HIDE DEF e
<1>4. e.out.kind = "transfer" /\ in.amt # 0 /\ e.out.amt = in.amt /\ Fx!ValidInput(in.in)
  BY <1>3 DEF VerifyTransfer, Fx!VerifySpend, Fx!ValidTransferInput
<1>5. QED
  BY <1>1, <1>3, <1>4 DEF in, e

\* Inputs and outputs of transactions have no weight of tokens.
LEMMA NoTokensTransferred ==
  ASSUME IsSet(utxos), NEW t \in Txs, Execute(t), NEW w \in [Entry -> Nat], OfTokens(w)
  PROVE  InTotal(t, w) = 0 /\ SumAlong(Transferred(t.outs), w) = 0
<1>1. InTotal(t, w) = 0
  <2> DEFINE z == [p \in Places(t) |-> w[utxos[InputAt(t, p).utxo]]]
  <2>1. \A p \in Places(t) : z[p] = 0
    <3> SUFFICES ASSUME NEW p \in Places(t) PROVE w[utxos[InputAt(t, p).utxo]] = 0
      OBVIOUS
    <3>1. Verifies(t)
      BY DEF Execute
    <3>2. /\ InputAt(t, p).utxo \in DOMAIN utxos
          /\ utxos[InputAt(t, p).utxo].out.kind = "transfer"
      BY <3>1, InputTakesAmount
    <3>3. QED
      BY <3>2 DEF IsSet, OfTokens
  <2>2. InTotal(t, w) = SumFunctionOnSet(z, Places(t))
    BY Zenon DEF InTotal
  <2> HIDE DEF z
  <2>3. IsFiniteSet(Places(t))
    BY PlacesFinite
  <2>4. QED
    BY <2>1, <2>2, <2>3, SumOfZeros
<1>2. SumAlong(Transferred(t.outs), w) = 0
  <2> DEFINE s == Transferred(t.outs)
             z == [i \in DOMAIN s |-> w[s[i]]]
  <2>1. s \in Seq(Entry)
    BY OutputTypes
  <2>2. \A i \in DOMAIN s : s[i].out.kind = "transfer"
    BY DEF Transferred, Transfer
  <2> HIDE DEF s
  <2>3. \A i \in DOMAIN s : s[i] \in Entry
    BY <2>1
  <2>4. \A i \in DOMAIN s : z[i] = 0
    BY <2>2, <2>3 DEF OfTokens
  <2>5. IsFiniteSet(DOMAIN s)
    <3>1. DOMAIN s = 1..Len(s) /\ Len(s) \in Nat
      BY <2>1
    <3>2. QED
      BY <3>1, FS_Interval
  <2>6. SumAlong(s, w) = SumFunctionOnSet(z, DOMAIN s)
    BY Zenon DEF SumAlong
  <2> HIDE DEF z
  <2>7. SumAlong(s, w) = 0
    BY <2>4, <2>5, <2>6, SumOfZeros
  <2>8. QED
    BY <2>7 DEF s
<1>3. QED
  BY <1>1, <1>2

\* The first UTXOs are a set of UTXOs.
LEMMA GenesisSet == IsSet(Genesis)
  BY LedgerAssumption, EntryAssumption DEF IsSet

\* The set stays a set, and what is executed finite.
LEMMA SetStep ==
  ASSUME LedgerInv, EntryInv, IsSet(utxos), Finite, NEW t \in Txs, Execute(t)
  PROVE  IsSet(utxos)' /\ Finite'
<1> DEFINE w == [e \in Entry |-> 0]
<1>1. w \in [Entry -> Nat]
  OBVIOUS
<1> HIDE DEF w
<1>2. IsFiniteSet(DOMAIN utxos')
  BY <1>1, ExecuteTotal
<1>3. IsSet(utxos)'
  BY <1>2, ProducedEntries DEF IsSet
<1>4. executed' = executed \cup {t}
  BY DEF Execute
<1>5. Finite'
  BY <1>4, FS_AddElement DEF Finite
<1>6. QED
  BY <1>3, <1>5

\* Sums over operations are numbers.
LEMMA TakenType ==
  ASSUME IsSet(utxos), NEW t \in Txs, Execute(t), NEW w \in [Entry -> Nat]
  PROVE  TakenTotal(t, w) \in Nat /\ LeftTotal(t, w) \in Nat
<1> DEFINE K == DOMAIN t.ops
           taken == [k \in K |-> w[utxos[t.ops[k].utxo]]]
           left == [k \in K |-> SumAlong(Left(t.ops[k]), w)]
<1>1. IsFiniteSet(K) /\ \A k \in K : /\ t.ops[k] \in Operations(t) /\ t.ops[k] \in Ops
                                     /\ Left(t.ops[k]) \in Seq(Entry)
  BY OpsOf
<1>2. \A k \in K : taken[k] \in Nat
  <2>1. \A k \in K : t.ops[k].utxo \in DOMAIN utxos
    BY <1>1, OperationAgrees DEF Execute
  <2>2. QED
    BY <2>1 DEF IsSet
<1>3. \A k \in K : left[k] \in Nat
  BY <1>1, SumAlongType
<1>4. TakenTotal(t, w) = SumFunctionOnSet(taken, K) /\ LeftTotal(t, w) = SumFunctionOnSet(left, K)
  BY Zenon DEF TakenTotal, LeftTotal
<1> HIDE DEF K, taken, left
<1>5. QED
  BY <1>1, <1>2, <1>3, <1>4, SumFirst

\* A transaction keeps what is accounted for.
LEMMA AccountStep ==
  ASSUME AccountInv, NEW t \in Txs, Execute(t),
         NEW w, NEW made, NEW gone, Accounts(w, made, gone), OfTokens(w)
  PROVE  AddsUp(w, made, gone)'
<1>1. w \in [Entry -> Nat] /\ made \in [Ops -> Nat] /\ gone \in [Ops -> Nat]
  BY DEF Accounts
<1>2. LedgerInv /\ EntryInv /\ IsSet(utxos) /\ Finite /\ AddsUp(w, made, gone)
  BY DEF AccountInv
<1>3. Total(utxos', w) + (InTotal(t, w) + TakenTotal(t, w))
        = Total(utxos, w) + (SumAlong(Transferred(t.outs), w) + LeftTotal(t, w))
  BY <1>1, <1>2, ExecuteTotal
<1>4. InTotal(t, w) = 0 /\ SumAlong(Transferred(t.outs), w) = 0
  BY <1>1, <1>2, NoTokensTransferred
<1>5. TakenTotal(t, w) + OpTotal(t, made) = LeftTotal(t, w) + OpTotal(t, gone)
  BY <1>2, OperationsAccount
<1>6. Tally(made)' = Tally(made) + OpTotal(t, made) /\ Tally(gone)' = Tally(gone) + OpTotal(t, gone)
  BY <1>1, <1>2, TallyAdds
<1>7. IsSet(utxos)' /\ IsSet(Genesis)
  BY <1>2, SetStep, GenesisSet
<1>8. Total(utxos', w) \in Nat
  BY <1>1, <1>7, WeightType
<1>9. /\ Total(utxos, w) \in Nat /\ Total(Genesis, w) \in Nat
      /\ Tally(made) \in Nat /\ Tally(gone) \in Nat
      /\ OpTotal(t, made) \in Nat /\ OpTotal(t, gone) \in Nat
  BY <1>1, <1>2, <1>7, WeightType, TallyType, OpTotalType
<1>10. TakenTotal(t, w) \in Nat /\ LeftTotal(t, w) \in Nat
  BY <1>1, <1>2, TakenType
<1>11. Total(utxos', w) + Tally(gone)' = Total(Genesis, w) + Tally(made)'
  <2>1. Total(utxos, w) + Tally(gone) = Total(Genesis, w) + Tally(made)
    BY <1>2 DEF AddsUp
  <2>2. QED
    BY <1>3, <1>4, <1>5, <1>6, <1>8, <1>9, <1>10, <2>1
<1>12. QED
  BY <1>11, Zenon DEF AddsUp

\* At first nothing has been executed.
LEMMA AccountInvInit == Init => AccountInv
<1> SUFFICES ASSUME Init PROVE AccountInv
  OBVIOUS
<1>1. utxos = Genesis /\ executed = {}
  BY DEF Init
<1>2. LedgerInv /\ EntryInv
  BY LedgerInvInit, EntryAssumption DEF Init, EntryInv
<1>3. IsSet(utxos) /\ Finite
  <2>1. IsFiniteSet(executed)
    BY <1>1, FS_EmptySet
  <2>2. QED
    BY <1>1, <2>1, GenesisSet, Zenon DEF Finite
<1>4. ASSUME NEW w, NEW made, NEW gone, Accounts(w, made, gone)
      PROVE  AddsUp(w, made, gone)
  <2>1. ASSUME NEW n PROVE Tally(n) = 0
    <3> DEFINE z == [t \in executed |-> OpTotal(t, n)]
    <3>1. Tally(n) = SumFunctionOnSet(z, executed)
      BY TallyOfTotals, Zenon
    <3>2. IsFiniteSet(executed) /\ \A t \in executed : z[t] \in Nat
      BY <1>1, FS_EmptySet
    <3> HIDE DEF z
    <3>3. QED
      BY <1>1, <3>1, <3>2, SumFirst
  <2>2. QED
    BY <1>1, <2>1 DEF AddsUp
<1>5. QED
  BY <1>2, <1>3, <1>4 DEF AccountInv

\* AccountInv holds always.
LEMMA AccountInvAlways == Spec => []AccountInv
<1>1. AccountInv /\ LedgerInv' /\ EntryInv' /\ [Next]_vars => AccountInv'
  <2> SUFFICES ASSUME AccountInv, LedgerInv', EntryInv', [Next]_vars
               PROVE  AccountInv'
    OBVIOUS
  <2>1. ASSUME NEW t \in Txs, Execute(t)
        PROVE  AccountInv'
    <3>1. IsSet(utxos)' /\ Finite'
      BY <2>1, SetStep DEF AccountInv
    <3>2. ASSUME NEW w, NEW made, NEW gone, Accounts(w, made, gone), OfTokens(w)
          PROVE  AddsUp(w, made, gone)'
      BY <2>1, <3>2, AccountStep
    <3>3. QED
      BY <3>1, <3>2 DEF AccountInv
  <2>2. CASE UNCHANGED <<utxos, executed>>
    <3>1. IsSet(utxos)' /\ Finite'
      BY <2>2 DEF AccountInv, IsSet, Finite
    <3>2. ASSUME NEW w, NEW made, NEW gone, Accounts(w, made, gone), OfTokens(w)
          PROVE  AddsUp(w, made, gone)'
      <4>1. AddsUp(w, made, gone)
        BY <3>2 DEF AccountInv
      <4>2. ASSUME NEW n PROVE Tally(n)' = Tally(n)
        BY <2>2, TallyOfTotals, Zenon
      <4>3. QED
        BY <2>2, <4>1, <4>2 DEF AddsUp
    <3>3. QED
      BY <3>1, <3>2 DEF AccountInv
  <2>3. QED
    BY <2>1, <2>2 DEF Next, Tick, Bootstrapped, vars
<1>2. QED
  BY <1>1, AccountInvInit, LedgerInvAlways, EntryInvAlways, PTL DEF Spec

-----------------------------------------------------------------------------
(* Counting: what is of a kind has the weight one.                         *)

Indicator(P) == [e \in Entry |-> IF e \in P THEN 1 ELSE 0]

\* What is counted is the total of these weights.
LEMMA CountTotal ==
  ASSUME NEW set, IsSet(set), NEW P
  PROVE  /\ Indicator(P) \in [Entry -> Nat]
         /\ \A e \in Entry : Indicator(P)[e] = IF e \in P THEN 1 ELSE 0
         /\ Cardinality({u \in DOMAIN set : set[u] \in P}) = Total(set, Indicator(P))
<1> DEFINE S == DOMAIN set
           D == {u \in S : set[u] \in P}
           z == [u \in S |-> IF u \in D THEN 1 ELSE 0]
           v == [u \in S |-> Indicator(P)[set[u]]]
<1>1. IsFiniteSet(S) /\ D \in SUBSET S
  BY DEF IsSet
<1>2. v = z
  BY DEF IsSet, Indicator
<1>3. Total(set, Indicator(P)) = SumFunctionOnSet(v, S)
  BY Zenon DEF Total
<1>4. Cardinality(D) = SumFunctionOnSet(z, S)
  <2> HIDE DEF S, D
  <2> QED
    BY <1>1, CountIsSum
<1>5. Cardinality(D) = Total(set, Indicator(P))
  BY <1>2, <1>3, <1>4, Zenon
<1>6. /\ Indicator(P) \in [Entry -> Nat]
      /\ \A e \in Entry : Indicator(P)[e] = IF e \in P THEN 1 ELSE 0
  BY DEF Indicator
<1>7. QED
  BY <1>5, <1>6

\* Sums along short sequences, and of ones and zeros.
LEMMA SumAlongShort ==
  ASSUME NEW V, NEW s \in Seq(V), NEW w \in [V -> Nat]
  PROVE  /\ Len(s) = 0 => SumAlong(s, w) = 0
         /\ Len(s) = 1 => SumAlong(s, w) = w[s[1]]
         /\ Len(s) = 2 => SumAlong(s, w) = w[s[1]] + w[s[2]]
         /\ (\A i \in 1..Len(s) : w[s[i]] = 0) => SumAlong(s, w) = 0
         /\ (\A i \in 1..Len(s) : w[s[i]] = 1) => SumAlong(s, w) = Len(s)
<1> DEFINE n == Len(s)
           z == [i \in 1..n |-> w[s[i]]]
           ones == [i \in 1..n |-> IF i \in 1..n THEN 1 ELSE 0]
<1>1. n \in Nat /\ DOMAIN s = 1..n
  OBVIOUS
<1>2. \A i \in 1..n : z[i] = w[s[i]] /\ z[i] \in Nat
  OBVIOUS
<1>3. SumAlong(s, w) = SumFunctionOnSet(z, 1..n)
  BY <1>1, Zenon DEF SumAlong
<1>4. \A i \in 1..n : ones[i] = 1
  OBVIOUS
<1> HIDE DEF n, z
<1>5. \A k \in Nat : k <= n => \A i \in 1..k : z[i] \in Nat
  BY <1>1, <1>2
<1>6. SumFunctionOnSet(z, 1..0) = 0
  BY SumOfPrefix
<1>7. ASSUME NEW k \in Nat, k > 0, k <= n
      PROVE  /\ SumFunctionOnSet(z, 1..k) = SumFunctionOnSet(z, 1..(k - 1)) + z[k]
             /\ z[k] \in Nat
  <2>1. \A i \in 1..k : z[i] \in Nat
    BY <1>5, <1>7
  <2>2. k \in 1..k
    BY <1>7
  <2>3. QED
    BY <1>7, <2>1, <2>2, SumOfPrefix
<1>8. n > 0 => SumFunctionOnSet(z, 1..1) = z[1] /\ z[1] \in Nat
  <2> SUFFICES ASSUME n > 0 PROVE SumFunctionOnSet(z, 1..1) = z[1] /\ z[1] \in Nat
    OBVIOUS
  <2>1. \A k \in Nat : k = 1 => SumFunctionOnSet(z, 1..(k - 1)) = 0
    BY <1>6
  <2>2. ASSUME NEW k \in Nat, k = 1
        PROVE  SumFunctionOnSet(z, 1..k) = z[k] /\ z[k] \in Nat
    <3> DEFINE before == SumFunctionOnSet(z, 1..(k - 1))
               after == SumFunctionOnSet(z, 1..k)
    <3>1. before = 0
      BY <2>1, <2>2, Zenon
    <3>2. k > 0 /\ k <= n
      BY <1>1, <2>2
    <3>3. after = before + z[k] /\ z[k] \in Nat
      BY <1>7, <3>2, Zenon
    <3> HIDE DEF before, after
    <3>4. after = z[k] /\ z[k] \in Nat
      BY <3>1, <3>3
    <3>5. QED
      BY <3>4 DEF after
  <2>3. QED
    BY <2>2
<1>13. n = 2 => SumFunctionOnSet(z, 1..2) = z[1] + z[2]
  <2> SUFFICES ASSUME n = 2 PROVE SumFunctionOnSet(z, 1..2) = z[1] + z[2]
    OBVIOUS
  <2>1. \A k \in Nat : k = 2 => SumFunctionOnSet(z, 1..(k - 1)) = z[1] /\ z[1] \in Nat
    BY <1>8
  <2>2. ASSUME NEW k \in Nat, k = 2
        PROVE  SumFunctionOnSet(z, 1..k) = z[1] + z[k]
    <3> DEFINE before == SumFunctionOnSet(z, 1..(k - 1))
               after == SumFunctionOnSet(z, 1..k)
    <3>1. before = z[1]
      BY <2>1, <2>2, Zenon
    <3>2. k > 0 /\ k <= n
      BY <1>1, <2>2
    <3>3. after = before + z[k]
      BY <1>7, <3>2, Zenon
    <3>4. after = z[1] + z[k]
      BY <3>1, <3>3, Zenon
    <3>5. QED
      BY <3>4
  <2>3. QED
    BY <2>2
<1>9. IsFiniteSet(1..n)
  BY <1>1, FS_Interval
<1>10. (\A i \in 1..n : w[s[i]] = 0) => SumAlong(s, w) = 0
  <2>1. (\A i \in 1..n : z[i] = 0) => SumFunctionOnSet(z, 1..n) = 0
    BY <1>9, SumOfZeros
  <2>2. QED
    BY <1>2, <1>3, <2>1
<1>11. (\A i \in 1..n : w[s[i]] = 1) => SumAlong(s, w) = n
  <2> SUFFICES ASSUME \A i \in 1..n : w[s[i]] = 1 PROVE SumAlong(s, w) = n
    OBVIOUS
  <2>1. \A i \in 1..n : z[i] \in Nat /\ ones[i] \in Nat /\ ones[i] = z[i]
    BY <1>2, <1>4
  <2> DEFINE J == 1..n
  <2>2. IsFiniteSet(J) /\ J \in SUBSET J /\ ones = [i \in J |-> IF i \in J THEN 1 ELSE 0]
    BY <1>9
  <2>3. \A i \in J : z[i] \in Nat /\ ones[i] = z[i]
    BY <2>1
  <2> HIDE DEF J, ones
  <2>4. Cardinality(J) = SumFunctionOnSet([i \in J |-> IF i \in J THEN 1 ELSE 0], J)
    BY <2>2, CountIsSum
  <2>5. SumFunctionOnSet(ones, J) = SumFunctionOnSet(z, J)
    BY <2>2, <2>3, SumSame
  <2>6. Cardinality(1..n) = n
    <3>1. 1 \in Int /\ n \in Int
      BY <1>1
    <3>2. Cardinality(1..n) = IF 1 > n THEN 0 ELSE n - 1 + 1
      BY <3>1, FS_Interval, Zenon
    <3>3. QED
      BY <1>1, <3>2
  <2>7. QED
    BY <1>3, <2>2, <2>4, <2>5, <2>6, Zenon DEF J
<1>12. /\ n = 0 => SumAlong(s, w) = 0
       /\ n = 1 => SumAlong(s, w) = w[s[1]]
       /\ n = 2 => SumAlong(s, w) = w[s[1]] + w[s[2]]
  <2>1. n = 0 => SumFunctionOnSet(z, 1..n) = 0
    BY <1>6
  <2>2. n = 1 => SumFunctionOnSet(z, 1..n) = z[1] /\ z[1] = w[s[1]]
    BY <1>2, <1>8
  <2>3. n = 2 => SumFunctionOnSet(z, 1..n) = z[1] + z[2] /\ z[1] = w[s[1]] /\ z[2] = w[s[2]]
    BY <1>2, <1>13
  <2>4. QED
    BY <1>3, <2>1, <2>2, <2>3
<1>14. QED
  BY <1>10, <1>11, <1>12 DEF n

-----------------------------------------------------------------------------
(* The weights of what operations leave.                                   *)

\* What an output is stored as.
Stored(o, out) == [asset |-> o.asset, out |-> out]

\* What an operation leaves, by its kind.
LEMMA LeftOf ==
  ASSUME NEW o \in Ops
  PROVE  /\ Left(o) \in Seq(Entry)
         /\ \A i \in 1..Len(Left(o)) : Left(o)[i] = Stored(o, Outs(o.op)[i])
         /\ o.op.kind \in {"mint", "propertyMint"} => Len(Left(o)) = 2
         /\ o.op.kind = "nft" => Len(Left(o)) = 1
         /\ o.op.kind = "owned" => Len(Left(o)) = 0
         /\ o.op.kind = "nftMint" => Len(Left(o)) = Len(o.op.outs)
<1> DEFINE outs == Outs(o.op)
           left == Left(o)
<1>1. left \in Seq(Entry)
  BY EntryAssumption DEF Ops
<1>2. left = [i \in DOMAIN outs |-> Stored(o, outs[i])]
  BY Zenon DEF Left, Stored
<1>3. Len(left) \in Nat /\ DOMAIN left = 1..Len(left) /\ DOMAIN left = DOMAIN outs
  <2> HIDE DEF outs
  <2>1. DOMAIN left = DOMAIN outs
    BY <1>2
  <2> HIDE DEF left
  <2>2. QED
    BY <1>1, <2>1
<1>4. \A i \in 1..Len(left) : left[i] = Stored(o, outs[i])
  <2> HIDE DEF outs
  <2>1. \A i \in DOMAIN outs : left[i] = Stored(o, outs[i])
    BY <1>2
  <2> HIDE DEF left
  <2>2. QED
    BY <1>3, <2>1
<1>5. ASSUME NEW n \in Nat, NEW s, outs = s, DOMAIN s = 1..n
      PROVE  Len(left) = n
  <2>1. 1..n = 1..Len(left)
    BY <1>3, <1>5, Zenon
  <2> DEFINE m == Len(left)
  <2>2. m \in Nat /\ 1..n = 1..m
    BY <1>3, <2>1
  <2> HIDE DEF m
  <2>3. (n > 0 => n \in 1..m) /\ (m > 0 => m \in 1..n)
    <3>1. (n > 0 => n \in 1..n) /\ (m > 0 => m \in 1..m)
      BY <2>2
    <3>2. QED
      BY <2>2, <3>1, Zenon
  <2>4. m = n
    BY <2>2, <2>3
  <2>5. QED
    BY <2>4 DEF m
<1>6. o.op.kind \in {"mint", "propertyMint"} => Len(left) = 2
  <2>1. o.op.kind = "mint" => outs = MintOuts(o.op)
    BY DEF Outs
  <2>2. o.op.kind = "propertyMint" => outs = PropertyMintOuts(o.op)
    BY DEF Outs
  <2>3. DOMAIN MintOuts(o.op) = 1..2 /\ DOMAIN PropertyMintOuts(o.op) = 1..2
    BY DEF MintOuts, PropertyMintOuts
  <2> HIDE DEF left, outs
  <2>4. QED
    BY <1>5, <2>1, <2>2, <2>3
<1>7. o.op.kind = "nft" => Len(left) = 1
  <2>1. o.op.kind = "nft" => outs = NFTTransferOuts(o.op)
    BY DEF Outs
  <2>2. DOMAIN NFTTransferOuts(o.op) = 1..1
    BY DEF NFTTransferOuts
  <2> HIDE DEF left, outs
  <2>3. QED
    BY <1>5, <2>1, <2>2
<1>8. o.op.kind = "owned" => Len(left) = 0
  <2>1. o.op.kind = "owned" => outs = BurnOuts(o.op)
    BY DEF Outs
  <2>2. DOMAIN BurnOuts(o.op) = 1..0
    BY DEF BurnOuts
  <2> HIDE DEF left, outs
  <2>3. QED
    BY <1>5, <2>1, <2>2
<1>9. o.op.kind = "nftMint" => Len(left) = Len(o.op.outs)
  <2> SUFFICES ASSUME o.op.kind = "nftMint" PROVE Len(left) = Len(o.op.outs)
    OBVIOUS
  <2>1. outs = NFTMintOuts(o.op)
    BY DEF Outs
  <2>2. o.op.outs \in Seq(Fx!Owners)
    BY EntryAssumption DEF Ops
  <2>3. Len(o.op.outs) \in Nat /\ DOMAIN o.op.outs = 1..Len(o.op.outs)
    BY <2>2
  <2>4. DOMAIN NFTMintOuts(o.op) = 1..Len(o.op.outs)
    BY <2>3 DEF NFTMintOuts
  <2> HIDE DEF left, outs
  <2>5. QED
    BY <1>5, <2>1, <2>3, <2>4
<1>10. QED
  BY <1>1, <1>4, <1>6, <1>7, <1>8, <1>9

\* What it adds to a sum.
LEMMA LeftSum ==
  ASSUME NEW o \in Ops, NEW w \in [Entry -> Nat]
  PROVE  /\ o.op.kind = "mint" =>
              /\ Stored(o, Mint(o.op.mint)) \in Entry
              /\ Stored(o, Transfer(o.op.transfer.amt, o.op.transfer.owners)) \in Entry
              /\ SumAlong(Left(o), w)
                   = w[Stored(o, Mint(o.op.mint))]
                       + w[Stored(o, Transfer(o.op.transfer.amt, o.op.transfer.owners))]
         /\ o.op.kind = "propertyMint" =>
              /\ Stored(o, PropertyMint(o.op.mint)) \in Entry
              /\ Stored(o, Owned(o.op.owned)) \in Entry
              /\ SumAlong(Left(o), w)
                   = w[Stored(o, PropertyMint(o.op.mint))] + w[Stored(o, Owned(o.op.owned))]
         /\ o.op.kind = "nft" =>
              /\ Stored(o, NFT(o.op.group, o.op.payload, o.op.owners)) \in Entry
              /\ SumAlong(Left(o), w) = w[Stored(o, NFT(o.op.group, o.op.payload, o.op.owners))]
         /\ o.op.kind = "owned" => SumAlong(Left(o), w) = 0
         /\ o.op.kind = "nftMint" =>
              LET made(owners) == Stored(o, NFT(o.op.group, o.op.payload, owners))
              IN  /\ (\A owners : made(owners) \in Entry => w[made(owners)] = 0) =>
                       SumAlong(Left(o), w) = 0
                  /\ (\A owners : made(owners) \in Entry => w[made(owners)] = 1) =>
                       SumAlong(Left(o), w) = Len(o.op.outs)
<1> DEFINE outs == Outs(o.op)
           left == Left(o)
<1>1. /\ left \in Seq(Entry)
      /\ \A i \in 1..Len(left) : left[i] = Stored(o, outs[i])
      /\ o.op.kind \in {"mint", "propertyMint"} => Len(left) = 2
      /\ o.op.kind = "nft" => Len(left) = 1
      /\ o.op.kind = "owned" => Len(left) = 0
      /\ o.op.kind = "nftMint" => Len(left) = Len(o.op.outs)
  BY LeftOf
<1>2. \A i \in 1..Len(left) : left[i] \in Entry
  <2> HIDE DEF left
  <2>1. QED
    BY <1>1
<1>3. /\ Len(left) = 0 => SumAlong(left, w) = 0
      /\ Len(left) = 1 => SumAlong(left, w) = w[left[1]]
      /\ Len(left) = 2 => SumAlong(left, w) = w[left[1]] + w[left[2]]
      /\ (\A i \in 1..Len(left) : w[left[i]] = 0) => SumAlong(left, w) = 0
      /\ (\A i \in 1..Len(left) : w[left[i]] = 1) => SumAlong(left, w) = Len(left)
  <2> HIDE DEF left
  <2>1. QED
    BY <1>1, SumAlongShort
<1>4. ASSUME o.op.kind = "mint"
      PROVE  /\ Stored(o, Mint(o.op.mint)) \in Entry
             /\ Stored(o, Transfer(o.op.transfer.amt, o.op.transfer.owners)) \in Entry
             /\ SumAlong(left, w)
                  = w[Stored(o, Mint(o.op.mint))]
                      + w[Stored(o, Transfer(o.op.transfer.amt, o.op.transfer.owners))]
  <2>1. /\ outs[1] = Mint(o.op.mint)
        /\ outs[2] = Transfer(o.op.transfer.amt, o.op.transfer.owners)
    BY <1>4 DEF Outs, MintOuts
  <2>2. Len(left) = 2
    BY <1>1, <1>4
  <2> HIDE DEF left, outs
  <2>3. /\ left[1] = Stored(o, Mint(o.op.mint)) /\ left[1] \in Entry
        /\ left[2] = Stored(o, Transfer(o.op.transfer.amt, o.op.transfer.owners)) /\ left[2] \in Entry
    BY <1>1, <1>2, <2>1, <2>2
  <2>4. QED
    BY <1>3, <2>2, <2>3
<1>5. ASSUME o.op.kind = "propertyMint"
      PROVE  /\ Stored(o, PropertyMint(o.op.mint)) \in Entry
             /\ Stored(o, Owned(o.op.owned)) \in Entry
             /\ SumAlong(left, w)
                  = w[Stored(o, PropertyMint(o.op.mint))] + w[Stored(o, Owned(o.op.owned))]
  <2>1. outs[1] = PropertyMint(o.op.mint) /\ outs[2] = Owned(o.op.owned)
    BY <1>5 DEF Outs, PropertyMintOuts
  <2>2. Len(left) = 2
    BY <1>1, <1>5
  <2> HIDE DEF left, outs
  <2>3. /\ left[1] = Stored(o, PropertyMint(o.op.mint)) /\ left[1] \in Entry
        /\ left[2] = Stored(o, Owned(o.op.owned)) /\ left[2] \in Entry
    BY <1>1, <1>2, <2>1, <2>2
  <2>4. QED
    BY <1>3, <2>2, <2>3
<1>6. ASSUME o.op.kind = "nft"
      PROVE  /\ Stored(o, NFT(o.op.group, o.op.payload, o.op.owners)) \in Entry
             /\ SumAlong(left, w) = w[Stored(o, NFT(o.op.group, o.op.payload, o.op.owners))]
  <2>1. outs[1] = NFT(o.op.group, o.op.payload, o.op.owners)
    BY <1>6 DEF Outs, NFTTransferOuts
  <2>2. Len(left) = 1
    BY <1>1, <1>6
  <2> HIDE DEF left, outs
  <2>3. left[1] = Stored(o, NFT(o.op.group, o.op.payload, o.op.owners)) /\ left[1] \in Entry
    BY <1>1, <1>2, <2>1, <2>2
  <2>4. QED
    BY <1>3, <2>2, <2>3
<1>7. ASSUME o.op.kind = "nftMint"
      PROVE  \A i \in 1..Len(left) :
               /\ left[i] = Stored(o, NFT(o.op.group, o.op.payload, o.op.outs[i]))
               /\ left[i] \in Entry
  <2>1. outs = NFTMintOuts(o.op)
    BY <1>7 DEF Outs
  <2>2. o.op.outs \in Seq(Fx!Owners)
    BY <1>7, EntryAssumption DEF Ops
  <2>3. DOMAIN o.op.outs = 1..Len(o.op.outs)
    BY <2>2
  <2>4. \A i \in 1..Len(o.op.outs) :
          NFTMintOuts(o.op)[i] = NFT(o.op.group, o.op.payload, o.op.outs[i])
    BY <2>3 DEF NFTMintOuts
  <2>5. Len(left) = Len(o.op.outs)
    BY <1>1, <1>7
  <2> HIDE DEF left, outs
  <2>6. QED
    BY <1>1, <1>2, <2>1, <2>4, <2>5
<1>8. o.op.kind = "owned" => SumAlong(left, w) = 0
  BY <1>1, <1>3
<1>9. ASSUME o.op.kind = "nftMint"
      PROVE  LET made(owners) == Stored(o, NFT(o.op.group, o.op.payload, owners))
             IN  /\ (\A owners : made(owners) \in Entry => w[made(owners)] = 0) =>
                      SumAlong(left, w) = 0
                 /\ (\A owners : made(owners) \in Entry => w[made(owners)] = 1) =>
                      SumAlong(left, w) = Len(o.op.outs)
  <2>1. Len(left) = Len(o.op.outs)
    BY <1>1, <1>9
  <2> HIDE DEF left, outs
  <2>2. QED
    BY <1>3, <1>7, <1>9, <2>1
<1> HIDE DEF left
<1>10. QED
  BY <1>4, <1>5, <1>6, <1>8, <1>9 DEF left

\* How many there are of a kind that is accounted for.
Number(set, P) == Cardinality({u \in DOMAIN set : set[u] \in P})

\* What is counted adds up when its weight is accounted for.
LEMMA NumbersAddUp ==
  ASSUME AccountInv, NEW P, NEW made, NEW gone,
         Accounts(Indicator(P), made, gone), OfTokens(Indicator(P))
  PROVE  Number(utxos, P) + Tally(gone) = Number(Genesis, P) + Tally(made)
<1>1. AddsUp(Indicator(P), made, gone) /\ IsSet(utxos) /\ IsSet(Genesis)
  BY GenesisSet DEF AccountInv
<1>2. /\ Number(utxos, P) = Total(utxos, Indicator(P))
      /\ Number(Genesis, P) = Total(Genesis, Indicator(P))
  BY <1>1, CountTotal DEF Number
<1>3. QED
  BY <1>1, <1>2 DEF AddsUp

\* Of what an operation makes or destroys: nothing.
None == [o \in Ops |-> 0]

\* A right to mint that an operation takes is the one it leaves.
LEMMA SameRight ==
  ASSUME NEW o \in Ops, NEW e \in Entry, Agrees(o, e)
  PROVE  /\ o.op.kind = "mint" => e = Stored(o, Mint(o.op.mint))
         /\ o.op.kind = "propertyMint" => e = Stored(o, PropertyMint(o.op.mint))
<1> DEFINE w == [x \in Entry |-> 0]
<1>1. w \in [Entry -> Nat]
  OBVIOUS
<1> HIDE DEF w
<1>2. /\ o.op.kind = "mint" => Stored(o, Mint(o.op.mint)) \in Entry
      /\ o.op.kind = "propertyMint" => Stored(o, PropertyMint(o.op.mint)) \in Entry
  BY <1>1, LeftSum
<1>3. o.op.kind \in {"mint", "propertyMint"} => o.op.mint \in Fx!Owners
  <2>1. ASSUME NEW owners, NEW kind \in {"mint", "propertyMint"}, NEW x \in Entry,
               x.out = [kind |-> kind, owners |-> owners]
        PROVE  owners \in Fx!Owners
    <3>1. x.out \in Output /\ x.out.owners = owners
      BY <2>1 DEF Entry
    <3>2. x.out.owners \in Fx!Owners
      BY <3>1 DEF Output
    <3>3. QED
      BY <3>1, <3>2
  <2>2. /\ Stored(o, Mint(o.op.mint)).out = [kind |-> "mint", owners |-> o.op.mint]
        /\ Stored(o, PropertyMint(o.op.mint)).out = [kind |-> "propertyMint", owners |-> o.op.mint]
    BY DEF Stored, Mint, PropertyMint
  <2>3. QED
    BY <1>2, <2>1, <2>2
<1>4. o.op.kind \in {"mint", "propertyMint"} => e.out = [kind |-> o.op.kind, owners |-> o.op.mint]
  <2> SUFFICES ASSUME o.op.kind \in {"mint", "propertyMint"}
               PROVE  e.out = [kind |-> o.op.kind, owners |-> o.op.mint]
    OBVIOUS
  <2>1. /\ e.out \in [kind : {"mint", "propertyMint", "owned"}, owners : Fx!Owners]
        /\ e.out.kind = o.op.kind
    BY DEF Agrees, Entry, Output
  <2>2. e.out.owners \in Fx!Owners /\ o.op.mint \in Fx!Owners /\ Fx!Equals(e.out.owners, o.op.mint)
    BY <1>3, <2>1 DEF Agrees
  <2>3. e.out.owners = o.op.mint
    BY <2>2 DEF Fx!Equals, Fx!Owners
  <2>4. QED
    BY <2>1, <2>3
<1>5. e = [asset |-> o.asset, out |-> e.out]
  BY DEF Agrees, Entry
<1>6. QED
  BY <1>4, <1>5, Zenon DEF Stored, Mint, PropertyMint

\* Which entries the outputs of operations are.
LEMMA KindsOf ==
  ASSUME NEW o
  PROVE  /\ \A owners : Stored(o, Mint(owners)).out.kind = "mint"
         /\ \A owners : Stored(o, PropertyMint(owners)).out.kind = "propertyMint"
         /\ \A owners : Stored(o, Owned(owners)).out.kind = "owned"
         /\ \A amt, owners : Stored(o, Transfer(amt, owners)).out.kind = "transfer"
         /\ \A group, payload, owners :
              /\ Stored(o, NFT(group, payload, owners)).out.kind = "nft"
              /\ Stored(o, NFT(group, payload, owners)).out.group = group
              /\ Stored(o, NFT(group, payload, owners)).out.payload = payload
         /\ \A out : Stored(o, out).asset = o.asset
  BY DEF Stored, Mint, PropertyMint, Owned, Transfer, NFT

\* Of the rights to mint an amount or a property every operation leaves as many as it
\* takes.
LEMMA RightAccounts ==
  ASSUME NEW right \in Entry, right.out.kind \in {"mint", "propertyMint"}
  PROVE  Accounts(Indicator({right}), None, None) /\ OfTokens(Indicator({right}))
<1> DEFINE w == Indicator({right})
<1>1. w \in [Entry -> Nat] /\ \A e \in Entry : w[e] = IF e = right THEN 1 ELSE 0
  BY DEF Indicator
<1>2. \A e \in Entry : e.out.kind # right.out.kind => w[e] = 0
  BY <1>1
<1> HIDE DEF w
<1>3. None \in [Ops -> Nat] /\ \A o \in Ops : None[o] = 0
  BY DEF None
<1>4. ASSUME NEW o \in Ops, NEW e \in Entry, Agrees(o, e)
      PROVE  w[e] = SumAlong(Left(o), w) /\ w[e] \in Nat
  <2>0. w[e] \in Nat
    BY <1>1
  <2>1. CASE o.op.kind = "mint"
    <3>1. e = Stored(o, Mint(o.op.mint))
      BY <1>4, <2>1, SameRight
    <3>2. w[Stored(o, Transfer(o.op.transfer.amt, o.op.transfer.owners))] = 0
      BY <1>1, <1>2, <2>1, LeftSum, KindsOf
    <3>3. SumAlong(Left(o), w) = w[Stored(o, Mint(o.op.mint))]
                       + w[Stored(o, Transfer(o.op.transfer.amt, o.op.transfer.owners))]
      BY <1>1, <2>1, LeftSum
    <3>4. QED
      BY <2>0, <3>1, <3>2, <3>3
  <2>2. CASE o.op.kind = "propertyMint"
    <3>1. e = Stored(o, PropertyMint(o.op.mint))
      BY <1>4, <2>2, SameRight
    <3>2. w[Stored(o, Owned(o.op.owned))] = 0
      BY <1>1, <1>2, <2>2, LeftSum, KindsOf
    <3>3. SumAlong(Left(o), w) = w[Stored(o, PropertyMint(o.op.mint))] + w[Stored(o, Owned(o.op.owned))]
      BY <1>1, <2>2, LeftSum
    <3>4. QED
      BY <2>0, <3>1, <3>2, <3>3
  <2>3. CASE o.op.kind = "nft"
    BY <1>1, <1>2, <1>4, <2>3, LeftSum, KindsOf DEF Agrees
  <2>4. CASE o.op.kind = "nftMint"
    <3>1. \A owners : Stored(o, NFT(o.op.group, o.op.payload, owners)) \in Entry =>
            w[Stored(o, NFT(o.op.group, o.op.payload, owners))] = 0
      BY <1>2, KindsOf
    <3>2. SumAlong(Left(o), w) = 0
      BY <1>1, <2>4, <3>1, LeftSum
    <3>3. w[e] = 0
      BY <1>2, <1>4, <2>4 DEF Agrees
    <3>4. QED
      BY <2>0, <3>2, <3>3
  <2>5. CASE o.op.kind = "owned"
    BY <1>1, <1>2, <1>4, <2>5, LeftSum DEF Agrees
  <2>6. QED
    BY <1>4, <2>1, <2>2, <2>3, <2>4, <2>5 DEF Agrees
<1>5. Accounts(w, None, None)
  <2>1. ASSUME NEW o \in Ops, NEW e \in Entry, Agrees(o, e)
        PROVE  w[e] + None[o] = SumAlong(Left(o), w) + None[o]
    BY <1>3, <1>4, <2>1
  <2>2. QED
    BY <1>1, <1>3, <2>1 DEF Accounts
<1>6. OfTokens(w)
  BY <1>2 DEF OfTokens
<1>7. QED
  BY <1>5, <1>6 DEF w

\* Of the rights to mint the tokens of a group, each is gone when it is exercised.
GroupRights(a, group) ==
  {e \in Entry : e.asset = a /\ e.out.kind = "nftMint" /\ e.out.group = group}

GroupMints(a, group) ==
  [o \in Ops |-> IF o.asset = a /\ o.op.kind = "nftMint" /\ o.op.group = group THEN 1 ELSE 0]

\* A weight that only entries of one kind have.
LEMMA OtherKinds ==
  ASSUME NEW kind, kind # "transfer", NEW P \in SUBSET Entry, \A e \in P : e.out.kind = kind
  PROVE  /\ Indicator(P) \in [Entry -> Nat]
         /\ \A e \in Entry : /\ Indicator(P)[e] = IF e \in P THEN 1 ELSE 0
                             /\ e.out.kind # kind => Indicator(P)[e] = 0
         /\ OfTokens(Indicator(P))
  BY DEF Indicator, OfTokens

\* The kinds of the operations that leave something of a kind.
Leaves(kind) ==
  CASE kind \in {"mint", "transfer"}       -> {"mint"}
    [] kind \in {"propertyMint", "owned"}  -> {"propertyMint"}
    [] kind = "nft"                        -> {"nft", "nftMint"}
    [] kind = "nftMint"                    -> {}

\* The others leave no weight that only this kind has.
LEMMA LeavesNone ==
  ASSUME NEW o \in Ops, o.op.kind \in {"mint", "nftMint", "nft", "propertyMint", "owned"},
         NEW kind \in {"mint", "transfer", "propertyMint", "owned", "nft", "nftMint"},
         o.op.kind \notin Leaves(kind),
         NEW w \in [Entry -> Nat], \A e \in Entry : e.out.kind # kind => w[e] = 0
  PROVE  SumAlong(Left(o), w) = 0
<1>2. CASE o.op.kind = "mint"
  <2>1. /\ w[Stored(o, Mint(o.op.mint))] = 0
        /\ w[Stored(o, Transfer(o.op.transfer.amt, o.op.transfer.owners))] = 0
    <3>1. kind # "mint" /\ kind # "transfer"
      BY <1>2 DEF Leaves
    <3>2. /\ Stored(o, Mint(o.op.mint)) \in Entry
          /\ Stored(o, Transfer(o.op.transfer.amt, o.op.transfer.owners)) \in Entry
      BY <1>2, LeftSum
    <3>3. /\ Stored(o, Mint(o.op.mint)).out.kind = "mint"
          /\ Stored(o, Transfer(o.op.transfer.amt, o.op.transfer.owners)).out.kind = "transfer"
      BY KindsOf
    <3>4. QED
      BY <3>1, <3>2, <3>3
  <2>2. SumAlong(Left(o), w) = w[Stored(o, Mint(o.op.mint))]
                     + w[Stored(o, Transfer(o.op.transfer.amt, o.op.transfer.owners))]
    BY <1>2, LeftSum
  <2>3. QED
    BY <2>1, <2>2
<1>3. CASE o.op.kind = "propertyMint"
  <2>1. /\ w[Stored(o, PropertyMint(o.op.mint))] = 0
        /\ w[Stored(o, Owned(o.op.owned))] = 0
    <3>1. kind # "propertyMint" /\ kind # "owned"
      BY <1>3 DEF Leaves
    <3>2. Stored(o, PropertyMint(o.op.mint)) \in Entry /\ Stored(o, Owned(o.op.owned)) \in Entry
      BY <1>3, LeftSum
    <3>3. /\ Stored(o, PropertyMint(o.op.mint)).out.kind = "propertyMint"
          /\ Stored(o, Owned(o.op.owned)).out.kind = "owned"
      BY KindsOf
    <3>4. QED
      BY <3>1, <3>2, <3>3
  <2>2. SumAlong(Left(o), w) = w[Stored(o, PropertyMint(o.op.mint))] + w[Stored(o, Owned(o.op.owned))]
    BY <1>3, LeftSum
  <2>3. QED
    BY <2>1, <2>2
<1>4. CASE o.op.kind \in {"nft", "nftMint"}
  <2>1. \A owners : Stored(o, NFT(o.op.group, o.op.payload, owners)) \in Entry =>
          w[Stored(o, NFT(o.op.group, o.op.payload, owners))] = 0
    BY <1>4, KindsOf DEF Leaves
  <2>2. CASE o.op.kind = "nft"
    BY <2>1, <2>2, LeftSum
  <2>3. CASE o.op.kind = "nftMint"
    BY <2>1, <2>3, LeftSum
  <2>4. QED
    BY <1>4, <2>2, <2>3
<1>5. CASE o.op.kind = "owned"
  BY <1>5, LeftSum
<1>6. QED
  BY <1>2, <1>3, <1>4, <1>5

\* Rights to mint tokens are accounted for by the mints.
LEMMA GroupRightAccounts ==
  ASSUME NEW a, NEW group
  PROVE  /\ Accounts(Indicator(GroupRights(a, group)), None, GroupMints(a, group))
         /\ OfTokens(Indicator(GroupRights(a, group)))
<1> DEFINE P == GroupRights(a, group)
           w == Indicator(P)
           gone == GroupMints(a, group)
<1>1. /\ P \in SUBSET Entry
      /\ \A e \in Entry : e \in P <=> e.asset = a /\ e.out.kind = "nftMint" /\ e.out.group = group
  BY DEF GroupRights
<1>2. /\ None \in [Ops -> Nat] /\ gone \in [Ops -> Nat]
      /\ \A o \in Ops : /\ None[o] = 0
                        /\ gone[o] = IF o.asset = a /\ o.op.kind = "nftMint" /\ o.op.group = group
                                     THEN 1 ELSE 0
  BY DEF None, GroupMints
<1> HIDE DEF P, gone
<1>3. /\ w \in [Entry -> Nat] /\ OfTokens(w)
      /\ \A e \in Entry : /\ w[e] = IF e \in P THEN 1 ELSE 0
                          /\ e.out.kind # "nftMint" => w[e] = 0
  BY <1>1, OtherKinds
<1> HIDE DEF w
<1>4. ASSUME NEW o \in Ops, NEW e \in Entry, Agrees(o, e)
      PROVE  w[e] + None[o] = SumAlong(Left(o), w) + gone[o]
  <2>1. SumAlong(Left(o), w) = 0
    BY <1>3, <1>4, LeavesNone DEF Agrees, Leaves
  <2>2. w[e] = gone[o]
    <3>1. e \in P <=> o.asset = a /\ o.op.kind = "nftMint" /\ o.op.group = group
      BY <1>1, <1>4 DEF Agrees
    <3>2. QED
      BY <1>2, <1>3, <3>1
  <2>3. QED
    BY <1>2, <2>1, <2>2
<1>5. QED
  BY <1>2, <1>3, <1>4 DEF Accounts, w, P, gone

\* The tokens of a group with a payload are made by mints.
GroupTokens(a, group, payload) ==
  {e \in Entry : /\ e.asset = a /\ e.out.kind = "nft"
                 /\ e.out.group = group /\ e.out.payload = payload}

TokenMints(a, group, payload) ==
  [o \in Ops |->
     IF o.asset = a /\ o.op.kind = "nftMint" /\ o.op.group = group /\ o.op.payload = payload
     THEN Len(o.op.outs) ELSE 0]

\* Tokens are accounted for by the owners that mints have named.
LEMMA TokenAccounts ==
  ASSUME NEW a, NEW group, NEW payload
  PROVE  /\ Accounts(Indicator(GroupTokens(a, group, payload)), TokenMints(a, group, payload), None)
         /\ OfTokens(Indicator(GroupTokens(a, group, payload)))
<1> DEFINE P == GroupTokens(a, group, payload)
           w == Indicator(P)
           made == TokenMints(a, group, payload)
<1>1. /\ P \in SUBSET Entry
      /\ \A e \in Entry : e \in P <=> /\ e.asset = a /\ e.out.kind = "nft"
                                      /\ e.out.group = group /\ e.out.payload = payload
  BY DEF GroupTokens
<1>2. /\ None \in [Ops -> Nat] /\ made \in [Ops -> Nat]
      /\ \A o \in Ops : /\ None[o] = 0
                        /\ made[o] = IF /\ o.asset = a /\ o.op.kind = "nftMint"
                                        /\ o.op.group = group /\ o.op.payload = payload
                                     THEN Len(o.op.outs) ELSE 0
  <2>1. \A o \in Ops : o.op.kind = "nftMint" => Len(o.op.outs) \in Nat
    BY EntryAssumption DEF Ops
  <2>2. QED
    BY <2>1 DEF None, TokenMints
<1> HIDE DEF P, made
<1>3. /\ w \in [Entry -> Nat] /\ OfTokens(w)
      /\ \A e \in Entry : /\ w[e] = IF e \in P THEN 1 ELSE 0
                          /\ e.out.kind # "nft" => w[e] = 0
  BY <1>1, OtherKinds
<1> HIDE DEF w
<1>4. ASSUME NEW o \in Ops, NEW e \in Entry, Agrees(o, e)
      PROVE  w[e] + made[o] = SumAlong(Left(o), w) + None[o]
  <2>1. None[o] = 0 /\ w[e] \in Nat /\ o.op.kind = e.out.kind /\ o.asset = e.asset
    BY <1>2, <1>3, <1>4 DEF Agrees
  <2>2. CASE o.op.kind = "nftMint"
    <3>1. w[e] = 0
      BY <1>3, <2>1, <2>2
    <3>2. \A owners : LET x == Stored(o, NFT(o.op.group, o.op.payload, owners))
                      IN  x \in Entry =>
                            w[x] = IF o.asset = a /\ o.op.group = group /\ o.op.payload = payload
                                   THEN 1 ELSE 0
      BY <1>1, <1>3, KindsOf
    <3>3. SumAlong(Left(o), w) = made[o]
      BY <1>2, <1>3, <2>2, <3>2, LeftSum
    <3>4. made[o] \in Nat
      BY <1>2
    <3>5. QED
      BY <2>1, <3>1, <3>3, <3>4
  <2>3. CASE o.op.kind = "nft"
    <3> DEFINE x == Stored(o, NFT(o.op.group, o.op.payload, o.op.owners))
    <3>1. x \in Entry /\ SumAlong(Left(o), w) = w[x]
      BY <1>3, <2>3, LeftSum
    <3>2. /\ x.asset = e.asset /\ x.out.kind = e.out.kind
          /\ x.out.group = e.out.group /\ x.out.payload = e.out.payload
      BY <1>4, <2>1, <2>3, KindsOf DEF Agrees
    <3> HIDE DEF x
    <3>3. x \in P <=> e \in P
      BY <1>1, <3>1, <3>2
    <3>4. w[x] = w[e]
      BY <1>3, <3>1, <3>3
    <3>5. made[o] = 0
      BY <1>2, <2>3
    <3>6. QED
      BY <2>1, <3>1, <3>4, <3>5
  <2>4. CASE o.op.kind \notin {"nft", "nftMint"}
    <3>1. SumAlong(Left(o), w) = 0
      BY <1>3, <1>4, <2>4, LeavesNone DEF Agrees, Leaves
    <3>2. w[e] = 0 /\ made[o] = 0
      BY <1>2, <1>3, <2>1, <2>4
    <3>3. QED
      BY <2>1, <3>1, <3>2
  <2>5. QED
    BY <2>2, <2>3, <2>4
<1>5. QED
  <2>1. Accounts(w, made, None)
    BY <1>2, <1>3, <1>4 DEF Accounts
  <2>2. QED
    BY <1>3, <2>1 DEF w, P, made

\* A property is made by a mint and gone when it is burnt.
OwnedOf(a) == {e \in Entry : e.asset = a /\ e.out.kind = "owned"}

Times(kind, a) == [o \in Ops |-> IF o.asset = a /\ o.op.kind = kind THEN 1 ELSE 0]

\* Properties are accounted for by mints and burns.
LEMMA PropertyAccounts ==
  ASSUME NEW a
  PROVE  /\ Accounts(Indicator(OwnedOf(a)), Times("propertyMint", a), Times("owned", a))
         /\ OfTokens(Indicator(OwnedOf(a)))
<1> DEFINE P == OwnedOf(a)
           w == Indicator(P)
           made == Times("propertyMint", a)
           gone == Times("owned", a)
<1>1. P \in SUBSET Entry /\ \A e \in Entry : e \in P <=> e.asset = a /\ e.out.kind = "owned"
  BY DEF OwnedOf
<1>2. /\ made \in [Ops -> Nat] /\ gone \in [Ops -> Nat]
      /\ \A o \in Ops : /\ made[o] = IF o.asset = a /\ o.op.kind = "propertyMint" THEN 1 ELSE 0
                        /\ gone[o] = IF o.asset = a /\ o.op.kind = "owned" THEN 1 ELSE 0
  BY DEF Times
<1> HIDE DEF P, made, gone
<1>3. /\ w \in [Entry -> Nat] /\ OfTokens(w)
      /\ \A e \in Entry : /\ w[e] = IF e \in P THEN 1 ELSE 0
                          /\ e.out.kind # "owned" => w[e] = 0
  BY <1>1, OtherKinds
<1> HIDE DEF w
<1>4. ASSUME NEW o \in Ops, NEW e \in Entry, Agrees(o, e)
      PROVE  w[e] + made[o] = SumAlong(Left(o), w) + gone[o]
  <2>1. o.op.kind = e.out.kind /\ o.asset = e.asset
    BY <1>4 DEF Agrees
  <2>2. CASE o.op.kind = "propertyMint"
    <3> DEFINE right == Stored(o, PropertyMint(o.op.mint))
               x == Stored(o, Owned(o.op.owned))
    <3>1. /\ right \in Entry /\ x \in Entry /\ SumAlong(Left(o), w) = w[right] + w[x]
          /\ right.out.kind = "propertyMint" /\ x.out.kind = "owned" /\ x.asset = o.asset
      BY <1>3, <2>2, LeftSum, KindsOf
    <3> HIDE DEF right, x
    <3>2. w[right] = 0 /\ w[e] = 0 /\ w[x] = made[o] /\ gone[o] = 0 /\ made[o] \in Nat
      BY <1>1, <1>2, <1>3, <2>1, <2>2, <3>1
    <3>3. QED
      BY <3>1, <3>2
  <2>3. CASE o.op.kind # "propertyMint"
    <3>1. SumAlong(Left(o), w) = 0
      BY <1>3, <1>4, <2>3, LeavesNone DEF Agrees, Leaves
    <3>2. w[e] = gone[o] /\ made[o] = 0 /\ gone[o] \in Nat
      BY <1>1, <1>2, <1>3, <2>1, <2>3
    <3>3. QED
      BY <3>1, <3>2
  <2>4. QED
    BY <2>2, <2>3
<1>5. QED
  <2>1. Accounts(w, made, gone)
    BY <1>2, <1>3, <1>4 DEF Accounts
  <2>2. QED
    BY <1>3, <2>1 DEF w, P, made, gone

-----------------------------------------------------------------------------
\* Nothing is made or gone when nothing is said to be.
LEMMA NoneTally ==
  ASSUME AccountInv
  PROVE  Tally(None) = 0
<1> DEFINE z == [t \in executed |-> OpTotal(t, None)]
<1>1. IsFiniteSet(executed) /\ executed \subseteq Txs
  BY DEF AccountInv, Finite
<1>2. \A t \in executed : z[t] = 0
  <2> SUFFICES ASSUME NEW t \in executed PROVE OpTotal(t, None) = 0
    OBVIOUS
  <2> DEFINE K == DOMAIN t.ops
             y == [k \in K |-> None[t.ops[k]]]
  <2>1. IsFiniteSet(K) /\ \A k \in K : y[k] = 0
    BY <1>1, OpsOf DEF None
  <2>2. OpTotal(t, None) = SumFunctionOnSet(y, K)
    BY Zenon DEF OpTotal
  <2> HIDE DEF K, y
  <2>3. QED
    BY <2>1, <2>2, SumOfZeros
<1>3. Tally(None) = SumFunctionOnSet(z, executed)
  BY TallyOfTotals, Zenon
<1> HIDE DEF z
<1>4. QED
  BY <1>1, <1>2, <1>3, SumOfZeros

\* Numbers are numbers.
LEMMA NumberType ==
  ASSUME NEW set, IsSet(set), NEW P
  PROVE  Number(set, P) \in Nat
  BY FS_Subset, FS_CardinalityType DEF Number, IsSet

\* The rights to mint an amount or a property are where they were at first, as many
\* and with the same owners (secp256k1fx/fx.go 130-138, propertyfx/fx.go 62-78,
\* mint_operation.go 38-43).
THEOREM RightsAlwaysKept == Spec => []RightsKept
<1>1. ASSUME AccountInv
      PROVE  RightsKept
  <2> SUFFICES ASSUME NEW right \in {utxos[u] : u \in DOMAIN utxos}
                                      \cup {Genesis[u] : u \in DOMAIN Genesis},
                      right.out.kind \in {"mint", "propertyMint"}
               PROVE  Count(utxos, right) = Count(Genesis, right)
    BY DEF RightsKept
  <2>1. IsSet(utxos) /\ IsSet(Genesis)
    BY <1>1, GenesisSet DEF AccountInv
  <2>2. right \in Entry
    BY <2>1 DEF IsSet
  <2>3. Number(utxos, {right}) + Tally(None) = Number(Genesis, {right}) + Tally(None)
    BY <1>1, <2>2, RightAccounts, NumbersAddUp
  <2>4. Tally(None) = 0 /\ Number(utxos, {right}) \in Nat /\ Number(Genesis, {right}) \in Nat
    BY <1>1, <2>1, NoneTally, NumberType
  <2>5. \A set : Number(set, {right}) = Count(set, right)
    BY DEF Number, Count
  <2>6. QED
    BY <2>3, <2>4, <2>5
<1>2. QED
  BY <1>1, AccountInvAlways, PTL

\* Of every group, a right to mint is gone for each time it was exercised; the tokens
\* are those there were and those that were minted, of the group of the right and with
\* their payload; and the properties those there were and those that were minted and
\* not burnt (nftfx/fx.go 64-100, nftfx/mint_operation.go 41-51,
\* propertyfx/fx.go 62-91).
THEOREM TokensAlwaysAccounted == Spec => []TokensAccounted
<1>1. ASSUME AccountInv
      PROVE  TokensAccounted
  <2>1. IsSet(utxos) /\ IsSet(Genesis) /\ Tally(None) = 0
    BY <1>1, GenesisSet, NoneTally DEF AccountInv
  <2>2. ASSUME NEW set, IsSet(set), NEW a
        PROVE  /\ \A group : Rights(set, a, group) = Number(set, GroupRights(a, group))
               /\ \A group, payload :
                    Tokens(set, a, group, payload) = Number(set, GroupTokens(a, group, payload))
               /\ Properties(set, a) = Number(set, OwnedOf(a))
    <3>1. \A u \in DOMAIN set : set[u] \in Entry
      BY <2>2 DEF IsSet
    <3>2. ASSUME NEW group
          PROVE  Rights(set, a, group) = Number(set, GroupRights(a, group))
      BY <3>1 DEF Rights, Number, GroupRights
    <3>3. ASSUME NEW group, NEW payload
          PROVE  Tokens(set, a, group, payload) = Number(set, GroupTokens(a, group, payload))
      BY <3>1 DEF Tokens, Number, GroupTokens
    <3>4. Properties(set, a) = Number(set, OwnedOf(a))
      BY <3>1 DEF Properties, Number, OwnedOf
    <3>5. QED
      BY <3>2, <3>3, <3>4
  <2>3. ASSUME NEW a, NEW group
        PROVE  Rights(utxos, a, group) + MintsOf(a, group) = Rights(Genesis, a, group)
    <3>1. Number(utxos, GroupRights(a, group)) + Tally(GroupMints(a, group))
            = Number(Genesis, GroupRights(a, group)) + Tally(None)
      BY <1>1, GroupRightAccounts, NumbersAddUp
    <3>2. MintsOf(a, group) = Tally(GroupMints(a, group))
      BY Zenon DEF MintsOf, GroupMints
    <3>3. Number(Genesis, GroupRights(a, group)) \in Nat
      BY <2>1, NumberType
    <3>4. QED
      BY <2>1, <2>2, <3>1, <3>2, <3>3
  <2>4. ASSUME NEW a, NEW group, NEW payload
        PROVE  Tokens(utxos, a, group, payload)
                 = Tokens(Genesis, a, group, payload) + TokensMinted(a, group, payload)
    <3>1. Number(utxos, GroupTokens(a, group, payload)) + Tally(None)
            = Number(Genesis, GroupTokens(a, group, payload)) + Tally(TokenMints(a, group, payload))
      BY <1>1, TokenAccounts, NumbersAddUp
    <3>2. TokensMinted(a, group, payload) = Tally(TokenMints(a, group, payload))
      BY Zenon DEF TokensMinted, TokenMints
    <3>3. Number(utxos, GroupTokens(a, group, payload)) \in Nat
      BY <2>1, NumberType
    <3>4. QED
      BY <2>1, <2>2, <3>1, <3>2, <3>3
  <2>5. ASSUME NEW a
        PROVE  Properties(utxos, a) + Performed("owned", a)
                 = Properties(Genesis, a) + Performed("propertyMint", a)
    <3>1. Number(utxos, OwnedOf(a)) + Tally(Times("owned", a))
            = Number(Genesis, OwnedOf(a)) + Tally(Times("propertyMint", a))
      BY <1>1, PropertyAccounts, NumbersAddUp
    <3>2. /\ Performed("owned", a) = Tally(Times("owned", a))
          /\ Performed("propertyMint", a) = Tally(Times("propertyMint", a))
      BY Zenon DEF Performed, Times
    <3>3. QED
      BY <2>1, <2>2, <3>1, <3>2
  <2>6. QED
    BY <2>3, <2>4, <2>5 DEF TokensAccounted
<1>2. QED
  BY <1>1, AccountInvAlways, PTL

-----------------------------------------------------------------------------
(* Amounts: what VerifyTx counts of a transaction is what it takes and     *)
(* leaves.                                                                 *)

\* The amount of an asset.
AmountOf(a) ==
  [e \in Entry |-> IF e.asset = a /\ e.out.kind = "transfer" THEN e.out.amt ELSE 0]

AmountMints(a) ==
  [o \in Ops |-> IF o.asset = a /\ o.op.kind = "mint" THEN o.op.transfer.amt ELSE 0]

\* The amount of an asset is a weight.
LEMMA AmountType ==
  ASSUME NEW a
  PROVE  /\ AmountOf(a) \in [Entry -> Nat]
         /\ \A e \in Entry : /\ e.out.kind # "transfer" => AmountOf(a)[e] = 0
                             /\ e.out.kind = "transfer" =>
                                  /\ e.out.amt \in Nat
                                  /\ AmountOf(a)[e] = IF e.asset = a THEN e.out.amt ELSE 0
<1>1. \A e \in Entry : e.out.kind = "transfer" => e.out.amt \in Nat
  BY DEF Entry, Output
<1>2. QED
  BY <1>1 DEF AmountOf

\* Amounts are made by mints only.
LEMMA AmountAccounts ==
  ASSUME NEW a
  PROVE  Accounts(AmountOf(a), AmountMints(a), None)
<1> DEFINE w == AmountOf(a)
           made == AmountMints(a)
<1>1. /\ w \in [Entry -> Nat]
      /\ \A e \in Entry : /\ e.out.kind # "transfer" => w[e] = 0
                          /\ e.out.kind = "transfer" =>
                               /\ e.out.amt \in Nat
                               /\ w[e] = IF e.asset = a THEN e.out.amt ELSE 0
  BY AmountType
<1> HIDE DEF w
<1>2. ASSUME NEW o \in Ops, o.op.kind = "mint"
      PROVE  /\ o.op.transfer.amt \in Nat
             /\ SumAlong(Left(o), w) = IF o.asset = a THEN o.op.transfer.amt ELSE 0
  <2> DEFINE right == Stored(o, Mint(o.op.mint))
             x == Stored(o, Transfer(o.op.transfer.amt, o.op.transfer.owners))
  <2>1. /\ right \in Entry /\ x \in Entry /\ SumAlong(Left(o), w) = w[right] + w[x]
        /\ right.out.kind = "mint" /\ x.out.kind = "transfer" /\ x.asset = o.asset
    BY <1>1, <1>2, LeftSum, KindsOf
  <2>2. x.out.amt = o.op.transfer.amt
    BY DEF Stored, Transfer
  <2> HIDE DEF right, x
  <2>3. w[right] = 0 /\ x.out.amt \in Nat /\ w[x] = IF o.asset = a THEN x.out.amt ELSE 0
    BY <1>1, <2>1
  <2>4. QED
    BY <2>1, <2>2, <2>3
<1>3. /\ made \in [Ops -> Nat] /\ None \in [Ops -> Nat]
      /\ \A o \in Ops : /\ made[o] = IF o.asset = a /\ o.op.kind = "mint"
                                     THEN o.op.transfer.amt ELSE 0
                        /\ None[o] = 0
  BY <1>2 DEF AmountMints, None
<1> HIDE DEF made
<1>4. ASSUME NEW o \in Ops, NEW e \in Entry, Agrees(o, e)
      PROVE  w[e] + made[o] = SumAlong(Left(o), w) + None[o]
  <2>1. w[e] = 0
    BY <1>1, <1>4 DEF Agrees
  <2>2. SumAlong(Left(o), w) = made[o]
    <3>1. CASE o.op.kind = "mint"
      BY <1>2, <1>3, <3>1
    <3>2. CASE o.op.kind # "mint"
      <4>1. SumAlong(Left(o), w) = 0
        BY <1>1, <1>4, <3>2, LeavesNone DEF Agrees, Leaves
      <4>2. QED
        BY <1>3, <3>2, <4>1
    <3>3. QED
      BY <3>1, <3>2
  <2>3. made[o] \in Nat
    BY <1>3
  <2>4. QED
    BY <1>3, <2>1, <2>2, <2>3
<1>5. QED
  BY <1>1, <1>3, <1>4 DEF Accounts, w, made

\* The outputs a transaction moves have the weights that VerifyTx counts.
LEMMA MovedTotal ==
  ASSUME NEW t \in Txs, NEW a
  PROVE  SumAlong(Transferred(t.outs), AmountOf(a))
           = SumFunctionOnSet(AmountsIn(t.outs, a), DOMAIN t.outs)
<1> DEFINE outs == t.outs
           s == Transferred(outs)
           w == AmountOf(a)
           z == [i \in DOMAIN s |-> w[s[i]]]
<1>1. s \in Seq(Entry) /\ outs \in Seq(TransferableOutput)
  BY OutputTypes, EntryAssumption
<1>2. DOMAIN s = DOMAIN outs
  BY DEF Transferred
<1>3. \A i \in DOMAIN outs : s[i] = [asset |-> outs[i].asset, out |-> Transfer(outs[i].amt, outs[i].owners)]
  BY DEF Transferred
<1> HIDE DEF s, outs, w
<1>4. \A i \in DOMAIN outs : /\ s[i] \in Entry /\ s[i].asset = outs[i].asset
                             /\ s[i].out.kind = "transfer" /\ s[i].out.amt = outs[i].amt
  <2>1. \A i \in DOMAIN outs : s[i] \in Entry
    BY <1>1, <1>2
  <2>2. ASSUME NEW i \in DOMAIN outs
        PROVE  s[i].asset = outs[i].asset /\ s[i].out = Transfer(outs[i].amt, outs[i].owners)
    <3> DEFINE out == Transfer(outs[i].amt, outs[i].owners)
    <3>1. s[i] = [asset |-> outs[i].asset, out |-> out]
      BY <1>3
    <3> HIDE DEF out
    <3>2. s[i].asset = outs[i].asset /\ s[i].out = out
      BY <3>1
    <3>3. QED
      BY <3>2 DEF out
  <2>3. ASSUME NEW amt, NEW owners
        PROVE  Transfer(amt, owners).kind = "transfer" /\ Transfer(amt, owners).amt = amt
    BY DEF Transfer
  <2>4. QED
    BY <2>1, <2>2, <2>3
<1>5. \A i \in DOMAIN outs : w[s[i]] = AmountsIn(outs, a)[i]
  BY <1>4, AmountType DEF AmountsIn, w
<1>6. z = AmountsIn(outs, a)
  <2>1. AmountsIn(outs, a) = [i \in DOMAIN outs |-> AmountsIn(outs, a)[i]]
    BY DEF AmountsIn
  <2>2. QED
    BY <1>2, <1>5, <2>1
<1>7. SumAlong(s, w) = SumFunctionOnSet(z, DOMAIN s)
  BY Zenon DEF SumAlong
<1>8. SumAlong(s, w) = SumFunctionOnSet(AmountsIn(outs, a), DOMAIN outs)
  BY <1>2, <1>6, <1>7, Zenon
<1>9. QED
  BY <1>8 DEF s, outs, w

\* The inputs of a transaction take what VerifyTx counts.
LEMMA TakenByInputs ==
  ASSUME IsSet(utxos), NEW t \in Txs, Verifies(t), NEW a
  PROVE  VT!Sum(Flow(t).ins, a) = InTotal(t, AmountOf(a)) /\ InTotal(t, AmountOf(a)) \in Nat
<1> DEFINE S == DOMAIN t.ins
           D == [i \in S |-> DOMAIN t.ins[i]]
           P == Places(t)
           w == AmountOf(a)
           v == [p \in P |-> w[utxos[InputAt(t, p).utxo]]]
           flow == Flow(t).ins
           shares == VT!Shares(flow, a)
           rows == [i \in S |-> SumFunctionOnSet([j \in D[i] |-> v[<<i, j>>]], D[i])]
<1>1. /\ IsFiniteSet(DOMAIN D) /\ (\A i \in DOMAIN D : IsFiniteSet(D[i]))
      /\ (\A p : p \in P <=> \E i \in DOMAIN D : p \in {i} \X D[i])
  BY PlacesFinite
<1>2. /\ flow = [i \in S |-> FlowIns(t.ins[i])]
      /\ DOMAIN D = S
      /\ \A i \in S : D[i] = DOMAIN t.ins[i]
      /\ \A p \in P : v[p] = w[utxos[InputAt(t, p).utxo]]
      /\ InTotal(t, w) = SumFunctionOnSet(v, P)
  <2>1. flow = [i \in S |-> FlowIns(t.ins[i])]
    BY DEF Flow
  <2>2. InTotal(t, w) = SumFunctionOnSet(v, P)
    BY Zenon DEF InTotal
  <2>3. QED
    BY <2>1, <2>2
<1>3. \A i \in S : \A j \in D[i] : <<i, j>> \in P /\ InputAt(t, <<i, j>>) = t.ins[i][j]
  <2>1. \A i, j : InputAt(t, <<i, j>>) = t.ins[i][j]
    BY DEF InputAt
  <2> HIDE DEF S, D, P
  <2>2. \A i \in S : \A j \in D[i] : <<i, j>> \in P
    <3>1. \A i, j : j \in D[i] => <<i, j>> \in {i} \X D[i]
      OBVIOUS
    <3>2. QED
      BY <1>1, <1>2, <3>1
  <2>3. QED
    BY <2>1, <2>2, Zenon
<1> HIDE DEF D, P, v, flow
<1>4. ASSUME NEW i \in S, NEW j \in D[i]
      PROVE  LET in == t.ins[i][j]
             IN  /\ Fx!ValidTransferInput(in.amt, in.in)
                 /\ v[<<i, j>>] = IF in.asset = a THEN in.amt ELSE 0
                 /\ v[<<i, j>>] \in Nat
  <2> DEFINE in == t.ins[i][j]
             e == utxos[in.utxo]
  <2>1. <<i, j>> \in P /\ InputAt(t, <<i, j>>) = in /\ v[<<i, j>>] = w[e]
    BY <1>2, <1>3
  <2>2. /\ in \in TransferableInput /\ in.utxo \in DOMAIN utxos /\ e.asset = in.asset
        /\ e.out.kind = "transfer" /\ in.amt # 0 /\ e.out.amt = in.amt /\ Fx!ValidInput(in.in)
    BY <2>1, InputTakesAmount DEF P
  <2>3. e \in Entry
    BY <2>2 DEF IsSet
  <2> HIDE DEF in, e
  <2>4. w[e] = IF e.asset = a THEN e.out.amt ELSE 0
    BY <2>2, <2>3, AmountType
  <2>5. w[e] \in Nat
    BY <2>2, <2>3, <2>4, AmountType
  <2>6. Fx!ValidTransferInput(in.amt, in.in)
    BY <2>2 DEF Fx!ValidTransferInput
  <2>7. QED
    BY <2>1, <2>2, <2>4, <2>5, <2>6 DEF in
<1>10. ASSUME NEW p \in P
       PROVE  v[p] \in Nat
  <2>1. PICK i \in S : p \in {i} \X D[i]
    BY <1>1, <1>2
  <2>2. p[2] \in D[i] /\ p = <<i, p[2]>>
    BY <2>1
  <2>3. QED
    BY <1>4, <2>2
<1> HIDE DEF w
<1>5. ASSUME NEW i \in S
      PROVE  VT!SumFunction(VT!Share(FlowIns(t.ins[i]), a)) = rows[i]
  <2> DEFINE f == FlowIns(t.ins[i])
             row == [j \in D[i] |-> v[<<i, j>>]]
  <2>1. DOMAIN f = D[i]
    BY <1>2 DEF FlowIns
  <2>2. \A j \in D[i] : /\ f[j].asset = t.ins[i][j].asset
                        /\ f[j].amount = t.ins[i][j].amt
    <3> SUFFICES ASSUME NEW j \in D[i]
                 PROVE  f[j].asset = t.ins[i][j].asset /\ f[j].amount = t.ins[i][j].amt
      OBVIOUS
    <3>1. j \in DOMAIN t.ins[i]
      BY <1>2
    <3>2. Fx!ValidTransferInput(t.ins[i][j].amt, t.ins[i][j].in)
      BY <1>4
    <3>3. QED
      BY <3>1, <3>2 DEF FlowIns
  <2> HIDE DEF f
  <2>3. VT!Share(f, a) = row
    <3>1. VT!Share(f, a) = [j \in D[i] |-> IF f[j].asset = a THEN f[j].amount ELSE 0]
      BY <2>1 DEF VT!Share
    <3>2. \A j \in D[i] : (IF f[j].asset = a THEN f[j].amount ELSE 0) = v[<<i, j>>]
      BY <1>4, <2>2
    <3>3. QED
      BY <3>1, <3>2
  <2>4. DOMAIN row = D[i] /\ rows[i] = SumFunctionOnSet(row, D[i])
    OBVIOUS
  <2>5. VT!SumFunction(row) = SumFunctionOnSet(row, D[i])
    BY <2>4, SumOfVerifyTx, Zenon
  <2>6. QED
    BY <2>3, <2>4, <2>5, Zenon DEF f
<1>6. IsFiniteSet(P) /\ SumFunctionOnSet(v, P) = SumFunctionOnSet(rows, S)
  <2>2. ASSUME NEW i \in S
        PROVE  \E row : /\ rows[i] = SumFunctionOnSet(row, D[i])
                        /\ \A p \in {i} \X D[i] : row[p[2]] = v[p]
    <3> DEFINE row == [j \in D[i] |-> v[<<i, j>>]]
    <3>1. rows[i] = SumFunctionOnSet(row, D[i])
      OBVIOUS
    <3>2. \A p \in {i} \X D[i] : row[p[2]] = v[p]
      OBVIOUS
    <3> HIDE DEF row, rows
    <3>3. QED
      BY <3>1, <3>2
  <2> HIDE DEF rows
  <2>3. PairsAdd(D, P, v, rows)
    BY <1>1, <1>2, <1>10, <2>2, SumOfPairs
  <2>4. QED
    BY <1>2, <2>3 DEF PairsAdd
<1>7. VT!Sum(flow, a) = SumFunctionOnSet(rows, S)
  <2>1. shares = [i \in DOMAIN flow |-> VT!SumFunction(VT!Share(flow[i], a))]
    BY Zenon DEF VT!Shares
  <2> HIDE DEF shares, rows
  <2>2. DOMAIN flow = S /\ \A i \in S : flow[i] = FlowIns(t.ins[i])
    BY <1>2
  <2>3. shares = [i \in S |-> rows[i]]
    BY <1>5, <2>1, <2>2
  <2>4. rows = [i \in S |-> rows[i]] /\ DOMAIN rows = S
    BY DEF rows
  <2>5. VT!Sum(flow, a) = VT!SumFunction(rows)
    BY <2>3, <2>4, Zenon DEF VT!Sum, shares
  <2>6. QED
    BY <2>4, <2>5, SumOfVerifyTx, Zenon
<1>8. SumFunctionOnSet(v, P) \in Nat
  BY <1>6, <1>10, SumFirst
<1>9. QED
  BY <1>2, <1>6, <1>7, <1>8 DEF w, flow

\* What has been exported, and the fees, grow with every transaction.
LEMMA ExportsAdd ==
  ASSUME Finite, LedgerInv, NEW t \in Txs, Execute(t), NEW a
  PROVE  /\ Exported(a) \in Nat /\ Exported(a)' = Exported(a) + ExportedBy(t, a)
         /\ Fees(a) \in Nat /\ Fees(a)' = Fees(a) + (IF a = FeeAsset THEN TxFee ELSE 0)
<1> DEFINE z == [s \in executed |-> ExportedBy(s, a)]
           y == [s \in executed' |-> ExportedBy(s, a)]
<1>1. executed' = executed \cup {t} /\ t \notin executed
  BY NeverBefore DEF Execute
<1>2. IsFiniteSet(executed) /\ executed \subseteq Txs
  BY DEF Finite
<1>3. \A s \in executed \cup {t} : y[s] = ExportedBy(s, a) /\ y[s] \in Nat
  BY <1>1, <1>2, ExportedByType
<1>4. \A s \in executed : z[s] = y[s] /\ z[s] \in Nat
  BY <1>3
<1>5. Exported(a) = SumFunctionOnSet(z, executed) /\ Exported(a)' = SumFunctionOnSet(y, executed')
  <2>1. DOMAIN z = executed /\ DOMAIN y = executed'
    OBVIOUS
  <2>2. Exported(a) = SumFunction(z) /\ Exported(a)' = SumFunction(y)
    BY Zenon DEF Exported
  <2> HIDE DEF z, y
  <2>3. QED
    BY <2>1, <2>2, Zenon DEF SumFunction
<1> HIDE DEF z, y
<1>6. SumFunctionOnSet(y, executed \cup {t}) = SumFunctionOnSet(y, executed) + y[t]
  BY <1>1, <1>2, <1>3, SumAdds
<1>7. SumFunctionOnSet(z, executed) = SumFunctionOnSet(y, executed)
  BY <1>2, <1>3, <1>4, SumSame
<1>8. SumFunctionOnSet(z, executed) \in Nat
  BY <1>2, <1>4, SumFirst
<1>9. SumFunctionOnSet(y, executed') = SumFunctionOnSet(y, executed \cup {t})
  BY <1>1, Zenon
<1>10. Exported(a) \in Nat /\ Exported(a)' = Exported(a) + ExportedBy(t, a)
  BY <1>3, <1>5, <1>6, <1>7, <1>8, <1>9
<1>11. /\ Cardinality(executed') = Cardinality(executed) + 1
       /\ Cardinality(executed) \in Nat
  BY <1>1, <1>2, FS_AddElement, FS_CardinalityType
<1>12. /\ Fees(a) = IF a = FeeAsset THEN TxFee * Cardinality(executed) ELSE 0
       /\ Fees(a)' = IF a = FeeAsset THEN TxFee * Cardinality(executed') ELSE 0
  BY DEF Fees
<1>13. /\ TxFee * Cardinality(executed') = TxFee * Cardinality(executed) + TxFee
       /\ TxFee * Cardinality(executed) \in Nat
  <2> DEFINE n == Cardinality(executed)
             m == Cardinality(executed')
  <2>1. TxFee \in Nat /\ n \in Nat /\ m = n + 1
    BY <1>11, LedgerAssumption
  <2> HIDE DEF n, m
  <2>2. QED
    BY <2>1 DEF n, m
<1>14. QED
  BY <1>10, <1>12, <1>13

\* The amount that is stored is the total of its weight.
LEMMA AmountsTotal ==
  ASSUME NEW set, IsSet(set), NEW a
  PROVE  Amounts(set, a) = Total(set, AmountOf(a)) /\ Amounts(set, a) \in Nat
<1> DEFINE w == AmountOf(a)
           z == [u \in DOMAIN set |-> w[set[u]]]
<1>1. z = [u \in DOMAIN set |->
             IF set[u].asset = a /\ set[u].out.kind = "transfer" THEN set[u].out.amt ELSE 0]
  BY DEF IsSet, AmountOf
<1>2. DOMAIN z = DOMAIN set
  OBVIOUS
<1>3. Total(set, w) = SumFunctionOnSet(z, DOMAIN set)
  BY Zenon DEF Total
<1>4. Amounts(set, a) = SumFunction(z)
  BY <1>1, Zenon DEF Amounts
<1>5. Amounts(set, a) = Total(set, w)
  BY <1>2, <1>3, <1>4, Zenon DEF SumFunction
<1>6. QED
  BY <1>5, AmountType, WeightType

-----------------------------------------------------------------------------
\* What is stored, exported and paid of an asset is no more than there was and was minted.
SupplyInv == AccountInv /\ SupplyConserved

\* A transaction keeps it: VerifyTx balances what is taken, and operations leave no
\* more than they take and mint.
LEMMA SupplyStep ==
  ASSUME SupplyInv, NEW t \in Txs, Execute(t)
  PROVE  SupplyConserved'
<1> SUFFICES ASSUME NEW a \in Asset
             PROVE  Amounts(utxos', a) + Exported(a)' + Fees(a)' <= Amounts(Genesis, a) + Minted(a)'
  BY DEF SupplyConserved
<1> DEFINE w == AmountOf(a)
           made == AmountMints(a)
           moved == SumAlong(Transferred(t.outs), w)
           fee == IF a = FeeAsset THEN TxFee ELSE 0
<1>1. LedgerInv /\ EntryInv /\ IsSet(utxos) /\ Finite
  BY DEF SupplyInv, AccountInv
<1>2. Verifies(t) /\ FlowCheck(t)
  BY DEF Execute, Verifies
<1>3. w \in [Entry -> Nat] /\ made \in [Ops -> Nat] /\ None \in [Ops -> Nat] /\ Accounts(w, made, None)
  BY AmountAccounts DEF Accounts
<1>4. IsSet(utxos') /\ IsSet(Genesis)
  <2>1. IsSet(utxos)'
    BY <1>1, SetStep
  <2>2. QED
    BY <2>1, GenesisSet DEF IsSet
<1>5. /\ Amounts(utxos, a) = Total(utxos, w) /\ Amounts(utxos, a) \in Nat
      /\ Amounts(utxos', a) = Total(utxos', w) /\ Amounts(utxos', a) \in Nat
      /\ Amounts(Genesis, a) \in Nat
  BY <1>1, <1>4, AmountsTotal
<1>6. Minted(a) = Tally(made) /\ Minted(a)' = Tally(made)'
  BY Zenon DEF Minted, AmountMints
<1>7. Minted(a)' = Minted(a) + OpTotal(t, made) /\ Minted(a) \in Nat /\ OpTotal(t, made) \in Nat
  <2>1. Tally(made)' = Tally(made) + OpTotal(t, made) /\ Tally(made) \in Nat
    BY <1>1, <1>3, TallyAdds, TallyType
  <2>2. OpTotal(t, made) \in Nat
    BY <1>3, OpTotalType
  <2>3. QED
    BY <1>6, <2>1, <2>2, Zenon
<1>8. OpTotal(t, None) = 0
  <2> DEFINE K == DOMAIN t.ops
             y == [k \in K |-> None[t.ops[k]]]
  <2>1. IsFiniteSet(K) /\ \A k \in K : y[k] = 0
    BY OpsOf DEF None
  <2>2. OpTotal(t, None) = SumFunctionOnSet(y, K)
    BY Zenon DEF OpTotal
  <2> HIDE DEF K, y
  <2>3. QED
    BY <2>1, <2>2, SumOfZeros
<1>9. /\ Total(utxos', w) + (InTotal(t, w) + TakenTotal(t, w))
           = Total(utxos, w) + (moved + LeftTotal(t, w))
      /\ TakenTotal(t, w) + OpTotal(t, made) = LeftTotal(t, w) + OpTotal(t, None)
      /\ TakenTotal(t, w) \in Nat /\ LeftTotal(t, w) \in Nat
  BY <1>1, <1>3, ExecuteTotal, OperationsAccount, TakenType
<1>10. moved + ExportedBy(t, a) + fee <= InTotal(t, w)
  <2>1. VT!Sum(Flow(t).outs, a) + VT!Fee(Flow(t), a) <= VT!Sum(Flow(t).ins, a)
    BY <1>2, Zenon DEF FlowCheck, VT!Balanced
  <2>2. VT!Sum(Flow(t).outs, a) = moved + ExportedBy(t, a)
    BY <1>2, OutTotal, MovedTotal
  <2>3. VT!Fee(Flow(t), a) = fee
    <3>1. Flow(t).fee = TxFee
      BY DEF Flow
    <3>2. QED
      BY <3>1, Zenon DEF VT!Fee
  <2>4. VT!Sum(Flow(t).ins, a) = InTotal(t, w)
    BY <1>1, <1>2, TakenByInputs
  <2>5. QED
    BY <2>1, <2>2, <2>3, <2>4, Zenon
<1>11. InTotal(t, w) \in Nat /\ moved \in Nat /\ ExportedBy(t, a) \in Nat /\ fee \in Nat
  <2>1. InTotal(t, w) \in Nat /\ ExportedBy(t, a) \in Nat
    BY <1>1, <1>2, TakenByInputs, ExportedByType
  <2>2. moved \in Nat
    BY <1>3, OutputTypes, SumAlongType
  <2>3. QED
    BY <2>1, <2>2, LedgerAssumption
<1>12. /\ Exported(a) \in Nat /\ Exported(a)' = Exported(a) + ExportedBy(t, a)
       /\ Fees(a) \in Nat /\ Fees(a)' = Fees(a) + fee
  BY <1>1, ExportsAdd
<1>13. Amounts(utxos, a) + Exported(a) + Fees(a) <= Amounts(Genesis, a) + Minted(a)
  BY DEF SupplyInv, SupplyConserved
<1> HIDE DEF w, made, moved, fee
<1>14. Amounts(utxos', a) + moved + ExportedBy(t, a) + fee
         <= Amounts(utxos, a) + moved + OpTotal(t, made)
  BY <1>5, <1>7, <1>8, <1>9, <1>10, <1>11
<1>15. QED
  BY <1>5, <1>7, <1>11, <1>12, <1>13, <1>14

\* The amount of an asset grows by what is minted only, and that of the fee asset falls
\* by the fees, whatever transactions and fxs let through (transferables.go 219-256,
\* secp256k1fx/fx.go 130-171, utxo_handler.go 9-32).
THEOREM SupplyAlwaysConserved == Spec => []SupplyConserved
<1>1. Init => SupplyConserved
  <2> SUFFICES ASSUME Init, NEW a \in Asset
               PROVE  Amounts(utxos, a) + Exported(a) + Fees(a) <= Amounts(Genesis, a) + Minted(a)
    BY DEF SupplyConserved
  <2>1. utxos = Genesis /\ executed = {} /\ AccountInv
    BY AccountInvInit DEF Init
  <2>2. Amounts(Genesis, a) \in Nat
    BY GenesisSet, AmountsTotal
  <2>3. Exported(a) = 0
    <3> DEFINE z == [s \in executed |-> ExportedBy(s, a)]
    <3>1. DOMAIN z = {}
      BY <2>1
    <3>2. Exported(a) = SumFunction(z)
      BY Zenon DEF Exported
    <3>3. Exported(a) = SumFunctionOnSet(z, {})
      BY <3>1, <3>2, Zenon DEF SumFunction
    <3>4. QED
      BY <3>3, FS_EmptySet, SumFirst
  <2>4. Fees(a) = 0
    <3>1. Cardinality(executed) = 0
      BY <2>1, FS_EmptySet, Zenon
    <3>2. QED
      BY <3>1, LedgerAssumption DEF Fees
  <2>5. Minted(a) \in Nat
    <3>1. AmountMints(a) \in [Ops -> Nat]
      BY AmountAccounts DEF Accounts
    <3>2. Minted(a) = Tally(AmountMints(a))
      BY Zenon DEF Minted, AmountMints
    <3>3. QED
      BY <2>1, <3>1, <3>2, TallyType DEF AccountInv
  <2>6. QED
    BY <2>1, <2>2, <2>3, <2>4, <2>5
<1>2. AccountInv /\ SupplyConserved /\ [Next]_vars => SupplyConserved'
  <2> SUFFICES ASSUME AccountInv, SupplyConserved, [Next]_vars
               PROVE  SupplyConserved'
    OBVIOUS
  <2>1. ASSUME NEW t \in Txs, Execute(t)
        PROVE  SupplyConserved'
    BY <2>1, SupplyStep DEF SupplyInv
  <2>2. CASE UNCHANGED <<utxos, executed>>
    <3> SUFFICES ASSUME NEW a \in Asset
                 PROVE  Amounts(utxos', a) + Exported(a)' + Fees(a)' <= Amounts(Genesis, a) + Minted(a)'
      BY DEF SupplyConserved
    <3>1. Exported(a)' = Exported(a)
      BY <2>2, Zenon DEF Exported
    <3>2. Minted(a)' = Minted(a)
      BY <2>2, Zenon DEF Minted, Tally
    <3>3. Fees(a)' = Fees(a) /\ Amounts(utxos', a) = Amounts(utxos, a)
      BY <2>2, Zenon DEF Fees
    <3>4. QED
      BY <3>1, <3>2, <3>3 DEF SupplyConserved
  <2>3. QED
    BY <2>1, <2>2 DEF Next, Tick, Bootstrapped, vars
<1>3. QED
  BY <1>1, <1>2, AccountInvAlways, PTL DEF Spec
=============================================================================
