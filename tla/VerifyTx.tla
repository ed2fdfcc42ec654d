------------------------------ MODULE VerifyTx ------------------------------
(***************************************************************************)
(* VerifyTx of transferables.go: it walks the lists of outputs and then    *)
(* the lists of inputs of a transaction, checks each item and each list,   *)
(* feeds their amounts to a FlowChecker that has been charged the fee, and *)
(* returns the first error, or what the FlowChecker says in the end.       *)
(*                                                                         *)
(* Assets, UTXO identifiers and the wire bytes of an output are numbers:   *)
(* only their order matters.  An amount of 0 stands for any output or      *)
(* input whose own Verify fails, and asset 0 is ids.Empty.                 *)
(***************************************************************************)
EXTENDS FlowChecker, Integers, Sequences, SequencesExt

CONSTANTS
  FeeAsset,  (* feeAssetID                                                *)
  Txs        (* [fee, outs, ins] of the transactions that are verified:   *)
             (* outs are lists of [asset, amount, bytes], ins are lists   *)
             (* of [utxo, asset, amount]                                  *)

EmptyAsset == 0

Output == [asset : Asset, amount : Amounts, bytes : Nat]
Input == [utxo : Nat, asset : Asset, amount : Amounts]
Tx == [fee : Amounts, outs : Seq(Seq(Output)), ins : Seq(Seq(Input))]

ASSUME TxAssumption ==
  /\ Asset \subseteq Nat
  /\ FeeAsset \in Asset
  /\ Txs \subseteq Tx /\ Txs # {}

VARIABLES
  tx,           (* the transaction                                        *)
  part,         (* which part of it is next                               *)
  list, item,   (* the list and the item of that part that are next       *)
  result        (* what VerifyTx returned                                 *)

txVars == <<tx, part, list, item, result>>
vars == <<flowVars, txVars>>

Rejections == {"invalid", "ErrOutputsNotSorted", "ErrInputsNotSortedUnique", "flow"}

TypeOK ==
  /\ FlowTypeOK
  /\ tx \in Txs
  /\ part \in {"fee", "outs", "ins", "done"}
  /\ list \in Nat \ {0} /\ item \in Nat \ {0}
  /\ result \in {"none", "ok"} \cup Rejections

-----------------------------------------------------------------------------
(* What is checked of an item and of a list.                               *)

\* Verify of an output and of an input: the asset, then the inner Verify.
Valid(x) == x.asset # EmptyAsset /\ x.amount # 0

Less(x, y) == \/ x.asset < y.asset
              \/ x.asset = y.asset /\ x.bytes < y.bytes

\* Mutant: only the assets are compared.
IsSortedByAsset(outs) == \A i \in 2..Len(outs) : outs[i].asset >= outs[i - 1].asset

\* Mutant: equal outputs are out of order.
IsSortedStrictly(outs) == \A i \in 2..Len(outs) : Less(outs[i - 1], outs[i])

\* sort.IsSorted: no output is less than the one before it.
IsSortedTransferableOutputs(outs) == \A i \in 2..Len(outs) : ~Less(outs[i], outs[i - 1])

\* Every input compares less than the next.
IsSortedAndUnique(ins) == \A i \in 2..Len(ins) : ins[i - 1].utxo < ins[i].utxo

-----------------------------------------------------------------------------
\* VerifyTx is called, and makes a FlowChecker.
Init ==
  /\ NewFlowChecker
  /\ tx \in Txs
  /\ part = "fee" /\ list = 1 /\ item = 1
  /\ result = "none"

Return(error) ==
  /\ part' = "done"
  /\ result' = error
  /\ UNCHANGED <<tx, list, item>>

\* Mutant: the fee is not charged.
BurnNothing ==
  /\ part = "fee"
  /\ part' = "outs"
  /\ UNCHANGED <<flowVars, tx, list, item, result>>

BurnFee ==
  /\ part = "fee"
  /\ Produce(FeeAsset, tx.fee)
  /\ part' = "outs"
  /\ UNCHANGED <<tx, list, item, result>>

\* The next item of the list is checked, and counted when it is valid.
Item(lists, Count(_, _)) ==
  /\ list <= Len(lists) /\ item <= Len(lists[list])
  /\ \E x \in {lists[list][item]} :
       IF Valid(x)
       THEN /\ Count(x.asset, x.amount)
            /\ item' = item + 1
            /\ UNCHANGED <<tx, part, list, result>>
       ELSE Return("invalid") /\ UNCHANGED flowVars

\* The order of a list is checked after its items.
EndOfList(lists, Ordered(_), error) ==
  /\ list <= Len(lists) /\ item > Len(lists[list])
  /\ IF Ordered(lists[list])
     THEN list' = list + 1 /\ item' = 1 /\ UNCHANGED <<tx, part, result>>
     ELSE Return(error)
  /\ UNCHANGED flowVars

OutputStep ==
  /\ part = "outs"
  /\ \/ Item(tx.outs, Produce)
     \/ EndOfList(tx.outs, IsSortedTransferableOutputs, "ErrOutputsNotSorted")

OutputsDone ==
  /\ part = "outs" /\ list > Len(tx.outs)
  /\ part' = "ins" /\ list' = 1 /\ item' = 1
  /\ UNCHANGED <<flowVars, tx, result>>

InputStep ==
  /\ part = "ins"
  /\ \/ Item(tx.ins, Consume)
     \/ EndOfList(tx.ins, IsSortedAndUnique, "ErrInputsNotSortedUnique")

InputsDone ==
  /\ part = "ins" /\ list > Len(tx.ins)
  /\ Verify
  /\ Return(IF verdict' = "ok" THEN "ok" ELSE "flow")

\* The call is over.
Returned == part = "done" /\ UNCHANGED vars

Next ==
  \/ BurnFee
  \/ OutputStep
  \/ OutputsDone
  \/ InputStep
  \/ InputsDone
  \/ Returned

Spec == Init /\ [][Next]_vars

-----------------------------------------------------------------------------
(* The transactions VerifyTx ought to accept, told from the transaction as *)
(* a whole.                                                                *)

\* What each item of a list, and each list, has of an asset.
Share(items, a) == [i \in DOMAIN items |-> IF items[i].asset = a THEN items[i].amount ELSE 0]

Shares(lists, a) == [l \in DOMAIN lists |-> SumFunction(Share(lists[l], a))]

Sum(lists, a) == SumFunction(Shares(lists, a))

Fee(t, a) == IF a = FeeAsset THEN t.fee ELSE 0

Ascending(s, Before(_, _)) == \A i, j \in DOMAIN s : i < j => Before(s[i], s[j])

OutputsWellFormed(t) ==
  \A i \in DOMAIN t.outs :
    /\ \A j \in DOMAIN t.outs[i] : Valid(t.outs[i][j])
    /\ Ascending(t.outs[i], LAMBDA x, y : ~Less(y, x))

InputsWellFormed(t) ==
  \A i \in DOMAIN t.ins :
    /\ \A j \in DOMAIN t.ins[i] : Valid(t.ins[i][j])
    /\ Ascending(t.ins[i], LAMBDA x, y : x.utxo < y.utxo)

WellFormed(t) == OutputsWellFormed(t) /\ InputsWellFormed(t)

Balanced(t) == \A a \in Asset : Sum(t.outs, a) + Fee(t, a) <= Sum(t.ins, a)

Representable(t) ==
  \A a \in Asset : /\ Sum(t.outs, a) + Fee(t, a) <= MaxAmount
                   /\ Sum(t.ins, a) <= MaxAmount

\* A transaction VerifyTx accepts is well formed and balanced, with the fee, in
\* true numbers that fit a word: its lists are sorted throughout, no list has an
\* input twice, and no asset is produced beyond what is consumed
\* (transferables.go 219-256).
AcceptedIsSound == result = "ok" => WellFormed(tx) /\ Balanced(tx) /\ Representable(tx)

\* VerifyTx rejects only a transaction that is malformed, that is not balanced,
\* or one of whose sums does not fit a word (transferables.go 219-256).
RejectedIsFaulty ==
  result \in Rejections => ~(WellFormed(tx) /\ Balanced(tx) /\ Representable(tx))

Rearranged(items, p) == [i \in DOMAIN items |-> items[p[i]]]

\* A transaction VerifyTx accepts is the only one of its kind: in any other order
\* its inputs are rejected, and so are its outputs but for those that have one
\* asset and the same wire bytes, none included, which is all that Less sees
\* (transferables.go 104-137, 238-252).
AcceptedIsCanonical ==
  result = "ok" =>
    /\ \A l \in DOMAIN tx.outs : \A p \in Bijection(DOMAIN tx.outs[l], DOMAIN tx.outs[l]) :
         IsSortedTransferableOutputs(Rearranged(tx.outs[l], p)) =>
           \A i \in DOMAIN tx.outs[l] : /\ tx.outs[l][p[i]].asset = tx.outs[l][i].asset
                                        /\ tx.outs[l][p[i]].bytes = tx.outs[l][i].bytes
    /\ \A l \in DOMAIN tx.ins : \A p \in Bijection(DOMAIN tx.ins[l], DOMAIN tx.ins[l]) :
         IsSortedAndUnique(Rearranged(tx.ins[l], p)) => Rearranged(tx.ins[l], p) = tx.ins[l]
=============================================================================
