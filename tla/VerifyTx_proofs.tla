-------------------------- MODULE VerifyTx_proofs --------------------------
(***************************************************************************)
(* Proofs about what a transaction is verified by: VerifyTx and the        *)
(* FlowChecker it uses, for any transactions, assets and word size, and,   *)
(* in the last part, Secp256k1Fx.                                          *)
(***************************************************************************)
EXTENDS VerifyTx, Secp256k1Fx, Collections_proofs, FiniteSetTheorems

-----------------------------------------------------------------------------
(* The FlowChecker.                                                        *)

\* A word sum that Add does not reject is the true sum.
LEMMA AddExact ==
  ASSUME NEW x \in 0..MaxAmount, NEW y \in 0..MaxAmount
  PROVE  /\ Add(x, y) \in 0..MaxAmount
         /\ ~Overflows(x, y) => Add(x, y) = x + y
  BY FlowAssumption DEF Add, Overflows

\* Every step keeps the types.
LEMMA FlowTypeStep == FlowTypeOK /\ [FlowNext]_flowVars => FlowTypeOK'
<1> SUFFICES ASSUME FlowTypeOK, [FlowNext]_flowVars
             PROVE  FlowTypeOK'
  OBVIOUS
<1>1. ASSUME NEW a \in Asset, NEW amount \in Amounts, Consume(a, amount)
      PROVE  FlowTypeOK'
  <2>1. Add(consumed[a], amount) \in 0..MaxAmount /\ amount \in Nat
    BY AddExact, FlowAssumption DEF FlowTypeOK
  <2>2. QED
    BY <1>1, <2>1 DEF Consume, Collect, FlowTypeOK
<1>2. ASSUME NEW a \in Asset, NEW amount \in Amounts, Produce(a, amount)
      PROVE  FlowTypeOK'
  <2>1. Add(produced[a], amount) \in 0..MaxAmount /\ amount \in Nat
    BY AddExact, FlowAssumption DEF FlowTypeOK
  <2>2. QED
    BY <1>2, <2>1 DEF Produce, Collect, FlowTypeOK
<1>3. CASE Verify
  BY <1>3 DEF Verify, FlowTypeOK
<1>4. CASE UNCHANGED flowVars
  BY <1>4 DEF flowVars, FlowTypeOK
<1>5. QED
  BY <1>1, <1>2, <1>3, <1>4 DEF FlowNext

-----------------------------------------------------------------------------
(* Why an accepting checker can be trusted: as long as no addition has     *)
(* overflowed its words are the true sums, and an overflow that has        *)
(* happened is in errs for good.                                           *)

WordsExact ==
  "overflow" \notin errs => consumed = totalIn /\ produced = totalOut

FlowInv ==
  /\ FlowTypeOK
  /\ WordsExact
  /\ verdict = "ok" => errs = {} /\ ~Insufficient

\* The first sums are all 0.
LEMMA FlowInvInit == NewFlowChecker => FlowInv
  BY FlowAssumption
  DEF NewFlowChecker, FlowInv, FlowTypeOK, WordsExact

\* FlowInv is inductive.
LEMMA FlowInvStep == FlowInv /\ [FlowNext]_flowVars => FlowInv'
<1> SUFFICES ASSUME FlowInv, [FlowNext]_flowVars
             PROVE  FlowInv'
  OBVIOUS
<1>0. FlowTypeOK /\ FlowTypeOK'
  BY FlowTypeStep DEF FlowInv
<1>1. ASSUME NEW a \in Asset, NEW amount \in Amounts, Consume(a, amount)
      PROVE  FlowInv'
  <2>1. ~Overflows(consumed[a], amount) =>
           Add(consumed[a], amount) = consumed[a] + amount
    BY AddExact, FlowAssumption, <1>0 DEF FlowTypeOK
  <2>2. WordsExact'
    BY <1>0, <1>1, <2>1 DEF FlowInv, WordsExact, Consume, Collect, FlowTypeOK
  <2>3. verdict' # "ok"
    BY <1>1 DEF Consume
  <2>4. QED
    BY <1>0, <2>2, <2>3 DEF FlowInv
<1>2. ASSUME NEW a \in Asset, NEW amount \in Amounts, Produce(a, amount)
      PROVE  FlowInv'
  <2>1. ~Overflows(produced[a], amount) =>
           Add(produced[a], amount) = produced[a] + amount
    BY AddExact, FlowAssumption, <1>0 DEF FlowTypeOK
  <2>2. WordsExact'
    BY <1>0, <1>2, <2>1 DEF FlowInv, WordsExact, Produce, Collect, FlowTypeOK
  <2>3. verdict' # "ok"
    BY <1>2 DEF Produce
  <2>4. QED
    BY <1>0, <2>2, <2>3 DEF FlowInv
<1>3. CASE Verify
  <2>1. WordsExact'
    BY <1>3 DEF Verify, FlowInv, WordsExact
  <2>2. verdict' = "ok" => errs' = {} /\ ~Insufficient'
    BY <1>3 DEF Verify, Insufficient
  <2>3. QED
    BY <1>0, <2>1, <2>2 DEF FlowInv
<1>4. CASE UNCHANGED flowVars
  BY <1>0, <1>4 DEF flowVars, FlowInv, WordsExact, Insufficient
<1>5. QED
  BY <1>1, <1>2, <1>3, <1>4 DEF FlowNext

\* The sums of an accepting checker are the true ones, and it has compared them.
LEMMA FlowInvConserves == FlowInv => NoInflation
<1> SUFFICES ASSUME FlowInv, verdict = "ok", NEW a \in Asset
             PROVE  totalOut[a] <= totalIn[a]
  BY DEF NoInflation
<1>1. consumed = totalIn /\ produced = totalOut
  BY DEF FlowInv, WordsExact
<1>2. consumed[a] \in Nat /\ produced[a] \in Nat
  BY FlowAssumption DEF FlowInv, FlowTypeOK
<1>3. ~(produced[a] > consumed[a])
  BY DEF FlowInv, Insufficient
<1>4. QED
  BY <1>1, <1>2, <1>3

-----------------------------------------------------------------------------
\* The words of the checker stay words (flow_checker.go 35-41).
THEOREM FlowTypeCorrect == FlowSpec => []FlowTypeOK
<1>1. NewFlowChecker => FlowTypeOK
  BY FlowInvInit DEF FlowInv
<1>2. QED
  BY <1>1, FlowTypeStep, PTL DEF FlowSpec

\* No accepting checker has overlooked a deficit, whatever the amounts and the
\* word size (flow_checker.go 35-54).
THEOREM FlowConserves == FlowSpec => []NoInflation
  BY FlowInvConserves, FlowInvInit, FlowInvStep, PTL DEF FlowSpec

\* A checker that has failed never accepts (flow_checker.go 44-45, 53).
THEOREM FlowRejectionSticks == FlowSpec => RejectionSticks
<1>1. FlowInv /\ [FlowNext]_flowVars =>
        [errs # {} => errs' # {} /\ verdict' # "ok"]_flowVars
  BY DEF FlowNext, Consume, Produce, Verify, Collect
<1>2. QED
  BY <1>1, FlowInvInit, FlowInvStep, PTL DEF FlowSpec, RejectionSticks

\* The first error of a checker has a true cause (flow_checker.go 38-40, 45-51).
THEOREM FlowRejectionJustified == FlowSpec => RejectionJustified
<1>1. FlowInv /\ [FlowNext]_flowVars =>
        [errs = {} /\ errs' # {} =>
           \E a \in Asset : \/ totalOut'[a] > totalIn'[a]
                            \/ totalIn'[a] > MaxAmount
                            \/ totalOut'[a] > MaxAmount]_flowVars
  <2> SUFFICES ASSUME FlowInv, FlowNext, errs = {}, errs' # {}
               PROVE  \E a \in Asset : \/ totalOut'[a] > totalIn'[a]
                                       \/ totalIn'[a] > MaxAmount
                                       \/ totalOut'[a] > MaxAmount
    OBVIOUS
  <2>0. consumed = totalIn /\ produced = totalOut /\ FlowTypeOK
    BY DEF FlowInv, WordsExact
  <2>1. ASSUME NEW a \in Asset, NEW amount \in Amounts, Consume(a, amount)
        PROVE  totalIn'[a] > MaxAmount
    BY <2>0, <2>1 DEF Consume, Collect, Overflows, FlowTypeOK
  <2>2. ASSUME NEW a \in Asset, NEW amount \in Amounts, Produce(a, amount)
        PROVE  totalOut'[a] > MaxAmount
    BY <2>0, <2>2 DEF Produce, Collect, Overflows, FlowTypeOK
  <2>3. ASSUME Verify
        PROVE  \E a \in Asset : totalOut'[a] > totalIn'[a]
    BY <2>0, <2>3 DEF Verify, Insufficient
  <2>4. QED
    BY <2>1, <2>2, <2>3 DEF FlowNext
<1>2. QED
  BY <1>1, FlowInvInit, FlowInvStep, PTL DEF FlowSpec, RejectionJustified

-----------------------------------------------------------------------------
(* Comparing neighbors is enough (see Collections_proofs).                 *)

\* Outputs that pass IsSortedTransferableOutputs are sorted throughout.
LEMMA SortedOutputs ==
  ASSUME NEW outs \in Seq(Output), IsSortedTransferableOutputs(outs)
  PROVE  Ascending(outs, LAMBDA x, y : ~Less(y, x))
<1> SUFFICES ASSUME NEW i \in DOMAIN outs, NEW k \in DOMAIN outs, i < k,
                    Less(outs[k], outs[i])
             PROVE  FALSE
  BY DEF Ascending
<1> DEFINE T == {j \in DOMAIN outs : i < j /\ Less(outs[j], outs[i])}
<1>1. T \subseteq Nat /\ T # {}
  OBVIOUS
<1>2. PICK j \in T : \A y \in T : j <= y
  BY <1>1, Least
<1>3. j \in 2..Len(outs) /\ j - 1 \in DOMAIN outs
  BY <1>2
<1>4. ~Less(outs[j], outs[j - 1])
  BY <1>3 DEF IsSortedTransferableOutputs
<1>5. j - 1 = i \/ ~Less(outs[j - 1], outs[i])
  BY <1>2, <1>3
<1>6. /\ outs[i] \in Output /\ outs[j] \in Output /\ outs[j - 1] \in Output
      /\ Less(outs[j], outs[i])
  BY <1>2, <1>3
<1>7. \A x \in Output : x.asset \in Nat /\ x.bytes \in Nat
  BY TxAssumption DEF Output
<1>8. QED
  BY <1>4, <1>5, <1>6, <1>7, SMTT(30) DEF Less

\* Inputs that pass IsSortedAndUnique are sorted throughout, none twice.
LEMMA SortedInputs ==
  ASSUME NEW ins \in Seq(Input), IsSortedAndUnique(ins)
  PROVE  Ascending(ins, LAMBDA x, y : x.utxo < y.utxo)
<1> SUFFICES ASSUME NEW i \in DOMAIN ins, NEW k \in DOMAIN ins, i < k,
                    ~(ins[i].utxo < ins[k].utxo)
             PROVE  FALSE
  BY DEF Ascending
<1> DEFINE T == {j \in DOMAIN ins : i < j /\ ~(ins[i].utxo < ins[j].utxo)}
<1>1. T \subseteq Nat /\ T # {}
  OBVIOUS
<1>2. PICK j \in T : \A y \in T : j <= y
  BY <1>1, Least
<1>3. j \in 2..Len(ins) /\ j - 1 \in DOMAIN ins
  BY <1>2
<1>4. ins[j - 1].utxo < ins[j].utxo
  BY <1>3 DEF IsSortedAndUnique
<1>5. j - 1 = i \/ ins[i].utxo < ins[j - 1].utxo
  BY <1>2, <1>3
<1>6. /\ ins[i] \in Input /\ ins[j] \in Input /\ ins[j - 1] \in Input
      /\ ~(ins[i].utxo < ins[j].utxo)
  BY <1>2, <1>3
<1>7. \A x \in Input : x.utxo \in Nat
  BY DEF Input
<1>8. QED
  BY <1>4, <1>5, <1>6, <1>7

-----------------------------------------------------------------------------
(* The inductive invariant: the lists before the current one have passed,  *)
(* and so have the items before the current one.                           *)

ItemsValid(s, n) == \A j \in 1..n : Valid(s[j])

OutputsPassed(n) ==
  \A i \in 1..n : /\ ItemsValid(tx.outs[i], Len(tx.outs[i]))
                  /\ IsSortedTransferableOutputs(tx.outs[i])

InputsPassed(n) ==
  \A i \in 1..n : /\ ItemsValid(tx.ins[i], Len(tx.ins[i]))
                  /\ IsSortedAndUnique(tx.ins[i])

\* The walk is inside the lists or at their end.
Inside(lists) ==
  /\ list <= Len(lists) + 1
  /\ list = Len(lists) + 1 => item = 1
  /\ list <= Len(lists) => /\ item <= Len(lists[list]) + 1
                           /\ ItemsValid(lists[list], item - 1)

WalkInv ==
  /\ part = "fee" => list = 1 /\ item = 1
  /\ part = "outs" => Inside(tx.outs) /\ OutputsPassed(list - 1)
  /\ part = "ins" => /\ Inside(tx.ins) /\ InputsPassed(list - 1)
                     /\ OutputsPassed(Len(tx.outs))
  /\ part # "done" => result = "none"
  /\ result \in {"ok", "flow"} => OutputsPassed(Len(tx.outs)) /\ InputsPassed(Len(tx.ins))
  /\ result = "ErrInputsNotSortedUnique" => OutputsPassed(Len(tx.outs))
  /\ result = "ok" => verdict = "ok"

TxInv == TypeOK /\ FlowInv /\ WalkInv

\* The lists of a transaction, and their items.
LEMMA TxTypes ==
  ASSUME TypeOK
  PROVE  /\ tx.fee \in Amounts /\ tx.outs \in Seq(Seq(Output)) /\ tx.ins \in Seq(Seq(Input))
         /\ \A i \in 1..Len(tx.outs) : tx.outs[i] \in Seq(Output)
         /\ \A i \in 1..Len(tx.ins) : tx.ins[i] \in Seq(Input)
         /\ list \in Nat \ {0} /\ item \in Nat \ {0}
<1>1. tx \in Tx
  BY TxAssumption DEF TypeOK
<1>2. tx.outs \in Seq(Seq(Output)) /\ tx.ins \in Seq(Seq(Input)) /\ tx.fee \in Amounts
  BY <1>1 DEF Tx
<1>3. QED
  BY <1>2 DEF TypeOK

\* The item that is next.
LEMMA NextOutput ==
  ASSUME TypeOK, list <= Len(tx.outs), item <= Len(tx.outs[list])
  PROVE  tx.outs[list][item].asset \in Asset /\ tx.outs[list][item].amount \in Amounts
<1>1. tx.outs[list][item] \in Output
  BY TxTypes
<1>2. QED
  BY <1>1 DEF Output

\* The same for a list of inputs.
LEMMA NextInput ==
  ASSUME TypeOK, list <= Len(tx.ins), item <= Len(tx.ins[list])
  PROVE  tx.ins[list][item].asset \in Asset /\ tx.ins[list][item].amount \in Amounts
<1>1. tx.ins[list][item] \in Input
  BY TxTypes
<1>2. QED
  BY <1>1 DEF Input

\* Every step of VerifyTx is a step of its FlowChecker, or none.
LEMMA FlowPart == TypeOK /\ [Next]_vars => [FlowNext]_flowVars
<1> SUFFICES ASSUME TypeOK, [Next]_vars
             PROVE  [FlowNext]_flowVars
  OBVIOUS
<1>1. CASE BurnFee
  BY <1>1, TxTypes, TxAssumption DEF BurnFee, FlowNext
<1>2. CASE OutputStep
  BY <1>2, NextOutput DEF OutputStep, Item, EndOfList, FlowNext
<1>3. CASE InputStep
  BY <1>3, NextInput DEF InputStep, Item, EndOfList, FlowNext
<1>4. CASE InputsDone
  BY <1>4 DEF InputsDone, FlowNext
<1>5. CASE OutputsDone \/ Returned \/ UNCHANGED vars
  BY <1>5 DEF OutputsDone, Returned, vars
<1>6. QED
  BY <1>1, <1>2, <1>3, <1>4, <1>5 DEF Next

\* Every step keeps the types.
LEMMA TxTypeStep == TypeOK /\ [Next]_vars => TypeOK'
<1> SUFFICES ASSUME TypeOK, [Next]_vars
             PROVE  TypeOK'
  OBVIOUS
<1>1. FlowTypeOK'
  BY FlowPart, FlowTypeStep DEF TypeOK
<1>2. /\ tx' = tx
      /\ part' \in {"fee", "outs", "ins", "done"}
      /\ list' \in Nat \ {0} /\ item' \in Nat \ {0}
      /\ result' \in {"none", "ok"} \cup Rejections
  <2>1. CASE BurnFee
    BY <2>1 DEF BurnFee, TypeOK
  <2>2. CASE OutputStep
    BY <2>2 DEF OutputStep, Item, EndOfList, Return, Rejections, TypeOK
  <2>3. CASE OutputsDone
    BY <2>3 DEF OutputsDone, TypeOK
  <2>4. CASE InputStep
    BY <2>4 DEF InputStep, Item, EndOfList, Return, Rejections, TypeOK
  <2>5. CASE InputsDone
    BY <2>5 DEF InputsDone, Return, Rejections, TypeOK
  <2>6. CASE Returned \/ UNCHANGED vars
    BY <2>6 DEF Returned, vars, txVars, TypeOK
  <2>7. QED
    BY <2>1, <2>2, <2>3, <2>4, <2>5, <2>6 DEF Next
<1>3. QED
  BY <1>1, <1>2 DEF TypeOK

-----------------------------------------------------------------------------
(* What a step over a list does to the walk.                               *)

\* An item that has been counted.
LEMMA CountedOutput ==
  ASSUME TypeOK, Inside(tx.outs), list <= Len(tx.outs), item <= Len(tx.outs[list]),
         Valid(tx.outs[list][item]), item' = item + 1, list' = list, tx' = tx
  PROVE  Inside(tx.outs)'
<1>1. Len(tx.outs) \in Nat /\ Len(tx.outs[list]) \in Nat
  BY TxTypes
<1>2. ItemsValid(tx.outs[list], item)
  <2>1. \A j \in 1..item : j = item \/ j \in 1..(item - 1)
    BY TxTypes
  <2>2. QED
    BY <2>1 DEF Inside, ItemsValid
<1>3. item' - 1 = item /\ item + 1 <= Len(tx.outs[list]) + 1 /\ list # Len(tx.outs) + 1
  BY <1>1, TxTypes
<1>4. ItemsValid(tx'.outs[list'], item' - 1)
  BY <1>2, <1>3
<1>5. QED
  BY <1>1, <1>3, <1>4 DEF Inside, ItemsValid

\* The same for an input that is counted.
LEMMA CountedInput ==
  ASSUME TypeOK, Inside(tx.ins), list <= Len(tx.ins), item <= Len(tx.ins[list]),
         Valid(tx.ins[list][item]), item' = item + 1, list' = list, tx' = tx
  PROVE  Inside(tx.ins)'
<1>1. Len(tx.ins) \in Nat /\ Len(tx.ins[list]) \in Nat
  BY TxTypes
<1>2. ItemsValid(tx.ins[list], item)
  <2>1. \A j \in 1..item : j = item \/ j \in 1..(item - 1)
    BY TxTypes
  <2>2. QED
    BY <2>1 DEF Inside, ItemsValid
<1>3. item' - 1 = item /\ item + 1 <= Len(tx.ins[list]) + 1 /\ list # Len(tx.ins) + 1
  BY <1>1, TxTypes
<1>4. ItemsValid(tx'.ins[list'], item' - 1)
  BY <1>2, <1>3
<1>5. QED
  BY <1>1, <1>3, <1>4 DEF Inside, ItemsValid

\* A list that has been walked to its end.
LEMMA WalkedOutputs ==
  ASSUME TypeOK, Inside(tx.outs), OutputsPassed(list - 1),
         list <= Len(tx.outs), item > Len(tx.outs[list]),
         IsSortedTransferableOutputs(tx.outs[list])
  PROVE  OutputsPassed(list)
<1>1. Len(tx.outs[list]) \in Nat
  BY TxTypes
<1>2. item - 1 = Len(tx.outs[list])
  BY <1>1, TxTypes DEF Inside
<1>3. ItemsValid(tx.outs[list], Len(tx.outs[list]))
  BY <1>2 DEF Inside
<1>4. \A i \in 1..list : i = list \/ i \in 1..(list - 1)
  BY TxTypes
<1>5. QED
  BY <1>3, <1>4 DEF OutputsPassed

\* The same for the inputs.
LEMMA WalkedInputs ==
  ASSUME TypeOK, Inside(tx.ins), InputsPassed(list - 1),
         list <= Len(tx.ins), item > Len(tx.ins[list]), IsSortedAndUnique(tx.ins[list])
  PROVE  InputsPassed(list)
<1>1. Len(tx.ins[list]) \in Nat
  BY TxTypes
<1>2. item - 1 = Len(tx.ins[list])
  BY <1>1, TxTypes DEF Inside
<1>3. ItemsValid(tx.ins[list], Len(tx.ins[list]))
  BY <1>2 DEF Inside
<1>4. \A i \in 1..list : i = list \/ i \in 1..(list - 1)
  BY TxTypes
<1>5. QED
  BY <1>3, <1>4 DEF InputsPassed

\* A list that begins has no item behind it.
LEMMA NoItems == ASSUME NEW s PROVE ItemsValid(s, 1 - 1)
  BY DEF ItemsValid

\* Lists and lists of lists have lengths.
LEMMA Lengths ==
  ASSUME TypeOK
  PROVE  /\ Len(tx.outs) \in Nat /\ \A i \in 1..Len(tx.outs) : Len(tx.outs[i]) \in Nat
         /\ Len(tx.ins) \in Nat /\ \A i \in 1..Len(tx.ins) : Len(tx.ins[i]) \in Nat
<1>1. tx.outs \in Seq(Seq(Output)) /\ \A i \in 1..Len(tx.outs) : tx.outs[i] \in Seq(Output)
  BY TxTypes
<1>2. tx.ins \in Seq(Seq(Input)) /\ \A i \in 1..Len(tx.ins) : tx.ins[i] \in Seq(Input)
  BY TxTypes
<1>3. /\ Len(tx.outs) \in Nat /\ \A i \in 1..Len(tx.outs) : Len(tx.outs[i]) \in Nat
  BY <1>1
<1>4. /\ Len(tx.ins) \in Nat /\ \A i \in 1..Len(tx.ins) : Len(tx.ins[i]) \in Nat
  BY <1>2
<1>5. QED
  BY <1>3, <1>4

\* The walk may begin with the first list.
LEMMA AtFirst ==
  ASSUME TypeOK, list' = 1, item' = 1, tx' = tx
  PROVE  Inside(tx.outs)' /\ Inside(tx.ins)' /\ OutputsPassed(0) /\ InputsPassed(0)
<1>1. /\ Len(tx.outs) \in Nat /\ \A i \in 1..Len(tx.outs) : Len(tx.outs[i]) \in Nat
      /\ Len(tx.ins) \in Nat /\ \A i \in 1..Len(tx.ins) : Len(tx.ins[i]) \in Nat
  BY Lengths
<1>2. ItemsValid(tx.outs[1], 1 - 1) /\ ItemsValid(tx.ins[1], 1 - 1)
  BY NoItems
<1>3. Inside(tx.outs)' /\ Inside(tx.ins)'
  <2>1. Inside(tx.outs)'
    <3>1. Len(tx.outs) \in Nat /\ (1 <= Len(tx.outs) => Len(tx.outs[1]) \in Nat)
      BY <1>1
    <3>2. tx'.outs = tx.outs /\ list' = 1 /\ item' = 1
      OBVIOUS
    <3>3. QED
      BY <1>2, <3>1, <3>2 DEF Inside, ItemsValid
  <2>2. Inside(tx.ins)'
    <3>1. Len(tx.ins) \in Nat /\ (1 <= Len(tx.ins) => Len(tx.ins[1]) \in Nat)
      BY <1>1
    <3>2. tx'.ins = tx.ins /\ list' = 1 /\ item' = 1
      OBVIOUS
    <3>3. QED
      BY <1>2, <3>1, <3>2 DEF Inside, ItemsValid
  <2>3. QED
    BY <2>1, <2>2
<1>4. OutputsPassed(0) /\ InputsPassed(0)
  BY <1>1, <1>2 DEF OutputsPassed, InputsPassed, ItemsValid
<1>5. QED
  BY <1>3, <1>4

\* The walk goes on with the next list.
LEMMA AtNext ==
  ASSUME TypeOK, list' = list + 1, item' = 1, tx' = tx
  PROVE  /\ list <= Len(tx.outs) => Inside(tx.outs)'
         /\ list <= Len(tx.ins) => Inside(tx.ins)'
<1>1. /\ Len(tx.outs) \in Nat /\ \A i \in 1..Len(tx.outs) : Len(tx.outs[i]) \in Nat
      /\ Len(tx.ins) \in Nat /\ \A i \in 1..Len(tx.ins) : Len(tx.ins[i]) \in Nat
      /\ list \in Nat
  BY Lengths, TxTypes
<1>2. ItemsValid(tx.outs[list + 1], 1 - 1) /\ ItemsValid(tx.ins[list + 1], 1 - 1)
  BY NoItems
<1>3. QED
  BY <1>1, <1>2 DEF Inside, ItemsValid

-----------------------------------------------------------------------------
\* Every step keeps the invariant of the walk.
LEMMA WalkStep == TxInv /\ [Next]_vars => WalkInv'
<1> SUFFICES ASSUME TypeOK, WalkInv, [Next]_vars
             PROVE  WalkInv'
  BY DEF TxInv
<1>0. /\ list \in Nat \ {0} /\ Len(tx.outs) \in Nat /\ Len(tx.ins) \in Nat
      /\ result # "none" => part = "done"
  BY TxTypes DEF WalkInv
<1>1. CASE BurnFee
  <2>1. part' = "outs" /\ list' = 1 /\ item' = 1 /\ tx' = tx /\ result' = "none"
    BY <1>1 DEF BurnFee, WalkInv
  <2>2. Inside(tx.outs)' /\ OutputsPassed(0)'
    BY <2>1, AtFirst DEF OutputsPassed
  <2>3. QED
    BY <2>1, <2>2 DEF WalkInv
<1>2. CASE OutputStep
  <2>0. part = "outs" /\ Inside(tx.outs) /\ OutputsPassed(list - 1) /\ result = "none"
    BY <1>2 DEF OutputStep, WalkInv
  <2>1. CASE part' = "outs" /\ item' = item + 1 /\ list' = list
    <3>1. /\ list <= Len(tx.outs) /\ item <= Len(tx.outs[list])
          /\ Valid(tx.outs[list][item]) /\ tx' = tx /\ result' = "none"
      BY <1>2, <2>0, <2>1, <1>0 DEF OutputStep, Item, EndOfList, Return
    <3>2. Inside(tx.outs)' /\ OutputsPassed(list - 1)'
      BY <2>0, <2>1, <3>1, CountedOutput DEF OutputsPassed
    <3>3. QED
      BY <2>1, <3>1, <3>2 DEF WalkInv
  <2>2. CASE part' = "outs" /\ item' = 1 /\ list' = list + 1
    <3>1. /\ list <= Len(tx.outs) /\ item > Len(tx.outs[list])
          /\ IsSortedTransferableOutputs(tx.outs[list]) /\ tx' = tx /\ result' = "none"
      BY <1>2, <2>0, <2>2, <1>0 DEF OutputStep, Item, EndOfList, Return
    <3>2. Inside(tx.outs)'
      BY <2>2, <3>1, AtNext
    <3>3. OutputsPassed(list)
      BY <2>0, <3>1, WalkedOutputs
    <3>4. list' - 1 = list
      BY <2>2, <1>0
    <3>5. OutputsPassed(list - 1)'
      BY <3>1, <3>3, <3>4 DEF OutputsPassed
    <3>6. QED
      BY <2>2, <3>1, <3>2, <3>5 DEF WalkInv
  <2>3. CASE part' = "done" /\ result' \in {"invalid", "ErrOutputsNotSorted"}
    BY <2>3 DEF WalkInv
  <2>4. QED
    BY <1>2, <2>0, <2>1, <2>2, <2>3 DEF OutputStep, Item, EndOfList, Return
<1>3. CASE OutputsDone
  <2>1. /\ part = "outs" /\ list > Len(tx.outs) /\ Inside(tx.outs) /\ OutputsPassed(list - 1)
        /\ part' = "ins" /\ list' = 1 /\ item' = 1 /\ tx' = tx /\ result' = "none"
    BY <1>3 DEF OutputsDone, WalkInv
  <2>2. list - 1 = Len(tx.outs)
    BY <1>0, <2>1 DEF Inside
  <2>3. Inside(tx.ins)' /\ InputsPassed(0)' /\ OutputsPassed(Len(tx.outs))'
    BY <2>1, <2>2, AtFirst DEF OutputsPassed, InputsPassed
  <2>4. QED
    BY <2>1, <2>3 DEF WalkInv
<1>4. CASE InputStep
  <2>0. /\ part = "ins" /\ Inside(tx.ins) /\ InputsPassed(list - 1)
        /\ OutputsPassed(Len(tx.outs)) /\ result = "none"
    BY <1>4 DEF InputStep, WalkInv
  <2>1. CASE part' = "ins" /\ item' = item + 1 /\ list' = list
    <3>1. /\ list <= Len(tx.ins) /\ item <= Len(tx.ins[list])
          /\ Valid(tx.ins[list][item]) /\ tx' = tx /\ result' = "none"
      BY <1>4, <2>0, <2>1, <1>0 DEF InputStep, Item, EndOfList, Return
    <3>2. Inside(tx.ins)' /\ InputsPassed(list - 1)' /\ OutputsPassed(Len(tx.outs))'
      BY <2>0, <2>1, <3>1, CountedInput DEF OutputsPassed, InputsPassed
    <3>3. QED
      BY <2>1, <3>1, <3>2 DEF WalkInv
  <2>2. CASE part' = "ins" /\ item' = 1 /\ list' = list + 1
    <3>1. /\ list <= Len(tx.ins) /\ item > Len(tx.ins[list])
          /\ IsSortedAndUnique(tx.ins[list]) /\ tx' = tx /\ result' = "none"
      BY <1>4, <2>0, <2>2, <1>0 DEF InputStep, Item, EndOfList, Return
    <3>2. Inside(tx.ins)' /\ OutputsPassed(Len(tx.outs))'
      BY <2>0, <2>2, <3>1, AtNext DEF OutputsPassed
    <3>3. InputsPassed(list)
      BY <2>0, <3>1, WalkedInputs
    <3>4. list' - 1 = list
      BY <2>2, <1>0
    <3>5. InputsPassed(list - 1)'
      BY <3>1, <3>3, <3>4 DEF InputsPassed
    <3>6. QED
      BY <2>2, <3>1, <3>2, <3>5 DEF WalkInv
  <2>3. CASE part' = "done" /\ result' \in {"invalid", "ErrInputsNotSortedUnique"} /\ tx' = tx
    BY <2>0, <2>3 DEF WalkInv, OutputsPassed
  <2>4. QED
    BY <1>4, <2>0, <2>1, <2>2, <2>3 DEF InputStep, Item, EndOfList, Return
<1>5. CASE InputsDone
  <2>1. /\ list > Len(tx.ins) /\ Inside(tx.ins) /\ InputsPassed(list - 1)
        /\ OutputsPassed(Len(tx.outs)) /\ tx' = tx /\ part' = "done"
        /\ result' = "ok" => verdict' = "ok"
        /\ result' \in {"ok", "flow"}
    BY <1>5 DEF InputsDone, Return, WalkInv
  <2>2. list - 1 = Len(tx.ins)
    BY <1>0, <2>1 DEF Inside
  <2>3. InputsPassed(Len(tx.ins))' /\ OutputsPassed(Len(tx.outs))'
    BY <2>1, <2>2 DEF OutputsPassed, InputsPassed
  <2>4. QED
    BY <2>1, <2>3 DEF WalkInv
<1>6. CASE Returned \/ UNCHANGED vars
  <2>1. /\ tx' = tx /\ part' = part /\ list' = list /\ item' = item /\ result' = result
        /\ verdict' = verdict
    BY <1>6 DEF Returned, vars, txVars, flowVars
  <2>2. QED
    BY <2>1 DEF WalkInv, Inside, ItemsValid, OutputsPassed, InputsPassed
<1>7. QED
  BY <1>1, <1>2, <1>3, <1>4, <1>5, <1>6 DEF Next

-----------------------------------------------------------------------------
(* The theorems.                                                           *)

\* TxInv holds when VerifyTx is called.
LEMMA TxInvInit == Init => TxInv
<1> SUFFICES ASSUME Init
             PROVE  TxInv
  OBVIOUS
<1>1. FlowInv
  BY FlowInvInit DEF Init
<1>2. TypeOK
  BY <1>1 DEF Init, TypeOK, FlowInv
<1>3. WalkInv
  BY DEF Init, WalkInv
<1>4. QED
  BY <1>1, <1>2, <1>3 DEF TxInv

\* TxInv is inductive.
LEMMA TxInvAlways == Spec => []TxInv
<1>1. TxInv /\ [Next]_vars => TxInv'
  BY FlowPart, FlowInvStep, TxTypeStep, WalkStep DEF TxInv
<1>2. QED
  BY <1>1, TxInvInit, PTL DEF Spec

\* The variables of VerifyTx keep their types, the word sums their width.
THEOREM TxTypeCorrect == Spec => []TypeOK
<1>1. TxInv => TypeOK
  BY DEF TxInv
<1>2. QED
  BY <1>1, TxInvAlways, PTL

\* What the walk has passed is well formed as a whole.
LEMMA PassedOutputsWellFormed ==
  ASSUME TypeOK, OutputsPassed(Len(tx.outs))
  PROVE  OutputsWellFormed(tx)
<1> SUFFICES ASSUME NEW i \in DOMAIN tx.outs
             PROVE  /\ \A j \in DOMAIN tx.outs[i] : Valid(tx.outs[i][j])
                    /\ Ascending(tx.outs[i], LAMBDA x, y : ~Less(y, x))
  BY DEF OutputsWellFormed
<1>1. i \in 1..Len(tx.outs) /\ tx.outs[i] \in Seq(Output)
  BY TxTypes
<1>2. /\ ItemsValid(tx.outs[i], Len(tx.outs[i]))
      /\ IsSortedTransferableOutputs(tx.outs[i])
  BY <1>1 DEF OutputsPassed
<1>3. \A j \in DOMAIN tx.outs[i] : Valid(tx.outs[i][j])
  BY <1>1, <1>2 DEF ItemsValid
<1>4. Ascending(tx.outs[i], LAMBDA x, y : ~Less(y, x))
  BY <1>1, <1>2, SortedOutputs
<1>5. QED
  BY <1>3, <1>4

\* The same for the inputs.
LEMMA PassedInputsWellFormed ==
  ASSUME TypeOK, InputsPassed(Len(tx.ins))
  PROVE  InputsWellFormed(tx)
<1> SUFFICES ASSUME NEW i \in DOMAIN tx.ins
             PROVE  /\ \A j \in DOMAIN tx.ins[i] : Valid(tx.ins[i][j])
                    /\ Ascending(tx.ins[i], LAMBDA x, y : x.utxo < y.utxo)
  BY DEF InputsWellFormed
<1>1. i \in 1..Len(tx.ins) /\ tx.ins[i] \in Seq(Input)
  BY TxTypes
<1>2. ItemsValid(tx.ins[i], Len(tx.ins[i])) /\ IsSortedAndUnique(tx.ins[i])
  BY <1>1 DEF InputsPassed
<1>3. \A j \in DOMAIN tx.ins[i] : Valid(tx.ins[i][j])
  BY <1>1, <1>2 DEF ItemsValid
<1>4. Ascending(tx.ins[i], LAMBDA x, y : x.utxo < y.utxo)
  BY <1>1, <1>2, SortedInputs
<1>5. QED
  BY <1>3, <1>4

\* A transaction VerifyTx accepts is well formed, and its FlowChecker has seen
\* no asset produced, the fee included, beyond what was consumed.
THEOREM AcceptedIsWellFormed == Spec => [](result = "ok" => WellFormed(tx) /\ verdict = "ok"
                                                         /\ NoInflation)
<1>1. TxInv => (result = "ok" => WellFormed(tx) /\ verdict = "ok" /\ NoInflation)
  BY FlowInvConserves, PassedOutputsWellFormed, PassedInputsWellFormed
  DEF TxInv, WalkInv, WellFormed
<1>2. QED
  BY <1>1, TxInvAlways, PTL

-----------------------------------------------------------------------------
(* An accepted transaction has no other order.                             *)

\* A rearrangement cannot move the places from i on to later ones only, nor the
\* places up to i to earlier ones only.
LEMMA SomeStay ==
  ASSUME NEW n \in Nat, NEW p \in Bijection(1..n, 1..n), NEW i \in 1..n
  PROVE  /\ \E v \in i..n : p[v] <= i
         /\ \E v \in 1..i : p[v] >= i
<1>1. p \in [1..n -> 1..n] /\ \A x, y \in 1..n : p[x] = p[y] => x = y
  BY DEF Bijection, Injection, IsInjective
<1>2. \E v \in i..n : p[v] <= i
  <2> SUFFICES ASSUME \A v \in i..n : p[v] > i PROVE FALSE
    BY <1>1
  <2> DEFINE later == [v \in i..n |-> p[v]]
  <2>1. later \in [i..n -> (i + 1)..n]
    BY <1>1
  <2>2. Cardinality((i + 1)..n) < Cardinality(i..n) /\ IsFiniteSet((i + 1)..n) /\ IsFiniteSet(i..n)
    <3>1. i \in Int /\ n \in Int /\ i + 1 \in Int /\ i <= n
      OBVIOUS
    <3>2. Cardinality(i..n) = n - i + 1 /\ IsFiniteSet(i..n)
      BY <3>1, FS_Interval
    <3>3. /\ Cardinality((i + 1)..n) = IF i + 1 > n THEN 0 ELSE n - (i + 1) + 1
          /\ IsFiniteSet((i + 1)..n)
      BY <3>1, FS_Interval
    <3>4. QED
      BY <3>1, <3>2, <3>3
  <2>3. \E x, y \in i..n : x # y /\ later[x] = later[y]
    <3> HIDE DEF later
    <3> QED
      BY <2>1, <2>2, FS_PigeonHole, Zenon
  <2>4. QED
    BY <1>1, <2>3
<1>3. \E v \in 1..i : p[v] >= i
  <2> SUFFICES ASSUME \A v \in 1..i : p[v] < i PROVE FALSE
    BY <1>1
  <2> DEFINE earlier == [v \in 1..i |-> p[v]]
  <2>1. earlier \in [1..i -> 1..(i - 1)]
    BY <1>1
  <2>2. Cardinality(1..(i - 1)) < Cardinality(1..i) /\ IsFiniteSet(1..(i - 1)) /\ IsFiniteSet(1..i)
    <3>1. i \in Int /\ i - 1 \in Int /\ i >= 1
      OBVIOUS
    <3>2. Cardinality(1..i) = i /\ IsFiniteSet(1..i)
      BY <3>1, FS_Interval
    <3>3. Cardinality(1..(i - 1)) = i - 1 /\ IsFiniteSet(1..(i - 1))
      BY <3>1, FS_Interval
    <3>4. QED
      BY <3>1, <3>2, <3>3
  <2>3. \E x, y \in 1..i : x # y /\ earlier[x] = earlier[y]
    <3> HIDE DEF earlier
    <3> QED
      BY <2>1, <2>2, FS_PigeonHole, Zenon
  <2>4. PICK x, y \in 1..i : x # y /\ p[x] = p[y]
    BY <2>3
  <2>5. x \in 1..n /\ y \in 1..n
    OBVIOUS
  <2>6. QED
    BY <1>1, <2>4, <2>5
<1>4. QED
  BY <1>2, <1>3

\* What is neither before nor after is the same to Less.
LEMMA LessIrreflexive == \A x \in Output : ~Less(x, x)
<1>1. \A x \in Output : x.asset \in Nat /\ x.bytes \in Nat
  BY TxAssumption DEF Output
<1>2. QED
  BY <1>1 DEF Less

LEMMA LessTotal ==
  ASSUME NEW x \in Output, NEW y \in Output, NEW a \in Output, NEW b \in Output,
         ~Less(x, a), ~Less(a, y), ~Less(b, x), ~Less(y, b)
  PROVE  y.asset = x.asset /\ y.bytes = x.bytes
<1>1. \A z \in Output : z.asset \in Nat /\ z.bytes \in Nat
  BY TxAssumption DEF Output
<1>2. QED
  BY <1>1 DEF Less

\* Two sorted arrangements of the same outputs show the same to Less.
LEMMA OutputsCanonical ==
  ASSUME NEW outs \in Seq(Output), IsSortedTransferableOutputs(outs),
         NEW p \in Bijection(DOMAIN outs, DOMAIN outs),
         IsSortedTransferableOutputs(Rearranged(outs, p)),
         NEW i \in DOMAIN outs
  PROVE  outs[p[i]].asset = outs[i].asset /\ outs[p[i]].bytes = outs[i].bytes
<1> DEFINE moved == Rearranged(outs, p)
<1>1. /\ Len(outs) \in Nat /\ DOMAIN outs = 1..Len(outs)
      /\ p \in [1..Len(outs) -> 1..Len(outs)]
  BY DEF Bijection, Injection
<1>2. moved \in Seq(Output) /\ DOMAIN moved = 1..Len(outs)
      /\ \A j \in 1..Len(outs) : moved[j] = outs[p[j]]
  BY <1>1 DEF Rearranged
<1>3. \A j, k \in 1..Len(outs) : j <= k => ~Less(outs[k], outs[j]) \/ j = k
  BY <1>1, SortedOutputs DEF Ascending
<1>4. \A j, k \in 1..Len(outs) : j <= k => ~Less(outs[p[k]], outs[p[j]]) \/ j = k
  <2>1. Ascending(moved, LAMBDA x, y : ~Less(y, x))
    BY <1>2, SortedOutputs
  <2>2. \A j, k \in 1..Len(outs) : j < k => ~Less(moved[k], moved[j])
    BY <1>2, <2>1 DEF Ascending
  <2>3. QED
    BY <1>2, <2>2
<1>5. PICK v \in i..Len(outs) : p[v] <= i
  BY <1>1, SomeStay
<1>6. PICK w \in 1..i : p[w] >= i
  BY <1>1, SomeStay
<1>7. \A j \in 1..Len(outs) : outs[j] \in Output /\ p[j] \in 1..Len(outs)
  BY <1>1
<1>8. v \in 1..Len(outs) /\ w \in 1..Len(outs) /\ i \in 1..Len(outs)
  BY <1>1
<1>9. ~Less(outs[i], outs[p[v]]) \/ p[v] = i
  BY <1>3, <1>5, <1>7, <1>8
<1>10. ~Less(outs[p[v]], outs[p[i]]) \/ v = i
  BY <1>4, <1>5, <1>8
<1>11. ~Less(outs[p[w]], outs[i]) \/ p[w] = i
  BY <1>3, <1>6, <1>7, <1>8
<1>12. ~Less(outs[p[i]], outs[p[w]]) \/ w = i
  BY <1>4, <1>6, <1>8
<1>13. /\ ~Less(outs[i], outs[p[v]]) /\ ~Less(outs[p[v]], outs[p[i]])
       /\ ~Less(outs[p[w]], outs[i]) /\ ~Less(outs[p[i]], outs[p[w]])
  BY <1>7, <1>8, <1>9, <1>10, <1>11, <1>12, LessIrreflexive
<1>14. /\ outs[i] \in Output /\ outs[p[v]] \in Output
       /\ outs[p[i]] \in Output /\ outs[p[w]] \in Output
  BY <1>7, <1>8
<1>15. QED
  BY <1>13, <1>14, LessTotal

\* Inputs have one order.
LEMMA InputsCanonical ==
  ASSUME NEW ins \in Seq(Input), IsSortedAndUnique(ins),
         NEW p \in Bijection(DOMAIN ins, DOMAIN ins),
         IsSortedAndUnique(Rearranged(ins, p))
  PROVE  Rearranged(ins, p) = ins
<1> DEFINE moved == Rearranged(ins, p)
<1>1. /\ Len(ins) \in Nat /\ DOMAIN ins = 1..Len(ins)
      /\ p \in [1..Len(ins) -> 1..Len(ins)]
  BY DEF Bijection, Injection
<1>2. moved \in Seq(Input) /\ DOMAIN moved = 1..Len(ins)
      /\ \A j \in 1..Len(ins) : moved[j] = ins[p[j]]
  BY <1>1 DEF Rearranged
<1>3. \A j, k \in 1..Len(ins) : j < k => ins[j].utxo < ins[k].utxo
  BY <1>1, SortedInputs DEF Ascending
<1>4. \A j, k \in 1..Len(ins) : j < k => ins[p[j]].utxo < ins[p[k]].utxo
  <2>1. Ascending(moved, LAMBDA x, y : x.utxo < y.utxo)
    BY <1>2, SortedInputs
  <2>2. QED
    BY <1>2, <2>1 DEF Ascending
<1>5. \A j \in 1..Len(ins) : ins[j].utxo \in Nat /\ p[j] \in 1..Len(ins)
  <2>1. \A j \in 1..Len(ins) : ins[j] \in Input /\ p[j] \in 1..Len(ins)
    BY <1>1
  <2>2. \A x \in Input : x.utxo \in Nat
    BY DEF Input
  <2>3. QED
    BY <2>1, <2>2
<1>6. ASSUME NEW i \in 1..Len(ins) PROVE p[i] = i
  <2>1. PICK v \in i..Len(ins) : p[v] <= i
    BY <1>1, SomeStay
  <2>2. PICK w \in 1..i : p[w] >= i
    BY <1>1, SomeStay
  <2>3. /\ v \in 1..Len(ins) /\ w \in 1..Len(ins) /\ i \in 1..Len(ins)
        /\ p[i] \in 1..Len(ins) /\ p[v] \in 1..Len(ins) /\ p[w] \in 1..Len(ins)
    BY <1>1, <1>5
  <2>4. /\ p[v] < i => ins[p[v]].utxo < ins[i].utxo
        /\ i < v => ins[p[i]].utxo < ins[p[v]].utxo
        /\ i < p[w] => ins[i].utxo < ins[p[w]].utxo
        /\ w < i => ins[p[w]].utxo < ins[p[i]].utxo
    BY <1>3, <1>4, <2>3
  <2>5. /\ p[v] = i \/ p[v] < i
        /\ v = i \/ i < v
        /\ p[w] = i \/ i < p[w]
        /\ w = i \/ w < i
    BY <2>1, <2>2, <2>3
  <2>6. /\ p[i] < i => ins[p[i]].utxo < ins[i].utxo
        /\ i < p[i] => ins[i].utxo < ins[p[i]].utxo
    BY <1>3, <2>3
  <2>7. /\ ins[p[i]].utxo \in Nat /\ ins[p[v]].utxo \in Nat
        /\ ins[i].utxo \in Nat /\ ins[p[w]].utxo \in Nat
    BY <1>5, <2>3
  <2>8. ~(p[i] < i)
    <3> SUFFICES ASSUME p[i] < i PROVE FALSE
      OBVIOUS
    <3>1. w < i
      BY <2>2, <2>3, <2>5
    <3>2. ins[p[w]].utxo < ins[i].utxo
      BY <2>4, <2>6, <2>7, <3>1
    <3>3. p[w] = i \/ ins[i].utxo < ins[p[w]].utxo
      BY <2>4, <2>5
    <3>4. QED
      BY <2>7, <3>2, <3>3
  <2>9. ~(i < p[i])
    <3> SUFFICES ASSUME i < p[i] PROVE FALSE
      OBVIOUS
    <3>1. i < v
      BY <2>1, <2>3, <2>5
    <3>2. ins[i].utxo < ins[p[v]].utxo
      BY <2>4, <2>6, <2>7, <3>1
    <3>3. p[v] = i \/ ins[p[v]].utxo < ins[i].utxo
      BY <2>4, <2>5
    <3>4. QED
      BY <2>7, <3>2, <3>3
  <2>10. QED
    BY <2>3, <2>8, <2>9
<1>7. QED
  BY <1>1, <1>2, <1>6

\* A transaction VerifyTx accepts has no other order that it accepts, but among
\* outputs that are the same to Less.
THEOREM AcceptedHasOneOrder == Spec => []AcceptedIsCanonical
<1>1. TxInv => AcceptedIsCanonical
  <2> SUFFICES ASSUME TxInv, result = "ok" PROVE AcceptedIsCanonical
    BY DEF AcceptedIsCanonical
  <2>1. TypeOK /\ OutputsPassed(Len(tx.outs)) /\ InputsPassed(Len(tx.ins))
    BY DEF TxInv, WalkInv
  <2>2. ASSUME NEW l \in DOMAIN tx.outs
        PROVE  tx.outs[l] \in Seq(Output) /\ IsSortedTransferableOutputs(tx.outs[l])
    <3>1. l \in 1..Len(tx.outs)
      BY <2>1, TxTypes
    <3>2. QED
      BY <2>1, <3>1, TxTypes DEF OutputsPassed
  <2>3. ASSUME NEW l \in DOMAIN tx.ins
        PROVE  tx.ins[l] \in Seq(Input) /\ IsSortedAndUnique(tx.ins[l])
    <3>1. l \in 1..Len(tx.ins)
      BY <2>1, TxTypes
    <3>2. QED
      BY <2>1, <3>1, TxTypes DEF InputsPassed
  <2>4. QED
    BY <2>2, <2>3, OutputsCanonical, InputsCanonical DEF AcceptedIsCanonical
<1>2. QED
  BY <1>1, TxInvAlways, PTL

-----------------------------------------------------------------------------
(* The totals of the FlowChecker are the sums of what the walk has passed: *)
(* the lists before list l, and the items before item i of that one.       *)

Before(lists, l, i, a) ==
  SumFunctionOnSet(Shares(lists, a), 1..(l - 1))
    + IF l <= Len(lists) THEN SumFunctionOnSet(Share(lists[l], a), 1..(i - 1)) ELSE 0

\* Lists of items with amounts.
Counting(lists) ==
  /\ Len(lists) \in Nat /\ DOMAIN lists = 1..Len(lists)
  /\ \A l \in 1..Len(lists) :
       /\ Len(lists[l]) \in Nat /\ DOMAIN lists[l] = 1..Len(lists[l])
       /\ \A i \in 1..Len(lists[l]) : lists[l][i].amount \in Nat

\* The lists of a transaction are such lists.
LEMMA TxCounting == ASSUME TypeOK PROVE Counting(tx.outs) /\ Counting(tx.ins)
<1>1. Amounts \subseteq Nat
  BY FlowAssumption
<1>2. \A s \in Seq(Output) : /\ Len(s) \in Nat /\ DOMAIN s = 1..Len(s)
                            /\ \A i \in 1..Len(s) : s[i].amount \in Nat
  <2>1. \A x \in Output : x.amount \in Nat
    BY <1>1 DEF Output
  <2>2. \A s \in Seq(Output) : /\ Len(s) \in Nat /\ DOMAIN s = 1..Len(s)
                            /\ \A i \in 1..Len(s) : s[i] \in Output
    OBVIOUS
  <2>3. QED
    BY <2>1, <2>2
<1>3. \A s \in Seq(Input) : /\ Len(s) \in Nat /\ DOMAIN s = 1..Len(s)
                           /\ \A i \in 1..Len(s) : s[i].amount \in Nat
  <2>1. \A x \in Input : x.amount \in Nat
    BY <1>1 DEF Input
  <2>2. \A s \in Seq(Input) : /\ Len(s) \in Nat /\ DOMAIN s = 1..Len(s)
                           /\ \A i \in 1..Len(s) : s[i] \in Input
    OBVIOUS
  <2>3. QED
    BY <2>1, <2>2
<1>4. /\ tx.outs \in Seq(Seq(Output)) /\ tx.ins \in Seq(Seq(Input))
      /\ \A i \in 1..Len(tx.outs) : tx.outs[i] \in Seq(Output)
      /\ \A i \in 1..Len(tx.ins) : tx.ins[i] \in Seq(Input)
  BY TxTypes
<1>5. Counting(tx.outs)
  BY <1>2, <1>4 DEF Counting
<1>6. Counting(tx.ins)
  BY <1>3, <1>4 DEF Counting
<1>7. QED
  BY <1>5, <1>6

\* The sums they have are numbers.
LEMMA ShareOfItem ==
  ASSUME NEW lists, Counting(lists), NEW a,
         NEW l \in 1..Len(lists), NEW i \in 1..Len(lists[l])
  PROVE  /\ Share(lists[l], a)[i] = IF lists[l][i].asset = a THEN lists[l][i].amount ELSE 0
         /\ Share(lists[l], a)[i] \in Nat
  BY DEF Share, Counting

LEMMA ShareOfList ==
  ASSUME NEW lists, Counting(lists), NEW a, NEW l \in 1..Len(lists)
  PROVE  /\ Shares(lists, a)[l] = SumFunctionOnSet(Share(lists[l], a), 1..Len(lists[l]))
         /\ Shares(lists, a)[l] \in Nat
<1>1. \A i \in 1..Len(lists[l]) : Share(lists[l], a)[i] \in Nat
  BY ShareOfItem
<1>2. DOMAIN Share(lists[l], a) = 1..Len(lists[l]) /\ Len(lists[l]) \in Nat
  BY DEF Share, Counting
<1>3. Shares(lists, a)[l] = SumFunctionOnSet(Share(lists[l], a), DOMAIN Share(lists[l], a))
  BY DEF Shares, SumFunction, Counting
<1>4. Shares(lists, a)[l] = SumFunctionOnSet(Share(lists[l], a), 1..Len(lists[l]))
  BY <1>2, <1>3, Zenon
<1>5. SumFunctionOnSet(Share(lists[l], a), 1..Len(lists[l])) \in Nat
  BY <1>1, <1>2, SumOfPrefix
<1>6. QED
  BY <1>4, <1>5

LEMMA ShareOfAll ==
  ASSUME NEW lists, Counting(lists), NEW a
  PROVE  Sum(lists, a) = SumFunctionOnSet(Shares(lists, a), 1..Len(lists))
<1>1. DOMAIN Shares(lists, a) = 1..Len(lists)
  BY DEF Shares, Counting
<1>2. QED
  BY <1>1, Zenon DEF Sum, SumFunction

\* Nothing is before the first item.
LEMMA BeforeFirst ==
  ASSUME NEW lists, Counting(lists), NEW a
  PROVE  Before(lists, 1, 1, a) = 0
<1>1. 1 - 1 = 0 /\ \A w : SumFunctionOnSet(w, 1..0) = 0
  BY SumOfPrefix
<1>2. QED
  BY <1>1 DEF Before

\* An item more.
LEMMA BeforeItem ==
  ASSUME NEW lists, Counting(lists), NEW a,
         NEW l \in 1..Len(lists), NEW i \in 1..Len(lists[l])
  PROVE  /\ Before(lists, l, i, a) \in Nat
         /\ Before(lists, l, i + 1, a)
              = Before(lists, l, i, a) + IF lists[l][i].asset = a THEN lists[l][i].amount ELSE 0
<1>1. Len(lists) \in Nat /\ Len(lists[l]) \in Nat
  BY DEF Counting
<1>2. \A k \in 1..(l - 1) : Shares(lists, a)[k] \in Nat
  BY <1>1, ShareOfList
<1>3. SumFunctionOnSet(Shares(lists, a), 1..(l - 1)) \in Nat
  BY <1>1, <1>2, SumOfPrefix
<1>4. /\ \A k \in 1..i : Share(lists[l], a)[k] \in Nat
      /\ Share(lists[l], a)[i] = IF lists[l][i].asset = a THEN lists[l][i].amount ELSE 0
  <2>1. ASSUME NEW k \in 1..Len(lists[l])
        PROVE  /\ Share(lists[l], a)[k] = IF lists[l][k].asset = a THEN lists[l][k].amount ELSE 0
               /\ Share(lists[l], a)[k] \in Nat
    BY ShareOfItem
  <2>2. \A k \in 1..i : k \in 1..Len(lists[l])
    BY <1>1
  <2>3. QED
    BY <2>1, <2>2
<1>5. /\ SumFunctionOnSet(Share(lists[l], a), 1..(i - 1)) \in Nat
      /\ SumFunctionOnSet(Share(lists[l], a), 1..i)
           = SumFunctionOnSet(Share(lists[l], a), 1..(i - 1)) + Share(lists[l], a)[i]
  <2>1. i \in Nat /\ i > 0 /\ i - 1 \in Nat
    BY <1>1
  <2>2. \A k \in 1..(i - 1) : Share(lists[l], a)[k] \in Nat
    BY <1>4, <2>1
  <2>3. QED
    BY <1>4, <2>1, <2>2, SumOfPrefix
<1>6. l <= Len(lists) /\ i + 1 - 1 = i
  BY <1>1
<1>7. QED
  BY <1>3, <1>4, <1>5, <1>6 DEF Before

\* The end of a list is the beginning of the next.
LEMMA BeforeList ==
  ASSUME NEW lists, Counting(lists), NEW a, NEW l \in 1..Len(lists)
  PROVE  Before(lists, l + 1, 1, a) = Before(lists, l, Len(lists[l]) + 1, a)
<1>1. Len(lists) \in Nat /\ Len(lists[l]) \in Nat
  BY DEF Counting
<1>2. \A k \in 1..l : Shares(lists, a)[k] \in Nat
  BY <1>1, ShareOfList
<1>3. SumFunctionOnSet(Shares(lists, a), 1..l)
        = SumFunctionOnSet(Shares(lists, a), 1..(l - 1)) + Shares(lists, a)[l]
  BY <1>1, <1>2, SumOfPrefix
<1>4. Shares(lists, a)[l] = SumFunctionOnSet(Share(lists[l], a), 1..Len(lists[l]))
  BY ShareOfList
<1>5. \A w : SumFunctionOnSet(w, 1..0) = 0
  BY SumOfPrefix
<1>6. l + 1 - 1 = l /\ Len(lists[l]) + 1 - 1 = Len(lists[l]) /\ 1 - 1 = 0 /\ l <= Len(lists)
  BY <1>1
<1>7. SumFunctionOnSet(Shares(lists, a), 1..l) \in Nat
  BY <1>1, <1>2, SumOfPrefix
<1>8. Before(lists, l + 1, 1, a) = SumFunctionOnSet(Shares(lists, a), 1..l)
  BY <1>5, <1>6, <1>7 DEF Before
<1>9. Before(lists, l, Len(lists[l]) + 1, a)
        = SumFunctionOnSet(Shares(lists, a), 1..(l - 1))
            + SumFunctionOnSet(Share(lists[l], a), 1..Len(lists[l]))
  BY <1>6 DEF Before
<1>10. QED
  BY <1>3, <1>4, <1>8, <1>9

\* The end of the last list is the end of all.
LEMMA BeforeEnd ==
  ASSUME NEW lists, Counting(lists), NEW a
  PROVE  Before(lists, Len(lists) + 1, 1, a) = Sum(lists, a) /\ Sum(lists, a) \in Nat
<1>1. Len(lists) \in Nat
  BY DEF Counting
<1>2. \A k \in 1..Len(lists) : Shares(lists, a)[k] \in Nat
  BY ShareOfList
<1>3. SumFunctionOnSet(Shares(lists, a), 1..Len(lists)) \in Nat
  BY <1>1, <1>2, SumOfPrefix
<1>4. Sum(lists, a) = SumFunctionOnSet(Shares(lists, a), 1..Len(lists))
  BY ShareOfAll
<1>5. Len(lists) + 1 - 1 = Len(lists) /\ ~(Len(lists) + 1 <= Len(lists))
  BY <1>1
<1>6. QED
  BY <1>3, <1>4, <1>5 DEF Before

-----------------------------------------------------------------------------
(* Why a verdict is right: the totals are those of the transaction when    *)
(* they are compared, an overflow shows in a total that does not fit a     *)
(* word, and whatever is returned before has its cause in an item or list. *)

TotalsAre(outs(_), ins(_)) ==
  \A a \in Asset : totalOut[a] = outs(a) /\ totalIn[a] = ins(a)

SumInv ==
  /\ part = "fee" => TotalsAre(LAMBDA a : 0, LAMBDA a : 0)
  /\ part = "outs" => TotalsAre(LAMBDA a : Fee(tx, a) + Before(tx.outs, list, item, a),
                               LAMBDA a : 0)
  /\ part = "ins" => TotalsAre(LAMBDA a : Fee(tx, a) + Sum(tx.outs, a),
                              LAMBDA a : Before(tx.ins, list, item, a))
  /\ result \in {"ok", "flow"} => TotalsAre(LAMBDA a : Fee(tx, a) + Sum(tx.outs, a),
                                           LAMBDA a : Sum(tx.ins, a))

\* A total that does not fit a word.
TooMuch == \E a \in Asset : totalIn[a] > MaxAmount \/ totalOut[a] > MaxAmount

CauseInv ==
  /\ "overflow" \in errs => TooMuch
  /\ "insufficient" \in errs => part = "done" /\ errs = {"insufficient"} /\ Insufficient
  /\ result = "flow" => errs # {}
  /\ result = "invalid" => ~WellFormed(tx)
  /\ result = "ErrOutputsNotSorted" => ~OutputsWellFormed(tx)
  /\ result = "ErrInputsNotSortedUnique" => ~InputsWellFormed(tx)

\* What is compared are numbers.
LEMMA FeeIsNumber == ASSUME TypeOK PROVE tx.fee \in Nat
<1>1. tx.fee \in Amounts
  BY TxTypes
<1>2. Amounts \subseteq Nat
  BY FlowAssumption
<1>3. QED
  BY <1>1, <1>2

LEMMA SumsAreNumbers ==
  ASSUME TypeOK, NEW a
  PROVE  Sum(tx.outs, a) \in Nat /\ Sum(tx.ins, a) \in Nat /\ Fee(tx, a) \in Nat
  BY TxCounting, BeforeEnd, FeeIsNumber DEF Fee

\* The sums of a transaction that the FlowChecker has seen whole are its totals.
LEMMA AcceptedSound ==
  ASSUME TxInv, SumInv, CauseInv, result = "ok"
  PROVE  WellFormed(tx) /\ Balanced(tx) /\ Representable(tx)
<1>1. /\ TypeOK /\ FlowInv /\ NoInflation /\ verdict = "ok" /\ errs = {}
      /\ WellFormed(tx)
  BY FlowInvConserves, PassedOutputsWellFormed, PassedInputsWellFormed
  DEF TxInv, WalkInv, WellFormed, FlowInv
<1>2. ASSUME NEW a \in Asset
      PROVE  /\ Sum(tx.outs, a) + Fee(tx, a) <= Sum(tx.ins, a)
             /\ Sum(tx.outs, a) + Fee(tx, a) <= MaxAmount /\ Sum(tx.ins, a) <= MaxAmount
  <2>1. totalOut[a] = Fee(tx, a) + Sum(tx.outs, a) /\ totalIn[a] = Sum(tx.ins, a)
    BY DEF SumInv, TotalsAre
  <2>2. totalOut[a] \in 0..MaxAmount /\ totalIn[a] \in 0..MaxAmount /\ totalOut[a] <= totalIn[a]
    BY <1>1 DEF FlowInv, WordsExact, NoInflation, FlowTypeOK
  <2>3. Sum(tx.outs, a) \in Nat /\ Sum(tx.ins, a) \in Nat /\ Fee(tx, a) \in Nat
    BY <1>1, SumsAreNumbers
  <2>4. QED
    BY <2>1, <2>2, <2>3, FlowAssumption
<1>3. QED
  BY <1>1, <1>2 DEF Balanced, Representable

LEMMA RejectedFaulty ==
  ASSUME TxInv, SumInv, CauseInv, result \in Rejections
  PROVE  ~(WellFormed(tx) /\ Balanced(tx) /\ Representable(tx))
<1>1. CASE result # "flow"
  BY <1>1 DEF CauseInv, WellFormed, Rejections
<1>2. CASE result = "flow"
  <2>1. TypeOK /\ FlowInv /\ FlowTypeOK
    BY DEF TxInv, FlowInv
  <2>2. ASSUME NEW a \in Asset
        PROVE  /\ totalOut[a] = Sum(tx.outs, a) + Fee(tx, a) /\ totalIn[a] = Sum(tx.ins, a)
               /\ totalOut[a] \in Nat /\ totalIn[a] \in Nat
    <3>1. totalOut[a] = Fee(tx, a) + Sum(tx.outs, a) /\ totalIn[a] = Sum(tx.ins, a)
      BY <1>2 DEF SumInv, TotalsAre
    <3>2. Sum(tx.outs, a) \in Nat /\ Sum(tx.ins, a) \in Nat /\ Fee(tx, a) \in Nat
      BY <2>1, SumsAreNumbers
    <3>3. QED
      BY <3>1, <3>2
  <2>3. CASE "overflow" \in errs
    <3>1. PICK a \in Asset : totalIn[a] > MaxAmount \/ totalOut[a] > MaxAmount
      BY <2>3 DEF CauseInv, TooMuch
    <3>2. ~Representable(tx)
      BY <2>2, <3>1, FlowAssumption DEF Representable
    <3>3. QED
      BY <3>2
  <2>4. CASE "overflow" \notin errs
    <3>1. Insufficient /\ consumed = totalIn /\ produced = totalOut
      BY <1>2, <2>1, <2>4 DEF CauseInv, FlowInv, WordsExact, FlowTypeOK
    <3>2. PICK a \in Asset : totalOut[a] > totalIn[a]
      BY <3>1 DEF Insufficient
    <3>3. ~Balanced(tx)
      BY <2>2, <3>2 DEF Balanced
    <3>4. QED
      BY <3>3
  <2>5. QED
    BY <2>3, <2>4
<1>3. QED
  BY <1>1, <1>2

\* The sums are those of what has been passed, step after step.
LEMMA SumStep == TxInv /\ SumInv /\ [Next]_vars => SumInv'
<1> SUFFICES ASSUME TypeOK, WalkInv, SumInv, [Next]_vars
             PROVE  SumInv'
  BY DEF TxInv
<1> USE DEF TotalsAre
<1>0. /\ list \in Nat \ {0} /\ item \in Nat \ {0} /\ tx.fee \in Nat
      /\ Len(tx.outs) \in Nat /\ \A i \in 1..Len(tx.outs) : Len(tx.outs[i]) \in Nat
      /\ Len(tx.ins) \in Nat /\ \A i \in 1..Len(tx.ins) : Len(tx.ins[i]) \in Nat
      /\ FeeAsset \in Asset /\ totalIn \in [Asset -> Nat] /\ totalOut \in [Asset -> Nat]
      /\ Counting(tx.outs) /\ Counting(tx.ins)
      /\ part # "done" => result = "none"
  <2>1. tx.fee \in Nat /\ Counting(tx.outs) /\ Counting(tx.ins)
    BY TxCounting, FeeIsNumber
  <2>2. /\ FeeAsset \in Asset /\ totalIn \in [Asset -> Nat] /\ totalOut \in [Asset -> Nat]
        /\ part # "done" => result = "none"
    BY TxAssumption DEF WalkInv, TypeOK, FlowTypeOK
  <2>3. QED
    BY <2>1, <2>2, Lengths, TxTypes
<1>1. CASE BurnFee
  <2>1. /\ part = "fee" /\ part' = "outs" /\ list' = 1 /\ item' = 1 /\ tx' = tx
        /\ result' = "none" /\ totalIn' = totalIn
        /\ totalOut' = [totalOut EXCEPT ![FeeAsset] = @ + tx.fee]
    BY <1>1 DEF BurnFee, Produce, WalkInv
  <2>2. ASSUME NEW a \in Asset
        PROVE  totalOut'[a] = Fee(tx, a) + Before(tx.outs, 1, 1, a) /\ totalIn'[a] = 0
    <3>1. Before(tx.outs, 1, 1, a) = 0 /\ totalOut[a] = 0 /\ totalIn[a] = 0
      BY <1>0, <2>1, BeforeFirst DEF SumInv
    <3>2. QED
      BY <1>0, <2>1, <3>1 DEF Fee
  <2>3. QED
    BY <2>1, <2>2 DEF SumInv
<1>2. CASE OutputStep
  <2>0. /\ part = "outs" /\ result = "none" /\ Inside(tx.outs)
        /\ \A a \in Asset : /\ totalOut[a] = Fee(tx, a) + Before(tx.outs, list, item, a)
                            /\ totalIn[a] = 0
    BY <1>2 DEF OutputStep, WalkInv, SumInv
  <2>1. CASE /\ list <= Len(tx.outs) /\ item <= Len(tx.outs[list])
             /\ Produce(tx.outs[list][item].asset, tx.outs[list][item].amount)
             /\ item' = item + 1 /\ UNCHANGED <<tx, part, list, result>>
    <3>1. /\ tx.outs[list][item].asset \in Asset /\ tx.outs[list][item].amount \in Nat
          /\ list \in 1..Len(tx.outs) /\ item \in 1..Len(tx.outs[list])
      BY <1>0, <2>1, NextOutput DEF Counting
    <3>2. ASSUME NEW a \in Asset
          PROVE  totalOut'[a] = Fee(tx, a) + Before(tx.outs, list, item + 1, a)
                 /\ totalIn'[a] = 0
      <4>1. /\ Before(tx.outs, list, item + 1, a)
                 = Before(tx.outs, list, item, a)
                     + IF tx.outs[list][item].asset = a THEN tx.outs[list][item].amount ELSE 0
            /\ Before(tx.outs, list, item, a) \in Nat /\ Fee(tx, a) \in Nat
        BY <1>0, <3>1, BeforeItem DEF Fee
      <4>2. /\ totalOut' = [totalOut EXCEPT ![tx.outs[list][item].asset] =
                                @ + tx.outs[list][item].amount]
            /\ totalIn' = totalIn
        BY <2>1 DEF Produce
      <4>3. /\ totalOut'[a] = totalOut[a]
                 + IF tx.outs[list][item].asset = a THEN tx.outs[list][item].amount ELSE 0
            /\ totalIn'[a] = 0
        BY <1>0, <2>0, <3>1, <4>2
      <4>4. QED
        BY <2>0, <3>1, <4>1, <4>3
    <3>3. QED
      BY <2>0, <2>1, <3>2 DEF SumInv
  <2>2. CASE /\ list <= Len(tx.outs) /\ item > Len(tx.outs[list])
             /\ list' = list + 1 /\ item' = 1 /\ UNCHANGED <<tx, part, result, flowVars>>
    <3>1. list \in 1..Len(tx.outs) /\ item = Len(tx.outs[list]) + 1
      BY <1>0, <2>0, <2>2 DEF Inside
    <3>2. \A a \in Asset : Before(tx.outs, list + 1, 1, a) = Before(tx.outs, list, item, a)
      BY <1>0, <3>1, BeforeList
    <3>3. QED
      BY <2>0, <2>2, <3>2 DEF SumInv, flowVars
  <2>3. CASE part' = "done" /\ result' \in {"invalid", "ErrOutputsNotSorted"}
    BY <2>3 DEF SumInv
  <2>4. QED
    BY <1>2, <2>1, <2>2, <2>3 DEF OutputStep, Item, EndOfList, Return
<1>3. CASE OutputsDone
  <2>1. /\ part = "outs" /\ list > Len(tx.outs) /\ Inside(tx.outs)
        /\ part' = "ins" /\ list' = 1 /\ item' = 1 /\ tx' = tx /\ result' = "none"
        /\ totalIn' = totalIn /\ totalOut' = totalOut
    BY <1>3 DEF OutputsDone, WalkInv, flowVars
  <2>2. list = Len(tx.outs) + 1 /\ item = 1
    BY <1>0, <2>1 DEF Inside
  <2>3. \A a \in Asset : /\ Before(tx.outs, list, item, a) = Sum(tx.outs, a)
                        /\ Before(tx.ins, 1, 1, a) = 0
    BY <1>0, <2>2, BeforeEnd, BeforeFirst
  <2>4. QED
    BY <2>1, <2>3 DEF SumInv
<1>4. CASE InputStep
  <2>0. /\ part = "ins" /\ result = "none" /\ Inside(tx.ins)
        /\ \A a \in Asset : /\ totalOut[a] = Fee(tx, a) + Sum(tx.outs, a)
                            /\ totalIn[a] = Before(tx.ins, list, item, a)
    BY <1>4 DEF InputStep, WalkInv, SumInv
  <2>1. CASE /\ list <= Len(tx.ins) /\ item <= Len(tx.ins[list])
             /\ Consume(tx.ins[list][item].asset, tx.ins[list][item].amount)
             /\ item' = item + 1 /\ UNCHANGED <<tx, part, list, result>>
    <3>1. /\ tx.ins[list][item].asset \in Asset /\ tx.ins[list][item].amount \in Nat
          /\ list \in 1..Len(tx.ins) /\ item \in 1..Len(tx.ins[list])
      BY <1>0, <2>1, NextInput DEF Counting
    <3>2. ASSUME NEW a \in Asset
          PROVE  totalIn'[a] = Before(tx.ins, list, item + 1, a) /\ totalOut'[a] = totalOut[a]
      <4>1. /\ Before(tx.ins, list, item + 1, a)
                 = Before(tx.ins, list, item, a)
                     + IF tx.ins[list][item].asset = a THEN tx.ins[list][item].amount ELSE 0
            /\ Before(tx.ins, list, item, a) \in Nat
        BY <1>0, <3>1, BeforeItem
      <4>2. QED
        BY <1>0, <2>0, <2>1, <3>1, <4>1 DEF Consume
    <3>3. QED
      BY <2>0, <2>1, <3>2 DEF SumInv
  <2>2. CASE /\ list <= Len(tx.ins) /\ item > Len(tx.ins[list])
             /\ list' = list + 1 /\ item' = 1 /\ UNCHANGED <<tx, part, result, flowVars>>
    <3>1. list \in 1..Len(tx.ins) /\ item = Len(tx.ins[list]) + 1
      BY <1>0, <2>0, <2>2 DEF Inside
    <3>2. \A a \in Asset : Before(tx.ins, list + 1, 1, a) = Before(tx.ins, list, item, a)
      BY <1>0, <3>1, BeforeList
    <3>3. QED
      BY <2>0, <2>2, <3>2 DEF SumInv, flowVars
  <2>3. CASE part' = "done" /\ result' \in {"invalid", "ErrInputsNotSortedUnique"}
    BY <2>3 DEF SumInv
  <2>4. QED
    BY <1>4, <2>1, <2>2, <2>3 DEF InputStep, Item, EndOfList, Return
<1>5. CASE InputsDone
  <2>1. /\ part = "ins" /\ list > Len(tx.ins) /\ Inside(tx.ins) /\ tx' = tx
        /\ part' = "done" /\ totalIn' = totalIn /\ totalOut' = totalOut
    BY <1>5 DEF InputsDone, Return, Verify, WalkInv
  <2>2. list = Len(tx.ins) + 1 /\ item = 1
    BY <1>0, <2>1 DEF Inside
  <2>3. \A a \in Asset : Before(tx.ins, list, item, a) = Sum(tx.ins, a)
    BY <1>0, <2>2, BeforeEnd
  <2>4. QED
    BY <2>1, <2>3 DEF SumInv
<1>6. CASE Returned \/ UNCHANGED vars
  <2>1. /\ tx' = tx /\ part' = part /\ list' = list /\ item' = item /\ result' = result
        /\ totalIn' = totalIn /\ totalOut' = totalOut
    BY <1>6 DEF Returned, vars, txVars, flowVars
  <2>2. QED
    BY <2>1 DEF SumInv
<1>7. QED
  BY <1>1, <1>2, <1>3, <1>4, <1>5, <1>6 DEF Next

-----------------------------------------------------------------------------
\* An item or a list that fails its check makes the transaction malformed.
LEMMA FaultyOutput ==
  ASSUME TypeOK, NEW l \in 1..Len(tx.outs)
  PROVE  /\ \A i \in 1..Len(tx.outs[l]) : ~Valid(tx.outs[l][i]) => ~OutputsWellFormed(tx)
         /\ ~IsSortedTransferableOutputs(tx.outs[l]) => ~OutputsWellFormed(tx)
<1>1. /\ l \in DOMAIN tx.outs /\ DOMAIN tx.outs[l] = 1..Len(tx.outs[l])
      /\ Len(tx.outs[l]) \in Nat
  BY TxCounting DEF Counting
<1>2. ASSUME NEW i \in 2..Len(tx.outs[l]), Less(tx.outs[l][i], tx.outs[l][i - 1])
      PROVE  ~Ascending(tx.outs[l], LAMBDA x, y : ~Less(y, x))
  BY <1>1, <1>2 DEF Ascending
<1>3. QED
  BY <1>1, <1>2 DEF OutputsWellFormed, IsSortedTransferableOutputs

LEMMA FaultyInput ==
  ASSUME TypeOK, NEW l \in 1..Len(tx.ins)
  PROVE  /\ \A i \in 1..Len(tx.ins[l]) : ~Valid(tx.ins[l][i]) => ~InputsWellFormed(tx)
         /\ ~IsSortedAndUnique(tx.ins[l]) => ~InputsWellFormed(tx)
<1>1. /\ l \in DOMAIN tx.ins /\ DOMAIN tx.ins[l] = 1..Len(tx.ins[l])
      /\ Len(tx.ins[l]) \in Nat
  BY TxCounting DEF Counting
<1>2. ASSUME NEW i \in 2..Len(tx.ins[l]), ~(tx.ins[l][i - 1].utxo < tx.ins[l][i].utxo)
      PROVE  ~Ascending(tx.ins[l], LAMBDA x, y : x.utxo < y.utxo)
  BY <1>1, <1>2 DEF Ascending
<1>3. QED
  BY <1>1, <1>2 DEF InputsWellFormed, IsSortedAndUnique

\* An addition collects an error only when the total becomes too much.
LEMMA OverflowShows ==
  ASSUME FlowInv, "overflow" \in errs => TooMuch, NEW a \in Asset, NEW amount \in Amounts,
         Consume(a, amount) \/ Produce(a, amount)
  PROVE  /\ "overflow" \in errs' => TooMuch'
         /\ errs' \subseteq errs \cup {"overflow"}
<1>0. /\ totalIn \in [Asset -> Nat] /\ totalOut \in [Asset -> Nat] /\ amount \in Nat
      /\ consumed \in [Asset -> 0..MaxAmount] /\ produced \in [Asset -> 0..MaxAmount]
      /\ MaxAmount \in Nat
  BY FlowAssumption DEF FlowInv, FlowTypeOK
<1>1. errs' \subseteq errs \cup {"overflow"}
  BY DEF Consume, Produce, Collect
<1>2. CASE "overflow" \in errs
  <2>1. PICK b \in Asset : totalIn[b] > MaxAmount \/ totalOut[b] > MaxAmount
    BY <1>2 DEF TooMuch
  <2>2. totalIn'[b] >= totalIn[b] /\ totalOut'[b] >= totalOut[b]
    BY <1>0 DEF Consume, Produce
  <2>3. totalIn'[b] \in Nat /\ totalOut'[b] \in Nat
    BY <1>0 DEF Consume, Produce
  <2>4. QED
    BY <1>0, <1>1, <2>1, <2>2, <2>3 DEF TooMuch
<1>3. CASE "overflow" \notin errs
  <2>1. consumed = totalIn /\ produced = totalOut
    BY <1>3 DEF FlowInv, WordsExact
  <2>2. ASSUME "overflow" \in errs'
        PROVE  \/ Consume(a, amount) /\ totalIn[a] + amount > MaxAmount
               \/ Produce(a, amount) /\ totalOut[a] + amount > MaxAmount
    BY <1>3, <2>1, <2>2 DEF Consume, Produce, Collect, Overflows
  <2>3. "overflow" \in errs' => totalIn'[a] > MaxAmount \/ totalOut'[a] > MaxAmount
    BY <1>0, <2>2 DEF Consume, Produce
  <2>4. QED
    BY <1>1, <2>3 DEF TooMuch
<1>4. QED
  BY <1>2, <1>3

\* Every step keeps the causes of what was returned.
LEMMA CauseStep == TxInv /\ CauseInv /\ [Next]_vars => CauseInv'
<1> SUFFICES ASSUME TypeOK, FlowInv, WalkInv, CauseInv, [Next]_vars
             PROVE  CauseInv'
  BY DEF TxInv
<1>0. /\ list \in Nat \ {0} /\ item \in Nat \ {0}
      /\ Len(tx.outs) \in Nat /\ Len(tx.ins) \in Nat
      /\ \A l \in 1..Len(tx.outs) : Len(tx.outs[l]) \in Nat
      /\ \A l \in 1..Len(tx.ins) : Len(tx.ins[l]) \in Nat
      /\ part # "done" => result = "none" /\ "insufficient" \notin errs
      /\ errs \subseteq {"overflow", "insufficient"}
  BY TxTypes, Lengths DEF WalkInv, CauseInv, TypeOK, FlowTypeOK
<1>1. CASE BurnFee
  <2>1. /\ part = "fee" /\ part' = "outs" /\ result' = "none" /\ Produce(FeeAsset, tx.fee)
    BY <1>0, <1>1 DEF BurnFee
  <2>2. ("overflow" \in errs' => TooMuch') /\ errs' \subseteq errs \cup {"overflow"}
    BY <2>1, OverflowShows, TxTypes, TxAssumption DEF CauseInv
  <2>3. QED
    BY <1>0, <2>1, <2>2 DEF CauseInv
<1>2. CASE OutputStep
  <2>0. part = "outs" /\ result = "none" /\ "insufficient" \notin errs
    BY <1>0, <1>2 DEF OutputStep
  <2>1. CASE /\ list <= Len(tx.outs) /\ item <= Len(tx.outs[list])
             /\ Produce(tx.outs[list][item].asset, tx.outs[list][item].amount)
             /\ UNCHANGED <<tx, part, list, result>>
    <3>1. tx.outs[list][item].asset \in Asset /\ tx.outs[list][item].amount \in Amounts
      BY <2>1, NextOutput
    <3>2. ("overflow" \in errs' => TooMuch') /\ errs' \subseteq errs \cup {"overflow"}
      BY <2>1, <3>1, OverflowShows DEF CauseInv
    <3>3. QED
      BY <2>0, <2>1, <3>2 DEF CauseInv
  <2>2. CASE UNCHANGED <<tx, part, result, flowVars>>
    BY <2>0, <2>2 DEF CauseInv, flowVars, TooMuch, Insufficient
  <2>3. CASE /\ list <= Len(tx.outs) /\ item <= Len(tx.outs[list])
             /\ ~Valid(tx.outs[list][item])
             /\ result' = "invalid" /\ UNCHANGED <<tx, flowVars>>
    <3>1. ~OutputsWellFormed(tx')
      BY <1>0, <2>3, FaultyOutput
    <3>2. QED
      BY <2>0, <2>3, <3>1 DEF CauseInv, flowVars, TooMuch, WellFormed
  <2>4. CASE /\ list <= Len(tx.outs) /\ ~IsSortedTransferableOutputs(tx.outs[list])
             /\ result' = "ErrOutputsNotSorted" /\ UNCHANGED <<tx, flowVars>>
    <3>1. ~OutputsWellFormed(tx')
      BY <1>0, <2>4, FaultyOutput
    <3>2. QED
      BY <2>0, <2>4, <3>1 DEF CauseInv, flowVars, TooMuch
  <2>5. QED
    BY <1>2, <2>1, <2>2, <2>3, <2>4 DEF OutputStep, Item, EndOfList, Return
<1>3. CASE InputStep
  <2>0. part = "ins" /\ result = "none" /\ "insufficient" \notin errs
    BY <1>0, <1>3 DEF InputStep
  <2>1. CASE /\ list <= Len(tx.ins) /\ item <= Len(tx.ins[list])
             /\ Consume(tx.ins[list][item].asset, tx.ins[list][item].amount)
             /\ UNCHANGED <<tx, part, list, result>>
    <3>1. tx.ins[list][item].asset \in Asset /\ tx.ins[list][item].amount \in Amounts
      BY <2>1, NextInput
    <3>2. ("overflow" \in errs' => TooMuch') /\ errs' \subseteq errs \cup {"overflow"}
      BY <2>1, <3>1, OverflowShows DEF CauseInv
    <3>3. QED
      BY <2>0, <2>1, <3>2 DEF CauseInv
  <2>2. CASE UNCHANGED <<tx, part, result, flowVars>>
    BY <2>0, <2>2 DEF CauseInv, flowVars, TooMuch, Insufficient
  <2>3. CASE /\ list <= Len(tx.ins) /\ item <= Len(tx.ins[list])
             /\ ~Valid(tx.ins[list][item])
             /\ result' = "invalid" /\ UNCHANGED <<tx, flowVars>>
    <3>1. ~InputsWellFormed(tx')
      BY <1>0, <2>3, FaultyInput
    <3>2. QED
      BY <2>0, <2>3, <3>1 DEF CauseInv, flowVars, TooMuch, WellFormed
  <2>4. CASE /\ list <= Len(tx.ins) /\ ~IsSortedAndUnique(tx.ins[list])
             /\ result' = "ErrInputsNotSortedUnique" /\ UNCHANGED <<tx, flowVars>>
    <3>1. ~InputsWellFormed(tx')
      BY <1>0, <2>4, FaultyInput
    <3>2. QED
      BY <2>0, <2>4, <3>1 DEF CauseInv, flowVars, TooMuch
  <2>5. QED
    BY <1>3, <2>1, <2>2, <2>3, <2>4 DEF InputStep, Item, EndOfList, Return
<1>4. CASE InputsDone
  <2>1. /\ part = "ins" /\ part' = "done" /\ Verify /\ tx' = tx
        /\ result' = IF verdict' = "ok" THEN "ok" ELSE "flow"
    BY <1>4 DEF InputsDone, Return
  <2>2. /\ TooMuch' = TooMuch /\ Insufficient' = Insufficient
        /\ \/ errs' = errs
           \/ errs' = {"insufficient"} /\ Insufficient
        /\ result' = "flow" => errs' # {}
    BY <2>1 DEF Verify, TooMuch, Insufficient
  <2>3. QED
    BY <1>0, <2>1, <2>2 DEF CauseInv
<1>5. CASE OutputsDone \/ Returned \/ UNCHANGED vars
  <2>1. /\ tx' = tx /\ result' = result /\ UNCHANGED flowVars
        /\ part' = part \/ (part = "outs" /\ part' = "ins")
    BY <1>5 DEF OutputsDone, Returned, vars, txVars
  <2>2. TooMuch' = TooMuch /\ Insufficient' = Insufficient /\ errs' = errs
    BY <2>1 DEF flowVars, TooMuch, Insufficient
  <2>3. QED
    BY <1>0, <2>1, <2>2 DEF CauseInv
<1>6. QED
  BY <1>1, <1>2, <1>3, <1>4, <1>5 DEF Next

\* The totals and the causes, at any time.
LEMMA VerdictInvAlways == Spec => [](TxInv /\ SumInv /\ CauseInv)
<1>1. Init => SumInv /\ CauseInv
  BY DEF Init, NewFlowChecker, SumInv, TotalsAre, CauseInv, Rejections
<1>2. TxInv /\ TxInv' /\ SumInv /\ CauseInv /\ [Next]_vars => SumInv' /\ CauseInv'
  BY SumStep, CauseStep
<1>3. QED
  BY <1>1, <1>2, TxInvAlways, PTL DEF Spec

\* A transaction that VerifyTx accepts is well formed, balanced with its fee in
\* true numbers, and none of its sums overflows.
THEOREM AcceptedTxIsSound == Spec => []AcceptedIsSound
<1>1. TxInv /\ SumInv /\ CauseInv => AcceptedIsSound
  BY AcceptedSound DEF AcceptedIsSound
<1>2. QED
  BY <1>1, VerdictInvAlways, PTL

\* A transaction that VerifyTx rejects deserves it.
THEOREM RejectedTxIsFaulty == Spec => []RejectedIsFaulty
<1>1. TxInv /\ SumInv /\ CauseInv => RejectedIsFaulty
  BY RejectedFaulty DEF RejectedIsFaulty
<1>2. QED
  BY <1>1, VerdictInvAlways, PTL

-----------------------------------------------------------------------------
(***************************************************************************)
(* Secp256k1Fx, which a VM asks about the credentials of a transaction     *)
(* when VerifyTx has accepted it: for any keys, calls and times.           *)
(***************************************************************************)

(***************************************************************************)
(* Accepts, without what changes: the clock and bootstrapping.             *)
(***************************************************************************)

WellFormedCall(c) ==
  /\ c.kind = "transfer" =>
       /\ ValidTransferOutput([amt |-> c.amt, owners |-> c.owners])
       /\ ValidTransferInput(c.inAmt, c.in)
       /\ c.amt = c.inAmt
  /\ c.kind = "operation" =>
       ValidMintOperation(c) /\ ValidOwners(c.owners) /\ Equals(c.owners, c.mint)
  /\ c.kind = "permission" => ValidInput(c.in) /\ ValidOwners(c.owners)
  /\ c.owners.threshold = Len(c.in)
  /\ Len(c.in) = Len(c.sigs)

\* The parts of a call.
LEMMA CallParts ==
  ASSUME NEW c \in Calls
  PROVE  /\ c.kind \in {"transfer", "operation", "permission"}
         /\ c.owners \in Owners
         /\ c.in \in Seq(Nat) /\ c.sigs \in Seq(Signature)
         /\ c.kind = "operation" => c.mint \in Owners
<1>1. c \in Call
  BY FxAssumption
<1>2. CASE c \in Transfer
  BY <1>2 DEF Transfer
<1>3. CASE c \in Operation
  BY <1>3 DEF Operation
<1>4. CASE c \in Permission
  BY <1>4 DEF Permission
<1>5. QED
  BY <1>1, <1>2, <1>3, <1>4 DEF Call

\* A sequence of keys is a sequence of numbers.
LEMMA KeysAreNumbers ==
  ASSUME NEW s \in Seq(Key)
  PROVE  /\ s \in Seq(Nat) /\ Len(s) \in Nat /\ DOMAIN s = 1..Len(s)
         /\ \A i \in 0..(Len(s) - 1) : i + 1 \in DOMAIN s /\ s[i + 1] \in Nat
<1>1. Len(s) \in Nat /\ DOMAIN s = 1..Len(s) /\ \A i \in 1..Len(s) : s[i] \in Key
  OBVIOUS
<1>2. \A i \in 1..Len(s) : s[i] \in Nat
  BY <1>1, FxAssumption
<1>3. s = [i \in 1..Len(s) |-> s[i]]
  OBVIOUS
<1>4. s \in Seq(Nat)
  BY <1>1, <1>2, <1>3
<1>5. \A i \in 0..(Len(s) - 1) : i + 1 \in 1..Len(s)
  BY <1>1
<1>6. QED
  BY <1>1, <1>2, <1>4, <1>5

\* What fx decides, with what changes told apart.
LEMMA Decision ==
  ASSUME NEW c \in Calls
  PROVE  Accepts(c) <=> /\ WellFormedCall(c)
                        /\ ~(c.owners.locktime > clock)
                        /\ bootstrapped => Signed(c)
<1>1. c.kind \in {"transfer", "operation", "permission"}
  BY CallParts
<1>2. CASE c.kind = "transfer"
  BY <1>2 DEF Accepts, VerifySpend, VerifyCredentials, WellFormedCall
<1>3. CASE c.kind = "operation"
  BY <1>3 DEF Accepts, VerifyOperation, VerifyCredentials, WellFormedCall
<1>4. CASE c.kind = "permission"
  BY <1>4 DEF Accepts, VerifyPermission, VerifyCredentials, WellFormedCall
<1>5. QED
  BY <1>1, <1>2, <1>3, <1>4

-----------------------------------------------------------------------------
(* The inductive invariant: what the last answer says of the call itself.  *)

AnswerInv ==
  /\ answer = "ok" => /\ WellFormedCall(call)
                      /\ ~(call.owners.locktime > at)
                      /\ full => Signed(call)
  /\ answer = "error" /\ ~(call.owners.locktime > at) =>
       ~WellFormedCall(call) \/ (full /\ ~Signed(call))

FxInv == FxTypeOK /\ AnswerInv

\* Nothing has been asked at first.
LEMMA FxInvInit == FxInit => FxInv
<1> SUFFICES ASSUME FxInit PROVE FxTypeOK /\ AnswerInv
  BY DEF FxInv
<1>1. FxTypeOK
  <2>1. 0 \in 0..MaxTime /\ 0 \in 0..0
    BY FxAssumption
  <2>2. QED
    BY <2>1 DEF FxInit, FxTypeOK
<1>2. AnswerInv
  <2>1. answer = "none" /\ full = FALSE
    BY DEF FxInit
  <2>2. QED
    BY <2>1 DEF AnswerInv
<1>3. QED
  BY <1>1, <1>2

\* FxInv is inductive.
LEMMA FxInvStep == FxInv /\ [FxNext]_callVars => FxInv'
<1> SUFFICES ASSUME FxTypeOK, AnswerInv, [FxNext]_callVars
             PROVE  FxTypeOK' /\ AnswerInv'
  BY DEF FxInv
<1>1. CASE Tick
  BY <1>1, FxAssumption DEF Tick, answerVars, FxTypeOK, AnswerInv, Signed, WellFormedCall
<1>2. CASE Bootstrapped
  BY <1>2 DEF Bootstrapped, answerVars, FxTypeOK, AnswerInv, Signed, WellFormedCall
<1>3. CASE VerifyCall
  <2>1. call' = call /\ at' = clock /\ full' = bootstrapped /\ bootstrapped' = bootstrapped
    BY <1>3 DEF VerifyCall, fxVars
  <2>2. answer' = IF Accepts(call) THEN "ok" ELSE "error"
    BY <1>3 DEF VerifyCall
  <2>3. FxTypeOK'
    BY <1>3, FxAssumption DEF VerifyCall, fxVars, FxTypeOK
  <2>4. call \in Calls
    BY DEF FxTypeOK
  <2>5. AnswerInv'
    BY <2>1, <2>2, <2>4, Decision DEF AnswerInv
  <2>6. QED
    BY <2>3, <2>5
<1>4. CASE UNCHANGED callVars
  BY <1>4 DEF callVars, fxVars, answerVars, FxTypeOK, AnswerInv
<1>5. QED
  BY <1>1, <1>2, <1>3, <1>4 DEF FxNext

\* FxInv holds always.
LEMMA FxInvAlways == FxSpec => []FxInv
  BY FxInvInit, FxInvStep, PTL DEF FxSpec

\* The variables keep their types.
THEOREM FxTypeCorrect == FxSpec => []FxTypeOK
<1>1. FxInv => FxTypeOK
  BY DEF FxInv
<1>2. QED
  BY <1>1, FxInvAlways, PTL

-----------------------------------------------------------------------------
(* Authorized: the signers are distinct because the indices ascend and the *)
(* addresses ascend.                                                       *)

\* The numbers of an input and the addresses of owners are in order.
LEMMA InOrder ==
  ASSUME NEW c \in Calls, WellFormedCall(c)
  PROVE  /\ \A i, j \in DOMAIN c.in : i < j => c.in[i] < c.in[j]
         /\ \A i, j \in DOMAIN c.owners.addrs :
              i < j => c.owners.addrs[i] < c.owners.addrs[j]
<1>1. isSortedAndUniqueByCompare(c.in) /\ isSortedAndUniqueByCompare(c.owners.addrs)
  <2>1. ValidInput(c.in) /\ ValidOwners(c.owners)
    BY CallParts DEF WellFormedCall, ValidMintOperation, ValidTransferInput, ValidTransferOutput
  <2>2. QED
    BY <2>1 DEF ValidInput, ValidOwners
<1>2. c.in \in Seq(Nat)
  BY CallParts
<1>3. c.owners.addrs \in Seq(Nat)
  <2>1. c.owners.addrs \in Seq(Key)
    BY CallParts DEF Owners
  <2>2. QED
    BY <2>1, KeysAreNumbers
<1>4. QED
  BY <1>1, <1>2, <1>3, NeighborsAscend DEF isSortedAndUniqueByCompare

\* A well-formed call whose signatures are right is signed by distinct owners.
LEMMA SignedByOwners ==
  ASSUME NEW c \in Calls, WellFormedCall(c), Signed(c)
  PROVE  /\ \A i \in DOMAIN c.sigs :
              /\ c.sigs[i].tx = c.tx
              /\ \E j \in DOMAIN c.owners.addrs : c.owners.addrs[j] = c.sigs[i].key
         /\ \A i, j \in DOMAIN c.sigs : c.sigs[i].key = c.sigs[j].key => i = j
<1>1. c.in \in Seq(Nat) /\ c.sigs \in Seq(Signature) /\ c.owners.addrs \in Seq(Key)
  BY CallParts DEF Owners
<1>2. DOMAIN c.sigs = DOMAIN c.in
  BY <1>1 DEF WellFormedCall
<1>3. ASSUME NEW i \in DOMAIN c.sigs
      PROVE  /\ c.sigs[i].tx = c.tx
             /\ c.in[i] + 1 \in DOMAIN c.owners.addrs
             /\ c.sigs[i].key = c.owners.addrs[c.in[i] + 1]
  <2>1. /\ c.in[i] < Len(c.owners.addrs) /\ c.in[i] \in Nat
        /\ Recover(c.tx, c.sigs[i]) = c.owners.addrs[c.in[i] + 1]
    BY <1>1, <1>2 DEF Signed
  <2>2. c.in[i] + 1 \in DOMAIN c.owners.addrs /\ c.owners.addrs[c.in[i] + 1] \in Nat
    <3>1. Len(c.owners.addrs) \in Nat
      BY <1>1, KeysAreNumbers
    <3>2. c.in[i] \in 0..(Len(c.owners.addrs) - 1)
      BY <2>1, <3>1
    <3>3. QED
      BY <1>1, <3>2, KeysAreNumbers
  <2>3. QED
    BY <2>1, <2>2 DEF Recover, NoKey
<1>4. ASSUME NEW i \in DOMAIN c.sigs, NEW j \in DOMAIN c.sigs, i < j
      PROVE  c.sigs[i].key < c.sigs[j].key
  <2>1. c.in[i] < c.in[j] /\ c.in[i] \in Nat /\ c.in[j] \in Nat
    BY <1>1, <1>2, <1>4, InOrder
  <2>2. c.in[i] + 1 < c.in[j] + 1
    BY <2>1
  <2>3. QED
    BY <1>3, <2>2, InOrder
<1>5. ASSUME NEW i \in DOMAIN c.sigs, NEW j \in DOMAIN c.sigs,
             c.sigs[i].key = c.sigs[j].key
      PROVE  i = j
  <2>1. i \in Nat /\ j \in Nat
    BY <1>1
  <2>2. c.sigs[i].key \in Nat
    <3>1. c.owners.addrs \in Seq(Nat)
      BY <1>1, KeysAreNumbers
    <3>2. QED
      BY <3>1, <1>3
  <2>3. QED
    BY <1>4, <1>5, <2>1, <2>2
<1>6. QED
  BY <1>3, <1>5

\* What is accepted with its signatures has been signed by as many distinct
\* owners as the threshold says, after the locktime.
THEOREM FxAuthorized == FxSpec => []Authorized
<1>1. FxInv => Authorized
  <2> SUFFICES ASSUME FxTypeOK, AnswerInv, answer = "ok", full
               PROVE  Authorized
    BY DEF FxInv, Authorized
  <2>1. WellFormedCall(call) /\ ~(call.owners.locktime > at) /\ Signed(call) /\ call \in Calls
    BY DEF FxTypeOK, AnswerInv
  <2>2. call.owners.locktime \in Nat /\ at \in Nat
    BY <2>1, CallParts, FxAssumption DEF FxTypeOK, Owners
  <2>3. call.owners.locktime <= at /\ Len(call.sigs) = call.owners.threshold
    BY <2>1, <2>2 DEF WellFormedCall
  <2>4. QED
    BY <2>1, <2>3, SignedByOwners DEF Authorized
<1>2. QED
  BY <1>1, FxInvAlways, PTL

\* An accepted operation leaves the right to mint with its owners.
THEOREM FxMintRightKept == FxSpec => []MintRightKept
<1>1. FxInv => MintRightKept
  <2> SUFFICES ASSUME FxTypeOK, AnswerInv, answer = "ok", call.kind = "operation"
               PROVE  call.mint = call.owners /\ call.mint.threshold <= Len(call.mint.addrs)
    BY DEF FxInv, MintRightKept
  <2>1. WellFormedCall(call) /\ call.owners \in Owners /\ call.mint \in Owners
    BY CallParts DEF FxTypeOK, AnswerInv
  <2>2. Equals(call.owners, call.mint) /\ ValidOwners(call.owners)
    BY <2>1 DEF WellFormedCall
  <2>3. call.mint = call.owners
    BY <2>1, <2>2 DEF Equals, Owners
  <2>4. QED
    BY <2>2, <2>3 DEF ValidOwners
<1>2. QED
  BY <1>1, FxInvAlways, PTL

\* What is accepted with its signatures is accepted for good.
THEOREM FxAcceptanceFinal == FxSpec => AcceptanceFinal
<1>1. FxInv /\ [FxNext]_callVars =>
        [VerifyCall /\ answer = "ok" /\ full => answer' = "ok"]_callVars
  <2> SUFFICES ASSUME FxTypeOK, AnswerInv, VerifyCall, answer = "ok", full
               PROVE  answer' = "ok"
    BY DEF FxInv
  <2>1. /\ WellFormedCall(call) /\ ~(call.owners.locktime > at) /\ Signed(call)
        /\ call \in Calls /\ call.owners.locktime \in Nat
    BY CallParts DEF FxTypeOK, AnswerInv, Owners
  <2>2. at <= clock /\ at \in Nat /\ clock \in Nat
    BY FxAssumption DEF FxTypeOK
  <2>3. ~(call.owners.locktime > clock)
    BY <2>1, <2>2
  <2>4. Accepts(call)
    BY <2>1, <2>3, Decision
  <2>5. QED
    BY <2>4 DEF VerifyCall
<1>2. QED
  BY <1>1, FxInvAlways, PTL DEF FxSpec, AcceptanceFinal

\* What is rejected after its locktime is rejected for good.
THEOREM FxRejectionFinal == FxSpec => RejectionFinal
<1>1. FxInv /\ [FxNext]_callVars =>
        [VerifyCall /\ answer = "error" /\ call.owners.locktime <= at => answer' = "error"]_callVars
  <2> SUFFICES ASSUME FxTypeOK, AnswerInv, VerifyCall, answer = "error",
                      call.owners.locktime <= at
               PROVE  answer' = "error"
    BY DEF FxInv
  <2>1. call \in Calls /\ call.owners.locktime \in Nat /\ at \in Nat
    BY CallParts, FxAssumption DEF FxTypeOK, Owners
  <2>2. ~WellFormedCall(call) \/ (bootstrapped /\ ~Signed(call))
    BY <2>1 DEF AnswerInv, FxTypeOK
  <2>3. ~Accepts(call)
    BY <2>1, <2>2, Decision
  <2>4. QED
    BY <2>3 DEF VerifyCall
<1>2. QED
  BY <1>1, FxInvAlways, PTL DEF FxSpec, RejectionFinal
=============================================================================
