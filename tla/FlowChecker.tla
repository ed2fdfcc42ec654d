---------------------------- MODULE FlowChecker ----------------------------
(***************************************************************************)
(* The FlowChecker of flow_checker.go: it adds up, per asset, what a       *)
(* transaction consumes and what it produces, in machine words that can    *)
(* overflow, and Verify compares the two.  Errors are remembered, so that  *)
(* a checker that has failed never accepts again.                          *)
(*                                                                         *)
(* Two history variables hold the sums without a bound.                    *)
(***************************************************************************)
EXTENDS Naturals

CONSTANTS
  Asset,      (* the assets                                               *)
  MaxAmount,  (* math.MaxUint64                                           *)
  Amounts     (* the amounts that inputs, outputs and fees carry          *)

ASSUME FlowAssumption ==
  /\ MaxAmount \in Nat
  /\ Amounts \subseteq 0..MaxAmount

VARIABLES
  consumed, produced,  (* the sums of the checker, 0 for an absent asset   *)
  errs,                (* the kinds of errors it has collected             *)
  verdict,             (* what Verify has just returned                    *)
  totalIn, totalOut    (* history: the sums without a bound                *)

flowVars == <<consumed, produced, errs, verdict, totalIn, totalOut>>

FlowTypeOK ==
  /\ consumed \in [Asset -> 0..MaxAmount]
  /\ produced \in [Asset -> 0..MaxAmount]
  /\ errs \in SUBSET {"overflow", "insufficient"}
  /\ verdict \in {"none", "ok", "error"}
  /\ totalIn \in [Asset -> Nat]
  /\ totalOut \in [Asset -> Nat]

\* math.Add of the library, for words of this size: 0 and an error when the sum
\* does not fit.
Overflows(x, y) == x + y > MaxAmount

Add(x, y) == IF Overflows(x, y) THEN 0 ELSE x + y

NewFlowChecker ==
  /\ consumed = [a \in Asset |-> 0]
  /\ produced = [a \in Asset |-> 0]
  /\ errs = {}
  /\ verdict = "none"
  /\ totalIn = [a \in Asset |-> 0]
  /\ totalOut = [a \in Asset |-> 0]

\* Mutant: the error of an addition is dropped.
CollectNothing(x, y) == UNCHANGED errs

\* The error of an addition is collected; the map keeps what Add returned.
Collect(x, y) == errs' = errs \cup (IF Overflows(x, y) THEN {"overflow"} ELSE {})

Consume(asset, amount) ==
  /\ consumed' = [consumed EXCEPT ![asset] = Add(@, amount)]
  /\ Collect(consumed[asset], amount)
  /\ verdict' = "none"
  /\ totalIn' = [totalIn EXCEPT ![asset] = @ + amount]
  /\ UNCHANGED <<produced, totalOut>>

Produce(asset, amount) ==
  /\ produced' = [produced EXCEPT ![asset] = Add(@, amount)]
  /\ Collect(produced[asset], amount)
  /\ verdict' = "none"
  /\ totalOut' = [totalOut EXCEPT ![asset] = @ + amount]
  /\ UNCHANGED <<consumed, totalIn>>

Insufficient == \E a \in Asset : produced[a] > consumed[a]

\* Mutant: Verify looks at the sums only.
VerifyAfresh ==
  /\ errs' = IF Insufficient THEN {"insufficient"} ELSE {}
  /\ verdict' = IF errs' = {} THEN "ok" ELSE "error"
  /\ UNCHANGED <<consumed, produced, totalIn, totalOut>>

Verify ==
  /\ errs' = IF errs = {} /\ Insufficient THEN {"insufficient"} ELSE errs
  /\ verdict' = IF errs' = {} THEN "ok" ELSE "error"
  /\ UNCHANGED <<consumed, produced, totalIn, totalOut>>

FlowNext ==
  \/ \E a \in Asset, amount \in Amounts : Consume(a, amount) \/ Produce(a, amount)
  \/ Verify

FlowSpec == NewFlowChecker /\ [][FlowNext]_flowVars

-----------------------------------------------------------------------------
\* A checker that accepts has seen no asset produced in excess of what was
\* consumed, in true numbers: no overflow of either sum can hide a deficit
\* (flow_checker.go 35-54).
NoInflation ==
  verdict = "ok" => \A a \in Asset : totalOut[a] <= totalIn[a]

\* The first error has a true cause: an asset is in deficit, or one of its sums
\* does not fit a word (flow_checker.go 38-40, 45-51).
RejectionJustified ==
  [][errs = {} /\ errs' # {} =>
       \E a \in Asset : \/ totalOut'[a] > totalIn'[a]
                        \/ totalIn'[a] > MaxAmount
                        \/ totalOut'[a] > MaxAmount]_flowVars

\* Errors stick: a checker that has failed once never accepts later, whatever
\* is consumed to make up for it (flow_checker.go 44-45, 53).
RejectionSticks ==
  [][errs # {} => errs' # {} /\ verdict' # "ok"]_flowVars
=============================================================================
