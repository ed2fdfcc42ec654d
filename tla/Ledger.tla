------------------------------- MODULE Ledger -------------------------------
(***************************************************************************)
(* The parts together: the UTXOs of a chain and the transactions that a VM *)
(* executes on them.  A transaction must pass BaseTx.Verify and VerifyTx,  *)
(* every UTXO it names must be stored, of the asset it says, and its fx    *)
(* must accept what is done with it; then Consume and Produce of           *)
(* utxo_handler.go change the set.                                         *)
(*                                                                         *)
(* The VM that calls these in that order is not in this repository: what   *)
(* it is trusted with is in the operators marked external.  Consume        *)
(* deletes what the inputs of a transaction name and nothing else, so      *)
(* that the VM must delete what its operations take.                       *)
(*                                                                         *)
(* A UTXO is named by a pair of a transaction and an index.  What is       *)
(* signed, the body, leaves the credentials out; the identifier of a       *)
(* transaction does not, so that two of them can have one body.            *)
(***************************************************************************)
EXTENDS TokenFx, FiniteSets, SequencesExt, FiniteSetsExt

CONSTANTS
  Asset, FeeAsset,
  TxFee,            (* the fee of every transaction                        *)
  MaxAmount,        (* math.MaxUint64                                     *)
  NetworkID, ChainID, MaxMemoSize,
  MaxIndices,       (* the indices of a transaction's outputs: 2^32       *)
  GenesisID,        (* the transaction that the first UTXOs name          *)
  Genesis,          (* the first UTXOs, from names to [asset, out]        *)
  Txs               (* the transactions that a VM may be given            *)

VT == INSTANCE VerifyTx
        WITH Amounts <- {}, Txs <- {}, consumed <- 0, produced <- 0, errs <- {},
             verdict <- "none", totalIn <- 0, totalOut <- 0,
             tx <- 0, part <- "fee", list <- 1, item <- 1, result <- "none"

VARIABLES
  utxos,     (* the UTXO set, from names to [asset, out]                  *)
  executed   (* history: the transactions that have been executed         *)

vars == <<clock, bootstrapped, utxos, executed>>

-----------------------------------------------------------------------------
(* The UTXOs a transaction names.                                          *)

\* The inputs are in lists, and have a place in them.
Places(t) == UNION {{<<i, j>> : j \in DOMAIN t.ins[i]} : i \in DOMAIN t.ins}
InputAt(t, p) == t.ins[p[1]][p[2]]

Inputs(t) == {InputAt(t, p) : p \in Places(t)}
Operations(t) == {t.ops[k] : k \in DOMAIN t.ops}
Named(t) == {x.utxo : x \in Inputs(t) \cup Operations(t)}

-----------------------------------------------------------------------------
(* What is asked of a transaction by itself.                               *)

BaseVerify(t) == t.network = NetworkID /\ t.chain = ChainID /\ t.memo <= MaxMemoSize

FlowOuts(outs) ==
  [i \in DOMAIN outs |->
     [asset |-> outs[i].asset, bytes |-> outs[i].bytes,
      amount |-> IF Fx!ValidTransferOutput(outs[i]) THEN outs[i].amt ELSE 0]]

\* Compare of two UTXOIDs: by the transaction, then by the index.
Rank(u) == u[1] * MaxIndices + u[2]

FlowIns(ins) ==
  [i \in DOMAIN ins |->
     [asset |-> ins[i].asset, utxo |-> Rank(ins[i].utxo),
      amount |-> IF Fx!ValidTransferInput(ins[i].amt, ins[i].in) THEN ins[i].amt ELSE 0]]

Flow(t) == [fee |-> TxFee,
            outs |-> <<FlowOuts(t.outs), FlowOuts(t.exported)>>,
            ins |-> [i \in DOMAIN t.ins |-> FlowIns(t.ins[i])]]

\* VerifyTx, which is shown to accept these transactions and no others.
FlowCheck(t) ==
  LET flow == Flow(t)
  IN  VT!WellFormed(flow) /\ VT!Balanced(flow) /\ VT!Representable(flow)

\* External: the VM lets no transaction name a UTXO twice.
NamedOnce(t) ==
  /\ \A p, q \in Places(t) : InputAt(t, p).utxo = InputAt(t, q).utxo => p = q
  /\ \A k, l \in DOMAIN t.ops : t.ops[k].utxo = t.ops[l].utxo => k = l
  /\ \A p \in Places(t), k \in DOMAIN t.ops : InputAt(t, p).utxo # t.ops[k].utxo

ASSUME LedgerAssumption ==
  /\ TxFee \in Nat \ {0}
  /\ MaxIndices \in Nat \ {0}
  /\ FeeAsset \in Asset
  /\ IsFiniteSet(DOMAIN Genesis)
  /\ \A u \in DOMAIN Genesis : u = <<GenesisID, u[2]>>
  /\ \A t \in Txs : t.id # GenesisID
  /\ \A s, t \in Txs : s.id = t.id => s = t

-----------------------------------------------------------------------------
(* What is asked of it where it is executed.                               *)

\* External: the UTXO is stored, and it is of the asset it is taken for.
Found(x) == x.utxo \in DOMAIN utxos /\ utxos[x.utxo].asset = x.asset

InputVerifies(t, in) ==
  Found(in) /\ VerifyTransfer(t.body, in, in.sigs, utxos[in.utxo].out)

OperationVerifies(t, o) ==
  Found(o) /\ VerifyOperation(t.body, o.op, o.sigs, utxos[o.utxo].out)

Verifies(t) ==
  /\ BaseVerify(t)
  /\ FlowCheck(t)
  /\ NamedOnce(t)
  /\ \A in \in Inputs(t) : InputVerifies(t, in)
  /\ \A o \in Operations(t) : OperationVerifies(t, o)

-----------------------------------------------------------------------------
(* Consume and Produce.                                                    *)

\* Mutant: the index of the UTXO is left out.
ConsumeByTx(set, ins) ==
  [u \in DOMAIN set \ {<<in.utxo[1], 0>> : in \in ins} |-> set[u]]

\* Every UTXO that is an input is deleted.
Consume(set, ins) == [u \in DOMAIN set \ {in.utxo : in \in ins} |-> set[u]]

\* External: the VM deletes what operations take.
RemoveTaken(set, ops) == [u \in DOMAIN set \ {o.utxo : o \in ops} |-> set[u]]

\* What outputs, and what an operation leaves, are stored as.
Transferred(outs) ==
  [i \in DOMAIN outs |-> [asset |-> outs[i].asset, out |-> Transfer(outs[i].amt, outs[i].owners)]]

Left(o) == [i \in DOMAIN Outs(o.op) |-> [asset |-> o.asset, out |-> Outs(o.op)[i]]]

\* The outputs in the order of their indices.  External: those of the
\* operations come after those of the transaction, and exported outputs
\* are produced for another chain.
OutputsOf(t) == Transferred(t.outs) \o FlattenSeq([k \in DOMAIN t.ops |-> Left(t.ops[k])])

\* An output is added under the transaction and its index.
Produce(set, txID, outs) ==
  LET new == {<<txID, i - 1>> : i \in DOMAIN outs}
  IN  [u \in DOMAIN set \cup new |-> IF u \in new THEN outs[u[2] + 1] ELSE set[u]]

\* What is stored, and what transactions are made of.
Entry == [asset : Asset, out : Output]

TransferableOutput == [asset : Asset, amt : Nat, owners : Fx!Owners, bytes : Nat]

TransferableInput ==
  [utxo : Nat \X (0..(MaxIndices - 1)), asset : Asset, amt : Nat, in : Seq(Nat), sigs : Seq(Fx!Signature)]

ASSUME EntryAssumption ==
  /\ Key \subseteq Nat
  /\ \A u \in DOMAIN Genesis : Genesis[u] \in Entry
  /\ \A t \in Txs :
       /\ t.ins \in Seq(Seq(TransferableInput))
       /\ t.outs \in Seq(TransferableOutput) /\ t.exported \in Seq(TransferableOutput)
       /\ t.ops \in Seq(Operations(t))
       /\ \A o \in Operations(t) :
            /\ Left(o) \in Seq(Entry)
            /\ o.op.in \in Seq(Nat) /\ o.sigs \in Seq(Fx!Signature)
            /\ o.op.kind = "nftMint" => o.op.outs \in Seq(Fx!Owners)

-----------------------------------------------------------------------------
Init ==
  /\ clock = 0
  /\ bootstrapped = FALSE
  /\ utxos = Genesis
  /\ executed = {}

Tick ==
  /\ clock < MaxTime
  /\ clock' = clock + 1
  /\ UNCHANGED <<bootstrapped, utxos, executed>>

Bootstrapped ==
  /\ bootstrapped' = TRUE
  /\ UNCHANGED <<clock, utxos, executed>>

Execute(t) ==
  /\ Verifies(t)
  /\ utxos' = Produce(RemoveTaken(Consume(utxos, Inputs(t)), Operations(t)), t.id, OutputsOf(t))
  /\ executed' = executed \cup {t}
  /\ UNCHANGED <<clock, bootstrapped>>

Next ==
  \/ Tick
  \/ Bootstrapped
  \/ \E t \in Txs : Execute(t)

Spec == Init /\ [][Next]_vars

-----------------------------------------------------------------------------
(* Accounts of what is stored and of what has been done.                   *)

\* The amount of an asset that is stored, and that has been exported.
Amounts(set, a) ==
  SumFunction([u \in DOMAIN set |->
                 IF set[u].asset = a /\ set[u].out.kind = "transfer" THEN set[u].out.amt ELSE 0])

ExportedBy(t, a) ==
  SumFunction([i \in DOMAIN t.exported |-> IF t.exported[i].asset = a THEN t.exported[i].amt ELSE 0])

Exported(a) == SumFunction([t \in executed |-> ExportedBy(t, a)])

Fees(a) == IF a = FeeAsset THEN TxFee * Cardinality(executed) ELSE 0

\* How many there are of an asset and output, of rights to mint tokens of a
\* group, of tokens of a group with a payload, and of properties.
Count(set, entry) == Cardinality({u \in DOMAIN set : set[u] = entry})

Rights(set, a, group) ==
  Cardinality({u \in DOMAIN set : /\ set[u].asset = a /\ set[u].out.kind = "nftMint"
                                  /\ set[u].out.group = group})

Tokens(set, a, group, payload) ==
  Cardinality({u \in DOMAIN set : /\ set[u].asset = a /\ set[u].out.kind = "nft"
                                  /\ set[u].out.group = group /\ set[u].out.payload = payload})

Properties(set, a) ==
  Cardinality({u \in DOMAIN set : set[u].asset = a /\ set[u].out.kind = "owned"})

Ops == UNION {Operations(t) : t \in Txs}

\* What has the group of a token: outputs, and operations on them.
Stamped ==
  {x \in {utxos[u].out : u \in DOMAIN utxos} \cup {Genesis[u].out : u \in DOMAIN Genesis}
           \cup {o.op : o \in Ops} : x.kind \in {"nft", "nftMint"}}

\* A sum over the operations that have been executed.
Tally(n) == SumFunction([t \in executed |-> SumFunction([k \in DOMAIN t.ops |-> n[t.ops[k]]])])

Minted(a) ==
  Tally([o \in Ops |-> IF o.asset = a /\ o.op.kind = "mint" THEN o.op.transfer.amt ELSE 0])

Performed(kind, a) == Tally([o \in Ops |-> IF o.asset = a /\ o.op.kind = kind THEN 1 ELSE 0])

MintsOf(a, group) ==
  Tally([o \in Ops |->
           IF o.asset = a /\ o.op.kind = "nftMint" /\ o.op.group = group THEN 1 ELSE 0])

TokensMinted(a, group, payload) ==
  Tally([o \in Ops |->
           IF o.asset = a /\ o.op.kind = "nftMint" /\ o.op.group = group /\ o.op.payload = payload
           THEN Len(o.op.outs) ELSE 0])

-----------------------------------------------------------------------------
\* A UTXO that a transaction has spent is never in the set again, so that no
\* other transaction spends it, and none is executed twice, not even with other
\* credentials: the fee has every transaction spend something, and identifiers
\* keep what is produced apart from all that has been spent.  Of what operations
\* take this holds as far as the VM deletes it (utxo_handler.go 9-32,
\* transferables.go 227, metadata.go 28-32).
SpentOnce == \A t \in executed : Named(t) \cap DOMAIN utxos = {}

\* Once the chain is bootstrapped, whatever leaves the set has been signed away:
\* as many of its owners as its threshold says have signed the body of the
\* transaction that takes it, after its locktime, whichever the fx
\* (secp256k1fx/fx.go 173-218, nftfx/fx.go 64-100, propertyfx/fx.go 62-91).
OwnersConsent ==
  [][bootstrapped =>
       \A u \in DOMAIN utxos \ DOMAIN utxos' :
         \E t \in executed' : \E x \in Inputs(t) \cup Operations(t) :
           LET owners == utxos[u].out.owners
               signers == {k \in Key : /\ \E i \in DOMAIN owners.addrs : owners.addrs[i] = k
                                       /\ \E i \in DOMAIN x.sigs :
                                            x.sigs[i] = [key |-> k, tx |-> t.body]}
           IN  /\ x.utxo = u
               /\ owners.locktime <= clock
               /\ Cardinality(signers) >= owners.threshold]_vars

\* The amount of an asset grows by what is minted only, and that of the fee asset
\* falls by the fees, whatever transactions and fxs let through
\* (transferables.go 219-256, secp256k1fx/fx.go 130-171, utxo_handler.go 9-32).
SupplyConserved ==
  \A a \in Asset : Amounts(utxos, a) + Exported(a) + Fees(a) <= Amounts(Genesis, a) + Minted(a)

\* The rights to mint an amount or a property are where they were at genesis, as
\* many and with the same owners, however often they have been exercised
\* (secp256k1fx/fx.go 130-138, propertyfx/fx.go 62-78, mint_operation.go 38-43).
RightsKept ==
  \A right \in {e \in {utxos[u] : u \in DOMAIN utxos} \cup {Genesis[u] : u \in DOMAIN Genesis} :
                  e.out.kind \in {"mint", "propertyMint"}} :
    Count(utxos, right) = Count(Genesis, right)

\* Of every group, a right to mint is gone for each time it was exercised; the
\* tokens are those there were and those that were minted, of the group of the
\* right and with their payload; and the properties those there were and those
\* that were minted and not burnt (nftfx/fx.go 64-100,
\* nftfx/mint_operation.go 41-51, propertyfx/fx.go 62-91).
TokensAccounted ==
  \A a \in Asset :
    /\ \A group \in {x.group : x \in Stamped} :
         Rights(utxos, a, group) + MintsOf(a, group) = Rights(Genesis, a, group)
    /\ \A mark \in {<<x.group, x.payload>> : x \in {y \in Stamped : "payload" \in DOMAIN y}} :
         Tokens(utxos, a, mark[1], mark[2]) =
           Tokens(Genesis, a, mark[1], mark[2]) + TokensMinted(a, mark[1], mark[2])
    /\ Properties(utxos, a) + Performed("owned", a) =
         Properties(Genesis, a) + Performed("propertyMint", a)
=============================================================================
