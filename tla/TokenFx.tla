------------------------------- MODULE TokenFx -------------------------------
(***************************************************************************)
(* The operations of the feature extensions that share the credentials of  *)
(* secp256k1fx: its own, which mints an amount, those of nftfx, which mint *)
(* and transfer the tokens of a group, and those of propertyfx, which mint *)
(* and burn a property.  Each takes one UTXO, must agree with it, needs    *)
(* the consent of its owners, and leaves outputs of its own.               *)
(*                                                                         *)
(* An operation has the kind of the output it takes: "mint", "nftMint",    *)
(* "nft", "propertyMint" or "owned".  A payload is a number.               *)
(***************************************************************************)
EXTENDS Integers, Sequences

CONSTANTS
  Key,
  Body,          (* what is signed: the bytes of the unsigned transactions *)
  MaxTime,
  LargePayload   (* the payloads of more than MaxPayloadSize bytes         *)

VARIABLES clock, bootstrapped

Fx == INSTANCE Secp256k1Fx
        WITH UnsignedTx <- Body, Calls <- {}, call <- {}, answer <- "none", at <- 0,
             full <- FALSE

-----------------------------------------------------------------------------
(* Outputs that are not transferred with an input.                         *)

Mint(owners) == [kind |-> "mint", owners |-> owners]
NFTMint(group, owners) == [kind |-> "nftMint", group |-> group, owners |-> owners]
NFT(group, payload, owners) ==
  [kind |-> "nft", group |-> group, payload |-> payload, owners |-> owners]
PropertyMint(owners) == [kind |-> "propertyMint", owners |-> owners]
Owned(owners) == [kind |-> "owned", owners |-> owners]

\* What is transferred with an input.
Transfer(amt, owners) == [kind |-> "transfer", amt |-> amt, owners |-> owners]

Output ==
  [kind : {"transfer"}, amt : Nat, owners : Fx!Owners]
    \cup [kind : {"mint", "propertyMint", "owned"}, owners : Fx!Owners]
    \cup [kind : {"nftMint"}, group : Nat, owners : Fx!Owners]
    \cup [kind : {"nft"}, group : Nat, payload : Nat, owners : Fx!Owners]

ValidNFT(out) == out.payload \notin LargePayload /\ Fx!ValidOwners(out.owners)

-----------------------------------------------------------------------------
(* What the operations leave behind.                                       *)

NFTMintOuts(op) ==
  [i \in DOMAIN op.outs |-> NFT(op.group, op.payload, op.outs[i])]

\* Mutant: the right to mint goes where the token goes.
PropertyMintOutsMoved(op) == <<PropertyMint(op.owned), Owned(op.owned)>>

PropertyMintOuts(op) == <<PropertyMint(op.mint), Owned(op.owned)>>

BurnOuts(op) == <<>>

MintOuts(op) == <<Mint(op.mint), Transfer(op.transfer.amt, op.transfer.owners)>>

NFTTransferOuts(op) == <<NFT(op.group, op.payload, op.owners)>>

Outs(op) ==
  CASE op.kind = "mint"         -> MintOuts(op)
    [] op.kind = "nftMint"      -> NFTMintOuts(op)
    [] op.kind = "nft"          -> NFTTransferOuts(op)
    [] op.kind = "propertyMint" -> PropertyMintOuts(op)
    [] op.kind = "owned"        -> BurnOuts(op)

-----------------------------------------------------------------------------
(* Whether an operation may take the output, with these signatures for the *)
(* transaction.                                                            *)

Call(tx, op, sigs, owners) == [tx |-> tx, in |-> op.in, sigs |-> sigs, owners |-> owners]

VerifyMint(tx, op, sigs, out) ==
  Fx!VerifyOperation([tx |-> tx, in |-> op.in, sigs |-> sigs, owners |-> out.owners,
                      mint |-> op.mint, transfer |-> op.transfer])

ValidNFTMint(op) ==
  /\ op.payload \notin LargePayload
  /\ \A i \in DOMAIN op.outs : Fx!ValidOwners(op.outs[i])
  /\ Fx!ValidInput(op.in)

\* Mutant: the right to mint one group mints any.
VerifyNFTMintAnyGroup(tx, op, sigs, out) ==
  /\ ValidNFTMint(op) /\ Fx!ValidOwners(out.owners)
  /\ Fx!VerifyCredentials(Call(tx, op, sigs, out.owners))

VerifyNFTMint(tx, op, sigs, out) ==
  /\ ValidNFTMint(op) /\ Fx!ValidOwners(out.owners)
  /\ out.group = op.group
  /\ Fx!VerifyCredentials(Call(tx, op, sigs, out.owners))

\* Mutant: those who receive the token consent to it.
VerifyNFTTransferByReceiver(tx, op, sigs, out) ==
  /\ Fx!ValidInput(op.in) /\ ValidNFT(op) /\ ValidNFT(out)
  /\ out.group = op.group
  /\ out.payload = op.payload
  /\ Fx!VerifyCredentials(Call(tx, op, sigs, op.owners))

VerifyNFTTransfer(tx, op, sigs, out) ==
  /\ Fx!ValidInput(op.in) /\ ValidNFT(op) /\ ValidNFT(out)
  /\ out.group = op.group
  /\ out.payload = op.payload
  /\ Fx!VerifyCredentials(Call(tx, op, sigs, out.owners))

VerifyPropertyMint(tx, op, sigs, out) ==
  /\ Fx!ValidInput(op.in) /\ Fx!ValidOwners(op.mint) /\ Fx!ValidOwners(op.owned)
  /\ Fx!ValidOwners(out.owners)
  /\ Fx!Equals(out.owners, op.mint)
  /\ Fx!VerifyCredentials(Call(tx, op, sigs, out.owners))

VerifyBurn(tx, op, sigs, out) ==
  /\ Fx!ValidInput(op.in) /\ Fx!ValidOwners(out.owners)
  /\ Fx!VerifyCredentials(Call(tx, op, sigs, out.owners))

\* There is no operation of any other kind.
VerifyOperation(tx, op, sigs, out) ==
  /\ out.kind = op.kind
  /\ \/ op.kind = "mint"         /\ VerifyMint(tx, op, sigs, out)
     \/ op.kind = "nftMint"      /\ VerifyNFTMint(tx, op, sigs, out)
     \/ op.kind = "nft"          /\ VerifyNFTTransfer(tx, op, sigs, out)
     \/ op.kind = "propertyMint" /\ VerifyPropertyMint(tx, op, sigs, out)
     \/ op.kind = "owned"        /\ VerifyBurn(tx, op, sigs, out)

\* An input takes an output of secp256k1fx only: the other two transfer nothing
\* with inputs, and no output but the transfer output has an amount.
VerifyTransfer(tx, in, sigs, out) ==
  /\ out.kind = "transfer"
  /\ Fx!VerifySpend([tx |-> tx, in |-> in.in, sigs |-> sigs, owners |-> out.owners,
                     amt |-> out.amt, inAmt |-> in.amt])
=============================================================================
