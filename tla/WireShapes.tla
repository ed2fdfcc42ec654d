----------------------------- MODULE WireShapes -----------------------------
(***************************************************************************)
(* The tables of the package wire and of the wire.go of the extensions: a  *)
(* shape is a code, a rule for the TypeKind, and the place of each of its  *)
(* fields in the fixed section of a ZAP message.  The constructor New*,    *)
(* the parser Wrap* and the accessors of a shape all go by this table, one *)
(* writing and the others reading; Wire says how.                          *)
(***************************************************************************)
EXTENDS Naturals

\* A field of "width" bytes at an offset: a number, an array, or the pointer
\* to a list whose elements have "stride" bytes (0: the stride depends on the
\* package and the security level), to bytes, or to envelopes.
Number(at, width) == [at |-> at, width |-> width, stride |-> 1]
List(at, stride) == [at |-> at, width |-> 8, stride |-> stride]
Bytes(at) == List(at, 1)

KeyStride == 0       \* resolved by the caller
AddressStride == 20
SigIndexStride == 4

\* Who may own an envelope of a shape: Wrap* of some looks at the TypeKind.
AnyKind == {"any"}           \* not at all
OwnedKind == {"owned"}       \* not TypeKindReserved
AttestationKind == {"bls"}   \* TypeKindBLS12381 only

Shape(code, kind, size, fields) ==
  [code |-> code, kind |-> kind, size |-> size, fields |-> fields]

TypeKind ==
  [reserved |-> 0, secp256k1 |-> 1, mldsa |-> 2, slhdsa |-> 3, ed25519 |-> 4,
   secp256r1 |-> 5, schnorr |-> 6, bls12381 |-> 7, nft |-> 8, property |-> 9]

-----------------------------------------------------------------------------
(* The shapes, one table for each.                                         *)

OutputOwners == Shape(9, AnyKind, 20,
  [locktime |-> Number(0, 8), threshold |-> Number(8, 4), addrs |-> List(12, AddressStride)])

\* Mutant: the list of addresses is put before the end of the threshold.
TransferOutputPacked == Shape(1, OwnedKind, 28,
  [amount |-> Number(0, 8), locktime |-> Number(8, 8), threshold |-> Number(16, 4),
   addrs |-> List(18, AddressStride)])

TransferOutput == Shape(1, OwnedKind, 28,
  [amount |-> Number(0, 8), locktime |-> Number(8, 8), threshold |-> Number(16, 4),
   addrs |-> List(20, AddressStride)])

TransferInput == Shape(2, OwnedKind, 16,
  [amount |-> Number(0, 8), sigIndices |-> List(8, SigIndexStride)])

MintOutput == Shape(3, OwnedKind, 20,
  [locktime |-> Number(0, 8), threshold |-> Number(8, 4), addrs |-> List(12, AddressStride)])

MintOperation == Shape(5, OwnedKind, 24,
  [sigIndices |-> List(0, SigIndexStride), mintOutput |-> Bytes(8), transferOutput |-> Bytes(16)])

Credential == Shape(6, OwnedKind, 20,
  [level |-> Number(0, 1), sigs |-> List(4, 1), pubKeys |-> List(12, 1)])

PQOutputOwners == Shape(15, OwnedKind, 32,
  [level |-> Number(0, 1), locktime |-> Number(8, 8), threshold |-> Number(16, 4),
   addrs |-> List(24, KeyStride)])

PQTransferOutput == Shape(16, OwnedKind, 40,
  [level |-> Number(0, 1), amount |-> Number(8, 8), locktime |-> Number(16, 8),
   threshold |-> Number(24, 4), addrs |-> List(32, KeyStride)])

PQMintOutput == Shape(17, OwnedKind, 32,
  [level |-> Number(0, 1), locktime |-> Number(8, 8), threshold |-> Number(16, 4),
   addrs |-> List(24, KeyStride)])

AttestationOutput == Shape(7, AttestationKind, 48,
  [hash |-> Number(0, 32), threshold |-> Number(32, 4), pubKeys |-> List(40, 48)])

AttestationInput == Shape(8, AttestationKind, 8, [signers |-> Bytes(0)])

NFTMintOutput == Shape(16, OwnedKind, 24,
  [groupID |-> Number(0, 4), locktime |-> Number(4, 8), threshold |-> Number(12, 4),
   addrs |-> List(16, AddressStride)])

NFTTransferOutput == Shape(17, OwnedKind, 32,
  [groupID |-> Number(0, 4), locktime |-> Number(4, 8), threshold |-> Number(12, 4),
   addrs |-> List(16, AddressStride), payload |-> Bytes(24)])

NFTMintOperation == Shape(19, OwnedKind, 36,
  [sigIndices |-> List(0, SigIndexStride), groupID |-> Number(8, 4), payload |-> Bytes(12),
   count |-> Number(20, 4), outputs |-> Bytes(24)])

NFTTransferOp == Shape(20, OwnedKind, 16,
  [sigIndices |-> List(0, SigIndexStride), holds |-> Bytes(8)])

OwnedOutput == Shape(21, OwnedKind, 20,
  [locktime |-> Number(0, 8), threshold |-> Number(8, 4), addrs |-> List(12, AddressStride)])

BurnOperation == Shape(22, OwnedKind, 8, [sigIndices |-> List(0, SigIndexStride)])

UTXO == Shape(10, AnyKind, 76,
  [txID |-> Number(0, 32), outputIndex |-> Number(32, 4), assetID |-> Number(36, 32),
   holds |-> Bytes(68)])

LockedOutput == Shape(15, AnyKind, 16, [locktime |-> Number(0, 8), holds |-> Bytes(8)])

PChainOwner == Shape(13, AnyKind, 12,
  [threshold |-> Number(0, 4), addrs |-> List(4, AddressStride)])

SignedTx == Shape(14, AnyKind, 20,
  [unsigned |-> Bytes(0), count |-> Number(8, 4), creds |-> Bytes(12)])

\* The lists of an XVMBaseTx point to objects of the same message, which have
\* tables of their own and no envelope.
XVMBaseTx == Shape(18, AnyKind, 64,
  [networkID |-> Number(0, 4), blockchainID |-> Number(8, 32), outs |-> List(40, 4),
   ins |-> List(48, 4), memo |-> Bytes(56)])

TransferableOut == Shape(0, AnyKind, 40, [assetID |-> Number(0, 32), holds |-> Bytes(32)])

TransferableIn == Shape(0, AnyKind, 76,
  [txID |-> Number(0, 32), outputIndex |-> Number(32, 4), assetID |-> Number(36, 32),
   holds |-> Bytes(68)])

-----------------------------------------------------------------------------
(* The packages: the TypeKind of each, the shape in which it sends each of *)
(* its types, and the lengths of its signatures and of its public keys,    *)
(* one for each security level where it has several; a package with levels *)
(* has a second table of the lengths of its keys, by which it reads.       *)

Package(tk, shapes, sigLens, keyLens, strides) ==
  [tk |-> tk, shapes |-> shapes, sigLens |-> sigLens, keyLens |-> keyLens, strides |-> strides]

ClassicalShapes ==
  [OutputOwners |-> OutputOwners, TransferOutput |-> TransferOutput,
   TransferInput |-> TransferInput, MintOutput |-> MintOutput,
   MintOperation |-> MintOperation, Credential |-> Credential]

PostQuantumShapes ==
  [OutputOwners |-> PQOutputOwners, TransferOutput |-> PQTransferOutput,
   TransferInput |-> TransferInput, MintOutput |-> PQMintOutput,
   MintOperation |-> MintOperation, Credential |-> Credential]

Secp256k1 == Package(TypeKind.secp256k1, ClassicalShapes, <<65>>, <<>>, <<>>)
Ed25519 == Package(TypeKind.ed25519, ClassicalShapes, <<64>>, <<32>>, <<>>)
Secp256r1 == Package(TypeKind.secp256r1, ClassicalShapes, <<64>>, <<64>>, <<>>)
Schnorr == Package(TypeKind.schnorr, ClassicalShapes, <<64>>, <<32>>, <<>>)

\* Mutant: the keys of the second level are read with the length of those of the first.
MldsaShortStride == Package(TypeKind.mldsa, PostQuantumShapes,
  <<2420, 3309, 4627>>, <<1312, 1952, 2592>>, <<1312, 1312, 2592>>)

Mldsa == Package(TypeKind.mldsa, PostQuantumShapes,
  <<2420, 3309, 4627>>, <<1312, 1952, 2592>>, <<1312, 1952, 2592>>)

Slhdsa == Package(TypeKind.slhdsa, PostQuantumShapes,
  <<17088, 35664, 49856>>, <<32, 48, 64>>, <<32, 48, 64>>)

Bls12381 == Package(TypeKind.bls12381,
  [AttestationOutput |-> AttestationOutput, AttestationInput |-> AttestationInput,
   Credential |-> Credential], <<96>>, <<>>, <<>>)

Nft == Package(TypeKind.nft,
  [MintOutput |-> NFTMintOutput, TransferOutput |-> NFTTransferOutput,
   MintOperation |-> NFTMintOperation, TransferOperation |-> NFTTransferOp,
   Credential |-> Credential], <<65>>, <<>>, <<>>)

\* Mutant: the code of MintOutput for the outputs that are owned.
PropertyOneOutput == Package(TypeKind.property,
  [MintOutput |-> MintOutput, OwnedOutput |-> MintOutput, MintOperation |-> MintOperation,
   BurnOperation |-> BurnOperation, Credential |-> Credential], <<65>>, <<>>, <<>>)

Property == Package(TypeKind.property,
  [MintOutput |-> MintOutput, OwnedOutput |-> OwnedOutput, MintOperation |-> MintOperation,
   BurnOperation |-> BurnOperation, Credential |-> Credential], <<65>>, <<>>, <<>>)

\* What package wire sends for the chains themselves.
Chain == Package(TypeKind.reserved,
  [UTXO |-> UTXO, LockedOutput |-> LockedOutput, PChainOwner |-> PChainOwner,
   SignedTx |-> SignedTx, XVMBaseTx |-> XVMBaseTx], <<>>, <<>>, <<>>)

Packages ==
  [secp256k1 |-> Secp256k1, ed25519 |-> Ed25519, secp256r1 |-> Secp256r1, schnorr |-> Schnorr,
   mldsa |-> Mldsa, slhdsa |-> Slhdsa, bls12381 |-> Bls12381, nft |-> Nft,
   property |-> Property, chain |-> Chain]
=============================================================================
