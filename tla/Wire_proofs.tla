---------------------------- MODULE Wire_proofs ----------------------------
(***************************************************************************)
(* Proofs about Wire, for any values and any length of the ZAP header.     *)
(***************************************************************************)
EXTENDS Wire, Collections_proofs

-----------------------------------------------------------------------------
(* The tables.                                                             *)

Classical == {"secp256k1", "ed25519", "secp256r1", "schnorr"}
PostQuantum == {"mldsa", "slhdsa"}

\* The shape of every type of every package.
LEMMA ReaderShapes ==
  ASSUME NEW r \in Readers
  PROVE  /\ r = [fx |-> r.fx, type |-> r.type]
         /\ \/ /\ r.fx \in Classical
               /\ \/ r.type = "OutputOwners" /\ ShapeOf(r) = OutputOwners
                  \/ r.type = "TransferOutput" /\ ShapeOf(r) = TransferOutput
                  \/ r.type = "TransferInput" /\ ShapeOf(r) = TransferInput
                  \/ r.type = "MintOutput" /\ ShapeOf(r) = MintOutput
                  \/ r.type = "MintOperation" /\ ShapeOf(r) = MintOperation
                  \/ r.type = "Credential" /\ ShapeOf(r) = Credential
            \/ /\ r.fx \in PostQuantum
               /\ \/ r.type = "OutputOwners" /\ ShapeOf(r) = PQOutputOwners
                  \/ r.type = "TransferOutput" /\ ShapeOf(r) = PQTransferOutput
                  \/ r.type = "TransferInput" /\ ShapeOf(r) = TransferInput
                  \/ r.type = "MintOutput" /\ ShapeOf(r) = PQMintOutput
                  \/ r.type = "MintOperation" /\ ShapeOf(r) = MintOperation
                  \/ r.type = "Credential" /\ ShapeOf(r) = Credential
            \/ /\ r.fx = "bls12381"
               /\ \/ r.type = "AttestationOutput" /\ ShapeOf(r) = AttestationOutput
                  \/ r.type = "AttestationInput" /\ ShapeOf(r) = AttestationInput
                  \/ r.type = "Credential" /\ ShapeOf(r) = Credential
            \/ /\ r.fx = "nft"
               /\ \/ r.type = "MintOutput" /\ ShapeOf(r) = NFTMintOutput
                  \/ r.type = "TransferOutput" /\ ShapeOf(r) = NFTTransferOutput
                  \/ r.type = "MintOperation" /\ ShapeOf(r) = NFTMintOperation
                  \/ r.type = "TransferOperation" /\ ShapeOf(r) = NFTTransferOp
                  \/ r.type = "Credential" /\ ShapeOf(r) = Credential
            \/ /\ r.fx = "property"
               /\ \/ r.type = "MintOutput" /\ ShapeOf(r) = MintOutput
                  \/ r.type = "OwnedOutput" /\ ShapeOf(r) = OwnedOutput
                  \/ r.type = "MintOperation" /\ ShapeOf(r) = MintOperation
                  \/ r.type = "BurnOperation" /\ ShapeOf(r) = BurnOperation
                  \/ r.type = "Credential" /\ ShapeOf(r) = Credential
            \/ /\ r.fx = "chain"
               /\ \/ r.type = "UTXO" /\ ShapeOf(r) = UTXO
                  \/ r.type = "LockedOutput" /\ ShapeOf(r) = LockedOutput
                  \/ r.type = "PChainOwner" /\ ShapeOf(r) = PChainOwner
                  \/ r.type = "SignedTx" /\ ShapeOf(r) = SignedTx
                  \/ r.type = "XVMBaseTx" /\ ShapeOf(r) = XVMBaseTx
<1>0. PICK f \in DOMAIN Packages :
        \E t \in DOMAIN Packages[f].shapes : r = [fx |-> f, type |-> t]
  BY DEF Readers
<1>1. PICK t \in DOMAIN Packages[f].shapes : r = [fx |-> f, type |-> t]
  BY <1>0
<1>2. /\ r.fx = f /\ r.type = t /\ r = [fx |-> r.fx, type |-> r.type]
      /\ ShapeOf(r) = Packages[f].shapes[t]
  BY <1>1 DEF ShapeOf
<1>3. \/ f \in Classical /\ Packages[f].shapes = ClassicalShapes
      \/ f \in PostQuantum /\ Packages[f].shapes = PostQuantumShapes
      \/ f = "bls12381" /\ Packages[f].shapes = Bls12381.shapes
      \/ f = "nft" /\ Packages[f].shapes = Nft.shapes
      \/ f = "property" /\ Packages[f].shapes = Property.shapes
      \/ f = "chain" /\ Packages[f].shapes = Chain.shapes
  <2>1. \/ f = "secp256k1" /\ Packages[f] = Secp256k1
        \/ f = "ed25519" /\ Packages[f] = Ed25519
        \/ f = "secp256r1" /\ Packages[f] = Secp256r1
        \/ f = "schnorr" /\ Packages[f] = Schnorr
        \/ f = "mldsa" /\ Packages[f] = Mldsa
        \/ f = "slhdsa" /\ Packages[f] = Slhdsa
        \/ f = "bls12381" /\ Packages[f] = Bls12381
        \/ f = "nft" /\ Packages[f] = Nft
        \/ f = "property" /\ Packages[f] = Property
        \/ f = "chain" /\ Packages[f] = Chain
    BY DEF Packages
  <2>2. /\ Secp256k1.shapes = ClassicalShapes /\ Ed25519.shapes = ClassicalShapes
        /\ Secp256r1.shapes = ClassicalShapes /\ Schnorr.shapes = ClassicalShapes
        /\ Mldsa.shapes = PostQuantumShapes /\ Slhdsa.shapes = PostQuantumShapes
    BY DEF Secp256k1, Ed25519, Secp256r1, Schnorr, Mldsa, Slhdsa, Package
  <2>3. QED
    BY <2>1, <2>2 DEF Classical, PostQuantum
<1>4. CASE f \in Classical /\ Packages[f].shapes = ClassicalShapes
  <2>1. t \in DOMAIN ClassicalShapes /\ ShapeOf(r) = ClassicalShapes[t]
    BY <1>2, <1>4
  <2>2. \/ t = "OutputOwners" /\ ClassicalShapes[t] = OutputOwners
        \/ t = "TransferOutput" /\ ClassicalShapes[t] = TransferOutput
        \/ t = "TransferInput" /\ ClassicalShapes[t] = TransferInput
        \/ t = "MintOutput" /\ ClassicalShapes[t] = MintOutput
        \/ t = "MintOperation" /\ ClassicalShapes[t] = MintOperation
        \/ t = "Credential" /\ ClassicalShapes[t] = Credential
    BY <2>1 DEF ClassicalShapes
  <2>3. QED
    BY <1>2, <1>4, <2>1, <2>2
<1>5. CASE f \in PostQuantum /\ Packages[f].shapes = PostQuantumShapes
  <2>1. t \in DOMAIN PostQuantumShapes /\ ShapeOf(r) = PostQuantumShapes[t]
    BY <1>2, <1>5
  <2>2. \/ t = "OutputOwners" /\ PostQuantumShapes[t] = PQOutputOwners
        \/ t = "TransferOutput" /\ PostQuantumShapes[t] = PQTransferOutput
        \/ t = "TransferInput" /\ PostQuantumShapes[t] = TransferInput
        \/ t = "MintOutput" /\ PostQuantumShapes[t] = PQMintOutput
        \/ t = "MintOperation" /\ PostQuantumShapes[t] = MintOperation
        \/ t = "Credential" /\ PostQuantumShapes[t] = Credential
    BY <2>1 DEF PostQuantumShapes
  <2>3. QED
    BY <1>2, <1>5, <2>1, <2>2
<1>6. CASE f = "bls12381" /\ Packages[f].shapes = Bls12381.shapes
  <2>1. t \in DOMAIN Bls12381.shapes /\ ShapeOf(r) = Bls12381.shapes[t]
    BY <1>2, <1>6
  <2>2. \/ t = "AttestationOutput" /\ Bls12381.shapes[t] = AttestationOutput
        \/ t = "AttestationInput" /\ Bls12381.shapes[t] = AttestationInput
        \/ t = "Credential" /\ Bls12381.shapes[t] = Credential
    BY <2>1 DEF Bls12381, Package
  <2>3. QED
    BY <1>2, <1>6, <2>1, <2>2
<1>7. CASE f = "nft" /\ Packages[f].shapes = Nft.shapes
  <2>1. t \in DOMAIN Nft.shapes /\ ShapeOf(r) = Nft.shapes[t]
    BY <1>2, <1>7
  <2>2. \/ t = "MintOutput" /\ Nft.shapes[t] = NFTMintOutput
        \/ t = "TransferOutput" /\ Nft.shapes[t] = NFTTransferOutput
        \/ t = "MintOperation" /\ Nft.shapes[t] = NFTMintOperation
        \/ t = "TransferOperation" /\ Nft.shapes[t] = NFTTransferOp
        \/ t = "Credential" /\ Nft.shapes[t] = Credential
    BY <2>1 DEF Nft, Package
  <2>3. QED
    BY <1>2, <1>7, <2>1, <2>2
<1>8. CASE f = "property" /\ Packages[f].shapes = Property.shapes
  <2>1. t \in DOMAIN Property.shapes /\ ShapeOf(r) = Property.shapes[t]
    BY <1>2, <1>8
  <2>2. \/ t = "MintOutput" /\ Property.shapes[t] = MintOutput
        \/ t = "OwnedOutput" /\ Property.shapes[t] = OwnedOutput
        \/ t = "MintOperation" /\ Property.shapes[t] = MintOperation
        \/ t = "BurnOperation" /\ Property.shapes[t] = BurnOperation
        \/ t = "Credential" /\ Property.shapes[t] = Credential
    BY <2>1 DEF Property, Package
  <2>3. QED
    BY <1>2, <1>8, <2>1, <2>2
<1>9. CASE f = "chain" /\ Packages[f].shapes = Chain.shapes
  <2>1. t \in DOMAIN Chain.shapes /\ ShapeOf(r) = Chain.shapes[t]
    BY <1>2, <1>9
  <2>2. \/ t = "UTXO" /\ Chain.shapes[t] = UTXO
        \/ t = "LockedOutput" /\ Chain.shapes[t] = LockedOutput
        \/ t = "PChainOwner" /\ Chain.shapes[t] = PChainOwner
        \/ t = "SignedTx" /\ Chain.shapes[t] = SignedTx
        \/ t = "XVMBaseTx" /\ Chain.shapes[t] = XVMBaseTx
    BY <2>1 DEF Chain, Package
  <2>3. QED
    BY <1>2, <1>9, <2>1, <2>2
<1>10. QED
  BY <1>3, <1>4, <1>5, <1>6, <1>7, <1>8, <1>9, Zenon
-----------------------------------------------------------------------------
\* What the table of a shape says first.
Told(shape, code, kind, fields) ==
  shape.code = code /\ shape.kind = kind /\ DOMAIN shape.fields = fields

\* What each table tells.
LEMMA ShapeTables ==
  /\ Told(OutputOwners, 9, AnyKind, {"locktime", "threshold", "addrs"})
  /\ Told(TransferOutput, 1, OwnedKind, {"amount", "locktime", "threshold", "addrs"})
  /\ Told(TransferInput, 2, OwnedKind, {"amount", "sigIndices"})
  /\ Told(MintOutput, 3, OwnedKind, {"locktime", "threshold", "addrs"})
  /\ Told(MintOperation, 5, OwnedKind, {"sigIndices", "mintOutput", "transferOutput"})
  /\ Told(Credential, 6, OwnedKind, {"level", "sigs", "pubKeys"})
  /\ Told(PQOutputOwners, 15, OwnedKind, {"level", "locktime", "threshold", "addrs"})
  /\ Told(PQTransferOutput, 16, OwnedKind, {"level", "amount", "locktime", "threshold",
          "addrs"})
  /\ Told(PQMintOutput, 17, OwnedKind, {"level", "locktime", "threshold", "addrs"})
  /\ Told(AttestationOutput, 7, AttestationKind, {"hash", "threshold", "pubKeys"})
  /\ Told(AttestationInput, 8, AttestationKind, {"signers"})
  /\ Told(NFTMintOutput, 16, OwnedKind, {"groupID", "locktime", "threshold", "addrs"})
  /\ Told(NFTTransferOutput, 17, OwnedKind, {"groupID", "locktime", "threshold", "addrs",
          "payload"})
  /\ Told(NFTMintOperation, 19, OwnedKind, {"sigIndices", "groupID", "payload", "count",
          "outputs"})
  /\ Told(NFTTransferOp, 20, OwnedKind, {"sigIndices", "holds"})
  /\ Told(OwnedOutput, 21, OwnedKind, {"locktime", "threshold", "addrs"})
  /\ Told(BurnOperation, 22, OwnedKind, {"sigIndices"})
  /\ Told(UTXO, 10, AnyKind, {"txID", "outputIndex", "assetID", "holds"})
  /\ Told(LockedOutput, 15, AnyKind, {"locktime", "holds"})
  /\ Told(PChainOwner, 13, AnyKind, {"threshold", "addrs"})
  /\ Told(SignedTx, 14, AnyKind, {"unsigned", "count", "creds"})
  /\ Told(XVMBaseTx, 18, AnyKind, {"networkID", "blockchainID", "outs", "ins", "memo"})
  /\ Told(TransferableOut, 0, AnyKind, {"assetID", "holds"})
  /\ Told(TransferableIn, 0, AnyKind, {"txID", "outputIndex", "assetID", "holds"})
  BY DEF Told, Shape,
         OutputOwners, TransferOutput, TransferInput, MintOutput, MintOperation, Credential,
         PQOutputOwners, PQTransferOutput, PQMintOutput, AttestationOutput, AttestationInput,
         NFTMintOutput, NFTTransferOutput, NFTMintOperation, NFTTransferOp, OwnedOutput,
         BurnOperation, UTXO, LockedOutput, PChainOwner, SignedTx, XVMBaseTx, TransferableOut,
         TransferableIn

\* The fields of a shape lie one beside the other.
Apart(shape) ==
  \A f \in DOMAIN shape.fields :
    /\ shape.fields[f].at \in Nat /\ shape.fields[f].width \in Nat
    /\ shape.fields[f].at + shape.fields[f].width <= shape.size
    /\ \A g \in DOMAIN shape.fields : g # f =>
         \/ shape.fields[f].at + shape.fields[f].width <= shape.fields[g].at
         \/ shape.fields[g].at + shape.fields[g].width <= shape.fields[f].at

\* The fields of a shape are apart, and all of them are in its fixed section.
LEMMA FieldsApart ==
  /\ Apart(OutputOwners) /\ Apart(TransferOutput) /\ Apart(TransferInput)
  /\ Apart(MintOutput) /\ Apart(MintOperation) /\ Apart(Credential)
  /\ Apart(PQOutputOwners) /\ Apart(PQTransferOutput) /\ Apart(PQMintOutput)
  /\ Apart(AttestationOutput) /\ Apart(AttestationInput) /\ Apart(NFTMintOutput)
  /\ Apart(NFTTransferOutput) /\ Apart(NFTMintOperation) /\ Apart(NFTTransferOp)
  /\ Apart(OwnedOutput) /\ Apart(BurnOperation) /\ Apart(UTXO)
  /\ Apart(LockedOutput) /\ Apart(PChainOwner) /\ Apart(SignedTx)
  /\ Apart(XVMBaseTx) /\ Apart(TransferableOut) /\ Apart(TransferableIn)
<1> USE DEF Apart, Shape, Number, List, Bytes, AddressStride, SigIndexStride, KeyStride
<1>1. Apart(OutputOwners) /\ Apart(TransferOutput) /\ Apart(TransferInput)
  BY DEF OutputOwners, TransferOutput, TransferInput
<1>2. Apart(MintOutput) /\ Apart(MintOperation) /\ Apart(Credential)
  BY DEF MintOutput, MintOperation, Credential
<1>3. Apart(PQOutputOwners) /\ Apart(PQTransferOutput) /\ Apart(PQMintOutput)
  BY DEF PQOutputOwners, PQTransferOutput, PQMintOutput
<1>4. Apart(AttestationOutput) /\ Apart(AttestationInput) /\ Apart(NFTMintOutput)
  BY DEF AttestationOutput, AttestationInput, NFTMintOutput
<1>5. Apart(NFTTransferOutput) /\ Apart(NFTMintOperation) /\ Apart(NFTTransferOp)
  BY DEF NFTTransferOutput, NFTMintOperation, NFTTransferOp
<1>6. Apart(OwnedOutput) /\ Apart(BurnOperation) /\ Apart(UTXO)
  BY DEF OwnedOutput, BurnOperation, UTXO
<1>7. Apart(LockedOutput) /\ Apart(PChainOwner) /\ Apart(SignedTx)
  BY DEF LockedOutput, PChainOwner, SignedTx
<1>8. Apart(XVMBaseTx) /\ Apart(TransferableOut) /\ Apart(TransferableIn)
  BY DEF XVMBaseTx, TransferableOut, TransferableIn
<1>9. QED
  BY <1>1, <1>2, <1>3, <1>4, <1>5, <1>6, <1>7, <1>8

\* A field that is apart from the others is not written over.
LEMMA IntactFields ==
  ASSUME NEW shape, Apart(shape), NEW f \in DOMAIN shape.fields
  PROVE  Intact(shape, f)
<1>1. shape.fields[f].at + shape.fields[f].width <= shape.size
  BY DEF Apart
<1>2. ASSUME NEW g \in DOMAIN shape.fields, g # f
      PROVE  Places(shape.fields[f]) \cap Places(shape.fields[g]) = {}
  <2> DEFINE a == shape.fields[f].at
             m == shape.fields[f].width
             b == shape.fields[g].at
             n == shape.fields[g].width
  <2>1. /\ a \in Nat /\ m \in Nat /\ b \in Nat /\ n \in Nat
        /\ a + m <= b \/ b + n <= a
    BY <1>2 DEF Apart
  <2> HIDE DEF a, m, b, n
  <2>2. (a..(a + m - 1)) \cap (b..(b + n - 1)) = {}
    BY <2>1
  <2>3. QED
    BY <2>2 DEF Places, a, m, b, n
<1>3. QED
  BY <1>1, <1>2 DEF Intact

\* A set of five things, or fewer, is finite.
LEMMA FiveAreFinite ==
  ASSUME NEW a, NEW b, NEW c, NEW d, NEW e
  PROVE  IsFiniteSet({a, b, c, d, e})
<1>1. IsFiniteSet({a} \cup {b}) /\ IsFiniteSet({c} \cup {d}) /\ IsFiniteSet({e})
  BY FS_Singleton, FS_Union
<1>2. IsFiniteSet((({a} \cup {b}) \cup ({c} \cup {d})) \cup {e})
  BY <1>1, FS_Union
<1>3. (({a} \cup {b}) \cup ({c} \cup {d})) \cup {e} = {a, b, c, d, e}
  OBVIOUS
<1>4. QED
  BY <1>2, <1>3

-----------------------------------------------------------------------------
(* Packages.                                                               *)

Fxs == Classical \cup PostQuantum \cup {"bls12381", "nft", "property", "chain"}

\* The package of a TypeKind.
FxOf(tk) ==
  CASE tk = 0 -> "chain" [] tk = 1 -> "secp256k1" [] tk = 2 -> "mldsa" [] tk = 3 -> "slhdsa"
    [] tk = 4 -> "ed25519" [] tk = 5 -> "secp256r1" [] tk = 6 -> "schnorr"
    [] tk = 7 -> "bls12381" [] tk = 8 -> "nft" [] tk = 9 -> "property"

\* Every package has a TypeKind of its own.
LEMMA PackageKinds ==
  ASSUME NEW f \in DOMAIN Packages
  PROVE  /\ f \in Fxs /\ f = FxOf(Packages[f].tk)
         /\ f # "chain" => Packages[f].tk # TypeKind.reserved
         /\ f = "bls12381" => Packages[f].tk = TypeKind.bls12381
         /\ f # "bls12381" => Packages[f].tk # TypeKind.bls12381
  BY DEF Packages, Secp256k1, Ed25519, Secp256r1, Schnorr, Mldsa, Slhdsa, Bls12381, Nft,
         Property, Chain, Package, TypeKind, FxOf, Fxs, Classical, PostQuantum

\* Who may own an envelope of a shape.
LEMMA ReaderKinds ==
  ASSUME NEW r \in Readers
  PROVE  /\ r.fx \in DOMAIN Packages
         /\ ShapeOf(r).kind \in {AnyKind, OwnedKind, AttestationKind}
         /\ ShapeOf(r).kind = AttestationKind => r.fx = "bls12381"
         /\ ShapeOf(r).kind = OwnedKind => r.fx # "chain"
         /\ ShapeOf(r).kind = AnyKind =>
              \/ r.fx = "chain"
              \/ r.fx \in Classical /\ r.type = "OutputOwners" /\ ShapeOf(r) = OutputOwners
<1>1. r.fx \in DOMAIN Packages
  BY DEF Readers
<1>2. /\ OutputOwners.kind = AnyKind /\ UTXO.kind = AnyKind /\ LockedOutput.kind = AnyKind
      /\ PChainOwner.kind = AnyKind /\ SignedTx.kind = AnyKind /\ XVMBaseTx.kind = AnyKind
      /\ TransferableOut.kind = AnyKind /\ TransferableIn.kind = AnyKind
      /\ AttestationOutput.kind = AttestationKind
      /\ AttestationInput.kind = AttestationKind
      /\ TransferOutput.kind = OwnedKind /\ TransferInput.kind = OwnedKind
      /\ MintOutput.kind = OwnedKind /\ MintOperation.kind = OwnedKind
      /\ Credential.kind = OwnedKind /\ PQOutputOwners.kind = OwnedKind
      /\ PQTransferOutput.kind = OwnedKind /\ PQMintOutput.kind = OwnedKind
      /\ NFTMintOutput.kind = OwnedKind /\ NFTTransferOutput.kind = OwnedKind
      /\ NFTMintOperation.kind = OwnedKind /\ NFTTransferOp.kind = OwnedKind
      /\ OwnedOutput.kind = OwnedKind /\ BurnOperation.kind = OwnedKind
  BY ShapeTables DEF Told
<1>3. AnyKind # OwnedKind /\ AnyKind # AttestationKind /\ OwnedKind # AttestationKind
  BY DEF AnyKind, OwnedKind, AttestationKind
<1>4. Classical \cap {"chain"} = {} /\ PostQuantum \cap {"chain"} = {}
  BY DEF Classical, PostQuantum
<1>5. QED
  BY <1>1, <1>2, <1>3, <1>4, ReaderShapes

\* The names of the fields.
FieldNames ==
  (({"locktime", "threshold", "addrs", "amount", "sigIndices"}
      \cup {"mintOutput", "transferOutput", "level", "sigs", "pubKeys"})
    \cup ({"hash", "signers", "groupID", "payload", "count"}
      \cup {"outputs", "holds", "txID", "outputIndex", "assetID"}))
  \cup ({"unsigned", "creds", "networkID", "blockchainID", "outs"}
      \cup {"ins", "memo", "memo", "memo", "memo"})

\* A message has a number of fields.
LEMMA FieldsFinite ==
  ASSUME NEW S \in SUBSET FieldNames
  PROVE  IsFiniteSet(S) /\ Cardinality(S) \in Nat
<1>1. IsFiniteSet(FieldNames)
  BY FiveAreFinite, FS_Union, Zenon DEF FieldNames
<1>2. QED
  BY <1>1, FS_Subset, FS_CardinalityType

\* The fields of every shape that is read.
LEMMA ReaderFields ==
  ASSUME NEW r \in Readers
  PROVE  /\ Apart(ShapeOf(r))
         /\ DOMAIN ShapeOf(r).fields \subseteq FieldNames
<1>1. Apart(ShapeOf(r))
  BY ReaderShapes, FieldsApart
<1>2. DOMAIN ShapeOf(r).fields \subseteq FieldNames
  BY ReaderShapes, ShapeTables DEF Told, FieldNames
<1>3. QED
  BY <1>1, <1>2

\* The type that the two bytes of the prefix tell.
Named(code, tk) ==
  CASE code \in {1, 16} /\ tk # TypeKind.nft -> "TransferOutput"
    [] code = 2 -> "TransferInput"
    [] code \in {3, 17} /\ tk # TypeKind.nft -> "MintOutput"
    [] code \in {5, 19} -> "MintOperation"
    [] code = 6 -> "Credential"
    [] code = 7 -> "AttestationOutput"
    [] code = 8 -> "AttestationInput"
    [] code = 9 -> "OutputOwners"
    [] code = 10 -> "UTXO"
    [] code = 13 -> "PChainOwner"
    [] code = 14 -> "SignedTx"
    [] code = 15 /\ tk = TypeKind.reserved -> "LockedOutput"
    [] code = 15 /\ tk # TypeKind.reserved -> "OutputOwners"
    [] code = 16 /\ tk = TypeKind.nft -> "MintOutput"
    [] code = 17 /\ tk = TypeKind.nft -> "TransferOutput"
    [] code = 18 -> "XVMBaseTx"
    [] code = 20 -> "TransferOperation"
    [] code = 21 -> "OwnedOutput"
    [] code = 22 -> "BurnOperation"

\* The code of a shape and its TypeKind tell the type.
LEMMA ReaderNames ==
  ASSUME NEW r \in Readers
  PROVE  r.type = Named(ShapeOf(r).code, TypeKindOf(r))
<1>1. /\ OutputOwners.code = 9 /\ TransferOutput.code = 1 /\ TransferInput.code = 2
      /\ MintOutput.code = 3 /\ MintOperation.code = 5 /\ Credential.code = 6
      /\ PQOutputOwners.code = 15 /\ PQTransferOutput.code = 16 /\ PQMintOutput.code = 17
      /\ AttestationOutput.code = 7 /\ AttestationInput.code = 8
      /\ NFTMintOutput.code = 16 /\ NFTTransferOutput.code = 17
      /\ NFTMintOperation.code = 19 /\ NFTTransferOp.code = 20 /\ OwnedOutput.code = 21
      /\ BurnOperation.code = 22 /\ UTXO.code = 10 /\ LockedOutput.code = 15
      /\ PChainOwner.code = 13 /\ SignedTx.code = 14 /\ XVMBaseTx.code = 18
      /\ TransferableOut.code = 0 /\ TransferableIn.code = 0
  BY ShapeTables DEF Told
<1>2. /\ r.fx \in PostQuantum => TypeKindOf(r) \notin {0, 8}
      /\ r.fx = "nft" => TypeKindOf(r) = 8
      /\ r.fx \in Classical \cup {"bls12381", "property", "chain"} => TypeKindOf(r) # 8
      /\ r.fx = "chain" => TypeKindOf(r) = 0
  <2>1. /\ r.fx \in PostQuantum => Packages[r.fx].tk \in {2, 3}
        /\ r.fx = "nft" => Packages[r.fx].tk = 8
        /\ r.fx \in Classical \cup {"bls12381", "property", "chain"} => Packages[r.fx].tk # 8
        /\ r.fx = "chain" => Packages[r.fx].tk = 0
    BY DEF Packages, Secp256k1, Ed25519, Secp256r1, Schnorr, Mldsa, Slhdsa, Bls12381, Nft,
           Property, Chain, Package, TypeKind, Classical, PostQuantum
  <2>2. r.fx \in PostQuantum \cup {"nft"} => r.fx # "chain" /\ r.fx \notin Classical
    BY DEF Classical, PostQuantum
  <2>3. TypeKind.reserved = 0
    BY DEF TypeKind
  <2>4. QED
    BY <2>1, <2>2, <2>3, ReaderKinds DEF TypeKindOf
<1>3. TypeKind.reserved = 0 /\ TypeKind.nft = 8
  BY DEF TypeKind
<1>4. QED
  BY <1>1, <1>2, <1>3, ReaderShapes DEF Named

\* What the type says of the fields.
LEMMA ReaderParts ==
  ASSUME NEW r \in Readers
  PROVE  /\ ("sigs" \in DOMAIN ShapeOf(r).fields) = (r.type = "Credential")
         /\ (ShapeOf(r).code = 6) = (r.type = "Credential")
         /\ r.type = "Credential" => ShapeOf(r) = Credential
         /\ "addrs" \in DOMAIN ShapeOf(r).fields => "threshold" \in DOMAIN ShapeOf(r).fields
         /\ "level" \in DOMAIN ShapeOf(r).fields =>
              r.type = "Credential" \/ "addrs" \in DOMAIN ShapeOf(r).fields
         /\ r.type \notin {"none", "AllCredentials", "CredentialAt", "OutAt", "InAt"}
  BY ReaderShapes, ShapeTables DEF Told

\* The shapes of what holds something else.
LEMMA HoldingShapes ==
  ASSUME NEW r \in Readers
  PROVE  /\ r.type = "MintOperation" /\ r.fx # "nft" =>
              ShapeOf(r) = MintOperation /\ r.fx # "chain" /\ r.fx # "bls12381"
         /\ r.type = "MintOperation" /\ r.fx = "nft" => ShapeOf(r) = NFTMintOperation
         /\ r.type = "TransferOperation" => r.fx = "nft" /\ ShapeOf(r) = NFTTransferOp
         /\ r.type = "UTXO" => r.fx = "chain" /\ ShapeOf(r) = UTXO
         /\ r.type = "LockedOutput" => r.fx = "chain" /\ ShapeOf(r) = LockedOutput
         /\ r.type = "SignedTx" => r.fx = "chain" /\ ShapeOf(r) = SignedTx
         /\ r.type = "XVMBaseTx" => r.fx = "chain" /\ ShapeOf(r) = XVMBaseTx
  BY ReaderShapes DEF Classical, PostQuantum

-----------------------------------------------------------------------------
(* Envelopes.                                                              *)

\* A whole envelope is as long as its header says.
Whole(e) ==
  /\ e \in Seq(Range(e)) /\ Len(e) >= BodyAt
  /\ e[EnvelopePrefix + HeaderSize].byte = Len(e) - EnvelopePrefix

\* A value whose message has a length.
Sized(val) ==
  /\ Cardinality(DOMAIN val) \in Nat
  /\ "sigs" \in DOMAIN val => Len(val.sigs) \in Nat

\* What the two bytes and the body of an envelope are.
EnvelopeOf(e, o, val) ==
  /\ Whole(e)
  /\ e[1].byte = TypeKindOf(o) /\ e[2].byte = ShapeOf(o).code
  /\ e[BodyAt] = [shape |-> ShapeOf(o), val |-> val, stride |-> Stride(o)]

\* A sequence is one of its own elements.
LEMMA SequenceOfRange ==
  ASSUME NEW S, NEW s \in Seq(S)
  PROVE  s \in Seq(Range(s))
<1>1. Len(s) \in Nat /\ s = [i \in 1..Len(s) |-> s[i]] /\ DOMAIN s = 1..Len(s)
  OBVIOUS
<1>2. \A i \in 1..Len(s) : s[i] \in Range(s)
  BY <1>1 DEF Range
<1>3. [i \in 1..Len(s) |-> s[i]] \in Seq(Range(s))
  BY <1>1, <1>2
<1>4. QED
  BY <1>1, <1>3

\* The parts of what is joined.
LEMMA Joined ==
  ASSUME NEW S, NEW a \in Seq(S), NEW b \in Seq(S)
  PROVE  /\ a \o b \in Seq(S) /\ Len(a \o b) = Len(a) + Len(b)
         /\ \A i \in 1..Len(a) : (a \o b)[i] = a[i]
         /\ \A j \in 1..Len(b) : (a \o b)[Len(a) + j] = b[j]
<1>1. Len(a) \in Nat /\ Len(b) \in Nat
  OBVIOUS
<1>2. /\ a \o b \in Seq(S) /\ Len(a \o b) = Len(a) + Len(b)
      /\ \A i \in 1..Len(a) + Len(b) :
           (a \o b)[i] = IF i <= Len(a) THEN a[i] ELSE b[i - Len(a)]
  BY ConcatProperties
<1>3. QED
  BY <1>1, <1>2

\* Where the parts of an envelope are.
LEMMA EnvelopeCells ==
  ASSUME NEW o, NEW val, Sized(val)
  PROVE  EnvelopeOf(Envelope(o, val), o, val)
<1> DEFINE body == 1 + Cardinality(DOMAIN val)
                     + IF "sigs" \in DOMAIN val THEN Len(val.sigs) ELSE 0
           cell == [shape |-> ShapeOf(o), val |-> val, stride |-> Stride(o)]
           S == {[byte |-> 0], [byte |-> HeaderSize + body], cell,
                 [byte |-> TypeKindOf(o)], [byte |-> ShapeOf(o).code]}
           prefix == <<[byte |-> TypeKindOf(o)], [byte |-> ShapeOf(o).code]>>
           fill == Cells(HeaderSize - 1)
           size == <<[byte |-> HeaderSize + body]>>
           content == [i \in 1..body |-> cell]
           e == prefix \o (fill \o size \o content)
<1>1. Envelope(o, val) = e
  BY DEF Envelope, writeEnvelopePrefix, Message
<1>2. HeaderSize \in Nat \ {0} /\ body \in Nat \ {0}
  BY WireAssumption DEF Sized
<1>3. /\ prefix \in Seq(S) /\ Len(prefix) = 2
      /\ prefix[1] = [byte |-> TypeKindOf(o)] /\ prefix[2] = [byte |-> ShapeOf(o).code]
  OBVIOUS
<1>4. fill \in Seq(S) /\ Len(fill) = HeaderSize - 1
  BY <1>2 DEF Cells
<1>5. size \in Seq(S) /\ Len(size) = 1 /\ size[1] = [byte |-> HeaderSize + body]
  OBVIOUS
<1>6. content \in Seq(S) /\ Len(content) = body /\ content[1] = cell
  BY <1>2
<1> HIDE DEF body, cell, S, prefix, fill, size, content
<1>7. /\ fill \o size \in Seq(S) /\ Len(fill \o size) = HeaderSize
      /\ (fill \o size)[HeaderSize] = [byte |-> HeaderSize + body]
  <2>1. (HeaderSize - 1) + 1 = HeaderSize /\ 1 \in 1..1
    BY <1>2
  <2>2. QED
    BY <1>2, <1>4, <1>5, <2>1, Joined
<1> DEFINE head == fill \o size
<1> HIDE DEF head
<1>8. head \in Seq(S) /\ Len(head) = HeaderSize
      /\ head[HeaderSize] = [byte |-> HeaderSize + body]
  BY <1>7 DEF head
<1> DEFINE message == head \o content
<1>9. /\ message \in Seq(S) /\ Len(message) = HeaderSize + body
      /\ message[HeaderSize] = [byte |-> HeaderSize + body]
      /\ message[HeaderSize + 1] = cell
  <2>1. /\ message \in Seq(S) /\ Len(message) = Len(head) + Len(content)
        /\ \A i \in 1..Len(head) : message[i] = head[i]
        /\ \A j \in 1..Len(content) : message[Len(head) + j] = content[j]
    <3>1. head \in Seq(S) /\ content \in Seq(S)
      BY <1>6, <1>8
    <3> HIDE DEF message
    <3>2. QED
      BY <3>1, Joined DEF message
  <2> HIDE DEF message
  <2>2. HeaderSize \in 1..Len(head) /\ 1 \in 1..Len(content)
    BY <1>2, <1>6, <1>8
  <2>3. QED
    BY <1>6, <1>8, <2>1, <2>2
<1> HIDE DEF message
<1>10. e = prefix \o message
  BY DEF message, head
<1>11. /\ e \in Seq(S) /\ Len(e) = 2 + (HeaderSize + body)
       /\ e[1] = [byte |-> TypeKindOf(o)] /\ e[2] = [byte |-> ShapeOf(o).code]
       /\ e[2 + HeaderSize] = [byte |-> HeaderSize + body]
       /\ e[2 + (HeaderSize + 1)] = cell
  <2>1. /\ prefix \o message \in Seq(S) /\ Len(prefix \o message) = Len(prefix) + Len(message)
        /\ \A i \in 1..Len(prefix) : (prefix \o message)[i] = prefix[i]
        /\ \A j \in 1..Len(message) : (prefix \o message)[Len(prefix) + j] = message[j]
    <3>1. prefix \in Seq(S) /\ message \in Seq(S)
      BY <1>3, <1>9
    <3>2. QED
      BY <3>1, Joined
  <2>2. /\ e \in Seq(S) /\ Len(e) = Len(prefix) + Len(message)
        /\ \A i \in 1..Len(prefix) : e[i] = prefix[i]
        /\ \A j \in 1..Len(message) : e[Len(prefix) + j] = message[j]
    BY <1>10, <2>1, Zenon
  <2> HIDE DEF e
  <2>3. /\ 1 \in 1..Len(prefix) /\ 2 \in 1..Len(prefix)
        /\ HeaderSize \in 1..Len(message) /\ HeaderSize + 1 \in 1..Len(message)
    BY <1>2, <1>3, <1>9
  <2>4. QED
    BY <1>3, <1>9, <2>2, <2>3
<1> HIDE DEF e
<1>12. e \in Seq(Range(e))
  BY <1>11, SequenceOfRange
<1>13. QED
  BY <1>1, <1>2, <1>11, <1>12 DEF EnvelopeOf, Whole, EnvelopePrefix, BodyAt, cell

\* A buffer with a whole envelope at its beginning.
Begins(b, e) ==
  b \in Seq(Range(b)) /\ Len(e) <= Len(b) /\ \A i \in 1..Len(e) : b[i] = e[i]

\* The message after the prefix.
LEMMA AfterPrefix ==
  ASSUME NEW S, NEW b \in Seq(S), Len(b) >= 2
  PROVE  /\ Len(Tail(Tail(b))) = Len(b) - 2
         /\ \A i \in 1..(Len(b) - 2) : Tail(Tail(b))[i] = b[i + 2]
<1>1. Len(b) \in Nat
  OBVIOUS
<1>2. /\ Tail(b) \in Seq(S) /\ Len(Tail(b)) = Len(b) - 1
      /\ \A i \in 1..(Len(b) - 1) : Tail(b)[i] = b[i + 1]
  BY <1>1, HeadTailProperties
<1> DEFINE t == Tail(b)
<1> HIDE DEF t
<1>3. /\ t \in Seq(S) /\ Len(t) = Len(b) - 1
      /\ \A i \in 1..(Len(b) - 1) : t[i] = b[i + 1]
  BY <1>2 DEF t
<1>4. Len(Tail(t)) = Len(t) - 1 /\ \A i \in 1..(Len(t) - 1) : Tail(t)[i] = t[i + 1]
  BY <1>1, <1>3, HeadTailProperties
<1>5. Len(Tail(t)) = Len(b) - 2 /\ \A i \in 1..(Len(b) - 2) : Tail(t)[i] = b[i + 2]
  BY <1>1, <1>3, <1>4
<1>6. QED
  BY <1>5 DEF t

\* A whole envelope is refused for its two bytes only.
LEMMA WholeIsRead ==
  ASSUME NEW e, NEW o, NEW val, EnvelopeOf(e, o, val), NEW b, Begins(b, e)
  PROVE  /\ b[1].byte = TypeKindOf(o) /\ b[2].byte = ShapeOf(o).code
         /\ b[BodyAt] = [shape |-> ShapeOf(o), val |-> val, stride |-> Stride(o)]
         /\ \A shape : (Refusal(shape, b) = "none") =
              (ShapeOf(o).code = shape.code /\ ~WrongTypeKind(shape, TypeKindOf(o)))
<1>1. HeaderSize \in Nat /\ BodyAt \in 1..Len(e) /\ 1 \in 1..Len(e) /\ 2 \in 1..Len(e)
      /\ 2 + HeaderSize \in 1..Len(e) /\ Len(e) \in Nat /\ Len(b) \in Nat /\ Len(e) <= Len(b)
  BY WireAssumption DEF EnvelopeOf, Whole, Begins, BodyAt, EnvelopePrefix
<1>2. /\ b[1] = e[1] /\ b[2] = e[2] /\ b[BodyAt] = e[BodyAt]
      /\ b[2 + HeaderSize] = e[2 + HeaderSize]
  BY <1>1 DEF Begins
<1>3. /\ b[1].byte = TypeKindOf(o) /\ b[2].byte = ShapeOf(o).code
      /\ b[BodyAt] = [shape |-> ShapeOf(o), val |-> val, stride |-> Stride(o)]
      /\ b[2 + HeaderSize].byte = Len(e) - 2
  BY <1>2 DEF EnvelopeOf, Whole, EnvelopePrefix
<1>4. Parses(Tail(Tail(b)))
  <2>1. Len(b) >= 2 + HeaderSize + 1 /\ Len(b) >= 2 /\ HeaderSize \in 1..(Len(b) - 2)
    BY <1>1, WireAssumption DEF EnvelopeOf, Whole, BodyAt, EnvelopePrefix
  <2>2. Len(Tail(Tail(b))) = Len(b) - 2 /\ Tail(Tail(b))[HeaderSize] = b[HeaderSize + 2]
    BY <2>1, AfterPrefix DEF Begins
  <2>3. HeaderSize + 2 = 2 + HeaderSize
    BY <1>1
  <2>4. QED
    BY <1>1, <1>3, <2>1, <2>2, <2>3 DEF Parses
<1>5. ~(Len(b) < EnvelopePrefix)
  BY <1>1 DEF EnvelopePrefix
<1>6. QED
  BY <1>3, <1>4, <1>5 DEF Refusal

\* A part of one is always refused.
LEMMA PartIsRefused ==
  ASSUME NEW e, Whole(e), NEW n \in 0..(Len(e) - 1), NEW shape
  PROVE  Refusal(shape, SubSeq(e, 1, n)) # "none"
<1> DEFINE b == SubSeq(e, 1, n)
<1>1. HeaderSize \in Nat \ {0} /\ Len(e) \in Nat /\ n \in Nat /\ n < Len(e)
  BY WireAssumption DEF Whole
<1>2. b \in Seq(Range(e)) /\ Len(b) = n /\ \A i \in 1..n : b[i] = e[i]
  BY <1>1 DEF Whole
<1> HIDE DEF b
<1>3. CASE n < 2
  BY <1>2, <1>3 DEF Refusal, EnvelopePrefix, b
<1>4. CASE n >= 2
  <2> DEFINE z == Tail(Tail(b))
  <2>1. Len(z) = n - 2 /\ \A i \in 1..(n - 2) : z[i] = b[i + 2]
    BY <1>2, <1>4, AfterPrefix
  <2> HIDE DEF z
  <2>2. Len(z) >= HeaderSize => z[HeaderSize].byte = Len(e) - 2
    <3>1. ASSUME Len(z) >= HeaderSize
          PROVE  z[HeaderSize] = e[HeaderSize + 2]
      BY <1>1, <1>2, <1>4, <2>1, <3>1
    <3>2. HeaderSize + 2 = EnvelopePrefix + HeaderSize
      BY <1>1 DEF EnvelopePrefix
    <3>3. QED
      BY <3>1, <3>2 DEF Whole, EnvelopePrefix
  <2>3. ~Parses(z)
    BY <1>1, <2>1, <2>2 DEF Parses
  <2>4. QED
    BY <2>3 DEF Refusal, z, b
<1>5. QED
  BY <1>1, <1>3, <1>4

-----------------------------------------------------------------------------
(* What is sent.                                                           *)

\* A function over some fields has these for its domain.
LEMMA FieldsOf ==
  ASSUME NEW val, NEW fields, HasFields(val, fields)
  PROVE  DOMAIN val = fields
<1>1. DOMAIN [f \in fields |-> val[f]] = fields
  OBVIOUS
<1>2. QED
  BY <1>1 DEF HasFields

\* A value that holds no other: its type, its fields, and their types.
LEMMA PlainParts ==
  ASSUME NEW o, IsPlain(o)
  PROVE  /\ TypeOf(o) \in Readers /\ o.type \notin Holding
         /\ TypeOf(o).fx = o.fx /\ TypeOf(o).type = o.type
         /\ ShapeOf(TypeOf(o)) = ShapeOf(o) /\ TypeKindOf(TypeOf(o)) = TypeKindOf(o)
         /\ DOMAIN o.val = DOMAIN ShapeOf(o).fields
         /\ Fields(o) = o.val /\ ToBytes(o) = Leaf(o)
         /\ "sigs" \in DOMAIN o.val => o.val.sigs \in Seq(Part) /\ o.type = "Credential"
         /\ "addrs" \in DOMAIN o.val => o.val.addrs \in Seq(Nat) /\ o.val.threshold \in Nat
         /\ "level" \in DOMAIN o.val => o.val.level \in Nat
         /\ Sized(o.val)
<1>1. /\ TypeOf(o) \in Readers /\ o.type \notin Holding
      /\ HasFields(o.val, DOMAIN ShapeOf(o).fields)
      /\ \A f \in DOMAIN o.val : o.val[f] \in FieldType(f)
  BY DEF IsPlain
<1>2. /\ TypeOf(o).fx = o.fx /\ TypeOf(o).type = o.type
      /\ ShapeOf(TypeOf(o)) = ShapeOf(o)
  BY DEF TypeOf, ShapeOf
<1>3. TypeKindOf(TypeOf(o)) = TypeKindOf(o)
  BY <1>2 DEF TypeKindOf
<1>4. DOMAIN o.val = DOMAIN ShapeOf(o).fields
  BY <1>1, FieldsOf
<1>5. Fields(o) = o.val
  BY <1>1 DEF Fields, Holding
<1>6. /\ FieldType("sigs") = Seq(Part) /\ FieldType("addrs") = Seq(Nat)
      /\ FieldType("threshold") = Nat /\ FieldType("level") = Nat
  BY DEF FieldType
<1>7. /\ "sigs" \in DOMAIN o.val => o.type = "Credential"
      /\ "addrs" \in DOMAIN o.val => "threshold" \in DOMAIN o.val
      /\ DOMAIN o.val \subseteq FieldNames
  BY <1>1, <1>2, <1>4, ReaderParts, ReaderFields
<1>8. "sigs" \in DOMAIN o.val => o.val.sigs \in Seq(Part)
  BY <1>1, <1>6
<1>9. Sized(o.val)
  <2>1. Cardinality(DOMAIN o.val) \in Nat
    BY <1>7, FieldsFinite
  <2>2. QED
    BY <1>8, <2>1 DEF Sized
<1>10. QED
  BY <1>1, <1>2, <1>3, <1>4, <1>5, <1>6, <1>7, <1>8, <1>9 DEF ToBytes, Leaf

\* The envelope of one.
LEMMA LeafIsEnvelope ==
  ASSUME NEW o, IsPlain(o)
  PROVE  EnvelopeOf(Leaf(o), o, o.val)
  BY PlainParts, EnvelopeCells DEF Leaf

\* What is sent has a type; it is plain or of a type that holds something.
LEMMA ObjectTypes ==
  ASSUME NEW o, IsObject(o)
  PROVE  /\ TypeOf(o) \in Readers /\ (IsPlain(o) \/ o.type \in Holding)
         /\ TypeOf(o).fx = o.fx /\ TypeOf(o).type = o.type
         /\ ShapeOf(TypeOf(o)) = ShapeOf(o) /\ TypeKindOf(TypeOf(o)) = TypeKindOf(o)
<1>1. TypeOf(o) \in Readers /\ (IsPlain(o) \/ o.type \in Holding)
  BY DEF IsObject, IsPlain, Holding
<1>2. /\ TypeOf(o).fx = o.fx /\ TypeOf(o).type = o.type
      /\ ShapeOf(TypeOf(o)) = ShapeOf(o)
  BY DEF TypeOf, ShapeOf
<1>3. TypeKindOf(TypeOf(o)) = TypeKindOf(o)
  BY <1>2 DEF TypeKindOf
<1>4. QED
  BY <1>1, <1>2, <1>3

\* A value that is not plain, by its type.
LEMMA HeldParts ==
  ASSUME NEW o, IsObject(o), o.type \in Holding
  PROVE  /\ ~IsPlain(o)
         /\ o.type = "MintOperation" /\ o.fx # "nft" =>
              /\ HasFields(o.val, {"sigIndices", "mintOutput", "transferOutput"})
              /\ IsPlain(o.val.mintOutput) /\ TypeOf(o.val.mintOutput) = Minted(o.fx)[1]
              /\ IsPlain(o.val.transferOutput) /\ TypeOf(o.val.transferOutput) = Minted(o.fx)[2]
         /\ o.type = "MintOperation" /\ o.fx = "nft" =>
              /\ HasFields(o.val, {"sigIndices", "groupID", "payload", "outputs"})
              /\ ArePacked(o.val.outputs, 0)
              /\ \A i \in DOMAIN o.val.outputs :
                   TypeOf(o.val.outputs[i]) = [fx |-> "secp256k1", type |-> "OutputOwners"]
         /\ o.type = "TransferOperation" =>
              /\ HasFields(o.val, DOMAIN ShapeOf(o).fields)
              /\ IsPlain(o.val.holds)
              /\ TypeOf(o.val.holds) = [fx |-> "nft", type |-> "TransferOutput"]
         /\ o.type \in {"UTXO", "LockedOutput"} =>
              HasFields(o.val, DOMAIN ShapeOf(o).fields) /\ IsPlain(o.val.holds)
         /\ o.type = "SignedTx" =>
              HasFields(o.val, {"unsigned", "creds", "torn"}) /\ ArePacked(o.val.creds, o.val.torn)
         /\ o.type = "XVMBaseTx" =>
              /\ HasFields(o.val, DOMAIN ShapeOf(o).fields)
              /\ AreTransferables(o.val.outs, TransferableOut)
              /\ AreTransferables(o.val.ins, TransferableIn)
<1>1. ~IsPlain(o)
  BY DEF IsPlain
<1>2. QED
  BY <1>1, Zenon DEF IsObject

\* The message of what is sent has the fields of its shape.
LEMMA FieldsSized ==
  ASSUME NEW o, IsObject(o)
  PROVE  /\ DOMAIN Fields(o) = DOMAIN ShapeOf(o).fields
         /\ Sized(Fields(o)) /\ EnvelopeOf(ToBytes(o), o, Fields(o))
<1>1. CASE IsPlain(o)
  BY <1>1, PlainParts, LeafIsEnvelope, Zenon
<1>2. CASE o.type \in Holding
  <2>0. /\ o.type = "MintOperation" /\ o.fx # "nft" => ShapeOf(o) = MintOperation
        /\ o.type = "MintOperation" /\ o.fx = "nft" => ShapeOf(o) = NFTMintOperation
        /\ o.type = "SignedTx" => ShapeOf(o) = SignedTx
    BY ObjectTypes, HoldingShapes
  <2>1. DOMAIN Fields(o) = DOMAIN ShapeOf(o).fields
    <3>1. CASE o.type = "MintOperation" /\ o.fx # "nft"
      <4>1. DOMAIN o.val = {"sigIndices", "mintOutput", "transferOutput"}
        BY <1>2, <3>1, HeldParts, FieldsOf
      <4>2. DOMAIN Fields(o) = DOMAIN o.val
        BY <3>1 DEF Fields
      <4>3. DOMAIN ShapeOf(o).fields = {"sigIndices", "mintOutput", "transferOutput"}
        BY <2>0, <3>1, ShapeTables DEF Told
      <4>4. QED
        BY <4>1, <4>2, <4>3
    <3>2. CASE o.type = "MintOperation" /\ o.fx = "nft"
      <4>1. DOMAIN Fields(o) = {"sigIndices", "groupID", "payload", "count", "outputs"}
        BY <3>2 DEF Fields
      <4>2. DOMAIN ShapeOf(o).fields = {"sigIndices", "groupID", "payload", "count", "outputs"}
        BY <2>0, <3>2, ShapeTables DEF Told
      <4>3. QED
        BY <4>1, <4>2
    <3>3. CASE o.type \in {"TransferOperation", "UTXO", "LockedOutput"}
      <4>1. DOMAIN o.val = DOMAIN ShapeOf(o).fields
        BY <1>2, <3>3, HeldParts, FieldsOf
      <4>2. DOMAIN Fields(o) = DOMAIN o.val
        BY <3>3 DEF Fields
      <4>3. QED
        BY <4>1, <4>2
    <3>4. CASE o.type = "SignedTx"
      <4>1. DOMAIN Fields(o) = {"unsigned", "count", "creds"}
        BY <3>4 DEF Fields
      <4>2. DOMAIN ShapeOf(o).fields = {"unsigned", "count", "creds"}
        BY <2>0, <3>4, ShapeTables DEF Told
      <4>3. QED
        BY <4>1, <4>2
    <3>5. CASE o.type = "XVMBaseTx"
      <4>1. DOMAIN o.val = DOMAIN ShapeOf(o).fields
        BY <1>2, <3>5, HeldParts, FieldsOf
      <4>2. DOMAIN Fields(o) = DOMAIN o.val
        BY <3>5 DEF Fields
      <4>3. QED
        BY <4>1, <4>2
    <3>6. QED
      BY <1>2, <3>1, <3>2, <3>3, <3>4, <3>5 DEF Holding
  <2>2. "sigs" \notin DOMAIN Fields(o) /\ DOMAIN Fields(o) \subseteq FieldNames
    BY <1>2, <2>1, ObjectTypes, ReaderParts, ReaderFields DEF Holding
  <2>3. Sized(Fields(o))
    BY <2>2, FieldsFinite DEF Sized
  <2>4. QED
    BY <2>1, <2>3, EnvelopeCells DEF ToBytes
<1>3. QED
  BY <1>1, <1>2, ObjectTypes

-----------------------------------------------------------------------------
(* Who reads what.                                                         *)

\* A reader for which the values of another are his own.
Same(r, q) ==
  /\ r.type = q.type /\ ShapeOf(r) = ShapeOf(q) /\ TypeKindOf(r) = TypeKindOf(q)
  /\ r = q \/ ShapeOf(r) = OutputOwners

\* The locked outputs of the chains have the code of the owners with a level.
Confused(r, q) ==
  /\ r.fx = "chain" /\ r.type = "LockedOutput"
  /\ q.fx \in PostQuantum /\ q.type = "OutputOwners"

\* A reader does not refuse what he writes.
LEMMA OwnKind ==
  ASSUME NEW r \in Readers, NEW q \in Readers, Same(r, q)
  PROVE  /\ ShapeOf(q).code = ShapeOf(r).code /\ ~WrongTypeKind(ShapeOf(r), TypeKindOf(q))
         /\ ~Foreign(r, TypeKindOf(q))
<1>1. /\ TypeKindOf(q) = TypeKindOf(r) /\ ShapeOf(q) = ShapeOf(r)
      /\ TypeKindOf(r) = IF ShapeOf(r).kind = AnyKind THEN TypeKind.reserved
                         ELSE Packages[r.fx].tk
  BY DEF Same, TypeKindOf
<1>2. ~Foreign(r, TypeKindOf(q))
  BY <1>1 DEF Foreign
<1>3. AnyKind # OwnedKind /\ AnyKind # AttestationKind
  BY DEF AnyKind, OwnedKind, AttestationKind
<1>4. r.fx \in DOMAIN Packages
  BY DEF Readers
<1>5. /\ r.fx # "chain" => Packages[r.fx].tk # TypeKind.reserved
      /\ r.fx = "bls12381" => Packages[r.fx].tk = TypeKind.bls12381
  BY <1>4, PackageKinds
<1>6. ~WrongTypeKind(ShapeOf(r), TypeKindOf(q))
  BY <1>1, <1>3, <1>5, ReaderKinds DEF WrongTypeKind
<1>7. QED
  BY <1>1, <1>2, <1>6

\* Whoever takes the two bytes of another is the same, or confused.
LEMMA ReadersApart ==
  ASSUME NEW r \in Readers, NEW q \in Readers,
         ShapeOf(q).code = ShapeOf(r).code, ~Foreign(r, TypeKindOf(q))
  PROVE  Same(r, q) \/ Confused(r, q)
<1>1. /\ r = [fx |-> r.fx, type |-> r.type] /\ q = [fx |-> q.fx, type |-> q.type]
  BY ReaderShapes
<1>2. r.fx \in DOMAIN Packages /\ q.fx \in DOMAIN Packages
  BY DEF Readers
<1>3. CASE ShapeOf(r).kind # AnyKind
  <2>1. TypeKindOf(q) = Packages[r.fx].tk /\ TypeKindOf(r) = Packages[r.fx].tk
    BY <1>3 DEF Foreign, TypeKindOf
  <2>2. r.fx # "chain" /\ Packages[r.fx].tk # TypeKind.reserved
    BY <1>2, <1>3, PackageKinds, ReaderKinds
  <2>3. TypeKindOf(q) = Packages[q.fx].tk
    BY <2>1, <2>2 DEF TypeKindOf
  <2>4. r.fx = q.fx
    BY <1>2, <2>1, <2>3, PackageKinds
  <2>5. r.type = q.type
    BY <2>1, ReaderNames
  <2>6. r = q
    BY <1>1, <2>4, <2>5
  <2>7. QED
    BY <2>6 DEF Same
<1>4. CASE ShapeOf(r).kind = AnyKind
  <2>1. \/ r.fx = "chain"
        \/ r.fx \in Classical /\ r.type = "OutputOwners" /\ ShapeOf(r) = OutputOwners
    BY <1>4, ReaderKinds
  <2>2. CASE r.fx \in Classical /\ r.type = "OutputOwners" /\ ShapeOf(r) = OutputOwners
    <3>1. ShapeOf(q).code = 9
      BY <2>2, ShapeTables DEF Told
    <3>2. q.type = "OutputOwners" /\ ShapeOf(q) = OutputOwners
      BY <3>1, ReaderShapes, ShapeTables DEF Told
    <3>3. TypeKindOf(q) = TypeKindOf(r)
      BY <1>4, <2>2, <3>2 DEF TypeKindOf
    <3>4. QED
      BY <2>2, <3>2, <3>3 DEF Same
  <2>3. CASE r.fx = "chain"
    <3>1. \/ r.type = "UTXO" /\ ShapeOf(r) = UTXO
          \/ r.type = "LockedOutput" /\ ShapeOf(r) = LockedOutput
          \/ r.type = "PChainOwner" /\ ShapeOf(r) = PChainOwner
          \/ r.type = "SignedTx" /\ ShapeOf(r) = SignedTx
          \/ r.type = "XVMBaseTx" /\ ShapeOf(r) = XVMBaseTx
      BY <2>3, ReaderShapes DEF Classical, PostQuantum
    <3>2. \/ q.fx = "chain" /\ q.type = r.type
          \/ q.fx \in PostQuantum /\ q.type = "OutputOwners" /\ r.type = "LockedOutput"
      BY <3>1, ReaderShapes, ShapeTables DEF Told
    <3>3. q.fx = "chain" /\ q.type = r.type => r = q
      BY <1>1, <2>3
    <3>4. QED
      BY <2>3, <3>2, <3>3 DEF Same, Confused
  <2>4. QED
    BY <2>1, <2>2, <2>3
<1>5. QED
  BY <1>3, <1>4

\* The accessors of a shape read the messages of its own builder.
LEMMA OwnShapeLegible ==
  ASSUME NEW shape, Apart(shape), NEW cell, cell.shape = shape
  PROVE  Legible(shape, cell)
  BY IntactFields DEF Legible

\* What a reader makes of a message in his own shape.
Content(r, o, val) ==
  IF r.type = "Credential" THEN ReadCredential(r.fx, val)
  ELSE IF "level" \in DOMAIN ShapeOf(r).fields
       THEN ReadLevelled(r.fx, [shape |-> ShapeOf(o), val |-> val, stride |-> Stride(o)])
  ELSE Success(val)

\* A whole envelope is read by the same reader; another refuses it, or is
\* confused and finds nothing in it.
LEMMA EnvelopeRead ==
  ASSUME NEW r \in Readers, NEW o, TypeOf(o) \in Readers, NEW e, NEW val,
         EnvelopeOf(e, o, val), NEW b, Begins(b, e)
  PROVE  /\ Same(r, TypeOf(o)) => WrapLeaf(r, b) = Content(r, o, val)
         /\ ~Same(r, TypeOf(o)) =>
              \/ WrapLeaf(r, b).err # "none"
              \/ Confused(r, TypeOf(o)) /\ WrapLeaf(r, b) = Success(Garbage)
<1> DEFINE q == TypeOf(o)
           cell == [shape |-> ShapeOf(o), val |-> val, stride |-> Stride(o)]
<1>1. ShapeOf(q) = ShapeOf(o) /\ TypeKindOf(q) = TypeKindOf(o)
  BY DEF TypeOf, ShapeOf, TypeKindOf
<1>2. /\ b[1].byte = TypeKindOf(o) /\ b[BodyAt] = cell
      /\ (Refusal(ShapeOf(r), b) = "none")
           = (ShapeOf(o).code = ShapeOf(r).code /\ ~WrongTypeKind(ShapeOf(r), TypeKindOf(o)))
  BY WholeIsRead
<1>3. cell.shape = ShapeOf(o) /\ cell.val = val
  OBVIOUS
<1> HIDE DEF cell, q
<1>31. q \in Readers
  BY DEF q
<1>4. ASSUME Same(r, q) PROVE WrapLeaf(r, b) = Content(r, o, val)
  <2>1. ShapeOf(r) = ShapeOf(o)
    BY <1>1, <1>4 DEF Same
  <2>2. Refusal(ShapeOf(r), b) = "none" /\ ~Foreign(r, b[1].byte)
    BY <1>1, <1>2, <1>31, <1>4, OwnKind
  <2>3. Legible(ShapeOf(r), cell)
    BY <1>3, <2>1, ReaderFields, OwnShapeLegible
  <2>4. QED
    BY <1>2, <1>3, <2>2, <2>3, Zenon DEF WrapLeaf, Content, cell
<1>5. ASSUME ~Same(r, q), WrapLeaf(r, b).err = "none"
      PROVE  Confused(r, q) /\ WrapLeaf(r, b) = Success(Garbage)
  <2>1. Refusal(ShapeOf(r), b) = "none" /\ ~Foreign(r, b[1].byte)
    <3>1. Refusal(ShapeOf(r), b) # "none" => WrapLeaf(r, b).err # "none"
      BY DEF WrapLeaf, Failure
    <3>2. Refusal(ShapeOf(r), b) = "none" /\ Foreign(r, b[1].byte) => WrapLeaf(r, b).err # "none"
      BY DEF WrapLeaf, Failure
    <3>3. QED
      BY <1>5, <3>1, <3>2
  <2>2. Confused(r, q)
    BY <1>1, <1>2, <1>31, <1>5, <2>1, ReadersApart
  <2>3. ShapeOf(r) = LockedOutput /\ ShapeOf(o) = PQOutputOwners
    BY <1>1, <1>31, <2>2, ReaderShapes DEF Confused, Classical, PostQuantum
  <2>4. ~Legible(ShapeOf(r), cell)
    <3>1. "locktime" \in DOMAIN LockedOutput.fields
      BY ShapeTables DEF Told
    <3>2. LockedOutput.fields["locktime"] # PQOutputOwners.fields["locktime"]
      BY DEF LockedOutput, PQOutputOwners, Shape, Number
    <3>3. QED
      BY <1>3, <2>3, <3>1, <3>2 DEF Legible
  <2>5. WrapLeaf(r, b) = Success(Garbage)
    BY <1>2, <2>1, <2>4, Zenon DEF WrapLeaf
  <2>6. QED
    BY <2>2, <2>5
<1>6. QED
  BY <1>4, <1>5 DEF q

-----------------------------------------------------------------------------
(* Signatures and keys.                                                    *)

\* A run is as long as all its parts.
LEMMA TotalIsSum ==
  ASSUME NEW run \in Seq(Part)
  PROVE  /\ Total(run) = SumFunctionOnSet([i \in DOMAIN run |-> run[i].len], DOMAIN run)
         /\ Total(run) \in Nat
<1> DEFINE n == Len(run)
           w == [i \in DOMAIN run |-> run[i].len]
           Iter(g) == [s \in SUBSET (DOMAIN run) |->
                         IF s = {} THEN 0 ELSE run[First(s)].len + g[s \ {First(s)}]]
           Iter2(g) == [s \in SUBSET (DOMAIN run) |->
                          IF s = {} THEN 0 ELSE w[First(s)] + g[s \ {First(s)}]]
<1>1. n \in Nat /\ DOMAIN run = 1..n /\ \A i \in 1..n : run[i] \in Part
  OBVIOUS
<1>2. \A i \in 1..n : w[i] = run[i].len /\ w[i] \in Nat
  BY <1>1 DEF Part
<1>3. \A g : Iter(g) = Iter2(g)
  BY FirstIn
<1>4. Total(run) = (CHOOSE g : g = Iter(g))[DOMAIN run]
  BY DEF Total, FoldSeq, FoldFunction, FoldFunctionOnSet, MapThenFoldSet, First
<1>5. SumFunctionOnSet(w, DOMAIN run) = (CHOOSE g : g = Iter2(g))[DOMAIN run]
  BY DEF SumFunctionOnSet, FoldFunctionOnSet, MapThenFoldSet, First
<1> HIDE DEF Iter, Iter2
<1>6. Total(run) = SumFunctionOnSet(w, DOMAIN run)
  BY <1>3, <1>4, <1>5
<1> HIDE DEF w, n
<1>7. SumFunctionOnSet(w, 1..n) \in Nat
  BY <1>1, <1>2, SumOfPrefix
<1>8. QED
  BY <1>1, <1>6, <1>7 DEF w

\* A number of pieces of one length leaves no rest.
LEMMA NoRest ==
  ASSUME NEW n \in Nat, NEW length \in Nat \ {0}
  PROVE  (n * length) % length = 0
  OBVIOUS

\* What is left out when there is a rest, and the number of pieces.
LEMMA Quotient ==
  ASSUME NEW n \in Nat, NEW length \in Nat \ {0}
  PROVE  (n * length) \div length = n
  OBVIOUS

\* Parts of one length are found again.
LEMMA RunWhole ==
  ASSUME NEW run \in Seq(Part), NEW length \in Nat \ {0},
         \A i \in DOMAIN run : run[i].len = length
  PROVE  /\ Signatures(run, length) = run /\ Pieces(run, length) = run
         /\ Total(run) = Len(run) * length
<1> DEFINE n == Len(run)
           w == [i \in DOMAIN run |-> run[i].len]
           P == {k \in 0..n : SumFunctionOnSet(w, 1..k) = k * length}
<1>1. n \in Nat /\ DOMAIN run = 1..n
  OBVIOUS
<1>2. \A i \in 1..n : w[i] = length
  BY <1>1
<1> HIDE DEF n, w
<1>3. 0 \in P
  BY <1>1, SumOfPrefix
<1>4. ASSUME NEW k \in 1..n, k - 1 \in P PROVE k \in P
  <2>1. k \in Nat /\ k > 0 /\ \A i \in 1..k : w[i] \in Nat
    BY <1>1, <1>2
  <2>2. SumFunctionOnSet(w, 1..k) = SumFunctionOnSet(w, 1..(k - 1)) + w[k]
    BY <2>1, SumOfPrefix
  <2>3. SumFunctionOnSet(w, 1..k) = (k - 1) * length + length
    BY <1>2, <1>4, <2>2
  <2>4. (k - 1) * length + length = k * length
    BY <2>1
  <2>5. QED
    BY <1>1, <2>3, <2>4
<1> HIDE DEF P
<1>5. 0..n \subseteq P
  BY <1>1, <1>3, <1>4, LoopInduction
<1>6. Total(run) = n * length
  <2>1. n \in P
    BY <1>1, <1>5
  <2>2. SumFunctionOnSet(w, 1..n) = n * length
    BY <2>1 DEF P
  <2>3. Total(run) = SumFunctionOnSet(w, DOMAIN run)
    BY TotalIsSum DEF w
  <2>4. QED
    BY <1>1, <2>2, <2>3
<1>7. Total(run) % length = 0
  BY <1>1, <1>6, NoRest
<1>8. Total(run) \div length = n
  BY <1>1, <1>6, Quotient
<1>9. Pieces(run, length) = run
  <2> DEFINE cut == Pieces(run, length)
  <2>1. cut = [i \in 1..n |-> IF i <= Len(run) /\ \A j \in 1..i : run[j].len = length
                              THEN run[i] ELSE [id |-> 0, len |-> length]]
    BY <1>8 DEF Pieces
  <2> HIDE DEF cut
  <2>2. ASSUME NEW i \in 1..n PROVE cut[i] = run[i]
    <3>1. i <= Len(run) /\ \A j \in 1..i : run[j].len = length
      BY <1>1 DEF n
    <3>2. QED
      BY <2>1, <3>1
  <2>3. run = [i \in 1..n |-> run[i]]
    BY <1>1
  <2>4. cut = run
    BY <2>1, <2>2, <2>3
  <2>5. QED
    BY <2>4 DEF cut
<1>10. QED
  BY <1>6, <1>7, <1>9 DEF Signatures, n

\* The tables of lengths: keys are read with those they were written with.
LEMMA LengthTables ==
  ASSUME NEW f \in DOMAIN Packages
  PROVE  /\ Packages[f].sigLens \in Seq(Nat) /\ Packages[f].keyLens \in Seq(Nat)
         /\ f \in PostQuantum => Packages[f].strides = Packages[f].keyLens
         /\ Len(Packages[f].keyLens) = 1 => Packages[f].keyLens[1] \in Nat \ {0}
         /\ f = "bls12381" => Packages[f].sigLens = <<96>>
<1> DEFINE Good(p) == /\ p.sigLens \in Seq(Nat) /\ p.keyLens \in Seq(Nat)
                      /\ Len(p.keyLens) = 1 => p.keyLens[1] \in Nat \ {0}
<1>1. Good(Secp256k1) /\ Good(Bls12381) /\ Good(Nft) /\ Good(Property) /\ Good(Chain)
  BY DEF Secp256k1, Bls12381, Nft, Property, Chain, Package
<1>2. Good(Ed25519) /\ Good(Secp256r1) /\ Good(Schnorr)
  BY DEF Ed25519, Secp256r1, Schnorr, Package
<1>3. Good(Mldsa) /\ Good(Slhdsa)
  BY DEF Mldsa, Slhdsa, Package
<1>4. Bls12381.sigLens = <<96>>
  BY DEF Bls12381, Package
<1> HIDE DEF Good
<1>5. Good(Packages[f]) /\ (f = "bls12381" => Packages[f].sigLens = <<96>>)
  BY <1>1, <1>2, <1>3, <1>4 DEF Packages
<1>6. Mldsa.strides = Mldsa.keyLens /\ Slhdsa.strides = Slhdsa.keyLens
  BY DEF Mldsa, Slhdsa, Package
<1>7. f \in PostQuantum => Packages[f].strides = Packages[f].keyLens
  BY <1>6 DEF Packages, PostQuantum
<1>8. QED
  BY <1>5, <1>7 DEF Good

\* The lengths of a level are numbers.
LEMMA LengthIsNumber ==
  ASSUME NEW lens \in Seq(Nat), NEW level \in Nat
  PROVE  LengthAt(lens, level) \in Nat
  BY DEF LengthAt

\* The fields of a credential.
LEMMA CredentialParts ==
  ASSUME NEW o, IsPlain(o), o.type = "Credential"
  PROVE  /\ o.fx \in DOMAIN Packages
         /\ o.val = [f \in {"level", "sigs", "pubKeys"} |-> o.val[f]]
         /\ o.val.level \in Nat /\ o.val.sigs \in Seq(Part) /\ o.val.pubKeys \in Seq(Part)
         /\ o.fx = "bls12381" => Len(o.val.sigs) = 1
         /\ Len(Packages[o.fx].keyLens) # 1 => o.val.pubKeys = <<>>
<1>1. TypeOf(o) \in Readers /\ TypeOf(o).fx = o.fx /\ TypeOf(o).type = o.type
  BY PlainParts
<1>2. o.fx \in DOMAIN Packages /\ ShapeOf(o) = Credential
  BY <1>1, ReaderKinds, ReaderParts, PlainParts
<1>3. DOMAIN ShapeOf(o).fields = {"level", "sigs", "pubKeys"}
  BY <1>2, ShapeTables DEF Told
<1>4. /\ o.val = [f \in {"level", "sigs", "pubKeys"} |-> o.val[f]]
      /\ DOMAIN o.val = {"level", "sigs", "pubKeys"}
  BY <1>3, PlainParts DEF IsPlain, HasFields
<1>5. /\ FieldType("level") = Nat /\ FieldType("sigs") = Seq(Part)
      /\ FieldType("pubKeys") = Seq(Part)
  BY DEF FieldType
<1>6. \A f \in DOMAIN o.val : o.val[f] \in FieldType(f)
  BY DEF IsPlain
<1>7. o.val.level \in Nat /\ o.val.sigs \in Seq(Part) /\ o.val.pubKeys \in Seq(Part)
  BY <1>4, <1>5, <1>6
<1>8. /\ o.fx = "bls12381" => Len(o.val.sigs) = 1
      /\ Len(Packages[o.fx].keyLens) # 1 => o.val.pubKeys = <<>>
  BY DEF IsPlain
<1>9. QED
  BY <1>2, <1>4, <1>7, <1>8

\* A credential whose signatures and keys have their lengths is read as it was sent.
LEMMA SoundCredential ==
  ASSUME NEW o, IsPlain(o), o.type = "Credential", Sound(o)
  PROVE  ReadCredential(o.fx, o.val) = Success(o.val)
<1> DEFINE length == SignatureLen(o.fx, o.val.level)
           keys == Packages[o.fx].keyLens
           read == [o.val EXCEPT !.sigs = Signatures(@, length), !.pubKeys = PubKeys(o.fx, @)]
<1>1. length \in Nat
  BY CredentialParts, LengthTables, LengthIsNumber DEF SignatureLen
<1>2. /\ length > 0 /\ \A i \in DOMAIN o.val.sigs : o.val.sigs[i].len = length
      /\ \A i \in DOMAIN o.val.pubKeys : o.val.pubKeys[i].len = keys[1]
  BY DEF Sound
<1>3. /\ o.val = [f \in {"level", "sigs", "pubKeys"} |-> o.val[f]]
      /\ o.val.sigs \in Seq(Part) /\ o.val.pubKeys \in Seq(Part)
  BY CredentialParts
<1> HIDE DEF length
<1>4. Signatures(o.val.sigs, length) = o.val.sigs /\ Total(o.val.sigs) = Len(o.val.sigs) * length
  <2>1. length \in Nat \ {0} /\ \A i \in DOMAIN o.val.sigs : o.val.sigs[i].len = length
    BY <1>1, <1>2
  <2>2. QED
    BY <1>3, <2>1, RunWhole
<1>5. PubKeys(o.fx, o.val.pubKeys) = o.val.pubKeys
  <2>1. CASE Len(keys) = 1
    <3>1. keys[1] \in Nat \ {0}
      BY <2>1, CredentialParts, LengthTables
    <3>2. Pieces(o.val.pubKeys, keys[1]) = o.val.pubKeys
      BY <1>2, <1>3, <3>1, RunWhole
    <3>3. QED
      BY <2>1, <3>2 DEF PubKeys
  <2>2. CASE Len(keys) # 1
    BY <2>2, CredentialParts DEF PubKeys
  <2>3. QED
    BY <2>1, <2>2
<1>6. o.fx = "bls12381" => Total(o.val.sigs) = length
  <2>1. o.fx = "bls12381" => Len(o.val.sigs) = 1
    BY CredentialParts
  <2>2. 1 * length = length
    BY <1>1
  <2>3. QED
    BY <1>4, <2>1, <2>2, Zenon
<1>7. read = o.val
  BY <1>3, <1>4, <1>5
<1> HIDE DEF read, keys
<1>8. length # 0
  BY <1>1, <1>2
<1>9. ReadCredential(o.fx, o.val) = Success(read)
  BY <1>6, <1>8 DEF ReadCredential, length, read
<1>10. QED
  BY <1>7, <1>9

\* Only the post-quantum packages have values with a level, but for credentials.
LEMMA LevelledShapes ==
  ASSUME NEW r \in Readers, "level" \in DOMAIN ShapeOf(r).fields, r.type # "Credential"
  PROVE  r.fx \in PostQuantum
  BY ReaderShapes, ShapeTables DEF Told

\* A plain value whose level there is and whose signatures have their lengths is
\* read as it was sent.
LEMMA PlainContent ==
  ASSUME NEW o, IsPlain(o), Sound(o), NEW r \in Readers, Same(r, TypeOf(o))
  PROVE  Content(r, o, o.val) = Success(o.val)
<1> DEFINE length == PubKeyLen(o.fx, o.val.level)
<1>1. /\ r.type = o.type /\ ShapeOf(r) = ShapeOf(o)
      /\ ShapeOf(r) # OutputOwners => r.fx = o.fx
      /\ DOMAIN o.val = DOMAIN ShapeOf(o).fields
  BY PlainParts DEF Same
<1>2. CASE o.type = "Credential"
  <2>1. ShapeOf(r) = Credential /\ Credential # OutputOwners
    <3>1. Credential.code # OutputOwners.code
      BY ShapeTables DEF Told
    <3>2. QED
      BY <1>1, <1>2, <3>1, ReaderParts
  <2>2. r.fx = o.fx
    BY <1>1, <2>1
  <2>3. QED
    BY <1>1, <1>2, <2>2, SoundCredential DEF Content
<1>3. CASE o.type # "Credential" /\ "level" \in DOMAIN ShapeOf(o).fields
  <2>1. "level" \notin DOMAIN OutputOwners.fields
    BY ShapeTables DEF Told
  <2>2. r.fx = o.fx
    BY <1>1, <1>3, <2>1
  <2>3. length > 0
    BY <1>1, <1>3 DEF Sound
  <2>4. {"level", "addrs"} \subseteq DOMAIN o.val
    BY <1>1, <1>3, ReaderParts
  <2>5. Stride(o) = length
    BY <2>3, <2>4 DEF Stride
  <2>51. o.fx \in DOMAIN Packages /\ o.val.level \in Nat
    BY <1>1, <1>3, PlainParts, ReaderKinds
  <2>6. length \in Nat
    BY <2>51, LengthTables, LengthIsNumber DEF PubKeyLen
  <2>61. o.fx \in PostQuantum
    <3>1. TypeOf(o) \in Readers /\ ShapeOf(TypeOf(o)) = ShapeOf(o)
      BY PlainParts
    <3>2. o.fx = TypeOf(o).fx /\ o.type = TypeOf(o).type
      BY PlainParts
    <3>3. QED
      BY <1>3, <3>1, <3>2, LevelledShapes
  <2>62. strideForLevel(o.fx, o.val.level) = length
    BY <2>51, <2>61, LengthTables DEF PubKeyLen, strideForLevel
  <2> HIDE DEF length
  <2>7. length # 0
    BY <2>3, <2>6
  <2>8. ReadLevelled(r.fx, [shape |-> ShapeOf(o), val |-> o.val, stride |-> Stride(o)])
          = Success(o.val)
    BY <2>2, <2>5, <2>62, <2>7 DEF ReadLevelled
  <2>9. QED
    BY <1>1, <1>3, <2>8 DEF Content
<1>4. CASE o.type # "Credential" /\ "level" \notin DOMAIN ShapeOf(o).fields
  BY <1>1, <1>4 DEF Content
<1>5. QED
  BY <1>2, <1>3, <1>4

\* Whatever is read of a plain value, it is as it was sent, or empty, unless it
\* is a credential.
LEMMA PlainContentIs ==
  ASSUME NEW o, IsPlain(o), NEW r \in Readers, Same(r, TypeOf(o)), o.type # "Credential",
         Content(r, o, o.val).err = "none"
  PROVE  Content(r, o, o.val) \in {Success(o.val), Success(Garbage)}
  BY PlainParts DEF Content, ReadLevelled, Failure, Same

-----------------------------------------------------------------------------
(* Walks.                                                                  *)

\* A whole envelope is a buffer that begins with itself.
LEMMA BeginsItself ==
  ASSUME NEW e, Whole(e)
  PROVE  Begins(e, e)
  BY DEF Whole, Begins

AtStart == [err |-> FALSE, cursor |-> 0, envs |-> <<>>]

\* The values that satisfy the equation of a walk are its values.
IsWalk(g, blob, count, least) ==
  /\ g = [k \in 0..count |-> g[k]] /\ g[0] = AtStart
  /\ \A k \in 1..count : g[k] = NextEnvelope(blob, g[k - 1], least)

LEMMA WalkIs ==
  ASSUME NEW blob, NEW least, NEW count \in Nat, NEW g, IsWalk(g, blob, count, least)
  PROVE  Walk(blob, count, least) = g[count]
<1>0. /\ g = [k \in 0..count |-> g[k]] /\ g[0] = AtStart
      /\ \A k \in 1..count : g[k] = NextEnvelope(blob, g[k - 1], least)
  BY DEF IsWalk
<1> DEFINE Iter(f) == [k \in 0..count |->
                         IF k = 0 THEN [err |-> FALSE, cursor |-> 0, envs |-> <<>>]
                         ELSE NextEnvelope(blob, f[k - 1], least)]
           at == CHOOSE f : f = Iter(f)
<1>1. g = Iter(g)
  <2>1. \A k \in 0..count : g[k] = Iter(g)[k]
    BY <1>0 DEF AtStart
  <2>2. QED
    BY <1>0, <2>1
<1>2. at = Iter(at)
  BY <1>1, Zenon
<1>3. Walk(blob, count, least) = at[count]
  BY DEF Walk
<1> HIDE DEF at
<1>4. at[0] = AtStart /\ \A k \in 1..count : at[k] = NextEnvelope(blob, at[k - 1], least)
  <2>1. \A k \in 0..count : at[k] = Iter(at)[k]
    BY <1>2
  <2>2. QED
    BY <2>1 DEF AtStart
<1> DEFINE P == {k \in 0..count : at[k] = g[k]}
<1>5. 0 \in P
  BY <1>0, <1>4
<1>6. ASSUME NEW k \in 1..count, k - 1 \in P PROVE k \in P
  <2>1. at[k - 1] = g[k - 1] /\ k \in 0..count
    BY <1>6
  <2>2. at[k] = NextEnvelope(blob, at[k - 1], least) /\ g[k] = NextEnvelope(blob, g[k - 1], least)
    BY <1>0, <1>4, Zenon
  <2>3. QED
    BY <2>1, <2>2
<1> HIDE DEF P
<1>7. 0..count \subseteq P
  BY <1>5, <1>6, LoopInduction
<1>8. QED
  BY <1>3, <1>7 DEF P

\* Two sequences put together; what a sequence begins with; and a sequence that is
\* found at a place, as far as the buffer goes.
Joins(c, a, e) ==
  /\ Len(a) \in Nat /\ Len(e) \in Nat /\ Len(c) = Len(a) + Len(e)
  /\ \A i \in 1..Len(a) : c[i] = a[i]
  /\ \A i \in 1..Len(e) : c[Len(a) + i] = e[i]

Starts(a, c) ==
  Len(a) \in Nat /\ Len(c) \in Nat /\ Len(a) <= Len(c) /\ \A i \in 1..Len(a) : c[i] = a[i]

FoundAt(e, blob, cursor) ==
  /\ cursor \in Nat /\ cursor <= Len(blob)
  /\ \A i \in 1..Len(e) : cursor + i <= Len(blob) => blob[cursor + i] = e[i]

\* The parts of a sequence are sequences.
LEMMA PartsType ==
  ASSUME NEW S, NEW ss, NEW at, Parts(at, ss, S)
  PROVE  /\ Len(ss) \in Nat
         /\ \A k \in 0..Len(ss) : at[k] \in Seq(S) /\ Len(at[k]) \in Nat
         /\ \A k \in 1..Len(ss) : ss[k] \in Seq(S) /\ Len(ss[k]) \in Nat /\ k - 1 \in 0..Len(ss)
<1> DEFINE n == Len(ss)
<1>1. n \in Nat /\ \A k \in 1..n : ss[k] \in Seq(S) /\ Len(ss[k]) \in Nat /\ k - 1 \in 0..n
  <2>1. ss \in Seq(Seq(S))
    BY DEF Parts
  <2>2. QED
    BY <2>1
<1>2. \A k \in 0..n : at[k] \in Seq(S) /\ Len(at[k]) \in Nat
  <2>1. at \in [0..n -> Seq(S)]
    BY DEF Parts
  <2> HIDE DEF n
  <2>2. QED
    BY <2>1
<1>3. QED
  BY <1>1, <1>2

\* Each ends with its last part.
LEMMA PartEnds ==
  ASSUME NEW S, NEW ss, NEW at, Parts(at, ss, S), NEW k \in 1..Len(ss)
  PROVE  Joins(at[k], at[k - 1], ss[k])
<1> DEFINE a == at[k - 1]
           b == ss[k]
           c == at[k]
<1>1. a \in Seq(S) /\ b \in Seq(S)
  BY PartsType
<1>2. c = a \o b
  BY DEF Parts
<1> HIDE DEF a, b, c
<1>3. /\ Len(c) = Len(a) + Len(b) /\ \A i \in 1..Len(a) : c[i] = a[i]
      /\ \A j \in 1..Len(b) : c[Len(a) + j] = b[j]
  BY <1>1, <1>2, Joined
<1>4. Len(a) \in Nat /\ Len(b) \in Nat
  BY <1>1
<1>5. QED
  BY <1>3, <1>4, Zenon DEF a, b, c, Joins

\* Each begins as those before it.
LEMMA PartBegins ==
  ASSUME NEW S, NEW ss, NEW at, Parts(at, ss, S), NEW m \in 0..Len(ss), NEW k \in 0..m
  PROVE  Starts(at[k], at[m])
<1> DEFINE n == Len(ss)
           P == {l \in 0..n : k <= l => Starts(at[k], at[l])}
<1>1. n \in Nat /\ m \in 0..n /\ k \in 0..n /\ k <= m
  BY PartsType
<1>2. \A l \in 0..n : Len(at[l]) \in Nat
  BY PartsType
<1>3. \A l \in 1..n : Joins(at[l], at[l - 1], ss[l])
  BY PartEnds
<1> HIDE DEF n
<1>4. Starts(at[k], at[k])
  BY <1>1, <1>2 DEF Starts
<1>5. 0 \in P
  <2>1. k <= 0 => k = 0
    BY <1>1
  <2>2. QED
    BY <1>1, <1>4, <2>1
<1>6. ASSUME NEW l \in 1..n, l - 1 \in P PROVE l \in P
  <2>1. l \in 0..n /\ l - 1 \in 0..n
    BY <1>1
  <2>2. ASSUME k <= l PROVE Starts(at[k], at[l])
    <3>1. CASE k = l
      BY <1>4, <3>1
    <3>2. CASE k # l
      <4>1. Starts(at[k], at[l - 1])
        BY <1>1, <1>6, <2>1, <2>2, <3>2
      <4>2. Joins(at[l], at[l - 1], ss[l])
        BY <1>3
      <4> DEFINE a == at[k]
                 b == at[l - 1]
                 c == at[l]
      <4>3. Starts(a, b) /\ Joins(c, b, ss[l])
        BY <4>1, <4>2
      <4> HIDE DEF a, b, c
      <4>4. Starts(a, c)
        BY <4>3 DEF Starts, Joins
      <4>5. QED
        BY <4>4 DEF a, c
    <3>3. QED
      BY <3>1, <3>2
  <2>3. QED
    BY <2>1, <2>2
<1> HIDE DEF P
<1>7. 0..n \subseteq P
  BY <1>1, <1>5, <1>6, LoopInduction
<1>8. QED
  BY <1>1, <1>7 DEF P

\* A buffer is what these parts begin with.
Begun(blob, at, ss, S) == blob \in Seq(S) /\ Starts(blob, at[Len(ss)])

\* A part of the buffer, as far as it goes.
LEMMA PartAt ==
  ASSUME NEW S, NEW ss, NEW at, Parts(at, ss, S), NEW blob, Begun(blob, at, ss, S),
         NEW k \in 1..Len(ss), Len(at[k - 1]) <= Len(blob)
  PROVE  FoundAt(ss[k], blob, Len(at[k - 1]))
<1> DEFINE n == Len(ss)
           a == at[k - 1]
           b == at[k]
           e == ss[k]
           all == at[n]
<1>1. n \in 0..n /\ k \in 0..n
  BY PartsType
<1>2. Joins(b, a, e)
  BY PartEnds
<1>3. Starts(b, all)
  BY <1>1, PartBegins
<1>4. Starts(blob, all)
  BY DEF Begun
<1>5. Len(a) <= Len(blob)
  OBVIOUS
<1> HIDE DEF n, a, b, e, all
<1>6. FoundAt(e, blob, Len(a))
  BY <1>2, <1>3, <1>4, <1>5 DEF Joins, Starts, FoundAt
<1>7. QED
  BY <1>6 DEF a, e

Failed(now) == [now EXCEPT !.err = TRUE]

\* A step takes the envelope e, if it is there to its end, and fails if not.
Takes(e, blob, at, least) ==
  /\ at.cursor + Len(e) <= Len(blob) =>
       NextEnvelope(blob, at, least)
         = [err |-> FALSE, cursor |-> at.cursor + Len(e), envs |-> Append(at.envs, e)]
  /\ at.cursor + Len(e) > Len(blob) => NextEnvelope(blob, at, least) = Failed(at)

\* The next envelope of a walk that has reached its beginning.
LEMMA WalkStep ==
  ASSUME NEW S, NEW blob \in Seq(S), NEW least \in 0..HeaderSize,
         NEW e, Whole(e), NEW at, at.err = FALSE, FoundAt(e, blob, at.cursor)
  PROVE  Takes(e, blob, at, least)
<1> DEFINE H == EnvelopePrefix + HeaderSize
           cursor == at.cursor
<1>1. /\ cursor \in Nat /\ cursor <= Len(blob)
      /\ \A i \in 1..Len(e) : cursor + i <= Len(blob) => blob[cursor + i] = e[i]
  BY DEF FoundAt
<1>2. /\ H \in Nat /\ H > 0 /\ Len(e) \in Nat /\ Len(e) > H /\ Len(blob) \in Nat
      /\ e[H].byte = Len(e) - EnvelopePrefix /\ e \in Seq(Range(e)) /\ EnvelopePrefix = 2
  BY WireAssumption DEF Whole, BodyAt, EnvelopePrefix
<1> HIDE DEF cursor
<1>3. cursor + EnvelopePrefix + HeaderSize = cursor + H
  BY <1>1, WireAssumption DEF EnvelopePrefix
<1>4. cursor + H <= Len(blob) =>
        EndOf(blob, cursor) = cursor + Len(e) /\ ~(ZapSize(blob, cursor) < least)
  <2>1. cursor + H <= Len(blob) => blob[cursor + H] = e[H]
    BY <1>1, <1>2
  <2> HIDE DEF H
  <2>2. cursor + H <= Len(blob) => blob[cursor + H].byte = Len(e) - EnvelopePrefix
    BY <1>2, <2>1
  <2>3. cursor + 2 + (Len(e) - 2) = cursor + Len(e)
    BY <1>1, <1>2
  <2>4. cursor + H <= Len(blob) => ZapSize(blob, cursor) = Len(e) - 2
    BY <1>2, <1>3, <2>2, Zenon DEF ZapSize
  <2>5. ~(Len(e) - 2 < least)
    BY <1>2, WireAssumption DEF H
  <2>6. QED
    BY <1>2, <2>3, <2>4, <2>5, Zenon DEF EndOf
<1> HIDE DEF H
<1>5. ASSUME cursor + Len(e) > Len(blob)
      PROVE  NextEnvelope(blob, at, least) = Failed(at)
  <2>1. cursor + EnvelopePrefix + HeaderSize > Len(blob) \/ EndOf(blob, cursor) > Len(blob)
    BY <1>1, <1>2, <1>3, <1>4, <1>5
  <2>2. QED
    BY <2>1, Zenon DEF NextEnvelope, IsShort, Failed, cursor
<1>6. ASSUME cursor + Len(e) <= Len(blob)
      PROVE  NextEnvelope(blob, at, least)
               = [err |-> FALSE, cursor |-> cursor + Len(e), envs |-> Append(at.envs, e)]
  <2>1. /\ ~(cursor + EnvelopePrefix + HeaderSize > Len(blob))
        /\ EndOf(blob, cursor) = cursor + Len(e) /\ ~(EndOf(blob, cursor) > Len(blob))
        /\ ~(ZapSize(blob, cursor) < least)
    BY <1>1, <1>2, <1>3, <1>4, <1>6
  <2>2. SubSeq(blob, cursor + 1, cursor + Len(e)) = e
    <3> DEFINE s == SubSeq(blob, cursor + 1, cursor + Len(e))
    <3>1. /\ s \in Seq(S) /\ Len(s) = Len(e)
          /\ \A i \in 1..Len(e) : s[i] = blob[cursor + i]
      BY <1>1, <1>2, <1>6
    <3> HIDE DEF s
    <3>2. ASSUME NEW i \in 1..Len(e) PROVE s[i] = e[i]
      <4>1. cursor + i <= Len(blob)
        BY <1>1, <1>2, <1>6
      <4>2. QED
        BY <1>1, <3>1, <4>1
    <3>3. s = e
      BY <1>2, <3>1, <3>2, SeqEqual
    <3>4. QED
      BY <3>3 DEF s
  <2>3. QED
    BY <2>1, <2>2, Zenon DEF NextEnvelope, IsShort, cursor
<1>7. QED
  BY <1>1, <1>2, <1>5, <1>6 DEF Takes, cursor

\* Where a walk is after k whole envelopes.
After(k, at, ss) == [err |-> FALSE, cursor |-> Len(at[k]), envs |-> [i \in 1..k |-> ss[i]]]

\* It goes to the next, or fails when that is not there to its end.
LEMMA WalkOfPart ==
  ASSUME NEW S, NEW ss, NEW at, Parts(at, ss, S), NEW blob, Begun(blob, at, ss, S),
         NEW k \in 1..Len(ss), Whole(ss[k]), Len(at[k - 1]) <= Len(blob),
         NEW least \in 0..HeaderSize
  PROVE  /\ Len(at[k]) <= Len(blob) =>
              NextEnvelope(blob, After(k - 1, at, ss), least) = After(k, at, ss)
         /\ Len(at[k]) > Len(blob) =>
              NextEnvelope(blob, After(k - 1, at, ss), least) = Failed(After(k - 1, at, ss))
<1> DEFINE c == Len(at[k - 1])
           e == ss[k]
           now == After(k - 1, at, ss)
<1>1. FoundAt(e, blob, c)
  BY PartAt
<1>2. blob \in Seq(S) /\ Whole(e)
  BY DEF Begun
<1>3. now.err = FALSE /\ now.cursor = c /\ now.envs = [i \in 1..(k - 1) |-> ss[i]]
  BY DEF After
<1>4. Append([i \in 1..(k - 1) |-> ss[i]], e) = [i \in 1..k |-> ss[i]]
  <2>1. k \in Nat /\ k - 1 \in Nat
    <3>1. Len(ss) \in Nat
      BY PartsType
    <3>2. QED
      BY <3>1
  <2>2. QED
    BY <2>1
<1>5. c + Len(e) = Len(at[k])
  <2>1. Joins(at[k], at[k - 1], e)
    BY PartEnds
  <2>2. QED
    BY <2>1 DEF Joins
<1> HIDE DEF c, e, now
<1>6. FoundAt(e, blob, now.cursor)
  BY <1>1, <1>3
<1>7. /\ now.cursor + Len(e) <= Len(blob) =>
           NextEnvelope(blob, now, least)
             = [err |-> FALSE, cursor |-> now.cursor + Len(e), envs |-> Append(now.envs, e)]
      /\ now.cursor + Len(e) > Len(blob) => NextEnvelope(blob, now, least) = Failed(now)
  <2>1. Takes(e, blob, now, least)
    BY <1>2, <1>3, <1>6, WalkStep
  <2>2. QED
    BY <2>1 DEF Takes
<1>8. After(k, at, ss)
        = [err |-> FALSE, cursor |-> c + Len(e), envs |-> [i \in 1..k |-> ss[i]]]
  BY <1>5 DEF After
<1>9. QED
  BY <1>3, <1>4, <1>5, <1>7, <1>8 DEF now

\* A walk over whole envelopes, of which the first m are in the buffer to their end.
LEMMA WalkOfParts ==
  ASSUME NEW S, NEW ss, NEW at, Parts(at, ss, S), NEW blob, Begun(blob, at, ss, S),
         \A k \in 1..Len(ss) : Whole(ss[k]),
         NEW m \in 0..Len(ss), Len(at[m]) <= Len(blob),
         m < Len(ss) => Len(blob) < Len(at[m + 1]),
         NEW count \in 0..Len(ss), NEW least \in 0..HeaderSize
  PROVE  /\ count <= m => Walk(blob, count, least) = After(count, at, ss)
         /\ count > m => Walk(blob, count, least).err = TRUE
<1> DEFINE n == Len(ss)
           g == [k \in 0..count |-> IF k <= m THEN After(k, at, ss) ELSE Failed(After(m, at, ss))]
<1>1. n \in Nat /\ count \in 0..n /\ m \in 0..n /\ count \in Nat /\ m \in Nat
  BY PartsType
<1>2. Len(blob) \in Nat /\ \A k \in 0..n : Len(at[k]) \in Nat
  BY PartsType DEF Begun
<1>3. \A k \in 1..n : k - 1 \in 0..n
  BY <1>1
<1> HIDE DEF n
<1>4. at[0] = <<>>
  BY DEF Parts
<1>5. g[0] = AtStart
  <2>1. After(0, at, ss) = AtStart
    BY <1>4 DEF After, AtStart
  <2>2. 0 \in 0..count /\ 0 <= m
    BY <1>1
  <2>3. QED
    BY <2>1, <2>2
<1>6. ASSUME NEW k \in 1..count PROVE g[k] = NextEnvelope(blob, g[k - 1], least)
  <2>1. k \in 1..n /\ k - 1 \in 0..n /\ k - 1 \in 0..count /\ k \in 0..count /\ k \in 0..n
    BY <1>1
  <2>2. Whole(ss[k])
    BY <2>1 DEF n
  <2>3. CASE k <= m
    <3>1. k \in 0..m /\ k - 1 \in 0..m /\ k - 1 <= m
      BY <2>1, <2>3
    <3>2. Starts(at[k], at[m]) /\ Starts(at[k - 1], at[m])
      BY <1>1, <3>1, PartBegins DEF n
    <3>3. Len(at[k]) <= Len(blob) /\ Len(at[k - 1]) <= Len(blob)
      BY <1>1, <1>2, <2>1, <3>2 DEF Starts
    <3>4. NextEnvelope(blob, After(k - 1, at, ss), least) = After(k, at, ss)
      BY <2>1, <2>2, <3>3, WalkOfPart DEF n
    <3>5. g[k] = After(k, at, ss) /\ g[k - 1] = After(k - 1, at, ss)
      BY <2>1, <2>3, <3>1
    <3>6. QED
      BY <3>4, <3>5
  <2>4. CASE k = m + 1
    <3>1. k - 1 = m /\ ~(k <= m) /\ m <= m /\ Len(at[k]) > Len(blob) /\ Len(at[k - 1]) <= Len(blob)
      BY <1>1, <1>2, <2>1, <2>4 DEF n
    <3>2. NextEnvelope(blob, After(k - 1, at, ss), least) = Failed(After(k - 1, at, ss))
      BY <2>1, <2>2, <3>1, WalkOfPart DEF n
    <3>3. g[k] = Failed(After(m, at, ss)) /\ g[k - 1] = After(m, at, ss)
      BY <2>1, <3>1
    <3>4. QED
      BY <3>1, <3>2, <3>3
  <2>5. CASE k > m + 1
    <3>1. ~(k <= m) /\ ~(k - 1 <= m)
      BY <1>1, <2>1, <2>5
    <3>2. g[k] = Failed(After(m, at, ss)) /\ g[k - 1] = Failed(After(m, at, ss))
      BY <2>1, <3>1
    <3>3. NextEnvelope(blob, Failed(After(m, at, ss)), least) = Failed(After(m, at, ss))
      BY DEF NextEnvelope, Failed, After
    <3>4. QED
      BY <3>2, <3>3
  <2>6. QED
    BY <1>1, <2>1, <2>3, <2>4, <2>5
<1>7. Walk(blob, count, least) = g[count]
  <2>1. g = [k \in 0..count |-> g[k]]
    OBVIOUS
  <2> HIDE DEF g
  <2>2. IsWalk(g, blob, count, least)
    BY <1>5, <1>6, <2>1 DEF IsWalk
  <2>3. count \in Nat
    BY <1>1
  <2>4. QED
    BY <2>2, <2>3, WalkIs
<1>8. CASE count <= m
  <2>1. g[count] = After(count, at, ss)
    BY <1>1, <1>8
  <2>2. QED
    BY <1>1, <1>7, <1>8, <2>1
<1>9. CASE count > m
  <2>1. g[count] = Failed(After(m, at, ss))
    BY <1>1, <1>9
  <2>2. Failed(After(m, at, ss)).err = TRUE
    BY DEF Failed, After
  <2>3. QED
    BY <1>1, <1>7, <1>9, <2>1, <2>2
<1>10. QED
  BY <1>1, <1>8, <1>9

\* The first cells of a buffer.
LEMMA FirstPart ==
  ASSUME NEW S, NEW s \in Seq(S), NEW l \in 0..Len(s)
  PROVE  /\ SubSeq(s, 1, l) \in Seq(S) /\ Len(SubSeq(s, 1, l)) = l
         /\ \A i \in 1..l : SubSeq(s, 1, l)[i] = s[i]
<1>1. l \in Nat /\ Len(s) \in Nat /\ l <= Len(s)
  OBVIOUS
<1>2. QED
  BY <1>1

\* The packed values, one after the other, and what is left of them when the end
\* of the last is torn off.
LEMMA PackedParts ==
  ASSUME NEW os, NEW torn, ArePacked(os, torn)
  PROVE  LET ss == [i \in DOMAIN os |-> Leaf(os[i])]
             S == UNION {Range(ss[i]) : i \in DOMAIN ss}
             blob == SubSeq(Packed(os), 1, Len(Packed(os)) - torn)
             m == IF torn = 0 THEN Len(os) ELSE Len(os) - 1
         IN  /\ Len(os) \in Nat /\ Len(ss) = Len(os) /\ m \in 0..Len(os)
             /\ \A i \in 1..Len(os) : IsPlain(os[i]) /\ ss[i] = Leaf(os[i]) /\ Whole(ss[i])
             /\ \E at : /\ Parts(at, ss, S) /\ Begun(blob, at, ss, S) /\ Packed(os) = at[Len(ss)]
                        /\ torn = 0 => blob = Packed(os)
                        /\ Len(at[m]) <= Len(blob)
                        /\ m < Len(ss) => Len(blob) < Len(at[m + 1])
<1> DEFINE ss == [i \in DOMAIN os |-> Leaf(os[i])]
           S == UNION {Range(ss[i]) : i \in DOMAIN ss}
           n == Len(os)
           blob == SubSeq(Packed(os), 1, Len(Packed(os)) - torn)
           m == IF torn = 0 THEN n ELSE n - 1
<1>1. n \in Nat /\ DOMAIN os = 1..n
  BY DEF ArePacked
<1>2. \A i \in 1..n : IsPlain(os[i])
  BY <1>1 DEF ArePacked
<1>3. DOMAIN ss = 1..n /\ \A i \in 1..n : ss[i] = Leaf(os[i])
  BY <1>1
<1>4. \A i \in 1..n : Whole(ss[i])
  BY <1>2, <1>3, LeafIsEnvelope DEF EnvelopeOf
<1>5. torn = 0 \/ (n > 0 /\ torn \in 1..Len(ss[n]))
  <2>1. os # <<>> => n > 0
    BY <1>1 DEF ArePacked
  <2>2. n > 0 => ss[n] = Leaf(os[n])
    BY <1>1
  <2>3. QED
    BY <2>1, <2>2 DEF ArePacked
<1>6. Packed(os) = FlattenSeq(ss)
  BY DEF Packed
<1>7. ss = [i \in 1..n |-> ss[i]]
  BY <1>1
<1> HIDE DEF n, ss
<1>8. \A i \in 1..n : ss[i] \in Seq(S)
  <2>1. ASSUME NEW i \in 1..n PROVE ss[i] \in Seq(S)
    <3>1. Range(ss[i]) \subseteq S
      BY <1>3
    <3>2. ss[i] \in Seq(Range(ss[i]))
      BY <1>4 DEF Whole
    <3> HIDE DEF S
    <3>3. QED
      BY <3>1, <3>2
  <2>2. QED
    BY <2>1
<1> HIDE DEF S
<1>9. ss \in Seq(Seq(S)) /\ Len(ss) = n
  BY <1>1, <1>7, <1>8
<1>10. PICK at : Parts(at, ss, S) /\ FlattenSeq(ss) = at[Len(ss)]
  BY <1>9, FlattenParts
<1> DEFINE all == at[n]
<1>11. all \in Seq(S) /\ Len(all) \in Nat /\ blob = SubSeq(all, 1, Len(all) - torn)
  BY <1>1, <1>6, <1>9, <1>10, PartsType
<1>12. n > 0 => Joins(all, at[n - 1], ss[n])
  <2>1. n > 0 => n \in 1..Len(ss)
    BY <1>1, <1>9
  <2>2. QED
    BY <1>10, <2>1, PartEnds
<1> HIDE DEF all, blob
<1>13. CASE torn = 0
  <2>1. blob = all
    BY <1>11, <1>13
  <2>2. Starts(blob, all) /\ blob \in Seq(S) /\ Len(all) <= Len(blob)
    <3>1. Len(all) <= Len(all)
      BY <1>11
    <3>2. Starts(all, all) /\ all \in Seq(S)
      BY <1>11, <3>1, Zenon DEF Starts
    <3>3. QED
      BY <2>1, <3>1, <3>2
  <2>3. m = n /\ m \in 0..n /\ ~(m < n)
    BY <1>1, <1>13
  <2>4. QED
    BY <1>1, <1>2, <1>3, <1>4, <1>6, <1>9, <1>10, <2>1, <2>2, <2>3 DEF Begun, all, n, ss, S, blob
<1>14. CASE torn # 0
  <2>1. n > 0 /\ torn \in Nat /\ torn >= 1 /\ torn <= Len(ss[n]) /\ Len(ss[n]) \in Nat
    BY <1>5, <1>12, <1>14 DEF Joins
  <2>2. /\ Len(all) = Len(at[n - 1]) + Len(ss[n]) /\ Len(at[n - 1]) \in Nat
    BY <1>12, <2>1 DEF Joins
  <2>3. /\ blob \in Seq(S) /\ Len(blob) = Len(all) - torn
        /\ \A i \in 1..Len(blob) : blob[i] = all[i]
    <3> DEFINE l == Len(all) - torn
    <3>1. l \in 0..Len(all)
      <4> DEFINE a == Len(at[n - 1])
                 b == Len(ss[n])
      <4> HIDE DEF a, b
      <4>1. a \in Nat /\ b \in Nat /\ Len(all) = a + b /\ torn \in Nat /\ torn <= b
        BY <2>1, <2>2 DEF a, b
      <4>2. QED
        BY <4>1
    <3>2. blob = SubSeq(all, 1, l)
      BY <1>11
    <3> HIDE DEF l
    <3>3. blob \in Seq(S) /\ Len(blob) = l /\ \A i \in 1..l : blob[i] = all[i]
      BY <1>11, <3>1, <3>2, FirstPart
    <3>4. QED
      BY <3>3 DEF l
  <2>4. Starts(blob, all)
    BY <1>11, <2>1, <2>3 DEF Starts
  <2>5. Len(at[n - 1]) <= Len(blob) /\ Len(blob) < Len(all)
    <3> DEFINE a == Len(at[n - 1])
               b == Len(ss[n])
    <3> HIDE DEF a, b
    <3>1. /\ a \in Nat /\ b \in Nat /\ Len(all) = a + b /\ torn \in Nat /\ torn >= 1
          /\ torn <= b /\ Len(blob) = Len(all) - torn
      BY <2>1, <2>2, <2>3 DEF a, b
    <3>2. a <= Len(blob) /\ Len(blob) < Len(all)
      BY <3>1
    <3>3. QED
      BY <3>2 DEF a
  <2>6. m = n - 1 /\ m \in 0..n /\ m + 1 = n
    BY <1>1, <1>14, <2>1
  <2>7. QED
    BY <1>1, <1>2, <1>3, <1>4, <1>6, <1>9, <1>10, <1>14, <2>3, <2>4, <2>5, <2>6
       DEF Begun, all, n, ss, S, blob
<1>15. QED
  BY <1>13, <1>14

\* A walk gives the envelopes that were packed, or fails at one that is torn.
LEMMA PackedWalk ==
  ASSUME NEW os, NEW torn, ArePacked(os, torn), NEW count \in 0..Len(os),
         NEW least \in 0..HeaderSize
  PROVE  LET walk == Walk(SubSeq(Packed(os), 1, Len(Packed(os)) - torn), count, least)
         IN  /\ walk.err = (torn # 0 /\ count = Len(os))
             /\ ~walk.err => walk.envs = [i \in 1..count |-> Leaf(os[i])]
<1> DEFINE ss == [i \in DOMAIN os |-> Leaf(os[i])]
           S == UNION {Range(ss[i]) : i \in DOMAIN ss}
           n == Len(os)
           blob == SubSeq(Packed(os), 1, Len(Packed(os)) - torn)
           m == IF torn = 0 THEN n ELSE n - 1
           walk == Walk(blob, count, least)
<1>1. /\ n \in Nat /\ Len(ss) = n /\ m \in 0..n /\ count \in 0..n
      /\ \A i \in 1..n : ss[i] = Leaf(os[i]) /\ Whole(ss[i])
  BY PackedParts
<1>2. PICK at : /\ Parts(at, ss, S) /\ Begun(blob, at, ss, S)
                /\ Len(at[m]) <= Len(blob)
                /\ m < Len(ss) => Len(blob) < Len(at[m + 1])
  BY PackedParts
<1>3. torn # 0 => n > 0
  BY <1>1
<1>31. m = IF torn = 0 THEN n ELSE n - 1
  OBVIOUS
<1> HIDE DEF ss, S, n, blob, m
<1>4. /\ count <= m => walk = After(count, at, ss)
      /\ count > m => walk.err = TRUE
  BY <1>1, <1>2, WalkOfParts
<1>5. count <= m => walk.err = FALSE /\ walk.envs = [i \in 1..count |-> ss[i]]
  BY <1>4 DEF After
<1>6. (count > m) = (torn # 0 /\ count = n) /\ count \in Nat /\ m \in Nat
  BY <1>1, <1>31
<1> HIDE DEF walk
<1>7. [i \in 1..count |-> ss[i]] = [i \in 1..count |-> Leaf(os[i])]
  BY <1>1, <1>6
<1>8. walk.err = (torn # 0 /\ count = n) /\ (~walk.err => walk.envs = [i \in 1..count |-> ss[i]])
  <2>1. count <= m \/ count > m
    BY <1>6
  <2>2. count <= m => ~(count > m)
    BY <1>6
  <2>3. CASE count <= m
    BY <1>5, <1>6, <2>2, <2>3, Zenon
  <2>4. CASE count > m
    BY <1>4, <1>6, <2>4
  <2>5. QED
    BY <2>1, <2>3, <2>4
<1>9. QED
  BY <1>7, <1>8 DEF walk, n, blob

\* What the two walks ask for is in every envelope.
LEMMA LeastSizes == 0 \in 0..HeaderSize /\ HeaderSize \in 0..HeaderSize
  BY WireAssumption

-----------------------------------------------------------------------------
(* What is read.                                                           *)

\* Every answer is returned, or one that is an error.
LEMMA AllAnswers ==
  ASSUME NEW answers
  PROVE  /\ (\A i \in DOMAIN answers : answers[i].err = "none") =>
              All(answers) = Success([i \in DOMAIN answers |-> answers[i].val])
         /\ (\E i \in DOMAIN answers : answers[i].err # "none") => All(answers).err # "none"
<1>1. ASSUME \E i \in DOMAIN answers : answers[i].err # "none"
      PROVE  All(answers).err # "none"
  <2> DEFINE a == CHOOSE a \in Range(answers) : a.err # "none"
  <2>1. \E x \in Range(answers) : x.err # "none"
    BY <1>1 DEF Range
  <2>2. a.err # "none"
    BY <2>1
  <2>3. All(answers) = Failure(a.err)
    BY <1>1 DEF All
  <2> HIDE DEF a
  <2>4. QED
    BY <2>2, <2>3 DEF Failure
<1>2. QED
  BY <1>1 DEF All

\* A credential is wrapped whoever sent it, and nothing else is.
LEMMA CredentialWrapped ==
  ASSUME NEW o, IsPlain(o)
  PROVE  /\ o.type = "Credential" => WrapCredential(Leaf(o)) = Success(AsSent(o))
         /\ o.type # "Credential" => WrapCredential(Leaf(o)).err # "none"
<1> DEFINE b == Leaf(o)
           q == TypeOf(o)
<1>1. /\ q \in Readers /\ q.fx = o.fx /\ q.type = o.type
      /\ ShapeOf(q) = ShapeOf(o) /\ TypeKindOf(q) = TypeKindOf(o)
  BY PlainParts
<1>2. EnvelopeOf(b, o, o.val) /\ Begins(b, b)
  BY LeafIsEnvelope, BeginsItself DEF EnvelopeOf
<1> HIDE DEF b, q
<1>3. /\ b[1].byte = TypeKindOf(o)
      /\ b[BodyAt] = [shape |-> ShapeOf(o), val |-> o.val, stride |-> Stride(o)]
      /\ (Refusal(Credential, b) = "none")
            = (ShapeOf(o).code = Credential.code /\ ~WrongTypeKind(Credential, TypeKindOf(o)))
  BY <1>2, WholeIsRead
<1>4. b[BodyAt].val = o.val
  BY <1>3
<1>5. Credential.code = 6 /\ Credential.kind = OwnedKind
  BY ShapeTables DEF Told
<1>6. ASSUME o.type = "Credential"
      PROVE  WrapCredential(b) = Success(AsSent(o))
  <2>1. ShapeOf(o) = Credential
    BY <1>1, <1>6, ReaderParts
  <2>2. OwnedKind # AnyKind /\ OwnedKind # AttestationKind
    BY DEF OwnedKind, AnyKind, AttestationKind
  <2>3. TypeKindOf(o) = Packages[o.fx].tk /\ Packages[o.fx].tk # TypeKind.reserved
    <3>1. o.fx # "chain" /\ o.fx \in DOMAIN Packages
      BY <1>1, <1>5, <2>1, ReaderKinds
    <3>2. Packages[o.fx].tk # TypeKind.reserved
      BY <3>1, PackageKinds
    <3>3. TypeKindOf(o) = Packages[o.fx].tk
      BY <1>5, <2>1, <2>2 DEF TypeKindOf
    <3>4. QED
      BY <3>2, <3>3
  <2>4. Refusal(Credential, b) = "none"
    BY <1>3, <1>5, <2>1, <2>2, <2>3 DEF WrongTypeKind
  <2>5. QED
    BY <1>3, <1>4, <2>3, <2>4 DEF WrapCredential, AsSent
<1>7. ASSUME o.type # "Credential"
      PROVE  WrapCredential(b).err # "none"
  <2>1. ShapeOf(o).code # Credential.code
    BY <1>1, <1>5, <1>7, ReaderParts
  <2>2. Refusal(Credential, b) # "none"
    BY <1>3, <2>1
  <2>3. QED
    BY <2>2 DEF WrapCredential, Failure
<1>8. QED
  BY <1>6, <1>7 DEF b

\* What is sent is read by its own reader; another refuses it, or is confused.
LEMMA ObjectRead ==
  ASSUME NEW r \in Readers, NEW o, IsObject(o), NEW b, Begins(b, ToBytes(o))
  PROVE  /\ Same(r, TypeOf(o)) => WrapLeaf(r, b) = Content(r, o, Fields(o))
         /\ ~Same(r, TypeOf(o)) =>
              \/ WrapLeaf(r, b).err # "none"
              \/ Confused(r, TypeOf(o)) /\ WrapLeaf(r, b) = Success(Garbage)
  BY ObjectTypes, FieldsSized, EnvelopeRead

\* What holds something is read as it is, and not by the reader of another type.
LEMMA HoldingContent ==
  ASSUME NEW r \in Readers, NEW o, IsObject(o), o.type \in Holding, Same(r, TypeOf(o))
  PROVE  /\ Content(r, o, Fields(o)) = Success(Fields(o))
         /\ r = TypeOf(o) /\ r.fx = o.fx /\ r.type = o.type
<1>1. /\ TypeOf(o) \in Readers /\ TypeOf(o).type = o.type /\ TypeOf(o).fx = o.fx
      /\ r.type = o.type
  BY ObjectTypes DEF Same
<1>2. /\ r.type \in Holding /\ r.type # "Credential"
      /\ "level" \notin DOMAIN ShapeOf(r).fields /\ ShapeOf(r) # OutputOwners
  <2>1. r.type \in Holding /\ r.type # "Credential"
    BY <1>1 DEF Holding
  <2>2. \/ ShapeOf(r) = MintOperation \/ ShapeOf(r) = NFTMintOperation
        \/ ShapeOf(r) = NFTTransferOp \/ ShapeOf(r) = UTXO \/ ShapeOf(r) = LockedOutput
        \/ ShapeOf(r) = SignedTx \/ ShapeOf(r) = XVMBaseTx
    BY <2>1, HoldingShapes DEF Holding
  <2>3. "level" \notin DOMAIN ShapeOf(r).fields /\ ShapeOf(r).code # OutputOwners.code
    BY <2>2, ShapeTables DEF Told
  <2>4. QED
    BY <2>1, <2>3
<1>3. r = TypeOf(o)
  BY <1>2 DEF Same
<1>4. QED
  BY <1>1, <1>2, <1>3 DEF Content

\* A plain value in hand is read by the reader of its type.
LEMMA HeldRead ==
  ASSUME NEW o, IsPlain(o), Sound(o)
  PROVE  WrapLeaf(TypeOf(o), Leaf(o)) = Success(o.val)
<1>1. TypeOf(o) \in Readers /\ Same(TypeOf(o), TypeOf(o))
  BY PlainParts DEF Same
<1>2. EnvelopeOf(Leaf(o), o, o.val) /\ Begins(Leaf(o), Leaf(o))
  BY LeafIsEnvelope, BeginsItself DEF EnvelopeOf
<1>3. WrapLeaf(TypeOf(o), Leaf(o)) = Content(TypeOf(o), o, o.val)
  BY <1>1, <1>2, EnvelopeRead
<1>4. QED
  BY <1>1, <1>3, PlainContent

\* The owners in a mint operation, and the output in a transfer, are read as they are.
LEMMA SoundHeld ==
  ASSUME NEW o, IsPlain(o),
         TypeOf(o) \in {[fx |-> "secp256k1", type |-> "OutputOwners"],
                        [fx |-> "nft", type |-> "TransferOutput"]}
  PROVE  Sound(o)
<1>1. ShapeOf(o) = OutputOwners \/ ShapeOf(o) = NFTTransferOutput
  BY PlainParts, ReaderShapes DEF Classical, PostQuantum
<1>2. "level" \notin DOMAIN ShapeOf(o).fields
  BY <1>1, ShapeTables DEF Told
<1>3. "level" \notin DOMAIN o.val /\ o.type # "Credential"
  BY <1>2, PlainParts
<1>4. QED
  BY <1>3 DEF Sound

\* A mint operation is read with its two outputs.
LEMMA MintRead ==
  ASSUME NEW o, IsObject(o), o.type = "MintOperation", o.fx # "nft", WellFormed(o),
         NEW r, r = TypeOf(o), NEW b, WrapLeaf(r, b) = Success(Fields(o))
  PROVE  Wrap(r, b) = Success(Expected(o))
<1> DEFINE m == o.val.mintOutput
           t == o.val.transferOutput
           answers == <<WrapLeaf(Minted(r.fx)[1], Fields(o).mintOutput),
                        WrapLeaf(Minted(r.fx)[2], Fields(o).transferOutput)>>
           two == All(answers)
<1>1. r.fx = o.fx /\ r.type = "MintOperation" /\ r.fx # "nft"
  BY ObjectTypes
<1>2. /\ o.val = [f \in {"sigIndices", "mintOutput", "transferOutput"} |-> o.val[f]]
      /\ IsPlain(m) /\ TypeOf(m) = Minted(o.fx)[1]
      /\ IsPlain(t) /\ TypeOf(t) = Minted(o.fx)[2]
  BY HeldParts DEF Holding, HasFields
<1>3. Fields(o) = [o.val EXCEPT !.mintOutput = Leaf(@), !.transferOutput = Leaf(@)]
  BY DEF Fields
<1>4. /\ Fields(o).mintOutput = Leaf(m) /\ Fields(o).transferOutput = Leaf(t)
      /\ DOMAIN Fields(o) = {"sigIndices", "mintOutput", "transferOutput"}
  BY <1>2, <1>3
<1>5. Sound(m) /\ Sound(t)
  BY DEF WellFormed
<1>6. answers = <<Success(m.val), Success(t.val)>>
  BY <1>1, <1>2, <1>4, <1>5, HeldRead
<1>7. two = Success([i \in DOMAIN answers |-> answers[i].val])
  <2>1. \A i \in DOMAIN answers : answers[i].err = "none"
    BY <1>6 DEF Success
  <2> HIDE DEF answers
  <2>2. QED
    BY <2>1, AllAnswers
<1>8. two.err = "none" /\ two.val[1] = m.val /\ two.val[2] = t.val
  <2> HIDE DEF two, answers
  <2>1. /\ DOMAIN answers = 1..2 /\ answers[1].val = m.val /\ answers[2].val = t.val
    BY <1>6 DEF Success
  <2>2. QED
    BY <1>7, <2>1 DEF Success
<1>9. Fields(o) # Garbage
  <2>1. "garbage" \in DOMAIN Garbage
    BY DEF Garbage
  <2>2. QED
    BY <1>4, <2>1
<1>10. WrapLeaf(r, b).err = "none" /\ WrapLeaf(r, b).val = Fields(o)
  BY DEF Success
<1>11. Wrap(r, b) = Success([Fields(o) EXCEPT !.mintOutput = two.val[1],
                                             !.transferOutput = two.val[2]])
  <2>1. two = All(<<WrapLeaf(Minted(r.fx)[1], WrapLeaf(r, b).val.mintOutput),
                    WrapLeaf(Minted(r.fx)[2], WrapLeaf(r, b).val.transferOutput)>>)
    BY <1>10
  <2> HIDE DEF two
  <2>2. QED
    BY <1>1, <1>8, <1>9, <1>10, <2>1 DEF Wrap
<1>12. [Fields(o) EXCEPT !.mintOutput = m.val, !.transferOutput = t.val] = Expected(o)
  BY <1>2, <1>3 DEF Expected
<1> HIDE DEF two, m, t
<1>13. QED
  BY <1>8, <1>11, <1>12

\* A transfer operation is read with its output.
LEMMA TransferRead ==
  ASSUME NEW o, IsObject(o), o.type = "TransferOperation",
         NEW r, r = TypeOf(o), NEW b, WrapLeaf(r, b) = Success(Fields(o))
  PROVE  Wrap(r, b) = Success(Expected(o))
<1> DEFINE h == o.val.holds
           output == WrapLeaf([fx |-> "nft", type |-> "TransferOutput"], Fields(o).holds)
<1>1. r.fx = o.fx /\ r.type = "TransferOperation" /\ ShapeOf(o) = NFTTransferOp
  BY ObjectTypes, HoldingShapes
<1>2. /\ HasFields(o.val, DOMAIN ShapeOf(o).fields) /\ IsPlain(h)
      /\ TypeOf(h) = [fx |-> "nft", type |-> "TransferOutput"]
  BY HeldParts DEF Holding
<1>3. DOMAIN ShapeOf(o).fields = {"sigIndices", "holds"}
  BY <1>1, ShapeTables DEF Told
<1>4. o.val = [f \in {"sigIndices", "holds"} |-> o.val[f]]
  BY <1>2, <1>3 DEF HasFields
<1>5. Fields(o) = [o.val EXCEPT !.holds = Leaf(@)]
  BY DEF Fields
<1>6. Fields(o).holds = Leaf(h) /\ DOMAIN Fields(o) = {"sigIndices", "holds"}
  BY <1>4, <1>5
<1>7. output = Success(h.val)
  BY <1>2, <1>6, SoundHeld, HeldRead
<1>8. output.err = "none" /\ output.val = h.val
  BY <1>7 DEF Success
<1>9. Fields(o) # Garbage
  <2>1. "garbage" \in DOMAIN Garbage
    BY DEF Garbage
  <2>2. QED
    BY <1>6, <2>1
<1>10. WrapLeaf(r, b).err = "none" /\ WrapLeaf(r, b).val = Fields(o)
  BY DEF Success
<1>11. Wrap(r, b) = Success([Fields(o) EXCEPT !.holds = output.val])
  <2>1. output = WrapLeaf([fx |-> "nft", type |-> "TransferOutput"], WrapLeaf(r, b).val.holds)
    BY <1>10
  <2> HIDE DEF output
  <2>2. QED
    BY <1>1, <1>8, <1>9, <1>10, <2>1 DEF Wrap
<1>12. [Fields(o) EXCEPT !.holds = h.val] = Expected(o)
  BY <1>4, <1>5 DEF Expected
<1> HIDE DEF output, h
<1>13. QED
  BY <1>8, <1>11, <1>12

\* A mint operation of an NFT is read with all its owners.
LEMMA OwnersRead ==
  ASSUME NEW o, IsObject(o), o.type = "MintOperation", o.fx = "nft",
         NEW r, r = TypeOf(o), NEW b, WrapLeaf(r, b) = Success(Fields(o))
  PROVE  Wrap(r, b) = Success(Expected(o))
<1> DEFINE os == o.val.outputs
           n == Len(os)
           OwnersType == [fx |-> "secp256k1", type |-> "OutputOwners"]
           walk == WalkOwners(Fields(o).outputs, Fields(o).count)
           answers == [i \in DOMAIN walk.envs |-> WrapLeaf(OwnersType, walk.envs[i])]
           owners == WrapOwners(Fields(o))
<1>1. r.fx = o.fx /\ r.type = "MintOperation" /\ r.fx = "nft"
  BY ObjectTypes
<1>2. /\ ArePacked(os, 0)
      /\ \A i \in DOMAIN os : TypeOf(os[i]) = OwnersType
  BY HeldParts DEF Holding
<1>3. n \in Nat /\ DOMAIN os = 1..n /\ \A i \in 1..n : IsPlain(os[i])
  BY <1>2 DEF ArePacked
<1>4. /\ Fields(o).count = n /\ Fields(o).outputs = Packed(os)
      /\ DOMAIN Fields(o) = {"sigIndices", "groupID", "payload", "count", "outputs"}
  BY <1>1 DEF Fields
<1>5. walk = Walk(SubSeq(Packed(os), 1, Len(Packed(os)) - 0), n, HeaderSize)
  <2>1. SubSeq(Packed(os), 1, Len(Packed(os)) - 0) = Packed(os)
    BY <1>2, PackedParts
  <2>2. QED
    BY <1>4, <2>1 DEF WalkOwners
<1>6. walk.err = FALSE /\ walk.envs = [i \in 1..n |-> Leaf(os[i])]
  <2> HIDE DEF walk, os
  <2>1. n \in 0..n
    BY <1>3
  <2>2. walk.err = (0 # 0 /\ n = n) /\ (~walk.err => walk.envs = [i \in 1..n |-> Leaf(os[i])])
    BY <1>2, <1>5, <2>1, LeastSizes, PackedWalk
  <2>3. QED
    BY <2>2
<1> HIDE DEF walk
<1>7. answers = [i \in 1..n |-> Success(os[i].val)]
  <2>1. ASSUME NEW i \in 1..n PROVE WrapLeaf(OwnersType, Leaf(os[i])) = Success(os[i].val)
    <3>1. IsPlain(os[i]) /\ TypeOf(os[i]) = OwnersType
      BY <1>2, <1>3
    <3>2. Sound(os[i])
      BY <3>1, SoundHeld
    <3>3. QED
      BY <3>1, <3>2, HeldRead
  <2>2. DOMAIN walk.envs = 1..n /\ \A i \in 1..n : walk.envs[i] = Leaf(os[i])
    BY <1>6
  <2> HIDE DEF os, n, OwnersType
  <2>3. QED
    BY <2>1, <2>2
<1>8. owners = All(answers)
  BY <1>6 DEF WrapOwners, walk
<1> HIDE DEF answers
<1>9. All(answers) = Success([i \in 1..n |-> os[i].val])
  <2>1. /\ DOMAIN answers = 1..n
        /\ \A i \in 1..n : answers[i].err = "none" /\ answers[i].val = os[i].val
    BY <1>7 DEF Success
  <2> HIDE DEF os, n
  <2>2. All(answers) = Success([i \in DOMAIN answers |-> answers[i].val])
    BY <2>1, AllAnswers
  <2>3. [i \in DOMAIN answers |-> answers[i].val] = [i \in 1..n |-> os[i].val]
    BY <2>1
  <2>4. QED
    BY <2>2, <2>3
<1>10. owners.err = "none" /\ owners.val = [i \in DOMAIN os |-> os[i].val]
  <2>1. owners = Success([i \in 1..n |-> os[i].val])
    BY <1>8, <1>9
  <2> HIDE DEF owners
  <2>2. QED
    BY <1>3, <2>1 DEF Success
<1>11. Fields(o) # Garbage
  <2>1. "garbage" \in DOMAIN Garbage
    BY DEF Garbage
  <2>2. QED
    BY <1>4, <2>1
<1>12. WrapLeaf(r, b).err = "none" /\ WrapLeaf(r, b).val = Fields(o)
  BY DEF Success
<1>13. Wrap(r, b) = Success([Fields(o) EXCEPT !.outputs = owners.val])
  <2>1. owners = WrapOwners(WrapLeaf(r, b).val)
    BY <1>12
  <2> HIDE DEF owners
  <2>2. QED
    BY <1>1, <1>10, <1>11, <1>12, <2>1 DEF Wrap
<1>14. [Fields(o) EXCEPT !.outputs = [i \in DOMAIN os |-> os[i].val]] = Expected(o)
  BY DEF Expected
<1> HIDE DEF owners, os
<1>15. QED
  BY <1>10, <1>13, <1>14

\* What is sent is what is read, by its own reader.
LEMMA OwnWrap ==
  ASSUME NEW r \in Readers, NEW o, IsObject(o), WellFormed(o), Same(r, TypeOf(o)),
         NEW b, Begins(b, ToBytes(o))
  PROVE  Wrap(r, b) = Success(Expected(o))
<1>1. r.type = o.type /\ WrapLeaf(r, b) = Content(r, o, Fields(o))
  BY ObjectRead, ObjectTypes DEF Same
<1>2. CASE IsPlain(o)
  <2>1. o.type \notin Holding /\ Fields(o) = o.val
    BY <1>2, PlainParts
  <2>2. WrapLeaf(r, b) = Success(o.val)
    BY <1>1, <1>2, <2>1, PlainContent DEF WellFormed
  <2>3. Expected(o) = o.val
    BY <2>1 DEF Expected, Holding
  <2>4. Wrap(r, b) = WrapLeaf(r, b)
    BY <1>1, <2>1 DEF Wrap, Holding
  <2>5. QED
    BY <2>2, <2>3, <2>4
<1>3. CASE o.type \in Holding
  <2>1. r = TypeOf(o) /\ r.fx = o.fx /\ r.type = o.type /\ WrapLeaf(r, b) = Success(Fields(o))
    BY <1>1, <1>3, HoldingContent
  <2>2. CASE o.type = "MintOperation" /\ o.fx # "nft"
    BY <2>1, <2>2, MintRead
  <2>3. CASE o.type = "MintOperation" /\ o.fx = "nft"
    BY <2>1, <2>3, OwnersRead
  <2>4. CASE o.type = "TransferOperation"
    BY <2>1, <2>4, TransferRead
  <2>5. CASE o.type \notin {"MintOperation", "TransferOperation"}
    <3>1. Wrap(r, b) = WrapLeaf(r, b)
      BY <2>1, <2>5 DEF Wrap
    <3>2. Expected(o) = Fields(o)
      BY <2>5 DEF Expected
    <3>3. QED
      BY <2>1, <3>1, <3>2
  <2>6. QED
    BY <2>2, <2>3, <2>4, <2>5
<1>4. QED
  BY <1>2, <1>3, ObjectTypes

\* A credential that was packed whole.
PackedWhole(cs, torn, i) == cs[i].type = "Credential" /\ (torn = 0 \/ i < Len(cs))

Answer(walk) ==
  IF walk.err THEN Failure("ErrShortEnvelope")
  ELSE All([i \in DOMAIN walk.envs |-> WrapCredential(walk.envs[i])])

\* All the credentials are wrapped, or there is an error.
LEMMA AllWrapped ==
  ASSUME NEW cs, NEW torn, ArePacked(cs, torn)
  PROVE  LET blob == SubSeq(Packed(cs), 1, Len(Packed(cs)) - torn)
             answer == Answer(WalkCredentials(blob, Len(cs)))
         IN  IF \A i \in DOMAIN cs : PackedWhole(cs, torn, i)
             THEN answer = Success([i \in DOMAIN cs |-> AsSent(cs[i])])
             ELSE answer.err # "none"
<1> DEFINE n == Len(cs)
           walk == WalkCredentials(SubSeq(Packed(cs), 1, Len(Packed(cs)) - torn), n)
           answers == [i \in DOMAIN walk.envs |-> WrapCredential(walk.envs[i])]
<1>1. n \in Nat /\ DOMAIN cs = 1..n /\ \A i \in 1..n : IsPlain(cs[i])
  BY DEF ArePacked
<1>2. walk.err = (torn # 0) /\ (~walk.err => walk.envs = [i \in 1..n |-> Leaf(cs[i])])
  <2>1. n \in 0..n
    BY <1>1
  <2>2. /\ walk.err = (torn # 0 /\ n = n)
        /\ ~walk.err => walk.envs = [i \in 1..n |-> Leaf(cs[i])]
    BY <2>1, LeastSizes, PackedWalk DEF WalkCredentials
  <2>3. QED
    BY <2>2
<1>3. torn = 0 \/ n > 0
  <2>1. cs # <<>> => n > 0
    BY <1>1 DEF ArePacked
  <2>2. QED
    BY <2>1 DEF ArePacked
<1>4. Answer(walk) = IF walk.err THEN Failure("ErrShortEnvelope") ELSE All(answers)
  BY DEF Answer
<1>5. torn = 0 => /\ DOMAIN answers = 1..n
                  /\ \A i \in 1..n : answers[i] = WrapCredential(Leaf(cs[i]))
  BY <1>2
<1> HIDE DEF walk, answers
<1>6. CASE torn # 0
  <2>1. Answer(walk).err # "none"
    <3>1. walk.err
      BY <1>2, <1>6
    <3>2. Answer(walk) = Failure("ErrShortEnvelope")
      BY <1>4, <3>1
    <3>3. QED
      BY <3>2 DEF Failure
  <2>2. n \in 1..n /\ ~PackedWhole(cs, torn, n)
    BY <1>1, <1>3, <1>6 DEF PackedWhole
  <2>3. QED
    BY <1>1, <2>1, <2>2 DEF walk
<1>7. CASE torn = 0 /\ \A i \in 1..n : cs[i].type = "Credential"
  <2>1. \A i \in 1..n : answers[i] = Success(AsSent(cs[i]))
    BY <1>1, <1>5, <1>7, CredentialWrapped
  <2>2. ASSUME NEW i \in 1..n PROVE answers[i].err = "none" /\ answers[i].val = AsSent(cs[i])
    <3> HIDE DEF n
    <3>1. answers[i] = Success(AsSent(cs[i]))
      BY <2>1
    <3>2. QED
      BY <3>1 DEF Success
  <2>3. All(answers) = Success([i \in DOMAIN answers |-> answers[i].val])
    BY <1>5, <1>7, <2>2, AllAnswers
  <2>4. [i \in DOMAIN answers |-> answers[i].val] = [i \in DOMAIN cs |-> AsSent(cs[i])]
    BY <1>1, <1>5, <1>7, <2>2
  <2>5. Answer(walk) = Success([i \in DOMAIN cs |-> AsSent(cs[i])])
    BY <1>2, <1>4, <1>7, <2>3, <2>4
  <2>6. \A i \in DOMAIN cs : PackedWhole(cs, torn, i)
    BY <1>1, <1>7 DEF PackedWhole
  <2>7. QED
    BY <2>5, <2>6 DEF walk
<1>8. ASSUME torn = 0, NEW i \in 1..n, cs[i].type # "Credential"
      PROVE  Answer(walk).err # "none" /\ ~PackedWhole(cs, torn, i)
  <2>1. answers[i].err # "none" /\ i \in DOMAIN answers
    BY <1>1, <1>5, <1>8, CredentialWrapped
  <2>2. All(answers).err # "none"
    BY <2>1, AllAnswers
  <2>3. QED
    BY <1>2, <1>4, <1>8, <2>2 DEF PackedWhole
<1>9. QED
  BY <1>1, <1>6, <1>7, <1>8 DEF walk

\* What CredentialAt answers.
AnswerAt(walk, i, count) ==
  CASE i >= count -> Failure("ErrWrongShapeKind")
    [] i < count /\ walk.err -> Failure("ErrShortEnvelope")
    [] OTHER -> WrapCredential(walk.envs[i + 1])

\* One credential is wrapped, or there is an error.
LEMMA OneWrapped ==
  ASSUME NEW cs, NEW torn, ArePacked(cs, torn), NEW i \in Nat
  PROVE  LET walk == WalkCredentials(SubSeq(Packed(cs), 1, Len(Packed(cs)) - torn), i + 1)
             answer == AnswerAt(walk, i, Len(cs))
         IN  IF i < Len(cs) /\ PackedWhole(cs, torn, i + 1)
             THEN answer = Success(AsSent(cs[i + 1]))
             ELSE answer.err # "none"
<1> DEFINE n == Len(cs)
           walk == WalkCredentials(SubSeq(Packed(cs), 1, Len(Packed(cs)) - torn), i + 1)
           answer == AnswerAt(walk, i, n)
<1>1. n \in Nat /\ \A k \in 1..n : IsPlain(cs[k])
  BY DEF ArePacked
<1>2. i < n => /\ walk.err = (torn # 0 /\ i + 1 = n)
               /\ ~walk.err => walk.envs = [k \in 1..(i + 1) |-> Leaf(cs[k])]
  <2>1. i < n => i + 1 \in 0..n
    BY <1>1
  <2>2. QED
    BY <2>1, LeastSizes, PackedWalk DEF WalkCredentials
<1> HIDE DEF walk
<1>3. CASE i >= n
  <2>1. ~(i < n)
    BY <1>1, <1>3
  <2>2. answer.err # "none"
    BY <1>1, <1>3, <2>1 DEF AnswerAt, Failure
  <2>3. QED
    BY <2>1, <2>2 DEF walk
<1>4. CASE i < n /\ walk.err
  <2>1. answer = Failure("ErrShortEnvelope")
    BY <1>1, <1>4 DEF AnswerAt
  <2>2. answer.err # "none"
    BY <2>1 DEF Failure
  <2>3. torn # 0 /\ i + 1 = n
    BY <1>2, <1>4
  <2>4. ~(i + 1 < n)
    BY <1>1, <2>3
  <2>5. ~PackedWhole(cs, torn, i + 1)
    BY <2>3, <2>4 DEF PackedWhole
  <2>6. QED
    BY <2>2, <2>5 DEF walk
<1>5. CASE i < n /\ ~walk.err
  <2>1. answer = WrapCredential(walk.envs[i + 1])
    BY <1>1, <1>5 DEF AnswerAt
  <2>2. walk.envs[i + 1] = Leaf(cs[i + 1])
    BY <1>2, <1>5
  <2>3. IsPlain(cs[i + 1])
    BY <1>1, <1>5
  <2>4. torn = 0 \/ i + 1 < n
    <3>1. torn = 0 \/ i + 1 # n
      BY <1>2, <1>5, Zenon
    <3>2. QED
      BY <1>1, <1>5, <3>1
  <2>5. PackedWhole(cs, torn, i + 1) = (cs[i + 1].type = "Credential")
    BY <2>4 DEF PackedWhole
  <2>6. IF cs[i + 1].type = "Credential" THEN answer = Success(AsSent(cs[i + 1]))
        ELSE answer.err # "none"
    BY <2>1, <2>2, <2>3, CredentialWrapped
  <2>7. QED
    BY <1>5, <2>5, <2>6 DEF walk
<1>6. QED
  BY <1>1, <1>3, <1>4, <1>5

-----------------------------------------------------------------------------
(* The invariant.                                                          *)

\* What has happened to the buffer since it was made.
BufferKnown ==
  /\ damage \in {"none", "cut", "tail"}
  /\ damage = "none" => buf = ToBytes(sent)
  /\ damage = "tail" => buf = ToBytes(sent) \o Cells(1)
  /\ damage = "cut" => \E n \in 0..(Len(ToBytes(sent)) - 1) : buf = SubSeq(ToBytes(sent), 1, n)

\* An object of the transaction that was read, as it was sent.
ObjectKnown(type, shape, xs) ==
  /\ damage # "cut" /\ sent.type = "XVMBaseTx"
  /\ reader = [fx |-> "chain", type |-> type, index |-> reader.index]
  /\ got.err = "none" =>
       /\ reader.index + 1 \in DOMAIN xs
       /\ got.val = Transferable(shape, xs[reader.index + 1]).val

\* Who has read the buffer, and what the answer is.
AnswerKnown ==
  \/ reader = Nobody
  \/ reader \in Readers /\ got = Wrap(reader, buf)
  \/ /\ damage # "cut" /\ sent.type = "SignedTx"
     /\ reader.type \in {"AllCredentials", "CredentialAt"}
  \/ ObjectKnown("OutAt", TransferableOut, sent.val.outs)
  \/ ObjectKnown("InAt", TransferableIn, sent.val.ins)

WireInv == IsObject(sent) /\ BufferKnown /\ AnswerKnown /\ WalkExact

\* What is read of a buffer that is refused is the refusal.
LEMMA Refused ==
  ASSUME NEW r, NEW b, WrapLeaf(r, b).err # "none"
  PROVE  Wrap(r, b) = WrapLeaf(r, b)
  BY DEF Wrap

\* A reader's answer is what he reads.
LEMMA ReaderAnswer ==
  ASSUME WireInv, reader \in Readers
  PROVE  got = Wrap(reader, buf)
<1>1. reader.type \notin {"none", "AllCredentials", "CredentialAt", "OutAt", "InAt"}
  BY ReaderParts
<1>2. reader # Nobody
  BY <1>1 DEF Nobody
<1>3. ~ObjectKnown("OutAt", TransferableOut, sent.val.outs)
  BY <1>1 DEF ObjectKnown
<1>4. ~ObjectKnown("InAt", TransferableIn, sent.val.ins)
  BY <1>1 DEF ObjectKnown
<1>5. QED
  BY <1>1, <1>2, <1>3, <1>4 DEF WireInv, AnswerKnown

\* A buffer that has not lost its end begins with what was written.
LEMMA BufferBegins ==
  ASSUME WireInv, damage # "cut"
  PROVE  Begins(buf, ToBytes(sent))
<1> DEFINE e == ToBytes(sent)
           S == Range(e) \cup {[byte |-> 0]}
<1>1. Whole(e)
  BY FieldsSized DEF WireInv, EnvelopeOf
<1>2. damage = "none" => buf = e
  BY DEF WireInv, BufferKnown
<1>3. damage = "tail" => buf = e \o Cells(1)
  BY DEF WireInv, BufferKnown
<1>4. damage \in {"none", "tail"}
  BY DEF WireInv, BufferKnown
<1>5. Cells(1) \in Seq(S)
  BY DEF Cells
<1> HIDE DEF e
<1>6. e \in Seq(S) /\ Len(e) \in Nat
  BY <1>1 DEF Whole
<1>7. Begins(e, e)
  BY <1>1, BeginsItself
<1> HIDE DEF S
<1>8. Begins(e \o Cells(1), e)
  <2> DEFINE t == Cells(1)
             b == e \o t
  <2>1. t \in Seq(S)
    BY <1>5
  <2>2. Len(t) \in Nat
    BY <2>1
  <2> HIDE DEF t
  <2>3. b \in Seq(S) /\ Len(b) = Len(e) + Len(t) /\ \A i \in 1..Len(e) : b[i] = e[i]
    BY <1>6, <2>1, Joined
  <2> HIDE DEF b
  <2>4. b \in Seq(Range(b))
    BY <2>3, SequenceOfRange
  <2>5. Len(e) <= Len(b)
    BY <1>6, <2>2, <2>3
  <2>6. Begins(b, e)
    BY <2>3, <2>4, <2>5 DEF Begins
  <2>7. QED
    BY <2>6 DEF b, t
<1>9. QED
  BY <1>2, <1>3, <1>4, <1>7, <1>8 DEF e

\* One that has is refused by all.
LEMMA CutIsRefused ==
  ASSUME WireInv, damage = "cut", NEW r \in Readers
  PROVE  Wrap(r, buf).err # "none"
<1> DEFINE e == ToBytes(sent)
<1>1. Whole(e)
  BY FieldsSized DEF WireInv, EnvelopeOf
<1>2. PICK n \in 0..(Len(e) - 1) : buf = SubSeq(e, 1, n)
  BY DEF WireInv, BufferKnown
<1>3. Refusal(ShapeOf(r), buf) # "none"
  BY <1>1, <1>2, PartIsRefused
<1>4. WrapLeaf(r, buf).err # "none"
  BY <1>3 DEF WrapLeaf, Failure
<1>5. QED
  BY <1>4, Refused

\* What holds something and is no operation is read as it was sent.
LEMMA ContainerRead ==
  ASSUME WireInv, NEW type \in {"UTXO", "LockedOutput", "SignedTx", "XVMBaseTx"}, IsRead(type)
  PROVE  /\ damage # "cut" /\ sent.type = type /\ got = Success(Fields(sent))
         /\ TypeOf(sent) = reader /\ reader \in Readers
<1>1. reader = [fx |-> "chain", type |-> type] /\ sent.type = type /\ got.err = "none"
  BY DEF IsRead
<1>2. IsObject(sent) /\ sent.type \in Holding
  BY <1>1 DEF WireInv, Holding
<1>3. TypeOf(sent) = reader /\ reader \in Readers
  <2>1. TypeOf(sent) \in Readers /\ TypeOf(sent).type = type /\ TypeOf(sent).fx = sent.fx
    BY <1>1, <1>2, ObjectTypes
  <2>2. TypeOf(sent).fx = "chain"
    BY <2>1, HoldingShapes
  <2>3. TypeOf(sent) = [fx |-> sent.fx, type |-> sent.type]
    BY DEF TypeOf
  <2>4. QED
    BY <1>1, <2>1, <2>2, <2>3
<1>4. got = Wrap(reader, buf)
  BY <1>3, ReaderAnswer
<1>5. damage # "cut"
  BY <1>1, <1>3, <1>4, CutIsRefused
<1>6. Begins(buf, ToBytes(sent)) /\ Same(reader, TypeOf(sent))
  BY <1>3, <1>5, BufferBegins DEF Same
<1>7. WrapLeaf(reader, buf) = Success(Fields(sent))
  BY <1>2, <1>3, <1>6, ObjectRead, HoldingContent
<1>8. Wrap(reader, buf) = WrapLeaf(reader, buf)
  BY <1>1 DEF Wrap
<1>9. QED
  BY <1>1, <1>3, <1>4, <1>5, <1>7, <1>8

\* What a container holds is in its fields as an envelope.
LEMMA HeldFields ==
  ASSUME NEW o, IsObject(o)
  PROVE  /\ o.type \in {"UTXO", "LockedOutput"} =>
              Fields(o).holds = Leaf(o.val.holds) /\ IsPlain(o.val.holds)
         /\ o.type = "SignedTx" =>
              /\ ArePacked(o.val.creds, o.val.torn) /\ Fields(o).count = Len(o.val.creds)
              /\ Fields(o).creds
                   = SubSeq(Packed(o.val.creds), 1, Len(Packed(o.val.creds)) - o.val.torn)
<1>1. ASSUME o.type \in {"UTXO", "LockedOutput"}
      PROVE  Fields(o).holds = Leaf(o.val.holds) /\ IsPlain(o.val.holds)
  <2>1. HasFields(o.val, DOMAIN ShapeOf(o).fields) /\ IsPlain(o.val.holds)
    BY <1>1, HeldParts DEF Holding
  <2>2. ShapeOf(o) = UTXO \/ ShapeOf(o) = LockedOutput
    BY <1>1, ObjectTypes, HoldingShapes
  <2>3. "holds" \in DOMAIN ShapeOf(o).fields
    BY <2>2, ShapeTables DEF Told
  <2>4. "holds" \in DOMAIN o.val
    BY <2>1, <2>3, FieldsOf
  <2>5. Fields(o) = [o.val EXCEPT !.holds = Leaf(@)]
    BY <1>1 DEF Fields
  <2>6. QED
    BY <2>1, <2>4, <2>5
<1>2. ASSUME o.type = "SignedTx"
      PROVE  /\ ArePacked(o.val.creds, o.val.torn) /\ Fields(o).count = Len(o.val.creds)
             /\ Fields(o).creds
                  = SubSeq(Packed(o.val.creds), 1, Len(Packed(o.val.creds)) - o.val.torn)
  <2>1. ArePacked(o.val.creds, o.val.torn)
    BY <1>2, HeldParts DEF Holding
  <2>2. QED
    BY <1>2, <2>1 DEF Fields
<1>3. QED
  BY <1>1, <1>2

\* The lists of a transaction, in its fields and as they were sent.
LEMMA TransactionFields ==
  ASSUME NEW o, IsObject(o), o.type = "XVMBaseTx"
  PROVE  /\ Fields(o).outs
              = [i \in DOMAIN o.val.outs |-> Transferable(TransferableOut, o.val.outs[i])]
         /\ Fields(o).ins
              = [i \in DOMAIN o.val.ins |-> Transferable(TransferableIn, o.val.ins[i])]
         /\ AreTransferables(o.val.outs, TransferableOut)
         /\ AreTransferables(o.val.ins, TransferableIn)
<1>1. /\ HasFields(o.val, DOMAIN ShapeOf(o).fields)
      /\ AreTransferables(o.val.outs, TransferableOut)
      /\ AreTransferables(o.val.ins, TransferableIn)
  BY HeldParts DEF Holding
<1>2. ShapeOf(o) = XVMBaseTx
  BY ObjectTypes, HoldingShapes
<1>3. {"outs", "ins"} \subseteq DOMAIN o.val
  BY <1>1, <1>2, FieldsOf, ShapeTables DEF Told
<1>4. Fields(o) = [o.val EXCEPT !.outs = [i \in DOMAIN @ |-> Transferable(TransferableOut, @[i])],
                                !.ins = [i \in DOMAIN @ |-> Transferable(TransferableIn, @[i])]]
  BY DEF Fields
<1>5. QED
  BY <1>1, <1>3, <1>4

\* An object of a list is read as it was put there, with its envelope.
LEMMA TransferableRead ==
  ASSUME NEW shape \in {TransferableOut, TransferableIn}, NEW xs, AreTransferables(xs, shape),
         NEW k \in DOMAIN xs
  PROVE  /\ Legible(shape, Transferable(shape, xs[k])) /\ IsPlain(xs[k].holds)
         /\ Transferable(shape, xs[k]).val.holds = Leaf(xs[k].holds)
<1> DEFINE x == xs[k]
<1>1. HasFields(x, DOMAIN shape.fields) /\ IsPlain(x.holds)
  BY DEF AreTransferables
<1>2. "holds" \in DOMAIN x
  <2>1. "holds" \in DOMAIN shape.fields
    BY ShapeTables DEF Told
  <2>2. QED
    BY <1>1, <2>1, FieldsOf
<1> HIDE DEF x
<1>3. Transferable(shape, x).shape = shape
  BY DEF Transferable
<1>4. Legible(shape, Transferable(shape, x))
  BY <1>3, FieldsApart, OwnShapeLegible
<1>5. Transferable(shape, x).val.holds = Leaf(x.holds)
  BY <1>2 DEF Transferable
<1>6. QED
  BY <1>1, <1>4, <1>5 DEF x

-----------------------------------------------------------------------------
(* The steps.                                                              *)

\* A value that nobody has read yet.
LEMMA WireInit ==
  Init => WireInv
<1> SUFFICES ASSUME Init PROVE WireInv
  OBVIOUS
<1>1. IsObject(sent)
  BY WireAssumption DEF Init
<1>2. BufferKnown
  BY DEF Init, BufferKnown
<1>3. AnswerKnown /\ reader.type = "none"
  BY DEF Init, AnswerKnown, Nobody
<1>4. WalkExact
  BY <1>3 DEF WalkExact
<1>5. QED
  BY <1>1, <1>2, <1>3, <1>4 DEF WireInv

\* A buffer that nobody has read yet.
LEMMA Unread ==
  ASSUME reader' = Nobody
  PROVE  AnswerKnown' /\ WalkExact'
<1>1. AnswerKnown'
  BY DEF AnswerKnown
<1>2. reader'.type = "none"
  BY DEF Nobody
<1>3. WalkExact'
  BY <1>2 DEF WalkExact
<1>4. QED
  BY <1>1, <1>3

\* The end is lost.
LEMMA CutKeeps ==
  ASSUME WireInv, NEW n \in 0..Len(buf), Cut(n)
  PROVE  WireInv'
<1>1. buf = ToBytes(sent)
  BY DEF WireInv, BufferKnown, Cut
<1>2. Len(ToBytes(sent)) \in Nat
  BY FieldsSized DEF WireInv, EnvelopeOf, Whole
<1>3. n \in 0..(Len(ToBytes(sent)) - 1)
  BY <1>1, <1>2 DEF Cut
<1>4. sent' = sent /\ damage' = "cut" /\ buf' = SubSeq(ToBytes(sent), 1, n) /\ reader' = Nobody
  BY <1>1 DEF Cut
<1>5. BufferKnown'
  BY <1>3, <1>4 DEF BufferKnown
<1>6. IsObject(sent)'
  BY <1>4 DEF WireInv
<1>7. QED
  BY <1>4, <1>5, <1>6, Unread DEF WireInv

\* Something comes after the end.
LEMMA TrailKeeps ==
  ASSUME WireInv, Trail
  PROVE  WireInv'
<1>1. buf = ToBytes(sent)
  BY DEF WireInv, BufferKnown, Trail
<1>2. sent' = sent /\ damage' = "tail" /\ buf' = ToBytes(sent) \o Cells(1) /\ reader' = Nobody
  BY <1>1 DEF Trail
<1>3. BufferKnown'
  BY <1>2 DEF BufferKnown
<1>4. IsObject(sent)'
  BY <1>2 DEF WireInv
<1>5. QED
  BY <1>2, <1>3, <1>4, Unread DEF WireInv

\* The buffer stays as it is.
LEMMA SameBuffer ==
  ASSUME WireInv, UNCHANGED <<sent, buf, damage>>
  PROVE  IsObject(sent)' /\ BufferKnown'
<1>1. sent' = sent /\ buf' = buf /\ damage' = damage
  OBVIOUS
<1>2. IsObject(sent)'
  BY <1>1 DEF WireInv
<1>3. BufferKnown'
  BY <1>1 DEF WireInv, BufferKnown
<1>4. QED
  BY <1>2, <1>3

\* The buffer is read.
LEMMA ReadKeeps ==
  ASSUME WireInv, NEW r \in Readers, Read(r)
  PROVE  WireInv'
<1>1. got' = Wrap(r, buf) /\ reader' = r /\ UNCHANGED <<sent, buf, damage>>
  BY DEF Read
<1>2. reader' \in Readers /\ got' = Wrap(reader', buf')
  BY <1>1
<1>21. (reader \in Readers)'
  BY <1>2 DEF Readers
<1>3. AnswerKnown'
  <2>1. (got = Wrap(reader, buf))'
    BY <1>2, Zenon
  <2>2. QED
    BY <1>21, <2>1 DEF AnswerKnown
<1>4. reader'.type \notin {"AllCredentials", "CredentialAt"}
  BY <1>1, ReaderParts
<1>5. WalkExact'
  BY <1>4 DEF WalkExact
<1>6. QED
  BY <1>1, <1>3, <1>5, SameBuffer DEF WireInv

\* All the credentials of a transaction are wrapped.
LEMMA AllCredentialsKeeps ==
  ASSUME WireInv, AllCredentials
  PROVE  WireInv'
<1> DEFINE cs == sent.val.creds
           torn == sent.val.torn
           n == Len(cs)
           walk == WalkCredentials(SubSeq(Packed(cs), 1, Len(Packed(cs)) - torn), n)
<1>1. IsRead("SignedTx") /\ reader' = [fx |-> "chain", type |-> "AllCredentials"]
      /\ UNCHANGED <<sent, buf, damage>>
  BY DEF AllCredentials
<1>2. damage # "cut" /\ sent.type = "SignedTx" /\ got = Success(Fields(sent))
  BY <1>1, ContainerRead
<1>3. got.val = Fields(sent)
  BY <1>2 DEF Success
<1>4. /\ ArePacked(cs, torn) /\ got.val.count = n
      /\ got.val.creds = SubSeq(Packed(cs), 1, Len(Packed(cs)) - torn)
  BY <1>2, <1>3, HeldFields DEF WireInv
<1>5. got' = Answer(walk)
  BY <1>4, Zenon DEF AllCredentials, Answer
<1>6. sent' = sent
  BY <1>1
<1> HIDE DEF walk
<1>7. IF \A i \in DOMAIN cs : Intended(i)
      THEN got' = Success([i \in DOMAIN cs |-> AsSent(cs[i])])
      ELSE got'.err # "none"
  <2>1. \A i : Intended(i) = PackedWhole(cs, torn, i)
    BY DEF Intended, PackedWhole
  <2>2. IF \A i \in DOMAIN cs : PackedWhole(cs, torn, i)
        THEN Answer(walk) = Success([i \in DOMAIN cs |-> AsSent(cs[i])])
        ELSE Answer(walk).err # "none"
    BY <1>4, AllWrapped DEF walk
  <2>3. QED
    BY <1>5, <2>1, <2>2
<1>8. WalkExact'
  <2>1. reader'.type = "AllCredentials"
    BY <1>1
  <2>2. QED
    BY <1>6, <1>7, <2>1 DEF WalkExact, Intended
<1>9. AnswerKnown'
  BY <1>1, <1>2 DEF AnswerKnown
<1>10. QED
  BY <1>1, <1>8, <1>9, SameBuffer DEF WireInv

\* One of them is wrapped.
LEMMA CredentialAtKeeps ==
  ASSUME WireInv, NEW i \in Nat, CredentialAt(i)
  PROVE  WireInv'
<1> DEFINE cs == sent.val.creds
           torn == sent.val.torn
           n == Len(cs)
           walk == WalkCredentials(SubSeq(Packed(cs), 1, Len(Packed(cs)) - torn), i + 1)
<1>1. IsRead("SignedTx") /\ reader' = [fx |-> "chain", type |-> "CredentialAt", index |-> i]
      /\ UNCHANGED <<sent, buf, damage>>
  BY DEF CredentialAt
<1>2. damage # "cut" /\ sent.type = "SignedTx" /\ got = Success(Fields(sent))
  BY <1>1, ContainerRead
<1>3. got.val = Fields(sent)
  BY <1>2 DEF Success
<1>4. /\ ArePacked(cs, torn) /\ got.val.count = n
      /\ got.val.creds = SubSeq(Packed(cs), 1, Len(Packed(cs)) - torn)
  BY <1>2, <1>3, HeldFields DEF WireInv
<1>5. got' = AnswerAt(walk, i, n)
  BY <1>4, Zenon DEF CredentialAt, AnswerAt
<1>6. sent' = sent
  BY <1>1
<1> HIDE DEF walk
<1>7. IF i < n /\ Intended(i + 1)
      THEN got' = Success(AsSent(cs[i + 1]))
      ELSE got'.err # "none"
  <2>1. Intended(i + 1) = PackedWhole(cs, torn, i + 1)
    BY DEF Intended, PackedWhole
  <2>2. IF i < n /\ PackedWhole(cs, torn, i + 1)
        THEN AnswerAt(walk, i, n) = Success(AsSent(cs[i + 1]))
        ELSE AnswerAt(walk, i, n).err # "none"
    BY <1>4, OneWrapped DEF walk
  <2>3. QED
    BY <1>5, <2>1, <2>2
<1>8. WalkExact'
  <2>1. reader'.type = "CredentialAt" /\ reader'.index = i
    BY <1>1
  <2>2. QED
    BY <1>6, <1>7, <2>1 DEF WalkExact, Intended
<1>9. AnswerKnown'
  BY <1>1, <1>2 DEF AnswerKnown
<1>10. QED
  BY <1>1, <1>8, <1>9, SameBuffer DEF WireInv

\* An object of a transaction is read.
LEMMA ObjectAtKeeps ==
  ASSUME WireInv, IsRead("XVMBaseTx"), NEW type \in {"OutAt", "InAt"},
         NEW shape \in {TransferableOut, TransferableIn}, NEW xs, AreTransferables(xs, shape),
         NEW objects, objects = [k \in DOMAIN xs |-> Transferable(shape, xs[k])],
         NEW i \in Nat, ObjectAt(type, shape, objects, i)
  PROVE  /\ damage # "cut" /\ sent.type = "XVMBaseTx" /\ UNCHANGED <<sent, buf, damage>>
         /\ reader' = [fx |-> "chain", type |-> type, index |-> i]
         /\ got'.err = "none" =>
              i + 1 \in DOMAIN xs /\ got'.val = Transferable(shape, xs[i + 1]).val
<1>1. damage # "cut" /\ sent.type = "XVMBaseTx"
  BY ContainerRead
<1>2. /\ reader' = [fx |-> "chain", type |-> type, index |-> i] /\ UNCHANGED <<sent, buf, damage>>
      /\ i >= Len(objects) => got' = Failure("ErrShortEnvelope")
      /\ ~(i >= Len(objects)) =>
           got' = Success(IF Legible(shape, objects[i + 1]) THEN objects[i + 1].val ELSE Garbage)
  BY DEF ObjectAt
<1>3. ASSUME got'.err = "none"
      PROVE  i + 1 \in DOMAIN xs /\ got'.val = Transferable(shape, xs[i + 1]).val
  <2>1. ~(i >= Len(objects))
    BY <1>2, <1>3 DEF Failure
  <2>2. i + 1 \in DOMAIN xs
    <3>1. Len(xs) \in Nat /\ DOMAIN xs = 1..Len(xs)
      BY DEF AreTransferables
    <3>2. Len(objects) = Len(xs)
      BY <3>1
    <3>3. QED
      BY <2>1, <3>1, <3>2
  <2>3. objects[i + 1] = Transferable(shape, xs[i + 1])
    BY <2>2
  <2>4. Legible(shape, objects[i + 1])
    BY <2>2, <2>3, TransferableRead
  <2>5. got' = Success(objects[i + 1].val)
    BY <1>2, <2>1, <2>4
  <2>6. QED
    BY <2>2, <2>3, <2>5 DEF Success
<1>4. QED
  BY <1>1, <1>2, <1>3

\* An output is read.
LEMMA OutAtKeeps ==
  ASSUME WireInv, NEW i \in Nat, OutAt(i)
  PROVE  WireInv'
<1> DEFINE xs == sent.val.outs
<1>1. IsRead("XVMBaseTx") /\ ObjectAt("OutAt", TransferableOut, got.val.outs, i)
  BY DEF OutAt
<1>2. sent.type = "XVMBaseTx" /\ got.val = Fields(sent)
  BY <1>1, ContainerRead DEF Success
<1>3. /\ AreTransferables(xs, TransferableOut)
      /\ got.val.outs = [k \in DOMAIN xs |-> Transferable(TransferableOut, xs[k])]
  BY <1>2, TransactionFields DEF WireInv
<1>4. /\ damage # "cut" /\ sent.type = "XVMBaseTx" /\ UNCHANGED <<sent, buf, damage>>
      /\ reader' = [fx |-> "chain", type |-> "OutAt", index |-> i]
      /\ got'.err = "none" =>
           i + 1 \in DOMAIN xs /\ got'.val = Transferable(TransferableOut, xs[i + 1]).val
  BY <1>1, <1>3, ObjectAtKeeps
<1>5. ObjectKnown("OutAt", TransferableOut, sent.val.outs)'
  BY <1>4 DEF ObjectKnown
<1>6. AnswerKnown'
  BY <1>5 DEF AnswerKnown
<1>7. WalkExact'
  BY <1>4 DEF WalkExact
<1>8. QED
  BY <1>4, <1>6, <1>7, SameBuffer DEF WireInv

\* An input is read.
LEMMA InAtKeeps ==
  ASSUME WireInv, NEW i \in Nat, InAt(i)
  PROVE  WireInv'
<1> DEFINE xs == sent.val.ins
<1>1. IsRead("XVMBaseTx") /\ ObjectAt("InAt", TransferableIn, got.val.ins, i)
  BY DEF InAt
<1>2. sent.type = "XVMBaseTx" /\ got.val = Fields(sent)
  BY <1>1, ContainerRead DEF Success
<1>3. /\ AreTransferables(xs, TransferableIn)
      /\ got.val.ins = [k \in DOMAIN xs |-> Transferable(TransferableIn, xs[k])]
  BY <1>2, TransactionFields DEF WireInv
<1>4. /\ damage # "cut" /\ sent.type = "XVMBaseTx" /\ UNCHANGED <<sent, buf, damage>>
      /\ reader' = [fx |-> "chain", type |-> "InAt", index |-> i]
      /\ got'.err = "none" =>
           i + 1 \in DOMAIN xs /\ got'.val = Transferable(TransferableIn, xs[i + 1]).val
  BY <1>1, <1>3, ObjectAtKeeps
<1>5. ObjectKnown("InAt", TransferableIn, sent.val.ins)'
  BY <1>4 DEF ObjectKnown
<1>6. AnswerKnown'
  BY <1>5 DEF AnswerKnown
<1>7. WalkExact'
  BY <1>4 DEF WalkExact
<1>8. QED
  BY <1>4, <1>6, <1>7, SameBuffer DEF WireInv

\* The object of a transaction that was read.
LEMMA ObjectAnswer ==
  ASSUME WireInv
  PROVE  /\ reader.type = "OutAt" => ObjectKnown("OutAt", TransferableOut, sent.val.outs)
         /\ reader.type = "InAt" => ObjectKnown("InAt", TransferableIn, sent.val.ins)
<1>1. reader.type \in {"OutAt", "InAt"} => reader # Nobody /\ reader \notin Readers
  BY ReaderParts DEF Nobody
<1>2. ObjectKnown("OutAt", TransferableOut, sent.val.outs) => reader.type # "InAt"
  BY DEF ObjectKnown
<1>3. ObjectKnown("InAt", TransferableIn, sent.val.ins) => reader.type # "OutAt"
  BY DEF ObjectKnown
<1>4. QED
  BY <1>1, <1>2, <1>3 DEF WireInv, AnswerKnown

\* What was held is read in its turn.
LEMMA UnpackKeeps ==
  ASSUME WireInv, Unpack
  PROVE  WireInv'
<1>1. /\ IsRead("UTXO") \/ IsRead("LockedOutput") \/ reader.type \in {"OutAt", "InAt"}
      /\ got.err = "none" /\ sent' = Held /\ buf' = got.val.holds /\ damage' = "none"
      /\ reader' = Nobody
  BY DEF Unpack
<1>2. IsPlain(Held) /\ got.val.holds = Leaf(Held)
  <2>1. ASSUME NEW type \in {"UTXO", "LockedOutput"}, IsRead(type)
        PROVE  IsPlain(Held) /\ got.val.holds = Leaf(Held)
    <3>1. sent.type = type /\ got = Success(Fields(sent)) /\ reader.type = type
      BY <2>1, ContainerRead DEF IsRead
    <3>2. Held = sent.val.holds
      BY <3>1 DEF Held
    <3>3. got.val = Fields(sent)
      BY <3>1 DEF Success
    <3>4. QED
      BY <3>1, <3>2, <3>3, HeldFields DEF WireInv
  <2>2. CASE reader.type = "OutAt"
    <3> DEFINE xs == sent.val.outs
               k == reader.index + 1
    <3>1. /\ sent.type = "XVMBaseTx" /\ k \in DOMAIN xs
          /\ got.val = Transferable(TransferableOut, xs[k]).val
      BY <1>1, <2>2, ObjectAnswer DEF ObjectKnown
    <3>2. AreTransferables(xs, TransferableOut)
      BY <3>1, TransactionFields DEF WireInv
    <3>3. Held = xs[k].holds
      BY <2>2 DEF Held
    <3> HIDE DEF xs, k
    <3>4. QED
      BY <3>1, <3>2, <3>3, TransferableRead
  <2>3. CASE reader.type = "InAt"
    <3> DEFINE xs == sent.val.ins
               k == reader.index + 1
    <3>1. /\ sent.type = "XVMBaseTx" /\ k \in DOMAIN xs
          /\ got.val = Transferable(TransferableIn, xs[k]).val
      BY <1>1, <2>3, ObjectAnswer DEF ObjectKnown
    <3>2. AreTransferables(xs, TransferableIn)
      BY <3>1, TransactionFields DEF WireInv
    <3>3. Held = xs[k].holds
      BY <2>3 DEF Held
    <3> HIDE DEF xs, k
    <3>4. QED
      BY <3>1, <3>2, <3>3, TransferableRead
  <2>4. QED
    BY <1>1, <2>1, <2>2, <2>3
<1>3. IsObject(Held) /\ ToBytes(Held) = Leaf(Held)
  BY <1>2, PlainParts DEF IsObject
<1>4. IsObject(sent)'
  BY <1>1, <1>3
<1>5. BufferKnown'
  BY <1>1, <1>2, <1>3 DEF BufferKnown
<1>6. QED
  BY <1>1, <1>4, <1>5, Unread DEF WireInv

\* Every step keeps the invariant.
LEMMA WireStep ==
  WireInv /\ [Next]_vars => WireInv'
<1> SUFFICES ASSUME WireInv, [Next]_vars PROVE WireInv'
  OBVIOUS
<1>1. CASE \E n \in 0..Len(buf) : Cut(n)
  BY <1>1, CutKeeps
<1>2. CASE Trail
  BY <1>2, TrailKeeps
<1>3. CASE \E r \in Readers : Read(r)
  BY <1>3, ReadKeeps
<1>4. CASE AllCredentials
  BY <1>4, AllCredentialsKeeps
<1>5. CASE \E i \in 0..MaxIndex : CredentialAt(i) \/ OutAt(i) \/ InAt(i)
  <2>1. PICK i \in 0..MaxIndex : CredentialAt(i) \/ OutAt(i) \/ InAt(i)
    BY <1>5
  <2>2. i \in Nat
    BY WireAssumption
  <2>3. QED
    BY <2>1, <2>2, CredentialAtKeeps, OutAtKeeps, InAtKeeps
<1>6. CASE Unpack
  BY <1>6, UnpackKeeps
<1>7. CASE UNCHANGED vars
  <2>1. UNCHANGED <<sent, buf, damage>> /\ reader' = reader /\ got' = got
    BY <1>7 DEF vars
  <2>2. AnswerKnown' /\ WalkExact'
    BY <2>1 DEF WireInv, AnswerKnown, ObjectKnown, WalkExact, Intended
  <2>3. QED
    BY <2>1, <2>2, SameBuffer DEF WireInv
<1>8. QED
  BY <1>1, <1>2, <1>3, <1>4, <1>5, <1>6, <1>7 DEF Next

\* The invariant of the wire: the buffer is what was sent, or a part of it, or more,
\* and the answer is what the reader makes of it.
THEOREM WireHolds == Spec => []WireInv
<1>1. Init => WireInv
  BY WireInit
<1>2. WireInv /\ [Next]_vars => WireInv'
  BY WireStep
<1>3. QED
  BY <1>1, <1>2, PTL DEF Spec

-----------------------------------------------------------------------------
(* What follows of it.                                                     *)

\* An answer without an error is that of the same reader, or is empty.
LEMMA AnswerIs ==
  ASSUME WireInv, reader \in Readers, got.err = "none"
  PROVE  /\ damage # "cut" /\ Begins(buf, ToBytes(sent)) /\ got = Wrap(reader, buf)
         /\ WrapLeaf(reader, buf).err = "none"
         /\ \/ Same(reader, TypeOf(sent))
               /\ WrapLeaf(reader, buf) = Content(reader, sent, Fields(sent))
            \/ Confused(reader, TypeOf(sent)) /\ got = Success(Garbage)
<1>1. got = Wrap(reader, buf)
  BY ReaderAnswer
<1>2. damage # "cut"
  BY <1>1, CutIsRefused
<1>3. Begins(buf, ToBytes(sent))
  BY <1>2, BufferBegins
<1>4. WrapLeaf(reader, buf).err = "none"
  BY <1>1, Refused
<1>5. IsObject(sent)
  BY DEF WireInv
<1>6. CASE Same(reader, TypeOf(sent))
  BY <1>1, <1>2, <1>3, <1>4, <1>5, <1>6, ObjectRead
<1>7. CASE ~Same(reader, TypeOf(sent))
  <2>1. Confused(reader, TypeOf(sent)) /\ WrapLeaf(reader, buf) = Success(Garbage)
    BY <1>3, <1>4, <1>5, <1>7, ObjectRead
  <2>2. WrapLeaf(reader, buf).val = Garbage
    BY <2>1 DEF Success
  <2>3. Wrap(reader, buf) = WrapLeaf(reader, buf)
    BY <2>2 DEF Wrap
  <2>4. QED
    BY <1>1, <1>2, <1>3, <1>4, <2>1, <2>3
<1>8. QED
  BY <1>6, <1>7

\* A buffer whose end is lost is refused by every reader: it has no prefix, or zap.Parse
\* misses what the size in the header promises (wire/discriminator.go 106-111).
THEOREM WireCutRefused == Spec => []CutRefused
<1>1. WireInv => CutRefused
  <2> SUFFICES ASSUME WireInv, damage = "cut", reader # Nobody
               PROVE  got.err # "none"
    BY DEF CutRefused
  <2>1. reader \in Readers /\ got = Wrap(reader, buf)
    BY DEF WireInv, AnswerKnown, ObjectKnown
  <2>2. QED
    BY <2>1, CutIsRefused
<1>2. QED
  BY <1>1, WireHolds, PTL

\* The two bytes tell the one type that a value can have (wire/discriminator.go 18-75).
THEOREM WireDiscriminatorFinds == Spec => []DiscriminatorFinds
<1>1. WireInv => DiscriminatorFinds
  <2> SUFFICES ASSUME WireInv, damage = "none", NEW r \in Readers,
                      ShapeOf(r).code = buf[2].byte, TypeKindOf(r) = buf[1].byte
               PROVE  r.type = sent.type
    BY DEF DiscriminatorFinds
  <2>1. IsObject(sent) /\ buf = ToBytes(sent)
    BY DEF WireInv, BufferKnown
  <2>2. buf[1].byte = TypeKindOf(sent) /\ buf[2].byte = ShapeOf(sent).code
    BY <2>1, FieldsSized DEF EnvelopeOf
  <2>3. sent.type = Named(ShapeOf(sent).code, TypeKindOf(sent))
    BY <2>1, ObjectTypes, ReaderNames
  <2>4. QED
    BY <2>2, <2>3, ReaderNames
<1>2. QED
  BY <1>1, WireHolds, PTL

\* What is accepted was sent as the same type by the same package, and is what was
\* sent; but any package reads the classical owners, and the Wrap of LockedOutput
\* the post-quantum owners, in which it finds nothing (wire/discriminator.go 79-83,
\* wire/locked_output.go 51-65 and the checks of kinds in the other Wraps).
THEOREM WireFxReadsApart == Spec => []FxReadsApart
<1>1. WireInv => FxReadsApart
  <2> SUFFICES ASSUME WireInv, reader \in Readers, got.err = "none"
               PROVE  \/ /\ reader.type = sent.type
                         /\ reader.fx = sent.fx \/ ShapeOf(reader) = OutputOwners
                         /\ WellFormed(sent) => got.val = Expected(sent)
                      \/ /\ reader.type = "LockedOutput" /\ ShapeOf(sent) = PQOutputOwners
                         /\ got.val = Garbage
    BY DEF FxReadsApart
  <2>1. /\ Begins(buf, ToBytes(sent)) /\ got = Wrap(reader, buf)
        /\ \/ Same(reader, TypeOf(sent))
           \/ Confused(reader, TypeOf(sent)) /\ got = Success(Garbage)
    BY AnswerIs
  <2>2. IsObject(sent)
    BY DEF WireInv
  <2>3. /\ TypeOf(sent) \in Readers /\ TypeOf(sent).type = sent.type
        /\ TypeOf(sent).fx = sent.fx
    BY <2>2, ObjectTypes
  <2>4. CASE Same(reader, TypeOf(sent))
    <3>1. reader.type = sent.type /\ (reader.fx = sent.fx \/ ShapeOf(reader) = OutputOwners)
      BY <2>3, <2>4 DEF Same
    <3>2. ASSUME WellFormed(sent) PROVE got.val = Expected(sent)
      <4>1. got = Success(Expected(sent))
        BY <2>1, <2>2, <2>4, <3>2, OwnWrap
      <4>2. QED
        BY <4>1 DEF Success
    <3>3. QED
      BY <3>1, <3>2
  <2>5. CASE Confused(reader, TypeOf(sent)) /\ got = Success(Garbage)
    <3>1. reader.type = "LockedOutput" /\ got.val = Garbage
      BY <2>5 DEF Confused, Success
    <3>2. ShapeOf(TypeOf(sent)) = PQOutputOwners
      BY <2>3, <2>5, ReaderShapes DEF Confused, Classical, PostQuantum
    <3>3. ShapeOf(sent) = PQOutputOwners
      BY <2>3, <3>2 DEF ShapeOf
    <3>4. QED
      BY <3>1, <3>3
  <2>6. QED
    BY <2>1, <2>4, <2>5
<1>2. QED
  BY <1>1, WireHolds, PTL

\* What is sent is what is read, by its own reader and through whatever holds it
\* (the New*, Wrap* and accessors of package wire and of the extensions).
THEOREM WireRoundTrip == Spec => []RoundTrip
<1>1. WireInv => RoundTrip
  <2> SUFFICES ASSUME WireInv PROVE RoundTrip
    OBVIOUS
  <2>1. IsObject(sent)
    BY DEF WireInv
  <2>2. ASSUME reader = [fx |-> sent.fx, type |-> sent.type], damage = "none", WellFormed(sent)
        PROVE  got = Success(Expected(sent))
    <3>1. reader = TypeOf(sent) /\ reader \in Readers /\ Same(reader, TypeOf(sent))
      BY <2>1, <2>2, ObjectTypes DEF TypeOf, Same
    <3>2. Begins(buf, ToBytes(sent)) /\ got = Wrap(reader, buf)
      BY <2>2, <3>1, BufferBegins, ReaderAnswer
    <3>3. QED
      BY <2>1, <2>2, <3>1, <3>2, OwnWrap
  <2>3. ASSUME reader.type = "OutAt", got.err = "none"
        PROVE  got.val = Transferable(TransferableOut, sent.val.outs[reader.index + 1]).val
    BY <2>3, ObjectAnswer DEF ObjectKnown
  <2>4. ASSUME reader.type = "InAt", got.err = "none"
        PROVE  got.val = Transferable(TransferableIn, sent.val.ins[reader.index + 1]).val
    BY <2>4, ObjectAnswer DEF ObjectKnown
  <2>5. QED
    BY <2>2, <2>3, <2>4 DEF RoundTrip
<1>2. QED
  BY <1>1, WireHolds, PTL

\* The walks over the credentials of a transaction give each at its index, or an
\* error (wire/signed_tx.go 67-143).
THEOREM WireWalkExact == Spec => []WalkExact
<1>1. WireInv => WalkExact
  BY DEF WireInv
<1>2. QED
  BY <1>1, WireHolds, PTL

\* The pieces of a run that leaves no rest use it up; of one that does there are none.
LEMMA PiecesAccount ==
  ASSUME NEW run, Total(run) \in Nat, NEW length \in Nat \ {0}
  PROVE  IF Total(run) % length = 0
         THEN Len(Signatures(run, length)) * length = Total(run)
         ELSE Signatures(run, length) = <<>>
<1> DEFINE total == Total(run)
<1>1. ASSUME total % length = 0
      PROVE  Len(Signatures(run, length)) * length = total
  <2>1. total \div length \in Nat
    OBVIOUS
  <2>2. Signatures(run, length) = Pieces(run, length)
    BY <1>1 DEF Signatures
  <2>3. Len(Pieces(run, length)) = total \div length
    BY <2>1 DEF Pieces
  <2> HIDE DEF total
  <2>4. (total \div length) * length = total
    BY <1>1 DEF total
  <2>5. QED
    BY <2>2, <2>3, <2>4 DEF total
<1>2. ASSUME total % length # 0
      PROVE  Signatures(run, length) = <<>>
  BY <1>2 DEF Signatures
<1>3. QED
  BY <1>1, <1>2

\* The signatures that a package reads account for all the bytes of the run that was
\* sent, whatever lengths its parts had, or there are none (wire/credential.go 75-103).
THEOREM WireRunAccounted == Spec => []RunAccounted
<1>1. WireInv => RunAccounted
  <2> DEFINE v == sent.val
             length == SignatureLen(reader.fx, v.level)
  <2> SUFFICES ASSUME WireInv, reader \in Readers, reader.type = "Credential",
                      got.err = "none"
               PROVE  IF Total(v.sigs) % length = 0
                      THEN Len(got.val.sigs) * length = Total(v.sigs)
                      ELSE got.val.sigs = <<>>
    BY DEF RunAccounted
  <2>1. /\ got = Wrap(reader, buf) /\ Same(reader, TypeOf(sent))
        /\ WrapLeaf(reader, buf) = Content(reader, sent, Fields(sent))
    BY AnswerIs DEF Confused
  <2>2. Wrap(reader, buf) = WrapLeaf(reader, buf)
    BY DEF Wrap
  <2>3. IsObject(sent) /\ sent.type = "Credential"
    BY <2>1, ObjectTypes DEF WireInv, Same
  <2>4. IsPlain(sent) /\ Fields(sent) = v
    BY <2>3, ObjectTypes, PlainParts DEF Holding
  <2>5. /\ v = [f \in {"level", "sigs", "pubKeys"} |-> v[f]]
        /\ v.level \in Nat /\ v.sigs \in Seq(Part)
    BY <2>3, <2>4, CredentialParts
  <2>6. got = ReadCredential(reader.fx, v)
    BY <2>1, <2>2, <2>4 DEF Content
  <2>7. length # 0
    BY <2>6 DEF ReadCredential, Failure
  <2>8. length \in Nat
    BY <2>5, ReaderKinds, LengthTables, LengthIsNumber DEF SignatureLen
  <2> HIDE DEF length
  <2>9. got = Success([v EXCEPT !.sigs = Signatures(@, length), !.pubKeys = PubKeys(reader.fx, @)])
    BY <2>6, <2>7 DEF ReadCredential, Failure, length
  <2>10. got.val.sigs = Signatures(v.sigs, length)
    BY <2>5, <2>9 DEF Success
  <2>11. Total(v.sigs) \in Nat
    BY <2>5, TotalIsSum
  <2> HIDE DEF v
  <2>12. QED
    BY <2>7, <2>8, <2>10, <2>11, PiecesAccount
<1>2. QED
  BY <1>1, WireHolds, PTL

\* The two checks of an output, of its owners' number, threshold and amount, agree.
LEMMA GatesAgree ==
  ASSUME NEW v, v.addrs \in Seq(Nat), v.threshold \in Nat
  PROVE  /\ VerifyOutput(v) /\ v.threshold # 0 /\ ZeroAddress \notin Range(v.addrs) =>
              SyntacticVerify(v)
         /\ SyntacticVerify(v) =>
              \/ VerifyOutput(v)
              \/ /\ "level" \notin DOMAIN v
                 /\ \/ "amount" \in DOMAIN v /\ v.amount = 0
                    \/ ~IsSortedAndUnique(v.addrs)
<1>1. Len(v.addrs) \in Nat /\ DOMAIN v.addrs = 1..Len(v.addrs)
  OBVIOUS
<1>2. ASSUME VerifyOutput(v), v.threshold # 0, ZeroAddress \notin Range(v.addrs)
      PROVE  SyntacticVerify(v)
  <2>1. v.addrs # <<>>
    <3>1. Len(v.addrs) > 0
      BY <1>1, <1>2 DEF VerifyOutput
    <3>2. QED
      BY <3>1
  <2>2. \A i \in DOMAIN v.addrs : v.addrs[i] # ZeroAddress
    BY <1>2 DEF Range
  <2>3. QED
    BY <1>2, <2>1, <2>2 DEF VerifyOutput, SyntacticVerify
<1>3. ASSUME SyntacticVerify(v),
             \/ "level" \in DOMAIN v
             \/ ~("amount" \in DOMAIN v /\ v.amount = 0) /\ IsSortedAndUnique(v.addrs)
      PROVE  VerifyOutput(v)
  BY <1>3 DEF VerifyOutput, SyntacticVerify
<1>4. QED
  BY <1>2, <1>3

\* The addresses of an output that is read are those it was sent with.
LEMMA OwnersAnswer ==
  ASSUME WireInv, reader \in Readers, reader.fx \notin {"chain", "nft"}, got.err = "none",
         "addrs" \in DOMAIN got.val
  PROVE  got.val.addrs \in Seq(Nat) /\ got.val.threshold \in Nat
<1>1. got.val # Garbage
  <2>1. "addrs" \notin DOMAIN Garbage
    BY DEF Garbage
  <2>2. QED
    BY <2>1
<1>2. /\ got = Wrap(reader, buf) /\ Same(reader, TypeOf(sent))
      /\ WrapLeaf(reader, buf) = Content(reader, sent, Fields(sent))
      /\ WrapLeaf(reader, buf).err = "none"
  BY <1>1, AnswerIs DEF Success
<1>3. IsObject(sent) /\ reader.type = sent.type
  BY <1>2, ObjectTypes DEF WireInv, Same
<1>4. CASE sent.type \in Holding
  <2>1. reader.type = "MintOperation" /\ reader.fx # "nft" /\ reader.fx = sent.fx
    BY <1>2, <1>3, <1>4, HoldingContent, HoldingShapes DEF Holding
  <2>2. WrapLeaf(reader, buf).val = Fields(sent)
    BY <1>2, <1>3, <1>4, HoldingContent DEF Success
  <2>3. DOMAIN Fields(sent) = {"sigIndices", "mintOutput", "transferOutput"}
    <3>1. ShapeOf(sent) = MintOperation
      BY <1>3, <2>1, ObjectTypes, HoldingShapes
    <3>2. QED
      BY <1>3, <3>1, FieldsSized, ShapeTables DEF Told
  <2>4. DOMAIN got.val = DOMAIN Fields(sent)
    <3> DEFINE w == WrapLeaf(reader, buf)
               two == All(<<WrapLeaf(Minted(reader.fx)[1], w.val.mintOutput),
                            WrapLeaf(Minted(reader.fx)[2], w.val.transferOutput)>>)
    <3>1. \/ got = w
          \/ got = two /\ two.err # "none"
          \/ got = Success([w.val EXCEPT !.mintOutput = two.val[1],
                                         !.transferOutput = two.val[2]])
      <4> HIDE DEF two
      <4>1. two = All(<<WrapLeaf(Minted(reader.fx)[1], w.val.mintOutput),
                        WrapLeaf(Minted(reader.fx)[2], w.val.transferOutput)>>)
        BY DEF two
      <4>2. QED
        BY <1>2, <2>1, <4>1 DEF Wrap
    <3> HIDE DEF two, w
    <3>2. w.val = Fields(sent)
      BY <2>2 DEF w
    <3>3. CASE got = w
      BY <3>2, <3>3
    <3>4. CASE got = Success([w.val EXCEPT !.mintOutput = two.val[1],
                                           !.transferOutput = two.val[2]])
      <4>1. got.val = [w.val EXCEPT !.mintOutput = two.val[1], !.transferOutput = two.val[2]]
        BY <3>4 DEF Success
      <4>2. DOMAIN got.val = DOMAIN w.val
        BY <4>1
      <4>3. QED
        BY <3>2, <4>2
    <3>5. QED
      BY <3>1, <3>3, <3>4
  <2>5. QED
    BY <2>3, <2>4
<1>5. CASE IsPlain(sent)
  <2>1. Fields(sent) = sent.val /\ sent.type \notin Holding
    BY <1>5, PlainParts
  <2>2. Wrap(reader, buf) = WrapLeaf(reader, buf)
    BY <1>3, <2>1 DEF Wrap, Holding
  <2>3. sent.type # "Credential"
    <3>1. ASSUME sent.type = "Credential" PROVE FALSE
      <4> DEFINE length == SignatureLen(reader.fx, sent.val.level)
      <4>1. got = ReadCredential(reader.fx, sent.val)
        BY <1>2, <1>3, <2>1, <2>2, <3>1 DEF Content
      <4>2. got = Success([sent.val EXCEPT !.sigs = Signatures(@, length),
                                           !.pubKeys = PubKeys(reader.fx, @)])
        BY <4>1 DEF ReadCredential, Failure
      <4>3. DOMAIN got.val = DOMAIN sent.val
        BY <4>2 DEF Success
      <4>4. DOMAIN sent.val = {"level", "sigs", "pubKeys"}
        BY <1>5, <3>1, CredentialParts
      <4>5. QED
        BY <4>3, <4>4
    <3>2. QED
      BY <3>1
  <2>4. got = Success(sent.val)
    <3>1. got = Content(reader, sent, sent.val)
      BY <1>2, <2>1, <2>2
    <3>2. got \in {Success(sent.val), Success(Garbage)}
      BY <1>2, <1>5, <2>3, <3>1, PlainContentIs
    <3>3. got # Success(Garbage)
      BY <1>1 DEF Success
    <3>4. QED
      BY <3>2, <3>3
  <2>5. got.val = sent.val
    BY <2>4 DEF Success
  <2>6. QED
    BY <1>5, <2>5, PlainParts
<1>6. QED
  BY <1>3, <1>4, <1>5, ObjectTypes

\* What Verify accepts passes the gate of the wire unless anybody may spend it or an
\* owner is zero, and what passes the gate is accepted by Verify, but for classical
\* outputs without an amount or an order of the addresses (wire/pq_output_owners.go
\* 95-127, wire/transfer_output.go 68-87, slhdsafx/output_owners.go 38-70).
THEOREM WireGateAgrees == Spec => []GateAgrees
<1>1. WireInv => GateAgrees
  <2> SUFFICES ASSUME WireInv, reader \in Readers,
                      reader.fx \notin {"chain", "nft", "property"}, got.err = "none",
                      "addrs" \in DOMAIN got.val
               PROVE  /\ VerifyOutput(got.val) /\ got.val.threshold # 0
                           /\ ZeroAddress \notin Range(got.val.addrs) => SyntacticVerify(got.val)
                      /\ SyntacticVerify(got.val) =>
                           \/ VerifyOutput(got.val)
                           \/ /\ "level" \notin DOMAIN got.val
                              /\ \/ "amount" \in DOMAIN got.val /\ got.val.amount = 0
                                 \/ ~IsSortedAndUnique(got.val.addrs)
    BY DEF GateAgrees
  <2>1. got.val.addrs \in Seq(Nat) /\ got.val.threshold \in Nat
    BY OwnersAnswer
  <2>2. QED
    BY <2>1, GatesAgree
<1>2. QED
  BY <1>1, WireHolds, PTL
=============================================================================
