-------------------------------- MODULE Wire --------------------------------
(***************************************************************************)
(* The envelopes of package wire: two bytes that say what a ZAP message is *)
(* and the message.  A value is sent as an envelope, may hold envelopes    *)
(* itself, alone or packed one after the other, and is read by the Wrap of *)
(* some package, which must give back what was sent or refuse.             *)
(*                                                                         *)
(* A buffer is a sequence of cells: a byte, or a cell of the body of some  *)
(* message, which stands for the message's contents.  The zap library is   *)
(* external: its header is HeaderSize cells long and ends with the size of *)
(* the message, and zap.Parse asks for that many cells and ignores what    *)
(* follows them.                                                           *)
(***************************************************************************)
EXTENDS WireShapes, Integers, Sequences, FiniteSets, SequencesExt

CONSTANTS
  HeaderSize,  (* zap.HeaderSize, 16                                      *)
  Objects,     (* [fx, type, val] of the values that are sent             *)
  MaxIndex     (* bound: the indices that are asked for                   *)

EnvelopePrefix == 2

Readers ==
  UNION {{[fx |-> f, type |-> t] : t \in DOMAIN Packages[f].shapes} : f \in DOMAIN Packages}

VARIABLES
  sent,    (* what the buffer in hand was made from                       *)
  buf,     (* the buffer                                                  *)
  damage,  (* what has happened to it: "none", "cut" or "tail"            *)
  reader,  (* who has read it, and                                        *)
  got      (* the answer                                                  *)

vars == <<sent, buf, damage, reader, got>>

Nobody == [fx |-> "none", type |-> "none"]
Failure(err) == [err |-> err, val |-> [none |-> 0]]
Success(val) == [err |-> "none", val |-> val]

ShapeOf(r) == Packages[r.fx].shapes[r.type]

\* The TypeKind a package writes before this shape.
TypeKindOf(r) == IF ShapeOf(r).kind = AnyKind THEN TypeKind.reserved ELSE Packages[r.fx].tk

-----------------------------------------------------------------------------
(* Writing: the builder of a shape puts each field in its place.           *)

Places(f) == f.at..(f.at + f.width - 1)

\* A field that neither another field of the shape nor the end of the object
\* cuts into holds what was put there.
Intact(shape, f) ==
  /\ shape.fields[f].at + shape.fields[f].width <= shape.size
  /\ \A g \in DOMAIN shape.fields \ {f} :
       Places(shape.fields[f]) \cap Places(shape.fields[g]) = {}

Cells(n) == [i \in 1..n |-> [byte |-> 0]]

\* The contents of a message as one of its cells.
Message(shape, val, stride) ==
  LET body == 1 + Cardinality(DOMAIN val) + IF "sigs" \in DOMAIN val THEN Len(val.sigs) ELSE 0
  IN  Cells(HeaderSize - 1) \o <<[byte |-> HeaderSize + body]>>
      \o [i \in 1..body |-> [shape |-> shape, val |-> val, stride |-> stride]]

writeEnvelopePrefix(tk, code, message) == <<[byte |-> tk], [byte |-> code]>> \o message

\* The length at a level: 0 for one that the package has not.
LengthAt(lens, level) ==
  IF Len(lens) = 1 THEN lens[1] ELSE IF level < Len(lens) THEN lens[level + 1] ELSE 0

SignatureLen(fx, level) == LengthAt(Packages[fx].sigLens, level)

\* Two tables for one thing: Bytes and Verify go by the one, Wrap by the other.
PubKeyLen(fx, level) == LengthAt(Packages[fx].keyLens, level)
strideForLevel(fx, level) == LengthAt(Packages[fx].strides, level)

\* A list of public keys is as wide as the level says, or else one byte.
Stride(o) ==
  LET length == PubKeyLen(o.fx, o.val.level)
  IN  IF {"level", "addrs"} \subseteq DOMAIN o.val /\ length > 0 THEN length ELSE 1

Envelope(o, val) ==
  writeEnvelopePrefix(TypeKindOf(o), ShapeOf(o).code, Message(ShapeOf(o), val, Stride(o)))

\* A value that holds no other.
Leaf(o) == Envelope(o, o.val)

\* The types that a mint operation holds.
Minted(fx) ==
  <<[fx |-> fx, type |-> "MintOutput"],
    [fx |-> fx, type |-> IF fx = "property" THEN "OwnedOutput" ELSE "TransferOutput"]>>

Packed(os) == FlattenSeq([i \in DOMAIN os |-> Leaf(os[i])])

\* An object of an XVMBaseTx, inside its message, with the envelope it holds.
Transferable(shape, x) == [shape |-> shape, val |-> [x EXCEPT !.holds = Leaf(@)]]

\* The fields of the message: what a value holds becomes an envelope of its
\* own, or as many envelopes one after the other and their number.
Fields(o) ==
  CASE o.type = "MintOperation" /\ o.fx # "nft" ->
         [o.val EXCEPT !.mintOutput = Leaf(@), !.transferOutput = Leaf(@)]
    [] o.type = "MintOperation" /\ o.fx = "nft" ->
         [sigIndices |-> o.val.sigIndices, groupID |-> o.val.groupID, payload |-> o.val.payload,
          count |-> Len(o.val.outputs), outputs |-> Packed(o.val.outputs)]
    [] o.type \in {"TransferOperation", "UTXO", "LockedOutput"} ->
         [o.val EXCEPT !.holds = Leaf(@)]
    [] o.type = "SignedTx" ->
         [unsigned |-> o.val.unsigned, count |-> Len(o.val.creds),
          creds |-> LET blob == Packed(o.val.creds) IN SubSeq(blob, 1, Len(blob) - o.val.torn)]
    [] o.type = "XVMBaseTx" ->
         [o.val EXCEPT !.outs = [i \in DOMAIN @ |-> Transferable(TransferableOut, @[i])],
                       !.ins = [i \in DOMAIN @ |-> Transferable(TransferableIn, @[i])]]
    [] OTHER -> o.val

ToBytes(o) == Envelope(o, Fields(o))

-----------------------------------------------------------------------------
(* What is sent: the types of the fields and of the values.                *)

Part == [id : Nat, len : Nat]   \* a signature or a public key

FieldType(f) ==
  CASE f \in {"sigs", "pubKeys"} -> Seq(Part)
    [] f \in {"addrs", "sigIndices", "signers", "payload", "memo", "unsigned"} -> Seq(Nat)
    [] OTHER -> Nat

TypeOf(o) == [fx |-> o.fx, type |-> o.type]

HasFields(val, fields) == val = [f \in fields |-> val[f]]

Holding ==
  {"MintOperation", "TransferOperation", "UTXO", "LockedOutput", "SignedTx", "XVMBaseTx"}

\* A value that holds no other.  A credential of the BLS package is one signature,
\* and only the packages whose keys have one length send any with it.
IsPlain(o) ==
  /\ TypeOf(o) \in Readers /\ o.type \notin Holding
  /\ HasFields(o.val, DOMAIN ShapeOf(o).fields)
  /\ \A f \in DOMAIN o.val : o.val[f] \in FieldType(f)
  /\ o.type = "Credential" =>
       /\ o.fx = "bls12381" => Len(o.val.sigs) = 1
       /\ Len(Packages[o.fx].keyLens) # 1 => o.val.pubKeys = <<>>

\* The objects of an XVMBaseTx, each holding a plain value.
AreTransferables(xs, shape) ==
  /\ xs \in Seq(Range(xs))
  /\ \A i \in DOMAIN xs : HasFields(xs[i], DOMAIN shape.fields) /\ IsPlain(xs[i].holds)

\* Packed values; the end of the last one may be torn off.
ArePacked(os, torn) ==
  /\ os \in Seq(Range(os))
  /\ \A i \in DOMAIN os : IsPlain(os[i])
  /\ torn = 0 \/ (os # <<>> /\ torn \in 1..Len(Leaf(os[Len(os)])))

\* What may be sent: plain values, and those that hold plain ones.
IsObject(o) ==
  \/ IsPlain(o)
  \/ /\ TypeOf(o) \in Readers
     /\ \/ /\ o.type = "MintOperation" /\ o.fx # "nft"
           /\ HasFields(o.val, {"sigIndices", "mintOutput", "transferOutput"})
           /\ IsPlain(o.val.mintOutput) /\ TypeOf(o.val.mintOutput) = Minted(o.fx)[1]
           /\ IsPlain(o.val.transferOutput) /\ TypeOf(o.val.transferOutput) = Minted(o.fx)[2]
        \/ /\ o.type = "MintOperation" /\ o.fx = "nft"
           /\ HasFields(o.val, {"sigIndices", "groupID", "payload", "outputs"})
           /\ ArePacked(o.val.outputs, 0)
           /\ \A i \in DOMAIN o.val.outputs :
                TypeOf(o.val.outputs[i]) = [fx |-> "secp256k1", type |-> "OutputOwners"]
        \/ /\ o.type = "TransferOperation"
           /\ HasFields(o.val, DOMAIN ShapeOf(o).fields)
           /\ IsPlain(o.val.holds)
           /\ TypeOf(o.val.holds) = [fx |-> "nft", type |-> "TransferOutput"]
        \/ /\ o.type \in {"UTXO", "LockedOutput"}
           /\ HasFields(o.val, DOMAIN ShapeOf(o).fields)
           /\ IsPlain(o.val.holds)
        \/ /\ o.type = "SignedTx"
           /\ HasFields(o.val, {"unsigned", "creds", "torn"})
           /\ ArePacked(o.val.creds, o.val.torn)
        \/ /\ o.type = "XVMBaseTx"
           /\ HasFields(o.val, DOMAIN ShapeOf(o).fields)
           /\ AreTransferables(o.val.outs, TransferableOut)
           /\ AreTransferables(o.val.ins, TransferableIn)

ASSUME WireAssumption ==
  /\ HeaderSize \in Nat \ {0}
  /\ MaxIndex \in Nat
  /\ \A o \in Objects : IsObject(o)

-----------------------------------------------------------------------------
(* Reading: the prefix, the message, and then the fields.                  *)

\* Mutant: the buffer need not be as long as the header says, only longer than it.
ParsesHeader(z) == Len(z) > HeaderSize

\* zap.Parse
Parses(z) == Len(z) >= HeaderSize /\ z[HeaderSize].byte <= Len(z)

BodyAt == EnvelopePrefix + HeaderSize + 1

WrongTypeKind(shape, tk) ==
  \/ shape.kind = OwnedKind /\ tk = TypeKind.reserved
  \/ shape.kind = AttestationKind /\ tk # TypeKind.bls12381

\* Why the Wrap of a shape refuses a buffer: most look at the code first, those
\* of the attestations at the TypeKind.
Refusal(shape, b) ==
  IF Len(b) < EnvelopePrefix              THEN "ErrShortEnvelope"
  ELSE IF shape.kind = AttestationKind /\ WrongTypeKind(shape, b[1].byte)
                                          THEN "ErrWrongTypeKind"
  ELSE IF b[2].byte # shape.code          THEN "ErrWrongShapeKind"
  ELSE IF WrongTypeKind(shape, b[1].byte) THEN "ErrWrongTypeKind"
  ELSE IF ~Parses(Tail(Tail(b)))          THEN "ErrParse"
  ELSE "none"

\* The accessors of a shape give what was written by its own builder, and
\* something else for what another one wrote.
Legible(shape, cell) ==
  \A f \in DOMAIN shape.fields :
    /\ f \in DOMAIN cell.shape.fields /\ cell.shape.fields[f] = shape.fields[f]
    /\ Intact(shape, f)

Garbage == [garbage |-> 0]

\* A run of signatures or of keys is cut into as many pieces of one length as it
\* has room for.  They are what it was put together from up to the first part of
\* another length, and some bytes (0) from there on.
Total(run) == FoldSeq(LAMBDA x, n : x.len + n, 0, run)

Pieces(run, length) ==
  [i \in 1..(Total(run) \div length) |->
     IF i <= Len(run) /\ \A j \in 1..i : run[j].len = length
     THEN run[i] ELSE [id |-> 0, len |-> length]]

\* Mutant: the count is rounded down, and a rest is left.
SignaturesRounded(run, length) == Pieces(run, length)

\* SignatureCount and SignatureAt: none when the run leaves a rest.
Signatures(run, length) ==
  IF Total(run) % length # 0 THEN <<>> ELSE Pieces(run, length)

\* The keys are cut off one by one, and a rest is left.
PubKeys(fx, run) ==
  IF Len(Packages[fx].keyLens) = 1 THEN Pieces(run, Packages[fx].keyLens[1]) ELSE <<>>

\* WrapCredential of a package: the level settles the length of a signature.
ReadCredential(fx, val) ==
  LET length == SignatureLen(fx, val.level)
  IN  CASE length = 0 -> Failure("ErrUnknownSecurityLevel")
        [] length # 0 /\ fx = "bls12381" /\ Total(val.sigs) # length -> Failure("ErrWrongAggSigLen")
        [] OTHER -> Success([val EXCEPT !.sigs = Signatures(@, length), !.pubKeys = PubKeys(fx, @)])

\* The Wrap of a post-quantum output reads the level first, then the keys.
ReadLevelled(fx, cell) ==
  LET length == strideForLevel(fx, cell.val.level)
  IN  IF length = 0                THEN Failure("ErrUnknownSecurityLevel")
      ELSE IF length # cell.stride THEN Success(Garbage)
      ELSE Success(cell.val)

\* Mutant: a package takes the envelopes of all.
ForeignNever(r, tk) == FALSE

\* The Wrap of a package takes the envelopes of this package only.
Foreign(r, tk) == ShapeOf(r).kind # AnyKind /\ tk # Packages[r.fx].tk

WrapLeaf(r, b) ==
  LET shape == ShapeOf(r)
      cell == b[BodyAt]
  IN  IF Refusal(shape, b) # "none" THEN Failure(Refusal(shape, b))
      ELSE IF Foreign(r, b[1].byte) THEN Failure("ErrWrongTypeKind")
      ELSE IF ~Legible(shape, cell) THEN Success(Garbage)
      ELSE IF r.type = "Credential" THEN ReadCredential(r.fx, cell.val)
      ELSE IF "level" \in DOMAIN shape.fields THEN ReadLevelled(r.fx, cell)
      ELSE Success(cell.val)

-----------------------------------------------------------------------------
(* Packed envelopes: the walk goes from one to the next by the size in the *)
(* header of each.                                                         *)

ZapSize(blob, cursor) == blob[cursor + EnvelopePrefix + HeaderSize].byte
EndOf(blob, cursor) == cursor + EnvelopePrefix + ZapSize(blob, cursor)

\* The header or the message runs over the end, or is said to be less than least.
IsShort(blob, cursor, least) ==
  \/ cursor + EnvelopePrefix + HeaderSize > Len(blob)
  \/ ZapSize(blob, cursor) < least
  \/ EndOf(blob, cursor) > Len(blob)

\* Mutant: the cursor stays where it is.
NextEnvelopeStuck(blob, at, least) ==
  IF at.err \/ IsShort(blob, at.cursor, least)
  THEN [at EXCEPT !.err = TRUE]
  ELSE [at EXCEPT !.envs = Append(@, SubSeq(blob, at.cursor + 1, EndOf(blob, at.cursor)))]

\* A step of a walk, to the envelope after the last one.
NextEnvelope(blob, at, least) ==
  IF at.err \/ IsShort(blob, at.cursor, least)
  THEN [at EXCEPT !.err = TRUE]
  ELSE [err |-> FALSE, cursor |-> EndOf(blob, at.cursor),
        envs |-> Append(at.envs, SubSeq(blob, at.cursor + 1, EndOf(blob, at.cursor)))]

Walk(blob, count, least) ==
  LET at[k \in 0..count] ==
        IF k = 0 THEN [err |-> FALSE, cursor |-> 0, envs |-> <<>>]
        ELSE NextEnvelope(blob, at[k - 1], least)
  IN  at[count]

\* By wire.NextEnvelope, as the owners of a mint are: a message is no smaller than
\* its header.  CredentialAt and AllCredentials walk by themselves and do not ask.
WalkOwners(blob, count) == Walk(blob, count, HeaderSize)
WalkCredentials(blob, count) == Walk(blob, count, 0)

\* What is returned of some calls: the first failure, or all they return.
All(answers) ==
  IF \E i \in DOMAIN answers : answers[i].err # "none"
  THEN Failure((CHOOSE a \in Range(answers) : a.err # "none").err)
  ELSE Success([i \in DOMAIN answers |-> answers[i].val])

WrapOwners(val) ==
  LET walk == WalkOwners(val.outputs, val.count)
  IN  IF walk.err THEN Failure("ErrShortEnvelope")
      ELSE All([i \in DOMAIN walk.envs |->
                  WrapLeaf([fx |-> "secp256k1", type |-> "OutputOwners"], walk.envs[i])])

\* An operation is read with all that it holds.
Wrap(r, b) ==
  LET w == WrapLeaf(r, b)
      two == All(<<WrapLeaf(Minted(r.fx)[1], w.val.mintOutput),
                   WrapLeaf(Minted(r.fx)[2], w.val.transferOutput)>>)
      owners == WrapOwners(w.val)
      output == WrapLeaf([fx |-> "nft", type |-> "TransferOutput"], w.val.holds)
  IN  IF w.err # "none" \/ w.val = Garbage THEN w
      ELSE CASE r.type = "MintOperation" /\ r.fx # "nft" ->
                  IF two.err # "none" THEN two
                  ELSE Success([w.val EXCEPT !.mintOutput = two.val[1],
                                             !.transferOutput = two.val[2]])
             [] r.type = "MintOperation" /\ r.fx = "nft" ->
                  IF owners.err # "none" THEN owners
                  ELSE Success([w.val EXCEPT !.outputs = owners.val])
             [] r.type = "TransferOperation" ->
                  IF output.err # "none" THEN output
                  ELSE Success([w.val EXCEPT !.holds = output.val])
             [] OTHER -> w

\* wire.WrapCredential, for any package.
WrapCredential(b) ==
  IF Refusal(Credential, b) # "none" THEN Failure(Refusal(Credential, b))
  ELSE Success([tk |-> b[1].byte, val |-> b[BodyAt].val])

-----------------------------------------------------------------------------
(* The two checks of an output that has been read.                         *)

ZeroAddress == 0

IsSortedAndUnique(s) == \A i \in 2..Len(s) : s[i - 1] < s[i]

\* Mutant: all the owners must sign, and one more.
SyntacticVerifyStrict(val) ==
  /\ val.addrs # <<>> /\ val.threshold # 0 /\ val.threshold < Len(val.addrs)
  /\ IF "level" \in DOMAIN val THEN IsSortedAndUnique(val.addrs)
     ELSE \A i \in DOMAIN val.addrs : val.addrs[i] # ZeroAddress
  /\ {"level", "amount"} \subseteq DOMAIN val => val.amount # 0

\* SyntacticVerify of the wire: the classical outputs are asked for addresses
\* that are not zero, those with a level for keys in order and for an amount.
SyntacticVerify(val) ==
  /\ val.addrs # <<>> /\ val.threshold # 0 /\ val.threshold <= Len(val.addrs)
  /\ IF "level" \in DOMAIN val THEN IsSortedAndUnique(val.addrs)
     ELSE \A i \in DOMAIN val.addrs : val.addrs[i] # ZeroAddress
  /\ {"level", "amount"} \subseteq DOMAIN val => val.amount # 0

\* Verify of the packages.
VerifyOutput(val) ==
  /\ "amount" \in DOMAIN val => val.amount # 0
  /\ val.threshold <= Len(val.addrs)
  /\ val.threshold = 0 => val.addrs = <<>>
  /\ IsSortedAndUnique(val.addrs)

-----------------------------------------------------------------------------
Init ==
  /\ sent \in Objects
  /\ buf = ToBytes(sent)
  /\ damage = "none"
  /\ reader = Nobody /\ got = Failure("unread")

\* The end of the buffer is lost, or something comes after it.
Cut(n) ==
  /\ damage = "none" /\ n < Len(buf)
  /\ buf' = SubSeq(buf, 1, n)
  /\ damage' = "cut"
  /\ reader' = Nobody /\ got' = Failure("unread")
  /\ UNCHANGED sent

Trail ==
  /\ damage = "none"
  /\ buf' = buf \o Cells(1)
  /\ damage' = "tail"
  /\ reader' = Nobody /\ got' = Failure("unread")
  /\ UNCHANGED sent

\* Somebody reads the buffer as one of his types.
Read(r) ==
  /\ got' = Wrap(r, buf)
  /\ reader' = r
  /\ UNCHANGED <<sent, buf, damage>>

IsRead(type) ==
  reader = [fx |-> "chain", type |-> type] /\ sent.type = type /\ got.err = "none"

AllCredentials ==
  /\ IsRead("SignedTx")
  /\ LET walk == WalkCredentials(got.val.creds, got.val.count)
     IN  got' = IF walk.err THEN Failure("ErrShortEnvelope")
                ELSE All([i \in DOMAIN walk.envs |-> WrapCredential(walk.envs[i])])
  /\ reader' = [fx |-> "chain", type |-> "AllCredentials"]
  /\ UNCHANGED <<sent, buf, damage>>

\* CredentialAt(i) walks to the i'th and reads that one only.
CredentialAt(i) ==
  /\ IsRead("SignedTx")
  /\ LET walk == WalkCredentials(got.val.creds, i + 1)
     IN  got' = CASE i >= got.val.count -> Failure("ErrWrongShapeKind")
                  [] i < got.val.count /\ walk.err -> Failure("ErrShortEnvelope")
                  [] OTHER -> WrapCredential(walk.envs[i + 1])
  /\ reader' = [fx |-> "chain", type |-> "CredentialAt", index |-> i]
  /\ UNCHANGED <<sent, buf, damage>>

\* OutAt and InAt read an object of the transaction.
ObjectAt(type, shape, objects, i) ==
  /\ got' = IF i >= Len(objects) THEN Failure("ErrShortEnvelope")
            ELSE Success(IF Legible(shape, objects[i + 1]) THEN objects[i + 1].val ELSE Garbage)
  /\ reader' = [fx |-> "chain", type |-> type, index |-> i]
  /\ UNCHANGED <<sent, buf, damage>>

OutAt(i) == IsRead("XVMBaseTx") /\ ObjectAt("OutAt", TransferableOut, got.val.outs, i)
InAt(i) == IsRead("XVMBaseTx") /\ ObjectAt("InAt", TransferableIn, got.val.ins, i)

\* What the reader of a container has got hold of, as it was sent.
Held ==
  CASE reader.type = "OutAt" -> sent.val.outs[reader.index + 1].holds
    [] reader.type = "InAt"  -> sent.val.ins[reader.index + 1].holds
    [] OTHER                 -> sent.val.holds

\* OutputBytes, InputBytes and TransferOutBytes: they are read in their turn.
Unpack ==
  /\ IsRead("UTXO") \/ IsRead("LockedOutput") \/ reader.type \in {"OutAt", "InAt"}
  /\ got.err = "none" /\ got.val # Garbage
  /\ sent' = Held
  /\ buf' = got.val.holds
  /\ damage' = "none"
  /\ reader' = Nobody /\ got' = Failure("unread")

Next ==
  \/ \E n \in 0..Len(buf) : Cut(n)
  \/ Trail
  \/ \E r \in Readers : Read(r)
  \/ AllCredentials
  \/ \E i \in 0..MaxIndex : CredentialAt(i) \/ OutAt(i) \/ InAt(i)
  \/ Unpack

Spec == Init /\ [][Next]_vars

-----------------------------------------------------------------------------
\* The values whose own Verify accepts their level and their signatures, with
\* all they hold.
Sound(o) ==
  /\ o.type = "Credential" =>
       /\ SignatureLen(o.fx, o.val.level) > 0
       /\ \A i \in DOMAIN o.val.sigs : o.val.sigs[i].len = SignatureLen(o.fx, o.val.level)
       /\ \A i \in DOMAIN o.val.pubKeys : o.val.pubKeys[i].len = Packages[o.fx].keyLens[1]
  /\ "level" \in DOMAIN o.val /\ o.type # "Credential" =>
       PubKeyLen(o.fx, o.val.level) > 0

WellFormed(o) ==
  /\ Sound(o)
  /\ o.type = "MintOperation" /\ o.fx # "nft" =>
       Sound(o.val.mintOutput) /\ Sound(o.val.transferOutput)

\* What an operation holds is read with it, what a container holds is not.
Expected(o) ==
  CASE o.type = "MintOperation" /\ o.fx # "nft" ->
         [o.val EXCEPT !.mintOutput = @.val, !.transferOutput = @.val]
    [] o.type = "MintOperation" /\ o.fx = "nft" ->
         [Fields(o) EXCEPT !.outputs = [i \in DOMAIN o.val.outputs |-> o.val.outputs[i].val]]
    [] o.type = "TransferOperation" -> [o.val EXCEPT !.holds = @.val]
    [] OTHER -> Fields(o)

\* What is sent is what is read when nothing has happened to it, by its own reader
\* and through whatever holds it: no field of a shape runs into another, keys are
\* read with the lengths they were written with, from another table, and a list
\* of envelopes comes apart where it was put together.
RoundTrip ==
  /\ reader = [fx |-> sent.fx, type |-> sent.type] /\ damage = "none" /\ WellFormed(sent) =>
       got = Success(Expected(sent))
  /\ reader.type = "OutAt" /\ got.err = "none" =>
       got.val = Transferable(TransferableOut, sent.val.outs[reader.index + 1]).val
  /\ reader.type = "InAt" /\ got.err = "none" =>
       got.val = Transferable(TransferableIn, sent.val.ins[reader.index + 1]).val

\* What is accepted was sent as the same type by the same package, and is what was
\* sent (discriminator.go 79-83, 106-111 and the Foreign check of each package), with
\* two exceptions.  Classical owners have one envelope for the four packages, and
\* any of them reads it.  And WrapLockedOutput, which does not look at the TypeKind,
\* takes the post-quantum owners, which have the code of its shape.
FxReadsApart ==
  reader \in Readers /\ got.err = "none" =>
    \/ /\ reader.type = sent.type
       /\ reader.fx = sent.fx \/ ShapeOf(reader) = OutputOwners
       /\ WellFormed(sent) => got.val = Expected(sent)
    \/ /\ reader.type = "LockedOutput" /\ ShapeOf(sent) = PQOutputOwners
       /\ got.val = Garbage

\* Whoever goes by the two bytes, as OutputDiscriminator and its like are for,
\* finds the one type the value can have.
DiscriminatorFinds ==
  damage = "none" =>
    \A r \in Readers :
      ShapeOf(r).code = buf[2].byte /\ TypeKindOf(r) = buf[1].byte => r.type = sent.type

\* The signatures that a package reads, cut to its own length, account for all the
\* bytes of the run that was sent, whatever its parts were: a run that they would not
\* use up gives no signature, rather than those that fit (credential.go 75-87).
RunAccounted ==
  reader \in Readers /\ reader.type = "Credential" /\ got.err = "none" =>
    LET length == SignatureLen(reader.fx, sent.val.level)
    IN  IF Total(sent.val.sigs) % length = 0
        THEN Len(got.val.sigs) * length = Total(sent.val.sigs)
        ELSE got.val.sigs = <<>>

\* A buffer whose end is lost is refused by every reader.
CutRefused == damage = "cut" /\ reader # Nobody => got.err # "none"

\* The gate of the wire and the Verify of the packages are written twice.  What
\* Verify accepts passes the gate, unless anybody may spend it or an owner is zero;
\* what passes the gate is accepted by Verify, except that for the classical outputs
\* the gate asks neither for an amount nor for an order of the addresses.
GateAgrees ==
  reader \in Readers /\ reader.fx \notin {"chain", "nft", "property"} /\ got.err = "none"
    /\ "addrs" \in DOMAIN got.val =>
    /\ VerifyOutput(got.val) /\ got.val.threshold # 0 /\ ZeroAddress \notin Range(got.val.addrs) =>
         SyntacticVerify(got.val)
    /\ SyntacticVerify(got.val) =>
         \/ VerifyOutput(got.val)
         \/ /\ "level" \notin DOMAIN got.val
            /\ \/ "amount" \in DOMAIN got.val /\ got.val.amount = 0
               \/ ~IsSortedAndUnique(got.val.addrs)

\* A credential that was packed whole.
Intended(i) ==
  /\ sent.val.creds[i].type = "Credential"
  /\ sent.val.torn = 0 \/ i < Len(sent.val.creds)

AsSent(o) == [tk |-> Packages[o.fx].tk, val |-> o.val]

\* The walks give the credentials that were packed, each at its index: all of
\* them, or an error when there is one that is none or is torn; and the walk to
\* one depends on no other (signed_tx.go 75-143).
WalkExact ==
  /\ reader.type = "AllCredentials" =>
       IF \A i \in DOMAIN sent.val.creds : Intended(i)
       THEN got = Success([i \in DOMAIN sent.val.creds |-> AsSent(sent.val.creds[i])])
       ELSE got.err # "none"
  /\ reader.type = "CredentialAt" =>
       IF reader.index < Len(sent.val.creds) /\ Intended(reader.index + 1)
       THEN got = Success(AsSent(sent.val.creds[reader.index + 1]))
       ELSE got.err # "none"
=============================================================================
