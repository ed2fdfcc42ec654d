------------------------------ MODULE Keychains ------------------------------
(***************************************************************************)
(* The wallet's side of six feature extensions: the Keychain of each picks *)
(* signers for an output by its own clock, they sign a transaction, and an *)
(* fx that knows neither and has another clock verifies the result.        *)
(*                                                                         *)
(* What is signed is the bytes of a transaction, their hash, or a hash of  *)
(* them under a tag: it depends on the package, and on which of the two    *)
(* methods of a signer is used.  Keys and addresses are numbers, an EVM    *)
(* address is another name of a key.  The packages' copies of one function *)
(* are one definition here where they do the same.                         *)
(***************************************************************************)
EXTENDS Integers, Sequences, FiniteSets

CONSTANTS
  Key, BadKey, LevelOf,   (* as in CachedFx                               *)
  NewLevel,               (* the level of the keys that New generates     *)
  MaxTime,                (* bound: how far the clocks go                 *)
  Outputs                 (* [kind, owners, amt] of the outputs to spend  *)

VARIABLES
  pkg,                  (* the package                                    *)
  clock, bootstrapped,  (* those of its fx                                *)
  keys,                 (* the keys of the keychain                       *)
  out,                  (* the output to spend                            *)
  spend,                (* how the last Spend ended                       *)
  spendTime,            (* the time it was told                           *)
  call                  (* the call made of it, for fx                    *)

vars == <<pkg, clock, bootstrapped, keys, out, spend, spendTime, call>>

Secp == INSTANCE Secp256k1Fx
          WITH UnsignedTx <- {}, Calls <- {}, answer <- "none", at <- 0, full <- FALSE

Cached == INSTANCE CachedFx
            WITH fx <- pkg, Tx <- {}, Spends <- {}, Attests <- {}, CacheSize <- 1,
                 Verifier <- {}, verifyCache <- 0, job <- 0

Packages == {"secp256k1"} \cup Cached!Classical \cup Cached!PostQuantum

\* An output to transfer, or one that lets its owners mint: then the amount is
\* what they would mint.
Output == [kind : {"transfer", "operation"}, owners : Cached!Owners, amt : Nat]

ASSUME KeychainAssumption ==
  /\ Key \subseteq Nat /\ BadKey \subseteq Key
  /\ LevelOf \in [Key -> Nat]
  /\ MaxTime \in Nat
  /\ Outputs \subseteq Output
  /\ \A o \in Outputs : o.kind = "operation" => o.amt # 0

-----------------------------------------------------------------------------
(* What is signed and what is verified for a transaction.                  *)

Bytes(tx) == [what |-> "bytes", of |-> tx]
Hash(tx) == [what |-> "hash", of |-> tx]
Tagged(tx) == [what |-> "tagged", of |-> tx]

Secp256k1Sign(tx) == Hash(tx)
SchnorrSign(tx) == Tagged(tx)
Ed25519Sign(tx) == Bytes(tx)
Secp256r1Sign(tx) == Hash(tx)
MldsaSign(tx) == Bytes(tx)
SlhdsaSign(tx) == Bytes(tx)

\* Sign, which is given the bytes of the transaction.
Sign(tx) ==
  CASE pkg = "secp256k1" -> Secp256k1Sign(tx)
    [] pkg = "schnorr"   -> SchnorrSign(tx)
    [] pkg = "ed25519"   -> Ed25519Sign(tx)
    [] pkg = "secp256r1" -> Secp256r1Sign(tx)
    [] pkg = "mldsa"     -> MldsaSign(tx)
    [] pkg = "slhdsa"    -> SlhdsaSign(tx)

\* SignHash, which is given their hash, signs what it is given.
SignHash(tx) == Hash(tx)

\* Mutant: the tag is left out.
SchnorrVerifiedUntagged(tx) == Hash(tx)

SchnorrVerified(tx) == Tagged(tx)
Ed25519Verified(tx) == Bytes(tx)
Secp256k1Verified(tx) == Hash(tx)
Secp256r1Verified(tx) == Hash(tx)
MldsaVerified(tx) == Bytes(tx)
SlhdsaVerified(tx) == Bytes(tx)

\* What fx takes the signatures of a transaction to be for.
Verified(tx) ==
  CASE pkg = "secp256k1" -> Secp256k1Verified(tx)
    [] pkg = "schnorr"   -> SchnorrVerified(tx)
    [] pkg = "ed25519"   -> Ed25519Verified(tx)
    [] pkg = "secp256r1" -> Secp256r1Verified(tx)
    [] pkg = "mldsa"     -> MldsaVerified(tx)
    [] pkg = "slhdsa"    -> SlhdsaVerified(tx)

\* Whether fx accepts a call.
Accepts(c) ==
  IF pkg = "secp256k1" THEN Secp!Accepts(c)
  ELSE Cached!Valid(c) /\ (bootstrapped => Cached!Signed(c))

\* Whether the output is one that fx lets into the world.
ValidOutput ==
  CASE out.kind = "transfer" /\ pkg = "secp256k1"  -> Secp!ValidTransferOutput(out)
    [] out.kind = "transfer" /\ pkg # "secp256k1"  -> Cached!ValidTransferOutput(out.amt, out.owners)
    [] out.kind = "operation" /\ pkg = "secp256k1" -> Secp!ValidOwners(out.owners)
    [] out.kind = "operation" /\ pkg # "secp256k1" -> Cached!ValidOwners(out.owners)

-----------------------------------------------------------------------------
\* The places of the first addresses the keychain has a key for, as many as the
\* threshold asks for: fewer when it has no more, none before the locktime.
Match(owners, time) ==
  LET match[i \in 0..Len(owners.addrs)] ==
        IF i = 0 THEN <<>>
        ELSE IF Len(match[i - 1]) < owners.threshold /\ owners.addrs[i] \in keys
             THEN Append(match[i - 1], i)
             ELSE match[i - 1]
  IN  IF time < owners.locktime THEN <<>> ELSE match[Len(owners.addrs)]

\* Mutant: the locktime itself is too early.
AbleAfter(owners, time) ==
  time > owners.locktime /\ Len(Match(owners, time)) = owners.threshold

Able(owners, time) ==
  time >= owners.locktime /\ Len(Match(owners, time)) = owners.threshold

\* Mutant: the keys sign in the opposite order.
SignaturesReversed(signers, message) ==
  [i \in DOMAIN signers |-> [key |-> signers[Len(signers) - i + 1], tx |-> message]]

\* The keys sign in the order in which Spend gives them.
Signatures(signers, message) ==
  [i \in DOMAIN signers |-> [key |-> signers[i], tx |-> message]]

\* The call with an input for some of the owners, signed by them, and, when it
\* mints, with an operation that leaves the right to mint where it is.  A
\* credential has the keys of its signers where outputs have their hashes, and
\* the level of the output where they have the keys.
Made(places, message) ==
  LET signers == [i \in DOMAIN places |-> out.owners.addrs[places[i]]]
  IN  [kind |-> out.kind, tx |-> Verified("tx"),
       in |-> [i \in DOMAIN places |-> places[i] - 1],
       sigs |-> Signatures(signers, message),
       owners |-> out.owners, amt |-> out.amt, inAmt |-> out.amt,
       mint |-> out.owners, to |-> out.owners,
       transfer |-> [amt |-> out.amt, owners |-> out.owners],
       level |-> out.owners.level,
       pubKeys |-> IF pkg \in Cached!Classical THEN signers ELSE <<>>]

-----------------------------------------------------------------------------
NoCall == <<>>

Init ==
  /\ pkg \in Packages
  /\ clock = 0 /\ bootstrapped = FALSE
  /\ keys = {}
  /\ out \in Outputs
  /\ spend = "none" /\ spendTime = 0 /\ call = NoCall

Tick ==
  /\ clock < MaxTime
  /\ clock' = clock + 1
  /\ UNCHANGED <<pkg, bootstrapped, keys, out, spend, spendTime, call>>

Bootstrapped ==
  /\ bootstrapped' = TRUE
  /\ UNCHANGED <<pkg, clock, keys, out, spend, spendTime, call>>

\* A key is added, unless it is there.
Add(key) ==
  /\ keys' = keys \cup {key}
  /\ UNCHANGED <<pkg, clock, bootstrapped, out, spend, spendTime, call>>

\* A key is generated, in the post-quantum packages always of one level.
New ==
  \E key \in Key \ BadKey :
    /\ pkg \in Cached!PostQuantum => LevelOf[key] = NewLevel
    /\ Add(key)

\* The keychain makes an input for the output, which is then signed in one of
\* the two ways, or does not.
Spend(time, message) ==
  /\ IF Able(out.owners, time)
     THEN call' = Made(Match(out.owners, time), message) /\ spend' = "made"
     ELSE spend' = "errCantSpend" /\ call' = NoCall
  /\ spendTime' = time
  /\ UNCHANGED <<pkg, clock, bootstrapped, keys, out>>

Next ==
  \/ Tick
  \/ Bootstrapped
  \/ \E key \in Key \ BadKey : Add(key)
  \/ New
  \/ \E time \in 0..MaxTime : Spend(time, Sign("tx")) \/ Spend(time, SignHash("tx"))

Spec == Init /\ [][Next]_vars

-----------------------------------------------------------------------------
SignedBy(message) == \A i \in DOMAIN call.sigs : call.sigs[i].tx = message

\* fx accepts what a keychain has made of a valid output and Sign has signed, of
\* any package, from the time that Spend was told on, with signatures and
\* without.  Only an output that needs no signature is beyond the packages whose
\* credentials must have one: it verifies, the keychain makes an input for it,
\* and nothing can ever spend it (secp256k1fx/keychain.go 182-220,
\* slhdsafx/output_owners.go, slhdsafx/credential.go 130-150).
SpendAccepted ==
  spend = "made" /\ clock >= spendTime /\ SignedBy(Sign("tx")) =>
    (Accepts(call) <=> ValidOutput /\ (pkg # "secp256k1" => out.owners.threshold > 0))

\* The places of the addresses the keychain has a key for, and the ways to choose
\* some of them, one after the other.
Held(owners) == {i \in DOMAIN owners.addrs : owners.addrs[i] \in keys}
Selections(owners) == UNION {[1..n -> Held(owners)] : n \in 0..Len(owners.addrs)}

\* A keychain gives up only when fx would: told the time fx has, or a later one,
\* it finds that fx accepts no choice of signers among its keys, in any order, so
\* that trying the first keys alone misses nothing (secp256k1fx/keychain.go
\* 206-222).
SpendComplete ==
  \A time \in clock..MaxTime :
    ~Able(out.owners, time) =>
      \A places \in Selections(out.owners) : ~Accepts(Made(places, Sign("tx")))

\* A signature on a bare hash, which a key may be asked for by SignHash without a
\* transaction in sight, spends where fx verifies the hash and nowhere else: the
\* tag and the bytes keep the other packages apart from it, and what a wallet
\* signs with SignHash for them is lost (schnorrfx/keychain.go 31-46,
\* ed25519fx/keychain.go 30-36, mldsafx/keychain.go 31-38).
SignHashApart ==
  /\ spend = "made" /\ call.sigs # <<>> /\ SignedBy(SignHash("tx"))
  /\ clock >= spendTime /\ ValidOutput /\ bootstrapped
  => (Accepts(call) <=> pkg \in {"secp256k1", "secp256r1"})
=============================================================================
