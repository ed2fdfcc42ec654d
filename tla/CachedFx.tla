------------------------------ MODULE CachedFx ------------------------------
(***************************************************************************)
(* The feature extensions that keep the verdicts of past verifications:    *)
(* schnorrfx, ed25519fx, secp256r1fx, whose credentials carry the public   *)
(* keys, mldsafx and slhdsafx, whose outputs do, and bls12381fx, which     *)
(* verifies attestations.  Each has an LRU of its own, from a hash of what *)
(* was verified to the verdict, and looks there before it verifies.        *)
(*                                                                         *)
(* A VM may verify transactions in several goroutines: the cache, which    *)
(* locks itself, is all they share, and between a Get that misses and the  *)
(* Put of the verdict the others go on.                                    *)
(*                                                                         *)
(* Hashes are taken to be injective: the address of a public key is the    *)
(* key, the key of the cache what it is the hash of; a bitmap is the set   *)
(* of its bits.  The packages' copies of one function are one definition   *)
(* here where they do the same.                                            *)
(***************************************************************************)
EXTENDS Integers, Sequences, FiniteSets

CONSTANTS
  Key,        (* public keys, in the order of their bytes                 *)
  BadKey,     (* those that have the right length and are no point        *)
  LevelOf,    (* Key -> the parameter set its length belongs to           *)
  Tx,
  Spends,     (* the calls with a transaction that is signed              *)
  Attests,    (* the calls with an attestation                            *)
  CacheSize,  (* verifyCacheSize                                          *)
  MaxTime,    (* bound: how far the clock goes                            *)
  Verifier    (* the goroutines that verify                               *)

Classical == {"schnorr", "ed25519", "secp256r1"}
PostQuantum == {"mldsa", "slhdsa"}
Attesting == {"bls12381"}

Owners == [level : Nat, locktime : Nat, threshold : Nat, addrs : Seq(Key)]
Signature == [key : Key, tx : Tx]

\* A transfer, a mint operation or a permission: what it is about ("owners",
\* the amounts of output and input, the owners minted to, the transfer output)
\* and the credential, with the level it claims and the keys it carries.
Spend == [kind : {"transfer", "operation", "permission"}, tx : Tx, in : Seq(Nat),
          owners : Owners, amt : Nat, inAmt : Nat, mint : Owners, to : Owners,
          level : Nat, sigs : Seq(Signature), pubKeys : Seq(Nat)]

\* An attestation: a hash, the committee, its threshold, the bits set in the
\* bitmap, and the aggregate of the signatures of some keys on some hash.
Attest == [kind : {"attestation"}, hash : Nat, threshold : Nat, pubKeys : Seq(Key),
           signers : SUBSET Nat, agg : [keys : SUBSET Key, hash : Nat]]

ASSUME CachedAssumption ==
  /\ Key \subseteq Nat /\ BadKey \subseteq Key
  /\ LevelOf \in [Key -> Nat]
  /\ Spends \subseteq Spend /\ Attests \subseteq Attest
  /\ CacheSize \in Nat \ {0}
  /\ MaxTime \in Nat

VARIABLES
  fx,            (* the package                                           *)
  clock, bootstrapped,
  verifyCache,   (* what is cached -> its verdict                         *)
  job            (* verifier -> the call it verifies and how far it is    *)

vars == <<fx, clock, bootstrapped, verifyCache, job>>

\* "next" is the signature to be verified, "missed" that the cache did not
\* have it, "full" that the signatures are looked at.
Job(call, next, missed, full, verdict) ==
  [call |-> call, next |-> next, missed |-> missed, full |-> full, verdict |-> verdict]

Verdicts == {"running", "ok", "invalid", "wrongSig"}

Idle == [verdict |-> "idle"]

Levels == {LevelOf[k] : k \in Key}

CallsOf(package) == IF package \in Attesting THEN Attests ELSE Spends

TypeOK ==
  /\ fx \in Classical \cup PostQuantum \cup Attesting
  /\ clock \in 0..MaxTime
  /\ bootstrapped \in BOOLEAN
  /\ \A k \in DOMAIN verifyCache : verifyCache[k] \in BOOLEAN
  /\ IsFiniteSet(DOMAIN verifyCache) /\ Cardinality(DOMAIN verifyCache) <= CacheSize
  /\ \A v \in Verifier : job[v] = Idle \/
       /\ job[v] = Job(job[v].call, job[v].next, job[v].missed, job[v].full, job[v].verdict)
       /\ job[v].call \in CallsOf(fx)
       /\ job[v].next \in Nat \ {0}
       /\ job[v].missed \in BOOLEAN /\ job[v].full \in BOOLEAN
       /\ job[v].verdict \in Verdicts

-----------------------------------------------------------------------------
(* The Verify methods, which look at one part of the call each.            *)

IsSortedAndUnique(s) == \A i \in 2..Len(s) : s[i - 1] < s[i]

ClassicalOwners(o) ==
  /\ o.threshold <= Len(o.addrs)
  /\ o.threshold = 0 => o.addrs = <<>>
  /\ IsSortedAndUnique(o.addrs)

\* The outputs hold the public keys, all of the length of their level.
PostQuantumOwners(o) ==
  /\ o.threshold <= Len(o.addrs)
  /\ o.threshold = 0 => o.addrs = <<>>
  /\ o.level \in Levels
  /\ \A i \in DOMAIN o.addrs : LevelOf[o.addrs[i]] = o.level
  /\ IsSortedAndUnique(o.addrs)

ValidOwners(o) == IF fx \in Classical THEN ClassicalOwners(o) ELSE PostQuantumOwners(o)

ValidTransferOutput(amt, o) == amt # 0 /\ ValidOwners(o)

ValidInput(in) == IsSortedAndUnique(in)

\* A credential has a signature, and signatures of the length of its level.
ValidCredential(c) ==
  /\ c.sigs # <<>>
  /\ fx \in PostQuantum => \A i \in DOMAIN c.sigs : LevelOf[c.sigs[i].key] = c.level

Equals(o, p) ==
  /\ o.locktime = p.locktime /\ o.threshold = p.threshold /\ o.addrs = p.addrs
  /\ fx \in PostQuantum => o.level = p.level

ValidTransfer(c) ==
  /\ ValidTransferOutput(c.amt, c.owners)
  /\ c.inAmt # 0 /\ ValidInput(c.in)
  /\ ValidCredential(c)
  /\ c.amt = c.inAmt

ValidOperation(c) ==
  /\ ValidInput(c.in) /\ ValidOwners(c.mint) /\ ValidTransferOutput(c.amt, c.to)
  /\ ValidCredential(c)
  /\ ValidOwners(c.owners)
  /\ Equals(c.owners, c.mint)

ValidPermission(c) == ValidInput(c.in) /\ ValidCredential(c) /\ ValidOwners(c.owners)

ValidAttestation(c) ==
  /\ c.pubKeys # <<>>
  /\ c.threshold # 0 /\ c.threshold <= Len(c.pubKeys)
  /\ IsSortedAndUnique(c.pubKeys)
  /\ c.signers # {}

\* What VerifyCredentials asks before it looks at signatures.
Spendable(c) ==
  /\ ~(c.owners.locktime > clock)
  /\ c.owners.threshold = Len(c.in)
  /\ Len(c.in) = Len(c.sigs)

Valid(c) ==
  CASE c.kind = "transfer"    -> ValidTransfer(c) /\ Spendable(c)
    [] c.kind = "operation"   -> ValidOperation(c) /\ Spendable(c)
    [] c.kind = "permission"  -> ValidPermission(c) /\ Spendable(c)
    [] c.kind = "attestation" -> ValidAttestation(c)

-----------------------------------------------------------------------------
(* The signatures of a call, and what is asked of each before the cache.   *)

Signatures(c) == IF c.kind = "attestation" THEN 1 ELSE Len(c.in)

\* The credential must carry the key the output has the address of.
ClassicalFault(c, i) ==
  \/ c.in[i] >= Len(c.owners.addrs)
  \/ i > Len(c.pubKeys)
  \/ c.pubKeys[i] \notin Key
  \/ c.pubKeys[i] # c.owners.addrs[c.in[i] + 1]

PostQuantumFault(c, i) == c.in[i] >= Len(c.owners.addrs)

\* The keys of the committee whose bits are set.
SetBits(c) == {i \in 0..(Len(c.pubKeys) - 1) : i \in c.signers}

\* Mutant: bits beyond the committee are let through.
AttestationFaultInRange(c) == Cardinality(SetBits(c)) < c.threshold

AttestationFault(c) ==
  \/ Cardinality(SetBits(c)) < c.threshold
  \/ c.signers # SetBits(c)

Fault(c, i) ==
  CASE c.kind = "attestation" -> AttestationFault(c)
    [] fx \in Classical       -> ClassicalFault(c, i)
    [] OTHER                  -> PostQuantumFault(c, i)

\* Mutant: the transaction is left out of the cache key.
VerifyCacheKeyUnbound(c, i) ==
  IF c.kind = "attestation"
  THEN [signers |-> c.signers, hash |-> c.hash, agg |-> c.agg]
  ELSE [key |-> c.owners.addrs[c.in[i] + 1], tx |-> c.sigs[i].tx, sig |-> c.sigs[i]]

VerifyCacheKey(c, i) ==
  IF c.kind = "attestation"
  THEN [signers |-> c.signers, hash |-> c.hash, agg |-> c.agg]
  ELSE [key |-> c.owners.addrs[c.in[i] + 1], tx |-> c.tx, sig |-> c.sigs[i]]

Verifies(key, tx, sig) == key \notin BadKey /\ sig = [key |-> key, tx |-> tx]

AggregateVerifies(c) ==
  LET pks == {c.pubKeys[i + 1] : i \in SetBits(c)}
  IN  /\ pks \cap BadKey = {}
      /\ c.agg = [keys |-> pks, hash |-> c.hash]

\* What the verification of a signature yields, without the cache.
Verdict(c, i) ==
  IF c.kind = "attestation" THEN AggregateVerifies(c)
  ELSE Verifies(c.owners.addrs[c.in[i] + 1], c.tx, c.sigs[i])

\* A key that cannot be parsed ends the call without an entry in the cache.
Unparsed(c, i) == fx \in PostQuantum /\ c.owners.addrs[c.in[i] + 1] \in BadKey

-----------------------------------------------------------------------------
Init ==
  /\ fx \in Classical \cup PostQuantum \cup Attesting
  /\ clock = 0
  /\ bootstrapped = FALSE
  /\ verifyCache = [k \in {} |-> TRUE]
  /\ job = [v \in Verifier |-> Idle]

Tick ==
  /\ clock < MaxTime
  /\ clock' = clock + 1
  /\ UNCHANGED <<fx, bootstrapped, verifyCache, job>>

Bootstrapped ==
  /\ ~bootstrapped
  /\ bootstrapped' = TRUE
  /\ UNCHANGED <<fx, clock, verifyCache, job>>

Running(v) == job[v].verdict = "running"

\* A verifier is given a call, and verifies its parts.
Begin(v, c) ==
  /\ ~Running(v)
  /\ job' = [job EXCEPT ![v] =
       Job(c, 1, FALSE, bootstrapped,
           IF ~Valid(c) THEN "invalid" ELSE IF ~bootstrapped THEN "ok" ELSE "running")]
  /\ UNCHANGED <<fx, clock, bootstrapped, verifyCache>>

\* The call of a verifier after its next signature: one that does not verify
\* ends it, and so does the last.
After(j, valid) ==
  IF ~valid THEN [j EXCEPT !.missed = FALSE, !.verdict = "wrongSig"]
  ELSE IF j.next = Signatures(j.call) THEN [j EXCEPT !.missed = FALSE, !.verdict = "ok"]
  ELSE [j EXCEPT !.missed = FALSE, !.next = @ + 1]

\* Mutant: a cached verdict ends the call.
LookupEnds(v) ==
  /\ Running(v) /\ ~job[v].missed
  /\ LET j == job[v]
         key == VerifyCacheKey(j.call, j.next)
     IN  job' = [job EXCEPT ![v] =
           IF Fault(j.call, j.next) THEN After(j, FALSE)
           ELSE IF key \in DOMAIN verifyCache
                THEN [j EXCEPT !.verdict = IF verifyCache[key] THEN "ok" ELSE "wrongSig"]
           ELSE IF Unparsed(j.call, j.next) THEN After(j, FALSE)
           ELSE [j EXCEPT !.missed = TRUE]]
  /\ UNCHANGED <<fx, clock, bootstrapped, verifyCache>>

\* The next signature is looked up.
Lookup(v) ==
  /\ Running(v) /\ ~job[v].missed
  /\ LET j == job[v]
         key == VerifyCacheKey(j.call, j.next)
     IN  job' = [job EXCEPT ![v] =
           IF Fault(j.call, j.next) THEN After(j, FALSE)
           ELSE IF key \in DOMAIN verifyCache THEN After(j, verifyCache[key])
           ELSE IF Unparsed(j.call, j.next) THEN After(j, FALSE)
           ELSE [j EXCEPT !.missed = TRUE]]
  /\ UNCHANGED <<fx, clock, bootstrapped, verifyCache>>

\* Mutant: nothing is evicted.
CachePutKeepsAll(key, valid) ==
  {[k \in DOMAIN verifyCache \cup {key} |-> IF k = key THEN valid ELSE verifyCache[k]]}

\* The caches a Put can leave: a full one has lost another entry.
CachePut(key, valid) ==
  LET cached == DOMAIN verifyCache
      kept == IF key \in cached \/ Cardinality(cached) < CacheSize THEN {cached}
              ELSE {cached \ {k} : k \in cached}
  IN  {[k \in K \cup {key} |-> IF k = key THEN valid ELSE verifyCache[k]] : K \in kept}

\* Mutant: the verdict is taken for granted when it is cached.
StoreUnverified(v) ==
  /\ Running(v) /\ job[v].missed
  /\ LET j == job[v]
     IN  /\ verifyCache' \in CachePut(VerifyCacheKey(j.call, j.next), TRUE)
         /\ job' = [job EXCEPT ![v] = After(j, Verdict(j.call, j.next))]
  /\ UNCHANGED <<fx, clock, bootstrapped>>

\* It was not there, is verified, and its verdict is kept.
Store(v) ==
  /\ Running(v) /\ job[v].missed
  /\ LET j == job[v]
         valid == Verdict(j.call, j.next)
     IN  /\ verifyCache' \in CachePut(VerifyCacheKey(j.call, j.next), valid)
         /\ job' = [job EXCEPT ![v] = After(j, valid)]
  /\ UNCHANGED <<fx, clock, bootstrapped>>

Next ==
  \/ Tick
  \/ Bootstrapped
  \/ \E v \in Verifier : \E c \in CallsOf(fx) : Begin(v, c)
  \/ \E v \in Verifier : Lookup(v)
  \/ \E v \in Verifier : Store(v)

Spec == Init /\ [][Next]_vars

-----------------------------------------------------------------------------
\* A cached verdict is the one that verification would give, whoever cached it
\* and in whatever order the verifiers looked and stored
\* (ed25519fx/fx.go 238-252, verifyCacheKey 258-269).
CacheTruthful ==
  fx \notin Attesting =>
    \A k \in DOMAIN verifyCache : verifyCache[k] = Verifies(k.key, k.tx, k.sig)

Signed(c) == \A i \in 1..Signatures(c) : ~Fault(c, i) /\ Verdict(c, i)

Answered(v) == job[v] # Idle /\ job[v].full /\ job[v].verdict \in {"ok", "wrongSig"}

\* The cache decides nothing: with it a call is answered as it would be by an
\* fx that has just been opened (ed25519fx/fx.go 212-254, mldsafx/fx.go 198-233).
CacheInvisible ==
  fx \notin Attesting =>
    \A v \in Verifier : Answered(v) => (job[v].verdict = "ok" <=> Signed(job[v].call))

\* A call that is accepted with its signatures has been signed, for the very
\* transaction, by as many distinct owners as the threshold says, after the
\* locktime (schnorrfx/fx.go 197-266, mldsafx/fx.go 184-235).
Authorized ==
  fx \notin Attesting => \A v \in Verifier : Answered(v) /\ job[v].verdict = "ok" =>
    LET c == job[v].call
    IN  /\ c.owners.locktime <= clock
        /\ Len(c.sigs) = c.owners.threshold
        /\ \A i \in DOMAIN c.sigs :
             /\ c.sigs[i].tx = c.tx
             /\ \E j \in DOMAIN c.owners.addrs : c.owners.addrs[j] = c.sigs[i].key
        /\ \A i, j \in DOMAIN c.sigs : c.sigs[i].key = c.sigs[j].key => i = j

\* An attestation that is accepted, even on a cached verdict, carries a signature
\* on its very hash that aggregates as many keys as its bitmap claims, no fewer
\* than its threshold (bls12381fx/fx.go 132-183).
Attested ==
  \A v \in Verifier : Answered(v) /\ job[v].verdict = "ok" /\ fx \in Attesting =>
    LET c == job[v].call
    IN  /\ c.agg.hash = c.hash
        /\ Cardinality(c.agg.keys) = Cardinality(c.signers)
        /\ Cardinality(c.agg.keys) >= c.threshold

\* The cache does not decide attestations either: "distinct attestations get
\* distinct keys" (bls12381fx/fx.go 145), so none is answered with the verdict of
\* another.
AttestationsApart ==
  fx \in Attesting =>
    \A v \in Verifier : Answered(v) => (job[v].verdict = "ok" <=> Signed(job[v].call))
=============================================================================
