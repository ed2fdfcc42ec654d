--------------------------- MODULE CachedFx_proofs ---------------------------
(***************************************************************************)
(* Proofs about CachedFx, for any keys, calls, cache size and number of    *)
(* verifiers.                                                              *)
(***************************************************************************)
EXTENDS CachedFx, Collections_proofs, FiniteSetTheorems

\* Who signed an attestation that may be accepted.
AttestedBy(c) ==
  /\ c.agg.hash = c.hash
  /\ Cardinality(c.agg.keys) = Cardinality(c.signers)
  /\ Cardinality(c.agg.keys) >= c.threshold

(***************************************************************************)
(* The inductive invariant: what is known of an entry of the cache, and    *)
(* of a job.  While a job runs its call is valid, as time only goes on,    *)
(* and all its signatures before the next are right; a miss was preceded   *)
(* by the checks that come before the look-up.                             *)
(***************************************************************************)

EntryOK(k, valid) ==
  /\ valid \in BOOLEAN
  /\ fx \notin Attesting => valid = Verifies(k.key, k.tx, k.sig)
  /\ fx \in Attesting /\ valid =>
       k.agg.hash = k.hash /\ Cardinality(k.agg.keys) = Cardinality(k.signers)

CacheInv ==
  /\ \A k \in DOMAIN verifyCache : EntryOK(k, verifyCache[k])
  /\ IsFiniteSet(DOMAIN verifyCache) /\ Cardinality(DOMAIN verifyCache) <= CacheSize

JobTyped(j) ==
  /\ j = Job(j.call, j.next, j.missed, j.full, j.verdict)
  /\ j.call \in CallsOf(fx)
  /\ j.next \in Nat \ {0}
  /\ j.missed \in BOOLEAN /\ j.full \in BOOLEAN
  /\ j.verdict \in Verdicts

RightBefore(c, n) == \A i \in 1..(n - 1) : ~Fault(c, i) /\ Verdict(c, i)

JobRight(j) ==
  /\ j.verdict = "running" =>
       /\ j.full /\ Valid(j.call) /\ j.next <= Signatures(j.call)
       /\ j.missed => ~Fault(j.call, j.next)
       /\ fx \notin Attesting => RightBefore(j.call, j.next)
  /\ j.verdict = "ok" => Valid(j.call)
  /\ j.verdict = "ok" /\ j.full => IF fx \in Attesting THEN AttestedBy(j.call) ELSE Signed(j.call)
  /\ j.verdict = "wrongSig" /\ j.full /\ fx \notin Attesting => ~Signed(j.call)

JobOK(j) == j = Idle \/ (JobTyped(j) /\ JobRight(j))

CachedInv ==
  /\ fx \in Classical \cup PostQuantum \cup Attesting
  /\ clock \in 0..MaxTime
  /\ bootstrapped \in BOOLEAN
  /\ CacheInv
  /\ job = [v \in Verifier |-> job[v]]
  /\ \A v \in Verifier : JobOK(job[v])

-----------------------------------------------------------------------------
(* Calls.                                                                  *)

\* The parts of a call with a transaction.
LEMMA SpendParts ==
  ASSUME fx \in Classical \cup PostQuantum \cup Attesting, fx \notin Attesting,
         NEW c \in CallsOf(fx)
  PROVE  /\ c.kind \in {"transfer", "operation", "permission"} /\ c.kind # "attestation"
         /\ c.in \in Seq(Nat) /\ Len(c.in) \in Nat /\ DOMAIN c.in = 1..Len(c.in)
         /\ c.sigs \in Seq(Signature)
         /\ c.owners.locktime \in Nat /\ c.owners.threshold \in Nat
         /\ c.owners.addrs \in Seq(Key) /\ c.owners.addrs \in Seq(Nat)
         /\ Signatures(c) = Len(c.in)
<1>1. c \in Spend
  BY CachedAssumption DEF CallsOf
<1>2. c.owners \in Owners /\ c.kind \in {"transfer", "operation", "permission"}
      /\ c.in \in Seq(Nat) /\ c.sigs \in Seq(Signature)
  BY <1>1 DEF Spend
<1>3. c.owners.locktime \in Nat /\ c.owners.threshold \in Nat /\ c.owners.addrs \in Seq(Key)
  BY <1>2 DEF Owners
<1>4. c.owners.addrs \in Seq(Nat)
  <2>1. \A i \in 1..Len(c.owners.addrs) : c.owners.addrs[i] \in Nat
    <3>1. \A i \in 1..Len(c.owners.addrs) : c.owners.addrs[i] \in Key
      BY <1>3
    <3>2. QED
      BY <3>1, CachedAssumption
  <2>2. c.owners.addrs = [i \in 1..Len(c.owners.addrs) |-> c.owners.addrs[i]]
    BY <1>3
  <2>3. QED
    BY <1>3, <2>1, <2>2
<1>5. Len(c.in) \in Nat /\ DOMAIN c.in = 1..Len(c.in)
  BY <1>2
<1>6. c.kind # "attestation"
  BY <1>2
<1>7. QED
  BY <1>2, <1>3, <1>4, <1>5, <1>6 DEF Signatures

\* What Valid says of a call with a transaction.
LEMMA ValidSpend ==
  ASSUME fx \in Classical \cup PostQuantum \cup Attesting, fx \notin Attesting,
         NEW c \in CallsOf(fx), Valid(c)
  PROVE  /\ Spendable(c) /\ c.sigs # <<>> /\ IsSortedAndUnique(c.in)
         /\ IsSortedAndUnique(c.owners.addrs)
<1>1. c.kind \in {"transfer", "operation", "permission"}
  BY SpendParts
<1>2. Spendable(c) /\ ValidCredential(c) /\ ValidInput(c.in) /\ ValidOwners(c.owners)
  <2>1. CASE c.kind = "transfer"
    BY <2>1 DEF Valid, ValidTransfer, ValidTransferOutput
  <2>2. CASE c.kind = "operation"
    BY <2>2 DEF Valid, ValidOperation
  <2>3. CASE c.kind = "permission"
    BY <2>3 DEF Valid, ValidPermission
  <2>4. QED
    BY <1>1, <2>1, <2>2, <2>3
<1>3. QED
  BY <1>2 DEF ValidCredential, ValidInput, ValidOwners, ClassicalOwners, PostQuantumOwners

\* A valid call has a signature.
LEMMA HasSignature ==
  ASSUME fx \in Classical \cup PostQuantum \cup Attesting, NEW c \in CallsOf(fx), Valid(c)
  PROVE  Signatures(c) \in Nat /\ 1 <= Signatures(c)
<1>1. CASE fx \in Attesting
  <2>1. c.kind = "attestation"
    BY <1>1, CachedAssumption DEF CallsOf, Attest
  <2>2. QED
    BY <2>1 DEF Signatures
<1>2. CASE fx \notin Attesting
  <2>1. Len(c.in) = Len(c.sigs) /\ c.sigs # <<>> /\ c.sigs \in Seq(Signature)
    BY <1>2, SpendParts, ValidSpend DEF Spendable
  <2>2. QED
    BY <1>2, <2>1, SpendParts
<1>3. QED
  BY <1>1, <1>2

\* What is valid stays valid as time goes on.
LEMMA ValidStays ==
  ASSUME fx \in Classical \cup PostQuantum \cup Attesting, fx' = fx,
         clock \in Nat, clock' \in Nat, clock <= clock',
         NEW c \in CallsOf(fx), Valid(c)
  PROVE  Valid(c)'
<1>1. CASE fx \in Attesting
  <2>1. c.kind = "attestation"
    BY <1>1, CachedAssumption DEF CallsOf, Attest
  <2>2. QED
    BY <2>1 DEF Valid, ValidAttestation
<1>2. CASE fx \notin Attesting
  <2>1. c.kind \in {"transfer", "operation", "permission"} /\ c.owners.locktime \in Nat
    BY <1>2, SpendParts
  <2>2. Spendable(c) => Spendable(c)'
    BY <2>1 DEF Spendable
  <2>3. /\ ValidTransfer(c)' = ValidTransfer(c)
        /\ ValidOperation(c)' = ValidOperation(c)
        /\ ValidPermission(c)' = ValidPermission(c)
    BY DEF ValidTransfer, ValidOperation, ValidPermission, ValidTransferOutput, ValidOwners,
           ValidCredential, Equals
  <2>4. QED
    BY <2>1, <2>2, <2>3 DEF Valid
<1>3. QED
  BY <1>1, <1>2

\* A job that nobody works on stays right.
LEMMA JobStays ==
  ASSUME fx \in Classical \cup PostQuantum \cup Attesting, fx' = fx,
         clock \in Nat, clock' \in Nat, clock <= clock'
  PROVE  \A j : JobOK(j) => JobOK(j)'
<1> SUFFICES ASSUME NEW j, j # Idle, JobTyped(j), JobRight(j)
             PROVE  JobTyped(j)' /\ JobRight(j)'
  BY DEF JobOK
<1>1. JobTyped(j)'
  BY DEF JobTyped, CallsOf
<1>2. Valid(j.call) => Valid(j.call)'
  BY ValidStays DEF JobTyped
<1>3. \A i : Fault(j.call, i)' <=> Fault(j.call, i)
  BY DEF Fault
<1>4. RightBefore(j.call, j.next)' <=> RightBefore(j.call, j.next)
  BY <1>3 DEF RightBefore
<1>5. Signed(j.call)' <=> Signed(j.call)
  BY <1>3 DEF Signed
<1>6. JobRight(j)'
  BY <1>2, <1>3, <1>4, <1>5 DEF JobRight
<1>7. QED
  BY <1>1, <1>6

-----------------------------------------------------------------------------
(* The next signature of a job.                                            *)

\* A verdict on the next signature leaves a job right.
LEMMA AfterOK ==
  ASSUME fx \in Classical \cup PostQuantum \cup Attesting,
         NEW j, JobTyped(j), JobRight(j), j.verdict = "running", NEW valid \in BOOLEAN,
         fx \notin Attesting => (valid <=> ~Fault(j.call, j.next) /\ Verdict(j.call, j.next)),
         fx \in Attesting /\ valid => AttestedBy(j.call)
  PROVE  JobOK(After(j, valid))
<1>1. /\ j.full /\ Valid(j.call) /\ j.next <= Signatures(j.call) /\ j.next \in Nat \ {0}
      /\ j.call \in CallsOf(fx) /\ Signatures(j.call) \in Nat
      /\ j = Job(j.call, j.next, j.missed, j.full, j.verdict)
      /\ fx \notin Attesting => RightBefore(j.call, j.next)
  BY HasSignature DEF JobTyped, JobRight
<1>2. CASE ~valid
  <2> DEFINE r == Job(j.call, j.next, FALSE, j.full, "wrongSig")
  <2>1. After(j, valid) = r
    BY <1>1, <1>2 DEF After, Job
  <2>2. /\ r.call = j.call /\ r.next = j.next /\ r.missed = FALSE /\ r.full = j.full
        /\ r.verdict = "wrongSig"
    BY DEF Job
  <2> HIDE DEF r
  <2>3. JobTyped(r)
    BY <1>1, <2>1, <2>2 DEF JobTyped, Verdicts, After, Job, r
  <2>4. fx \notin Attesting => ~Signed(j.call)
    BY <1>1, <1>2 DEF Signed
  <2>5. JobRight(r)
    BY <2>2, <2>4 DEF JobRight
  <2>6. QED
    BY <2>1, <2>3, <2>5 DEF JobOK
<1>3. CASE valid /\ j.next = Signatures(j.call)
  <2> DEFINE r == Job(j.call, j.next, FALSE, j.full, "ok")
  <2>1. After(j, valid) = r
    BY <1>1, <1>3 DEF After, Job
  <2>2. /\ r.call = j.call /\ r.next = j.next /\ r.missed = FALSE /\ r.full = j.full
        /\ r.verdict = "ok"
    BY DEF Job
  <2>3. JobTyped(r)
    BY <1>1 DEF JobTyped, Verdicts, Job
  <2> HIDE DEF r
  <2>4. fx \notin Attesting => Signed(j.call)
    <3> SUFFICES ASSUME fx \notin Attesting, NEW i \in 1..Signatures(j.call)
                 PROVE  ~Fault(j.call, i) /\ Verdict(j.call, i)
      BY DEF Signed
    <3>1. i \in 1..(j.next - 1) \/ i = j.next
      BY <1>1, <1>3
    <3>2. QED
      BY <1>1, <1>3, <3>1 DEF RightBefore
  <2>5. JobRight(r)
    BY <1>1, <1>3, <2>2, <2>4 DEF JobRight
  <2>6. QED
    BY <2>1, <2>3, <2>5 DEF JobOK
<1>4. CASE valid /\ j.next # Signatures(j.call)
  <2> DEFINE r == Job(j.call, j.next + 1, FALSE, j.full, j.verdict)
  <2>1. After(j, valid) = r
    BY <1>1, <1>4 DEF After, Job
  <2>2. /\ r.call = j.call /\ r.next = j.next + 1 /\ r.missed = FALSE /\ r.full = j.full
        /\ r.verdict = "running"
    BY DEF Job
  <2>3. JobTyped(r)
    BY <1>1 DEF JobTyped, Verdicts, Job
  <2> HIDE DEF r
  <2>4. fx \notin Attesting => RightBefore(j.call, j.next + 1)
    <3>1. (j.next + 1) - 1 = j.next /\ \A i \in 1..j.next : i \in 1..(j.next - 1) \/ i = j.next
      BY <1>1
    <3>2. fx \notin Attesting => \A i \in 1..j.next : ~Fault(j.call, i) /\ Verdict(j.call, i)
      BY <1>1, <1>4, <3>1 DEF RightBefore
    <3>3. QED
      BY <3>1, <3>2 DEF RightBefore
  <2>5. j.next + 1 <= Signatures(j.call)
    BY <1>1, <1>4
  <2>6. JobRight(r)
    BY <1>1, <2>2, <2>4, <2>5 DEF JobRight
  <2>7. QED
    BY <2>1, <2>3, <2>6 DEF JobOK
<1>5. QED
  BY <1>2, <1>3, <1>4

\* Different keys of a sorted committee are counted once each.
LEMMA CommitteeCount ==
  ASSUME NEW s \in Seq(Nat), IsSortedAndUnique(s), NEW T \in SUBSET (0..(Len(s) - 1))
  PROVE  /\ IsFiniteSet(T) /\ Cardinality(T) \in Nat
         /\ Cardinality({s[i + 1] : i \in T}) = Cardinality(T)
<1> DEFINE I == {s[i + 1] : i \in T}
           f == [i \in T |-> s[i + 1]]
<1>1. IsFiniteSet(T) /\ Cardinality(T) \in Nat
  <2>1. Len(s) \in Nat /\ 0 \in Int /\ Len(s) - 1 \in Int
    OBVIOUS
  <2>2. IsFiniteSet(0..(Len(s) - 1))
    BY <2>1, FS_Interval
  <2>3. QED
    BY <2>2, FS_Subset, FS_CardinalityType
<1>2. \A i, k \in T : f[i] = f[k] => i = k
  <2> SUFFICES ASSUME NEW i \in T, NEW k \in T, s[i + 1] = s[k + 1], i # k
               PROVE  FALSE
    OBVIOUS
  <2>1. i + 1 \in DOMAIN s /\ k + 1 \in DOMAIN s /\ i \in Nat /\ k \in Nat
    OBVIOUS
  <2>2. i + 1 < k + 1 \/ k + 1 < i + 1
    BY <2>1
  <2>3. s[i + 1] < s[k + 1] \/ s[k + 1] < s[i + 1]
    BY <2>1, <2>2, NeighborsAscend DEF IsSortedAndUnique
  <2>4. s[i + 1] \in Nat /\ s[k + 1] \in Nat
    BY <2>1
  <2>5. QED
    BY <2>3, <2>4
<1>3. f \in Bijection(T, I)
  BY <1>2 DEF Bijection, Injection, Surjection, IsInjective
<1>4. QED
  BY <1>1, <1>3, FS_Bijection DEF ExistsBijection

\* The parts of an attestation.
LEMMA AttestParts ==
  ASSUME fx \in Attesting, NEW c \in CallsOf(fx)
  PROVE  /\ c.kind = "attestation" /\ c.threshold \in Nat
         /\ c.pubKeys \in Seq(Nat) /\ Signatures(c) = 1
<1>1. c \in Attest
  BY CachedAssumption DEF CallsOf
<1>2. c.kind = "attestation" /\ c.threshold \in Nat /\ c.pubKeys \in Seq(Key)
  BY <1>1 DEF Attest
<1>3. c.pubKeys \in Seq(Nat)
  <2>1. \A i \in 1..Len(c.pubKeys) : c.pubKeys[i] \in Key
    BY <1>2
  <2>2. c.pubKeys = [i \in 1..Len(c.pubKeys) |-> c.pubKeys[i]]
    BY <1>2
  <2>3. QED
    BY <1>2, <2>1, <2>2, CachedAssumption
<1>4. QED
  BY <1>2, <1>3 DEF Signatures

\* An attestation without a fault has as many signers as its threshold says.
LEMMA EnoughSigners ==
  ASSUME fx \in Attesting, NEW c \in CallsOf(fx), Valid(c), NEW i, ~Fault(c, i)
  PROVE  /\ c.signers = SetBits(c)
         /\ Cardinality(c.signers) >= c.threshold
         /\ AggregateVerifies(c) => AttestedBy(c)
<1>1. /\ c.kind = "attestation" /\ c.threshold \in Nat /\ c.pubKeys \in Seq(Nat)
  BY AttestParts
<1>2. IsSortedAndUnique(c.pubKeys)
  BY <1>1 DEF Valid, ValidAttestation
<1>3. SetBits(c) \in SUBSET (0..(Len(c.pubKeys) - 1))
  BY DEF SetBits
<1>4. c.signers = SetBits(c) /\ ~(Cardinality(SetBits(c)) < c.threshold)
  <2>1. c.kind = "attestation" /\ fx \notin Classical
    BY <1>1 DEF Attesting, Classical
  <2>2. ~AttestationFault(c)
    BY <2>1 DEF Fault
  <2>3. QED
    BY <2>2 DEF AttestationFault
<1>5. /\ Cardinality(SetBits(c)) \in Nat
      /\ Cardinality({c.pubKeys[b + 1] : b \in SetBits(c)}) = Cardinality(SetBits(c))
  BY <1>1, <1>2, <1>3, CommitteeCount
<1>6. Cardinality(c.signers) >= c.threshold
  BY <1>1, <1>4, <1>5
<1>7. ASSUME AggregateVerifies(c)
      PROVE  AttestedBy(c)
  <2>1. c.agg = [keys |-> {c.pubKeys[b + 1] : b \in SetBits(c)}, hash |-> c.hash]
    BY <1>7 DEF AggregateVerifies
  <2>2. c.agg.hash = c.hash /\ c.agg.keys = {c.pubKeys[b + 1] : b \in SetBits(c)}
    BY <2>1
  <2>3. QED
    BY <1>4, <1>5, <1>6, <2>2 DEF AttestedBy
<1>8. QED
  BY <1>4, <1>6, <1>7

-----------------------------------------------------------------------------
(* The steps.                                                              *)

\* A Put leaves a cache with the new entry, within its size.
LEMMA PutOK ==
  ASSUME fx' = fx, CacheInv, NEW key, NEW valid, EntryOK(key, valid),
         verifyCache' \in CachePut(key, valid)
  PROVE  CacheInv'
<1> DEFINE cached == DOMAIN verifyCache
<1>1. PICK K : /\ \/ K = cached /\ (key \in cached \/ Cardinality(cached) < CacheSize)
                  \/ /\ ~(key \in cached \/ Cardinality(cached) < CacheSize)
                     /\ \E k \in cached : K = cached \ {k}
               /\ verifyCache' = [k \in K \cup {key} |->
                                   IF k = key THEN valid ELSE verifyCache[k]]
  BY Zenon DEF CachePut
<1>2. K \subseteq cached /\ DOMAIN verifyCache' = K \cup {key}
  BY <1>1
<1>3. (\A k \in DOMAIN verifyCache : EntryOK(k, verifyCache[k]))'
  BY <1>1, <1>2 DEF CacheInv, EntryOK
<1>4. /\ IsFiniteSet(cached) /\ Cardinality(cached) \in Nat
      /\ Cardinality(cached) <= CacheSize /\ CacheSize \in Nat
  BY FS_CardinalityType, CachedAssumption DEF CacheInv
<1>5. IsFiniteSet(K \cup {key}) /\ Cardinality(K \cup {key}) <= CacheSize
  <2>1. CASE key \in cached /\ K = cached
    <3>1. K \cup {key} = cached
      BY <2>1
    <3>2. QED
      BY <3>1, <1>4
  <2>2. CASE key \notin cached /\ K = cached /\ Cardinality(cached) < CacheSize
    <3>1. IsFiniteSet(cached \cup {key}) /\ Cardinality(cached \cup {key}) = Cardinality(cached) + 1
      BY <2>2, <1>4, FS_AddElement
    <3>2. QED
      BY <3>1, <2>2, <1>4
  <2>3. CASE key \notin cached /\ \E k \in cached : K = cached \ {k}
    <3>1. PICK k \in cached : K = cached \ {k}
      BY <2>3
    <3>2. IsFiniteSet(K) /\ Cardinality(K) = Cardinality(cached) - 1 /\ key \notin K
      BY <3>1, <2>3, <1>4, FS_RemoveElement
    <3>3. Cardinality(K \cup {key}) = Cardinality(K) + 1 /\ IsFiniteSet(K \cup {key})
      BY <3>2, FS_AddElement
    <3>4. QED
      BY <3>2, <3>3, <1>4
  <2>4. QED
    BY <1>1, <2>1, <2>2, <2>3
<1>6. QED
  BY <1>2, <1>3, <1>5 DEF CacheInv

\* The entry for a signature holds what its verification yields.
LEMMA KeyedByAll ==
  ASSUME fx \in Classical \cup PostQuantum \cup Attesting,
         NEW c \in CallsOf(fx), NEW i
  PROVE  /\ fx \notin Attesting =>
              LET key == VerifyCacheKey(c, i) IN Verifies(key.key, key.tx, key.sig) <=> Verdict(c, i)
         /\ fx \in Attesting =>
              LET key == VerifyCacheKey(c, i)
              IN  key.agg = c.agg /\ key.hash = c.hash /\ key.signers = c.signers
<1>1. CASE fx \in Attesting
  BY <1>1, AttestParts DEF VerifyCacheKey
<1>2. CASE fx \notin Attesting
  <2>1. c.kind # "attestation"
    BY <1>2, SpendParts
  <2>2. QED
    BY <1>2, <2>1 DEF VerifyCacheKey, Verdict
<1>3. QED
  BY <1>1, <1>2

\* The next signature is looked up.
LEMMA LookupStep ==
  ASSUME CachedInv, NEW v \in Verifier, Lookup(v)
  PROVE  JobOK(job'[v]) /\ job' = [job EXCEPT ![v] = job'[v]]
<1> DEFINE j == job[v]
           key == VerifyCacheKey(j.call, j.next)
<1>1. j.verdict = "running" /\ ~j.missed /\ JobTyped(j) /\ JobRight(j)
  <2>1. JobOK(j) /\ j.verdict = "running" /\ ~j.missed
    BY DEF CachedInv, Lookup, Running
  <2>2. j # Idle
    BY <2>1 DEF Idle
  <2>3. QED
    BY <2>1, <2>2 DEF JobOK
<1>2. /\ fx \in Classical \cup PostQuantum \cup Attesting /\ j.call \in CallsOf(fx)
      /\ Valid(j.call) /\ v \in DOMAIN job
  BY <1>1 DEF CachedInv, JobTyped, JobRight
<1>3. job'[v] = IF Fault(j.call, j.next) THEN After(j, FALSE)
                ELSE IF key \in DOMAIN verifyCache THEN After(j, verifyCache[key])
                ELSE IF Unparsed(j.call, j.next) THEN After(j, FALSE)
                ELSE [j EXCEPT !.missed = TRUE]
  BY <1>2 DEF Lookup
<1>4. job' = [job EXCEPT ![v] = job'[v]]
  BY <1>2 DEF Lookup
<1>5. CASE Fault(j.call, j.next)
  <2>1. JobOK(After(j, FALSE))
    BY <1>1, <1>2, <1>5, AfterOK
  <2>2. job'[v] = After(j, FALSE)
    BY <1>3, <1>5
  <2>3. QED
    BY <1>4, <2>1, <2>2
<1>6. CASE ~Fault(j.call, j.next) /\ key \in DOMAIN verifyCache
  <2>1. EntryOK(key, verifyCache[key])
    BY <1>6 DEF CachedInv, CacheInv
  <2>2. verifyCache[key] \in BOOLEAN
    BY <2>1 DEF EntryOK
  <2>3. fx \notin Attesting => (verifyCache[key] <=> Verdict(j.call, j.next))
    BY <1>2, <2>1, KeyedByAll DEF EntryOK
  <2>4. fx \in Attesting /\ verifyCache[key] => AttestedBy(j.call)
    <3> SUFFICES ASSUME fx \in Attesting, verifyCache[key]
                 PROVE  AttestedBy(j.call)
      OBVIOUS
    <3>1. key.agg.hash = key.hash /\ Cardinality(key.agg.keys) = Cardinality(key.signers)
      BY <2>1 DEF EntryOK
    <3>2. key.agg = j.call.agg /\ key.hash = j.call.hash /\ key.signers = j.call.signers
      BY <1>2, KeyedByAll
    <3>3. Cardinality(j.call.signers) >= j.call.threshold
      BY <1>2, <1>6, EnoughSigners
    <3>4. QED
      BY <3>1, <3>2, <3>3 DEF AttestedBy
  <2> HIDE DEF key
  <2>5. JobOK(After(j, verifyCache[key]))
    BY <1>1, <1>2, <1>6, <2>2, <2>3, <2>4, AfterOK
  <2>6. QED
    BY <1>3, <1>4, <1>6, <2>5
<1>7. CASE ~Fault(j.call, j.next) /\ key \notin DOMAIN verifyCache /\ Unparsed(j.call, j.next)
  <2>1. fx \notin Attesting /\ ~Verdict(j.call, j.next)
    <3>1. fx \notin Attesting
      BY <1>7 DEF Unparsed, PostQuantum, Attesting
    <3>2. j.call.kind # "attestation"
      BY <1>2, <3>1, SpendParts
    <3>3. QED
      BY <1>7, <3>1, <3>2 DEF Unparsed, Verdict, Verifies
  <2>2. JobOK(After(j, FALSE))
    BY <1>1, <1>2, <2>1, AfterOK
  <2>3. QED
    BY <1>3, <1>4, <1>7, <2>2
<1>8. CASE ~Fault(j.call, j.next) /\ key \notin DOMAIN verifyCache /\ ~Unparsed(j.call, j.next)
  <2> DEFINE r == Job(j.call, j.next, TRUE, j.full, j.verdict)
  <2>1. job'[v] = r
    BY <1>1, <1>3, <1>8 DEF Job, JobTyped
  <2>2. /\ r.call = j.call /\ r.next = j.next /\ r.missed = TRUE /\ r.full = j.full
        /\ r.verdict = "running"
    BY <1>1 DEF Job
  <2>3. JobTyped(r)
    BY <1>1 DEF JobTyped, Job
  <2> HIDE DEF r
  <2>4. JobRight(r)
    BY <1>1, <1>8, <2>2 DEF JobRight
  <2>5. QED
    BY <1>4, <2>1, <2>3, <2>4 DEF JobOK
<1>9. QED
  BY <1>5, <1>6, <1>7, <1>8

\* The next signature is verified, and its verdict kept.
LEMMA StoreStep ==
  ASSUME CachedInv, NEW v \in Verifier, Store(v)
  PROVE  JobOK(job'[v]) /\ job' = [job EXCEPT ![v] = job'[v]] /\ CacheInv'
<1> DEFINE j == job[v]
           key == VerifyCacheKey(j.call, j.next)
           valid == Verdict(j.call, j.next)
<1>1. j.verdict = "running" /\ j.missed /\ JobTyped(j) /\ JobRight(j)
  <2>1. JobOK(j) /\ j.verdict = "running" /\ j.missed
    BY DEF CachedInv, Store, Running
  <2>2. j # Idle
    BY <2>1 DEF Idle
  <2>3. QED
    BY <2>1, <2>2 DEF JobOK
<1>2. /\ fx \in Classical \cup PostQuantum \cup Attesting /\ j.call \in CallsOf(fx)
      /\ Valid(j.call) /\ ~Fault(j.call, j.next) /\ v \in DOMAIN job
  BY <1>1 DEF CachedInv, JobTyped, JobRight
<1>3. job' = [job EXCEPT ![v] = After(j, valid)] /\ verifyCache' \in CachePut(key, valid) /\ fx' = fx
  BY DEF Store
<1>4. job'[v] = After(j, valid) /\ job' = [job EXCEPT ![v] = job'[v]]
  BY <1>2, <1>3
<1>5. valid \in BOOLEAN
  BY DEF Verdict, AggregateVerifies, Verifies
<1>6. fx \in Attesting /\ valid => AttestedBy(j.call)
  <2> SUFFICES ASSUME fx \in Attesting, valid
               PROVE  AttestedBy(j.call)
    OBVIOUS
  <2>1. AggregateVerifies(j.call)
    BY <1>2, AttestParts DEF Verdict
  <2>2. QED
    BY <1>2, <2>1, EnoughSigners
<1>7. EntryOK(key, valid)
  <2>1. fx \notin Attesting => valid = Verifies(key.key, key.tx, key.sig)
    <3>1. Verifies(key.key, key.tx, key.sig) \in BOOLEAN
      BY DEF Verifies
    <3>2. QED
      BY <1>2, <1>5, <3>1, KeyedByAll
  <2>2. fx \in Attesting /\ valid =>
          key.agg.hash = key.hash /\ Cardinality(key.agg.keys) = Cardinality(key.signers)
    BY <1>2, <1>6, KeyedByAll DEF AttestedBy
  <2> HIDE DEF key, valid
  <2>3. QED
    BY <1>5, <2>1, <2>2 DEF EntryOK
<1> HIDE DEF key, valid
<1>8. JobOK(After(j, valid))
  BY <1>1, <1>2, <1>5, <1>6, AfterOK DEF valid
<1>9. CacheInv'
  BY <1>3, <1>7, PutOK DEF CachedInv
<1>10. QED
  BY <1>4, <1>8, <1>9
-----------------------------------------------------------------------------

\* A verifier begins a call.
LEMMA BeginStep ==
  ASSUME CachedInv, NEW v \in Verifier, NEW c \in CallsOf(fx), Begin(v, c)
  PROVE  JobOK(job'[v]) /\ job' = [job EXCEPT ![v] = job'[v]]
<1> DEFINE verdict == IF ~Valid(c) THEN "invalid" ELSE IF ~bootstrapped THEN "ok" ELSE "running"
           r == Job(c, 1, FALSE, bootstrapped, verdict)
<1>1. job' = [job EXCEPT ![v] = r] /\ v \in DOMAIN job
  BY DEF Begin, CachedInv
<1>2. job'[v] = r /\ job' = [job EXCEPT ![v] = job'[v]]
  BY <1>1
<1>3. /\ r.call = c /\ r.next = 1 /\ r.missed = FALSE /\ r.full = bootstrapped
      /\ r.verdict = verdict
  BY DEF Job
<1>4. JobTyped(r)
  BY DEF JobTyped, Job, Verdicts, CachedInv
<1> HIDE DEF r
<1>5. JobRight(r)
  <2>1. fx \in Classical \cup PostQuantum \cup Attesting /\ bootstrapped \in BOOLEAN
    BY DEF CachedInv
  <2>2. verdict = "running" => Valid(c) /\ bootstrapped /\ 1 <= Signatures(c)
    BY <2>1, HasSignature
  <2>3. verdict = "ok" => Valid(c) /\ ~bootstrapped
    OBVIOUS
  <2>4. verdict # "wrongSig" /\ RightBefore(c, 1)
    BY DEF RightBefore
  <2> HIDE DEF verdict
  <2>5. QED
    BY <1>3, <2>2, <2>3, <2>4 DEF JobRight
<1>6. QED
  BY <1>2, <1>4, <1>5 DEF JobOK

\* Nothing is verified or cached at first.
LEMMA CachedInvInit == Init => CachedInv
<1> SUFFICES ASSUME Init PROVE CachedInv
  OBVIOUS
<1>1. DOMAIN verifyCache = {} /\ IsFiniteSet({}) /\ Cardinality({}) <= CacheSize
  BY FS_EmptySet, CachedAssumption DEF Init
<1>2. CacheInv
  BY <1>1 DEF CacheInv
<1>3. 0 \in 0..MaxTime
  BY CachedAssumption
<1>4. job = [v \in Verifier |-> job[v]] /\ \A v \in Verifier : JobOK(job[v])
  BY DEF Init, JobOK
<1>5. QED
  BY <1>2, <1>3, <1>4 DEF Init, CachedInv

\* CachedInv is inductive.
LEMMA CachedInvStep == CachedInv /\ [Next]_vars => CachedInv'
<1> SUFFICES ASSUME CachedInv, [Next]_vars
             PROVE  CachedInv'
  OBVIOUS
<1>1. /\ fx \in Classical \cup PostQuantum \cup Attesting
      /\ clock \in Nat /\ MaxTime \in Nat /\ clock \in 0..MaxTime
      /\ job = [v \in Verifier |-> job[v]] /\ \A v \in Verifier : JobOK(job[v])
      /\ CacheInv
  BY CachedAssumption DEF CachedInv
<1>3. ASSUME fx' = fx, UNCHANGED verifyCache
      PROVE  CacheInv'
  BY <1>1, <1>3 DEF CacheInv, EntryOK
<1>4. CASE Tick
  <2>1. fx' = fx /\ clock' \in 0..MaxTime /\ clock' \in Nat /\ clock <= clock'
    BY <1>1, <1>4 DEF Tick
  <2>2. \A v \in Verifier : JobOK(job[v])'
    <3>1. \A j : JobOK(j) => JobOK(j)'
      BY <1>1, <2>1, JobStays
    <3>2. job' = job
      BY <1>4 DEF Tick
    <3>3. QED
      BY <1>1, <3>1, <3>2
  <2>3. QED
    BY <1>1, <1>3, <1>4, <2>1, <2>2 DEF Tick, CachedInv
<1>5. CASE Bootstrapped
  <2>1. fx' = fx /\ clock' = clock
    BY <1>5 DEF Bootstrapped
  <2>2. \A v \in Verifier : JobOK(job[v])'
    <3>1. \A j : JobOK(j) => JobOK(j)'
      BY <1>1, <2>1, JobStays
    <3>2. job' = job
      BY <1>5 DEF Bootstrapped
    <3>3. QED
      BY <1>1, <3>1, <3>2
  <2>3. QED
    BY <1>1, <1>3, <1>5, <2>1, <2>2 DEF Bootstrapped, CachedInv
<1>6. ASSUME fx' = fx, clock' = clock, bootstrapped' = bootstrapped, CacheInv',
             NEW v \in Verifier, JobOK(job'[v]), job' = [job EXCEPT ![v] = job'[v]]
      PROVE  CachedInv'
  <2>1. \A j : JobOK(j) => JobOK(j)'
    BY <1>1, <1>6, JobStays
  <2>2. \A w \in Verifier : JobOK(job'[w])
    BY <1>1, <1>6
  <2>3. \A w \in Verifier : JobOK(job[w])'
    BY <2>1, <2>2
  <2>4. job' = [w \in Verifier |-> job'[w]]
    BY <1>1, <1>6
  <2>5. QED
    BY <1>1, <1>6, <2>3, <2>4 DEF CachedInv
<1>7. ASSUME NEW v \in Verifier, NEW c \in CallsOf(fx), Begin(v, c)
      PROVE  CachedInv'
  BY <1>3, <1>6, <1>7, BeginStep DEF Begin
<1>8. ASSUME NEW v \in Verifier, Lookup(v)
      PROVE  CachedInv'
  BY <1>3, <1>6, <1>8, LookupStep DEF Lookup
<1>9. ASSUME NEW v \in Verifier, Store(v)
      PROVE  CachedInv'
  BY <1>6, <1>9, StoreStep DEF Store
<1>10. CASE UNCHANGED vars
  <2>1. \A v \in Verifier : JobOK(job[v])'
    <3>1. \A j : JobOK(j) => JobOK(j)'
      BY <1>1, <1>10, JobStays DEF vars
    <3>2. job' = job
      BY <1>10 DEF vars
    <3>3. QED
      BY <1>1, <3>1, <3>2
  <2>2. QED
    BY <1>1, <1>3, <1>10, <2>1 DEF vars, CachedInv
<1>11. QED
  BY <1>4, <1>5, <1>7, <1>8, <1>9, <1>10 DEF Next

\* CachedInv holds always.
LEMMA CachedInvAlways == Spec => []CachedInv
  BY CachedInvInit, CachedInvStep, PTL DEF Spec

-----------------------------------------------------------------------------
(* The theorems.                                                           *)

\* The variables keep their types, and the cache its size.
THEOREM CachedTypeCorrect == Spec => []TypeOK
<1>1. CachedInv => TypeOK
  BY DEF CachedInv, CacheInv, EntryOK, JobOK, JobTyped, TypeOK
<1>2. QED
  BY <1>1, CachedInvAlways, PTL

\* A cached verdict is the one that verification would give, whatever the
\* verifiers do between looking and storing.
THEOREM VerdictsTruthful == Spec => []CacheTruthful
<1>1. CachedInv => CacheTruthful
  BY DEF CachedInv, CacheInv, EntryOK, CacheTruthful
<1>2. QED
  BY <1>1, CachedInvAlways, PTL

\* An answer that looked at signatures, and the job it is the answer of.
LEMMA AnsweredJob ==
  ASSUME CachedInv, NEW v \in Verifier, Answered(v)
  PROVE  JobTyped(job[v]) /\ JobRight(job[v]) /\ job[v].full /\ job[v].verdict \in {"ok", "wrongSig"}
  BY DEF CachedInv, Answered, JobOK

\* With the cache a call is answered as it would be without it.
THEOREM VerdictsInvisible == Spec => []CacheInvisible
<1>1. CachedInv => CacheInvisible
  <2> SUFFICES ASSUME CachedInv, fx \notin Attesting, NEW v \in Verifier, Answered(v)
               PROVE  job[v].verdict = "ok" <=> Signed(job[v].call)
    BY DEF CacheInvisible
  <2>1. QED
    BY AnsweredJob DEF JobRight
<1>2. QED
  BY <1>1, CachedInvAlways, PTL

\* What is accepted with its signatures has been signed, for the very
\* transaction, by as many distinct owners as the threshold says.
THEOREM CachedAuthorized == Spec => []Authorized
<1>1. CachedInv => Authorized
  <2> SUFFICES ASSUME CachedInv, fx \notin Attesting, NEW v \in Verifier, Answered(v),
                      job[v].verdict = "ok"
               PROVE  LET c == job[v].call
                      IN  /\ c.owners.locktime <= clock
                          /\ Len(c.sigs) = c.owners.threshold
                          /\ \A i \in DOMAIN c.sigs :
                               /\ c.sigs[i].tx = c.tx
                               /\ \E j \in DOMAIN c.owners.addrs : c.owners.addrs[j] = c.sigs[i].key
                          /\ \A i, j \in DOMAIN c.sigs : c.sigs[i].key = c.sigs[j].key => i = j
    BY DEF Authorized
  <2> DEFINE c == job[v].call
  <2>1. /\ c \in CallsOf(fx) /\ Valid(c) /\ Signed(c)
        /\ fx \in Classical \cup PostQuantum \cup Attesting
        /\ clock \in Nat
    BY AnsweredJob, CachedAssumption DEF JobTyped, JobRight, CachedInv
  <2> HIDE DEF c
  <2>2. /\ c.in \in Seq(Nat) /\ c.sigs \in Seq(Signature) /\ DOMAIN c.in = 1..Len(c.in)
        /\ c.owners.locktime \in Nat /\ c.owners.addrs \in Seq(Nat)
        /\ Signatures(c) = Len(c.in) /\ c.kind # "attestation"
    BY <2>1, SpendParts
  <2>3. /\ ~(c.owners.locktime > clock) /\ c.owners.threshold = Len(c.in)
        /\ Len(c.in) = Len(c.sigs)
        /\ IsSortedAndUnique(c.in) /\ IsSortedAndUnique(c.owners.addrs)
    BY <2>1, ValidSpend DEF Spendable
  <2>4. DOMAIN c.sigs = 1..Len(c.in)
    BY <2>2, <2>3
  <2>5. ASSUME NEW i \in 1..Len(c.in)
        PROVE  /\ c.in[i] \in Nat /\ c.in[i] + 1 \in DOMAIN c.owners.addrs
               /\ c.sigs[i].key = c.owners.addrs[c.in[i] + 1]
               /\ c.sigs[i].tx = c.tx
    <3>1. ~Fault(c, i) /\ Verdict(c, i)
      BY <2>1, <2>2 DEF Signed
    <3>2. ~(c.in[i] >= Len(c.owners.addrs))
      BY <2>2, <3>1 DEF Fault, ClassicalFault, PostQuantumFault
    <3>3. c.in[i] \in Nat /\ c.in[i] + 1 \in DOMAIN c.owners.addrs
      BY <2>2, <3>2, SMTT(30)
    <3>4. c.sigs[i] = [key |-> c.owners.addrs[c.in[i] + 1], tx |-> c.tx]
      BY <2>2, <3>1 DEF Verdict, Verifies
    <3>5. QED
      BY <3>3, <3>4
  <2>6. ASSUME NEW i \in 1..Len(c.in), NEW j \in 1..Len(c.in), i < j
        PROVE  c.sigs[i].key < c.sigs[j].key
    <3>1. c.in[i] < c.in[j]
      BY <2>2, <2>3, <2>6, NeighborsAscend DEF IsSortedAndUnique
    <3>2. c.in[i] + 1 < c.in[j] + 1
      BY <2>5, <3>1
    <3>3. QED
      BY <2>2, <2>3, <2>5, <3>2, NeighborsAscend DEF IsSortedAndUnique
  <2>7. ASSUME NEW i \in 1..Len(c.in), NEW j \in 1..Len(c.in), c.sigs[i].key = c.sigs[j].key
        PROVE  i = j
    <3>1. c.sigs[i].key \in Nat /\ i \in Nat /\ j \in Nat
      <4>1. c.in[i] + 1 \in DOMAIN c.owners.addrs /\ c.sigs[i].key = c.owners.addrs[c.in[i] + 1]
        BY <2>5
      <4>2. \A s \in Seq(Nat) : \A n \in DOMAIN s : s[n] \in Nat
        OBVIOUS
      <4>3. c.owners.addrs[c.in[i] + 1] \in Nat
        BY ONLY <2>2, <4>1, <4>2, Zenon
      <4>4. i \in Nat /\ j \in Nat
        OBVIOUS
      <4>5. QED
        BY <4>1, <4>3, <4>4
    <3>2. QED
      BY <2>6, <2>7, <3>1
  <2>8. c.owners.locktime <= clock /\ Len(c.sigs) = c.owners.threshold
    BY <2>1, <2>2, <2>3
  <2>9. QED
    BY <2>4, <2>5, <2>7, <2>8 DEF c
<1>2. QED
  BY <1>1, CachedInvAlways, PTL

\* What is accepted as an attestation was signed by as many keys as it claims.
THEOREM CachedAttested == Spec => []Attested
<1>1. CachedInv => Attested
  BY AnsweredJob DEF JobRight, AttestedBy, Attested
<1>2. QED
  BY <1>1, CachedInvAlways, PTL
=============================================================================
