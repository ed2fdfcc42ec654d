-------------------------- MODULE Keychains_proofs --------------------------
(***************************************************************************)
(* Proofs about Keychains, for any keys, outputs and times.                *)
(***************************************************************************)
EXTENDS Keychains, Collections_proofs

\* Places one after the other.
Ascends(places) == \A i \in 2..Len(places) : places[i - 1] < places[i]

-----------------------------------------------------------------------------
(* Match.                                                                  *)

\* What Match has after k addresses: the first places it has keys for, and when
\* they are fewer than the threshold, all of them.
Matched(m, owners, k) ==
  /\ m \in Seq(Nat) /\ Len(m) <= owners.threshold /\ Ascends(m)
  /\ \A i \in 1..Len(m) : m[i] \in 1..k /\ m[i] \in Held(owners)
  /\ Len(m) < owners.threshold =>
       \A j \in Held(owners) : j <= k => \E i \in 1..Len(m) : m[i] = j

\* The next address is taken.
LEMMA MatchedMore ==
  ASSUME NEW owners, owners.threshold \in Nat, owners.addrs \in Seq(Key),
         NEW k \in 1..Len(owners.addrs), NEW m, Matched(m, owners, k - 1),
         Len(m) < owners.threshold, owners.addrs[k] \in keys
  PROVE  Matched(Append(m, k), owners, k)
<1> DEFINE n == Append(m, k)
<1>1. m \in Seq(Nat) /\ Len(m) \in Nat /\ k \in Nat /\ k \in Held(owners)
  BY DEF Matched, Held
<1>2. /\ n \in Seq(Nat) /\ Len(n) = Len(m) + 1 /\ n[Len(m) + 1] = k
      /\ \A i \in 1..Len(m) : n[i] = m[i]
  BY <1>1
<1> HIDE DEF n
<1>3. \A i \in 1..Len(n) : i \in 1..Len(m) \/ i = Len(m) + 1
  BY <1>1, <1>2
<1>4. \A i \in 1..Len(m) : m[i] \in 1..(k - 1) /\ m[i] \in Held(owners)
  BY DEF Matched
<1>5. \A i \in 1..Len(n) : n[i] \in 1..k /\ n[i] \in Held(owners)
  <2> SUFFICES ASSUME NEW i \in 1..Len(n) PROVE n[i] \in 1..k /\ n[i] \in Held(owners)
    OBVIOUS
  <2>1. CASE i \in 1..Len(m)
    <3>1. n[i] = m[i] /\ m[i] \in 1..(k - 1) /\ m[i] \in Held(owners)
      BY <1>2, <1>4, <2>1
    <3>2. QED
      BY <1>1, <3>1
  <2>2. CASE i = Len(m) + 1
    BY <1>1, <1>2, <2>2
  <2>3. QED
    BY <1>3, <2>1, <2>2
<1>6. Ascends(n)
  <2> SUFFICES ASSUME NEW i \in 2..Len(n) PROVE n[i - 1] < n[i]
    BY DEF Ascends
  <2>1. CASE i = Len(m) + 1
    <3>1. i - 1 \in 1..Len(m) /\ n[i - 1] = m[i - 1] /\ n[i] = k
      BY <1>1, <1>2, <2>1
    <3>2. m[i - 1] \in 1..(k - 1)
      BY <1>4, <3>1
    <3>3. QED
      BY <1>1, <3>1, <3>2
  <2>2. CASE i # Len(m) + 1
    <3>1. i \in 2..Len(m) /\ i - 1 \in 1..Len(m) /\ i \in 1..Len(m)
      BY <1>1, <1>2, <2>2
    <3>2. n[i - 1] = m[i - 1] /\ n[i] = m[i]
      BY <1>2, <3>1
    <3>3. QED
      BY <3>1, <3>2 DEF Matched, Ascends
  <2>3. QED
    BY <2>1, <2>2
<1>7. ASSUME NEW j \in Held(owners), j <= k
      PROVE  \E i \in 1..Len(n) : n[i] = j
  <2>1. j \in 1..k
    BY <1>1, <1>7 DEF Held
  <2>2. CASE j = k
    BY <1>1, <1>2, <2>2
  <2>3. CASE j # k
    <3>1. j <= k - 1
      BY <1>1, <2>1, <2>3
    <3>2. PICK i \in 1..Len(m) : m[i] = j
      BY <3>1 DEF Matched
    <3>3. i \in 1..Len(n) /\ n[i] = j
      BY <1>1, <1>2, <3>2
    <3>4. QED
      BY <3>3
  <2>4. QED
    BY <2>2, <2>3
<1>8. Len(n) <= owners.threshold
  BY <1>1, <1>2
<1>9. QED
  BY <1>2, <1>5, <1>6, <1>7, <1>8 DEF Matched, n

\* The next address is passed over.
LEMMA MatchedSame ==
  ASSUME NEW owners, owners.threshold \in Nat, owners.addrs \in Seq(Key),
         NEW k \in 1..Len(owners.addrs), NEW m, Matched(m, owners, k - 1),
         ~(Len(m) < owners.threshold /\ owners.addrs[k] \in keys)
  PROVE  Matched(m, owners, k)
<1>1. m \in Seq(Nat) /\ Len(m) \in Nat /\ k \in Nat /\ Len(owners.addrs) \in Nat
  BY DEF Matched
<1>2. \A i \in 1..Len(m) : m[i] \in 1..k /\ m[i] \in Held(owners)
  BY <1>1 DEF Matched
<1>3. ASSUME Len(m) < owners.threshold, NEW j \in Held(owners), j <= k
      PROVE  \E i \in 1..Len(m) : m[i] = j
  <2>1. j \in Nat /\ owners.addrs[j] \in keys
    BY DEF Held
  <2>2. j # k
    BY <1>3, <2>1
  <2>3. j <= k - 1
    BY <1>1, <1>3, <2>1, <2>2
  <2>4. QED
    BY <1>3, <2>3 DEF Matched
<1>4. QED
  BY <1>1, <1>2, <1>3 DEF Matched

\* So Match finds, at the locktime or later, what the keychain has keys for.
LEMMA MatchFinds ==
  ASSUME NEW owners, owners.threshold \in Nat, owners.addrs \in Seq(Key),
         NEW time, ~(time < owners.locktime)
  PROVE  Matched(Match(owners, time), owners, Len(owners.addrs))
<1> DEFINE n == Len(owners.addrs)
           Takes(m, k) == Len(m) < owners.threshold /\ owners.addrs[k] \in keys
           Iter(g) == [i \in 0..n |->
                         IF i = 0 THEN <<>>
                         ELSE IF Len(g[i - 1]) < owners.threshold /\ owners.addrs[i] \in keys
                              THEN Append(g[i - 1], i)
                              ELSE g[i - 1]]
           iter == CHOOSE g : g = Iter(g)
           step == [k \in 1..n |-> [m \in Seq(Nat) |-> IF Takes(m, k) THEN Append(m, k) ELSE m]]
<1>1. Match(owners, time) = iter[n]
  BY DEF Match
<1>2. n \in Nat
  OBVIOUS
<1>3. \A k \in 1..n : \A m \in Seq(Nat) :
        step[k][m] = IF Takes(m, k) THEN Append(m, k) ELSE m
  OBVIOUS
<1> HIDE DEF step
<1>4. \A k \in 1..n : \A m \in Seq(Nat) : step[k][m] \in Seq(Nat)
  <2> TAKE k \in 1..n
  <2> TAKE m \in Seq(Nat)
  <2>1. Append(m, k) \in Seq(Nat)
    OBVIOUS
  <2>2. step[k][m] = Append(m, k) \/ step[k][m] = m
    BY <1>3
  <2>3. QED
    BY <2>1, <2>2
<1>5. <<>> \in Seq(Nat)
  OBVIOUS
<1>6. PICK g \in [0..n -> Seq(Nat)] : Loop(g, n, <<>>, step)
  BY <1>2, <1>4, <1>5, LoopRuns
<1>7. g[0] = <<>> /\ \A k \in 1..n : g[k] = step[k][g[k - 1]] /\ k - 1 \in 0..n
  BY <1>2, <1>6 DEF Loop
<1>8. ASSUME NEW i \in 0..n
      PROVE  g[i] = IF i = 0 THEN <<>>
                    ELSE IF Len(g[i - 1]) < owners.threshold /\ owners.addrs[i] \in keys
                         THEN Append(g[i - 1], i)
                         ELSE g[i - 1]
  <2>1. CASE i = 0
    BY <1>7, <2>1
  <2>2. CASE i # 0
    <3>1. i \in 1..n /\ g[i - 1] \in Seq(Nat)
      BY <1>2, <2>2
    <3>2. QED
      BY <1>3, <1>7, <2>2, <3>1
  <2>3. QED
    BY <2>1, <2>2
<1>9. g = Iter(g)
  BY <1>8
<1>10. iter = Iter(iter)
  BY <1>9, Zenon
<1> HIDE DEF iter
<1>11. \A i \in 0..n : iter[i] = IF i = 0 THEN <<>>
                                 ELSE IF Takes(iter[i - 1], i) THEN Append(iter[i - 1], i)
                                 ELSE iter[i - 1]
  BY <1>10
<1> HIDE DEF Takes
<1> DEFINE P == {k \in 0..n : Matched(iter[k], owners, k)}
<1>12. 0 \in P
  <2>1. iter[0] = <<>> /\ 0 \in 0..n
    BY <1>2, <1>11
  <2>2. Matched(<<>>, owners, 0)
    BY DEF Matched, Ascends, Held
  <2>3. QED
    BY <2>1, <2>2
<1>13. ASSUME NEW k \in 1..n, k - 1 \in P
       PROVE  k \in P
  <2>1. Matched(iter[k - 1], owners, k - 1) /\ k \in 0..n
    BY <1>2, <1>13
  <2>2. iter[k] = IF Takes(iter[k - 1], k) THEN Append(iter[k - 1], k) ELSE iter[k - 1]
    BY <1>11, <2>1
  <2>3. CASE Takes(iter[k - 1], k)
    BY <2>1, <2>2, <2>3, MatchedMore DEF Takes
  <2>4. CASE ~Takes(iter[k - 1], k)
    BY <2>1, <2>2, <2>4, MatchedSame DEF Takes
  <2>5. QED
    BY <2>3, <2>4
<1> HIDE DEF P
<1>14. 0..n \subseteq P
  BY <1>2, <1>12, <1>13, LoopInduction
<1>15. n \in P
  BY <1>2, <1>14
<1>16. QED
  BY <1>1, <1>15 DEF P

-----------------------------------------------------------------------------
(* What fx decides about a call that was made for an output.               *)

\* Places of keys that somebody can have.
Chosen(places) ==
  /\ places \in Seq(Nat)
  /\ \A i \in 1..Len(places) : /\ places[i] \in 1..Len(out.owners.addrs)
                                /\ out.owners.addrs[places[i]] \in Key \ BadKey

\* Its parts are valid when those of the output are, and the places ascend.
Accepted(places, message) ==
  /\ ValidOutput
  /\ pkg # "secp256k1" => Len(places) > 0
  /\ ~(out.owners.locktime > clock)
  /\ out.owners.threshold = Len(places)
  /\ Ascends(places)
  /\ bootstrapped /\ Len(places) > 0 => message = Verified("tx")

\* The indices of an input ascend with the places.
LEMMA IndicesAscend ==
  ASSUME NEW places \in Seq(Nat), NEW in, in = [i \in 1..Len(places) |-> places[i] - 1]
  PROVE  /\ Len(in) = Len(places) /\ DOMAIN in = 1..Len(places)
         /\ (\A i \in 2..Len(in) : in[i - 1] < in[i]) <=> Ascends(places)
<1>1. Len(places) \in Nat /\ DOMAIN in = 1..Len(places) /\ Len(in) = Len(places)
  OBVIOUS
<1>2. \A i \in 2..Len(places) : i \in 1..Len(places) /\ i - 1 \in 1..Len(places)
  BY <1>1
<1>3. \A i \in 1..Len(places) : in[i] = places[i] - 1 /\ places[i] \in Nat
  OBVIOUS
<1>4. \A i \in 2..Len(places) : in[i - 1] < in[i] <=> places[i - 1] < places[i]
  BY <1>2, <1>3
<1>5. QED
  BY <1>1, <1>4 DEF Ascends

\* secp256k1fx accepts it then, and then only.
LEMMA SecpDecides ==
  ASSUME pkg = "secp256k1", out \in Outputs, NEW places, Chosen(places), NEW message
  PROVE  Accepts(Made(places, message)) <=> Accepted(places, message)
<1> DEFINE c == Made(places, message)
           addrs == out.owners.addrs
           n == Len(places)
<1>0. c = Made(places, message)
  OBVIOUS
<1> HIDE DEF c
<1>1. places \in Seq(Nat) /\ n \in Nat /\ \A i \in 1..n : places[i] \in 1..Len(addrs)
  BY DEF Chosen
<1>2. \A i \in 1..n : addrs[places[i]] \in Nat
  BY KeychainAssumption DEF Chosen
<1>3. /\ c.kind = out.kind /\ c.tx = Verified("tx")
      /\ c.in = [i \in 1..n |-> places[i] - 1]
      /\ c.sigs = [i \in 1..n |-> [key |-> addrs[places[i]], tx |-> message]]
      /\ c.owners = out.owners /\ c.amt = out.amt /\ c.inAmt = out.amt
      /\ c.mint = out.owners
      /\ c.transfer = [amt |-> out.amt, owners |-> out.owners]
  BY <1>0, <1>1 DEF Made, Signatures
<1>4. /\ Len(c.in) = n /\ DOMAIN c.in = 1..n
      /\ ((\A i \in 2..Len(c.in) : c.in[i - 1] < c.in[i]) <=> Ascends(places))
  <2> DEFINE in == c.in
  <2>1. in = [i \in 1..n |-> places[i] - 1]
    BY <1>3
  <2> HIDE DEF in
  <2>2. /\ Len(in) = n /\ DOMAIN in = 1..n
        /\ ((\A i \in 2..Len(in) : in[i - 1] < in[i]) <=> Ascends(places))
    BY <1>1, <2>1, IndicesAscend
  <2>3. QED
    BY <2>2 DEF in
<1>5. Len(c.sigs) = n
  <2> DEFINE sigs == c.sigs
  <2>1. sigs = [i \in 1..n |-> [key |-> addrs[places[i]], tx |-> message]]
    BY <1>3
  <2> HIDE DEF sigs
  <2>2. Len(sigs) = n
    BY <1>1, <2>1
  <2>3. QED
    BY <2>2 DEF sigs
<1>6. Secp!ValidInput(c.in) <=> Ascends(places)
  BY <1>4, Zenon DEF Secp!ValidInput, Secp!isSortedAndUniqueByCompare
<1>7. Secp!Signed(c) <=> (n > 0 => message = Verified("tx"))
  <2>1. ASSUME NEW i \in 1..n
        PROVE  /\ c.in[i] < Len(c.owners.addrs)
               /\ Secp!Recover(c.tx, c.sigs[i]) = c.owners.addrs[c.in[i] + 1]
                    <=> message = Verified("tx")
    <3>1. c.in[i] = places[i] - 1 /\ places[i] \in Nat /\ places[i] <= Len(addrs)
          /\ Len(addrs) \in Nat
      <4>1. Len(addrs) \in Nat
        BY KeychainAssumption DEF Output, Cached!Owners
      <4>2. QED
        BY <1>1, <1>3, <4>1
    <3>2. c.in[i] + 1 = places[i] /\ c.in[i] < Len(addrs)
      BY <3>1
    <3>3. c.sigs[i].key = addrs[places[i]] /\ c.sigs[i].tx = message
      BY <1>3
    <3>4. addrs[places[i]] # Secp!NoKey
      BY <1>2 DEF Secp!NoKey
    <3>5. Secp!Recover(c.tx, c.sigs[i]) = addrs[places[i]] <=> message = Verified("tx")
      BY <1>3, <3>3, <3>4, Zenon DEF Secp!Recover
    <3>6. QED
      BY <1>3, <3>2, <3>5, Zenon
  <2>2. Secp!Signed(c) <=> \A i \in 1..n : message = Verified("tx")
    BY <1>4, <2>1, Zenon DEF Secp!Signed
  <2>3. n > 0 <=> 1..n # {}
    BY <1>1
  <2>4. QED
    BY <2>2, <2>3
<1>8. Secp!VerifyCredentials(c) <=> (/\ ~(out.owners.locktime > clock)
                                    /\ out.owners.threshold = n
                                    /\ (bootstrapped => Secp!Signed(c)))
  BY <1>3, <1>4, <1>5, Zenon DEF Secp!VerifyCredentials
<1>9. Accepts(c) <=> Secp!Accepts(c)
  BY DEF Accepts
<1>10. Accepts(c) <=> ValidOutput /\ Ascends(places) /\ Secp!VerifyCredentials(c)
  <2>1. CASE out.kind = "transfer"
    <3>1. Accepts(c) <=> Secp!VerifySpend(c)
      BY <1>3, <1>9, <2>1 DEF Secp!Accepts
    <3>2. ValidOutput <=> out.amt # 0 /\ Secp!ValidOwners(out.owners)
      BY <2>1 DEF ValidOutput, Secp!ValidTransferOutput
    <3>3. Secp!ValidTransferOutput([amt |-> c.amt, owners |-> c.owners])
            <=> out.amt # 0 /\ Secp!ValidOwners(out.owners)
      BY <1>3 DEF Secp!ValidTransferOutput
    <3>4. QED
      BY <1>3, <1>6, <3>1, <3>2, <3>3 DEF Secp!VerifySpend, Secp!ValidTransferInput
  <2>2. CASE out.kind = "operation"
    <3>1. Accepts(c) <=> Secp!VerifyOperation(c)
      BY <1>3, <1>9, <2>2 DEF Secp!Accepts
    <3>2. ValidOutput <=> Secp!ValidOwners(out.owners)
      BY <2>2 DEF ValidOutput
    <3>3. Secp!ValidTransferOutput(c.transfer) <=> Secp!ValidOwners(out.owners)
      <4>1. out.amt # 0
        BY <2>2, KeychainAssumption
      <4>2. QED
        BY <1>3, <4>1 DEF Secp!ValidTransferOutput
    <3>4. Secp!Equals(c.owners, c.mint)
      BY <1>3 DEF Secp!Equals
    <3>5. QED
      BY <1>3, <1>6, <3>1, <3>2, <3>3, <3>4 DEF Secp!VerifyOperation, Secp!ValidMintOperation
  <2>3. QED
    BY <2>1, <2>2, KeychainAssumption DEF Output
<1>11. QED
  BY <1>7, <1>8, <1>10 DEF Accepted, c

\* So does an fx with a cache, which asks for a signature.
LEMMA CachedDecides ==
  ASSUME pkg \in Packages, pkg # "secp256k1", out \in Outputs,
         NEW places, Chosen(places), NEW message
  PROVE  Accepts(Made(places, message)) <=> Accepted(places, message)
<1> DEFINE c == Made(places, message)
           addrs == out.owners.addrs
           n == Len(places)
<1>0. c = Made(places, message)
  OBVIOUS
<1> HIDE DEF c
<1>1. places \in Seq(Nat) /\ n \in Nat /\ \A i \in 1..n : places[i] \in 1..Len(addrs)
  BY DEF Chosen
<1>2. \A i \in 1..n : addrs[places[i]] \in Key \ BadKey
  BY DEF Chosen
<1>3. /\ c.kind = out.kind /\ c.tx = Verified("tx")
      /\ c.in = [i \in 1..n |-> places[i] - 1]
      /\ c.sigs = [i \in 1..n |-> [key |-> addrs[places[i]], tx |-> message]]
      /\ c.owners = out.owners /\ c.amt = out.amt /\ c.inAmt = out.amt
      /\ c.mint = out.owners /\ c.to = out.owners /\ c.level = out.owners.level
  BY <1>0, <1>1 DEF Made, Signatures
<1>4. pkg \in Cached!Classical => c.pubKeys = [i \in 1..n |-> addrs[places[i]]]
  BY <1>0, <1>1 DEF Made, Signatures
<1>5. /\ Len(c.in) = n /\ DOMAIN c.in = 1..n
      /\ ((\A i \in 2..Len(c.in) : c.in[i - 1] < c.in[i]) <=> Ascends(places))
  <2> DEFINE in == c.in
  <2>1. in = [i \in 1..n |-> places[i] - 1]
    BY <1>3
  <2> HIDE DEF in
  <2>2. /\ Len(in) = n /\ DOMAIN in = 1..n
        /\ ((\A i \in 2..Len(in) : in[i - 1] < in[i]) <=> Ascends(places))
    BY <1>1, <2>1, IndicesAscend
  <2>3. QED
    BY <2>2 DEF in
<1>6. Len(c.sigs) = n /\ DOMAIN c.sigs = 1..n
  <2> DEFINE sigs == c.sigs
  <2>1. sigs = [i \in 1..n |-> [key |-> addrs[places[i]], tx |-> message]]
    BY <1>3
  <2> HIDE DEF sigs
  <2>2. Len(sigs) = n /\ DOMAIN sigs = 1..n
    BY <1>1, <2>1
  <2>3. QED
    BY <2>2 DEF sigs
<1>7. Cached!ValidInput(c.in) <=> Ascends(places)
  BY <1>5, Zenon DEF Cached!ValidInput, Cached!IsSortedAndUnique
<1>8. c.kind \in {"transfer", "operation"} /\ c.kind # "attestation"
  BY <1>3, KeychainAssumption DEF Output
<1>9. pkg \in Cached!Classical \/ (pkg \in Cached!PostQuantum /\ pkg \notin Cached!Classical)
  BY DEF Packages, Cached!Classical, Cached!PostQuantum
<1>10. ASSUME NEW i \in 1..n
      PROVE  ~Cached!Fault(c, i) /\ (Cached!Verdict(c, i) <=> message = Verified("tx"))
  <2>1. c.in[i] = places[i] - 1 /\ places[i] \in Nat /\ places[i] <= Len(addrs)
        /\ Len(addrs) \in Nat
    <3>1. Len(addrs) \in Nat
      BY KeychainAssumption DEF Output, Cached!Owners
    <3>2. QED
      BY <1>1, <1>3, <3>1
  <2>2. c.in[i] + 1 = places[i] /\ ~(c.in[i] >= Len(addrs))
    BY <2>1
  <2>3. c.owners.addrs[c.in[i] + 1] = addrs[places[i]]
    BY <1>3, <2>2
  <2>4. Cached!Verdict(c, i) <=> message = Verified("tx")
    <3>1. Cached!Verdict(c, i) <=> Cached!Verifies(addrs[places[i]], c.tx, c.sigs[i])
      BY <1>8, <2>3, Zenon DEF Cached!Verdict
    <3>2. c.sigs[i] = [key |-> addrs[places[i]], tx |-> message]
      BY <1>3
    <3>3. addrs[places[i]] \notin BadKey
      BY <1>2
    <3>4. QED
      BY <1>3, <3>1, <3>2, <3>3 DEF Cached!Verifies
  <2>5. CASE pkg \in Cached!Classical
    <3>1. Cached!Fault(c, i) <=> Cached!ClassicalFault(c, i)
      BY <1>8, <2>5 DEF Cached!Fault
    <3>2. c.pubKeys[i] = addrs[places[i]] /\ ~(i > Len(c.pubKeys))
      BY <1>1, <1>4, <2>5
    <3>3. QED
      BY <1>2, <1>3, <2>2, <2>3, <2>4, <3>1, <3>2 DEF Cached!ClassicalFault
  <2>6. CASE pkg \in Cached!PostQuantum /\ pkg \notin Cached!Classical
    <3>1. Cached!Fault(c, i) <=> Cached!PostQuantumFault(c, i)
      BY <1>8, <2>6 DEF Cached!Fault
    <3>2. QED
      BY <1>3, <2>2, <2>4, <3>1 DEF Cached!PostQuantumFault
  <2>7. QED
    BY <1>9, <2>5, <2>6
<1>11. Cached!Signed(c) <=> (n > 0 => message = Verified("tx"))
  <2>1. Cached!Signatures(c) = n
    BY <1>5, <1>8 DEF Cached!Signatures
  <2>2. Cached!Signed(c) <=> \A i \in 1..n : message = Verified("tx")
    BY <1>10, <2>1, Zenon DEF Cached!Signed
  <2>3. n > 0 <=> 1..n # {}
    BY <1>1
  <2>4. QED
    BY <2>2, <2>3
<1>12. Cached!ValidOwners(out.owners) => (Cached!ValidCredential(c) <=> n > 0)
  <2> SUFFICES ASSUME Cached!ValidOwners(out.owners)
               PROVE  Cached!ValidCredential(c) <=> n > 0
    OBVIOUS
  <2>1. c.sigs # <<>> <=> n > 0
    BY <1>1, <1>6
  <2>2. pkg \in Cached!PostQuantum =>
          \A i \in DOMAIN c.sigs : LevelOf[c.sigs[i].key] = c.level
    <3> SUFFICES ASSUME pkg \in Cached!PostQuantum, NEW i \in 1..n
                 PROVE  LevelOf[c.sigs[i].key] = c.level
      BY <1>6
    <3>1. pkg \notin Cached!Classical
      BY DEF Cached!Classical, Cached!PostQuantum
    <3>2. \A j \in DOMAIN addrs : LevelOf[addrs[j]] = out.owners.level
      BY <3>1 DEF Cached!ValidOwners, Cached!PostQuantumOwners
    <3>3. places[i] \in DOMAIN addrs
      <4>1. addrs \in Seq(Key)
        BY KeychainAssumption DEF Output, Cached!Owners
      <4>2. QED
        BY <1>1, <4>1
    <3>4. QED
      BY <1>3, <3>2, <3>3
  <2>3. QED
    BY <2>1, <2>2, Zenon DEF Cached!ValidCredential
<1>13. Cached!Spendable(c) <=> /\ ~(out.owners.locktime > clock)
                              /\ out.owners.threshold = n
  BY <1>3, <1>5, <1>6 DEF Cached!Spendable
<1>14. Cached!Valid(c) <=> ValidOutput /\ Ascends(places) /\ n > 0 /\ Cached!Spendable(c)
  <2>1. CASE out.kind = "transfer"
    <3>1. Cached!Valid(c) <=> Cached!ValidTransfer(c) /\ Cached!Spendable(c)
      BY <1>3, <2>1 DEF Cached!Valid
    <3>2. ValidOutput <=> out.amt # 0 /\ Cached!ValidOwners(out.owners)
      BY <2>1 DEF ValidOutput, Cached!ValidTransferOutput
    <3>3. Cached!ValidTransfer(c) <=> /\ out.amt # 0 /\ Cached!ValidOwners(out.owners)
                                     /\ Ascends(places) /\ Cached!ValidCredential(c)
      BY <1>3, <1>7, Zenon DEF Cached!ValidTransfer, Cached!ValidTransferOutput
    <3>4. QED
      BY <1>12, <3>1, <3>2, <3>3, Zenon
  <2>2. CASE out.kind = "operation"
    <3>1. Cached!Valid(c) <=> Cached!ValidOperation(c) /\ Cached!Spendable(c)
      BY <1>3, <2>2 DEF Cached!Valid
    <3>2. ValidOutput <=> Cached!ValidOwners(out.owners)
      BY <2>2 DEF ValidOutput
    <3>3. out.amt # 0
      BY <2>2, KeychainAssumption
    <3>4. Cached!Equals(c.owners, c.mint)
      BY <1>3 DEF Cached!Equals
    <3>5. Cached!ValidOperation(c) <=> /\ Cached!ValidOwners(out.owners)
                                      /\ Ascends(places) /\ Cached!ValidCredential(c)
      BY <1>3, <1>7, <3>3, <3>4, Zenon DEF Cached!ValidOperation, Cached!ValidTransferOutput
    <3>6. QED
      BY <1>12, <3>1, <3>2, <3>5, Zenon
  <2>3. QED
    BY <1>3, <1>8, <2>1, <2>2
<1>15. Accepts(c) <=> Cached!Valid(c) /\ (bootstrapped => Cached!Signed(c))
  BY DEF Accepts
<1>16. QED
  BY <1>11, <1>13, <1>14, <1>15 DEF Accepted, c

\* So one decision stands for all packages.
LEMMA Decides ==
  ASSUME pkg \in Packages, out \in Outputs, NEW places, Chosen(places), NEW message
  PROVE  Accepts(Made(places, message)) <=> Accepted(places, message)
BY SecpDecides, CachedDecides

-----------------------------------------------------------------------------
(* The invariant.                                                          *)

TypeOK ==
  /\ pkg \in Packages
  /\ clock \in 0..MaxTime /\ bootstrapped \in BOOLEAN
  /\ keys \subseteq Key \ BadKey
  /\ out \in Outputs
  /\ spend \in {"none", "made", "errCantSpend"}
  /\ spendTime \in 0..MaxTime

\* What Spend makes: an input for as many owners as the output asks for, whose
\* places ascend, at a time when it is not locked.
MadeOf(places, message) ==
  /\ call = Made(places, message)
  /\ Chosen(places) /\ Len(places) = out.owners.threshold /\ Ascends(places)
  /\ ~(out.owners.locktime > spendTime)
  /\ message \in {Sign("tx"), SignHash("tx")}

KeychainInv ==
  /\ TypeOK
  /\ spend = "made" => \E places, message : MadeOf(places, message)

\* The owners of an output, and the times.
LEMMA OutputParts ==
  ASSUME out \in Outputs
  PROVE  /\ out.owners.threshold \in Nat /\ out.owners.locktime \in Nat
         /\ out.owners.addrs \in Seq(Key) /\ Len(out.owners.addrs) \in Nat
         /\ MaxTime \in Nat
BY KeychainAssumption DEF Output, Cached!Owners

\* Places of keys of the keychain are places of keys that somebody can have.
LEMMA HeldIsChosen ==
  ASSUME TypeOK, NEW places \in Seq(Nat),
         \A i \in 1..Len(places) : places[i] \in Held(out.owners)
  PROVE  Chosen(places)
<1>1. DOMAIN out.owners.addrs = 1..Len(out.owners.addrs)
  BY OutputParts DEF TypeOK
<1>2. QED
  BY <1>1 DEF Chosen, Held, TypeOK

\* A keychain has it when Spend ends.
LEMMA SpendMakes ==
  ASSUME TypeOK, NEW time \in 0..MaxTime,
         NEW message \in {Sign("tx"), SignHash("tx")}, Spend(time, message)
  PROVE  KeychainInv'
<1> DEFINE owners == out.owners
           m == Match(owners, time)
<1>1. /\ spendTime' = time /\ pkg' = pkg /\ clock' = clock /\ out' = out /\ keys' = keys
      /\ bootstrapped' = bootstrapped
      /\ IF Able(owners, time) THEN call' = Made(m, message) /\ spend' = "made"
         ELSE spend' = "errCantSpend"
  BY DEF Spend
<1>2. TypeOK'
  BY <1>1 DEF TypeOK
<1>3. ASSUME spend' = "made"
      PROVE  \E places : MadeOf(places, message)'
  <2>1. time >= owners.locktime /\ Len(m) = owners.threshold /\ call' = Made(m, message)
    BY <1>1, <1>3 DEF Able
  <2>2. ~(time < owners.locktime) /\ ~(owners.locktime > time)
    BY <2>1, OutputParts DEF TypeOK
  <2>3. Matched(m, owners, Len(owners.addrs))
    BY <2>2, OutputParts, MatchFinds DEF TypeOK
  <2> HIDE DEF m
  <2>4. m \in Seq(Nat) /\ Ascends(m) /\ \A i \in 1..Len(m) : m[i] \in Held(owners)
    BY <2>3 DEF Matched
  <2>5. Chosen(m)
    BY <2>4, HeldIsChosen
  <2>6. PICK p : p = m
    OBVIOUS
  <2>7. call' = Made(p, message) /\ Chosen(p) /\ Len(p) = owners.threshold /\ Ascends(p)
    BY <2>1, <2>4, <2>5, <2>6
  <2>8. Made(p, message)' = Made(p, message)
    BY <1>1 DEF Made, Verified, Signatures
  <2>9. Sign("tx")' = Sign("tx")
    BY <1>1 DEF Sign
  <2>10. MadeOf(p, message)'
    BY <1>1, <2>2, <2>7, <2>8, <2>9 DEF MadeOf, Chosen, SignHash
  <2>11. QED
    BY <2>10
<1>4. QED
  BY <1>2, <1>3 DEF KeychainInv

\* The other actions leave the call and what it was made from alone.
LEMMA MadeStays ==
  ASSUME KeychainInv, TypeOK', UNCHANGED <<pkg, out, spend, spendTime, call>>
  PROVE  KeychainInv'
<1> SUFFICES ASSUME spend = "made"
             PROVE  (\E places, message : MadeOf(places, message))'
  BY DEF KeychainInv
<1>1. PICK places, message : MadeOf(places, message)
  BY DEF KeychainInv
<1>2. MadeOf(places, message)'
  BY <1>1 DEF MadeOf, Chosen, Made, Verified, Signatures, Sign, SignHash
<1>3. QED
  BY <1>2

\* KeychainInv is inductive.
LEMMA KeychainInvInit == Init => KeychainInv
<1> SUFFICES ASSUME Init PROVE KeychainInv
  OBVIOUS
<1>1. 0 \in 0..MaxTime
  BY KeychainAssumption
<1>2. TypeOK
  BY <1>1 DEF Init, TypeOK
<1>3. QED
  BY <1>2 DEF Init, KeychainInv

LEMMA KeychainInvStep == KeychainInv /\ [Next]_vars => KeychainInv'
<1> SUFFICES ASSUME KeychainInv, [Next]_vars
             PROVE  KeychainInv'
  OBVIOUS
<1> USE DEF KeychainInv
<1>1. CASE Tick
  <2>1. clock \in Nat /\ MaxTime \in Nat /\ clock < MaxTime
    BY <1>1, OutputParts DEF Tick, TypeOK
  <2>2. TypeOK'
    BY <1>1, <2>1 DEF Tick, TypeOK
  <2>3. QED
    BY <1>1, <2>2, MadeStays DEF Tick
<1>2. CASE Bootstrapped
  <2>1. TypeOK'
    BY <1>2 DEF Bootstrapped, TypeOK
  <2>2. QED
    BY <1>2, <2>1, MadeStays DEF Bootstrapped
<1>3. ASSUME NEW key \in Key \ BadKey, Add(key)
      PROVE  KeychainInv'
  <2>1. TypeOK'
    BY <1>3 DEF Add, TypeOK
  <2>2. QED
    BY <1>3, <2>1, MadeStays DEF Add
<1>4. CASE New
  BY <1>3, <1>4 DEF New
<1>5. CASE \E time \in 0..MaxTime : Spend(time, Sign("tx")) \/ Spend(time, SignHash("tx"))
  BY <1>5, SpendMakes
<1>6. CASE UNCHANGED vars
  <2>1. TypeOK'
    BY <1>6 DEF vars, TypeOK
  <2>2. QED
    BY <1>6, <2>1, MadeStays DEF vars
<1>7. QED
  BY <1>1, <1>2, <1>3, <1>4, <1>5, <1>6 DEF Next

\* So every behaviour has it.
THEOREM KeychainInvariant == Spec => []KeychainInv
BY KeychainInvInit, KeychainInvStep, PTL DEF Spec

-----------------------------------------------------------------------------
(* The properties.                                                         *)

\* Sign signs what the fx of the same package verifies, and SignHash what two
\* of them do.
LEMMA WhatIsSigned ==
  ASSUME pkg \in Packages
  PROVE  /\ Sign("tx") = Verified("tx")
         /\ SignHash("tx") = Verified("tx") <=> pkg \in {"secp256k1", "secp256r1"}
<1>1. pkg \in {"secp256k1", "schnorr", "ed25519", "secp256r1", "mldsa", "slhdsa"}
  BY DEF Packages, Cached!Classical, Cached!PostQuantum
<1> USE DEF Sign, SignHash, Verified, Bytes, Hash, Tagged
<1>2. CASE pkg = "secp256k1"
  BY <1>2 DEF Secp256k1Sign, Secp256k1Verified
<1>3. CASE pkg = "schnorr"
  BY <1>3 DEF SchnorrSign, SchnorrVerified
<1>4. CASE pkg = "ed25519"
  BY <1>4 DEF Ed25519Sign, Ed25519Verified
<1>5. CASE pkg = "secp256r1"
  BY <1>5 DEF Secp256r1Sign, Secp256r1Verified
<1>6. CASE pkg = "mldsa"
  BY <1>6 DEF MldsaSign, MldsaVerified
<1>7. CASE pkg = "slhdsa"
  BY <1>7 DEF SlhdsaSign, SlhdsaVerified
<1>8. QED
  BY <1>1, <1>2, <1>3, <1>4, <1>5, <1>6, <1>7

\* What fx says to a call that Spend has made, from that time on: it depends on
\* the output and on what was signed.
LEMMA WhatFxSays ==
  ASSUME TypeOK, NEW places, NEW message, MadeOf(places, message), clock >= spendTime
  PROVE  /\ Accepts(call) <=> /\ ValidOutput
                              /\ pkg # "secp256k1" => out.owners.threshold > 0
                              /\ bootstrapped /\ Len(places) > 0 => message = Verified("tx")
         /\ call.sigs # <<>> <=> Len(places) > 0
         /\ \A m : Len(places) > 0 => (SignedBy(m) <=> message = m)
<1>1. Accepts(call) <=> Accepted(places, message)
  BY Decides DEF MadeOf, TypeOK
<1>2. ~(out.owners.locktime > clock)
  BY OutputParts DEF MadeOf, TypeOK
<1>3. Accepted(places, message) <=>
        (/\ ValidOutput
         /\ (pkg # "secp256k1" => out.owners.threshold > 0)
         /\ (bootstrapped /\ Len(places) > 0 => message = Verified("tx")))
  BY <1>2 DEF Accepted, MadeOf
<1>4. places \in Seq(Nat) /\ Len(places) \in Nat
  BY DEF MadeOf, Chosen
<1> DEFINE sigs == call.sigs
<1>5. sigs = [i \in 1..Len(places) |-> [key |-> out.owners.addrs[places[i]], tx |-> message]]
  <2>1. call = Made(places, message)
    BY DEF MadeOf
  <2>2. call.sigs
          = [i \in 1..Len(places) |-> [key |-> out.owners.addrs[places[i]], tx |-> message]]
    BY <1>4, <2>1 DEF Made, Signatures
  <2>3. QED
    BY <2>2
<1> HIDE DEF sigs
<1>6. /\ DOMAIN sigs = 1..Len(places) /\ Len(sigs) = Len(places)
      /\ \A i \in 1..Len(places) : sigs[i].tx = message
  BY <1>4, <1>5
<1>7. sigs # <<>> <=> Len(places) > 0
  BY <1>4, <1>5, <1>6
<1>8. \A m : Len(places) > 0 => (SignedBy(m) <=> message = m)
  <2>1. Len(places) > 0 => 1 \in 1..Len(places)
    BY <1>4
  <2>2. QED
    BY <1>6, <2>1 DEF SignedBy, sigs
<1>9. QED
  BY <1>1, <1>3, <1>7, <1>8 DEF sigs

\* What a keychain makes of a valid output and Sign signs, fx accepts
\* (secp256k1fx/keychain.go 138-222, its twins, and the VerifySpend of each fx).
THEOREM SpendAlwaysAccepted == Spec => []SpendAccepted
<1>1. KeychainInv => SpendAccepted
  <2> SUFFICES ASSUME KeychainInv, spend = "made", clock >= spendTime, SignedBy(Sign("tx"))
               PROVE  Accepts(call) <=>
                        ValidOutput /\ (pkg # "secp256k1" => out.owners.threshold > 0)
    BY DEF SpendAccepted
  <2>1. PICK places, message : MadeOf(places, message)
    BY DEF KeychainInv
  <2>2. Sign("tx") = Verified("tx")
    BY WhatIsSigned DEF KeychainInv, TypeOK
  <2>3. Len(places) > 0 => message = Verified("tx")
    BY <2>1, <2>2, WhatFxSays DEF KeychainInv
  <2>4. QED
    BY <2>1, <2>3, WhatFxSays DEF KeychainInv
<1>2. QED
  BY <1>1, KeychainInvariant, PTL

\* A signature on a bare hash spends in two packages and in no other
\* (secp256k1fx/keychain.go 138-222, schnorrfx/keychain.go 31-46).
THEOREM SignHashAlwaysApart == Spec => []SignHashApart
<1>1. KeychainInv => SignHashApart
  <2> SUFFICES ASSUME KeychainInv, spend = "made", call.sigs # <<>>,
                      SignedBy(SignHash("tx")), clock >= spendTime, ValidOutput,
                      bootstrapped
               PROVE  Accepts(call) <=> pkg \in {"secp256k1", "secp256r1"}
    BY DEF SignHashApart
  <2>1. PICK places, message : MadeOf(places, message)
    BY DEF KeychainInv
  <2>2. Len(places) > 0 /\ Len(places) = out.owners.threshold
    BY <2>1, WhatFxSays DEF KeychainInv, MadeOf
  <2>3. message = SignHash("tx")
    BY <2>1, <2>2, WhatFxSays DEF KeychainInv
  <2>4. Accepts(call) <=> SignHash("tx") = Verified("tx")
    BY <2>1, <2>2, <2>3, WhatFxSays DEF KeychainInv
  <2>5. QED
    BY <2>4, WhatIsSigned DEF KeychainInv, TypeOK
<1>2. QED
  BY <1>1, KeychainInvariant, PTL

\* No places that ascend are more than the places Match has found, when it found
\* fewer than the threshold.
LEMMA NoMoreThanMatched ==
  ASSUME NEW owners, NEW m, NEW places \in Seq(Nat), Ascends(places),
         Len(places) = owners.threshold, NEW k \in Nat, Matched(m, owners, k),
         \A i \in 1..Len(places) : places[i] \in Held(owners) /\ places[i] <= k
  PROVE  Len(m) = owners.threshold
<1> SUFFICES ASSUME Len(m) # owners.threshold PROVE FALSE
  OBVIOUS
<1>1. Len(m) \in Nat /\ Len(places) \in Nat /\ Len(m) < Len(places)
  BY DEF Matched
<1> DEFINE S == 1..Len(places)
           T == 1..Len(m)
           f == [i \in S |-> CHOOSE x \in T : m[x] = places[i]]
<1>2. \A i \in S : f[i] \in T /\ m[f[i]] = places[i]
  <2> TAKE i \in S
  <2>1. \E x \in T : m[x] = places[i]
    BY <1>1 DEF Matched
  <2>2. QED
    BY <2>1
<1>3. f \in [S -> T]
  BY <1>2
<1>4. IsFiniteSet(S) /\ IsFiniteSet(T) /\ Cardinality(T) < Cardinality(S)
  <2>1. ASSUME NEW n \in Nat
        PROVE  IsFiniteSet(1..n) /\ Cardinality(1..n) = n
    <3>1. 1 \in Int /\ n \in Int
      OBVIOUS
    <3>2. /\ IsFiniteSet(1..n)
          /\ Cardinality(1..n) = IF 1 > n THEN 0 ELSE n - 1 + 1
      BY <3>1, FS_Interval, Zenon
    <3>3. QED
      BY <3>2
  <2>2. QED
    BY <1>1, <2>1
<1> HIDE DEF f, S, T
<1>5. PICK x, y \in S : x # y /\ f[x] = f[y]
  BY <1>3, <1>4, FS_PigeonHole
<1>6. places[x] = places[y]
  BY <1>2, <1>5
<1>7. \A i, j \in S : i < j => places[i] < places[j]
  <2>1. DOMAIN places = S
    BY DEF S
  <2>2. QED
    BY <2>1, NeighborsAscend DEF Ascends
<1>8. x \in Nat /\ y \in Nat /\ places[x] \in Nat /\ places[y] \in Nat
  BY <1>5 DEF S
<1>9. x < y \/ y < x
  BY <1>5, <1>8
<1>10. QED
  BY <1>5, <1>6, <1>7, <1>8, <1>9

\* A keychain gives up only when fx accepts no choice of signers among its keys,
\* in any order (secp256k1fx/keychain.go 206-222).
THEOREM SpendAlwaysComplete == Spec => []SpendComplete
<1>1. KeychainInv => SpendComplete
  <2> SUFFICES ASSUME TypeOK, NEW time \in clock..MaxTime, ~Able(out.owners, time),
                      NEW places \in Selections(out.owners),
                      Accepts(Made(places, Sign("tx")))
               PROVE  FALSE
    BY DEF KeychainInv, SpendComplete
  <2> DEFINE owners == out.owners
             m == Match(owners, time)
  <2>1. PICK n \in 0..Len(owners.addrs) : places \in [1..n -> Held(owners)]
    BY DEF Selections
  <2>2. Held(owners) \subseteq 1..Len(owners.addrs)
    BY OutputParts DEF Held, TypeOK
  <2>3. /\ places \in Seq(Nat) /\ Len(places) = n
        /\ \A i \in 1..Len(places) : places[i] \in Held(owners)
    <3>1. n \in Nat /\ places \in [1..n -> Nat]
      BY <2>1, <2>2
    <3>2. places \in Seq(Nat) /\ Len(places) = n
      BY <3>1
    <3>3. QED
      BY <2>1, <3>2
  <2>4. Chosen(places)
    BY <2>3, HeldIsChosen
  <2>5. Accepted(places, Sign("tx"))
    BY <2>4, Decides DEF TypeOK
  <2>6. ~(owners.locktime > clock) /\ Len(places) = owners.threshold /\ Ascends(places)
    BY <2>5 DEF Accepted
  <2>7. ~(time < owners.locktime) /\ time >= owners.locktime
    BY <2>6, OutputParts DEF TypeOK
  <2>8. Matched(m, owners, Len(owners.addrs))
    BY <2>7, OutputParts, MatchFinds DEF TypeOK
  <2> HIDE DEF m
  <2>9. \A i \in 1..Len(places) : places[i] \in Held(owners) /\ places[i] <= Len(owners.addrs)
    BY <2>2, <2>3
  <2>10. Len(m) = owners.threshold
    BY <2>3, <2>6, <2>8, <2>9, OutputParts, NoMoreThanMatched DEF TypeOK
  <2>11. QED
    BY <2>7, <2>10 DEF Able, m
<1>2. QED
  BY <1>1, KeychainInvariant, PTL
=============================================================================
