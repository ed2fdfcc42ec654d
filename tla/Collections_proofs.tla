-------------------------- MODULE Collections_proofs --------------------------
(***************************************************************************)
(* Lemmas about numbers, finite sets, sums and the lists of LinkedIndex    *)
(* that the other proofs cite.                                             *)
(*                                                                         *)
(* The code compares the neighbors of a list; what it wants to know is     *)
(* that the whole list is sorted and has no duplicates.  One follows from  *)
(* the other because the least place where the order failed would have a   *)
(* neighbor where it fails too.                                            *)
(*                                                                         *)
(* Sums over finite sets are those of the module Functions, which defines  *)
(* them by recursion.  Induction is stated about sets, as the provers want *)
(* it: a set P that has what follows from its members has everything.      *)
(***************************************************************************)
EXTENDS LinkedIndex, Functions, FiniteSetTheorems, SequenceTheorems, WellFoundedInduction,
        TLAPS

\* A nonempty set of natural numbers has a least element.
LEMMA Least ==
  ASSUME NEW T, T \subseteq Nat, T # {}
  PROVE  \E x \in T : \A y \in T : x <= y
<1>1. \E x \in T : \A y \in T : ~(<<y, x>> \in OpToRel(<, Nat))
  BY NatLessThanWellFounded, WFMin, Zenon
<1>2. \E x \in T : \A y \in T : ~(y < x)
  BY <1>1, Zenon DEF OpToRel
<1>3. QED
  BY <1>2

\* Numbers that are less than their successors are sorted, none twice.
LEMMA NeighborsAscend ==
  ASSUME NEW s \in Seq(Nat), \A i \in 2..Len(s) : s[i - 1] < s[i]
  PROVE  \A i, j \in DOMAIN s : i < j => s[i] < s[j]
<1> SUFFICES ASSUME NEW i \in DOMAIN s, NEW k \in DOMAIN s, i < k, ~(s[i] < s[k])
             PROVE  FALSE
  OBVIOUS
<1> DEFINE T == {j \in DOMAIN s : i < j /\ ~(s[i] < s[j])}
<1>1. T \subseteq Nat /\ T # {}
  OBVIOUS
<1>2. PICK j \in T : \A y \in T : j <= y
  BY <1>1, Least
<1>3. j \in 2..Len(s) /\ j - 1 \in DOMAIN s
  BY <1>2
<1>4. s[j - 1] < s[j]
  BY <1>3
<1>5. j - 1 = i \/ s[i] < s[j - 1]
  <2>1. j \in Nat /\ i \in Nat /\ i < j
    BY <1>2
  <2>2. j - 1 \notin T
    BY <1>2, <2>1
  <2>3. QED
    BY <1>3, <2>1, <2>2
<1>6. s[i] \in Nat /\ s[j] \in Nat /\ s[j - 1] \in Nat /\ ~(s[i] < s[j])
  BY <1>2, <1>3
<1>7. QED
  BY <1>4, <1>5, <1>6

-----------------------------------------------------------------------------
\* A recursion that takes one element after the other from a finite set: c says
\* which one, and step how the value of a set comes from that of the others.
Recursion(S, V, c, step) ==
  /\ \A s \in SUBSET S : s # {} => c[s] \in s
  /\ \A s \in SUBSET S : \A v \in V : step[s][v] \in V

Solution(g, S, base, c, step) ==
  g[{}] = base /\ \A s \in SUBSET S : s # {} => g[s] = step[s][g[s \ {c[s]}]]

\* It has a solution.
LEMMA RecursionOverSets ==
  ASSUME NEW S, IsFiniteSet(S), NEW V, NEW base \in V,
         NEW c, NEW step, Recursion(S, V, c, step)
  PROVE  \E g \in [SUBSET S -> V] : Solution(g, S, base, c, step)
<1> USE DEF Recursion, Solution
<1> DEFINE Small(n) == {s \in SUBSET S : Cardinality(s) <= n}
           Solves(g, n) == /\ g \in [Small(n) -> V]
                           /\ \A s \in Small(n) :
                                g[s] = IF s = {} THEN base ELSE step[s][g[s \ {c[s]}]]
           Bad == {n \in Nat : ~ \E g : Solves(g, n)}
<1>1. \A s \in SUBSET S : IsFiniteSet(s) /\ Cardinality(s) \in Nat
  BY FS_Subset, FS_CardinalityType
<1>0. \A n \in Nat : \A s : s \in Small(n) <=> s \in SUBSET S /\ Cardinality(s) <= n
  OBVIOUS
<1> HIDE DEF Small
<1>2. ASSUME NEW n \in Nat, NEW s \in Small(n + 1), s # {}
      PROVE  s \ {c[s]} \in Small(n)
  <2>1. c[s] \in s /\ IsFiniteSet(s) /\ Cardinality(s) \in Nat
    BY <1>0, <1>1, <1>2
  <2>2. Cardinality(s \ {c[s]}) = Cardinality(s) - 1
    BY <2>1, FS_RemoveElement
  <2>3. QED
    BY <1>0, <1>2, <2>1, <2>2
<1>3. \E g : Solves(g, 0)
  <2>1. \A s \in Small(0) : s = {}
    BY <1>0, <1>1, FS_EmptySet
  <2>2. Solves([s \in Small(0) |-> base], 0)
    BY <2>1
  <2>3. QED
    BY <2>2
<1>4. ASSUME NEW n \in Nat, NEW g, Solves(g, n)
      PROVE  \E h : Solves(h, n + 1)
  <2> DEFINE h == [s \in Small(n + 1) |-> IF s = {} THEN base ELSE step[s][g[s \ {c[s]}]]]
  <2>1. \A s \in Small(n) : s \in Small(n + 1) /\ h[s] = g[s]
    BY <1>0, <1>1, <1>4
  <2>2. ASSUME NEW s \in Small(n + 1)
        PROVE  /\ h[s] \in V
               /\ h[s] = IF s = {} THEN base ELSE step[s][h[s \ {c[s]}]]
    <3>1. CASE s = {}
      BY <3>1
    <3>2. CASE s # {}
      <4>1. s \ {c[s]} \in Small(n)
        BY <1>2, <3>2
      <4>2. g[s \ {c[s]}] \in V /\ h[s \ {c[s]}] = g[s \ {c[s]}]
        BY <1>4, <2>1, <4>1
      <4>3. h[s] = step[s][g[s \ {c[s]}]] /\ s \in SUBSET S
        BY <1>0, <3>2
      <4>4. QED
        BY <3>2, <4>2, <4>3
    <3>3. QED
      BY <3>1, <3>2
  <2>3. h \in [Small(n + 1) -> V]
    BY <2>2
  <2>4. Solves(h, n + 1)
    BY <2>2, <2>3
  <2>5. QED
    BY <2>4
<1> HIDE DEF Solves
<1>5. Bad = {}
  <2> SUFFICES ASSUME Bad # {} PROVE FALSE
    OBVIOUS
  <2>1. PICK m \in Bad : \A n \in Bad : m <= n
    BY Least
  <2>2. m \in Nat /\ m # 0 /\ ~ \E g : Solves(g, m)
    BY <1>3, <2>1
  <2>3. m - 1 \in Nat /\ m - 1 \notin Bad
    BY <2>1, <2>2
  <2>4. PICK g : Solves(g, m - 1)
    BY <2>3
  <2>5. \E h : Solves(h, m - 1 + 1)
    BY <1>4, <2>3, <2>4
  <2>6. QED
    BY <2>2, <2>5
<1>6. PICK g : Solves(g, Cardinality(S))
  <2>1. Cardinality(S) \in Nat
    BY <1>1
  <2>2. QED
    BY <1>5, <2>1
<1>7. Small(Cardinality(S)) = SUBSET S
  BY <1>0, <1>1, FS_Subset
<1>8. QED
  BY <1>6, <1>7 DEF Solves

\* What holds of a finite set when it holds of what is less, holds of all.
LEMMA SubsetInduction ==
  ASSUME NEW S, IsFiniteSet(S), NEW P,
         \A s \in SUBSET S : (\A t \in SUBSET s : t # s => t \in P) => s \in P
  PROVE  SUBSET S \subseteq P
<1> DEFINE Bad == {Cardinality(s) : s \in (SUBSET S) \ P}
<1>1. \A s \in SUBSET S : IsFiniteSet(s) /\ Cardinality(s) \in Nat
  BY FS_Subset, FS_CardinalityType
<1>2. Bad = {}
  <2> SUFFICES ASSUME Bad # {} PROVE FALSE
    OBVIOUS
  <2>1. Bad \subseteq Nat
    BY <1>1
  <2>2. PICK m \in Bad : \A n \in Bad : m <= n
    BY <2>1, Least
  <2>3. PICK s \in (SUBSET S) \ P : m = Cardinality(s)
    BY <2>2
  <2>4. PICK t \in SUBSET s : t # s /\ t \notin P
    BY <2>3
  <2>5. t \in (SUBSET S) \ P /\ Cardinality(t) \in Bad
    BY <2>3, <2>4
  <2>6. Cardinality(t) <= Cardinality(s) /\ Cardinality(t) # Cardinality(s)
    BY <1>1, <2>3, <2>4, FS_Subset
  <2>7. QED
    BY <1>1, <2>2, <2>3, <2>5, <2>6
<1>3. QED
  BY <1>2

LEMMA NatSetInduction ==
  ASSUME NEW P, 0 \in P, \A n \in Nat : n \in P => n + 1 \in P
  PROVE  Nat \subseteq P
<1> DEFINE Bad == {n \in Nat : n \notin P}
<1> SUFFICES ASSUME Bad # {} PROVE FALSE
  OBVIOUS
<1>1. PICK m \in Bad : \A n \in Bad : m <= n
  BY Least
<1>2. m \in Nat /\ m # 0 /\ m - 1 \in Nat /\ m - 1 \notin Bad
  BY <1>1
<1>3. QED
  BY <1>1, <1>2

\* A nonempty finite set of natural numbers has a greatest element.
LEMMA Greatest ==
  ASSUME NEW T, T \subseteq Nat, T # {}, IsFiniteSet(T)
  PROVE  \E x \in T : \A y \in T : x >= y
<1> DEFINE P == {s \in SUBSET T : s # {} => \E x \in s : \A y \in s : x >= y}
<1>1. ASSUME NEW s \in SUBSET T, \A t \in SUBSET s : t # s => t \in P
      PROVE  s \in P
  <2> SUFFICES ASSUME NEW x \in s
               PROVE  \E y \in s : \A z \in s : y >= z
    OBVIOUS
  <2>1. s \ {x} \in P
    BY <1>1
  <2>2. CASE s \ {x} = {}
    BY <2>2
  <2>3. CASE s \ {x} # {}
    <3>1. PICK y \in s \ {x} : \A z \in s \ {x} : y >= z
      BY <2>1, <2>3
    <3>2. x \in Nat /\ y \in Nat /\ \A z \in s : z \in Nat
      BY <3>1
    <3>3. QED
      BY <3>1, <3>2
  <2>4. QED
    BY <2>2, <2>3
<1> HIDE DEF P
<1>2. SUBSET T \subseteq P
  BY <1>1, SubsetInduction
<1>3. QED
  BY <1>2 DEF P

\* A finite set is at least as large as a list of different members is long.
LEMMA NoMoreThanSet ==
  ASSUME NEW T, IsFiniteSet(T), NEW n \in Nat, NEW s,
         \A i \in 1..n : s[i] \in T, \A i, j \in 1..n : s[i] = s[j] => i = j
  PROVE  n <= Cardinality(T)
<1> DEFINE f == [i \in 1..n |-> s[i]]
<1>1. f \in [1..n -> T] /\ \A i, j \in 1..n : f[i] = f[j] => i = j
  OBVIOUS
<1>2. f \in Injection(1..n, T)
  BY <1>1 DEF Injection, IsInjective
<1>3. Cardinality(1..n) = n
  BY FS_Interval
<1> HIDE DEF f
<1>4. Cardinality(1..n) <= Cardinality(T)
  BY <1>2, FS_Injection
<1>5. QED
  BY <1>3, <1>4

\* The same for a loop that stops after n steps.
LEMMA LoopInduction ==
  ASSUME NEW n \in Nat, NEW P, 0 \in P, \A k \in 1..n : k - 1 \in P => k \in P
  PROVE  0..n \subseteq P
<1> DEFINE Q == {k \in Nat : k <= n => k \in P}
<1>1. 0 \in Q
  OBVIOUS
<1>2. ASSUME NEW k \in Nat, k \in Q PROVE k + 1 \in Q
  BY <1>2
<1> HIDE DEF Q
<1>3. Nat \subseteq Q
  BY <1>1, <1>2, NatSetInduction
<1>4. QED
  BY <1>3 DEF Q

\* The values a loop has after its steps: step says how one comes from the last.
Loop(g, n, base, step) == g[0] = base /\ \A k \in 1..n : g[k] = step[k][g[k - 1]]

\* There are such values.
LEMMA LoopRuns ==
  ASSUME NEW n \in Nat, NEW V, NEW base \in V, NEW step,
         \A k \in 1..n : \A v \in V : step[k][v] \in V
  PROVE  \E g \in [0..n -> V] : Loop(g, n, base, step)
<1> DEFINE P == {m \in 0..n : \E g \in [0..m -> V] : Loop(g, m, base, step)}
<1>1. 0 \in P
  <2>1. [k \in 0..0 |-> base] \in [0..0 -> V] /\ Loop([k \in 0..0 |-> base], 0, base, step)
    BY DEF Loop
  <2>2. QED
    BY <2>1
<1>2. ASSUME NEW m \in 1..n, m - 1 \in P PROVE m \in P
  <2>1. PICK g \in [0..(m - 1) -> V] : Loop(g, m - 1, base, step)
    BY <1>2
  <2> DEFINE h == [k \in 0..m |-> IF k = m THEN step[m][g[m - 1]] ELSE g[k]]
  <2>2. \A k \in 0..m : h[k] = IF k = m THEN step[m][g[m - 1]] ELSE g[k]
    OBVIOUS
  <2>3. g[m - 1] \in V /\ \A k \in 0..m : k # m => k \in 0..(m - 1) /\ g[k] \in V
    OBVIOUS
  <2>4. h \in [0..m -> V]
    BY <2>3
  <2> HIDE DEF h
  <2>5. \A k \in 1..m : h[k] = step[k][h[k - 1]]
    <3> TAKE k \in 1..m
    <3>1. CASE k = m
      BY <2>2, <3>1
    <3>2. CASE k # m
      <4>1. k \in 1..(m - 1) /\ h[k] = g[k] /\ h[k - 1] = g[k - 1]
        BY <2>2, <3>2
      <4>2. QED
        BY <2>1, <4>1 DEF Loop
    <3>3. QED
      BY <3>1, <3>2
  <2>6. h[0] = base
    BY <2>1, <2>2 DEF Loop
  <2>7. Loop(h, m, base, step)
    BY <2>5, <2>6 DEF Loop
  <2>8. QED
    BY <2>4, <2>7
<1> HIDE DEF P
<1>3. 0..n \subseteq P
  BY <1>1, <1>2, LoopInduction
<1>4. n \in P
  BY <1>3
<1>5. QED
  BY <1>4 DEF P

-----------------------------------------------------------------------------
\* What there is of a list of lists after the first k.
Parts(at, ss, V) ==
  /\ ss \in Seq(Seq(V)) /\ at \in [0..Len(ss) -> Seq(V)]
  /\ at[0] = <<>> /\ \A k \in 1..Len(ss) : at[k] = at[k - 1] \o ss[k]

\* It is flattened part by part.
LEMMA FlattenParts ==
  ASSUME NEW V, NEW ss \in Seq(Seq(V))
  PROVE  \E at : Parts(at, ss, V) /\ FlattenSeq(ss) = at[Len(ss)]
<1> DEFINE n == Len(ss)
           Iter(g) == [i \in 1..n |-> IF i = 1 THEN ss[i] ELSE g[i - 1] \o ss[i]]
           iter == CHOOSE g : g = Iter(g)
           step == [k \in 1..n |-> [v \in Seq(V) |-> v \o ss[k]]]
<1>1. n \in Nat /\ \A k \in 1..n : ss[k] \in Seq(V)
  OBVIOUS
<1>2. \A k \in 1..n : \A v \in Seq(V) : step[k][v] = v \o ss[k] /\ step[k][v] \in Seq(V)
  BY <1>1
<1>3. <<>> \in Seq(V)
  OBVIOUS
<1> HIDE DEF n, step
<1>4. PICK at \in [0..n -> Seq(V)] : Loop(at, n, <<>>, step)
  BY <1>1, <1>2, <1>3, LoopRuns
<1>5. at[0] = <<>> /\ \A k \in 1..n : at[k] = step[k][at[k - 1]]
  BY <1>4, Zenon DEF Loop
<1>6. ASSUME NEW k \in 1..n
      PROVE  at[k] = at[k - 1] \o ss[k] /\ (k = 1 => at[k] = ss[k])
  <2>1. k - 1 \in 0..n
    BY <1>1
  <2>2. at[k] = at[k - 1] \o ss[k]
    BY <1>2, <1>5, <2>1
  <2>3. <<>> \o ss[k] = ss[k]
    BY <1>1
  <2>4. k = 1 => at[k - 1] = <<>>
    BY <1>5
  <2>5. QED
    BY <2>2, <2>3, <2>4
<1>7. ASSUME n = 0 PROVE FlattenSeq(ss) = at[n]
  <2>1. ss = <<>> /\ FlattenSeq(ss) = ss
    BY <1>7 DEF FlattenSeq, n
  <2>2. QED
    BY <1>5, <1>7, <2>1
<1>8. ASSUME n > 0 PROVE FlattenSeq(ss) = at[n]
  <2>1. [k \in 1..n |-> at[k]] = Iter([k \in 1..n |-> at[k]])
    <3>1. \A k \in 1..n : k # 1 => k - 1 \in 1..n
      BY <1>1
    <3>2. QED
      BY <1>6, <3>1
  <2>2. iter = Iter(iter)
    BY <2>1, Zenon
  <2>3. FlattenSeq(ss) = iter[n]
    <3>1. Len(ss) # 0
      BY <1>8 DEF n
    <3>2. QED
      BY <3>1, Zenon DEF FlattenSeq, n
  <2> HIDE DEF iter
  <2>4. \A k \in 1..n : iter[k] = IF k = 1 THEN ss[k] ELSE iter[k - 1] \o ss[k]
    BY <2>2
  <2> DEFINE P == {k \in 0..n : k > 0 => iter[k] = at[k]}
  <2>5. 0 \in P
    BY <1>1
  <2>6. ASSUME NEW k \in 1..n, k - 1 \in P
        PROVE  k \in P
    <3>1. k # 1 => iter[k - 1] = at[k - 1]
      BY <1>1, <2>6
    <3>2. iter[k] = at[k]
      BY <1>6, <2>4, <3>1
    <3>3. QED
      BY <1>1, <3>2
  <2> HIDE DEF P
  <2>7. 0..n \subseteq P
    BY <1>1, <2>5, <2>6, LoopInduction
  <2>8. iter[n] = at[n]
    BY <1>1, <1>8, <2>7 DEF P
  <2>9. QED
    BY <2>3, <2>8
<1>9. FlattenSeq(ss) = at[n]
  BY <1>1, <1>7, <1>8
<1>10. \A k \in 1..n : at[k] = at[k - 1] \o ss[k]
  BY <1>6
<1>11. QED
  BY <1>4, <1>5, <1>9, <1>10, Zenon DEF n, Parts

-----------------------------------------------------------------------------
\* The element a sum takes first.
First(S) == CHOOSE x \in S : TRUE

LEMMA FirstIn == ASSUME NEW S, S # {} PROVE First(S) \in S
  BY DEF First

\* What the sums of a function over the subsets of a set satisfy.
Sums(g, w, S) ==
  /\ g \in [SUBSET S -> Nat]
  /\ g[S] = SumFunctionOnSet(w, S)
  /\ \A s \in SUBSET S : g[s] = IF s = {} THEN 0 ELSE w[First(s)] + g[s \ {First(s)}]

\* The sum of a function over a finite set solves its recursion.
LEMMA SumRecursion ==
  ASSUME NEW S, IsFiniteSet(S), NEW w, \A x \in S : w[x] \in Nat
  PROVE  \E g : Sums(g, w, S)
<1> DEFINE c == [s \in SUBSET S |-> First(s)]
           step == [s \in SUBSET S |-> [v \in Nat |-> IF s = {} THEN 0 ELSE w[First(s)] + v]]
           Iter(g) == [s \in SUBSET S |-> IF s = {} THEN 0 ELSE w[First(s)] + g[s \ {First(s)}]]
           iter == CHOOSE g : g = Iter(g)
<1>1. \A s \in SUBSET S : s # {} => c[s] \in s /\ w[First(s)] \in Nat
  BY FirstIn
<1>3. \A s \in SUBSET S : /\ c[s] = First(s)
                          /\ \A v \in Nat : step[s][v] = IF s = {} THEN 0 ELSE w[First(s)] + v
  OBVIOUS
<1> HIDE DEF c, step
<1>2. ASSUME NEW s \in SUBSET S, NEW v \in Nat PROVE step[s][v] \in Nat
  BY <1>1, <1>3
<1>4. Recursion(S, Nat, c, step)
  BY <1>1, <1>2 DEF Recursion
<1>41. PICK g \in [SUBSET S -> Nat] : Solution(g, S, 0, c, step)
  BY <1>4, RecursionOverSets
<1>5. ASSUME NEW s \in SUBSET S
      PROVE  g[s] = IF s = {} THEN 0 ELSE w[First(s)] + g[s \ {First(s)}]
  BY <1>3, <1>41 DEF Solution
<1>6. g = Iter(g)
  BY <1>41, <1>5
<1>7. iter = Iter(iter)
  BY <1>6, Zenon
<1>8. SumFunctionOnSet(w, S) = iter[S]
  BY DEF SumFunctionOnSet, FoldFunctionOnSet, MapThenFoldSet, First
<1> HIDE DEF iter
<1>9. \A s \in SUBSET S : iter[s] = IF s = {} THEN 0 ELSE w[First(s)] + iter[s \ {First(s)}]
  BY <1>7
<1>10. SUBSET S \subseteq {s \in SUBSET S : iter[s] = g[s]}
  <2> DEFINE P == {s \in SUBSET S : iter[s] = g[s]}
  <2>1. ASSUME NEW s \in SUBSET S, \A t \in SUBSET s : t # s => t \in P
        PROVE  s \in P
    <3>1. CASE s = {}
      BY <1>5, <1>9, <3>1
    <3>2. CASE s # {}
      <4>1. s \ {First(s)} \in P
        BY <2>1, <3>2, FirstIn
      <4>2. QED
        BY <1>5, <1>9, <3>2, <4>1
    <3>3. QED
      BY <3>1, <3>2
  <2> HIDE DEF P
  <2>2. SUBSET S \subseteq P
    BY <2>1, SubsetInduction
  <2>3. QED
    BY <2>2 DEF P
<1>11. iter[S] = g[S]
  BY <1>10
<1>12. Sums(g, w, S)
  BY <1>41, <1>5, <1>8, <1>11 DEF Sums
<1>13. QED
  BY <1>12

\* A sum takes its first element, and is a number.
LEMMA SumFirst ==
  ASSUME NEW S, IsFiniteSet(S), NEW w, \A x \in S : w[x] \in Nat
  PROVE  /\ SumFunctionOnSet(w, S) \in Nat
         /\ S = {} => SumFunctionOnSet(w, S) = 0
         /\ S # {} => SumFunctionOnSet(w, S)
                        = w[First(S)] + SumFunctionOnSet(w, S \ {First(S)})
<1>0. PICK g : Sums(g, w, S)
  BY SumRecursion
<1>1. /\ g \in [SUBSET S -> Nat]
      /\ g[S] = SumFunctionOnSet(w, S)
      /\ \A s \in SUBSET S : g[s] = IF s = {} THEN 0 ELSE w[First(s)] + g[s \ {First(s)}]
  BY <1>0 DEF Sums
<1>2. ASSUME S # {}
      PROVE  SumFunctionOnSet(w, S) = w[First(S)] + SumFunctionOnSet(w, S \ {First(S)})
  <2> DEFINE R == S \ {First(S)}
  <2>1. IsFiniteSet(R) /\ \A x \in R : w[x] \in Nat
    BY FS_Subset
  <2>2. R \in SUBSET S
    OBVIOUS
  <2> HIDE DEF R
  <2>9. PICK h : Sums(h, w, R)
    BY <2>1, SumRecursion
  <2>3. /\ h[R] = SumFunctionOnSet(w, R)
        /\ \A s \in SUBSET R : h[s] = IF s = {} THEN 0 ELSE w[First(s)] + h[s \ {First(s)}]
    BY <2>9 DEF Sums
  <2> DEFINE P == {s \in SUBSET R : h[s] = g[s]}
  <2>4. ASSUME NEW s \in SUBSET R, \A t \in SUBSET s : t # s => t \in P
        PROVE  s \in P
    <3>1. CASE s = {}
      BY <1>1, <2>2, <2>3, <3>1
    <3>2. CASE s # {}
      <4>1. s \ {First(s)} \in P
        BY <2>4, <3>2, FirstIn
      <4>2. h[s] = w[First(s)] + h[s \ {First(s)}]
        BY <2>3, <3>2
      <4>3. g[s] = w[First(s)] + g[s \ {First(s)}]
        BY <1>1, <2>2, <3>2
      <4>4. QED
        BY <4>1, <4>2, <4>3
    <3>3. QED
      BY <3>1, <3>2
  <2> HIDE DEF P
  <2>41. IsFiniteSet(R)
    BY <2>1
  <2>5. SUBSET R \subseteq P
    BY <2>41, <2>4, SubsetInduction
  <2>6. h[R] = g[R]
    BY <2>5 DEF P
  <2>7. g[S] = w[First(S)] + g[R]
    BY <1>1, <1>2 DEF R
  <2>8. QED
    BY <1>1, <2>3, <2>6, <2>7 DEF R
<1>3. S = {} => g[S] = 0
  BY <1>1
<1>4. g[S] \in Nat
  BY <1>1
<1>5. QED
  BY <1>1, <1>2, <1>3, <1>4

\* A sum can take any element first.
LEMMA SumTakes ==
  ASSUME NEW S, IsFiniteSet(S), NEW w, \A x \in S : w[x] \in Nat, NEW x \in S
  PROVE  SumFunctionOnSet(w, S) = w[x] + SumFunctionOnSet(w, S \ {x})
<1> DEFINE P == {s \in SUBSET S : \A y \in s :
                   SumFunctionOnSet(w, s) = w[y] + SumFunctionOnSet(w, s \ {y})}
<1>1. ASSUME NEW s \in SUBSET S, \A t \in SUBSET s : t # s => t \in P
      PROVE  s \in P
  <2> SUFFICES ASSUME NEW y \in s
               PROVE  SumFunctionOnSet(w, s) = w[y] + SumFunctionOnSet(w, s \ {y})
    OBVIOUS
  <2> DEFINE f == First(s)
  <2>1. f \in s
    BY FirstIn
  <2>2. /\ IsFiniteSet(s) /\ IsFiniteSet(s \ {y}) /\ IsFiniteSet(s \ {f})
        /\ IsFiniteSet((s \ {y}) \ {f})
    BY FS_Subset
  <2>3. SumFunctionOnSet(w, s) = w[f] + SumFunctionOnSet(w, s \ {f})
    BY <2>2, SumFirst
  <2> HIDE DEF f
  <2>4. CASE y = f
    BY <2>3, <2>4
  <2>5. CASE y # f
    <3>1. s \ {f} \in P /\ s \ {y} \in P /\ y \in s \ {f} /\ f \in s \ {y}
      BY <1>1, <2>1, <2>5
    <3>2. /\ SumFunctionOnSet(w, s \ {f}) = w[y] + SumFunctionOnSet(w, (s \ {f}) \ {y})
          /\ SumFunctionOnSet(w, s \ {y}) = w[f] + SumFunctionOnSet(w, (s \ {y}) \ {f})
      BY <3>1
    <3>3. (s \ {f}) \ {y} = (s \ {y}) \ {f}
      OBVIOUS
    <3>4. w[f] \in Nat /\ w[y] \in Nat /\ SumFunctionOnSet(w, (s \ {y}) \ {f}) \in Nat
      BY <2>1, <2>2, SumFirst
    <3>5. QED
      BY <2>3, <3>2, <3>3, <3>4
  <2>6. QED
    BY <2>4, <2>5
<1> HIDE DEF P
<1>2. SUBSET S \subseteq P
  BY <1>1, SubsetInduction
<1>3. QED
  BY <1>2 DEF P

\* What a sum has from one more element.
LEMMA SumAdds ==
  ASSUME NEW S, IsFiniteSet(S), NEW x, x \notin S, NEW w, \A y \in S \cup {x} : w[y] \in Nat
  PROVE  SumFunctionOnSet(w, S \cup {x}) = SumFunctionOnSet(w, S) + w[x]
<1>1. IsFiniteSet(S \cup {x}) /\ (S \cup {x}) \ {x} = S
  BY FS_AddElement
<1>2. SumFunctionOnSet(w, S \cup {x}) = w[x] + SumFunctionOnSet(w, S)
  BY <1>1, SumTakes
<1>3. SumFunctionOnSet(w, S) \in Nat /\ w[x] \in Nat
  BY SumFirst
<1>4. QED
  BY <1>2, <1>3

\* A sum sees the values of its elements only.
LEMMA SumSame ==
  ASSUME NEW S, IsFiniteSet(S), NEW w, NEW v, \A x \in S : w[x] \in Nat /\ v[x] = w[x]
  PROVE  SumFunctionOnSet(v, S) = SumFunctionOnSet(w, S)
<1> DEFINE P == {s \in SUBSET S : SumFunctionOnSet(v, s) = SumFunctionOnSet(w, s)}
<1>1. ASSUME NEW s \in SUBSET S, \A t \in SUBSET s : t # s => t \in P
      PROVE  s \in P
  <2>1. IsFiniteSet(s) /\ \A x \in s : w[x] \in Nat /\ v[x] \in Nat
    BY FS_Subset
  <2>2. CASE s = {}
    BY <2>1, <2>2, SumFirst
  <2>3. CASE s # {}
    <3>1. First(s) \in s /\ s \ {First(s)} \in P
      BY <1>1, <2>3, FirstIn
    <3>2. /\ SumFunctionOnSet(v, s) = v[First(s)] + SumFunctionOnSet(v, s \ {First(s)})
          /\ SumFunctionOnSet(w, s) = w[First(s)] + SumFunctionOnSet(w, s \ {First(s)})
      BY <2>1, <2>3, SumFirst
    <3>3. QED
      BY <3>1, <3>2
  <2>4. QED
    BY <2>2, <2>3
<1> HIDE DEF P
<1>2. SUBSET S \subseteq P
  BY <1>1, SubsetInduction
<1>3. QED
  BY <1>2 DEF P

\* Sums over sets that have nothing in common.
LEMMA SumOfUnion ==
  ASSUME NEW S, IsFiniteSet(S), NEW T, IsFiniteSet(T), S \cap T = {},
         NEW w, \A x \in S \cup T : w[x] \in Nat
  PROVE  SumFunctionOnSet(w, S \cup T) = SumFunctionOnSet(w, S) + SumFunctionOnSet(w, T)
<1> DEFINE P == {s \in SUBSET S :
                   SumFunctionOnSet(w, s \cup T) = SumFunctionOnSet(w, s) + SumFunctionOnSet(w, T)}
<1>1. ASSUME NEW s \in SUBSET S, \A t \in SUBSET s : t # s => t \in P
      PROVE  s \in P
  <2>1. IsFiniteSet(s) /\ IsFiniteSet(s \cup T) /\ SumFunctionOnSet(w, T) \in Nat
    BY FS_Subset, FS_Union, SumFirst
  <2>2. CASE s = {}
    <3>1. SumFunctionOnSet(w, s) = 0 /\ s \cup T = T
      BY <2>1, <2>2, SumFirst
    <3>3. SumFunctionOnSet(w, s \cup T) = SumFunctionOnSet(w, T)
      BY <3>1, Zenon
    <3>2. QED
      BY <2>1, <3>1, <3>3
  <2>3. CASE s # {}
    <3> DEFINE x == First(s)
               r == s \ {x}
    <3>1. x \in s
      BY <2>3, FirstIn
    <3>7. r \in P
      BY <1>1, <3>1
    <3>2. /\ SumFunctionOnSet(w, s \cup T) = w[x] + SumFunctionOnSet(w, (s \cup T) \ {x})
          /\ SumFunctionOnSet(w, s) = w[x] + SumFunctionOnSet(w, r)
      BY <2>1, <3>1, SumTakes
    <3>3. (s \cup T) \ {x} = r \cup T /\ IsFiniteSet(r) /\ \A y \in r : w[y] \in Nat
      BY <3>1, FS_Subset
    <3>4. SumFunctionOnSet(w, r) \in Nat /\ w[x] \in Nat
      BY <3>1, <3>3, SumFirst
    <3>5. SumFunctionOnSet(w, r \cup T) = SumFunctionOnSet(w, r) + SumFunctionOnSet(w, T)
      BY <3>7
    <3>9. SumFunctionOnSet(w, (s \cup T) \ {x}) = SumFunctionOnSet(w, r \cup T)
      BY <3>3, Zenon
    <3> HIDE DEF x, r
    <3>6. SumFunctionOnSet(w, s \cup T) = SumFunctionOnSet(w, s) + SumFunctionOnSet(w, T)
      BY <2>1, <3>2, <3>4, <3>5, <3>9
    <3>8. QED
      BY <3>6
  <2>4. QED
    BY <2>2, <2>3
<1> HIDE DEF P
<1>2. SUBSET S \subseteq P
  BY <1>1, SubsetInduction
<1>3. QED
  BY <1>2 DEF P

\* The sum of a sequence takes its numbers one after the other.
LEMMA SumOfPrefix ==
  ASSUME NEW n \in Nat, NEW w, \A i \in 1..n : w[i] \in Nat
  PROVE  /\ SumFunctionOnSet(w, 1..n) \in Nat
         /\ n = 0 => SumFunctionOnSet(w, 1..n) = 0
         /\ n > 0 => SumFunctionOnSet(w, 1..n) = SumFunctionOnSet(w, 1..(n - 1)) + w[n]
<1>1. IsFiniteSet(1..n) /\ IsFiniteSet(1..(n - 1))
  BY FS_Interval
<1>2. SumFunctionOnSet(w, 1..n) \in Nat
  BY <1>1, SumFirst
<1>3. CASE n = 0
  <2>1. 1..n = {}
    BY <1>3
  <2>2. SumFunctionOnSet(w, 1..n) = SumFunctionOnSet(w, {})
    BY <2>1, Zenon
  <2>3. SumFunctionOnSet(w, {}) = 0
    BY FS_EmptySet, SumFirst
  <2>4. QED
    BY <1>2, <1>3, <2>2, <2>3
<1>4. CASE n > 0
  <2>1. 1..n = (1..(n - 1)) \cup {n} /\ n \notin 1..(n - 1) /\ n \in 1..n
    BY <1>4
  <2>2. \A i \in (1..(n - 1)) \cup {n} : w[i] \in Nat
    BY <2>1
  <2>3. SumFunctionOnSet(w, (1..(n - 1)) \cup {n}) = SumFunctionOnSet(w, 1..(n - 1)) + w[n]
    BY <1>1, <2>1, <2>2, SumAdds
  <2>4. SumFunctionOnSet(w, 1..n) = SumFunctionOnSet(w, (1..(n - 1)) \cup {n})
    BY <2>1, Zenon
  <2>5. QED
    BY <1>2, <1>4, <2>3, <2>4
<1>5. QED
  BY <1>2, <1>3, <1>4

\* A part of a set has no greater sum than the whole.
LEMMA SumOfPart ==
  ASSUME NEW T, IsFiniteSet(T), NEW S \in SUBSET T, NEW w, \A x \in T : w[x] \in Nat
  PROVE  SumFunctionOnSet(w, S) <= SumFunctionOnSet(w, T)
<1>1. IsFiniteSet(S) /\ IsFiniteSet(T \ S) /\ S \cup (T \ S) = T /\ S \cap (T \ S) = {}
  BY FS_Subset, FS_Difference
<1>2. /\ SumFunctionOnSet(w, S) \in Nat /\ SumFunctionOnSet(w, T \ S) \in Nat
      /\ SumFunctionOnSet(w, S \cup (T \ S)) = SumFunctionOnSet(w, S) + SumFunctionOnSet(w, T \ S)
  <2>1. /\ \A x \in S : w[x] \in Nat
        /\ \A x \in T \ S : w[x] \in Nat
        /\ \A x \in S \cup (T \ S) : w[x] \in Nat
    BY <1>1
  <2>2. SumFunctionOnSet(w, S) \in Nat /\ SumFunctionOnSet(w, T \ S) \in Nat
    BY <1>1, <2>1, SumFirst, Zenon
  <2>3. SumFunctionOnSet(w, S \cup (T \ S)) = SumFunctionOnSet(w, S) + SumFunctionOnSet(w, T \ S)
    BY <1>1, <2>1, SumOfUnion, Zenon
  <2>4. QED
    BY <2>2, <2>3
<1>3. SumFunctionOnSet(w, S \cup (T \ S)) = SumFunctionOnSet(w, T)
  BY <1>1, Zenon
<1>4. QED
  BY <1>2, <1>3

\* The sum of the values of a function at the points another one maps a set to.
LEMMA SumThrough ==
  ASSUME NEW S, IsFiniteSet(S), NEW f, \A x, y \in S : f[x] = f[y] => x = y,
         NEW w, \A x \in S : w[f[x]] \in Nat
  PROVE  /\ IsFiniteSet({f[x] : x \in S})
         /\ SumFunctionOnSet(w, {f[x] : x \in S}) = SumFunctionOnSet([x \in S |-> w[f[x]]], S)
<1> DEFINE Image(s) == {f[x] : x \in s}
           v == [x \in S |-> w[f[x]]]
           P == {s \in SUBSET S : /\ IsFiniteSet(Image(s))
                                  /\ SumFunctionOnSet(w, Image(s)) = SumFunctionOnSet(v, s)}
<1>1. ASSUME NEW s \in SUBSET S, \A t \in SUBSET s : t # s => t \in P
      PROVE  s \in P
  <2>1. IsFiniteSet(s) /\ \A x \in s : v[x] \in Nat /\ v[x] = w[f[x]]
    BY FS_Subset
  <2>2. CASE s = {}
    <3>1. Image(s) = s /\ IsFiniteSet(Image(s))
      BY <2>2, FS_EmptySet
    <3>2. SumFunctionOnSet(w, Image(s)) = 0 /\ SumFunctionOnSet(v, s) = 0
      <4>1. \A y \in Image(s) : w[y] \in Nat
        BY <2>2
      <4> HIDE DEF Image, v
      <4>2. QED
        BY <2>1, <2>2, <3>1, <4>1, SumFirst
    <3>3. QED
      BY <3>1, <3>2
  <2>3. CASE s # {}
    <3> DEFINE x == First(s)
               r == s \ {x}
    <3>1. x \in s
      BY <2>3, FirstIn
    <3>2. r \in P
      BY <1>1, <3>1
    <3>3. Image(s) = Image(r) \cup {f[x]} /\ f[x] \notin Image(r)
      BY <3>1
    <3>4. \A y \in Image(r) \cup {f[x]} : w[y] \in Nat
      BY <3>1
    <3>5. IsFiniteSet(Image(r)) /\ SumFunctionOnSet(w, Image(r)) = SumFunctionOnSet(v, r)
      BY <3>2
    <3>6. SumFunctionOnSet(v, s) = v[x] + SumFunctionOnSet(v, r) /\ v[x] = w[f[x]] /\ w[f[x]] \in Nat
      BY <2>1, <3>1, SumTakes
    <3>7. SumFunctionOnSet(v, r) \in Nat
      <4>1. IsFiniteSet(r) /\ \A y \in r : v[y] \in Nat
        BY <2>1, FS_Subset
      <4> HIDE DEF r, v
      <4>2. QED
        BY <4>1, SumFirst
    <3> HIDE DEF Image, v, x, r
    <3>8. IsFiniteSet(Image(s))
      BY <3>3, <3>5, FS_AddElement
    <3>9. SumFunctionOnSet(w, Image(r) \cup {f[x]}) = SumFunctionOnSet(w, Image(r)) + w[f[x]]
      BY <3>3, <3>4, <3>5, SumAdds
    <3>10. SumFunctionOnSet(w, Image(s)) = SumFunctionOnSet(w, Image(r) \cup {f[x]})
      BY <3>3, Zenon
    <3>11. SumFunctionOnSet(w, Image(s)) = SumFunctionOnSet(v, s)
      BY <3>5, <3>6, <3>7, <3>9, <3>10
    <3>12. QED
      BY <3>8, <3>11
  <2>4. QED
    BY <2>2, <2>3
<1> HIDE DEF P
<1>2. SUBSET S \subseteq P
  BY <1>1, SubsetInduction
<1>3. QED
  BY <1>2 DEF P

\* The sum of the sums of two functions.
LEMMA SumOfSums ==
  ASSUME NEW S, IsFiniteSet(S), NEW v, NEW w, NEW z,
         \A x \in S : v[x] \in Nat /\ w[x] \in Nat /\ z[x] = v[x] + w[x]
  PROVE  SumFunctionOnSet(z, S) = SumFunctionOnSet(v, S) + SumFunctionOnSet(w, S)
<1> DEFINE P == {s \in SUBSET S :
                   SumFunctionOnSet(z, s) = SumFunctionOnSet(v, s) + SumFunctionOnSet(w, s)}
<1>1. ASSUME NEW s \in SUBSET S, \A t \in SUBSET s : t # s => t \in P
      PROVE  s \in P
  <2>1. IsFiniteSet(s) /\ \A x \in s : v[x] \in Nat /\ w[x] \in Nat /\ z[x] \in Nat
    BY FS_Subset
  <2>2. CASE s = {}
    <3>1. /\ SumFunctionOnSet(v, s) = 0 /\ SumFunctionOnSet(w, s) = 0
          /\ SumFunctionOnSet(z, s) = 0
      BY <2>1, <2>2, SumFirst
    <3>2. QED
      BY <3>1
  <2>3. CASE s # {}
    <3> DEFINE x == First(s)
               r == s \ {x}
    <3>1. x \in s /\ r \in P
      BY <1>1, <2>3, FirstIn
    <3>2. /\ SumFunctionOnSet(v, s) = v[x] + SumFunctionOnSet(v, r)
          /\ SumFunctionOnSet(w, s) = w[x] + SumFunctionOnSet(w, r)
          /\ SumFunctionOnSet(z, s) = z[x] + SumFunctionOnSet(z, r)
      BY <2>1, <3>1, SumTakes
    <3>3. IsFiniteSet(r) /\ \A y \in r : v[y] \in Nat /\ w[y] \in Nat
      BY <2>1, FS_Subset
    <3>4. SumFunctionOnSet(z, r) = SumFunctionOnSet(v, r) + SumFunctionOnSet(w, r)
      BY <3>1
    <3>5. v[x] \in Nat /\ w[x] \in Nat /\ z[x] = v[x] + w[x]
      BY <3>1
    <3> HIDE DEF x, r
    <3>6. SumFunctionOnSet(v, r) \in Nat /\ SumFunctionOnSet(w, r) \in Nat
      BY <3>3, SumFirst
    <3>7. SumFunctionOnSet(z, s) = SumFunctionOnSet(v, s) + SumFunctionOnSet(w, s)
      BY <3>2, <3>4, <3>5, <3>6
    <3>8. QED
      BY <3>7
  <2>4. QED
    BY <2>2, <2>3
<1> HIDE DEF P
<1>2. SUBSET S \subseteq P
  BY <1>1, SubsetInduction
<1>3. QED
  BY <1>2 DEF P

\* A sum of nothing but zeros.
LEMMA SumOfZeros ==
  ASSUME NEW S, IsFiniteSet(S), NEW w, \A x \in S : w[x] = 0
  PROVE  SumFunctionOnSet(w, S) = 0
<1> DEFINE total == SumFunctionOnSet(w, S)
<1>0. \A x \in S : w[x] \in Nat
  OBVIOUS
<1>1. total = total + total
  BY SumOfSums
<1>2. total \in Nat
  BY <1>0, SumFirst
<1> HIDE DEF total
<1>3. total = 0
  BY <1>1, <1>2
<1>4. QED
  BY <1>3 DEF total

\* To count is to add ones.
LEMMA CountIsSum ==
  ASSUME NEW S, IsFiniteSet(S), NEW D \in SUBSET S
  PROVE  Cardinality(D) = SumFunctionOnSet([x \in S |-> IF x \in D THEN 1 ELSE 0], S)
<1> DEFINE w == [x \in S |-> IF x \in D THEN 1 ELSE 0]
           P == {s \in SUBSET S : Cardinality(s \cap D) = SumFunctionOnSet(w, s)}
<1>0. \A x \in S : w[x] \in Nat /\ (x \in D => w[x] = 1) /\ (x \notin D => w[x] = 0)
  OBVIOUS
<1> HIDE DEF w
<1>1. ASSUME NEW s \in SUBSET S, \A t \in SUBSET s : t # s => t \in P
      PROVE  s \in P
  <2>1. IsFiniteSet(s) /\ \A x \in s : w[x] \in Nat
    BY <1>0, FS_Subset
  <2>2. CASE s = {}
    <3>1. Cardinality(s \cap D) = 0
      <4>1. s \cap D = {} BY <2>2
      <4>2. QED BY <4>1, FS_EmptySet
    <3>2. QED
      BY <2>1, <2>2, <3>1, SumFirst
  <2>3. CASE s # {}
    <3> DEFINE x == First(s)
               r == s \ {x}
    <3>1. x \in s /\ r \in P
      BY <1>1, <2>3, FirstIn
    <3>2. SumFunctionOnSet(w, s) = w[x] + SumFunctionOnSet(w, r)
      BY <2>1, <3>1, SumTakes
    <3>3. Cardinality(r \cap D) = SumFunctionOnSet(w, r)
      BY <3>1
    <3>4. IsFiniteSet(r \cap D) /\ x \notin r \cap D
      BY <2>1, FS_Subset
    <3>5. Cardinality(s \cap D) = w[x] + Cardinality(r \cap D)
      <4>1. CASE x \in D
        <5>1. s \cap D = (r \cap D) \cup {x} /\ w[x] = 1
          BY <1>0, <3>1, <4>1
        <5> HIDE DEF x, r
        <5>2. Cardinality((r \cap D) \cup {x}) = Cardinality(r \cap D) + 1
          BY <3>4, FS_AddElement
        <5>3. Cardinality(r \cap D) \in Nat
          BY <3>4, FS_CardinalityType
        <5>4. Cardinality(s \cap D) = Cardinality((r \cap D) \cup {x})
          BY <5>1, Zenon
        <5>5. QED
          BY <5>1, <5>2, <5>3, <5>4
      <4>2. CASE x \notin D
        <5>1. s \cap D = r \cap D /\ w[x] = 0
          BY <1>0, <3>1, <4>2
        <5>2. Cardinality(r \cap D) \in Nat
          BY <3>4, FS_CardinalityType
        <5>3. Cardinality(s \cap D) = Cardinality(r \cap D)
          BY <5>1, Zenon
        <5>4. QED
          BY <5>1, <5>2, <5>3
      <4>3. QED
        BY <4>1, <4>2
    <3>6. QED
      BY <3>2, <3>3, <3>5
  <2>4. QED
    BY <2>2, <2>3
<1> HIDE DEF P
<1>2. SUBSET S \subseteq P
  BY <1>1, SubsetInduction
<1>3. Cardinality(S \cap D) = SumFunctionOnSet(w, S)
  BY <1>2 DEF P
<1>4. S \cap D = D
  OBVIOUS
<1>5. QED
  BY <1>3, <1>4 DEF w

\* The sum over the pairs with one first.
RowAdds(x, J, w, row) ==
  IsFiniteSet({x} \X J) /\ SumFunctionOnSet(w, {x} \X J) = SumFunctionOnSet(row, J)

LEMMA SumOfRow ==
  ASSUME NEW x, NEW J, IsFiniteSet(J), NEW w, NEW row,
         \A p \in {x} \X J : row[p[2]] = w[p] /\ w[p] \in Nat
  PROVE  RowAdds(x, J, w, row)
<1> DEFINE f == [y \in J |-> <<x, y>>]
           u == [y \in J |-> w[f[y]]]
<1>1. /\ \A y, z \in J : f[y] = f[z] => y = z
      /\ \A y \in J : w[f[y]] \in Nat /\ u[y] = w[f[y]] /\ row[y] = u[y]
  <2>1. \A y \in J : f[y] \in {x} \X J /\ f[y] = <<x, y>> /\ f[y][2] = y
    OBVIOUS
  <2> HIDE DEF f
  <2>2. QED
    BY <2>1
<1>2. {f[y] : y \in J} = {x} \X J
  OBVIOUS
<1> HIDE DEF f
<1>3. /\ IsFiniteSet({f[y] : y \in J})
      /\ SumFunctionOnSet(w, {f[y] : y \in J}) = SumFunctionOnSet(u, J)
  BY <1>1, SumThrough
<1> HIDE DEF u
<1>4. SumFunctionOnSet(u, J) = SumFunctionOnSet(row, J)
  BY <1>1, SumSame
<1>5. QED
  BY <1>2, <1>3, <1>4, Zenon DEF RowAdds

\* The sum over pairs is the sum of the sums over those with the same first.
PairsAdd(D, pairs, w, v) ==
  IsFiniteSet(pairs) /\ SumFunctionOnSet(w, pairs) = SumFunctionOnSet(v, DOMAIN D)

LEMMA SumOfPairs ==
  ASSUME NEW D, IsFiniteSet(DOMAIN D), \A x \in DOMAIN D : IsFiniteSet(D[x]),
         NEW pairs, \A p : p \in pairs <=> \E x \in DOMAIN D : p \in {x} \X D[x],
         NEW w, \A p \in pairs : w[p] \in Nat,
         NEW v, \A x \in DOMAIN D :
                  \E row : /\ v[x] = SumFunctionOnSet(row, D[x])
                           /\ \A p \in {x} \X D[x] : row[p[2]] = w[p]
  PROVE  PairsAdd(D, pairs, w, v)
<1> DEFINE S == DOMAIN D
           Row(x) == {x} \X D[x]
           Pairs(s) == UNION {Row(x) : x \in s}
           P == {s \in SUBSET S : /\ IsFiniteSet(Pairs(s))
                                  /\ SumFunctionOnSet(w, Pairs(s)) = SumFunctionOnSet(v, s)}
<1>1. ASSUME NEW x \in S
      PROVE  IsFiniteSet(Row(x)) /\ v[x] \in Nat /\ SumFunctionOnSet(w, Row(x)) = v[x]
  <2>1. PICK row : /\ v[x] = SumFunctionOnSet(row, D[x])
                   /\ \A p \in {x} \X D[x] : row[p[2]] = w[p]
    OBVIOUS
  <2>2. \A p \in {x} \X D[x] : row[p[2]] = w[p] /\ w[p] \in Nat
    BY <2>1
  <2>3. IsFiniteSet(D[x]) /\ \A y \in D[x] : row[y] \in Nat
    <3>1. \A y \in D[x] : <<x, y>> \in {x} \X D[x] /\ <<x, y>>[2] = y
      OBVIOUS
    <3>2. QED
      BY <2>2, <3>1
  <2>4. IsFiniteSet(Row(x)) /\ SumFunctionOnSet(w, Row(x)) = SumFunctionOnSet(row, D[x])
    <3>1. RowAdds(x, D[x], w, row)
      BY <2>2, <2>3, SumOfRow
    <3>2. QED
      BY <3>1, Zenon DEF RowAdds
  <2>5. SumFunctionOnSet(row, D[x]) \in Nat
    BY <2>3, SumFirst
  <2>6. QED
    BY <2>1, <2>4, <2>5, Zenon
<1>2. ASSUME NEW s \in SUBSET S, \A t \in SUBSET s : t # s => t \in P
      PROVE  s \in P
  <2>1. IsFiniteSet(s) /\ \A x \in s : v[x] \in Nat
    BY <1>1, FS_Subset
  <2>2. CASE s = {}
    <3>1. Pairs(s) = s
      BY <2>2
    <3>2. \A p \in Pairs(s) : w[p] \in Nat
      BY <2>2
    <3>3. SumFunctionOnSet(v, s) = 0
      BY <2>1, <2>2, SumFirst
    <3> HIDE DEF Pairs
    <3>4. IsFiniteSet(Pairs(s)) /\ SumFunctionOnSet(w, Pairs(s)) = 0
      BY <2>1, <2>2, <3>1, <3>2, SumFirst
    <3>5. QED
      BY <3>3, <3>4
  <2>3. CASE s # {}
    <3> DEFINE x == First(s)
               r == s \ {x}
    <3>1. x \in s /\ r \in P
      BY <1>2, <2>3, FirstIn
    <3>2. Pairs(s) = Pairs(r) \cup Row(x) /\ Pairs(r) \cap Row(x) = {}
      BY <3>1
    <3>3. \A p \in Pairs(r) \cup Row(x) : w[p] \in Nat
      BY <3>1
    <3>4. /\ IsFiniteSet(Pairs(r)) /\ SumFunctionOnSet(w, Pairs(r)) = SumFunctionOnSet(v, r)
          /\ IsFiniteSet(Row(x)) /\ SumFunctionOnSet(w, Row(x)) = v[x] /\ v[x] \in Nat
      BY <1>1, <3>1
    <3>5. SumFunctionOnSet(v, s) = v[x] + SumFunctionOnSet(v, r)
      <4>1. IsFiniteSet(s) /\ (\A y \in s : v[y] \in Nat) /\ x \in s
        BY <2>1, <3>1
      <4>2. QED
        BY <4>1, SumTakes, Zenon
    <3>6. SumFunctionOnSet(v, r) \in Nat
      <4>1. IsFiniteSet(r) /\ \A y \in r : v[y] \in Nat
        BY <2>1, FS_Subset
      <4> HIDE DEF r
      <4>2. QED
        BY <4>1, SumFirst
    <3> HIDE DEF Pairs, Row, x, r
    <3>7. IsFiniteSet(Pairs(s))
      <4>1. IsFiniteSet(Pairs(r) \cup Row(x))
        BY <3>4, FS_Union, Zenon
      <4>2. QED
        BY <3>2, <4>1, Zenon
    <3>8. SumFunctionOnSet(w, Pairs(r) \cup Row(x))
            = SumFunctionOnSet(w, Pairs(r)) + SumFunctionOnSet(w, Row(x))
      BY <3>2, <3>3, <3>4, SumOfUnion
    <3>9. SumFunctionOnSet(w, Pairs(s)) = SumFunctionOnSet(w, Pairs(r) \cup Row(x))
      BY <3>2, Zenon
    <3>10. SumFunctionOnSet(w, Pairs(s)) = SumFunctionOnSet(v, s)
      BY <3>4, <3>5, <3>6, <3>8, <3>9
    <3>11. QED
      BY <3>7, <3>10
  <2>4. QED
    BY <2>2, <2>3
<1> HIDE DEF P
<1>3. SUBSET S \subseteq P
  <2>1. IsFiniteSet(S)
    OBVIOUS
  <2> HIDE DEF S
  <2>2. QED
    BY <1>2, <2>1, SubsetInduction
<1>4. IsFiniteSet(Pairs(S)) /\ SumFunctionOnSet(w, Pairs(S)) = SumFunctionOnSet(v, S)
  BY <1>3 DEF P
<1>5. pairs = Pairs(S)
  OBVIOUS
<1> HIDE DEF Pairs
<1>6. QED
  BY <1>4, <1>5, Zenon DEF PairsAdd

\* The sum of the values of a function at the items of a sequence.
SumAlong(s, w) == SumFunctionOnSet([i \in DOMAIN s |-> w[s[i]]], DOMAIN s)

\* It is a number.
LEMMA SumAlongType ==
  ASSUME NEW V, NEW s \in Seq(V), NEW w \in [V -> Nat]
  PROVE  SumAlong(s, w) \in Nat
<1> DEFINE z == [i \in 1..Len(s) |-> w[s[i]]]
<1>1. IsFiniteSet(1..Len(s)) /\ \A i \in 1..Len(s) : z[i] \in Nat
  <2>1. Len(s) \in Nat /\ \A i \in 1..Len(s) : z[i] \in Nat
    OBVIOUS
  <2>2. QED
    BY <2>1, FS_Interval
<1>2. DOMAIN s = 1..Len(s)
  OBVIOUS
<1>3. SumAlong(s, w) = SumFunctionOnSet(z, 1..Len(s))
  BY <1>2, Zenon DEF SumAlong
<1> HIDE DEF z
<1>4. QED
  BY <1>1, <1>3, SumFirst

\* The sum along two sequences, one after the other.
LEMMA SumAlongBoth ==
  ASSUME NEW V, NEW s \in Seq(V), NEW t \in Seq(V), NEW w \in [V -> Nat]
  PROVE  s \o t \in Seq(V) /\ SumAlong(s \o t, w) = SumAlong(s, w) + SumAlong(t, w)
<1> DEFINE n == Len(s)
           m == Len(t)
           z == [i \in 1..(n + m) |-> w[(s \o t)[i]]]
           f == [j \in 1..m |-> n + j]
           S == 1..n
           T == {f[j] : j \in 1..m}
<1>1. /\ n \in Nat /\ m \in Nat /\ s \o t \in Seq(V) /\ DOMAIN (s \o t) = 1..(n + m)
      /\ DOMAIN s = 1..n /\ DOMAIN t = 1..m
  OBVIOUS
<1>2. /\ \A i \in 1..n : z[i] = w[s[i]] /\ w[s[i]] \in Nat
      /\ \A j \in 1..m : z[n + j] = w[t[j]] /\ w[t[j]] \in Nat
  OBVIOUS
<1>3. SumAlong(s \o t, w) = SumFunctionOnSet(z, 1..(n + m))
  BY <1>1, Zenon DEF SumAlong
<1>4. SumAlong(s, w) = SumFunctionOnSet([i \in 1..n |-> w[s[i]]], 1..n)
  BY <1>1, Zenon DEF SumAlong
<1>5. SumAlong(t, w) = SumFunctionOnSet([j \in 1..m |-> w[t[j]]], 1..m)
  BY <1>1, Zenon DEF SumAlong
<1>6. IsFiniteSet(1..n) /\ IsFiniteSet(1..m)
  BY <1>1, FS_Interval
<1> HIDE DEF n, m, z
<1>7. 1..(n + m) = S \cup T /\ S \cap T = {}
  <2>1. ASSUME NEW i \in 1..(n + m), i \notin 1..n
        PROVE  i \in T
    <3>1. i - n \in 1..m /\ f[i - n] = i
      BY <1>1, <2>1
    <3>2. QED
      BY <3>1
  <2>2. QED
    BY <1>1, <2>1
<1>8. SumFunctionOnSet(z, S) = SumAlong(s, w)
  BY <1>2, <1>4, <1>6, SumSame
<1>9. IsFiniteSet(T) /\ SumFunctionOnSet(z, T) = SumAlong(t, w)
  <2>1. \A j \in 1..m : f[j] = n + j
    OBVIOUS
  <2>2. \A i, j \in 1..m : f[i] = f[j] => i = j
    BY <1>1, <2>1
  <2>3. \A j \in 1..m : z[f[j]] = w[t[j]] /\ z[f[j]] \in Nat
    BY <1>2, <2>1
  <2> DEFINE J == 1..m
  <2> HIDE DEF f, J
  <2>4. /\ IsFiniteSet({f[j] : j \in J})
        /\ SumFunctionOnSet(z, {f[j] : j \in J}) = SumFunctionOnSet([j \in J |-> z[f[j]]], J)
    <3>1. IsFiniteSet(J) /\ (\A i, j \in J : f[i] = f[j] => i = j) /\ \A j \in J : z[f[j]] \in Nat
      BY <1>6, <2>2, <2>3 DEF J
    <3>2. QED
      BY <3>1, SumThrough
  <2>5. [j \in J |-> z[f[j]]] = [j \in J |-> w[t[j]]]
    BY <2>3 DEF J
  <2>6. SumFunctionOnSet([j \in J |-> z[f[j]]], J) = SumFunctionOnSet([j \in J |-> w[t[j]]], J)
    BY <2>5, Zenon
  <2>7. QED
    BY <1>5, <2>4, <2>6 DEF J
<1>10. SumFunctionOnSet(z, S \cup T) = SumFunctionOnSet(z, S) + SumFunctionOnSet(z, T)
  <2>1. \A i \in S \cup T : z[i] \in Nat
    BY <1>2
  <2> HIDE DEF S, T
  <2>2. IsFiniteSet(S)
    BY <1>6 DEF S
  <2>3. QED
    BY <1>7, <1>9, <2>1, <2>2, SumOfUnion
<1>11. SumFunctionOnSet(z, 1..(n + m)) = SumFunctionOnSet(z, S \cup T)
  BY <1>7, Zenon
<1>12. QED
  BY <1>1, <1>3, <1>8, <1>9, <1>10, <1>11

\* The sum over two.
LEMMA SumOfTwo ==
  ASSUME NEW w, w[1] \in Nat, w[2] \in Nat
  PROVE  SumFunctionOnSet(w, 1..2) = w[1] + w[2]
<1>1. IsFiniteSet({}) /\ IsFiniteSet({1})
  BY FS_EmptySet, FS_Singleton
<1>2. SumFunctionOnSet(w, {}) = 0
  BY <1>1, SumFirst
<1>3. SumFunctionOnSet(w, {} \cup {1}) = 0 + w[1]
  BY <1>1, <1>2, SumAdds
<1>4. SumFunctionOnSet(w, {1} \cup {2}) = SumFunctionOnSet(w, {1}) + w[2]
  <2>1. 2 \notin {1} /\ \A x \in {1} \cup {2} : w[x] \in Nat
    OBVIOUS
  <2>2. QED
    BY <1>1, <2>1, SumAdds
<1>5. {} \cup {1} = {1} /\ {1} \cup {2} = 1..2
  OBVIOUS
<1>6. SumFunctionOnSet(w, {1}) = 0 + w[1] /\ SumFunctionOnSet(w, 1..2) = SumFunctionOnSet(w, {1}) + w[2]
  BY <1>3, <1>4, <1>5, Zenon
<1>7. QED
  BY <1>6

-----------------------------------------------------------------------------
(* What the list operations do to the set of keys of a list and to their   *)
(* order, that they keep the keys distinct, and what a page of a list has. *)

\* The keys of a list are the values at its places.
LEMMA KeyAt ==
  ASSUME NEW S, NEW list \in Seq(S), NEW x
  PROVE  x \in ToSet(list) <=> \E i \in 1..Len(list) : list[i] = x
  BY DEF ToSet

\* A sequence with one more element in front.
LEMMA ConsKeys ==
  ASSUME NEW S, NEW list \in Seq(S), NEW u \in S
  PROVE  /\ <<u>> \o list \in Seq(S)
         /\ Len(<<u>> \o list) = Len(list) + 1
         /\ (<<u>> \o list)[1] = u
         /\ \A i \in 1..Len(list) : (<<u>> \o list)[i + 1] = list[i]
         /\ ToSet(<<u>> \o list) = {u} \cup ToSet(list)
<1> DEFINE new == <<u>> \o list
<1>1. new \in Seq(S) /\ Len(new) = Len(list) + 1
  OBVIOUS
<1>2. new[1] = u /\ \A i \in 1..Len(list) : new[i + 1] = list[i]
  OBVIOUS
<1>3. \A k \in 1..Len(new) : k = 1 \/ (k - 1 \in 1..Len(list) /\ new[k] = list[k - 1])
  BY <1>1, <1>2
<1> HIDE DEF new
<1>4. ASSUME NEW x
      PROVE  x \in ToSet(new) <=> x \in ToSet(list) \cup {u}
  <2>1. x \in ToSet(new) <=> \E k \in 1..Len(new) : new[k] = x
    BY <1>1, KeyAt
  <2>2. x \in ToSet(list) <=> \E i \in 1..Len(list) : list[i] = x
    BY KeyAt
  <2>3. ASSUME NEW k \in 1..Len(new), new[k] = x
        PROVE  x = u \/ \E i \in 1..Len(list) : list[i] = x
    BY <1>2, <1>3, <2>3
  <2>4. ASSUME NEW i \in 1..Len(list)
        PROVE  i + 1 \in 1..Len(new) /\ new[i + 1] = list[i]
    BY <1>1, <1>2
  <2>5. 1 \in 1..Len(new)
    BY <1>1
  <2>6. QED
    BY <1>2, <2>1, <2>2, <2>3, <2>4, <2>5
<1>5. QED
  BY <1>1, <1>2, <1>4 DEF new

\* A sequence that is not empty has its first element and those of its tail.
LEMMA HeadTailKeys ==
  ASSUME NEW S, NEW list \in Seq(S), list # <<>>
  PROVE  /\ Head(list) \in S /\ Tail(list) \in Seq(S)
         /\ ToSet(list) = {Head(list)} \cup ToSet(Tail(list))
<1>1. /\ Head(list) \in S /\ Tail(list) \in Seq(S)
      /\ list = <<Head(list)>> \o Tail(list)
  OBVIOUS
<1>2. QED
  BY <1>1, ConsKeys

\* linkeddb.Put adds the key, once.
LEMMA ListPutKeys ==
  ASSUME NEW S, NEW list \in Seq(S), NEW u \in S
  PROVE  /\ ListPut(list, u) \in Seq(S)
         /\ ToSet(ListPut(list, u)) = ToSet(list) \cup {u}
         /\ Distinct(list) => Distinct(ListPut(list, u))
<1>1. CASE u \in ToSet(list)
  BY <1>1 DEF ListPut
<1>2. CASE u \notin ToSet(list)
  <2> DEFINE new == <<u>> \o list
  <2>1. /\ new \in Seq(S) /\ Len(new) = Len(list) + 1
        /\ new[1] = u /\ \A i \in 1..Len(list) : new[i + 1] = list[i]
        /\ ToSet(new) = {u} \cup ToSet(list)
    BY ConsKeys
  <2>2. \A k \in 1..Len(new) : k = 1 \/ (k - 1 \in 1..Len(list) /\ new[k] = list[k - 1])
    BY <2>1
  <2> HIDE DEF new
  <2>3. Distinct(list) => Distinct(new)
    <3> SUFFICES ASSUME Distinct(list), NEW i \in 1..Len(new), NEW j \in 1..Len(new),
                        new[i] = new[j]
                 PROVE  i = j
      BY <2>1 DEF Distinct
    <3>1. \A m \in 1..Len(list) : list[m] # u
      BY <1>2, KeyAt
    <3>2. \A m, n \in 1..Len(list) : list[m] = list[n] => m = n
      BY DEF Distinct
    <3>3. CASE i = 1 \/ j = 1
      BY <2>1, <2>2, <3>1, <3>3
    <3>4. CASE i # 1 /\ j # 1
      <4>1. list[i - 1] = list[j - 1] /\ i - 1 \in 1..Len(list) /\ j - 1 \in 1..Len(list)
        BY <2>2, <3>4
      <4>2. i - 1 = j - 1
        BY <3>2, <4>1
      <4>3. QED
        BY <2>1, <4>2
    <3>5. QED
      BY <3>3, <3>4
  <2>4. ListPut(list, u) = new
    BY <1>2 DEF ListPut, new
  <2>5. QED
    BY <2>1, <2>3, <2>4
<1>3. QED
  BY <1>1, <1>2

\* linkeddb.Delete closes the gap; the other keys keep their order.
LEMMA ListDeleteAt ==
  ASSUME NEW S, NEW list \in Seq(S), Distinct(list), NEW k \in 1..Len(list)
  PROVE  LET new == ListDelete(list, list[k])
         IN  /\ new \in Seq(S) /\ Len(new) = Len(list) - 1
             /\ \A i \in 1..Len(new) : new[i] = IF i < k THEN list[i] ELSE list[i + 1]
<1> DEFINE u == list[k]
           front == SubSeq(list, 1, k - 1)
           back  == SubSeq(list, k + 1, Len(list))
           new   == front \o back
<1>1. ListDelete(list, u) = new
  <2>1. {i \in 1..Len(list) : list[i] = u} = {k}
    BY DEF Distinct
  <2>2. SelectInSeq(list, LAMBDA v : v = u) = k
    BY <2>1, Min({k}) = k DEF SelectInSeq, Min
  <2>3. QED
    BY <2>2 DEF ListDelete, RemoveFirst, RemoveAt
<1>2. front \in Seq(S) /\ Len(front) = k - 1 /\ \A i \in 1..(k - 1) : front[i] = list[i]
  BY SubSeqProperties
<1>3. /\ back \in Seq(S) /\ Len(back) = Len(list) - k
      /\ \A i \in 1..(Len(list) - k) : back[i] = list[k + i]
  BY SubSeqProperties
<1> HIDE DEF front, back
<1>4. /\ new \in Seq(S)
      /\ Len(new) = Len(front) + Len(back)
      /\ \A i \in 1..Len(front) + Len(back) :
           new[i] = IF i <= Len(front) THEN front[i] ELSE back[i - Len(front)]
  BY <1>2, <1>3, ConcatProperties, Zenon
<1> HIDE DEF new
<1>5. Len(list) \in Nat /\ Len(new) = Len(list) - 1
  BY <1>2, <1>3, <1>4
<1>6. ASSUME NEW i \in 1..Len(new)
      PROVE  new[i] = IF i < k THEN list[i] ELSE list[i + 1]
  <2>1. CASE i < k
    BY <1>2, <1>3, <1>4, <1>5, <2>1
  <2>2. CASE i >= k
    <3>1. new[i] = back[i - (k - 1)]
      BY <1>2, <1>3, <1>4, <1>5, <2>2
    <3>2. i - (k - 1) \in 1..(Len(list) - k) /\ k + (i - (k - 1)) = i + 1
      BY <1>5, <2>2
    <3>3. QED
      BY <1>3, <2>2, <3>1, <3>2
  <2>3. QED
    BY <1>5, <2>1, <2>2
<1>7. QED
  BY <1>1, <1>4, <1>5, <1>6

\* Deleting a key that is not there changes nothing.
LEMMA ListDeleteAbsent ==
  ASSUME NEW S, NEW list \in Seq(S), NEW u, u \notin ToSet(list)
  PROVE  ListDelete(list, u) = list
<1>1. \A i \in 1..Len(list) : list[i] # u
  BY KeyAt
<1>2. QED
  BY <1>1 DEF ListDelete, RemoveFirst

\* linkeddb.Delete takes the key away, and nothing else.
LEMMA ListDeleteKeys ==
  ASSUME NEW S, NEW list \in Seq(S), NEW u \in S, Distinct(list)
  PROVE  /\ ListDelete(list, u) \in Seq(S)
         /\ ToSet(ListDelete(list, u)) = ToSet(list) \ {u}
         /\ Distinct(ListDelete(list, u))
<1>1. CASE u \notin ToSet(list)
  BY <1>1, ListDeleteAbsent
<1>2. CASE u \in ToSet(list)
  <2> DEFINE new == ListDelete(list, u)
  <2>1. PICK k \in 1..Len(list) : list[k] = u
    BY <1>2, KeyAt
  <2>2. /\ new \in Seq(S) /\ Len(new) = Len(list) - 1
        /\ \A i \in 1..Len(new) : new[i] = IF i < k THEN list[i] ELSE list[i + 1]
    BY <2>1, ListDeleteAt
  <2> HIDE DEF new
  <2>3. \A m, n \in 1..Len(list) : list[m] = list[n] => m = n
    BY DEF Distinct
  <2>4. Distinct(new)
    <3> SUFFICES ASSUME NEW i \in 1..Len(new), NEW j \in 1..Len(new), new[i] = new[j]
                 PROVE  i = j
      BY <2>2 DEF Distinct
    <3> DEFINE at(n) == IF n < k THEN n ELSE n + 1
    <3>1. /\ at(i) \in 1..Len(list) /\ new[i] = list[at(i)]
          /\ at(j) \in 1..Len(list) /\ new[j] = list[at(j)]
      BY <2>2
    <3>2. at(i) = at(j)
      BY <2>3, <3>1
    <3>3. QED
      BY <2>1, <3>2
  <2>5. ASSUME NEW x
        PROVE  x \in ToSet(new) <=> x \in ToSet(list) /\ x # u
    <3>1. x \in ToSet(new) <=> \E i \in 1..Len(new) : new[i] = x
      BY <2>2, KeyAt
    <3>2. x \in ToSet(list) <=> \E i \in 1..Len(list) : list[i] = x
      BY KeyAt
    <3>3. ASSUME NEW i \in 1..Len(new), new[i] = x
          PROVE  x # u /\ \E j \in 1..Len(list) : list[j] = x
      BY <2>1, <2>2, <2>3, <3>3
    <3>4. ASSUME NEW j \in 1..Len(list), list[j] = x, x # u
          PROVE  \E i \in 1..Len(new) : new[i] = x
      <4>1. CASE j < k
        BY <2>1, <2>2, <3>4, <4>1
      <4>2. CASE j > k
        <5>1. j - 1 \in 1..Len(new) /\ new[j - 1] = list[j]
          BY <2>1, <2>2, <4>2
        <5>2. QED
          BY <3>4, <5>1
      <4>3. QED
        BY <2>1, <3>4, <4>1, <4>2
    <3>5. QED
      BY <3>1, <3>2, <3>3, <3>4
  <2>6. QED
    BY <2>2, <2>4, <2>5 DEF new
<1>3. QED
  BY <1>1, <1>2

-----------------------------------------------------------------------------
(* Places in a list.                                                       *)

\* The place of a key is where the key is, and 0 when it is nowhere.
LEMMA PositionIn ==
  ASSUME NEW S, NEW list \in Seq(S), NEW x
  PROVE  /\ Position(list, x) \in 0..Len(list)
         /\ x \notin ToSet(list) => Position(list, x) = 0
         /\ x \in ToSet(list) => Position(list, x) \in 1..Len(list) /\ list[Position(list, x)] = x
<1>1. CASE x \in ToSet(list)
  <2>1. \E i \in DOMAIN list : list[i] = x
    BY <1>1 DEF ToSet
  <2>2. Position(list, x) \in DOMAIN list /\ list[Position(list, x)] = x
    BY <1>1, <2>1 DEF Position
  <2>3. QED
    BY <1>1, <2>2
<1>2. CASE x \notin ToSet(list)
  BY <1>2 DEF Position
<1>3. QED
  BY <1>1, <1>2

LEMMA PositionOf ==
  ASSUME NEW S, NEW list \in Seq(S), Distinct(list), NEW i \in 1..Len(list)
  PROVE  Position(list, list[i]) = i
<1>1. list[i] \in ToSet(list)
  BY KeyAt
<1>2. Position(list, list[i]) \in 1..Len(list) /\ list[Position(list, list[i])] = list[i]
  BY <1>1, PositionIn
<1>3. QED
  BY <1>2 DEF Distinct

\* A new key does not change which of the other keys comes after x.
LEMMA ListPutOrder ==
  ASSUME NEW S, NEW list \in Seq(S), Distinct(list), NEW v \in S, NEW x, NEW u \in ToSet(list),
         v # u, Position(list, x) < Position(list, u)
  PROVE  Position(ListPut(list, v), x) < Position(ListPut(list, v), u)
<1>1. CASE v \in ToSet(list)
  BY <1>1 DEF ListPut
<1>2. CASE v \notin ToSet(list)
  <2> DEFINE new == ListPut(list, v)
  <2>1. new = <<v>> \o list
    BY <1>2 DEF ListPut
  <2>2. /\ new \in Seq(S) /\ Len(new) = Len(list) + 1 /\ new[1] = v
        /\ \A i \in 1..Len(list) : new[i + 1] = list[i]
        /\ ToSet(new) = {v} \cup ToSet(list)
    BY <2>1, ConsKeys
  <2>3. Distinct(new)
    BY ListPutKeys
  <2> HIDE DEF new
  <2>4. ASSUME NEW y \in ToSet(list)
        PROVE  Position(list, y) \in Nat /\ Position(new, y) = Position(list, y) + 1
    <3>1. Position(list, y) \in 1..Len(list) /\ list[Position(list, y)] = y
      BY PositionIn
    <3>2. Position(list, y) + 1 \in 1..Len(new) /\ new[Position(list, y) + 1] = y
      BY <2>2, <3>1
    <3>3. QED
      BY <2>2, <2>3, <3>1, <3>2, PositionOf
  <2>5. CASE x \in ToSet(list)
    BY <2>4, <2>5 DEF new
  <2>6. CASE x = v
    <3>1. 1 \in 1..Len(new) /\ Position(new, new[1]) = 1
      BY <2>2, <2>3, PositionOf
    <3>2. Position(list, u) \in 1..Len(list)
      BY PositionIn
    <3>3. QED
      BY <2>2, <2>4, <2>6, <3>1, <3>2 DEF new
  <2>7. CASE x \notin ToSet(new)
    <3>1. Position(new, x) = 0
      BY <2>2, <2>7, PositionIn
    <3>2. QED
      BY <2>4, <3>1 DEF new
  <2>8. QED
    BY <2>2, <2>5, <2>6, <2>7 DEF new
<1>3. QED
  BY <1>1, <1>2

\* Nor does a deletion.
LEMMA ListDeleteOrder ==
  ASSUME NEW S, NEW list \in Seq(S), Distinct(list), NEW v \in S, NEW x, NEW u \in ToSet(list),
         v # u, Position(list, x) < Position(list, u)
  PROVE  Position(ListDelete(list, v), x) < Position(ListDelete(list, v), u)
<1>1. CASE v \notin ToSet(list)
  BY <1>1, ListDeleteAbsent
<1>2. CASE v \in ToSet(list)
  <2> DEFINE new == ListDelete(list, v)
             k == Position(list, v)
  <2>1. k \in 1..Len(list) /\ list[k] = v
    BY <1>2, PositionIn
  <2> HIDE DEF k
  <2>2. /\ new \in Seq(S) /\ Len(new) = Len(list) - 1
        /\ \A i \in 1..Len(new) : new[i] = IF i < k THEN list[i] ELSE list[i + 1]
    BY <2>1, ListDeleteAt
  <2>3. Distinct(new) /\ ToSet(new) = ToSet(list) \ {v}
    BY ListDeleteKeys
  <2> HIDE DEF new
  <2>4. ASSUME NEW y \in ToSet(list), y # v
        PROVE  /\ Position(list, y) \in Nat /\ Position(list, y) # k
               /\ Position(new, y) = IF Position(list, y) < k THEN Position(list, y)
                                     ELSE Position(list, y) - 1
    <3> DEFINE p == Position(list, y)
    <3>1. p \in 1..Len(list) /\ list[p] = y
      BY PositionIn
    <3> HIDE DEF p
    <3>2. p # k
      BY <2>1, <2>4, <3>1
    <3>3. CASE p < k
      <4>1. p \in 1..Len(new) /\ new[p] = y
        BY <2>1, <2>2, <3>1, <3>3
      <4>2. QED
        BY <2>2, <2>3, <3>1, <3>2, <3>3, <4>1, PositionOf DEF p
    <3>4. CASE p > k
      <4>1. p - 1 \in 1..Len(new) /\ new[p - 1] = y
        BY <2>1, <2>2, <3>1, <3>4
      <4>2. Position(new, y) = p - 1
        BY <2>2, <2>3, <4>1, PositionOf
      <4>3. QED
        BY <2>1, <3>1, <3>4, <4>2 DEF p
    <3>5. QED
      BY <2>1, <3>1, <3>2, <3>3, <3>4
  <2>5. CASE x \in ToSet(list) /\ x # v
    BY <2>1, <2>4, <2>5 DEF new
  <2>6. CASE ~(x \in ToSet(list) /\ x # v)
    <3>1. Position(new, x) = 0
      BY <2>2, <2>3, <2>6, PositionIn
    <3>2. u \in ToSet(new)
      BY <2>3
    <3>3. Position(new, u) \in 1..Len(new)
      BY <2>2, <3>2, PositionIn
    <3>4. QED
      BY <2>2, <3>1, <3>3 DEF new
  <2>7. QED
    BY <2>5, <2>6
<1>3. QED
  BY <1>1, <1>2

\* A page of a list: the keys at the places after [start], at most [limit].
LEMMA IDsAfterPlaces ==
  ASSUME NEW S, NEW list \in Seq(S), NEW start, NEW limit \in Nat
  PROVE  LET s == IDsAfter(list, start, limit)
             p == Position(list, start)
         IN  /\ s \in Seq(S) /\ Len(s) <= limit
             /\ \A i \in 1..Len(s) : p + i \in 1..Len(list) /\ s[i] = list[p + i]
             /\ Len(s) < limit => Len(s) = Len(list) - p
<1> DEFINE p == Position(list, start)
           n == IF p + limit < Len(list) THEN p + limit ELSE Len(list)
           s == SubSeq(list, p + 1, n)
<1>1. p \in 0..Len(list)
  BY PositionIn
<1>2. IDsAfter(list, start, limit) = s
  BY DEF IDsAfter
<1> HIDE DEF p
<1>3. n \in p..Len(list) /\ n <= p + limit /\ (n < p + limit => n = Len(list))
  BY <1>1
<1> HIDE DEF n
<1>4. \A i \in (p + 1)..n : list[i] \in S
  BY <1>1, <1>3
<1>5. /\ s \in Seq(S)
      /\ Len(s) = IF p + 1 <= n THEN n - (p + 1) + 1 ELSE 0
      /\ \A i \in 1..(n - (p + 1) + 1) : s[i] = list[p + 1 + i - 1]
  BY <1>1, <1>3, <1>4, SubSeqProperties
<1> HIDE DEF s
<1>6. Len(s) = n - p /\ \A i \in 1..Len(s) : p + i \in 1..Len(list) /\ s[i] = list[p + i]
  BY <1>1, <1>3, <1>5
<1>7. Len(s) <= limit /\ (Len(s) < limit => Len(s) = Len(list) - p)
  BY <1>1, <1>3, <1>6
<1>8. QED
  BY <1>2, <1>5, <1>6, <1>7 DEF p

\* They are keys of the list other than [start], none twice, and all of them
\* when the list has no [start] and is shorter than the limit.
LEMMA IDsAfterPage ==
  ASSUME NEW S, NEW list \in Seq(S), Distinct(list), NEW start, NEW limit \in Nat
  PROVE  LET s == IDsAfter(list, start, limit)
         IN  /\ s \in Seq(S) /\ Len(s) <= limit
             /\ \A i \in 1..Len(s) : s[i] \in ToSet(list) \ {start}
             /\ \A i, j \in 1..Len(s) : s[i] = s[j] => i = j
             /\ start \notin ToSet(list) /\ Len(s) < limit
                  => \A x \in ToSet(list) : \E i \in 1..Len(s) : s[i] = x
<1> DEFINE p == Position(list, start)
           s == IDsAfter(list, start, limit)
<1>1. /\ s \in Seq(S) /\ Len(s) <= limit
      /\ \A i \in 1..Len(s) : p + i \in 1..Len(list) /\ s[i] = list[p + i]
      /\ Len(s) < limit => Len(s) = Len(list) - p
  BY IDsAfterPlaces
<1>2. /\ p \in 0..Len(list) /\ (start \notin ToSet(list) => p = 0)
      /\ (start \in ToSet(list) => p \in 1..Len(list) /\ list[p] = start)
  BY PositionIn
<1> HIDE DEF s, p
<1>3. \A i, j \in 1..Len(list) : list[i] = list[j] => i = j
  BY DEF Distinct
<1>4. ASSUME NEW i \in 1..Len(s)
      PROVE  s[i] \in ToSet(list) \ {start}
  <2>1. s[i] = list[p + i] /\ p + i \in 1..Len(list)
    BY <1>1
  <2>2. s[i] \in ToSet(list)
    BY <2>1, KeyAt
  <2>3. start \in ToSet(list) => s[i] # start
    BY <1>2, <1>3, <2>1
  <2>4. QED
    BY <2>2, <2>3
<1>5. ASSUME NEW i \in 1..Len(s), NEW j \in 1..Len(s), s[i] = s[j]
      PROVE  i = j
  <2>1. p + i = p + j
    BY <1>1, <1>3, <1>5
  <2>2. QED
    BY <1>2, <2>1
<1>6. ASSUME start \notin ToSet(list), Len(s) < limit, NEW x \in ToSet(list)
      PROVE  \E i \in 1..Len(s) : s[i] = x
  <2>1. PICK i \in 1..Len(list) : list[i] = x
    BY <1>6, KeyAt
  <2>2. QED
    BY <1>1, <1>2, <1>6, <2>1
<1>7. QED
  BY <1>1, <1>4, <1>5, <1>6 DEF s

\* It lacks no key up to its end.
LEMMA IDsAfterReach ==
  ASSUME NEW S, NEW list \in Seq(S), NEW start, NEW limit \in Nat, NEW u \in ToSet(list),
         Position(list, start) < Position(list, u),
         \/ Len(IDsAfter(list, start, limit)) < limit
         \/ \E m \in 1..Len(IDsAfter(list, start, limit)) :
              Position(list, u) <= Position(list, start) + m
  PROVE  LET s == IDsAfter(list, start, limit)
             j == Position(list, u) - Position(list, start)
         IN  j \in 1..Len(s) /\ s[j] = u
<1> DEFINE p == Position(list, start)
           q == Position(list, u)
           s == IDsAfter(list, start, limit)
<1>1. /\ s \in Seq(S) /\ Len(s) <= limit
      /\ \A i \in 1..Len(s) : p + i \in 1..Len(list) /\ s[i] = list[p + i]
      /\ Len(s) < limit => Len(s) = Len(list) - p
  BY IDsAfterPlaces
<1>2. p \in 0..Len(list) /\ q \in 1..Len(list) /\ list[q] = u
  BY PositionIn
<1>3. p < q /\ (Len(s) < limit \/ \E m \in 1..Len(s) : q <= p + m)
  OBVIOUS
<1> HIDE DEF p, q, s
<1>4. q - p \in 1..Len(s)
  BY <1>1, <1>2, <1>3
<1>5. s[q - p] = list[q]
  BY <1>1, <1>2, <1>4
<1>6. QED
  BY <1>2, <1>4, <1>5 DEF p, q, s
=============================================================================
