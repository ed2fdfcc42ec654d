------------------------ MODULE UTXOFetching_proofs ------------------------
(***************************************************************************)
(* Proofs about UTXOFetching, for any UTXOs, addresses, owners and limits, *)
(* and any number of puts and deletes between the pages.                   *)
(***************************************************************************)
EXTENDS UTXOFetching, Collections_proofs

-----------------------------------------------------------------------------
(* What the loops of a page visit.                                         *)

\* The least of a set of addresses.
LEMMA LeastAddr ==
  ASSUME NEW A \in SUBSET Wanted, A # {}
  PROVE  Min(A) \in A /\ \A a \in A : Min(A) <= a
<1>1. A \subseteq Nat
  BY FetchAssumption
<1>2. \E x \in A : \A y \in A : x <= y
  BY <1>1, Least
<1>3. QED
  BY <1>2 DEF Min

LEMMA SeqWider ==
  ASSUME NEW S, NEW T, S \subseteq T, NEW v \in Seq(S)
  PROVE  v \in Seq(T)
<1>1. v \in [1..Len(v) -> T] /\ Len(v) \in Nat
  OBVIOUS
<1>2. QED
  BY <1>1, IsASeq

\* The places of one address.
LEMMA PlacesOf ==
  ASSUME NEW A, NEW a \in A, NEW list \in Seq(UTXO)
  PROVE  LET here == [j \in DOMAIN list |-> [addr |-> a, id |-> list[j]]]
         IN  /\ here \in Seq([addr : A, id : UTXO])
             /\ Len(here) = Len(list)
             /\ \A j \in 1..Len(list) : here[j] = [addr |-> a, id |-> list[j]]
<1> DEFINE here == [j \in DOMAIN list |-> [addr |-> a, id |-> list[j]]]
<1>1. DOMAIN list = 1..Len(list) /\ Len(list) \in Nat /\ \A j \in 1..Len(list) : list[j] \in UTXO
  OBVIOUS
<1>2. here \in [1..Len(list) -> [addr : A, id : UTXO]]
  BY <1>1
<1>3. here \in Seq([addr : A, id : UTXO]) /\ Len(here) = Len(list)
  BY <1>1, <1>2, IsASeq
<1>4. QED
  BY <1>1, <1>3

\* lists says what is found for an address, v is what the loops visit when they
\* search the addresses A: everything, in the order of the addresses and of the
\* lists.
Visiting(v, A, lists) ==
  /\ v \in Seq([addr : A, id : UTXO])
  /\ \A n \in 1..Len(v) : \E m \in 1..Len(lists[v[n].addr]) :
       /\ v[n].id = lists[v[n].addr][m]
       /\ \A a \in A : \A j \in 1..Len(lists[a]) :
            (a < v[n].addr \/ (a = v[n].addr /\ j <= m))
              => \E i \in 1..n : v[i] = [addr |-> a, id |-> lists[a][j]]
  /\ \A a \in A : \A j \in 1..Len(lists[a]) :
       \E i \in 1..Len(v) : v[i] = [addr |-> a, id |-> lists[a][j]]

\* One more address, before all others.
LEMMA VisitingOneMore ==
  ASSUME NEW A \in SUBSET Wanted, NEW b \in A, \A a \in A : b <= a,
         NEW lists \in [Wanted -> Seq(UTXO)], NEW v, Visiting(v, A \ {b}, lists)
  PROVE  Visiting([j \in DOMAIN lists[b] |-> [addr |-> b, id |-> lists[b][j]]] \o v, A, lists)
<1> DEFINE here == [j \in DOMAIN lists[b] |-> [addr |-> b, id |-> lists[b][j]]]
           L == Len(lists[b])
           w == here \o v
           Place == [addr : A, id : UTXO]
           Others == [addr : A \ {b}, id : UTXO]
<1>0. A \subseteq Nat
  BY FetchAssumption
<1>1. L \in Nat /\ DOMAIN lists[b] = 1..L /\ \A j \in 1..L : lists[b][j] \in UTXO
  OBVIOUS
<1>2. /\ here \in Seq(Place) /\ Len(here) = L
      /\ \A j \in 1..L : here[j] = [addr |-> b, id |-> lists[b][j]]
  <2>1. lists[b] \in Seq(UTXO)
    OBVIOUS
  <2>2. QED
    BY <1>1, <2>1, PlacesOf
<1> HIDE DEF here
<1>3. /\ v \in Seq([addr : A \ {b}, id : UTXO])
      /\ \A n \in 1..Len(v) : \E m \in 1..Len(lists[v[n].addr]) :
           /\ v[n].id = lists[v[n].addr][m]
           /\ \A a \in A \ {b} : \A j \in 1..Len(lists[a]) :
                (a < v[n].addr \/ (a = v[n].addr /\ j <= m))
                  => \E i \in 1..n : v[i] = [addr |-> a, id |-> lists[a][j]]
      /\ \A a \in A \ {b} : \A j \in 1..Len(lists[a]) :
           \E i \in 1..Len(v) : v[i] = [addr |-> a, id |-> lists[a][j]]
  BY DEF Visiting
<1>4. v \in Seq(Place) /\ \A n \in 1..Len(v) : v[n].addr \in A \ {b}
  <2>1. Others \subseteq Place /\ \A x \in Others : x.addr \in A \ {b}
    OBVIOUS
  <2>2. v \in Seq(Others)
    BY <1>3
  <2> HIDE DEF Others, Place
  <2>3. v \in Seq(Place)
    BY <2>1, <2>2, SeqWider
  <2>4. \A n \in 1..Len(v) : v[n] \in Others
    BY <2>2
  <2>5. QED
    BY <2>1, <2>3, <2>4
<1>5. /\ w \in Seq(Place) /\ Len(w) = L + Len(v)
      /\ \A i \in 1..L : w[i] = here[i]
      /\ \A i \in 1..Len(v) : w[L + i] = v[i]
  <2>1. /\ w \in Seq(Place) /\ Len(w) = Len(here) + Len(v)
        /\ \A i \in 1..Len(here) + Len(v) :
             w[i] = IF i <= Len(here) THEN here[i] ELSE v[i - Len(here)]
    <3>1. here \in Seq(Place) /\ v \in Seq(Place)
      BY <1>2, <1>4
    <3> HIDE DEF Place
    <3>2. QED
      BY <3>1, ConcatProperties, Zenon
  <2>2. Len(v) \in Nat
    BY <1>4
  <2> HIDE DEF w, L
  <2>3. QED
    BY <1>1, <1>2, <2>1, <2>2
<1> HIDE DEF w, L
<1>6. \A i \in 1..Len(w) : i \in 1..L \/ (i - L \in 1..Len(v) /\ L + (i - L) = i)
  BY <1>1, <1>4, <1>5
<1>7. ASSUME NEW n \in 1..Len(w)
      PROVE  \E m \in 1..Len(lists[w[n].addr]) :
               /\ w[n].id = lists[w[n].addr][m]
               /\ \A a \in A : \A j \in 1..Len(lists[a]) :
                    (a < w[n].addr \/ (a = w[n].addr /\ j <= m))
                      => \E i \in 1..n : w[i] = [addr |-> a, id |-> lists[a][j]]
  <2>1. CASE n \in 1..L
    <3>1. w[n] = [addr |-> b, id |-> lists[b][n]] /\ n \in 1..Len(lists[w[n].addr])
      BY <1>2, <1>5, <2>1 DEF L
    <3>2. w[n].addr = b /\ w[n].id = lists[w[n].addr][n]
      BY <3>1
    <3>3. ASSUME NEW a \in A, NEW j \in 1..Len(lists[a]), a < b \/ (a = b /\ j <= n)
          PROVE  \E i \in 1..n : w[i] = [addr |-> a, id |-> lists[a][j]]
      <4>1. a = b /\ j <= n
        BY <1>0, <3>3
      <4>2. j \in 1..n /\ j \in 1..L
        BY <1>1, <2>1, <4>1
      <4>3. w[j] = [addr |-> a, id |-> lists[a][j]]
        BY <1>2, <1>5, <4>1, <4>2
      <4>4. QED
        BY <4>2, <4>3
    <3>4. QED
      BY <3>1, <3>2, <3>3
  <2>2. CASE n \notin 1..L
    <3> DEFINE k == n - L
    <3>1. k \in 1..Len(v) /\ w[n] = v[k] /\ n = L + k
      BY <1>1, <1>5, <1>6, <2>2
    <3> HIDE DEF k
    <3>2. PICK m \in 1..Len(lists[v[k].addr]) :
           /\ v[k].id = lists[v[k].addr][m]
           /\ \A a \in A \ {b} : \A j \in 1..Len(lists[a]) :
                (a < v[k].addr \/ (a = v[k].addr /\ j <= m))
                  => \E i \in 1..k : v[i] = [addr |-> a, id |-> lists[a][j]]
      BY <1>3, <3>1
    <3>3. ASSUME NEW a \in A, NEW j \in 1..Len(lists[a]),
                 a < v[k].addr \/ (a = v[k].addr /\ j <= m)
          PROVE  \E i \in 1..n : w[i] = [addr |-> a, id |-> lists[a][j]]
      <4>1. CASE a = b
        <5>1. j \in 1..L /\ j \in 1..n
          BY <1>1, <3>1, <4>1 DEF L
        <5>2. w[j] = [addr |-> a, id |-> lists[a][j]]
          BY <1>2, <1>5, <4>1, <5>1
        <5>3. QED
          BY <5>1, <5>2
      <4>2. CASE a # b
        <5>1. PICK i \in 1..k : v[i] = [addr |-> a, id |-> lists[a][j]]
          BY <3>2, <3>3, <4>2
        <5>2. i \in 1..Len(v) /\ L + i \in 1..n
          BY <1>1, <3>1
        <5>3. w[L + i] = v[i]
          BY <1>5, <5>2
        <5>4. QED
          BY <5>1, <5>2, <5>3
      <4>3. QED
        BY <4>1, <4>2
    <3>4. QED
      BY <3>1, <3>2, <3>3
  <2>3. QED
    BY <2>1, <2>2
<1>8. ASSUME NEW a \in A, NEW j \in 1..Len(lists[a])
      PROVE  \E i \in 1..Len(w) : w[i] = [addr |-> a, id |-> lists[a][j]]
  <2>1. CASE a = b
    <3>1. j \in 1..L /\ j \in 1..Len(w)
      BY <1>1, <1>5, <2>1 DEF L
    <3>2. w[j] = [addr |-> a, id |-> lists[a][j]]
      BY <1>2, <1>5, <2>1, <3>1
    <3>3. QED
      BY <3>1, <3>2
  <2>2. CASE a # b
    <3>1. PICK i \in 1..Len(v) : v[i] = [addr |-> a, id |-> lists[a][j]]
      BY <1>3, <2>2
    <3>2. L + i \in 1..Len(w) /\ w[L + i] = v[i]
      BY <1>1, <1>5
    <3>3. QED
      BY <3>1, <3>2
  <2>3. QED
    BY <2>1, <2>2
<1>9. Visiting(w, A, lists)
  BY <1>5, <1>7, <1>8 DEF Visiting
<1>10. QED
  BY <1>9 DEF w, here

\* What is found for each address, and where a page starts.
Found(last, size) == [a \in Wanted |-> Searched(a, last.addr, last.id, size)]
From(last) == {a \in Wanted : a >= last.addr}

\* The recursion of Visits visits that.
LEMMA VisitsVisiting ==
  ASSUME NEW last, NEW size, Found(last, size) \in [Wanted -> Seq(UTXO)]
  PROVE  Visiting(Visits(last.addr, last.id, size), From(last), Found(last, size))
<1> DEFINE lists == Found(last, size)
           Place == [addr : Wanted, id : UTXO]
           ids(a) == Searched(a, last.addr, last.id, size)
           of(a) == [j \in DOMAIN ids(a) |-> [addr |-> a, id |-> ids(a)[j]]]
           here(a) == [j \in DOMAIN lists[a] |-> [addr |-> a, id |-> lists[a][j]]]
           Iter(g) == [A \in SUBSET Wanted |-> IF A = {} THEN <<>> ELSE of(Min(A)) \o g[A \ {Min(A)}]]
           iter == CHOOSE g : g = Iter(g)
           c == [A \in SUBSET Wanted |-> Min(A)]
           step == [A \in SUBSET Wanted |->
                      [v \in Seq(Place) |-> IF A = {} THEN <<>> ELSE of(Min(A)) \o v]]
<1>1. IsFiniteSet(Wanted)
  BY FetchAssumption
<1>2. \A a \in Wanted : lists[a] = ids(a) /\ of(a) = here(a)
  BY DEF Found
<1>3. ASSUME NEW a \in Wanted PROVE of(a) \in Seq(Place)
  <2>1. lists[a] \in Seq(UTXO)
    OBVIOUS
  <2>2. here(a) \in Seq(Place)
    BY <2>1, PlacesOf
  <2>3. QED
    BY <1>2, <2>2
<1>4. Visits(last.addr, last.id, size) = iter[From(last)]
  BY DEF Visits, From
<1> HIDE DEF ids, of, lists
<1>5. \A A \in SUBSET Wanted : A # {} => Min(A) \in A /\ \A a \in A : Min(A) <= a
  BY LeastAddr
<1>6. \A A \in SUBSET Wanted : A # {} => Min(A) \in Wanted /\ of(Min(A)) = here(Min(A))
                                         /\ of(Min(A)) \in Seq(Place)
  BY <1>2, <1>3, <1>5
<1>7. /\ \A A \in SUBSET Wanted : c[A] = Min(A)
      /\ \A A \in SUBSET Wanted : \A v \in Seq(Place) :
           step[A][v] = IF A = {} THEN <<>> ELSE of(Min(A)) \o v
  OBVIOUS
<1> HIDE DEF c, step
<1>8. ASSUME NEW A \in SUBSET Wanted, NEW v \in Seq(Place)
      PROVE  step[A][v] \in Seq(Place)
  <2>1. CASE A = {}
    <3>1. step[A][v] = <<>>
      BY <1>7, <2>1
    <3>2. <<>> \in Seq(Place)
      OBVIOUS
    <3>3. QED
      BY <3>1, <3>2
  <2>2. CASE A # {}
    <3>1. of(Min(A)) \o v \in Seq(Place)
      BY <1>6, <2>2, ConcatProperties
    <3>2. QED
      BY <1>7, <2>2, <3>1
  <2>3. QED
    BY <2>1, <2>2
<1>9. Recursion(Wanted, Seq(Place), c, step)
  <2>1. ASSUME NEW A \in SUBSET Wanted, A # {} PROVE c[A] \in A
    <3>1. c[A] = Min(A)
      BY <1>7
    <3>2. Min(A) \in A
      BY <1>5, <2>1
    <3>3. QED
      BY <3>1, <3>2
  <2>2. \A A \in SUBSET Wanted : \A v \in Seq(Place) : step[A][v] \in Seq(Place)
    BY <1>8
  <2>3. QED
    BY <2>1, <2>2, Zenon DEF Recursion
<1>10. <<>> \in Seq(Place)
  OBVIOUS
<1>11. PICK g \in [SUBSET Wanted -> Seq(Place)] : Solution(g, Wanted, <<>>, c, step)
  BY <1>1, <1>9, <1>10, RecursionOverSets
<1>12. ASSUME NEW A \in SUBSET Wanted
       PROVE  g[A] = IF A = {} THEN <<>> ELSE of(Min(A)) \o g[A \ {Min(A)}]
  <2>1. CASE A = {}
    BY <1>11, <2>1 DEF Solution
  <2>2. CASE A # {}
    <3>1. g[A] = step[A][g[A \ {c[A]}]] /\ g[A \ {c[A]}] \in Seq(Place)
      BY <1>11, <2>2 DEF Solution
    <3>2. QED
      BY <1>7, <2>2, <3>1
  <2>3. QED
    BY <2>1, <2>2
<1>13. g = Iter(g)
  BY <1>12
<1>14. iter = Iter(iter)
  BY <1>13, Zenon
<1> HIDE DEF iter
<1>15. \A A \in SUBSET Wanted : iter[A] = IF A = {} THEN <<>> ELSE of(Min(A)) \o iter[A \ {Min(A)}]
  BY <1>14
<1> DEFINE P == {A \in SUBSET Wanted : Visiting(iter[A], A, lists)}
<1>16. ASSUME NEW A \in SUBSET Wanted, \A B \in SUBSET A : B # A => B \in P
       PROVE  A \in P
  <2>1. CASE A = {}
    <3>1. iter[A] = <<>>
      BY <1>15, <2>1
    <3>2. Visiting(<<>>, {}, lists)
      BY DEF Visiting
    <3>3. QED
      BY <2>1, <3>1, <3>2
  <2>2. CASE A # {}
    <3> DEFINE b == Min(A)
    <3>1. b \in A /\ \A a \in A : b <= a
      BY <1>5, <2>2
    <3>2. iter[A] = here(b) \o iter[A \ {b}]
      BY <1>6, <1>15, <2>2
    <3>3. Visiting(iter[A \ {b}], A \ {b}, lists)
      BY <1>16, <3>1
    <3>4. lists \in [Wanted -> Seq(UTXO)]
      BY DEF lists
    <3> HIDE DEF b
    <3>5. Visiting(here(b) \o iter[A \ {b}], A, lists)
      BY <3>1, <3>3, <3>4, VisitingOneMore
    <3>6. QED
      BY <3>2, <3>5
  <2>3. QED
    BY <2>1, <2>2
<1> HIDE DEF P
<1>17. SUBSET Wanted \subseteq P
  <2>1. \A A \in SUBSET Wanted : (\A B \in SUBSET A : B # A => B \in P) => A \in P
    BY <1>16
  <2>2. QED
    BY <1>1, <2>1, SubsetInduction, SMTT(30)
<1>18. From(last) \in P
  BY <1>17 DEF From
<1>19. QED
  BY <1>4, <1>18 DEF P, lists
-----------------------------------------------------------------------------
(* Where a page ends, and what it has.                                     *)

Visitable == [addr : Wanted, id : UTXO]

LEMMA VisitTyped ==
  ASSUME NEW v \in Seq(Visitable), NEW i \in 1..Len(v)
  PROVE  v[i].addr \in Wanted /\ v[i].id \in UTXO
<1>1. v[i] \in Visitable
  OBVIOUS
<1>2. QED
  BY <1>1 DEF Visitable

\* The set of identifiers seen so far.
LEMMA SeenTyped ==
  ASSUME NEW v \in Seq(Visitable), NEW n \in 0..Len(v)
  PROVE  /\ Seen(v, n) \in SUBSET UTXO
         /\ IsFiniteSet(Seen(v, n)) /\ Cardinality(Seen(v, n)) \in Nat
<1>1. \A i \in 1..n : v[i].id \in UTXO
  BY VisitTyped
<1>2. Seen(v, n) \in SUBSET UTXO
  BY <1>1 DEF Seen
<1>3. QED
  BY <1>2, FS_Subset, FS_CardinalityType, FetchAssumption

LEMMA SeenGrows ==
  ASSUME NEW v \in Seq(Visitable), NEW n \in 1..Len(v)
  PROVE  /\ Seen(v, n) = Seen(v, n - 1) \cup {v[n].id}
         /\ v[n].id \in Seen(v, n - 1) => Cardinality(Seen(v, n)) = Cardinality(Seen(v, n - 1))
         /\ v[n].id \notin Seen(v, n - 1) => Cardinality(Seen(v, n)) = Cardinality(Seen(v, n - 1)) + 1
<1>1. Seen(v, n) = Seen(v, n - 1) \cup {v[n].id}
  BY DEF Seen
<1>2. IsFiniteSet(Seen(v, n - 1))
  BY SeenTyped
<1>3. Cardinality(Seen(v, n)) = Cardinality(Seen(v, n - 1) \cup {v[n].id})
  BY <1>1, Zenon
<1>4. QED
  BY <1>1, <1>2, <1>3, FS_AddElement

LEMMA SeenNothing == ASSUME NEW v PROVE Seen(v, 0) = {} /\ Cardinality(Seen(v, 0)) = 0
<1>1. Seen(v, 0) = {}
  BY DEF Seen
<1>2. Cardinality(Seen(v, 0)) = Cardinality({})
  BY <1>1, Zenon
<1>3. QED
  BY <1>1, <1>2, FS_EmptySet

\* A page has at most the UTXOs the limit allows, and ends before the last visit
\* only when it has that many.
LEMMA LastVisitStops ==
  ASSUME NEW v \in Seq(Visitable), NEW size \in Nat \ {0}
  PROVE  LET n == LastVisit(v, size)
         IN  /\ n \in 0..Len(v)
             /\ Cardinality(Seen(v, n)) <= size
             /\ Cardinality(Seen(v, n)) < size => n = Len(v)
             /\ Cardinality(Seen(v, n)) = size => n > 0
             /\ n > 0 => Cardinality(Seen(v, n - 1)) < size
<1> DEFINE full == {n \in DOMAIN v : Cardinality(Seen(v, n)) = size}
           last == LastVisit(v, size)
           P == {k \in 0..Len(v) : (\A n \in full : k < n) => Cardinality(Seen(v, k)) < size}
<1>1. last = IF full = {} THEN Len(v) ELSE Min(full)
  BY DEF LastVisit
<1>2. DOMAIN v = 1..Len(v) /\ Len(v) \in Nat
  OBVIOUS
<1>3. \A k \in 0..Len(v) : Cardinality(Seen(v, k)) \in Nat
  BY SeenTyped
<1>4. full \subseteq 1..Len(v) /\ \A n \in 1..Len(v) : n \in full <=> Cardinality(Seen(v, n)) = size
  BY <1>2
<1> HIDE DEF full, last
<1>5. 0 \in P
  BY <1>2, SeenNothing
<1>6. ASSUME NEW k \in 1..Len(v), k - 1 \in P
      PROVE  k \in P
  <2> SUFFICES ASSUME \A n \in full : k < n
               PROVE  Cardinality(Seen(v, k)) < size
    OBVIOUS
  <2>1. \A n \in full : k - 1 < n
    BY <1>4
  <2>2. Cardinality(Seen(v, k - 1)) < size
    BY <1>6, <2>1
  <2>3. Cardinality(Seen(v, k)) # size
    BY <1>4
  <2>4. k - 1 \in 0..Len(v)
    OBVIOUS
  <2>5. /\ Cardinality(Seen(v, k - 1)) \in Nat /\ Cardinality(Seen(v, k)) \in Nat
        /\ \/ Cardinality(Seen(v, k)) = Cardinality(Seen(v, k - 1))
           \/ Cardinality(Seen(v, k)) = Cardinality(Seen(v, k - 1)) + 1
    BY <1>3, <2>4, SeenGrows
  <2>6. QED
    BY <2>2, <2>3, <2>5
<1> HIDE DEF P
<1>7. 0..Len(v) \subseteq P
  BY <1>2, <1>5, <1>6, LoopInduction
<1>8. CASE full = {}
  <2>1. last = Len(v) /\ Len(v) \in P
    BY <1>1, <1>2, <1>7, <1>8
  <2>2. Cardinality(Seen(v, Len(v))) < size
    BY <1>8, <2>1 DEF P
  <2>3. ASSUME Len(v) > 0 PROVE Cardinality(Seen(v, Len(v) - 1)) < size
    BY <1>2, <1>7, <1>8, <2>3 DEF P
  <2>4. QED
    BY <1>2, <1>3, <2>1, <2>2, <2>3 DEF last
<1>9. CASE full # {}
  <2>1. full \subseteq Nat
    BY <1>4
  <2>2. \E x \in full : \A y \in full : x <= y
    BY <1>9, <2>1, Least
  <2>3. last \in full /\ \A x \in full : last <= x
    BY <1>1, <1>9, <2>2 DEF Min
  <2>4. last \in 1..Len(v) /\ Cardinality(Seen(v, last)) = size
    BY <1>4, <2>3
  <2>5. last - 1 \in 0..Len(v) /\ \A x \in full : last - 1 < x
    BY <1>2, <1>4, <2>3, <2>4
  <2>6. Cardinality(Seen(v, last - 1)) < size
    BY <1>7, <2>5 DEF P
  <2>7. QED
    BY <1>2, <2>4, <2>6 DEF last
<1>10. QED
  BY <1>8, <1>9

\* The page of the first n visits.
PageOf(p, v, n) ==
  /\ p \in Seq(UTXO)
  /\ Len(p) = Cardinality(Seen(v, n))
  /\ \A i \in 1..Len(p) : p[i] \in Seen(v, n)
  /\ \A x \in Seen(v, n) : \E i \in 1..Len(p) : p[i] = x
  /\ \A i, j \in 1..Len(p) : p[i] = p[j] => i = j

\* It has every identifier seen, once.
LEMMA FirstSeenPage ==
  ASSUME NEW v \in Seq(Visitable), NEW n \in 0..Len(v)
  PROVE  PageOf(FirstSeen(v, n), v, n)
<1> DEFINE Iter(g) == [k \in 0..n |->
                         IF k = 0 THEN <<>>
                         ELSE IF v[k].id \in Seen(v, k - 1) THEN g[k - 1]
                         ELSE Append(g[k - 1], v[k].id)]
           iter == CHOOSE g : g = Iter(g)
           step == [k \in 1..n |-> [p \in Seq(UTXO) |->
                      IF v[k].id \in Seen(v, k - 1) THEN p ELSE Append(p, v[k].id)]]
<1>1. FirstSeen(v, n) = iter[n]
  BY DEF FirstSeen
<1>2. n \in Nat /\ \A k \in 1..n : k \in 1..Len(v) /\ v[k].id \in UTXO
  BY VisitTyped
<1>3. \A k \in 1..n : \A p \in Seq(UTXO) :
        step[k][p] = IF v[k].id \in Seen(v, k - 1) THEN p ELSE Append(p, v[k].id)
  OBVIOUS
<1> HIDE DEF step
<1>4. ASSUME NEW k \in 1..n, NEW p \in Seq(UTXO) PROVE step[k][p] \in Seq(UTXO)
  <2>1. v[k].id \in UTXO /\ Append(p, v[k].id) \in Seq(UTXO)
    BY <1>2
  <2>2. step[k][p] = p \/ step[k][p] = Append(p, v[k].id)
    BY <1>3
  <2>3. QED
    BY <2>1, <2>2
<1>5. <<>> \in Seq(UTXO)
  OBVIOUS
<1>6. PICK g \in [0..n -> Seq(UTXO)] : Loop(g, n, <<>>, step)
  BY <1>2, <1>4, <1>5, LoopRuns
<1>7. g[0] = <<>> /\ \A k \in 1..n : g[k] = step[k][g[k - 1]] /\ k - 1 \in 0..n
  BY <1>2, <1>6 DEF Loop
<1>8. ASSUME NEW k \in 0..n
      PROVE  g[k] = IF k = 0 THEN <<>>
                    ELSE IF v[k].id \in Seen(v, k - 1) THEN g[k - 1]
                    ELSE Append(g[k - 1], v[k].id)
  <2>1. CASE k = 0
    BY <1>7, <2>1
  <2>2. CASE k # 0
    <3>1. k \in 1..n /\ g[k - 1] \in Seq(UTXO)
      BY <1>2, <2>2
    <3>2. QED
      BY <1>3, <1>7, <2>2, <3>1
  <2>3. QED
    BY <2>1, <2>2
<1>9. g = Iter(g)
  BY <1>8
<1>10. iter = Iter(iter)
  BY <1>9, Zenon
<1> HIDE DEF iter
<1>11. \A k \in 0..n : iter[k] = IF k = 0 THEN <<>>
                                 ELSE IF v[k].id \in Seen(v, k - 1) THEN iter[k - 1]
                                 ELSE Append(iter[k - 1], v[k].id)
  BY <1>10
<1> DEFINE P == {k \in 0..n : PageOf(iter[k], v, k)}
<1>12. 0 \in P
  <2>1. iter[0] = <<>> /\ 0 \in 0..n
    BY <1>2, <1>11
  <2>2. PageOf(<<>>, v, 0)
    BY SeenNothing DEF PageOf
  <2>3. QED
    BY <2>1, <2>2
<1>13. ASSUME NEW k \in 1..n, k - 1 \in P
       PROVE  k \in P
  <2> DEFINE p == iter[k - 1]
             x == v[k].id
  <2>1. PageOf(p, v, k - 1) /\ k \in 0..n /\ k \in 1..Len(v) /\ x \in UTXO
    BY <1>2, <1>13
  <2>2. iter[k] = IF x \in Seen(v, k - 1) THEN p ELSE Append(p, x)
    BY <1>11, <2>1
  <2> HIDE DEF p, x
  <2>3. CASE x \in Seen(v, k - 1)
    <3>0. Seen(v, k) = Seen(v, k - 1) \cup {x}
      BY <2>1, SeenGrows DEF x
    <3>1. Seen(v, k) = Seen(v, k - 1)
      BY <2>3, <3>0
    <3>2. iter[k] = p
      BY <2>2, <2>3
    <3>3. Cardinality(Seen(v, k)) = Cardinality(Seen(v, k - 1))
      BY <3>1, Zenon
    <3>4. PageOf(p, v, k)
      BY <2>1, <3>1, <3>3 DEF PageOf
    <3>5. QED
      BY <2>1, <3>2, <3>4
  <2>4. CASE x \notin Seen(v, k - 1)
    <3>1. /\ Seen(v, k) = Seen(v, k - 1) \cup {x}
          /\ Cardinality(Seen(v, k)) = Cardinality(Seen(v, k - 1)) + 1
      BY <2>1, <2>4, SeenGrows DEF x
    <3>2. /\ p \in Seq(UTXO) /\ Len(p) = Cardinality(Seen(v, k - 1))
          /\ \A i \in 1..Len(p) : p[i] \in Seen(v, k - 1)
          /\ \A y \in Seen(v, k - 1) : \E i \in 1..Len(p) : p[i] = y
          /\ \A i, j \in 1..Len(p) : p[i] = p[j] => i = j
      BY <2>1 DEF PageOf
    <3> DEFINE q == Append(p, x)
    <3>3. /\ q \in Seq(UTXO) /\ Len(q) = Len(p) + 1 /\ q[Len(p) + 1] = x
          /\ Len(p) \in Nat /\ \A i \in 1..Len(p) : q[i] = p[i]
      BY <2>1, <3>2
    <3> HIDE DEF q
    <3>4. \A i \in 1..Len(q) : i = Len(p) + 1 \/ i \in 1..Len(p)
      BY <3>3
    <3>5. Len(q) = Cardinality(Seen(v, k))
      BY <3>1, <3>2, <3>3
    <3>6. \A i \in 1..Len(q) : q[i] \in Seen(v, k)
      BY <3>1, <3>2, <3>3, <3>4
    <3>7. ASSUME NEW y \in Seen(v, k) PROVE \E i \in 1..Len(q) : q[i] = y
      <4>1. CASE y = x
        <5>1. Len(p) + 1 \in 1..Len(q)
          BY <3>3
        <5>2. QED
          BY <3>3, <4>1, <5>1
      <4>2. CASE y # x
        <5>1. y \in Seen(v, k - 1)
          BY <3>1, <4>2
        <5>2. PICK i \in 1..Len(p) : p[i] = y
          BY <3>2, <5>1
        <5>3. i \in 1..Len(q) /\ q[i] = y
          BY <3>3, <5>2
        <5>4. QED
          BY <5>3
      <4>3. QED
        BY <4>1, <4>2
    <3>8. \A i, j \in 1..Len(q) : q[i] = q[j] => i = j
      BY <2>4, <3>2, <3>3, <3>4
    <3>9. PageOf(q, v, k)
      BY <3>3, <3>5, <3>6, <3>7, <3>8 DEF PageOf
    <3>10. QED
      BY <2>1, <2>2, <2>4, <3>9 DEF q
  <2>5. QED
    BY <2>3, <2>4
<1> HIDE DEF P
<1>14. 0..n \subseteq P
  BY <1>2, <1>12, <1>13, LoopInduction
<1>15. n \in P
  BY <1>2, <1>14
<1>16. QED
  BY <1>1, <1>15 DEF P
-----------------------------------------------------------------------------
(* What a page finds in the store.                                         *)

\* The lists name what is stored for an address, each UTXO once.
IndexExact ==
  \A a \in Addr : /\ Distinct(index[a])
                  /\ ToSet(index[a]) = {u \in stored : a \in Owners[u]}

StoreOK ==
  /\ stored \in SUBSET UTXO
  /\ index \in [Addr -> Seq(UTXO)]
  /\ IndexExact

Cursors == [addr : Addr \cup {ShortEmpty}, id : UTXO \cup {Empty}]

\* The UTXO u of the address a is still to come after the cursor.
After(last, a, u) ==
  \/ a > last.addr
  \/ a = last.addr /\ Position(index[a], last.id) < Position(index[a], u)

\* Where the search for an address starts.
Start(a, last) == IF a = last.addr THEN last.id ELSE Empty

\* What is found for an address are the places of its list after the start.
LEMMA FoundPlaces ==
  ASSUME StoreOK, NEW last, NEW size \in Nat, NEW a \in Wanted
  PROVE  /\ a \in Addr /\ index[a] \in Seq(UTXO) /\ Distinct(index[a])
         /\ ToSet(index[a]) = {u \in stored : a \in Owners[u]}
         /\ Found(last, size)[a] = IDsAfter(index[a], Start(a, last), size)
         /\ Found(last, size)[a] \in Seq(UTXO) /\ Len(Found(last, size)[a]) <= size
         /\ \A i \in 1..Len(Found(last, size)[a]) :
              /\ Position(index[a], Start(a, last)) + i \in 1..Len(index[a])
              /\ Found(last, size)[a][i] = index[a][Position(index[a], Start(a, last)) + i]
<1>1. a \in Addr /\ index[a] \in Seq(UTXO)
  BY FetchAssumption DEF StoreOK
<1>2. Distinct(index[a]) /\ ToSet(index[a]) = {u \in stored : a \in Owners[u]}
  BY <1>1 DEF StoreOK, IndexExact
<1>3. Found(last, size)[a] = IDsAfter(index[a], Start(a, last), size)
  BY DEF Found, Searched, Start
<1>4. QED
  BY <1>1, <1>2, <1>3, IDsAfterPlaces

LEMMA VisitsKnown ==
  ASSUME StoreOK, NEW last, NEW size \in Nat
  PROVE  /\ Visits(last.addr, last.id, size) \in Seq(Visitable)
         /\ Visiting(Visits(last.addr, last.id, size), From(last), Found(last, size))
<1> DEFINE v == Visits(last.addr, last.id, size)
           Here == [addr : From(last), id : UTXO]
<1>1. \A a \in Wanted : Found(last, size)[a] \in Seq(UTXO)
  BY FoundPlaces
<1>2. Found(last, size) \in [Wanted -> Seq(UTXO)]
  BY <1>1 DEF Found
<1>3. Visiting(v, From(last), Found(last, size))
  BY <1>2, VisitsVisiting
<1> HIDE DEF v
<1>4. v \in Seq(Here)
  BY <1>3 DEF Visiting
<1>5. Here \subseteq Visitable
  BY DEF From, Visitable
<1> HIDE DEF Here
<1>6. v \in Seq(Visitable)
  BY <1>4, <1>5, SeqWider
<1>7. QED
  BY <1>3, <1>6 DEF v

\* A visited identifier is the one at its place in the list of its address, and
\* what has a place before it was visited before it.
Placed(v, n, last, size) ==
  LET b == v[n].addr
      p == Position(index[b], Start(b, last))
  IN  /\ b \in From(last)
      /\ \E m \in 1..Len(Found(last, size)[b]) :
           /\ p + m \in 1..Len(index[b]) /\ v[n].id = index[b][p + m]
           /\ \A a \in From(last) : \A j \in 1..Len(Found(last, size)[a]) :
                (a < b \/ (a = b /\ j <= m))
                  => \E i \in 1..n : v[i] = [addr |-> a, id |-> Found(last, size)[a][j]]

LEMMA VisitedPlace ==
  ASSUME StoreOK, NEW last, NEW size \in Nat,
         NEW n \in 1..Len(Visits(last.addr, last.id, size))
  PROVE  Placed(Visits(last.addr, last.id, size), n, last, size)
<1> DEFINE v == Visits(last.addr, last.id, size)
           b == v[n].addr
           lists == Found(last, size)
           Here == [addr : From(last), id : UTXO]
<1>1. Visiting(v, From(last), lists)
  BY VisitsKnown
<1>2. n \in 1..Len(v)
  OBVIOUS
<1> HIDE DEF v, lists
<1>3. v \in Seq(Here)
  BY <1>1 DEF Visiting
<1>4. v[n] \in Here
  <2> HIDE DEF Here
  <2>1. QED
    BY <1>2, <1>3
<1>5. b \in From(last) /\ b \in Wanted
  BY <1>4 DEF From
<1>6. PICK m \in 1..Len(lists[b]) :
       /\ v[n].id = lists[b][m]
       /\ \A a \in From(last) : \A j \in 1..Len(lists[a]) :
            (a < b \/ (a = b /\ j <= m)) => \E i \in 1..n : v[i] = [addr |-> a, id |-> lists[a][j]]
  BY <1>1, <1>2 DEF Visiting
<1> DEFINE p == Position(index[b], Start(b, last))
<1>7. p + m \in 1..Len(index[b]) /\ lists[b][m] = index[b][p + m]
  BY <1>5, FoundPlaces DEF lists
<1>8. QED
  BY <1>5, <1>6, <1>7 DEF Placed, v, lists

\* What a page sees is stored, for a wanted address.
LEMMA SeenSound ==
  ASSUME StoreOK, NEW last, NEW size \in Nat,
         NEW n \in 0..Len(Visits(last.addr, last.id, size)),
         NEW x \in Seen(Visits(last.addr, last.id, size), n)
  PROVE  x \in stored /\ Wants(x)
<1> DEFINE v == Visits(last.addr, last.id, size)
<1>1. PICK i \in 1..n : x = v[i].id
  BY DEF Seen
<1>2. v \in Seq(Visitable)
  BY VisitsKnown
<1>3. i \in 1..Len(v)
  BY <1>2
<1> DEFINE b == v[i].addr
           p == Position(index[b], Start(b, last))
<1>4. Placed(v, i, last, size)
  BY <1>3, VisitedPlace
<1> HIDE DEF v
<1>5. b \in From(last) /\ \E m \in 1..Len(Found(last, size)[b]) :
                            p + m \in 1..Len(index[b]) /\ v[i].id = index[b][p + m]
  BY <1>4 DEF Placed
<1>6. b \in Wanted
  BY <1>5 DEF From
<1>7. index[b] \in Seq(UTXO) /\ ToSet(index[b]) = {u \in stored : b \in Owners[u]}
  BY <1>6, FoundPlaces
<1>8. x \in ToSet(index[b])
  BY <1>1, <1>5, <1>7, KeyAt
<1>9. QED
  BY <1>6, <1>7, <1>8 DEF Wants
\* The identifiers of one address that are visited count towards the limit.
LEMMA ListCounts ==
  ASSUME StoreOK, NEW last \in Cursors, NEW size \in Nat, NEW a \in Wanted,
         NEW v \in Seq(Visitable), NEW k \in 0..Len(v),
         \A j \in 1..Len(Found(last, size)[a]) :
           \E i \in 1..k : v[i] = [addr |-> a, id |-> Found(last, size)[a][j]]
  PROVE  Len(Found(last, size)[a]) <= Cardinality(Seen(v, k))
<1> DEFINE s == Found(last, size)[a]
           p == Position(index[a], Start(a, last))
<1>1. /\ s \in Seq(UTXO) /\ index[a] \in Seq(UTXO) /\ Distinct(index[a])
      /\ \A i \in 1..Len(s) : p + i \in 1..Len(index[a]) /\ s[i] = index[a][p + i]
  BY FoundPlaces
<1>2. p \in Nat
  BY <1>1, PositionIn
<1>3. \A j \in 1..Len(s) : \E i \in 1..k : v[i] = [addr |-> a, id |-> s[j]]
  OBVIOUS
<1> HIDE DEF s, p
<1>4. ASSUME NEW j \in 1..Len(s) PROVE s[j] \in Seen(v, k)
  <2>1. PICK i \in 1..k : v[i] = [addr |-> a, id |-> s[j]]
    BY <1>3
  <2>2. v[i].id = s[j]
    BY <2>1
  <2>3. QED
    BY <2>2 DEF Seen
<1>5. \A i, j \in 1..Len(s) : s[i] = s[j] => i = j
  <2> SUFFICES ASSUME NEW i \in 1..Len(s), NEW j \in 1..Len(s), s[i] = s[j]
               PROVE  i = j
    OBVIOUS
  <2>1. p + i \in DOMAIN index[a] /\ p + j \in DOMAIN index[a] /\ index[a][p + i] = index[a][p + j]
    BY <1>1
  <2>2. p + i = p + j
    BY <1>1, <2>1 DEF Distinct
  <2>3. QED
    BY <1>2, <2>2
<1>6. IsFiniteSet(Seen(v, k)) /\ Len(s) \in Nat
  BY <1>1, SeenTyped
<1>7. Len(s) <= Cardinality(Seen(v, k))
  BY <1>4, <1>5, <1>6, NoMoreThanSet
<1>8. QED
  BY <1>7 DEF s

\* A stored UTXO that is still to come after the cursor is in the page, or still
\* to come after the cursor of the next one.
LEMMA PageReach ==
  ASSUME StoreOK, NEW last \in Cursors, NEW size \in Nat \ {0},
         NEW u \in stored, NEW a \in Owners[u] \cap Wanted, After(last, a, u)
  PROVE  LET v == Visits(last.addr, last.id, size)
             n == LastVisit(v, size)
         IN  u \in Seen(v, n) \/ (Cardinality(Seen(v, n)) = size /\ After(v[n], a, u))
<1> DEFINE v == Visits(last.addr, last.id, size)
           n == LastVisit(v, size)
           lists == Found(last, size)
           s == lists[a]
           p == Position(index[a], Start(a, last))
           q == Position(index[a], u)
<1>1. v \in Seq(Visitable) /\ Visiting(v, From(last), lists)
  BY VisitsKnown
<1>2. /\ n \in 0..Len(v) /\ Cardinality(Seen(v, n)) <= size
      /\ Cardinality(Seen(v, n)) < size => n = Len(v)
      /\ Cardinality(Seen(v, n)) = size => n > 0
      /\ n > 0 => Cardinality(Seen(v, n - 1)) < size
  BY <1>1, LastVisitStops
<1>3. /\ a \in Addr /\ index[a] \in Seq(UTXO) /\ Distinct(index[a])
      /\ ToSet(index[a]) = {x \in stored : a \in Owners[x]}
      /\ s = IDsAfter(index[a], Start(a, last), size)
      /\ s \in Seq(UTXO) /\ Len(s) <= size
  BY FoundPlaces
<1>4. /\ a \in Wanted /\ a \in Nat /\ last.addr \in Nat /\ last.id \in UTXO \cup {Empty}
      /\ Cardinality(Seen(v, n)) \in Nat
  <2>1. a \in Wanted /\ a \in Nat
    BY FetchAssumption
  <2>2. last.addr \in Nat /\ last.id \in UTXO \cup {Empty}
    <3>1. last.addr \in Addr \cup {ShortEmpty} /\ last.id \in UTXO \cup {Empty}
      BY DEF Cursors
    <3>2. Addr \subseteq Nat /\ ShortEmpty \in Nat
      BY FetchAssumption DEF ShortEmpty
    <3>3. QED
      BY <3>1, <3>2
  <2>3. Cardinality(Seen(v, n)) \in Nat
    BY <1>1, <1>2, SeenTyped
  <2>4. QED
    BY <2>1, <2>2, <2>3
<1>5. u \in ToSet(index[a]) /\ q \in 1..Len(index[a]) /\ index[a][q] = u
  BY <1>3, PositionIn
<1>6. a \in From(last)
  BY <1>4 DEF After, From
<1>7. p \in Nat /\ p < q
  <2>1. CASE a = last.addr
    BY <1>3, <1>4, <2>1, PositionIn DEF After, Start
  <2>2. CASE a # last.addr
    <3>1. Empty \notin ToSet(index[a])
      BY <1>3, FetchAssumption DEF StoreOK
    <3>2. p = 0
      BY <1>3, <2>2, <3>1, PositionIn DEF Start
    <3>3. QED
      BY <1>5, <3>2
  <2>3. QED
    BY <2>1, <2>2
<1>8. \A j \in 1..Len(s) : \E i \in 1..Len(v) : v[i] = [addr |-> a, id |-> s[j]]
  BY <1>1, <1>6 DEF Visiting
<1>9. ASSUME NEW j \in 1..Len(s), s[j] = u, NEW i \in 1..n, v[i] = [addr |-> a, id |-> s[j]]
      PROVE  u \in Seen(v, n)
  BY <1>9 DEF Seen
<1>10. ASSUME \/ Len(s) < size
              \/ \E m \in 1..Len(s) : q <= p + m
       PROVE  q - p \in 1..Len(s) /\ s[q - p] = u
  BY <1>3, <1>5, <1>7, <1>10, IDsAfterReach
<1>11. CASE Cardinality(Seen(v, n)) < size
  <2>1. n = Len(v)
    BY <1>2, <1>11
  <2>2. Len(s) < size
    <3>1. Len(s) <= Cardinality(Seen(v, n))
      BY <1>1, <1>2, <1>4, <1>8, <2>1, ListCounts
    <3>2. QED
      BY <1>3, <1>4, <1>11, <3>1
  <2>3. QED
    BY <1>8, <1>9, <1>10, <2>1, <2>2
<1>12. CASE Cardinality(Seen(v, n)) = size
  <2> SUFFICES ASSUME ~After(v[n], a, u)
               PROVE  u \in Seen(v, n)
    BY <1>12
  <2>1. n \in 1..Len(v) /\ n - 1 \in 0..Len(v)
    BY <1>2, <1>12
  <2>2. Placed(v, n, last, size)
    BY <2>1, VisitedPlace
  <2> DEFINE b == v[n].addr
             pb == Position(index[b], Start(b, last))
  <2>3. PICK m \in 1..Len(lists[b]) :
          /\ pb + m \in 1..Len(index[b]) /\ v[n].id = index[b][pb + m]
          /\ \A c \in From(last) : \A j \in 1..Len(lists[c]) :
               (c < b \/ (c = b /\ j <= m)) => \E i \in 1..n : v[i] = [addr |-> c, id |-> lists[c][j]]
    BY <2>2 DEF Placed
  <2>4. b \in From(last) /\ b \in Wanted /\ b \in Nat
    BY <2>2, FetchAssumption DEF Placed, From
  <2> HIDE DEF v, n
  <2>5. CASE a = b
    <3>1. Position(index[a], v[n].id) = p + m
      <4>1. pb = p /\ p + m \in 1..Len(index[a]) /\ v[n].id = index[a][p + m]
        BY <2>3, <2>5
      <4>2. QED
        BY <1>3, <4>1, PositionOf
    <3>2. m \in 1..Len(s)
      BY <2>5
    <3>3. q <= p + m
      BY <1>5, <1>7, <2>5, <3>1, <3>2 DEF After
    <3>4. q - p \in 1..Len(s) /\ s[q - p] = u /\ q - p <= m
      BY <1>5, <1>7, <1>10, <3>2, <3>3
    <3>5. PICK i \in 1..n : v[i] = [addr |-> a, id |-> s[q - p]]
      BY <1>6, <2>3, <2>5, <3>4
    <3>6. QED
      BY <1>9, <3>4, <3>5
  <2>6. CASE a # b
    <3>1. a < b
      BY <1>4, <2>4, <2>6 DEF After
    <3>2. \A j \in 1..Len(s) : \E i \in 1..n : v[i] = [addr |-> a, id |-> s[j]]
      BY <1>6, <2>3, <3>1
    <3>3. \A j \in 1..Len(s) : \E i \in 1..(n - 1) : v[i] = [addr |-> a, id |-> s[j]]
      <4> SUFFICES ASSUME NEW j \in 1..Len(s)
                   PROVE  \E i \in 1..(n - 1) : v[i] = [addr |-> a, id |-> s[j]]
        OBVIOUS
      <4>1. PICK i \in 1..n : v[i] = [addr |-> a, id |-> s[j]]
        BY <3>2
      <4>2. v[i].addr = a
        BY <4>1
      <4>3. i \in 1..(n - 1)
        BY <2>1, <2>6, <4>2
      <4>4. QED
        BY <4>1, <4>3
    <3>4. Len(s) <= Cardinality(Seen(v, n - 1))
      BY <1>1, <1>4, <2>1, <3>3, ListCounts
    <3>5. Cardinality(Seen(v, n - 1)) < size /\ Cardinality(Seen(v, n - 1)) \in Nat
      BY <1>1, <1>2, <2>1, SeenTyped
    <3>6. Len(s) < size
      BY <1>3, <3>4, <3>5
    <3>7. q - p \in 1..Len(s) /\ s[q - p] = u
      BY <1>10, <3>6
    <3>8. PICK i \in 1..n : v[i] = [addr |-> a, id |-> s[q - p]]
      BY <3>2, <3>7
    <3>9. QED
      BY <1>9, <3>7, <3>8
  <2>7. QED
    BY <2>5, <2>6
<1>13. QED
  BY <1>2, <1>4, <1>11, <1>12
-----------------------------------------------------------------------------
(* The balance.                                                            *)

\* The Amounters among the first k UTXOs of a page, and their amounts together.
Counted(p, k) == {u \in {p[i] : i \in 1..k} : Amount[u] # NoAmount}
Due(p, k) == SumFunctionOnSet(Amount, Counted(p, k))

LEMMA AmountTyped ==
  ASSUME NEW u \in UTXO
  PROVE  Amount[u] \in Nat \cup {NoAmount}
<1>1. Amount[u] \in 0..MaxAmount \cup {NoAmount}
  BY FetchAssumption
<1>2. QED
  BY <1>1

\* What GetBalance can report of a sum.
Reported(sum) == IF sum <= MaxAmount THEN sum ELSE NoAmount

LEMMA CountedTyped ==
  ASSUME NEW p \in Seq(UTXO), NEW k \in 0..Len(p)
  PROVE  /\ Counted(p, k) \in SUBSET UTXO /\ IsFiniteSet(Counted(p, k))
         /\ \A u \in Counted(p, k) : Amount[u] \in Nat
         /\ Due(p, k) \in Nat
<1>1. Counted(p, k) \in SUBSET UTXO
  BY DEF Counted
<1>2. \A u \in Counted(p, k) : Amount[u] \in Nat
  <2> SUFFICES ASSUME NEW u \in Counted(p, k) PROVE Amount[u] \in Nat
    OBVIOUS
  <2>1. u \in UTXO /\ Amount[u] # NoAmount
    BY <1>1 DEF Counted
  <2>2. QED
    BY <2>1, AmountTyped
<1>3. IsFiniteSet(Counted(p, k))
  BY <1>1, FetchAssumption, FS_Subset
<1>4. QED
  BY <1>1, <1>2, <1>3, SumFirst DEF Due

LEMMA DueGrows ==
  ASSUME NEW p \in Seq(UTXO), \A i, j \in 1..Len(p) : p[i] = p[j] => i = j,
         NEW k \in 1..Len(p)
  PROVE  Due(p, k) = IF Amount[p[k]] = NoAmount THEN Due(p, k - 1)
                     ELSE Due(p, k - 1) + Amount[p[k]]
<1>1. p[k] \notin Counted(p, k - 1)
  BY DEF Counted
<1>2. CASE Amount[p[k]] = NoAmount
  <2>1. Counted(p, k) = Counted(p, k - 1)
    BY <1>2 DEF Counted
  <2>2. Due(p, k) = Due(p, k - 1)
    BY <2>1, Zenon DEF Due
  <2>3. QED
    BY <1>2, <2>2
<1>3. CASE Amount[p[k]] # NoAmount
  <2> DEFINE S == Counted(p, k - 1)
             x == p[k]
  <2>1. Counted(p, k) = S \cup {x}
    BY <1>3 DEF Counted
  <2>2. IsFiniteSet(S) /\ \A y \in S : Amount[y] \in Nat
    BY CountedTyped
  <2>3. Amount[x] \in Nat
    <3>1. x \in UTXO
      OBVIOUS
    <3>2. QED
      BY <1>3, <3>1, AmountTyped
  <2> HIDE DEF S, x
  <2>4. x \notin S
    BY <1>1 DEF S, x
  <2>5. SumFunctionOnSet(Amount, S \cup {x}) = SumFunctionOnSet(Amount, S) + Amount[x]
    BY <2>2, <2>3, <2>4, SumAdds
  <2>6. Due(p, k) = SumFunctionOnSet(Amount, S \cup {x})
    BY <2>1, Zenon DEF Due
  <2>7. QED
    BY <1>3, <2>5, <2>6 DEF Due, S, x
<1>4. QED
  BY <1>2, <1>3

\* The loop of GetBalance reports the sum, or that it does not fit a word.
LEMMA TotalOfPage ==
  ASSUME NEW p \in Seq(UTXO), \A i, j \in 1..Len(p) : p[i] = p[j] => i = j
  PROVE  TotalOf(p) = Reported(Due(p, Len(p)))
<1> DEFINE n == Len(p)
           V == Nat \cup {NoAmount}
           Iter(g) == [k \in 0..n |->
                         IF k = 0 THEN 0
                         ELSE IF Amount[p[k]] = NoAmount THEN g[k - 1]
                         ELSE Add(g[k - 1], Amount[p[k]])]
           iter == CHOOSE g : g = Iter(g)
           step == [k \in 1..n |-> [x \in V |->
                      IF Amount[p[k]] = NoAmount THEN x ELSE Add(x, Amount[p[k]])]]
<1>1. TotalOf(p) = iter[n]
  BY DEF TotalOf
<1>2. n \in Nat /\ \A k \in 1..n : p[k] \in UTXO
  OBVIOUS
<1>3. \A k \in 1..n : Amount[p[k]] \in Nat \cup {NoAmount}
  BY <1>2, AmountTyped
<1>4. \A k \in 1..n : \A x \in V :
        step[k][x] = IF Amount[p[k]] = NoAmount THEN x ELSE Add(x, Amount[p[k]])
  OBVIOUS
<1> HIDE DEF step, n
<1>5. \A k \in 1..n : \A x \in V : step[k][x] \in V
  BY <1>3, <1>4 DEF Add, NoAmount
<1>6. PICK g \in [0..n -> V] : Loop(g, n, 0, step)
  BY <1>2, <1>5, LoopRuns
<1>7. ASSUME NEW k \in 0..n
      PROVE  g[k] = IF k = 0 THEN 0
                    ELSE IF Amount[p[k]] = NoAmount THEN g[k - 1]
                    ELSE Add(g[k - 1], Amount[p[k]])
  <2>1. CASE k = 0
    BY <1>6, <2>1 DEF Loop
  <2>2. CASE k # 0
    <3>1. k \in 1..n /\ g[k - 1] \in V
      BY <1>2, <2>2
    <3>2. g[k] = step[k][g[k - 1]]
      BY <1>6, <3>1 DEF Loop
    <3>3. QED
      BY <1>4, <2>2, <3>1, <3>2
  <2>3. QED
    BY <2>1, <2>2
<1>8. g = Iter(g)
  BY <1>7
<1>9. iter = Iter(iter)
  BY <1>8, Zenon
<1> HIDE DEF iter
<1>10. \A k \in 0..n : iter[k] = IF k = 0 THEN 0
                                 ELSE IF Amount[p[k]] = NoAmount THEN iter[k - 1]
                                 ELSE Add(iter[k - 1], Amount[p[k]])
  BY <1>9
<1> DEFINE P == {k \in 0..n : iter[k] = Reported(Due(p, k))}
<1>11. 0 \in P
  <2>1. Counted(p, 0) = {}
    BY DEF Counted
  <2>2. Due(p, 0) = SumFunctionOnSet(Amount, {})
    BY <2>1, Zenon DEF Due
  <2>3. SumFunctionOnSet(Amount, {}) = 0
    BY FS_EmptySet, SumFirst
  <2>4. Reported(Due(p, 0)) = 0
    BY <2>2, <2>3, FetchAssumption DEF Reported
  <2>5. QED
    BY <1>2, <1>10, <2>4
<1>12. ASSUME NEW k \in 1..n, k - 1 \in P
       PROVE  k \in P
  <2>1. iter[k - 1] = Reported(Due(p, k - 1)) /\ k \in 0..n /\ k \in 1..Len(p)
    BY <1>2, <1>12 DEF n
  <2>2. iter[k] = IF Amount[p[k]] = NoAmount THEN iter[k - 1] ELSE Add(iter[k - 1], Amount[p[k]])
    BY <1>10, <2>1
  <2>3. Due(p, k) = IF Amount[p[k]] = NoAmount THEN Due(p, k - 1) ELSE Due(p, k - 1) + Amount[p[k]]
    BY <2>1, DueGrows
  <2>4. Due(p, k - 1) \in Nat /\ Amount[p[k]] \in Nat \cup {NoAmount} /\ MaxAmount \in Nat
    BY <1>3, <2>1, CountedTyped, FetchAssumption
  <2>5. iter[k] = Reported(Due(p, k))
    <3>1. CASE Amount[p[k]] = NoAmount
      BY <2>1, <2>2, <2>3, <3>1
    <3>2. CASE Amount[p[k]] # NoAmount
      <4> DEFINE d == Due(p, k - 1)
                 m == Amount[p[k]]
      <4>1. d \in Nat /\ m \in Nat
        BY <2>4, <3>2
      <4>2. iter[k] = Add(Reported(d), m) /\ Due(p, k) = d + m
        BY <2>1, <2>2, <2>3, <3>2
      <4> HIDE DEF d, m
      <4>3. Add(Reported(d), m) = Reported(d + m)
        BY <2>4, <4>1 DEF Add, Reported, NoAmount
      <4>4. QED
        BY <4>2, <4>3
    <3>3. QED
      BY <3>1, <3>2
  <2>6. QED
    BY <2>1, <2>5
<1> HIDE DEF P
<1>13. 0..n \subseteq P
  BY <1>2, <1>11, <1>12, LoopInduction
<1>14. n \in P
  BY <1>2, <1>13
<1>15. QED
  BY <1>1, <1>14 DEF P, n

\* GetAllUTXOs returns what is stored for the wanted addresses, each UTXO once.
LEMMA AllUTXOs ==
  ASSUME StoreOK
  PROVE  /\ GetAllUTXOs # Failed
         /\ GetAllUTXOs \in Seq(UTXO)
         /\ {GetAllUTXOs[i] : i \in 1..Len(GetAllUTXOs)} = {u \in stored : Wants(u)}
         /\ \A i, j \in 1..Len(GetAllUTXOs) : GetAllUTXOs[i] = GetAllUTXOs[j] => i = j
<1> DEFINE last == [addr |-> ShortEmpty, id |-> Empty]
           v == Visits(last.addr, last.id, MaxInt)
           n == LastVisit(v, MaxInt)
           all == FirstSeen(v, n)
<1>1. last \in Cursors /\ last.addr = ShortEmpty /\ last.id = Empty
  BY DEF Cursors
<1>2. MaxInt \in Nat \ {0} /\ Cardinality(UTXO) \in Nat /\ MaxInt = Cardinality(UTXO) + 1
  BY FetchAssumption, FS_CardinalityType DEF MaxInt
<1>3. GetAllUTXOs = IF \A i \in DOMAIN all : all[i] \in stored THEN all ELSE Failed
  BY <1>1 DEF GetAllUTXOs
<1> HIDE DEF last
<1>4. v \in Seq(Visitable)
  BY <1>2, VisitsKnown
<1>5. n \in 0..Len(v)
  BY <1>2, <1>4, LastVisitStops
<1>6. ASSUME NEW x \in Seen(v, n) PROVE x \in stored /\ Wants(x)
  BY <1>2, <1>5, SeenSound
<1>7. Cardinality(Seen(v, n)) # MaxInt
  <2>1. Seen(v, n) \in SUBSET UTXO /\ Cardinality(Seen(v, n)) \in Nat
    BY <1>4, <1>5, SeenTyped
  <2>2. Cardinality(Seen(v, n)) <= Cardinality(UTXO)
    BY <2>1, FS_Subset, FetchAssumption
  <2>3. QED
    BY <1>2, <2>1, <2>2
<1>8. ASSUME NEW u \in stored, Wants(u) PROVE u \in Seen(v, n)
  <2>1. PICK a \in Owners[u] \cap Wanted : TRUE
    BY <1>8 DEF Wants
  <2>2. After(last, a, u)
    BY <1>1, <2>1, FetchAssumption DEF After, ShortEmpty
  <2>3. u \in Seen(v, n) \/ Cardinality(Seen(v, n)) = MaxInt
    BY <1>1, <1>2, <2>2, PageReach
  <2>4. QED
    BY <1>7, <2>3
<1>9. Seen(v, n) = {u \in stored : Wants(u)}
  BY <1>6, <1>8
<1>10. PageOf(all, v, n)
  BY <1>4, <1>5, FirstSeenPage
<1> HIDE DEF all, v, n
<1>11. /\ all \in Seq(UTXO)
       /\ \A i \in 1..Len(all) : all[i] \in Seen(v, n)
       /\ \A x \in Seen(v, n) : \E i \in 1..Len(all) : all[i] = x
       /\ \A i, j \in 1..Len(all) : all[i] = all[j] => i = j
  BY <1>10 DEF PageOf
<1>12. DOMAIN all = 1..Len(all) /\ \A i \in 1..Len(all) : all[i] \in stored
  BY <1>9, <1>11
<1>13. GetAllUTXOs = all
  BY <1>3, <1>12
<1>14. all # Failed
  <2>1. \A i \in 1..Len(all) : all[i] \in UTXO
    BY <1>11
  <2>2. Len(Failed) = 1 /\ Failed[1] = 0
    BY DEF Failed
  <2>3. QED
    BY <2>1, <2>2, FetchAssumption DEF Empty
<1>15. {all[i] : i \in 1..Len(all)} = {u \in stored : Wants(u)}
  BY <1>9, <1>11
<1>16. QED
  BY <1>11, <1>13, <1>14, <1>15

LEMMA BalanceOfStore == StoreOK => BalanceExact
<1> SUFFICES ASSUME StoreOK PROVE BalanceExact
  OBVIOUS
<1> DEFINE all == GetAllUTXOs
           counted == {u \in stored : Wants(u) /\ Amount[u] # NoAmount}
<1>1. /\ all # Failed /\ all \in Seq(UTXO)
      /\ {all[i] : i \in 1..Len(all)} = {u \in stored : Wants(u)}
      /\ \A i, j \in 1..Len(all) : all[i] = all[j] => i = j
  BY AllUTXOs
<1>2. GetBalance = TotalOf(all)
  BY <1>1 DEF GetBalance
<1> HIDE DEF all
<1>3. TotalOf(all) = Reported(Due(all, Len(all)))
  BY <1>1, TotalOfPage
<1>4. Counted(all, Len(all)) = counted
  BY <1>1 DEF Counted
<1>5. Due(all, Len(all)) = SumFunctionOnSet(Amount, counted)
  BY <1>4, Zenon DEF Due
<1>6. QED
  BY <1>2, <1>3, <1>5 DEF BalanceExact, Reported
-----------------------------------------------------------------------------
(* Why a scan loses nothing: what was stored when it began and still is,   *)
(* has been received or is still to come after the cursor.  That a page    *)
(* keeps this so is PageReach; that the writes between two pages do, also  *)
(* when they delete the UTXO of the cursor, is because they leave the      *)
(* order of the other keys as it is and a new key becomes the head.        *)

NoneLost ==
  /\ held \subseteq stored
  /\ scan = "off" => cursor.addr = ShortEmpty
  /\ scan = "paging" => \A u \in held : \A a \in Owners[u] \cap Wanted : u \in got \/ After(cursor, a, u)
  /\ ScanComplete

FetchInv == TypeOK /\ IndexExact /\ NoneLost /\ PagesSucceed

LEMMA FetchInvInit == Init => FetchInv
<1> SUFFICES ASSUME Init PROVE FetchInv
  OBVIOUS
<1>1. TypeOK
  BY FetchAssumption DEF Init, TypeOK
<1>2. IndexExact
  BY DEF Init, IndexExact, Distinct, ToSet
<1>3. NoneLost /\ PagesSucceed
  BY DEF Init, NoneLost, ScanComplete, PagesSucceed
<1>4. QED
  BY <1>1, <1>2, <1>3 DEF FetchInv

LEMMA InvStoreOK == ASSUME FetchInv PROVE StoreOK
  BY DEF FetchInv, TypeOK, StoreOK

\* What a put does to one list.
LEMMA PutIndex ==
  ASSUME FetchInv, NEW v \in UTXO, PutUTXO(v), NEW a \in Addr
  PROVE  /\ index'[a] \in Seq(UTXO) /\ Distinct(index'[a])
         /\ ToSet(index'[a]) = {u \in stored' : a \in Owners[u]}
         /\ \A x : \A u \in ToSet(index[a]) :
              Position(index[a], x) < Position(index[a], u)
                => Position(index'[a], x) < Position(index'[a], u)
<1>1. /\ index[a] \in Seq(UTXO) /\ Distinct(index[a])
      /\ ToSet(index[a]) = {u \in stored : a \in Owners[u]}
  BY DEF FetchInv, TypeOK, IndexExact
<1>2. /\ v \notin stored /\ stored' = stored \cup {v}
      /\ index'[a] = IF a \in Owners[v] THEN ListPut(index[a], v) ELSE index[a]
  BY DEF PutUTXO
<1>3. CASE a \in Owners[v]
  <2>1. index'[a] = ListPut(index[a], v)
    BY <1>2, <1>3
  <2>2. /\ index'[a] \in Seq(UTXO) /\ Distinct(index'[a])
        /\ ToSet(index'[a]) = ToSet(index[a]) \cup {v}
    BY <1>1, <2>1, ListPutKeys
  <2>3. ToSet(index'[a]) = {u \in stored' : a \in Owners[u]}
    BY <1>1, <1>2, <1>3, <2>2
  <2>4. ASSUME NEW x, NEW u \in ToSet(index[a]), Position(index[a], x) < Position(index[a], u)
        PROVE  Position(index'[a], x) < Position(index'[a], u)
    <3>1. u # v
      BY <1>1, <1>2
    <3>2. QED
      BY <1>1, <2>1, <2>4, <3>1, ListPutOrder
  <2>5. QED
    BY <2>2, <2>3, <2>4
<1>4. CASE a \notin Owners[v]
  BY <1>1, <1>2, <1>4
<1>5. QED
  BY <1>3, <1>4

\* And a deletion.
LEMMA DeleteIndex ==
  ASSUME FetchInv, NEW v \in UTXO, DeleteUTXO(v), NEW a \in Addr
  PROVE  /\ index'[a] \in Seq(UTXO) /\ Distinct(index'[a])
         /\ ToSet(index'[a]) = {u \in stored' : a \in Owners[u]}
         /\ \A x : \A u \in ToSet(index[a]) \ {v} :
              Position(index[a], x) < Position(index[a], u)
                => Position(index'[a], x) < Position(index'[a], u)
<1>1. /\ index[a] \in Seq(UTXO) /\ Distinct(index[a])
      /\ ToSet(index[a]) = {u \in stored : a \in Owners[u]}
  BY DEF FetchInv, TypeOK, IndexExact
<1>2. /\ stored' = stored \ {v}
      /\ index'[a] = IF a \in Owners[v] THEN ListDelete(index[a], v) ELSE index[a]
  BY DEF DeleteUTXO
<1>3. CASE a \in Owners[v]
  <2>1. index'[a] = ListDelete(index[a], v)
    BY <1>2, <1>3
  <2>2. /\ index'[a] \in Seq(UTXO) /\ Distinct(index'[a])
        /\ ToSet(index'[a]) = ToSet(index[a]) \ {v}
    BY <1>1, <2>1, ListDeleteKeys
  <2>3. ToSet(index'[a]) = {u \in stored' : a \in Owners[u]}
    BY <1>1, <1>2, <2>2
  <2>4. ASSUME NEW x, NEW u \in ToSet(index[a]) \ {v},
               Position(index[a], x) < Position(index[a], u)
        PROVE  Position(index'[a], x) < Position(index'[a], u)
    BY <1>1, <2>1, <2>4, ListDeleteOrder
  <2>5. QED
    BY <2>2, <2>3, <2>4
<1>4. CASE a \notin Owners[v]
  BY <1>1, <1>2, <1>4
<1>5. QED
  BY <1>3, <1>4

\* A write between two pages keeps the invariant.
LEMMA WriteKeepsInv ==
  ASSUME FetchInv, NEW v \in UTXO, PutUTXO(v) \/ DeleteUTXO(v)
  PROVE  FetchInv'
<1>1. /\ \A a \in Addr : /\ index'[a] \in Seq(UTXO) /\ Distinct(index'[a])
                         /\ ToSet(index'[a]) = {u \in stored' : a \in Owners[u]}
      /\ \A a \in Addr : \A u \in held' \cap ToSet(index[a]) :
           Position(index[a], cursor.id) < Position(index[a], u)
             => Position(index'[a], cursor.id) < Position(index'[a], u)
  <2>1. CASE PutUTXO(v)
    BY <2>1, PutIndex
  <2>2. CASE DeleteUTXO(v)
    <3>1. v \notin held'
      BY <2>2 DEF DeleteUTXO
    <3>2. QED
      BY <2>2, <3>1, DeleteIndex
  <2>3. QED
    BY <2>1, <2>2
<1>2. /\ stored' \in SUBSET UTXO /\ held' \subseteq held /\ held' \subseteq stored'
      /\ DOMAIN index' = Addr /\ index' = [a \in Addr |-> index'[a]]
      /\ changes' \in 0..MaxChanges /\ UNCHANGED scanVars
  BY FetchAssumption DEF FetchInv, TypeOK, NoneLost, PutUTXO, DeleteUTXO
<1>3. index' \in [Addr -> Seq(UTXO)]
  BY <1>1, <1>2
<1>4. TypeOK'
  BY <1>2, <1>3 DEF FetchInv, TypeOK, scanVars
<1>5. IndexExact'
  BY <1>1 DEF IndexExact
<1>6. ASSUME scan' = "paging", NEW u \in held', NEW a \in Owners[u] \cap Wanted
      PROVE  u \in got' \/ After(cursor, a, u)'
  <2>1. u \in held /\ u \in stored /\ a \in Addr /\ scan = "paging"
    BY <1>2, <1>6, FetchAssumption DEF FetchInv, NoneLost, scanVars
  <2>2. u \in got \/ After(cursor, a, u)
    BY <1>6, <2>1 DEF FetchInv, NoneLost
  <2>3. u \in ToSet(index[a])
    BY <2>1 DEF FetchInv, IndexExact
  <2>4. Position(index[a], cursor.id) < Position(index[a], u)
          => Position(index'[a], cursor.id) < Position(index'[a], u)
    BY <1>1, <2>1, <2>3
  <2>5. QED
    BY <1>2, <2>2, <2>4 DEF After, scanVars
<1>7. NoneLost'
  <2>1. ScanComplete'
    BY <1>2 DEF FetchInv, NoneLost, ScanComplete, scanVars
  <2>2. held' \subseteq stored' /\ (scan' = "off" => cursor'.addr = ShortEmpty)
    BY <1>2 DEF FetchInv, NoneLost, scanVars
  <2>3. QED
    BY <1>6, <2>1, <2>2 DEF NoneLost
<1>8. PagesSucceed'
  BY <1>2 DEF FetchInv, PagesSucceed, scanVars
<1>9. QED
  BY <1>4, <1>5, <1>7, <1>8 DEF FetchInv

\* A scan begins with everything to come.
LEMMA BeginKeepsInv ==
  ASSUME FetchInv, Begin
  PROVE  FetchInv'
<1>1. TypeOK' /\ PagesSucceed'
  BY DEF FetchInv, TypeOK, Begin, storeVars, PagesSucceed
<1>2. IndexExact'
  BY DEF FetchInv, IndexExact, Begin, storeVars
<1>3. cursor.addr = ShortEmpty /\ cursor' = cursor /\ index' = index
  BY DEF FetchInv, NoneLost, Begin, storeVars
<1>4. ASSUME NEW a \in Wanted, NEW u PROVE After(cursor, a, u)'
  BY <1>3, FetchAssumption DEF After, ShortEmpty
<1>5. NoneLost'
  BY <1>4 DEF NoneLost, ScanComplete, Begin, storeVars
<1>6. QED
  BY <1>1, <1>2, <1>5 DEF FetchInv

\* The page the client asks for, and how far it goes.
PageVisits == Visits(cursor.addr, cursor.id, limit)
PageEnd == LastVisit(PageVisits, limit)

\* A page has what it should and moves the cursor past it.
LEMMA PageSteps ==
  ASSUME FetchInv, NextPage
  PROVE  /\ PageVisits \in Seq(Visitable) /\ PageEnd \in 0..Len(PageVisits)
         /\ \A x \in Seen(PageVisits, PageEnd) : x \in stored /\ Wants(x)
         /\ cursor' = Reached(PageVisits, PageEnd, cursor)
         /\ page' = FirstSeen(PageVisits, PageEnd)
         /\ got' = got \cup Seen(PageVisits, PageEnd)
         /\ scan' = IF Cardinality(Seen(PageVisits, PageEnd)) < limit THEN "done" ELSE "paging"
<1>1. limit \in Nat \ {0} /\ StoreOK
  BY InvStoreOK, FetchAssumption DEF FetchInv, TypeOK
<1>2. PageVisits \in Seq(Visitable)
  BY <1>1, VisitsKnown DEF PageVisits
<1>3. PageEnd \in 0..Len(PageVisits)
  BY <1>1, <1>2, LastVisitStops DEF PageEnd
<1>4. ASSUME NEW x \in Seen(PageVisits, PageEnd) PROVE x \in stored /\ Wants(x)
  BY <1>1, <1>3, SeenSound DEF PageVisits
<1>5. \A i \in 1..PageEnd : PageVisits[i].id \in Seen(PageVisits, PageEnd)
  BY DEF Seen
<1>6. ~ \E i \in 1..PageEnd : PageVisits[i].id \notin stored
  BY <1>4, <1>5
<1>7. QED
  BY <1>2, <1>3, <1>4, <1>6 DEF NextPage, PageVisits, PageEnd

LEMMA NextPageKeepsInv ==
  ASSUME FetchInv, NextPage
  PROVE  FetchInv'
<1> DEFINE v == PageVisits
           n == PageEnd
           seen == Cardinality(Seen(v, n))
<1>1. /\ v \in Seq(Visitable) /\ n \in 0..Len(v)
      /\ \A x \in Seen(v, n) : x \in stored /\ Wants(x)
      /\ cursor' = Reached(v, n, cursor) /\ page' = FirstSeen(v, n)
      /\ got' = got \cup Seen(v, n)
      /\ scan' = IF seen < limit THEN "done" ELSE "paging"
  BY PageSteps
<1>2. /\ stored \in SUBSET UTXO /\ index \in [Addr -> Seq(UTXO)] /\ limit \in Limits
      /\ limit \in Nat \ {0} /\ cursor \in Cursors /\ got \in SUBSET UTXO /\ held \in SUBSET UTXO
      /\ changes \in 0..MaxChanges /\ StoreOK
  BY InvStoreOK, FetchAssumption DEF FetchInv, TypeOK, Cursors
<1>3. scan = "paging" /\ UNCHANGED <<stored, index, limit, held, changes>>
  BY DEF NextPage, storeVars
<1>4. n > 0 => n \in 1..Len(v) /\ v[n].addr \in Wanted /\ v[n].id \in UTXO
  BY <1>1, VisitTyped
<1>5. seen \in Nat /\ seen <= limit /\ (seen = limit => n > 0)
  <2>1. seen \in Nat
    BY <1>1, SeenTyped
  <2>2. seen <= limit /\ (seen = limit => n > 0)
    BY <1>1, <1>2, LastVisitStops DEF PageEnd
  <2>3. QED
    BY <2>1, <2>2
<1>6. cursor' \in Cursors
  <2>1. cursor'.id \in UTXO \cup {Empty}
    BY <1>1, <1>2, <1>4 DEF Reached, Cursors
  <2>2. CASE seen = limit
    <3>1. cursor'.addr \in Addr
      BY <1>1, <1>4, <1>5, <2>2, FetchAssumption DEF Reached
    <3>2. QED
      BY <1>1, <2>1, <3>1 DEF Reached, Cursors
  <2>3. CASE seen # limit
    <3> DEFINE T == {cursor.addr} \cup Wanted
    <3>1. cursor.addr \in Addr \cup {ShortEmpty}
      BY <1>2 DEF Cursors
    <3>2. T \subseteq Addr \cup {ShortEmpty} /\ IsFiniteSet(T) /\ T # {}
      BY <3>1, FetchAssumption, FS_Singleton, FS_Union
    <3>3. T \subseteq Nat
      <4>1. Addr \subseteq Nat /\ ShortEmpty \in Nat
        BY FetchAssumption DEF ShortEmpty
      <4> HIDE DEF T
      <4>2. QED
        BY <3>2, <4>1
    <3>4. \E x \in T : \A y \in T : x >= y
      BY <3>2, <3>3, Greatest
    <3>5. Max(T) \in T
      BY <3>4 DEF Max
    <3>6. cursor'.addr = Max(T)
      BY <1>1, <2>3 DEF Reached
    <3>7. QED
      BY <1>1, <2>1, <3>2, <3>5, <3>6 DEF Reached, Cursors
  <2>4. QED
    BY <2>2, <2>3
<1>7. TypeOK'
  <2>1. page' \in Seq(UTXO)
    BY <1>1, FirstSeenPage DEF PageOf
  <2>2. got' \in SUBSET UTXO /\ scan' \in {"paging", "done"}
    BY <1>1, <1>2
  <2>3. QED
    BY <1>2, <1>3, <1>6, <2>1, <2>2 DEF TypeOK, Cursors
<1>8. IndexExact'
  BY <1>3 DEF FetchInv, IndexExact
<1>9. ASSUME NEW u \in held, NEW a \in Owners[u] \cap Wanted
      PROVE  u \in got' \/ (seen = limit /\ After(cursor, a, u)')
  <2>1. u \in got \/ After(cursor, a, u)
    BY <1>3 DEF FetchInv, NoneLost
  <2>2. CASE u \in got
    BY <1>1, <2>2
  <2>3. CASE After(cursor, a, u)
    <3>1. u \in stored
      BY DEF FetchInv, NoneLost
    <3>2. u \in Seen(v, n) \/ (seen = limit /\ After(v[n], a, u))
      BY <1>2, <2>3, <3>1, PageReach DEF PageVisits, PageEnd
    <3>3. CASE seen = limit /\ After(v[n], a, u)
      <4>1. cursor'.addr = v[n].addr /\ cursor'.id = v[n].id /\ index' = index
        BY <1>1, <1>3, <1>5, <3>3 DEF Reached
      <4>2. QED
        BY <3>3, <4>1 DEF After
    <3>4. QED
      BY <1>1, <3>2, <3>3
  <2>4. QED
    BY <2>1, <2>2, <2>3
<1>10. NoneLost'
  <2>1. ASSUME scan' = "done", NEW u \in held, Wants(u) PROVE u \in got'
    <3>1. PICK a \in Owners[u] \cap Wanted : TRUE
      BY <2>1 DEF Wants
    <3>2. seen # limit
      BY <1>1, <1>2, <1>5, <2>1
    <3>3. QED
      BY <1>9, <3>1, <3>2
  <2>2. ScanComplete'
    BY <1>3, <2>1 DEF ScanComplete, Wants
  <2>3. scan' # "off"
    BY <1>1
  <2>4. held' \subseteq stored'
    BY <1>3 DEF FetchInv, NoneLost
  <2>5. QED
    BY <1>3, <1>9, <2>2, <2>3, <2>4 DEF NoneLost
<1>11. PagesSucceed'
  BY <1>1 DEF PagesSucceed
<1>12. QED
  BY <1>7, <1>8, <1>10, <1>11 DEF FetchInv

LEMMA FetchInvStep == FetchInv /\ [Next]_vars => FetchInv'
<1> SUFFICES ASSUME FetchInv, [Next]_vars PROVE FetchInv'
  OBVIOUS
<1>1. CASE \E u \in UTXO : PutUTXO(u) \/ DeleteUTXO(u)
  BY <1>1, WriteKeepsInv
<1>2. CASE Begin
  BY <1>2, BeginKeepsInv
<1>3. CASE NextPage
  BY <1>3, NextPageKeepsInv
<1>4. CASE UNCHANGED vars
  <2>1. TypeOK' /\ IndexExact'
    BY <1>4 DEF FetchInv, TypeOK, IndexExact, vars, storeVars, scanVars
  <2>2. NoneLost' /\ PagesSucceed'
    BY <1>4 DEF FetchInv, NoneLost, ScanComplete, After, Wants, PagesSucceed, vars, storeVars, scanVars
  <2>3. QED
    BY <2>1, <2>2 DEF FetchInv
<1>5. QED
  BY <1>1, <1>2, <1>3, <1>4 DEF Next, Finished

-----------------------------------------------------------------------------
\* The variables have their types in every reachable state (utxo_fetching.go
\* 44-108).
THEOREM FetchTypeCorrect == Spec => []TypeOK
<1>1. FetchInv => TypeOK
  BY DEF FetchInv
<1>2. QED
  BY <1>1, FetchInvInit, FetchInvStep, PTL DEF Spec

\* A scan loses no UTXO that was stored all the while, for every store, every
\* set of addresses, every limit and every interleaving of writes with pages
\* (utxo_fetching.go 60-109).
THEOREM ScanLosesNothing == Spec => []ScanComplete
<1>1. FetchInv => ScanComplete
  BY DEF FetchInv, NoneLost
<1>2. QED
  BY <1>1, FetchInvInit, FetchInvStep, PTL DEF Spec

\* No page meets an identifier of a list that is not stored (utxo_fetching.go
\* 98-101).
THEOREM PagesNeverFail == Spec => []PagesSucceed
<1>1. FetchInv => PagesSucceed
  BY DEF FetchInv
<1>2. QED
  BY <1>1, FetchInvInit, FetchInvStep, PTL DEF Spec

\* GetBalance is the sum of what is stored for the addresses, or an error when
\* that does not fit a word (utxo_fetching.go 16-43).
THEOREM BalanceAlwaysExact == Spec => []BalanceExact
<1>1. FetchInv => BalanceExact
  BY InvStoreOK, BalanceOfStore
<1>2. QED
  BY <1>1, FetchInvInit, FetchInvStep, PTL DEF Spec

\* Every page has distinct UTXOs that are stored for a wanted address, and no
\* more than the limit (utxo_fetching.go 91-104).
THEOREM PagesAreSound == Spec => PageSound
<1> DEFINE Good == /\ Len(page') <= limit
                   /\ \A i \in DOMAIN page' : page'[i] \in stored /\ Wants(page'[i])
                   /\ \A i, j \in DOMAIN page' : page'[i] = page'[j] => i = j
<1>1. ASSUME FetchInv, NextPage PROVE Good
  <2> DEFINE v == PageVisits
             n == PageEnd
  <2>1. /\ v \in Seq(Visitable) /\ n \in 0..Len(v)
        /\ \A x \in Seen(v, n) : x \in stored /\ Wants(x)
        /\ page' = FirstSeen(v, n)
    BY <1>1, PageSteps
  <2>2. limit \in Nat \ {0}
    BY <1>1, FetchAssumption DEF FetchInv, TypeOK
  <2>3. Cardinality(Seen(v, n)) <= limit
    BY <2>1, <2>2, LastVisitStops DEF PageEnd
  <2>4. PageOf(page', v, n)
    BY <2>1, FirstSeenPage
  <2> HIDE DEF v, n
  <2>5. /\ page' \in Seq(UTXO) /\ Len(page') = Cardinality(Seen(v, n))
        /\ \A i \in 1..Len(page') : page'[i] \in Seen(v, n)
        /\ \A i, j \in 1..Len(page') : page'[i] = page'[j] => i = j
    BY <2>4 DEF PageOf
  <2>6. DOMAIN page' = 1..Len(page')
    BY <2>5
  <2>7. QED
    BY <2>1, <2>3, <2>5, <2>6
<1>2. FetchInv /\ [Next]_vars => [NextPage => Good]_vars
  BY <1>1
<1>3. QED
  BY <1>2, FetchInvInit, FetchInvStep, PTL DEF Spec, PageSound
=============================================================================
