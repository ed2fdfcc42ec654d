-------------------------- MODULE UTXOState_proofs --------------------------
(***************************************************************************)
(* Proofs about UTXOState over a database that works, and then about       *)
(* UTXOStateFaults, for any UTXOs, addresses, owners and cache size.       *)
(***************************************************************************)
EXTENDS UTXOStateFaults, Collections_proofs

IndexDistinct == \A a \in Addr : Distinct(index[a])

Target == Addr \cup {Database}

-----------------------------------------------------------------------------
(* The parts of the actions.                                               *)

\* Put of the LRU sets one entry and at most forgets others.
LEMMA CachePutEntries ==
  ASSUME TypeOK, NEW u \in UTXO, NEW entry \in {"present", "nil"},
         NEW c \in CachePut(u, entry)
  PROVE  /\ c \in [UTXO -> {"miss", "present", "nil"}]
         /\ c[u] = entry
         /\ \A v \in UTXO \ {u} : c[v] \in {utxoCache[v], "miss"}
  BY DEF CachePut, Cached, TypeOK

\* The writes a call sets out to make.
LEMMA FirstWrites ==
  ASSUME NEW u \in UTXO
  PROVE  LET writes == <<Database>> \o Owners[u]
         IN  /\ writes \in Seq(Target) /\ writes # <<>>
             /\ Head(writes) = Database /\ Tail(writes) = Owners[u]
             /\ ToSet(writes) = {Database} \cup ToSet(Owners[u])
<1> DEFINE writes == <<Database>> \o Owners[u]
<1>1. Owners[u] \in Seq(Addr) /\ Owners[u] \in Seq(Target)
  BY StateAssumption DEF Target
<1>2. writes \in Seq(Target) /\ Len(writes) = Len(Owners[u]) + 1
  BY <1>1 DEF Target
<1>3. Head(writes) = Database /\ writes # <<>> /\ Tail(writes) = Owners[u]
  BY <1>1, <1>2
<1>4. ToSet(writes) = {Database} \cup ToSet(Owners[u])
  BY <1>1, ConsKeys DEF Target
<1>5. QED
  BY <1>2, <1>3, <1>4

\* The writes that remain after the next one.
LEMMA NextWrites ==
  ASSUME TypeOK, op # "idle"
  PROVE  /\ Head(todo) \in Target /\ Tail(todo) \in Seq(Target)
         /\ ToSet(todo) = {Head(todo)} \cup ToSet(Tail(todo))
  BY HeadTailKeys DEF TypeOK, Target

-----------------------------------------------------------------------------
(* Types.                                                                  *)

\* What the calls return has its type.
LEMMA ReplyTypes ==
  /\ \A kind \in {"none", "running", "ok"} : Reply(kind, <<>>, <<>>) \in Replies
  /\ \A kind \in {"found", "notFound"}, u \in UTXO : Reply(kind, <<u>>, <<>>) \in Replies
  /\ \A a \in Addr, start \in UTXO \cup {Empty}, limit \in Limits, ids \in Seq(UTXO) :
       Reply("ids", <<a, start, limit>>, ids) \in Replies
<1>1. <<>> \in Seq(UTXO)
  OBVIOUS
<1>2. ASSUME NEW kind \in {"none", "running", "ok", "found", "notFound", "ids", "error"},
             NEW ids \in Seq(UTXO),
             NEW asked \in {<<>>} \cup {<<u>> : u \in UTXO}
                             \cup (Addr \X (UTXO \cup {Empty}) \X Limits)
      PROVE  Reply(kind, asked, ids) \in Replies
  BY <1>2 DEF Reply, Replies
<1>3. QED
  BY <1>1, <1>2

\* The types hold at first.
LEMMA TypeInit == Init => TypeOK
  BY StateAssumption, ReplyTypes DEF Init, TypeOK

\* The reply and the writes left, after the next write of a call.
LEMMA ProceedType ==
  ASSUME TypeOK, op # "idle", Proceed
  PROVE  /\ op' \in {"idle", "put", "delete"}
         /\ cur' \in UTXO \cup {Empty}
         /\ op' # "idle" => op' = op /\ cur' = cur /\ cur' \in UTXO /\ todo' # <<>>
         /\ op' = "idle" => todo' = <<>> /\ Tail(todo) = <<>>
         /\ todo' = Tail(todo) /\ todo' \in Seq(Addr \cup {Database})
         /\ reply' \in Replies
<1>1. Tail(todo) \in Seq(Addr \cup {Database})
  BY NextWrites DEF Target
<1>2. CASE Tail(todo) = <<>>
  <2>1. op' = "idle" /\ cur' = Empty /\ todo' = <<>> /\ reply' = Reply("ok", <<>>, <<>>)
    BY <1>2 DEF Proceed, Return
  <2>2. Reply("ok", <<>>, <<>>) \in Replies
    BY ReplyTypes
  <2>3. <<>> \in Seq(Addr \cup {Database})
    OBVIOUS
  <2>4. QED
    BY <1>2, <2>1, <2>2, <2>3, Zenon
<1>3. CASE Tail(todo) # <<>>
  BY <1>1, <1>3 DEF Proceed, TypeOK
<1>4. QED
  BY <1>2, <1>3

\* Every step keeps the types.
LEMMA TypeStep == TypeOK /\ IndexDistinct /\ [Next]_vars => TypeOK'
<1> SUFFICES ASSUME TypeOK, IndexDistinct, [Next]_vars
             PROVE  TypeOK'
  OBVIOUS
<1>1. ASSUME NEW u \in UTXO, PutUTXO(u) \/ DeleteUTXO(u)
      PROVE  TypeOK'
  <2>1. utxoCache' \in [UTXO -> {"miss", "present", "nil"}]
    BY <1>1, CachePutEntries DEF PutUTXO, DeleteUTXO
  <2>2. todo' \in Seq(Addr \cup {Database}) /\ todo' # <<>>
    BY <1>1, FirstWrites DEF PutUTXO, DeleteUTXO, Target
  <2>3. QED
    BY <1>1, <2>1, <2>2, ReplyTypes DEF PutUTXO, DeleteUTXO, UpdateChecksum, TypeOK
<1>2. ASSUME NEW u \in UTXO, DeleteNothing(u)
      PROVE  TypeOK'
  <2>1. utxoCache' \in [UTXO -> {"miss", "present", "nil"}]
    BY <1>2, CachePutEntries DEF DeleteNothing
  <2>2. QED
    BY <1>2, <2>1, ReplyTypes DEF DeleteNothing, TypeOK
<1>3. ASSUME NEW u \in UTXO, GetUTXO(u)
      PROVE  TypeOK'
  <2>1. utxoCache' \in [UTXO -> {"miss", "present", "nil"}]
    BY <1>3, CachePutEntries DEF GetUTXO, TypeOK
  <2>2. QED
    BY <1>3, <2>1, ReplyTypes DEF GetUTXO, TypeOK
<1>4. ASSUME NEW a \in Addr, NEW start \in UTXO \cup {Empty}, NEW limit \in Limits,
             UTXOIDs(a, start, limit)
      PROVE  TypeOK'
  <2>1. IDsAfter(index[a], start, limit) \in Seq(UTXO)
    BY IDsAfterPage, StateAssumption DEF TypeOK, IndexDistinct
  <2>2. QED
    BY <1>4, <2>1, ReplyTypes DEF UTXOIDs, TypeOK
<1>5. CASE WriteUTXO
  <2>1. op # "idle" /\ Proceed /\ utxoDB' \in SUBSET UTXO
    BY <1>5 DEF WriteUTXO, TypeOK
  <2>2. QED
    BY <1>5, <2>1, ProceedType DEF WriteUTXO, TypeOK
<1>6. CASE WriteIndex
  <2>1. op # "idle" /\ Proceed /\ cur \in UTXO /\ Head(todo) \in Addr
    BY <1>6, NextWrites DEF WriteIndex, TypeOK, Target
  <2>2. index' \in [Addr -> Seq(UTXO)]
    <3>1. index[Head(todo)] \in Seq(UTXO) /\ Distinct(index[Head(todo)])
      BY <2>1 DEF TypeOK, IndexDistinct
    <3>2. /\ ListPut(index[Head(todo)], cur) \in Seq(UTXO)
          /\ ListDelete(index[Head(todo)], cur) \in Seq(UTXO)
      BY <2>1, <3>1, ListPutKeys, ListDeleteKeys
    <3>3. QED
      BY <1>6, <2>1, <3>2 DEF WriteIndex, TypeOK
  <2>3. QED
    BY <1>6, <2>1, <2>2, ProceedType DEF WriteIndex, TypeOK
<1>7. CASE Restart
  BY <1>7, ReplyTypes DEF Restart, Reopen, TypeOK
<1>8. CASE UNCHANGED vars
  BY <1>8 DEF vars, TypeOK
<1>9. QED
  BY <1>1, <1>2, <1>3, <1>4, <1>5, <1>6, <1>7, <1>8 DEF Next, Calls

-----------------------------------------------------------------------------
(* The inductive invariant.  An address list can be told right or wrong    *)
(* only against the writes the running call still has to make, and the     *)
(* last list write can end the call only because the database write came   *)
(* first: WritesInOrder is what makes the other parts inductive.           *)

StateInv == TypeOK /\ CacheCoherent /\ IndexComplete /\ WritesInOrder

\* StateInv contains that the lists have no duplicates.
LEMMA StateInvDistinct == StateInv => IndexDistinct
  BY DEF StateInv, IndexComplete, IndexDistinct

\* StateInv holds of an empty database.
LEMMA StateInvInit == Init => StateInv
<1> SUFFICES ASSUME Init
             PROVE  StateInv
  OBVIOUS
<1>1. TypeOK
  BY TypeInit
<1>2. CacheCoherent
  BY DEF Init, CacheCoherent
<1>3. IndexComplete
  BY DEF Init, IndexComplete, Stored, Distinct, ToSet
<1>4. WritesInOrder
  BY DEF Init, WritesInOrder
<1>5. QED
  BY <1>1, <1>2, <1>3, <1>4 DEF StateInv

\* A call that starts puts the entry that tells how it will leave the UTXO.
LEMMA BeginCall ==
  ASSUME TypeOK, NEW u \in UTXO, PutUTXO(u) \/ DeleteUTXO(u)
  PROVE  /\ op = "idle" /\ Stored = utxoDB
         /\ cur' = u /\ todo' = <<Database>> \o Owners[u]
         /\ op' \in {"put", "delete"}
         /\ UNCHANGED <<utxoDB, index>>
         /\ Stored' = IF op' = "put" THEN utxoDB \cup {u} ELSE utxoDB \ {u}
         /\ CacheCoherent => CacheCoherent'
         /\ WritesInOrder'
<1>1. /\ op = "idle" /\ Stored = utxoDB
      /\ cur' = u /\ todo' = <<Database>> \o Owners[u]
      /\ op' \in {"put", "delete"}
      /\ UNCHANGED <<utxoDB, index>>
  BY DEF PutUTXO, DeleteUTXO, Stored
<1>2. Stored' = IF op' = "put" THEN utxoDB \cup {u} ELSE utxoDB \ {u}
  BY <1>1 DEF Stored
<1>3. CacheCoherent => CacheCoherent'
  <2>1. \E entry \in {"present", "nil"} :
          /\ utxoCache' \in CachePut(u, entry)
          /\ entry = "present" <=> op' = "put"
    BY DEF PutUTXO, DeleteUTXO
  <2>2. \A v \in UTXO \ {u} : utxoCache'[v] \in {utxoCache[v], "miss"}
    BY <2>1, CachePutEntries
  <2>3. utxoCache'[u] = IF op' = "put" THEN "present" ELSE "nil"
    BY <2>1, CachePutEntries
  <2>4. QED
    BY <1>1, <1>2, <2>2, <2>3 DEF CacheCoherent
<1>4. WritesInOrder'
  BY <1>1, FirstWrites DEF WritesInOrder
<1>5. QED
  BY <1>1, <1>2, <1>3, <1>4

\* A call that starts leaves the lists right: it has still to write those it
\* makes wrong.
LEMMA BeginStep ==
  ASSUME StateInv, NEW u \in UTXO, PutUTXO(u) \/ DeleteUTXO(u)
  PROVE  CacheCoherent' /\ IndexComplete' /\ WritesInOrder'
<1> USE DEF StateInv
<1>1. ToSet(todo') = {Database} \cup ToSet(Owners[u])
  BY BeginCall, FirstWrites
<1>2. ASSUME NEW a \in Addr, NEW v \in UTXO
      PROVE  \/ v = u /\ a \in ToSet(todo')
             \/ v \in ToSet(index[a]) <=> v \in Stored' /\ Pays(v, a)
  <2>1. v \in ToSet(index[a]) <=> v \in utxoDB /\ Pays(v, a)
    BY BeginCall DEF IndexComplete, TypeOK, ToSet
  <2>2. CASE v # u
    BY BeginCall, <2>1, <2>2
  <2>3. CASE v = u
    BY <1>1, BeginCall, <2>1, <2>3 DEF Pays
  <2>4. QED
    BY <2>2, <2>3
<1>3. IndexComplete'
  BY BeginCall, <1>2 DEF IndexComplete, Pays
<1>4. QED
  BY <1>3, BeginCall

\* What the store stands for does not change while a call makes its writes.
LEMMA WriteStored ==
  ASSUME TypeOK, WritesInOrder, WriteUTXO \/ WriteIndex
  PROVE  /\ op \in {"put", "delete"} /\ Proceed /\ cur \in UTXO
         /\ UNCHANGED utxoCache
         /\ utxoDB' = Stored /\ Stored' = Stored
         /\ todo' = Tail(todo)
         /\ ToSet(todo) = {Head(todo)} \cup ToSet(Tail(todo))
         /\ CacheCoherent => CacheCoherent'
<1>1. /\ op \in {"put", "delete"} /\ Proceed /\ cur \in UTXO
      /\ UNCHANGED utxoCache
      /\ utxoDB' = Stored
  BY DEF WriteUTXO, WriteIndex, TypeOK, Stored, WritesInOrder
<1>2. Stored' = Stored
  <2>1. CASE op' = "idle"
    BY <1>1, <2>1 DEF Stored
  <2>2. CASE op' # "idle"
    <3>1. op' = op /\ cur' = cur
      BY <1>1, <2>2, ProceedType
    <3>2. QED
      BY <1>1, <3>1 DEF Stored
  <2>3. QED
    BY <2>1, <2>2
<1>3. todo' = Tail(todo) /\ ToSet(todo) = {Head(todo)} \cup ToSet(Tail(todo))
  BY <1>1, NextWrites, ProceedType
<1>4. CacheCoherent => CacheCoherent'
  BY <1>1, <1>2 DEF CacheCoherent
<1>5. QED
  BY <1>1, <1>2, <1>3, <1>4

\* The address lists are written after the database.
LEMMA WriteOrder ==
  ASSUME TypeOK, WritesInOrder, WriteUTXO \/ WriteIndex
  PROVE  WritesInOrder'
<1> SUFFICES ASSUME op' # "idle"
             PROVE  (IF Head(todo) = Database THEN Tail(todo) = Owners[cur]
                     ELSE ToSet(todo) \subseteq ToSet(Owners[cur]) /\ utxoDB = Stored)'
  BY DEF WritesInOrder
<1>1. todo' = Tail(todo) /\ todo' # <<>> /\ cur' = cur /\ todo' \in Seq(Target)
  BY WriteStored, ProceedType DEF Target
<1>2. /\ cur \in UTXO /\ ToSet(todo') \subseteq ToSet(Owners[cur])
  BY <1>1, WriteStored DEF WriteUTXO, WriteIndex, WritesInOrder
<1>3. Head(todo') \in ToSet(todo')
  BY <1>1, HeadTailKeys
<1>4. ToSet(Owners[cur]) \subseteq Addr /\ Database \notin Addr
  BY <1>2, StateAssumption DEF ToSet
<1>5. QED
  BY <1>1, <1>2, <1>3, <1>4, WriteStored

\* A list write changes the list of one address, by one key.
LEMMA ListWritten ==
  ASSUME TypeOK, IndexDistinct, WritesInOrder, WriteIndex
  PROVE  LET h == Head(todo)
         IN  /\ h \in Addr /\ Pays(cur, h)
             /\ ToSet(index'[h]) = IF op = "put" THEN ToSet(index[h]) \cup {cur}
                                                 ELSE ToSet(index[h]) \ {cur}
             /\ \A a \in Addr \ {h} : index'[a] = index[a]
             /\ IndexDistinct'
             /\ cur \in Stored <=> op = "put"
<1> DEFINE h == Head(todo)
<1>1. /\ op \in {"put", "delete"} /\ h # Database /\ cur \in UTXO /\ h \in Addr
      /\ h \in ToSet(Owners[cur])
  BY NextWrites, WriteStored DEF WriteIndex, WritesInOrder, Target
<1>2. /\ index[h] \in Seq(UTXO) /\ Distinct(index[h])
      /\ index'[h] = IF op = "put" THEN ListPut(index[h], cur) ELSE ListDelete(index[h], cur)
      /\ \A a \in Addr \ {h} : index'[a] = index[a]
  BY <1>1 DEF WriteIndex, TypeOK, IndexDistinct
<1>3. /\ ToSet(index'[h]) = IF op = "put" THEN ToSet(index[h]) \cup {cur}
                                          ELSE ToSet(index[h]) \ {cur}
      /\ Distinct(index'[h])
  <2>1. CASE op = "put"
    BY <1>1, <1>2, <2>1, ListPutKeys
  <2>2. CASE op # "put"
    BY <1>1, <1>2, <2>2, ListDeleteKeys
  <2>3. QED
    BY <2>1, <2>2
<1>4. IndexDistinct'
  BY <1>2, <1>3 DEF IndexDistinct
<1>5. QED
  BY <1>1, <1>2, <1>3, <1>4 DEF Pays, Stored

\* The database write leaves the lists as they are.
LEMMA WriteUTXOStep ==
  ASSUME StateInv, WriteUTXO
  PROVE  CacheCoherent' /\ IndexComplete' /\ WritesInOrder' /\ Stored' = Stored
<1> USE DEF StateInv
<1>1. /\ Head(todo) = Database /\ Database \notin Addr /\ UNCHANGED index
      /\ ToSet(todo) = {Database} \cup ToSet(todo')
      /\ Stored' = Stored /\ CacheCoherent' /\ WritesInOrder'
  BY WriteStored, WriteOrder, StateAssumption DEF WriteUTXO
<1>2. ASSUME NEW a \in Addr, NEW v \in UTXO
      PROVE  \/ v = cur' /\ a \in ToSet(todo')
             \/ v \in ToSet(index[a]) <=> v \in Stored /\ Pays(v, a)
  <2>1. \/ v = cur /\ a \in ToSet(todo)
        \/ v \in ToSet(index[a]) <=> v \in Stored /\ Pays(v, a)
    BY DEF IndexComplete
  <2>2. ASSUME v = cur, a \in ToSet(todo)
        PROVE  v = cur' /\ a \in ToSet(todo')
    <3>1. a \in ToSet(todo')
      BY <1>1, <2>2
    <3>2. op' # "idle"
      BY <3>1, WriteStored, ProceedType DEF ToSet
    <3>3. QED
      BY <2>2, <3>1, <3>2, WriteStored, ProceedType
  <2>3. QED
    BY <2>1, <2>2
<1>3. IndexComplete'
  BY <1>1, <1>2 DEF IndexComplete, Pays
<1>4. QED
  BY <1>1, <1>3

\* A list write: the list of one address catches up with the database.
LEMMA WriteIndexStep ==
  ASSUME StateInv, WriteIndex
  PROVE  CacheCoherent' /\ IndexComplete' /\ WritesInOrder' /\ Stored' = Stored
<1> USE DEF StateInv
<1> DEFINE h == Head(todo)
<1>1. IndexDistinct
  BY StateInvDistinct
<1>2. /\ Pays(cur, h) /\ (cur \in Stored <=> op = "put")
      /\ ToSet(index'[h]) = IF op = "put" THEN ToSet(index[h]) \cup {cur}
                                          ELSE ToSet(index[h]) \ {cur}
      /\ \A a \in Addr \ {h} : index'[a] = index[a]
      /\ IndexDistinct'
  BY <1>1, ListWritten
<1>3. ASSUME NEW a \in Addr, NEW v \in UTXO
      PROVE  \/ v = cur' /\ a \in ToSet(todo')
             \/ v \in ToSet(index'[a]) <=> v \in Stored /\ Pays(v, a)
  <2>1. \/ v = cur /\ a \in ToSet(todo)
        \/ v \in ToSet(index[a]) <=> v \in Stored /\ Pays(v, a)
    BY DEF IndexComplete
  <2>2. CASE a = h
    BY <1>2, <2>1, <2>2
  <2>3. CASE a # h /\ ~(v = cur /\ a \in ToSet(todo))
    BY <1>2, <2>1, <2>3
  <2>4. CASE a # h /\ v = cur /\ a \in ToSet(todo)
    <3>1. a \in ToSet(todo')
      BY <2>4, WriteStored
    <3>2. op' # "idle"
      BY <3>1, WriteStored, ProceedType DEF ToSet
    <3>3. QED
      BY <2>4, <3>1, <3>2, WriteStored, ProceedType
  <2>5. QED
    BY <2>2, <2>3, <2>4
<1>4. IndexComplete'
  BY <1>2, <1>3, WriteStored DEF IndexComplete, IndexDistinct, Pays
<1>5. QED
  BY <1>4, WriteStored, WriteOrder

\* A call that only reads may change the cache.
LEMMA ReadStep ==
  ASSUME TypeOK, CacheCoherent, NEW u \in UTXO, DeleteNothing(u) \/ GetUTXO(u)
  PROVE  CacheCoherent'
<1>1. op = "idle" /\ Stored = utxoDB /\ Stored' = utxoDB
  BY DEF DeleteNothing, GetUTXO, Stored
<1>2. CASE UNCHANGED utxoCache
  BY <1>1, <1>2 DEF CacheCoherent
<1>3. ASSUME NEW entry \in {"present", "nil"}, utxoCache' \in CachePut(u, entry),
             entry = "present" <=> u \in utxoDB
      PROVE  CacheCoherent'
  <2>1. /\ utxoCache'[u] = entry
        /\ \A v \in UTXO \ {u} : utxoCache'[v] \in {utxoCache[v], "miss"}
    BY <1>3, CachePutEntries
  <2>2. QED
    BY <1>1, <1>3, <2>1 DEF CacheCoherent
<1>4. CASE DeleteNothing(u)
  <2>1. u \notin utxoDB
    BY <1>1, <1>4 DEF DeleteNothing, Found, CacheCoherent, TypeOK
  <2>2. QED
    BY <1>3, <1>4, <2>1 DEF DeleteNothing
<1>5. CASE GetUTXO(u)
  BY <1>2, <1>3, <1>5 DEF GetUTXO
<1>6. QED
  BY <1>4, <1>5

\* StateInv is inductive.
LEMMA StateInvStep == StateInv /\ [Next]_vars => StateInv'
<1> SUFFICES ASSUME StateInv, [Next]_vars
             PROVE  StateInv'
  OBVIOUS
<1>0. TypeOK'
  BY TypeStep, StateInvDistinct DEF StateInv
<1>1. ASSUME UNCHANGED <<utxoDB, index, op, cur, todo>>
      PROVE  IndexComplete' /\ WritesInOrder'
  BY <1>1 DEF StateInv, IndexComplete, WritesInOrder, Stored, Pays
<1>2. ASSUME NEW u \in UTXO, PutUTXO(u) \/ DeleteUTXO(u)
      PROVE  StateInv'
  BY <1>0, <1>2, BeginStep DEF StateInv
<1>3. ASSUME NEW u \in UTXO, DeleteNothing(u) \/ GetUTXO(u)
      PROVE  StateInv'
  <2>1. UNCHANGED <<utxoDB, index, op, cur, todo>>
    BY <1>3 DEF DeleteNothing, GetUTXO
  <2>2. QED
    BY <1>0, <1>1, <1>3, <2>1, ReadStep DEF StateInv
<1>4. ASSUME NEW a \in Addr, NEW start \in UTXO \cup {Empty}, NEW limit \in Limits,
             UTXOIDs(a, start, limit)
      PROVE  StateInv'
  BY <1>0, <1>1, <1>4 DEF UTXOIDs, StateInv, CacheCoherent, Stored
<1>5. CASE WriteUTXO
  BY <1>0, <1>5, WriteUTXOStep DEF StateInv
<1>6. CASE WriteIndex
  BY <1>0, <1>6, WriteIndexStep DEF StateInv
<1>7. CASE Restart
  <2>1. op = "idle" /\ op' = "idle" /\ UNCHANGED <<utxoDB, index>>
        /\ todo = <<>> /\ todo' = <<>>
    BY <1>7 DEF Restart, Reopen, StateInv, TypeOK
  <2>2. CacheCoherent' /\ WritesInOrder'
    BY <1>7, <2>1 DEF Restart, Reopen, CacheCoherent, WritesInOrder
  <2>3. IndexComplete'
    BY <2>1 DEF StateInv, IndexComplete, Stored, Pays, ToSet
  <2>4. QED
    BY <1>0, <2>2, <2>3 DEF StateInv
<1>8. CASE UNCHANGED vars
  BY <1>0, <1>1, <1>8 DEF vars, StateInv, CacheCoherent, Stored
<1>9. QED
  BY <1>2, <1>3, <1>4, <1>5, <1>6, <1>7, <1>8 DEF Next, Calls

-----------------------------------------------------------------------------
(* Theorems.                                                               *)

\* StateInv holds always.
LEMMA StateInvAlways == Spec => []StateInv
  BY StateInvInit, StateInvStep, PTL DEF Spec

\* Every variable keeps its type (utxo_state.go 73-83).
THEOREM StateTypeCorrect == Spec => []TypeOK
<1>1. StateInv => TypeOK
  BY DEF StateInv
<1>2. QED
  BY <1>1, StateInvAlways, PTL

\* The cache never contradicts the database, whatever its size and whichever
\* entries it evicts (utxo_state.go 146-188, 205-219).
THEOREM CacheNeverStale == Spec => []CacheCoherent
<1>1. StateInv => CacheCoherent
  BY DEF StateInv
<1>2. QED
  BY <1>1, StateInvAlways, PTL

\* Every address lists exactly the stored UTXOs that pay it, once each, up to
\* the writes the running call still has to make (utxo_state.go 190-203,
\* 221-233).
THEOREM IndexAlwaysComplete == Spec => []IndexComplete
<1>1. StateInv => IndexComplete
  BY DEF StateInv
<1>2. QED
  BY <1>1, StateInvAlways, PTL

\* The database is written before the lists (utxo_state.go 186-202, 217-233).
THEOREM WritesAlwaysInOrder == Spec => []WritesInOrder
<1>1. StateInv => WritesInOrder
  BY DEF StateInv
<1>2. QED
  BY <1>1, StateInvAlways, PTL

-----------------------------------------------------------------------------
(* The checksum.  A put toggles the identifier, so it is the checksum of   *)
(* the stored set only if callers put what is not stored: ~Reput.          *)

\* A call that starts toggles the identifier of the UTXO that it stores or
\* removes.
LEMMA ChecksumBegin ==
  ASSUME TypeOK, CacheCoherent, TrackChecksum, checksum = Stored, NEW u \in UTXO,
         PutUTXO(u) \/ DeleteUTXO(u), PutUTXO(u) => u \notin utxoDB
  PROVE  checksum' = Stored'
<1>1. CASE PutUTXO(u)
  <2>1. checksum = utxoDB /\ u \notin utxoDB
    BY <1>1 DEF PutUTXO, Stored
  <2>2. Stored' = utxoDB \cup {u}
    BY <1>1 DEF PutUTXO, Stored
  <2>3. QED
    BY <1>1, <2>1, <2>2 DEF PutUTXO, UpdateChecksum
<1>2. CASE DeleteUTXO(u)
  <2>1. checksum = utxoDB /\ u \in utxoDB
    BY <1>2 DEF DeleteUTXO, Found, Stored, CacheCoherent
  <2>2. Stored' = utxoDB \ {u}
    BY <1>2 DEF DeleteUTXO, Stored
  <2>3. QED
    BY <1>2, <2>1, <2>2 DEF DeleteUTXO, UpdateChecksum
<1>3. QED
  BY <1>1, <1>2

\* Every step keeps the checksum current, when no stored UTXO is put again.
LEMMA ChecksumStep ==
  ASSUME ~Reput
  PROVE  StateInv /\ ChecksumCurrent /\ [Next]_vars => ChecksumCurrent'
<1> SUFFICES ASSUME TrackChecksum, StateInv, checksum = Stored, [Next]_vars
             PROVE  checksum' = Stored'
  BY DEF ChecksumCurrent
<1>1. ASSUME NEW u \in UTXO, PutUTXO(u) \/ DeleteUTXO(u)
      PROVE  checksum' = Stored'
  <2>1. PutUTXO(u) => u \notin utxoDB
    BY DEF PutUTXO
  <2>2. QED
    BY <1>1, <2>1, ChecksumBegin DEF StateInv
<1>3. CASE UNCHANGED <<utxoDB, checksum, op, cur>>
  BY <1>3 DEF Stored
<1>4. CASE WriteUTXO
  BY <1>4, WriteUTXOStep DEF WriteUTXO
<1>5. CASE WriteIndex
  BY <1>5, WriteIndexStep DEF WriteIndex
<1>6. CASE Restart
  BY <1>6 DEF Restart, Reopen, Stored
<1>7. CASE \E u \in UTXO : DeleteNothing(u) \/ GetUTXO(u)
  BY <1>3, <1>7 DEF DeleteNothing, GetUTXO
<1>8. CASE \E a \in Addr, start \in UTXO \cup {Empty}, limit \in Limits :
             UTXOIDs(a, start, limit)
  BY <1>3, <1>8 DEF UTXOIDs
<1>9. CASE UNCHANGED vars
  BY <1>3, <1>9 DEF vars
<1>10. QED
  BY <1>1, <1>4, <1>5, <1>6, <1>7, <1>8, <1>9 DEF Next, Calls

\* When no caller puts a UTXO that is stored, the checksum is always the XOR of
\* the stored identifiers (utxo_state.go 183, 214, 273-297).
THEOREM ChecksumNeverDrifts ==
  ASSUME ~Reput
  PROVE  Spec => []ChecksumCurrent
<1>1. Init => ChecksumCurrent
  BY DEF Init, ChecksumCurrent, Stored
<1>2. QED
  BY <1>1, StateInvAlways, ChecksumStep, PTL DEF Spec

-----------------------------------------------------------------------------
(* The store implements the set of its interface.  Reads and the calls     *)
(* that find nothing are one step of the set; a put or a delete changes    *)
(* the set when it starts and returns with its last write.                 *)

\* The caller waits exactly while a call runs.
ReplyInv == reply.kind = "running" <=> op # "idle"

\* Every step keeps what is known of the last reply.
LEMMA ReplyStep == TypeOK /\ ReplyInv /\ [Next]_vars => ReplyInv'
<1> SUFFICES ASSUME TypeOK, ReplyInv, [Next]_vars
             PROVE  ReplyInv'
  OBVIOUS
<1> USE DEF ReplyInv, Reply
<1>1. ASSUME op # "idle", Proceed
      PROVE  ReplyInv'
  BY <1>1 DEF Proceed, Return
<1>2. CASE \E u \in UTXO : PutUTXO(u) \/ DeleteUTXO(u)
  BY <1>2 DEF PutUTXO, DeleteUTXO
<1>3. CASE \E u \in UTXO : DeleteNothing(u) \/ GetUTXO(u)
  BY <1>3 DEF DeleteNothing, GetUTXO
<1>4. CASE \E a \in Addr, start \in UTXO \cup {Empty}, limit \in Limits :
             UTXOIDs(a, start, limit)
  BY <1>4 DEF UTXOIDs
<1>5. CASE WriteUTXO \/ WriteIndex
  BY <1>1, <1>5 DEF WriteUTXO, WriteIndex
<1>6. CASE Restart
  BY <1>6 DEF Restart, Reopen
<1>7. CASE UNCHANGED vars
  BY <1>7 DEF vars
<1>8. QED
  BY <1>2, <1>3, <1>4, <1>5, <1>6, <1>7 DEF Next, Calls

\* What UTXOIDs returns is a page of the set.
LEMMA ListImplements ==
  ASSUME StateInv, ReplyInv, op = "idle", NEW a \in Addr,
         NEW start \in UTXO \cup {Empty}, NEW limit \in Limits,
         UTXOIDs(a, start, limit)
  PROVE  Set!List(a, start, limit)
<1> DEFINE s == IDsAfter(index[a], start, limit)
<1>1. /\ index[a] \in Seq(UTXO) /\ Distinct(index[a]) /\ limit \in Nat
      /\ \A u \in UTXO : u \in ToSet(index[a]) <=> u \in Stored /\ Pays(u, a)
  BY StateAssumption DEF StateInv, TypeOK, IndexComplete, ToSet
<1>2. /\ s \in Seq(UTXO) /\ Len(s) <= limit
      /\ \A i \in 1..Len(s) : s[i] \in ToSet(index[a]) \ {start}
      /\ \A i, j \in 1..Len(s) : s[i] = s[j] => i = j
      /\ start \notin ToSet(index[a]) /\ Len(s) < limit
           => \A x \in ToSet(index[a]) : \E i \in 1..Len(s) : s[i] = x
  BY <1>1, IDsAfterPage
<1> HIDE DEF s
<1>3. Set!Owned(a) = ToSet(index[a])
  <2>1. Stored \subseteq UTXO
    BY DEF StateInv, TypeOK, Stored
  <2>2. ToSet(index[a]) \subseteq UTXO
    BY <1>1 DEF ToSet
  <2>3. \A u \in UTXO : Pays(u, a) <=> \E i \in DOMAIN Owners[u] : Owners[u][i] = a
    BY DEF Pays, ToSet
  <2>4. QED
    BY <1>1, <2>1, <2>2, <2>3 DEF Set!Owned
<1>4. Set!IsPage(s, a, start, limit)
  BY <1>2, <1>3 DEF Set!IsPage
<1>5. Len(s) \in 0..limit /\ s \in [1..Len(s) -> Stored]
  <2>1. \A i \in 1..Len(s) : s[i] \in Stored
    BY <1>1, <1>2
  <2>2. QED
    BY <1>1, <1>2, <2>1
<1>6. Stored' = Stored /\ reply' = Set!Reply("ids", <<a, start, limit>>, s)
  BY DEF UTXOIDs, Stored, Reply, Set!Reply, s
<1>7. Set!Idle
  BY DEF ReplyInv, Set!Idle
<1>8. QED
  BY <1>4, <1>5, <1>6, <1>7 DEF Set!List

\* Every step of the store is a step of the set, or changes nothing there.
LEMMA StepImplements == StateInv /\ ReplyInv /\ [Next]_vars => [Set!Next]_(Set!vars)
<1> SUFFICES ASSUME StateInv, ReplyInv, [Next]_vars
             PROVE  Set!Next \/ UNCHANGED <<Stored, reply>>
  BY DEF Set!vars
<1> USE DEF StateInv, Reply, Set!Reply, ReplyInv, Set!Idle
<1>1. ASSUME NEW u \in UTXO, PutUTXO(u)
      PROVE  Set!Next
  <2>1. Set!Put(u)
    BY <1>1 DEF PutUTXO, Stored, Set!Put
  <2>2. QED
    BY <2>1 DEF Set!Next
<1>2. ASSUME NEW u \in UTXO, DeleteUTXO(u)
      PROVE  Set!Next
  <2>1. Set!Delete(u)
    BY <1>2 DEF DeleteUTXO, Stored, Set!Delete
  <2>2. QED
    BY <2>1 DEF Set!Next
<1>3. ASSUME NEW u \in UTXO, DeleteNothing(u)
      PROVE  Set!Next
  <2>1. u \notin Stored /\ Stored' = Stored
    BY <1>3 DEF DeleteNothing, Found, CacheCoherent, Stored, TypeOK
  <2>2. Set!Delete(u)
    BY <1>3, <2>1 DEF DeleteNothing, Set!Delete
  <2>3. QED
    BY <2>2 DEF Set!Next
<1>4. ASSUME NEW u \in UTXO, GetUTXO(u)
      PROVE  Set!Next
  <2>1. (Found(u) <=> u \in Stored) /\ Stored' = Stored
    BY <1>4 DEF GetUTXO, Found, CacheCoherent, Stored, TypeOK
  <2>2. Set!Get(u)
    BY <1>4, <2>1 DEF GetUTXO, Set!Get
  <2>3. QED
    BY <2>2 DEF Set!Next
<1>5. ASSUME NEW a \in Addr, NEW start \in UTXO \cup {Empty}, NEW limit \in Limits,
             UTXOIDs(a, start, limit)
      PROVE  Set!Next
  <2>1. Set!List(a, start, limit)
    BY <1>5, ListImplements DEF UTXOIDs
  <2>2. QED
    BY <2>1 DEF Set!Next
<1>6. CASE WriteUTXO \/ WriteIndex
  <2>1. op # "idle" /\ Proceed /\ Stored' = Stored
    BY <1>6, WriteUTXOStep, WriteIndexStep DEF WriteUTXO, WriteIndex
  <2>2. CASE Tail(todo) = <<>>
    <3>1. Set!Return
      BY <2>1, <2>2 DEF Proceed, Return, Set!Return
    <3>2. QED
      BY <3>1 DEF Set!Next
  <2>3. CASE Tail(todo) # <<>>
    BY <2>1, <2>3 DEF Proceed
  <2>4. QED
    BY <2>2, <2>3
<1>7. CASE Restart
  <2>1. Set!Reopen
    BY <1>7 DEF Restart, Reopen, Stored, Set!Reopen
  <2>2. QED
    BY <2>1 DEF Set!Next
<1>8. CASE UNCHANGED vars
  BY <1>8 DEF vars, Stored
<1>9. QED
  BY <1>1, <1>2, <1>3, <1>4, <1>5, <1>6, <1>7, <1>8 DEF Next, Calls

\* Whoever calls the store over a database that works cannot tell it from the
\* set of its interface: caches, lists, restarts and the order of the writes do
\* not show (utxo_state.go 38-71).
THEOREM StateImplementsSet == Spec => ImplementsSet
<1>1. Init => Set!Init /\ ReplyInv
  BY DEF Init, Stored, Set!Init, Reply, Set!Reply, ReplyInv
<1>2. StateInv => TypeOK
  BY DEF StateInv
<1>3. QED
  BY <1>1, <1>2, ReplyStep, StepImplements, StateInvAlways, PTL
  DEF Spec, ImplementsSet, Set!Spec

-----------------------------------------------------------------------------
(* The store over a database that may fail, in a process that may stop     *)
(* between two writes of a call: what failures leave true.                 *)

\* The address lists the UTXO exactly when it is stored and pays the address.
Listed(u, a) == u \in ToSet(index[a]) <=> u \in utxoDB /\ Pays(u, a)

\* A call that has made its database write and still has lists to write.
Writing == op # "idle" /\ Head(todo) # Database

-----------------------------------------------------------------------------
(* The inductive invariant.  A call repairs a torn UTXO, so the lists have *)
(* to be followed while the UTXO still counts as torn: RunningListed does  *)
(* that, and OnlyPayersListed answers for the addresses a call leaves out. *)

OnlyPayersListed == \A a \in Addr, u \in UTXO : u \in ToSet(index[a]) => Pays(u, a)

WholeListed ==
  \A a \in Addr, u \in UTXO \ torn : (u = cur /\ Writing) \/ Listed(u, a)

RunningListed ==
  Writing => \A a \in Addr, u \in UTXO : u = cur => a \in ToSet(todo) \/ Listed(u, a)

IndexInv == IndexDistinct /\ OnlyPayersListed /\ WholeListed /\ RunningListed

FaultInv ==
  /\ FaultTypeOK
  /\ WritesInOrder
  /\ CacheCoherentUnlessTainted
  /\ ChecksumCurrentUnlessTainted
  /\ IndexInv

\* FaultInv holds of an empty database.
LEMMA FaultInvInit == FaultInit => FaultInv
<1> SUFFICES ASSUME FaultInit
             PROVE  FaultInv
  OBVIOUS
<1>1. Init /\ StateInv /\ tainted = FALSE /\ rewritten = FALSE /\ torn = {}
  BY StateInvInit DEF FaultInit
<1>2. FaultTypeOK /\ WritesInOrder /\ CacheCoherentUnlessTainted
  BY <1>1 DEF FaultTypeOK, StateInv, CacheCoherentUnlessTainted
<1>3. ChecksumCurrentUnlessTainted
  BY <1>1 DEF Init, ChecksumCurrentUnlessTainted, ChecksumCurrent, Stored
<1>4. IndexInv
  BY <1>1 DEF Init, IndexInv, IndexDistinct, Distinct, OnlyPayersListed, WholeListed,
              RunningListed, Writing, Listed, ToSet
<1>5. QED
  BY <1>2, <1>3, <1>4 DEF FaultInv

-----------------------------------------------------------------------------
(* Types and the order of the writes.                                      *)

\* What a new process starts from.
LEMMA ReopenType ==
  ASSUME TypeOK, Reopen
  PROVE  TypeOK' /\ WritesInOrder' /\ CacheCoherent' /\ ChecksumCurrent' /\ Stored' = utxoDB
  BY ReplyTypes DEF Reopen, TypeOK, WritesInOrder, CacheCoherent, ChecksumCurrent, Stored

\* A write or a read that fails leaves no call running.
LEMMA FailureType ==
  ASSUME TypeOK, WritesInOrder, WriteFails \/ \E u \in UTXO : ReadFails(u)
  PROVE  /\ TypeOK' /\ WritesInOrder' /\ Stored' = utxoDB
         /\ op' = "idle" /\ UNCHANGED <<utxoDB, index, utxoCache, checksum>>
<1>1. \A asked \in {<<>>} : Reply("error", <<>>, <<>>) \in Replies
  BY DEF Reply, Replies
<1>2. CASE WriteFails
  BY <1>1, <1>2 DEF WriteFails, Return, TypeOK, WritesInOrder, Stored
<1>3. CASE \E u \in UTXO : ReadFails(u)
  BY <1>1, <1>3 DEF ReadFails, TypeOK, WritesInOrder, Stored
<1>4. QED
  BY <1>2, <1>3

\* A call that changes neither the database nor what runs: a read, or a delete
\* that finds nothing.
Reads ==
  \/ \E u \in UTXO : DeleteNothing(u) \/ GetUTXO(u)
  \/ \E a \in Addr, start \in UTXO \cup {Empty}, limit \in Limits : UTXOIDs(a, start, limit)

\* The three kinds of steps of a call.
LEMMA CallKinds ==
  Calls <=> \/ \E u \in UTXO : PutUTXO(u) \/ DeleteUTXO(u)
            \/ Reads
            \/ WriteUTXO \/ WriteIndex
  BY DEF Calls, Reads

\* A read changes the cache at most.
LEMMA ReadsKeep ==
  ASSUME Reads
  PROVE  op = "idle" /\ UNCHANGED <<utxoDB, index, checksum, op, cur, todo>>
  BY DEF Reads, DeleteNothing, GetUTXO, UTXOIDs

\* Every step of a call keeps types and order.
LEMMA CallOrder ==
  ASSUME TypeOK, IndexDistinct, WritesInOrder, Calls
  PROVE  TypeOK' /\ WritesInOrder'
<1>1. TypeOK'
  BY TypeStep DEF Next
<1>2. CASE \E u \in UTXO : PutUTXO(u) \/ DeleteUTXO(u)
  BY <1>1, <1>2, BeginCall
<1>3. CASE Reads
  BY <1>1, <1>3, ReadsKeep DEF WritesInOrder, Stored
<1>4. CASE WriteUTXO \/ WriteIndex
  BY <1>1, <1>4, WriteOrder
<1>5. QED
  BY <1>1, <1>2, <1>3, <1>4, CallKinds

\* Every step keeps types and order.
LEMMA FaultTypeStep ==
  FaultInv /\ [FaultNext]_faultVars => FaultTypeOK' /\ WritesInOrder'
<1> SUFFICES ASSUME FaultInv, [FaultNext]_faultVars
             PROVE  FaultTypeOK' /\ WritesInOrder'
  OBVIOUS
<1>1. TypeOK /\ WritesInOrder /\ IndexDistinct /\ FaultTypeOK /\ (op # "idle" => cur \in UTXO)
  BY DEF FaultInv, FaultTypeOK, IndexInv, TypeOK
<1>2. CASE CallStep
  <2>1. TypeOK' /\ WritesInOrder'
    BY <1>1, <1>2, CallOrder DEF CallStep
  <2>2. QED
    BY <1>1, <1>2, <2>1 DEF CallStep, FaultTypeOK
<1>3. CASE NewProcess
  <2>1. Reopen
    BY <1>3 DEF NewProcess, Restart, Crash
  <2>2. torn' \in SUBSET UTXO
    BY <1>1, <1>3 DEF NewProcess, Crash, FaultTypeOK
  <2>3. QED
    BY <1>1, <1>3, <2>1, <2>2, ReopenType DEF NewProcess, FaultTypeOK
<1>4. CASE FailedWrite \/ FailedRead
  <2>1. TypeOK' /\ WritesInOrder'
    BY <1>1, <1>4, FailureType DEF FailedWrite, FailedRead
  <2>2. tainted' \in BOOLEAN /\ rewritten' \in BOOLEAN /\ torn' \in SUBSET UTXO
    BY <1>1, <1>4 DEF FailedWrite, WriteFails, FailedRead, FaultTypeOK
  <2>3. QED
    BY <2>1, <2>2 DEF FaultTypeOK
<1>5. CASE UNCHANGED faultVars
  BY <1>1, <1>5 DEF faultVars, vars, FaultTypeOK, TypeOK, WritesInOrder, Stored
<1>6. QED
  BY <1>2, <1>3, <1>4, <1>5 DEF FaultNext

-----------------------------------------------------------------------------
(* The cache and the checksum.                                             *)

\* What the store stands for is what the database holds, in every step that
\* starts nothing and taints nothing.
LEMMA StoredKept ==
  ASSUME FaultInv, FailedWrite \/ FailedRead, ~tainted'
  PROVE  Stored' = Stored /\ UNCHANGED <<utxoCache, checksum, tainted, rewritten>>
<1>1. TypeOK /\ WritesInOrder
  BY DEF FaultInv, FaultTypeOK
<1>2. Stored' = utxoDB
  BY <1>1, FailureType DEF FailedWrite, FailedRead
<1>3. Stored = utxoDB
  BY <1>1 DEF FailedWrite, FailedRead, ReadFails, WriteFails, DatabaseWritten,
              WritesInOrder, Stored
<1>4. UNCHANGED <<utxoCache, checksum, tainted, rewritten>>
  BY DEF FailedWrite, WriteFails, FailedRead, ReadFails
<1>5. QED
  BY <1>2, <1>3, <1>4

\* Every step keeps the cache coherent, or taints the process.
LEMMA FaultCacheStep ==
  FaultInv /\ [FaultNext]_faultVars => CacheCoherentUnlessTainted'
<1> SUFFICES ASSUME FaultInv, [FaultNext]_faultVars, ~tainted'
             PROVE  CacheCoherent'
  BY DEF CacheCoherentUnlessTainted
<1>1. TypeOK /\ WritesInOrder /\ (~tainted => CacheCoherent)
  BY DEF FaultInv, FaultTypeOK, CacheCoherentUnlessTainted
<1>2. CASE CallStep
  <2>1. CacheCoherent /\ Calls
    BY <1>1, <1>2 DEF CallStep
  <2>2. CASE \E u \in UTXO : PutUTXO(u) \/ DeleteUTXO(u)
    BY <1>1, <2>1, <2>2, BeginCall
  <2>3. CASE \E u \in UTXO : DeleteNothing(u) \/ GetUTXO(u)
    BY <1>1, <2>1, <2>3, ReadStep
  <2>4. CASE \E a \in Addr, start \in UTXO \cup {Empty}, limit \in Limits :
               UTXOIDs(a, start, limit)
    BY <2>1, <2>4 DEF UTXOIDs, CacheCoherent, Stored
  <2>5. CASE WriteUTXO \/ WriteIndex
    BY <1>1, <2>1, <2>5, WriteStored
  <2>6. QED
    BY <2>1, <2>2, <2>3, <2>4, <2>5 DEF Calls
<1>3. CASE NewProcess
  BY <1>1, <1>3, ReopenType DEF NewProcess, Restart, Crash
<1>4. CASE FailedWrite \/ FailedRead
  BY <1>1, <1>4, StoredKept DEF CacheCoherent
<1>5. CASE UNCHANGED faultVars
  BY <1>1, <1>5 DEF faultVars, vars, CacheCoherent, Stored
<1>6. QED
  BY <1>2, <1>3, <1>4, <1>5 DEF FaultNext

\* Every step keeps the checksum current, or taints the process, or puts a UTXO
\* that is stored.
LEMMA FaultChecksumStep ==
  FaultInv /\ [FaultNext]_faultVars => ChecksumCurrentUnlessTainted'
<1> SUFFICES ASSUME FaultInv, [FaultNext]_faultVars, ~tainted', ~rewritten'
             PROVE  ChecksumCurrent'
  BY DEF ChecksumCurrentUnlessTainted
<1>1. /\ TypeOK /\ WritesInOrder
      /\ ~tainted => CacheCoherent
      /\ ~tainted /\ ~rewritten => ChecksumCurrent
  BY DEF FaultInv, FaultTypeOK, CacheCoherentUnlessTainted, ChecksumCurrentUnlessTainted
<1>2. CASE CallStep
  <2>1. CacheCoherent /\ ChecksumCurrent /\ Calls
    BY <1>1, <1>2 DEF CallStep
  <2>2. ASSUME NEW u \in UTXO, PutUTXO(u) \/ DeleteUTXO(u)
        PROVE  ChecksumCurrent'
    <3>1. PutUTXO(u) => u \notin utxoDB
      BY <1>2 DEF CallStep, PutUTXO
    <3>2. QED
      BY <1>1, <2>1, <2>2, <3>1, ChecksumBegin DEF ChecksumCurrent
  <2>3. CASE Reads
    BY <2>1, <2>3, ReadsKeep DEF ChecksumCurrent, Stored
  <2>4. CASE WriteUTXO \/ WriteIndex
    <3>1. Stored' = Stored /\ UNCHANGED checksum
      BY <1>1, <2>4, WriteStored DEF WriteUTXO, WriteIndex
    <3>2. QED
      BY <2>1, <3>1 DEF ChecksumCurrent
  <2>5. QED
    BY <2>1, <2>2, <2>3, <2>4, CallKinds
<1>3. CASE NewProcess
  BY <1>1, <1>3, ReopenType DEF NewProcess, Restart, Crash
<1>4. CASE FailedWrite \/ FailedRead
  BY <1>1, <1>4, StoredKept DEF ChecksumCurrent
<1>5. CASE UNCHANGED faultVars
  BY <1>1, <1>5 DEF faultVars, vars, ChecksumCurrent, Stored
<1>6. QED
  BY <1>2, <1>3, <1>4, <1>5 DEF FaultNext

-----------------------------------------------------------------------------
(* The address lists.                                                      *)

\* A call that starts, or only reads, changes no list.
LEMMA CallListsKept ==
  ASSUME FaultInv, CallStep,
         Reads \/ \E u \in UTXO : PutUTXO(u) \/ DeleteUTXO(u)
  PROVE  IndexInv'
<1>1. TypeOK /\ IndexInv
  BY DEF FaultInv, FaultTypeOK
<1>2. op = "idle" /\ UNCHANGED <<utxoDB, index>>
  BY <1>1, ReadsKeep, BeginCall
<1>3. ~Writing /\ ~Writing'
  <2>1. CASE Reads
    BY <1>2, <2>1, ReadsKeep DEF Writing
  <2>2. ASSUME NEW u \in UTXO, PutUTXO(u) \/ DeleteUTXO(u)
        PROVE  ~Writing /\ ~Writing'
    BY <1>1, <1>2, <2>2, BeginCall, FirstWrites DEF Writing
  <2>3. QED
    BY <2>1, <2>2
<1>4. torn' = torn
  BY <1>2 DEF CallStep, LastWrite
<1>5. QED
  BY <1>1, <1>2, <1>3, <1>4
  DEF IndexInv, IndexDistinct, OnlyPayersListed, WholeListed, RunningListed, Listed, Pays

\* Whether lists are still to be written, after a write.
LEMMA WritingNext ==
  ASSUME TypeOK, WritesInOrder, WriteUTXO \/ WriteIndex
  PROVE  /\ op' # "idle" => Writing' /\ cur' = cur
         /\ op' = "idle" => ~Writing' /\ LastWrite /\ Tail(todo) = <<>>
         /\ op' # "idle" => ~LastWrite
<1>1. op # "idle" /\ Proceed /\ todo' = Tail(todo)
  BY WriteStored
<1>2. ASSUME op' # "idle"
      PROVE  Writing' /\ cur' = cur /\ ~LastWrite
  <2>1. cur' = cur /\ todo' # <<>> /\ todo' \in Seq(Target) /\ cur \in UTXO
    BY <1>1, <1>2, ProceedType DEF Target, TypeOK
  <2>2. ToSet(todo') \subseteq ToSet(Owners[cur])
    BY <1>1, <2>1, WriteStored DEF WriteUTXO, WriteIndex, WritesInOrder
  <2>3. Head(todo') \in ToSet(todo')
    BY <2>1, HeadTailKeys
  <2>4. ToSet(Owners[cur]) \subseteq Addr /\ Database \notin Addr
    BY <2>1, StateAssumption DEF ToSet
  <2>5. QED
    BY <1>1, <1>2, <2>1, <2>2, <2>3, <2>4 DEF Writing, LastWrite
<1>3. ASSUME op' = "idle"
      PROVE  ~Writing' /\ LastWrite /\ Tail(todo) = <<>>
  BY <1>1, <1>3, ProceedType DEF Writing, LastWrite
<1>4. QED
  BY <1>2, <1>3

\* The database write: only the lists of the call's own UTXO lag behind, and
\* those it has still to write.
LEMMA WriteUTXOLists ==
  ASSUME FaultInv, CallStep, WriteUTXO
  PROVE  IndexInv'
<1>1. /\ TypeOK /\ WritesInOrder /\ IndexInv /\ cur \in UTXO
      /\ ~Writing /\ Tail(todo) = Owners[cur] /\ todo' = Owners[cur]
      /\ UNCHANGED index
      /\ utxoDB' = Stored
  BY WriteStored DEF FaultInv, FaultTypeOK, WriteUTXO, Writing, WritesInOrder
<1>2. torn' = IF LastWrite THEN torn \ {cur} ELSE torn
  BY DEF CallStep
<1>3. \A u \in UTXO \ {cur} : u \in utxoDB' <=> u \in utxoDB
  BY <1>1 DEF Stored
<1>4. ASSUME NEW a \in Addr, NEW u \in UTXO, ~Pays(u, a)
      PROVE  Listed(u, a)'
  BY <1>1, <1>4 DEF IndexInv, OnlyPayersListed, Listed, Pays
<1>5. WholeListed'
  <2> SUFFICES ASSUME NEW a \in Addr, NEW u \in UTXO \ torn'
               PROVE  (u = cur' /\ Writing') \/ Listed(u, a)'
    BY DEF WholeListed
  <2>1. CASE u # cur
    BY <1>1, <1>2, <1>3, <2>1 DEF IndexInv, WholeListed, Listed, Pays
  <2>2. CASE u = cur /\ op' # "idle"
    BY <1>1, <2>2, WritingNext
  <2>3. CASE u = cur /\ op' = "idle"
    <3>1. Owners[cur] = <<>>
      BY <1>1, <2>3, WritingNext
    <3>2. ~Pays(u, a)
      BY <2>3, <3>1 DEF Pays, ToSet
    <3>3. QED
      BY <1>4, <3>2
  <2>4. QED
    BY <2>1, <2>2, <2>3
<1>6. RunningListed'
  <2> SUFFICES ASSUME Writing', NEW a \in Addr, NEW u \in UTXO, u = cur'
               PROVE  a \in ToSet(todo') \/ Listed(u, a)'
    BY DEF RunningListed
  <2>1. cur' = cur
    BY <1>1, WritingNext
  <2>2. QED
    BY <1>1, <1>4, <2>1 DEF Pays, Listed
<1>7. QED
  BY <1>1, <1>5, <1>6 DEF IndexInv, IndexDistinct, OnlyPayersListed, Pays

\* A list write: one more list is right, and with the last one the UTXO is
\* whole.
LEMMA WriteIndexLists ==
  ASSUME FaultInv, CallStep, WriteIndex
  PROVE  IndexInv'
<1> DEFINE h == Head(todo)
<1>1. /\ TypeOK /\ WritesInOrder /\ IndexInv /\ IndexDistinct /\ cur \in UTXO
      /\ Writing /\ todo' = Tail(todo) /\ ToSet(todo) = {h} \cup ToSet(Tail(todo))
      /\ utxoDB = Stored /\ utxoDB' = utxoDB
  BY WriteStored DEF FaultInv, FaultTypeOK, IndexInv, WriteIndex, Writing, WritesInOrder
<1>2. torn' = IF LastWrite THEN torn \ {cur} ELSE torn
  BY DEF CallStep
<1>3. /\ h \in Addr /\ Pays(cur, h)
      /\ ToSet(index'[h]) = IF op = "put" THEN ToSet(index[h]) \cup {cur}
                                          ELSE ToSet(index[h]) \ {cur}
      /\ \A a \in Addr \ {h} : index'[a] = index[a]
      /\ IndexDistinct'
      /\ cur \in Stored <=> op = "put"
  BY <1>1, ListWritten
<1>4. ASSUME NEW a \in Addr, NEW u \in UTXO, u = cur, a = h
      PROVE  Listed(u, a)'
  BY <1>1, <1>3, <1>4 DEF Listed, Pays
<1>5. ASSUME NEW a \in Addr, NEW u \in UTXO, u # cur \/ a # h, Listed(u, a)
      PROVE  Listed(u, a)'
  BY <1>1, <1>3, <1>5 DEF Listed, Pays
<1>6. ASSUME NEW a \in Addr, NEW u \in UTXO, u = cur, a \notin ToSet(Tail(todo))
      PROVE  Listed(u, a)'
  <2>1. CASE a = h
    BY <1>4, <1>6, <2>1
  <2>2. CASE a # h
    <3>1. Listed(u, a)
      BY <1>1, <1>6, <2>2 DEF IndexInv, RunningListed
    <3>2. QED
      BY <1>1, <1>5, <2>2, <3>1
  <2>3. QED
    BY <2>1, <2>2
<1>7. OnlyPayersListed'
  BY <1>1, <1>3 DEF IndexInv, OnlyPayersListed, Pays
<1>8. WholeListed'
  <2> SUFFICES ASSUME NEW a \in Addr, NEW u \in UTXO \ torn'
               PROVE  (u = cur' /\ Writing') \/ Listed(u, a)'
    BY DEF WholeListed
  <2>1. CASE u # cur
    <3>1. Listed(u, a)
      BY <1>1, <1>2, <2>1 DEF IndexInv, WholeListed
    <3>2. QED
      BY <1>5, <2>1, <3>1
  <2>2. CASE u = cur /\ op' # "idle"
    BY <1>1, <2>2, WritingNext
  <2>3. CASE u = cur /\ op' = "idle"
    <3>1. a \notin ToSet(Tail(todo))
      BY <1>1, <2>3, WritingNext DEF ToSet
    <3>2. QED
      BY <1>6, <2>3, <3>1
  <2>4. QED
    BY <2>1, <2>2, <2>3
<1>9. RunningListed'
  <2> SUFFICES ASSUME Writing', NEW a \in Addr, NEW u \in UTXO, u = cur'
               PROVE  a \in ToSet(todo') \/ Listed(u, a)'
    BY DEF RunningListed
  <2>1. cur' = cur
    BY <1>1, WritingNext
  <2>2. QED
    BY <1>1, <1>6, <2>1 DEF Listed, Pays
<1>10. QED
  BY <1>3, <1>7, <1>8, <1>9 DEF IndexInv

\* A call that is cut off after its database write tears its UTXO, and no other.
LEMMA CutOffLists ==
  ASSUME FaultInv, op' = "idle", UNCHANGED <<utxoDB, index>>,
         torn' = IF Writing THEN torn \cup {cur} ELSE torn
  PROVE  IndexInv'
<1>1. IndexInv /\ ~Writing'
  BY DEF FaultInv, Writing
<1>2. \A a \in Addr, u \in UTXO \ torn' : Listed(u, a)
  BY <1>1 DEF IndexInv, WholeListed
<1>3. QED
  BY <1>1, <1>2
  DEF IndexInv, IndexDistinct, OnlyPayersListed, WholeListed, RunningListed, Listed, Pays

\* Every step keeps the lists of the UTXOs that are whole right.
LEMMA FaultIndexStep == FaultInv /\ [FaultNext]_faultVars => IndexInv'
<1> SUFFICES ASSUME FaultInv, [FaultNext]_faultVars
             PROVE  IndexInv'
  OBVIOUS
<1>1. CASE CallStep
  BY <1>1, CallListsKept, WriteUTXOLists, WriteIndexLists, CallKinds DEF CallStep
<1>2. CASE NewProcess
  BY <1>2, CutOffLists DEF NewProcess, Restart, Crash, Reopen, DatabaseWritten, Writing
<1>3. CASE FailedWrite
  BY <1>3, CutOffLists DEF FailedWrite, WriteFails, Return, DatabaseWritten, Writing
<1>4. CASE FailedRead
  BY <1>4, CutOffLists DEF FailedRead, ReadFails, Writing
<1>5. CASE UNCHANGED faultVars
  BY <1>5 DEF faultVars, vars, FaultInv, IndexInv, IndexDistinct, OnlyPayersListed,
              WholeListed, RunningListed, Writing, Listed, Pays
<1>6. QED
  BY <1>1, <1>2, <1>3, <1>4, <1>5 DEF FaultNext

\* What is listed follows the store, for whole UTXOs.
LEMMA ListedComplete == FaultInv => IndexCompleteUnlessTorn
<1> SUFFICES ASSUME FaultInv, NEW a \in Addr, NEW u \in UTXO \ torn,
                    ~(u = cur /\ a \in ToSet(todo))
             PROVE  u \in ToSet(index[a]) <=> u \in Stored /\ Pays(u, a)
  BY DEF IndexCompleteUnlessTorn
<1>1. TypeOK /\ WritesInOrder /\ IndexInv
  BY DEF FaultInv, FaultTypeOK
<1>2. CASE u # cur \/ op = "idle"
  BY <1>1, <1>2 DEF IndexInv, WholeListed, Writing, Listed, Stored
<1>3. CASE u = cur /\ Writing
  BY <1>1, <1>3 DEF IndexInv, RunningListed, Writing, WritesInOrder, Listed
<1>4. CASE u = cur /\ op # "idle" /\ ~Writing
  <2>1. Tail(todo) = Owners[cur] /\ ToSet(todo) = {Head(todo)} \cup ToSet(Tail(todo))
    BY <1>1, <1>4, NextWrites DEF Writing, WritesInOrder
  <2>2. ~Pays(u, a)
    BY <1>4, <2>1 DEF Pays
  <2>3. QED
    BY <1>1, <2>2 DEF IndexInv, OnlyPayersListed
<1>5. QED
  BY <1>2, <1>3, <1>4

-----------------------------------------------------------------------------
(* Theorems.                                                               *)

\* FaultInv holds always.
LEMMA FaultInvAlways == FaultSpec => []FaultInv
<1>1. FaultInv /\ [FaultNext]_faultVars => FaultInv'
  BY FaultTypeStep, FaultCacheStep, FaultChecksumStep, FaultIndexStep DEF FaultInv
<1>2. QED
  BY <1>1, FaultInvInit, PTL DEF FaultSpec

\* Whatever fails and wherever the process stops, cache and database disagree
\* only after a database write that failed, and only until the next start
\* (utxo_state.go 146-188, 205-219).
THEOREM FaultsLeaveCacheCoherent == FaultSpec => []CacheCoherentUnlessTainted
<1>1. FaultInv => CacheCoherentUnlessTainted
  BY DEF FaultInv
<1>2. QED
  BY <1>1, FaultInvAlways, PTL

\* The same for the checksum, unless a stored UTXO was put again in this process
\* (utxo_state.go 183, 214, 273-297).
THEOREM FaultsLeaveChecksumCurrent == FaultSpec => []ChecksumCurrentUnlessTainted
<1>1. FaultInv => ChecksumCurrentUnlessTainted
  BY DEF FaultInv
<1>2. QED
  BY <1>1, FaultInvAlways, PTL

\* Only the UTXO of a call that was cut off after its database write can be
\* listed wrongly, and the next call about it that runs to its end repairs every
\* list (utxo_state.go 186-203, 217-233).
THEOREM FaultsLeaveIndexComplete == FaultSpec => []IndexCompleteUnlessTorn
  BY ListedComplete, FaultInvAlways, PTL
=============================================================================
