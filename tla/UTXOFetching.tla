---------------------------- MODULE UTXOFetching ----------------------------
(***************************************************************************)
(* GetPaginatedUTXOs, GetAllUTXOs and GetBalance of utxo_fetching.go, and  *)
(* a client that fetches the UTXOs of some addresses page after page while *)
(* UTXOs are stored and deleted in between.  A page is one call and sees   *)
(* one state of the store: callers do not run it concurrently with writes. *)
(* The store is the one UTXOState implements; its calls are one step here. *)
(*                                                                         *)
(* Identifiers and addresses are numbers, because their order matters.     *)
(***************************************************************************)
EXTENDS FiniteSets, LinkedIndex

CONSTANTS
  UTXO,        (* the identifiers of the UTXOs that can exist             *)
  Addr,        (* the addresses that outputs can pay                      *)
  Owners,      (* UTXO -> the set of addresses its output reports         *)
  Wanted,      (* the addresses the client asks for                       *)
  Limits,      (* the page limits clients ask with                        *)
  Amount,      (* UTXO -> the amount of its output, NoAmount for one that *)
               (* is no Amounter                                          *)
  MaxAmount,   (* math.MaxUint64                                          *)
  MaxChanges   (* bound: puts and deletes in a behavior                   *)

Empty == 0       \* ids.Empty, below every identifier
ShortEmpty == 0  \* ids.ShortEmpty, below every address
NoAmount == -1

ASSUME FetchAssumption ==
  /\ UTXO \subseteq Nat \ {Empty} /\ IsFiniteSet(UTXO)
  /\ Addr \subseteq Nat \ {ShortEmpty}
  /\ Owners \in [UTXO -> SUBSET Addr]
  /\ Wanted \subseteq Addr /\ IsFiniteSet(Wanted)
  /\ Limits \subseteq Nat \ {0}
  /\ MaxAmount \in Nat
  /\ Amount \in [UTXO -> 0..MaxAmount \cup {NoAmount}]
  /\ MaxChanges \in Nat

VARIABLES
  stored, index,  (* the UTXOs and the address lists of the store         *)
  limit,          (* the page limit of this client                        *)
  cursor,         (* the address and identifier the next page starts at   *)
  page,           (* the UTXOs of the last page                           *)
  scan,           (* where the client is                                  *)
  got,            (* the UTXOs the client has received                    *)
  held,           (* history: the UTXOs stored since the scan began       *)
  changes

storeVars == <<stored, index>>
scanVars == <<limit, cursor, page, scan, got>>
vars == <<storeVars, scanVars, held, changes>>

Wants(u) == Owners[u] \cap Wanted # {}

TypeOK ==
  /\ stored \in SUBSET UTXO
  /\ index \in [Addr -> Seq(UTXO)]
  /\ limit \in Limits
  /\ cursor \in [addr : Addr \cup {ShortEmpty}, id : UTXO \cup {Empty}]
  /\ page \in Seq(UTXO)
  /\ scan \in {"off", "paging", "done", "failed"}
  /\ got \in SUBSET UTXO
  /\ held \in SUBSET UTXO
  /\ changes \in 0..MaxChanges

-----------------------------------------------------------------------------
(* GetPaginatedUTXOs.                                                      *)

\* The identifiers UTXOIDs gives for an address.  The last address is continued
\* after the last identifier, and every search has the page limit, not what
\* remains of it.
Searched(a, lastAddr, lastUTXOID, size) ==
  IDsAfter(index[a], IF a = lastAddr THEN lastUTXOID ELSE Empty, size)

\* The identifiers of all addresses, with their addresses, in the order the
\* loops visit them: the addresses before the last one are skipped, the others
\* are searched one after the other, the least first.
Visits(lastAddr, lastUTXOID, size) ==
  LET ids(a) == Searched(a, lastAddr, lastUTXOID, size)
      of(a) == [j \in DOMAIN ids(a) |-> [addr |-> a, id |-> ids(a)[j]]]
      searching[A \in SUBSET Wanted] ==
        IF A = {} THEN <<>> ELSE of(Min(A)) \o searching[A \ {Min(A)}]
  IN  searching[{a \in Wanted : a >= lastAddr}]

\* The identifiers among the first n visits: the set "seen".
Seen(visits, n) == {visits[i].id : i \in 1..n}

\* Mutant: the loops stop at a UTXO that is in the page already.
LastVisitBreaks(visits, size) ==
  LET again == {n \in DOMAIN visits : visits[n].id \in Seen(visits, n - 1)}
      full == {n \in DOMAIN visits : Cardinality(Seen(visits, n)) = size}
  IN  IF again \cup full = {} THEN Len(visits) ELSE Min(again \cup full)

\* The loops return at the visit that finds the last UTXO the limit allows.
LastVisit(visits, size) ==
  LET full == {n \in DOMAIN visits : Cardinality(Seen(visits, n)) = size}
  IN  IF full = {} THEN Len(visits) ELSE Min(full)

\* Mutant: the page has a UTXO once for every address it pays.
EverySeen(visits, n) == [k \in 1..n |-> visits[k].id]

\* The UTXOs of the first n visits, each at its first visit.
FirstSeen(visits, n) ==
  LET found[k \in 0..n] ==
        IF k = 0 THEN <<>>
        ELSE IF visits[k].id \in Seen(visits, k - 1) THEN found[k - 1]
        ELSE Append(found[k - 1], visits[k].id)
  IN  found[n]

\* Mutant: the cursor is not moved.
ReachedNothing(visits, n, last) == last

\* The cursor after n visits: the address and the identifier searched last.
Reached(visits, n, last) ==
  [addr |-> IF Cardinality(Seen(visits, n)) = limit THEN visits[n].addr
            ELSE Max({last.addr} \cup Wanted),
   id   |-> IF n = 0 THEN last.id ELSE visits[n].id]

-----------------------------------------------------------------------------
(* GetAllUTXOs and GetBalance, which ask for one page of all there are.    *)

\* Its limit is above the number of UTXOs.
MaxInt == Cardinality(UTXO) + 1

Failed == <<0>>

\* The UTXOs, or Failed when one that is listed is not stored.
GetAllUTXOs ==
  LET visits == Visits(ShortEmpty, Empty, MaxInt)
      all == FirstSeen(visits, LastVisit(visits, MaxInt))
  IN  IF \A i \in DOMAIN all : all[i] \in stored THEN all ELSE Failed

\* Mutant: the sum wraps around.
AddWrapping(balance, amount) == (balance + amount) % (MaxAmount + 1)

\* The checked addition of the library, and NoAmount for its error, which sticks.
Add(balance, amount) ==
  IF balance = NoAmount \/ balance + amount > MaxAmount THEN NoAmount ELSE balance + amount

\* The balance after every UTXO that is an Amounter is added.
TotalOf(utxos) ==
  LET balance[k \in 0..Len(utxos)] ==
        IF k = 0 THEN 0
        ELSE IF Amount[utxos[k]] = NoAmount THEN balance[k - 1]
        ELSE Add(balance[k - 1], Amount[utxos[k]])
  IN  balance[Len(utxos)]

GetBalance == IF GetAllUTXOs = Failed THEN NoAmount ELSE TotalOf(GetAllUTXOs)

-----------------------------------------------------------------------------
Init ==
  /\ limit \in Limits
  /\ stored = {}
  /\ index = [a \in Addr |-> <<>>]
  /\ cursor = [addr |-> ShortEmpty, id |-> Empty]
  /\ page = <<>>
  /\ scan = "off"
  /\ got = {} /\ held = {}
  /\ changes = 0

PutUTXO(u) ==
  /\ changes < MaxChanges
  /\ u \notin stored
  /\ stored' = stored \cup {u}
  /\ index' = [a \in Addr |-> IF a \in Owners[u] THEN ListPut(index[a], u) ELSE index[a]]
  /\ changes' = changes + 1
  /\ UNCHANGED <<scanVars, held>>

\* Mutant: a deleted UTXO leaves the list of its first address only.
DeleteUTXOFirstList(u) ==
  /\ changes < MaxChanges
  /\ u \in stored
  /\ stored' = stored \ {u}
  /\ index' = [a \in Addr |-> IF a = Min(Owners[u]) THEN ListDelete(index[a], u) ELSE index[a]]
  /\ held' = held \ {u}
  /\ changes' = changes + 1
  /\ UNCHANGED scanVars

DeleteUTXO(u) ==
  /\ changes < MaxChanges
  /\ u \in stored
  /\ stored' = stored \ {u}
  /\ index' = [a \in Addr |-> IF a \in Owners[u] THEN ListDelete(index[a], u) ELSE index[a]]
  /\ held' = held \ {u}
  /\ changes' = changes + 1
  /\ UNCHANGED scanVars

\* The client begins with the empty cursor, as GetAllUTXOs does (its limit is
\* above the number of UTXOs).
Begin ==
  /\ scan = "off"
  /\ scan' = "paging"
  /\ held' = stored
  /\ UNCHANGED <<storeVars, limit, cursor, page, got, changes>>

\* The client asks for the next page with the cursor of the last one, until a
\* page is shorter than the limit.
NextPage ==
  /\ scan = "paging"
  /\ \E visits \in {Visits(cursor.addr, cursor.id, limit)} :
     \E n \in {LastVisit(visits, limit)} :
       IF \E i \in 1..n : visits[i].id \notin stored
       THEN scan' = "failed" /\ UNCHANGED <<cursor, page, got>>
       ELSE /\ cursor' = Reached(visits, n, cursor)
            /\ page' = FirstSeen(visits, n)
            /\ got' = got \cup Seen(visits, n)
            /\ scan' = IF Cardinality(Seen(visits, n)) < limit THEN "done" ELSE "paging"
  /\ UNCHANGED <<storeVars, limit, held, changes>>

\* The process has nothing left to do.
Finished ==
  /\ scan \in {"done", "failed"}
  /\ UNCHANGED vars

Next ==
  \/ \E u \in UTXO : PutUTXO(u) \/ DeleteUTXO(u)
  \/ Begin
  \/ NextPage
  \/ Finished

Spec == Init /\ [][Next]_vars

\* A client that has begun keeps asking.
FairSpec == Spec /\ WF_vars(NextPage)

-----------------------------------------------------------------------------
\* A UTXO of the wanted addresses that was stored during the whole scan is in
\* one of its pages, whatever was stored and deleted meanwhile, the UTXO of the
\* cursor included (utxo_fetching.go 60-109).
ScanComplete ==
  scan = "done" => \A u \in held : Wants(u) => u \in got

\* A page holds distinct UTXOs that are stored and pay a wanted address, and no
\* more than the limit (utxo_fetching.go 91-104).
PageSound ==
  [][NextPage =>
       /\ Len(page') <= limit
       /\ \A i \in DOMAIN page' : page'[i] \in stored /\ Wants(page'[i])
       /\ \A i, j \in DOMAIN page' : page'[i] = page'[j] => i = j]_vars

\* No page fails: the lists name stored UTXOs only (utxo_fetching.go 98-101).
PagesSucceed == scan # "failed"

\* The balance of the wanted addresses is the sum of what is stored for them, a
\* UTXO that pays several of them counted once, and an error when that does not
\* fit a word, never another number (utxo_fetching.go 16-43).
BalanceExact ==
  LET counted == {u \in stored : Wants(u) /\ Amount[u] # NoAmount}
      due == SumFunctionOnSet(Amount, counted)
  IN  GetBalance = IF due <= MaxAmount THEN due ELSE NoAmount

\* The scan ends once the store stops changing: each page moves the cursor on
\* (utxo_fetching.go 86, 92).
ScanEnds == scan = "paging" ~> scan = "done"
=============================================================================
