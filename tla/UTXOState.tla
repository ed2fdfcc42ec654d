----------------------------- MODULE UTXOState -----------------------------
(***************************************************************************)
(* The UTXO store of utxo_state.go: a database of UTXOs, a linked list of  *)
(* UTXO identifiers per address, an LRU cache in front of the database and *)
(* a checksum, the XOR of the identifiers of the stored UTXOs.             *)
(*                                                                         *)
(* utxoState takes no lock: its callers make one call at a time.  A        *)
(* call of PutUTXO or DeleteUTXO is not atomic, though: it changes the     *)
(* checksum and the cache first, then writes the database and the address  *)
(* lists one after the other, and each of these writes can fail, or be the *)
(* last one before the process stops.  "todo" holds the writes the running *)
(* call has still to make.                                                 *)
(*                                                                         *)
(* XOR is modelled by symmetric difference: the checksum is the set of     *)
(* identifiers that have been XORed into it an odd number of times.        *)
(***************************************************************************)
EXTENDS FiniteSets, LinkedIndex

CONSTANTS
  UTXO,           (* the identifiers of the UTXOs that can exist          *)
  Addr,           (* the addresses that outputs can pay                   *)
  Owners,         (* UTXO -> the addresses its output reports, in order:  *)
                  (* empty when the output is not Addressable             *)
  Empty,          (* ids.Empty                                            *)
  Limits,         (* the page limits callers pass to UTXOIDs              *)
  CacheSize,      (* utxoCacheSize                                        *)
  TrackChecksum,  (* trackChecksum                                        *)
  Reput           (* callers may put a UTXO that is already stored        *)

Database == "utxoDB"

ASSUME StateAssumption ==
  /\ Owners \in [UTXO -> Seq(Addr)]
  /\ Empty \notin UTXO
  /\ Limits \subseteq Nat
  /\ CacheSize \in Nat \ {0}
  /\ TrackChecksum \in BOOLEAN /\ Reput \in BOOLEAN
  /\ Database \notin Addr

VARIABLES
  utxoDB,     (* the identifiers in the UTXO database                     *)
  index,      (* address -> its linked list, the head first               *)
  utxoCache,  (* identifier -> cached UTXO, cached nil, or no entry       *)
  checksum,
  op,         (* the call that is running                                 *)
  cur,        (* the UTXO it is about                                     *)
  todo,       (* the writes it has still to make, in order                *)
  reply       (* what the last call returned                              *)

vars == <<utxoDB, index, utxoCache, checksum, op, cur, todo, reply>>

\* What calls return; the answer to a read says what was asked.
Replies ==
  [kind : {"none", "running", "ok", "found", "notFound", "ids", "error"},
   asked : {<<>>} \cup {<<u>> : u \in UTXO} \cup (Addr \X (UTXO \cup {Empty}) \X Limits),
   ids : Seq(UTXO)]

TypeOK ==
  /\ utxoDB \in SUBSET UTXO
  /\ index \in [Addr -> Seq(UTXO)]
  /\ utxoCache \in [UTXO -> {"miss", "present", "nil"}]
  /\ checksum \in SUBSET UTXO
  /\ op \in {"idle", "put", "delete"}
  /\ cur \in UTXO \cup {Empty}
  /\ op # "idle" => cur \in UTXO /\ todo # <<>>
  /\ op = "idle" => todo = <<>>
  /\ todo \in Seq(Addr \cup {Database})
  /\ reply \in Replies

Reply(kind, asked, ids) == [kind |-> kind, asked |-> asked, ids |-> ids]

-----------------------------------------------------------------------------
(* The cache and the checksum.                                             *)

Cached == {u \in UTXO : utxoCache[u] # "miss"}

\* The caches that Put of the LRU can leave: it evicts an entry when full.
\* Which one depends on the order of use, and is left open.
CachePut(u, entry) ==
  IF u \in Cached \/ Cardinality(Cached) < CacheSize
  THEN {[utxoCache EXCEPT ![u] = entry]}
  ELSE {[utxoCache EXCEPT ![u] = entry, ![v] = "miss"] : v \in Cached}

\* Mutant: what was XORed in is never XORed out.
UpdateChecksumOnlyAdds(u) ==
  checksum' = IF TrackChecksum THEN checksum \cup {u} ELSE checksum

UpdateChecksum(u) ==
  checksum' = IF ~TrackChecksum THEN checksum
              ELSE IF u \in checksum THEN checksum \ {u} ELSE checksum \cup {u}

\* What GetUTXO finds when the database can be read.
Found(u) == \/ utxoCache[u] = "present"
            \/ utxoCache[u] = "miss" /\ u \in utxoDB

-----------------------------------------------------------------------------
(* The calls.                                                              *)

\* NewUTXOState over an empty database.
Init ==
  /\ utxoDB = {}
  /\ index = [a \in Addr |-> <<>>]
  /\ utxoCache = [u \in UTXO |-> "miss"]
  /\ checksum = {}
  /\ op = "idle" /\ cur = Empty /\ todo = <<>>
  /\ reply = Reply("none", <<>>, <<>>)

\* PutUTXO up to its first write.  An output WireBytes cannot encode makes it
\* return before it has changed anything, which is no step.
PutUTXO(u) ==
  /\ op = "idle"
  /\ Reput \/ u \notin utxoDB
  /\ UpdateChecksum(u)
  /\ utxoCache' \in CachePut(u, "present")
  /\ op' = "put" /\ cur' = u /\ todo' = <<Database>> \o Owners[u]
  /\ reply' = Reply("running", <<>>, <<>>)
  /\ UNCHANGED <<utxoDB, index>>

\* Mutant: the entry of the deleted UTXO stays in the cache.
DeleteUTXOKeepsEntry(u) ==
  /\ op = "idle"
  /\ Found(u)
  /\ UpdateChecksum(u)
  /\ utxoCache' \in CachePut(u, "present")
  /\ op' = "delete" /\ cur' = u /\ todo' = <<Database>> \o Owners[u]
  /\ reply' = Reply("running", <<>>, <<>>)
  /\ UNCHANGED <<utxoDB, index>>

\* DeleteUTXO up to its first write.  GetUTXO may fill the cache on the way;
\* what remains is the nil entry.
DeleteUTXO(u) ==
  /\ op = "idle"
  /\ Found(u)
  /\ UpdateChecksum(u)
  /\ utxoCache' \in CachePut(u, "nil")
  /\ op' = "delete" /\ cur' = u /\ todo' = <<Database>> \o Owners[u]
  /\ reply' = Reply("running", <<>>, <<>>)
  /\ UNCHANGED <<utxoDB, index>>

\* DeleteUTXO of a UTXO that GetUTXO does not find returns no error.
DeleteNothing(u) ==
  /\ op = "idle"
  /\ ~Found(u)
  /\ utxoCache' \in CachePut(u, "nil")
  /\ reply' = Reply("ok", <<>>, <<>>)
  /\ UNCHANGED <<utxoDB, index, checksum, op, cur, todo>>

\* The running call makes its next write, and returns after the last one.
Return(result) ==
  /\ op' = "idle" /\ cur' = Empty /\ todo' = <<>>
  /\ reply' = Reply(result, <<>>, <<>>)

Proceed ==
  IF Tail(todo) = <<>> THEN Return("ok")
  ELSE todo' = Tail(todo) /\ UNCHANGED <<op, cur, reply>>

WriteUTXO ==
  /\ op # "idle"
  /\ Head(todo) = Database
  /\ utxoDB' = IF op = "put" THEN utxoDB \cup {cur} ELSE utxoDB \ {cur}
  /\ Proceed
  /\ UNCHANGED <<index, utxoCache, checksum>>

\* Mutant: a delete leaves the UTXO in the list of its address.
WriteIndexOnlyPuts ==
  /\ op # "idle"
  /\ Head(todo) # Database
  /\ index' = [index EXCEPT ![Head(todo)] = IF op = "put" THEN ListPut(@, cur) ELSE @]
  /\ Proceed
  /\ UNCHANGED <<utxoDB, utxoCache, checksum>>

WriteIndex ==
  /\ op # "idle"
  /\ Head(todo) # Database
  /\ index' = [index EXCEPT ![Head(todo)] = IF op = "put" THEN ListPut(@, cur)
                                                           ELSE ListDelete(@, cur)]
  /\ Proceed
  /\ UNCHANGED <<utxoDB, utxoCache, checksum>>

\* GetUTXO caches what it reads, the absence of the UTXO too.
GetUTXO(u) ==
  /\ op = "idle"
  /\ IF utxoCache[u] = "miss"
     THEN utxoCache' \in CachePut(u, IF u \in utxoDB THEN "present" ELSE "nil")
     ELSE UNCHANGED utxoCache
  /\ reply' = Reply(IF Found(u) THEN "found" ELSE "notFound", <<u>>, <<>>)
  /\ UNCHANGED <<utxoDB, index, checksum, op, cur, todo>>

\* Mutant: the iterator's first key, [start] itself, is not passed over.
UTXOIDsWithStart(a, start, limit) ==
  /\ op = "idle"
  /\ reply' = Reply("ids", <<a, start, limit>>,
                    (IF start \in ToSet(index[a]) THEN <<start>> ELSE <<>>)
                      \o IDsAfter(index[a], start, limit - 1))
  /\ UNCHANGED <<utxoDB, index, utxoCache, checksum, op, cur, todo>>

\* At most [limit] identifiers of the address, those after [start].
UTXOIDs(a, start, limit) ==
  /\ op = "idle"
  /\ reply' = Reply("ids", <<a, start, limit>>, IDsAfter(index[a], start, limit))
  /\ UNCHANGED <<utxoDB, index, utxoCache, checksum, op, cur, todo>>

-----------------------------------------------------------------------------
(* The process stops and a new one opens the database: the cache is gone   *)
(* and initChecksum recomputes the checksum from the stored identifiers.   *)

\* Mutant: the new process does not recompute the checksum.
ReopenUnsummed ==
  /\ utxoCache' = [u \in UTXO |-> "miss"]
  /\ checksum' = {}
  /\ op' = "idle" /\ cur' = Empty /\ todo' = <<>>
  /\ reply' = Reply("none", <<>>, <<>>)
  /\ UNCHANGED <<utxoDB, index>>

Reopen ==
  /\ utxoCache' = [u \in UTXO |-> "miss"]
  /\ checksum' = IF TrackChecksum THEN utxoDB ELSE {}
  /\ op' = "idle" /\ cur' = Empty /\ todo' = <<>>
  /\ reply' = Reply("none", <<>>, <<>>)
  /\ UNCHANGED <<utxoDB, index>>

Restart == op = "idle" /\ Reopen

\* The process stops between two writes of a call.
Crash == op # "idle" /\ Reopen

\* A write fails: the call returns the error and leaves the rest undone.
WriteFails ==
  /\ op # "idle"
  /\ Return("error")
  /\ UNCHANGED <<utxoDB, index, utxoCache, checksum>>

\* GetUTXO, called alone or by DeleteUTXO, cannot read or parse the UTXO.
ReadFails(u) ==
  /\ op = "idle"
  /\ utxoCache[u] = "miss"
  /\ reply' = Reply("error", <<>>, <<>>)
  /\ UNCHANGED <<utxoDB, index, utxoCache, checksum, op, cur, todo>>

-----------------------------------------------------------------------------
(* The store over a database that works, and over one that may fail.       *)

Calls ==
  \/ \E u \in UTXO : PutUTXO(u) \/ DeleteUTXO(u) \/ DeleteNothing(u) \/ GetUTXO(u)
  \/ \E a \in Addr, start \in UTXO \cup {Empty}, limit \in Limits :
       UTXOIDs(a, start, limit)
  \/ WriteUTXO
  \/ WriteIndex

Next == Calls \/ Restart

Spec == Init /\ [][Next]_vars

-----------------------------------------------------------------------------
(* Properties of the store over a database that works.                     *)

\* The set the store stands for: what the database holds once the running
\* call has made its writes.
Stored ==
  CASE op = "put"    -> utxoDB \cup {cur}
    [] op = "delete" -> utxoDB \ {cur}
    [] OTHER         -> utxoDB

\* The cache never contradicts the database: an entry is the answer the
\* database would give once the running call is done (utxo_state.go 146-172,
\* 185, 216 put entries before the write they announce).
CacheCoherent ==
  \A u \in UTXO : /\ utxoCache[u] = "present" => u \in Stored
                  /\ utxoCache[u] = "nil"     => u \notin Stored

\* Checksum returns the XOR of the stored identifiers, as initChecksum would
\* recompute it: the toggles of every put and delete never drift from it
\* (utxo_state.go 183, 214, 273-297).
ChecksumCurrent == TrackChecksum => checksum = Stored

Pays(u, a) == a \in ToSet(Owners[u])

\* An address lists exactly the stored UTXOs that pay it, except the one of
\* the running call for the addresses whose write is still to come, and lists
\* none twice (utxo_state.go 190-203, 221-233).
IndexComplete ==
  \A a \in Addr :
    /\ \A u \in UTXO :
         (u = cur /\ a \in ToSet(todo))
           \/ (u \in ToSet(index[a]) <=> u \in Stored /\ Pays(u, a))
    /\ Distinct(index[a])

\* The database is written before the address lists: while a call has its
\* database write to make it has every list to write, and once it has made it
\* the database is as the call leaves it (utxo_state.go 186-202, 217-233).
WritesInOrder ==
  op # "idle" =>
    IF Head(todo) = Database
    THEN Tail(todo) = Owners[cur]
    ELSE /\ ToSet(todo) \subseteq ToSet(Owners[cur])
         /\ utxoDB = Stored

\* The store implements the set of its interface.
Set == INSTANCE UTXOSet WITH stored <- Stored
ImplementsSet == Set!Spec
=============================================================================
