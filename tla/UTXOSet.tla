------------------------------ MODULE UTXOSet ------------------------------
(***************************************************************************)
(* What the interfaces UTXOReader and UTXOWriter promise a caller whose    *)
(* database never fails: a set of UTXOs, read and changed one call at a    *)
(* time, and per address the list of the UTXOs that pay it.  How the set   *)
(* is cached, indexed and written is left to UTXOState, which implements   *)
(* this specification.                                                     *)
(***************************************************************************)
EXTENDS Naturals, Sequences

CONSTANTS
  UTXO,     (* the identifiers of the UTXOs that can exist               *)
  Addr,     (* the addresses that outputs can pay                        *)
  Owners,   (* UTXO -> the addresses its output reports, in order        *)
  Empty,    (* ids.Empty: the identifier that names no UTXO              *)
  Limits    (* the page limits callers pass to UTXOIDs                   *)

VARIABLES stored, reply

vars == <<stored, reply>>

\* The answer to a read says what was asked.
Reply(kind, asked, ids) == [kind |-> kind, asked |-> asked, ids |-> ids]

Owned(a) == {u \in stored : \E i \in DOMAIN Owners[u] : Owners[u][i] = a}

\* The promise of UTXOIDs: distinct stored UTXOs of the address, [start] not
\* among them, at most [limit]; from the beginning when [start] is not listed,
\* so that a short answer is then the whole list.
IsPage(s, a, start, limit) ==
  /\ \A i \in DOMAIN s : s[i] \in Owned(a) \ {start}
  /\ \A i, j \in DOMAIN s : s[i] = s[j] => i = j
  /\ start \notin Owned(a) /\ Len(s) < limit
       => \A u \in Owned(a) : \E i \in DOMAIN s : s[i] = u

Init ==
  /\ stored = {}
  /\ reply = Reply("none", <<>>, <<>>)

Idle == reply.kind # "running"

Put(u) ==
  /\ Idle
  /\ stored' = stored \cup {u}
  /\ reply' = Reply("running", <<>>, <<>>)

Delete(u) ==
  /\ Idle
  /\ stored' = stored \ {u}
  /\ \/ reply' = Reply("running", <<>>, <<>>)
     \/ u \notin stored /\ reply' = Reply("ok", <<>>, <<>>)

Return ==
  /\ ~Idle
  /\ reply' = Reply("ok", <<>>, <<>>)
  /\ UNCHANGED stored

Get(u) ==
  /\ Idle
  /\ reply' = Reply(IF u \in stored THEN "found" ELSE "notFound", <<u>>, <<>>)
  /\ UNCHANGED stored

List(a, start, limit) ==
  /\ Idle
  /\ \E n \in 0..limit : \E s \in [1..n -> stored] :
       /\ IsPage(s, a, start, limit)
       /\ reply' = Reply("ids", <<a, start, limit>>, s)
  /\ UNCHANGED stored

\* A new process finds the set its predecessor left.
Reopen ==
  /\ Idle
  /\ reply' = Reply("none", <<>>, <<>>)
  /\ UNCHANGED stored

Next ==
  \/ \E u \in UTXO : Put(u) \/ Delete(u) \/ Get(u)
  \/ Return
  \/ Reopen
  \/ \E a \in Addr, start \in UTXO \cup {Empty}, limit \in Limits :
       List(a, start, limit)

Spec == Init /\ [][Next]_vars
=============================================================================
