---------------------------- MODULE LinkedIndex ----------------------------
(***************************************************************************)
(* The list of UTXO identifiers kept for one address.  utxo_state.go keeps *)
(* it in a linkeddb of the database library (external to this repository), *)
(* modelled as the sequence of its keys, the head first.                   *)
(***************************************************************************)
EXTENDS Integers, Sequences, SequencesExt

\* linkeddb.Put: a new key becomes the head, a known one stays in place.
ListPut(list, u) == IF u \in ToSet(list) THEN list ELSE <<u>> \o list

\* linkeddb.Delete: a key that is not in the list is no error.
ListDelete(list, u) == RemoveFirst(list, u)

\* A linked list holds a key at most once.
Distinct(list) == \A i, j \in DOMAIN list : list[i] = list[j] => i = j

\* The place of a key in the list, 0 when it is not there.
Position(list, u) ==
  IF u \in ToSet(list) THEN CHOOSE i \in DOMAIN list : list[i] = u ELSE 0

\* The identifiers UTXOIDs returns.  linkeddb.NewIteratorWithStart begins with
\* [start] itself, which UTXOIDs passes over, or with the head when [start] is
\* not in the list.
IDsAfter(list, start, limit) ==
  LET p == Position(list, start)
  IN  SubSeq(list, p + 1, IF p + limit < Len(list) THEN p + limit ELSE Len(list))
=============================================================================
