-------------------------- MODULE MCUTXOFetching --------------------------
(***************************************************************************)
(* Instances of UTXOFetching for TLC: UTXOs of one, of the other, of both  *)
(* wanted addresses, and one that also pays an address nobody asks for.    *)
(***************************************************************************)
EXTENDS UTXOFetching

MCOwners == [u \in UTXO |-> CASE u = 2 -> {1} [] u = 3 -> {2, 3} [] OTHER -> {1, 2}]

\* A UTXO with no amount, and three whose amounts do not fit a word together.
MCAmount == [u \in UTXO |-> CASE u = 1 -> 3 [] u = 2 -> NoAmount [] u = 3 -> 2 [] OTHER -> 1]
=============================================================================
