--------------------------- MODULE MCUTXOState ---------------------------
(***************************************************************************)
(* Instances of UTXOState for TLC: UTXOs 1 and 3 pay two addresses, in     *)
(* different orders, and 2 pays one.                                       *)
(***************************************************************************)
EXTENDS UTXOState

MCAddr == {"a", "b"}
MCOwners == [u \in UTXO |-> CASE u = 1 -> <<"a", "b">>
                              [] u = 2 -> <<"a">>
                              [] OTHER -> <<"b", "a">>]
=============================================================================
