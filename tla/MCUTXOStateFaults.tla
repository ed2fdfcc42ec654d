------------------------- MODULE MCUTXOStateFaults -------------------------
(***************************************************************************)
(* Instances of UTXOStateFaults for TLC: UTXO 1 pays two addresses, 2 pays *)
(* one, and the output of 3 is not Addressable.                            *)
(***************************************************************************)
EXTENDS UTXOStateFaults

MCAddr == {"a", "b"}
MCOwners == [u \in UTXO |-> CASE u = 1 -> <<"a", "b">>
                              [] u = 2 -> <<"a">>
                              [] OTHER -> <<>>]
=============================================================================
