----------------------------- MODULE MCVerifyTx -----------------------------
(***************************************************************************)
(* Instances of VerifyTx for TLC: an asset that is ids.Empty and two that  *)
(* are not, words of two bits, and every transaction with at most two      *)
(* outputs and two inputs, in one list or in two, and some with three.     *)
(* Wire bytes of 0 are those of an output that has none.                   *)
(***************************************************************************)
EXTENDS VerifyTx

Lists(S) == {<<>>} \cup {<<x>> : x \in S} \cup {<<x, y>> : x, y \in S}

MCOutputs == [asset : {1, 2}, amount : {1, 3}, bytes : {1, 2}]
             \cup {[asset |-> 0, amount |-> 1, bytes |-> 1]}
MCInputs == [utxo : {1, 2}, asset : {1, 2}, amount : {1, 3}]
            \cup {[utxo |-> 3, asset |-> 1, amount |-> 0]}

MCThree == [asset : {1, 2}, amount : {1}, bytes : {0, 1, 2}]
MCThreeIn == [utxo : 1..3, asset : {1, 2}, amount : {3}]

MCTxs == [fee : {0, 1},
          outs : {<<l>> : l \in Lists(MCOutputs)}
                 \cup {<< <<x>>, <<y>> >> : x, y \in {o \in MCOutputs : o.bytes = 1}},
          ins : {<<l>> : l \in Lists(MCInputs)}
                \cup {<< <<x>>, <<y>> >> : x, y \in MCInputs}]
         \cup [fee : {0}, outs : {<< <<x, y, z>> >> : x, y, z \in MCThree},
               ins : {<< << [utxo |-> 1, asset |-> 1, amount |-> 3],
                          [utxo |-> 2, asset |-> 2, amount |-> 3] >> >>}]
         \cup [fee : {1}, outs : {<<>>}, ins : {<< <<x, y, z>> >> : x, y, z \in MCThreeIn}]
=============================================================================
