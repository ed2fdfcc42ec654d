--------------------------- MODULE MCSecp256k1Fx ---------------------------
(***************************************************************************)
(* Instances of Secp256k1Fx for TLC: three keys, two transactions, owners  *)
(* that VerifyCall accepts and owners it does not, every input and credential  *)
(* with up to two indices and signatures, in and out of order.             *)
(***************************************************************************)
EXTENDS Secp256k1Fx

UpTo2(S) == {<<>>} \cup {<<x>> : x \in S} \cup {<<x, y>> : x, y \in S}

O(locktime, threshold, addrs) ==
  [locktime |-> locktime, threshold |-> threshold, addrs |-> addrs]

MCOwners == { O(0, 0, <<>>), O(1, 0, <<1>>), O(0, 1, <<1>>), O(1, 1, <<1, 2>>),
              O(1, 2, <<1, 2>>), O(2, 2, <<1, 2, 3>>), O(0, 2, <<1, 1>>),
              O(0, 1, <<2, 1>>), O(0, 2, <<1>>) }

MCInputs == UpTo2(0..2)
MCSigs == UpTo2([key : {1, 2}, tx : UnsignedTx])

MCTransfers == [kind : {"transfer"}, tx : {1}, in : MCInputs, sigs : MCSigs,
                owners : MCOwners, amt : {0, 5}, inAmt : {5, 6}]
MCOperations == [kind : {"operation"}, tx : {1}, in : MCInputs, sigs : MCSigs,
                 owners : MCOwners, mint : {O(0, 1, <<1>>), O(1, 1, <<1, 2>>), O(1, 2, <<1, 2>>)},
                 transfer : {[amt |-> 0, owners |-> O(0, 1, <<3>>)],
                             [amt |-> 5, owners |-> O(0, 1, <<3>>)]}]
MCPermissions == [kind : {"permission"}, tx : {1}, in : MCInputs, sigs : MCSigs,
                  owners : MCOwners]

MCCalls == MCTransfers \cup MCOperations \cup MCPermissions
=============================================================================
