---------------------------- MODULE MCKeychains ----------------------------
(***************************************************************************)
(* Instances of Keychains for TLC: outputs that are valid, that are locked,*)
(* that need no signature, and that no package lets in.                    *)
(***************************************************************************)
EXTENDS Keychains

O(locktime, threshold, addrs) ==
  [level |-> 1, locktime |-> locktime, threshold |-> threshold, addrs |-> addrs]

MCLevelOf == [k \in Key |-> IF k = 4 THEN 2 ELSE 1]

MCOwners == { O(0, 0, <<>>), O(1, 0, <<1>>), O(0, 1, <<1>>), O(1, 1, <<1, 2>>),
              O(1, 2, <<1, 2>>), O(2, 2, <<1, 2, 3>>), O(0, 3, <<1, 2, 3>>),
              O(0, 2, <<1, 1>>), O(0, 1, <<2, 1>>), O(0, 2, <<1>>),
              O(0, 1, <<1, 4>>) } \cup {[O(0, 1, <<4>>) EXCEPT !.level = 2]}

MCOutputs == [kind : {"transfer", "operation"}, owners : MCOwners, amt : {5}]
               \cup [kind : {"transfer"}, owners : {O(0, 1, <<1>>)}, amt : {0}]
=============================================================================
