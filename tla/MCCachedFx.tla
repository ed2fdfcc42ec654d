----------------------------- MODULE MCCachedFx -----------------------------
(***************************************************************************)
(* Instances of CachedFx for TLC: keys 1 and 2 are of one level, 3 of      *)
(* another, and 4 is no point; calls that are signed well, and calls with  *)
(* one thing wrong with them.                                              *)
(***************************************************************************)
EXTENDS CachedFx, TLC

MCLevelOf == [k \in Key |-> IF k = 3 THEN 2 ELSE 1]

O(locktime, threshold, addrs) ==
  [level |-> 1, locktime |-> locktime, threshold |-> threshold, addrs |-> addrs]

S(key, tx) == [key |-> key, tx |-> tx]

\* Both of two owners; the second is the one the other calls differ in.
Both(tx, second, keys) ==
  [kind |-> "transfer", tx |-> tx, in |-> <<0, 1>>, owners |-> O(1, 2, <<1, 2>>),
   amt |-> 5, inAmt |-> 5, mint |-> O(0, 0, <<>>), to |-> O(0, 0, <<>>),
   level |-> 1, sigs |-> <<S(1, tx), second>>, pubKeys |-> keys]

One(kind, tx, key, sig) ==
  [kind |-> kind, tx |-> tx, in |-> <<0>>, owners |-> O(0, 1, <<key>>),
   amt |-> 5, inAmt |-> 5, mint |-> O(0, 1, <<key>>), to |-> O(0, 0, <<>>),
   level |-> 1, sigs |-> <<sig>>, pubKeys |-> <<key>>]

MCSpends ==
  { Both(1, S(2, 1), <<1, 2>>), Both(1, S(2, 2), <<1, 2>>), Both(1, S(2, 1), <<1>>),
    Both(1, S(1, 1), <<1, 2>>), Both(1, S(3, 1), <<1, 2>>),
    One("permission", 1, 1, S(1, 1)), One("permission", 2, 1, S(1, 1)),
    One("operation", 2, 2, S(2, 2)), One("operation", 1, 4, S(4, 1)),
    [Both(1, S(2, 1), <<1, 2>>) EXCEPT !.in = <<1, 0>>],
    [Both(1, S(2, 1), <<1, 2>>) EXCEPT !.in = <<0, 2>>],
    [Both(1, S(2, 1), <<1, 2>>) EXCEPT !.inAmt = 4],
    [One("operation", 1, 1, S(1, 1)) EXCEPT !.mint = O(0, 1, <<2>>)],
    [One("permission", 1, 1, S(1, 1)) EXCEPT !.in = <<>>, !.sigs = <<>>,
                                             !.owners = O(0, 0, <<>>)] }

A(threshold, committee, signers, keys) ==
  [kind |-> "attestation", hash |-> 1, threshold |-> threshold, pubKeys |-> committee,
   signers |-> signers, agg |-> [keys |-> keys, hash |-> 1]]

MCAttests ==
  { A(2, <<1, 2>>, {0, 1}, {1, 2}), A(2, <<1, 3>>, {0, 1}, {1, 2}), A(1, <<1, 2>>, {1}, {2}),
    A(2, <<1, 2>>, {0}, {1}), A(1, <<1>>, {0, 1}, {1}), A(0, <<1>>, {0}, {1}),
    A(1, <<4>>, {0}, {4}),
    [A(1, <<1, 2>>, {1}, {2}) EXCEPT !.hash = 2] }

Symmetry == Permutations(Verifier)
=============================================================================
