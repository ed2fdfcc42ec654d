------------------------------ MODULE MCLedger ------------------------------
(***************************************************************************)
(* Instances of Ledger for TLC.  Asset 1 pays the fees, 2 can be minted, 3 *)
(* has tokens of two groups, 4 a property.  The transactions 1 to 10 can   *)
(* be executed, in some order, and some of them exclude each other; the    *)
(* others should be refused.                                               *)
(***************************************************************************)
EXTENDS Ledger

O(locktime, threshold, addrs) ==
  [locktime |-> locktime, threshold |-> threshold, addrs |-> addrs]
Of(key) == O(0, 1, <<key>>)
E(asset, out) == [asset |-> asset, out |-> out]

MCGenesis ==
  LET entries == << E(1, Transfer(5, Of(1))), E(1, Transfer(4, O(1, 2, <<1, 2>>))),
                    E(2, Mint(Of(1))), E(3, NFTMint(1, Of(1))), E(3, NFTMint(2, Of(2))),
                    E(4, PropertyMint(O(0, 2, <<1, 2>>))), E(1, Transfer(2, Of(3))),
                    E(2, Mint(Of(2))), E(3, NFT(1, 7, Of(3))), E(4, Owned(Of(3))) >>
  IN  [u \in {<<0, i - 1>> : i \in DOMAIN entries} |-> entries[u[2] + 1]]

\* An output, an input and an operation signed by some keys, by index.
Out(asset, amt, owners) == [asset |-> asset, amt |-> amt, owners |-> owners, bytes |-> amt]
Sigs(body, keys) == [i \in DOMAIN keys |-> [key |-> keys[i], tx |-> body]]
In(body, utxo, amt, in, keys) ==
  [utxo |-> utxo, asset |-> 1, amt |-> amt, in |-> in, sigs |-> Sigs(body, keys)]
Do(body, utxo, asset, op, keys) ==
  [utxo |-> utxo, asset |-> asset, op |-> op, sigs |-> Sigs(body, keys)]

MintOp(in, owners, amt, to) ==
  [kind |-> "mint", in |-> in, mint |-> owners, transfer |-> [amt |-> amt, owners |-> to]]
NFTMintOp(in, group, payload, outs) ==
  [kind |-> "nftMint", in |-> in, group |-> group, payload |-> payload, outs |-> outs]
NFTOp(in, group, payload, to) ==
  [kind |-> "nft", in |-> in, group |-> group, payload |-> payload, owners |-> to]
PropertyOp(in, owners, to) ==
  [kind |-> "propertyMint", in |-> in, mint |-> owners, owned |-> to]
BurnOp(in) == [kind |-> "owned", in |-> in]

\* A transaction: identifier, body, inputs, outputs, exported, operations.
T(id, body, ins, outs, exported, ops) ==
  [id |-> id, body |-> body, network |-> 1, chain |-> 1, memo |-> 0, ins |-> ins, outs |-> outs,
   exported |-> exported, ops |-> ops]

Pay1(body) == <<In(body, <<0, 0>>, 5, <<0>>, <<1>>)>>
Pay3(body) == <<In(body, <<0, 6>>, 2, <<0>>, <<3>>)>>
Both == O(0, 2, <<1, 2>>)

Good == {
  T(1, 1, <<Pay1(1)>>, <<Out(1, 1, Of(2)), Out(1, 3, Of(1))>>, <<>>, <<>>),
  \* the same with another credential
  T(2, 1, <<Pay1(1)>>, <<Out(1, 1, Of(2)), Out(1, 3, Of(1))>>, <<>>, <<>>),
  \* a mint, and another with the right it has left
  T(3, 3, <<<<In(3, <<1, 1>>, 3, <<0>>, <<1>>)>>>>, <<Out(1, 2, Of(1))>>, <<>>,
    <<Do(3, <<0, 2>>, 2, MintOp(<<0>>, Of(1), 4, Of(2)), <<1>>)>>),
  T(4, 4, <<<<In(4, <<3, 0>>, 2, <<0>>, <<1>>)>>>>, <<>>, <<>>,
    <<Do(4, <<3, 1>>, 2, MintOp(<<0>>, Of(1), 1, Of(1)), <<1>>),
      Do(4, <<0, 7>>, 2, MintOp(<<0>>, Of(2), 2, Of(1)), <<2>>)>>),
  \* two tokens, of which one is transferred
  T(5, 5, <<<<In(5, <<1, 0>>, 1, <<0>>, <<2>>)>>>>, <<>>, <<>>,
    <<Do(5, <<0, 3>>, 3, NFTMintOp(<<0>>, 1, 7, <<Of(2), Of(3)>>), <<1>>)>>),
  T(6, 6, <<Pay3(6)>>, <<Out(1, 1, Of(3))>>, <<>>,
    <<Do(6, <<5, 0>>, 3, NFTOp(<<0>>, 1, 7, Of(3)), <<2>>)>>),
  \* two lists of inputs, and an export
  T(7, 7, <<<<In(7, <<0, 1>>, 4, <<0, 1>>, <<1, 2>>)>>, Pay3(7)>>,
    <<Out(1, 1, Of(1))>>, <<Out(1, 3, Of(3))>>, <<>>),
  \* a property that is minted and burnt
  T(8, 8, <<Pay3(8)>>, <<Out(1, 1, Of(3))>>, <<>>,
    <<Do(8, <<0, 5>>, 4, PropertyOp(<<0, 1>>, Both, Of(3)), <<1, 2>>)>>),
  T(9, 9, <<<<In(9, <<8, 0>>, 1, <<0>>, <<3>>)>>>>, <<>>, <<>>,
    <<Do(9, <<8, 2>>, 4, BurnOp(<<0>>), <<3>>)>>),
  \* the right to mint the tokens of a group is used for none
  T(10, 10, <<<<In(10, <<1, 0>>, 1, <<0>>, <<2>>)>>>>, <<>>, <<>>,
    <<Do(10, <<0, 4>>, 3, NFTMintOp(<<0>>, 2, 7, <<>>), <<2>>)>>) }

Bad == {
  \* nothing spent; more claimed than there is; the sum of the outputs overflows
  T(20, 20, <<>>, <<>>, <<>>, <<>>),
  T(21, 21, <<<<In(21, <<0, 0>>, 9, <<0>>, <<1>>)>>>>, <<Out(1, 8, Of(1))>>, <<>>, <<>>),
  T(22, 22, <<Pay1(22)>>, <<Out(1, 5, Of(1)), Out(1, 5, Of(1))>>, <<>>, <<>>),
  \* one UTXO in two lists, and in one list twice
  T(23, 23, <<Pay3(23), Pay3(23)>>, <<Out(1, 3, Of(3))>>, <<>>, <<>>),
  T(24, 24, <<Pay3(24) \o Pay3(24)>>, <<Out(1, 3, Of(3))>>, <<>>, <<>>),
  \* the signature of another, and one for another body
  T(25, 25, <<<<In(25, <<0, 0>>, 5, <<0>>, <<3>>)>>>>, <<Out(1, 4, Of(3))>>, <<>>, <<>>),
  T(26, 26, <<Pay1(1)>>, <<Out(1, 4, Of(3))>>, <<>>, <<>>),
  \* the right of one group, payload or owner for another's
  T(27, 27, <<Pay1(27)>>, <<Out(1, 4, Of(1))>>, <<>>,
    <<Do(27, <<0, 3>>, 3, NFTMintOp(<<0>>, 2, 7, <<Of(1)>>), <<1>>)>>),
  T(28, 28, <<Pay3(28)>>, <<Out(1, 1, Of(3))>>, <<>>,
    <<Do(28, <<5, 0>>, 3, NFTOp(<<0>>, 1, 8, Of(2)), <<2>>)>>),
  T(29, 29, <<Pay3(29)>>, <<Out(1, 1, Of(3))>>, <<>>,
    <<Do(29, <<5, 0>>, 3, NFTOp(<<0>>, 1, 7, Of(3)), <<3>>)>>),
  T(30, 30, <<Pay3(30)>>, <<Out(1, 1, Of(3))>>, <<>>,
    <<Do(30, <<0, 5>>, 4, PropertyOp(<<0, 1>>, Of(1), Of(3)), <<1, 2>>)>>),
  T(31, 31, <<Pay1(31)>>, <<Out(1, 4, Of(1))>>, <<>>,
    <<Do(31, <<0, 2>>, 2, MintOp(<<0>>, Of(3), 4, Of(3)), <<1>>)>>),
  \* a payload that is too large; an operation on what it is not for; another asset
  T(32, 32, <<Pay1(32)>>, <<Out(1, 4, Of(1))>>, <<>>,
    <<Do(32, <<0, 3>>, 3, NFTMintOp(<<0>>, 1, 9, <<Of(1)>>), <<1>>)>>),
  T(33, 33, <<Pay1(33)>>, <<Out(1, 4, Of(1))>>, <<>>,
    <<Do(33, <<0, 3>>, 3, BurnOp(<<0>>), <<1>>)>>),
  T(34, 34, <<Pay1(34)>>, <<Out(1, 4, Of(1))>>, <<>>,
    <<Do(34, <<0, 2>>, 1, MintOp(<<0>>, Of(1), 4, Of(1)), <<1>>)>>),
  \* another chain, and another network
  [T(35, 35, <<Pay1(35)>>, <<Out(1, 4, Of(1))>>, <<>>, <<>>) EXCEPT !.chain = 2],
  [T(36, 36, <<Pay1(36)>>, <<Out(1, 4, Of(1))>>, <<>>, <<>>) EXCEPT !.network = 2] }

MCTxs == Good \cup Bad
MCBodies == {t.body : t \in MCTxs}
=============================================================================
