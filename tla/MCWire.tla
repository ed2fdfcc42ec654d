------------------------------- MODULE MCWire -------------------------------
(***************************************************************************)
(* An instance of Wire for TLC: a value of every type of every package,    *)
(* outputs of every level and of one that there is none of, credentials    *)
(* with runs that leave a rest or are put together of parts of a wrong     *)
(* length, and transactions with lists that are empty, mixed and torn.     *)
(***************************************************************************)
EXTENDS Wire

\* A value for each field.
Default ==
  [locktime |-> 7, threshold |-> 2, addrs |-> <<1, 2>>, amount |-> 9, sigIndices |-> <<0, 3>>,
   level |-> 0, sigs |-> <<>>, pubKeys |-> <<>>, hash |-> 4, signers |-> <<5>>, groupID |-> 6,
   payload |-> <<8>>, txID |-> 1, outputIndex |-> 2, assetID |-> 3, unsigned |-> <<4, 5>>]

O(fx, type, val) == [fx |-> fx, type |-> type, val |-> val]

\* The types of a package whose values hold no other.
Simple(fx) ==
  DOMAIN Packages[fx].shapes \ {"MintOperation", "TransferOperation", "UTXO", "LockedOutput",
                                "SignedTx", "XVMBaseTx", "Credential"}

Plain(fx, type) ==
  O(fx, type, [f \in DOMAIN Packages[fx].shapes[type].fields |-> Default[f]])

At(o, level) == [o EXCEPT !.val.level = level]

Run(lens) == [i \in DOMAIN lens |-> [id |-> i, len |-> lens[i]]]

Signed(fx, level, lens) ==
  [Plain(fx, "Credential") EXCEPT !.val.level = level, !.val.sigs = Run(lens)]

Mint(fx, mint, to) ==
  O(fx, "MintOperation", [sigIndices |-> <<1>>, mintOutput |-> mint, transferOutput |-> to])

Owners == Plain("secp256k1", "OutputOwners")

Plains == UNION {{Plain(fx, t) : t \in Simple(fx)} : fx \in DOMAIN Packages}

Levelled == {At(Plain(fx, t), level) : fx \in {"mldsa", "slhdsa"}, level \in 1..3,
                                       t \in {"OutputOwners", "TransferOutput", "MintOutput"}}

\* Outputs with owners that are one thing or another.
Owned ==
  {[Plain(fx, t) EXCEPT !.val.addrs = a, !.val.threshold = n]
     : fx \in {"secp256k1", "slhdsa"}, t \in {"OutputOwners", "TransferOutput"},
       a \in {<<>>, <<1>>, <<0, 1>>, <<1, 1>>, <<2, 1>>}, n \in 0..2}
  \cup {[Plain(fx, "TransferOutput") EXCEPT !.val.amount = 0] : fx \in {"ed25519", "mldsa"}}

Credentials ==
  {Signed("secp256k1", 0, <<65, 65>>), Signed("secp256k1", 0, <<65, 1>>),
   Signed("secp256k1", 0, <<65, 64, 66>>), Signed("nft", 0, <<65>>), Signed("mldsa", 0, <<2420>>),
   Signed("mldsa", 0, <<2420, 3309>>), Signed("mldsa", 3, <<>>), Signed("slhdsa", 2, <<49856>>),
   Signed("slhdsa", 3, <<1>>), Signed("bls12381", 0, <<96>>), Signed("secp256r1", 0, <<>>),
   [Signed("schnorr", 0, <<64, 64, 64>>) EXCEPT !.val.pubKeys = Run(<<32, 32, 32>>)],
   [Signed("ed25519", 0, <<64>>) EXCEPT !.val.pubKeys = Run(<<32, 31>>)]}

Operations ==
  {Mint(fx, Plain(fx, "MintOutput"), Plain(fx, "TransferOutput"))
     : fx \in {"secp256k1", "ed25519", "secp256r1", "schnorr", "mldsa", "slhdsa"}}
  \cup {Mint("mldsa", At(Plain("mldsa", "MintOutput"), level),
             At(Plain("mldsa", "TransferOutput"), 2)) : level \in {1, 3}}
  \cup {Mint("property", Plain("property", "MintOutput"), Plain("property", "OwnedOutput")),
        O("nft", "TransferOperation",
          [sigIndices |-> <<1>>, holds |-> Plain("nft", "TransferOutput")])}
  \cup {O("nft", "MintOperation",
          [sigIndices |-> <<1>>, groupID |-> 2, payload |-> <<3>>, outputs |-> outputs])
          : outputs \in {<<>>, <<Owners>>, <<Owners, [Owners EXCEPT !.val.addrs = <<>>]>>}}

Transaction(creds, torn) ==
  O("chain", "SignedTx", [unsigned |-> <<4, 5>>, creds |-> creds, torn |-> torn])

One == Signed("secp256k1", 0, <<65, 65>>)
Other == Signed("ed25519", 0, <<64>>)

SignedTxs ==
  {Transaction(creds, 0) : creds \in {<<>>, <<One>>, <<One, Other>>, <<Other, One, One>>,
                                      <<One, Owners, Other>>, <<Owners>>}}
  \cup {Transaction(<<One, Other>>, torn) : torn \in 1..8}

Containers ==
  {O("chain", "UTXO", [txID |-> 1, outputIndex |-> 2, assetID |-> 3, holds |-> o])
     : o \in {Plain("secp256k1", "TransferOutput"), Plain("mldsa", "TransferOutput"),
              Plain("nft", "TransferOutput"), Plain("bls12381", "AttestationOutput")}}
  \cup {O("chain", "LockedOutput", [locktime |-> 3, holds |-> Plain("slhdsa", "TransferOutput")])}
  \cup {O("chain", "XVMBaseTx",
          [networkID |-> 1, blockchainID |-> 2, memo |-> <<>>,
           outs |-> <<[assetID |-> 1, holds |-> Plain("secp256k1", "TransferOutput")],
                      [assetID |-> 2, holds |-> Plain("property", "OwnedOutput")]>>,
           ins |-> <<[txID |-> 4, outputIndex |-> 0, assetID |-> 1,
                      holds |-> Plain("ed25519", "TransferInput")]>>])}

MCObjects ==
  Plains \cup Levelled \cup Owned \cup Credentials \cup Operations \cup SignedTxs \cup Containers
=============================================================================
