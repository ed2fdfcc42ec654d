# A TLA+ model of luxfi/utxo

`luxfi/utxo` is the library with which the UTXO chains of Lux keep their unspent
outputs and decide who may spend them. It has no process of its own: a VM calls
it. What is hard about it is what happens *between* its calls and *inside* them:
a put is several database writes, a page of UTXOs is several reads with writes
in between, a signature is verified at one time and replayed at another, a
verdict is cached and used for a later call.

This directory models the library in TLA+, checks the models with TLC on small
instances and proves theorems about them with TLAPS for all instances.

## The system and its parts

| part | state | operations | what makes it correct |
| --- | --- | --- | --- |
| UTXO store (`utxo_state.go`) | database of UTXOs, one linked list per address, LRU cache, XOR checksum | `PutUTXO`, `DeleteUTXO`, `GetUTXO`, `UTXOIDs`, `Checksum`, opening | cache, checksum and lists agree with the database; the whole is the set of its interface |
| Fetching (`utxo_fetching.go`) | the client's cursor | `GetPaginatedUTXOs`, `GetAllUTXOs`, `GetBalance` | a scan ends and misses no UTXO that was there throughout; a balance is the sum of what is stored or an error |
| Flow checker (`flow_checker.go`) | what is consumed and produced per asset, an error | `Consume`, `Produce`, `Verify` | no asset is produced from nothing, overflow included |
| Transaction verification (`transferables.go`) | none between calls | `VerifyTx`, sorting | accepts exactly the well-formed, balanced transactions, each in one order only |
| secp256k1fx | clock, `bootstrapped` | `VerifyTransfer`, `VerifyOperation`, `VerifyPermission` | what is accepted was signed by the owners; answers change in one direction only |
| schnorrfx, ed25519fx, secp256r1fx, mldsafx, slhdsafx | the same and an LRU of verdicts | the same | a cached verdict is the one verification would give |
| bls12381fx | the same | attestations by a bitmap of signers | the signers are those of the output |
| nftfx, propertyfx | none of their own | mint, transfer, burn | rights pass only as the owners say |
| Keychains of the six fx that verify spends | keys | `Add`, `New`, `Spend`, `Match`, signing | what they make is accepted, what they give up is hopeless |
| Transaction handlers (`utxo_handler.go`) | none | `Consume`, `Produce` | what is spent never returns |
| Base transaction (`base_tx.go`, `metadata.go`) | identifier and bytes | `Verify`, `Initialize` | a transaction is executed once, whatever its credentials |
| wire | none | builders, `Wrap`, list walkers | what is written is what is read, and nothing else |
| Parser registry (`parser_registry.go`) | the parser | `RegisterParseUTXO`, `ParseUTXO` | the first registration wins |
| Atomic UTXOs, addresses, memo, API types | none | conversions | |

A VM parses a transaction (wire), calls `VerifyTx` (with a `FlowChecker`), asks
the fx of each input with the UTXO it names (store), and then deletes the UTXOs
consumed and puts the ones produced (`utxo_handler.go`, store). Wallets read the
store by pages and sign with a keychain.

### What is hard here

* **Partial failure and crashes.** `PutUTXO` and `DeleteUTXO` change the checksum
  and the cache first and then write the database and the lists one by one,
  without a batch and without undoing anything. A failure or a crash in between
  leaves states no test visits.
* **Interleaving of reads and writes.** A client pages through lists that change
  between the pages; the cursor may name a UTXO that is gone.
* **Time and bootstrapping.** The same call is verified repeatedly, by other
  clocks and before and after bootstrapping.
* **Cached answers.** Cache entries (UTXOs, absent UTXOs, verdicts) outlive the
  call that made them.
* **Words.** Sums are 64-bit, thresholds and indices 32-bit.
* **Checks far apart.** That nothing is spent twice, or without its owners, takes
  `VerifyTx`, three fx, `Outs` of five operations, `Consume` and `Produce` together; each
  trusts the others for a part of it.
* **Layouts by hand.** Every wire shape is a table of offsets, sizes and codes
  written as constants, once for writing and once for reading, in ten packages.

The store has no mutex, so its callers must make one call at a time; calls are
modelled one after the other, each interrupted only by failure and crash. The
caches of verdicts lock themselves and are shared: there the interleaving of
goroutines is modelled.

## Modules

| module | models | builds on |
| --- | --- | --- |
| `UTXOSet` | the abstract store: a set, and answers that agree with it | |
| `LinkedIndex` | the list of identifiers of one address (`linkeddb`, external) | |
| `UTXOState` | `utxo_state.go`, write by write | `LinkedIndex`; implements `UTXOSet` |
| `UTXOStateFaults` | the same with failing reads and writes, and crashes | `UTXOState` |
| `UTXOFetching` | `utxo_fetching.go` and a client that scans | `LinkedIndex` |
| `FlowChecker` | `flow_checker.go` in words of any width | |
| `VerifyTx` | `VerifyTx` of `transferables.go`, item by item | `FlowChecker` |
| `Secp256k1Fx` | `secp256k1fx/fx.go` and the `Verify` methods it calls | |
| `CachedFx` | the five fx with a cache of verdicts on signatures, and the one with verdicts on attestations | |
| `Keychains` | the keychains of six packages, `wire/sign.go` | instances of `Secp256k1Fx` and `CachedFx` |
| `TokenFx` | the operations of `secp256k1fx`, `nftfx` and `propertyfx`: what they ask and what they leave | an instance of `Secp256k1Fx` |
| `Ledger` | transactions that are verified and executed on a set of UTXOs: `base_tx.go`, `utxo_handler.go` and all of the above together | `TokenFx`, an instance of `VerifyTx` |
| `WireShapes` | the layout of every envelope and the types of every package, as tables | |
| `Wire` | writing, reading and unpacking envelopes by these tables | `WireShapes` |
| `*_proofs` | the theorems; those of `FlowChecker` and `Secp256k1Fx` are in `VerifyTx_proofs`, those of `UTXOStateFaults` in `UTXOState_proofs` | the module of the same name |
| `Collections_proofs` | lemmas on numbers, sorted lists, loops, sums over finite sets and along sequences, and the linked lists | `LinkedIndex` |
| `MC*` | the instances for TLC | |

The specification of a component never mentions TLC; what a run needs to be
finite is a CONSTANT of the module (and said to be a bound there) or a definition
of its `MC` module. Definitions whose comment begins with `Mutant:` are plausible
mistakes in the code; `PROJECT.json` says which property each of them breaks.

### How the models correspond to the code

**UTXOState.** The variables are the fields of `utxoState`: `utxoDB`, `index` (the
linked list of each address), `utxoCache`, `checksum`. `PutUTXO` and `DeleteUTXO`
do what the code does before its first write, that is, change the checksum and
the cache, and leave the writes in `todo`: the database, then the list of each
address the output reports, in its order. `WriteUTXO` and `WriteIndex` make them
one by one, `Return` ends the call. `DeleteNothing` is the early return of a
delete that finds nothing. `Restart` is a new process that recomputes the checksum
(`initChecksum`). The cache has an LRU's size, but the entry that goes is any
entry, which includes the least recently used. XOR of identifiers is symmetric
difference of sets. In `UTXOStateFaults` each write may fail (`WriteFails`), each
read of the database too (`ReadFails`), and the process may stop between two writes
(`Crash`); three history variables remember what went wrong.

**UTXOFetching.** `NextPage` is one call of `GetPaginatedUTXOs`, both loops and the
cursor it returns. The store is the one of `UTXOState` with a call as one step.
The client repeats the call until a page is not full, which is how API clients use it.
`GetAllUTXOs` is one page with a limit above the number of UTXOs, for `math.MaxInt`;
`GetBalance` folds its amounts with a checked addition, whose error ends the call.

**FlowChecker, VerifyTx.** `Add` is the checked addition, with `MaxAmount` for
2^64 - 1; as in the code a sum that overflows becomes 0 and leaves an error.
`VerifyTx` walks the fee, the outputs and the inputs item by item, and returns
where the code does. `totalIn` and `totalOut` are the true sums, which the
properties are about.

**Secp256k1Fx.** A call is a record with all arguments of
`VerifyTransfer`, `VerifyOperation` or `VerifyPermission`. `VerifyCall` is one call, which
may come again at any time (`Tick`), before and after `Bootstrapped`. A signature is
the key that made it and the transaction it is for; recovery gives the key for the
right transaction and another one for a wrong transaction.

**CachedFx.** A verification is a sequence of steps: `Begin` does the checks that
precede the signatures, `Lookup` consults the cache about the next signature, and
when it is not there `Store` verifies it and caches the verdict. Between the two
any other goroutine may take steps. The key of the cache is a record of what is
hashed into it. Where the six packages differ (which lengths and levels they
check, where the public key comes from, what is hashed), the definition has a case.

**Keychains.** One module for six `keychain.go`: they differ in what `Sign` and
`SignHash` sign (the bytes of the transaction, their hash, a hash under a tag), in the
levels of the keys `New` generates, and in what their fx takes a signature to be for,
and each of these is an operator with a line per package. `Match` is the loop over
the addresses, which takes those it has keys for until there are enough. `Spend` takes a time of its own, as in the
code; its result, signed in one of the two ways, is judged by the definitions of
`Secp256k1Fx` or `CachedFx`, which have another clock.

**TokenFx.** An operation and an output are records whose `kind` stands for the type
assertions. `VerifyOperation` of the three packages is one disjunction, a disjunct per
operation, each with the checks of its `Verify...` in their order; `Outs` is that of
the operation. `VerifyTransfer` of `nftfx` and `propertyfx` always refuses, so an input
takes a `transfer` output only.

**Ledger.** `Execute` is what a VM does with a transaction: `BaseVerify`, `FlowCheck`,
`NamedOnce`, the fx for each input and operation, then `Consume` and `Produce`. The VM is
not in this repository, so this order, and the check that every UTXO named is stored
and of the asset claimed (`Found`) and named once (`NamedOnce`), are external. So is
`RemoveTaken`: `Consume` deletes what the inputs name and has nothing to do with
operations, so that the VM must delete what these take. `SpentOnce` and all that is said of
rights and tokens rest on that. What the VM is trusted with is exactly these operators. `FlowCheck` says what `VerifyTx` accepts
in the words of `AcceptedIsSound` and `RejectedIsFaulty`, which the theorems about `VerifyTx` prove
of its walk. A UTXO is named by a transaction and an index, for `InputID`, and the index
counts outputs from zero in every transaction; `Rank` orders the names as `Compare` does, and
`MaxIndices` is the 2^32 of the index. A transaction has an identifier and a
body: what is signed leaves the credentials out, the identifier does not.

**WireShapes, Wire.** A shape is a table with the offset, the width and the stride of
each field, taken from the `Offset...` constants and from what `New...` and the
accessors use. A buffer is a sequence of cells: the two bytes of the prefix, the
header of the ZAP message with the message's size, and a body, in a few cells, that
stands for the contents. A reader whose table is that of the writer gets the values;
one with another table gets `Garbage`. This is what allows the model to ask which
`Wrap` accepts which envelope, what happens to packed lists of envelopes and what
is lost with the end of a buffer, without the bytes of numbers. The length of a key is in two
tables, as in the code: `PubKeyLen` for writing and `Verify`, `strideForLevel` for reading.
Packed lists are walked in two ways: the owners of a mint by `wire.NextEnvelope`, which refuses a
message smaller than its header, and credentials by the loops of `SignedTx`, which do not. The lists
that occur are those the builders pack, whole or with the end torn off; a size below a
header and a count that is not the number of envelopes do not occur, so that this check has no
effect in the runs. `IsObject` says what may be
sent: values of the types of the code, with containers that hold plain values. (In the code a
container takes any bytes; nesting two deep is the same step again, by `Unpack`.) `Sound` says
whose `Verify` accepts the level and the lengths: only for those the reader is promised what was sent.

## What is checked

Nine runs pass, three are expected to find a violation (below); each property of the nine has a mutant of the code that breaks it under the
same configuration.

| run | question | instance |
| --- | --- | --- |
| `utxo_state` | Do cache, checksum, lists and database agree, and is the whole a set? (`CacheCoherent`, `ChecksumCurrent`, `IndexComplete`, and `ImplementsSet`, the refinement of `UTXOSet`) | 3 UTXOs over 2 addresses, a cache of 2, page limits 1 and 3 |
| `utxo_state_faults` | What survives failures and crashes? (`CacheCoherentUnlessTainted`, `IndexCompleteUnlessTorn`, `ChecksumCurrentUnlessTainted`) | 3 UTXOs, one that pays nobody, a cache of 2 |
| `fetching` | Does a scan of a changing store end, miss nothing that stayed, and never fail, and is the balance exact? (`ScanComplete`, `PagesSucceed`, `PageSound`, `ScanEnds`, `BalanceExact`) | 4 UTXOs, 3 addresses, limits 1, 2 and 5, 6 changes; amounts that overflow together, and a UTXO without one |
| `verify_tx` | Is what `VerifyTx` accepts sorted, unique, balanced in true numbers and acceptable in no other order, and what it rejects not? (`NoInflation`, `AcceptedIsSound`, `RejectedIsFaulty`, `AcceptedIsCanonical`, `RejectionSticks`) | every transaction with up to 2 outputs and 2 inputs, in one list or two, in two-bit words, and lists of 3 with every order of assets, bytes and UTXOs |
| `secp256k1fx` | Is what is accepted signed by enough distinct owners, and do answers change in one direction only? (`Authorized`, `AcceptanceFinal`, `RejectionFinal`) | 3 keys, 9 owners, every input and credential up to length 2, 3 moments |
| `keychains` | Does each fx accept what its keychain makes, is what it gives up hopeless, and what is a signature on a bare hash good for? (`SpendAccepted`, `SpendComplete`, `SignHashApart`) | 6 packages, 3 keys and one without a private key, of two levels, 12 owners valid and not, 3 moments |
| `cached_fx` | Does the cache ever change an answer, in any interleaving? (`CacheTruthful`, `CacheInvisible`, `Authorized`, `Attested`) | 2 goroutines, a cache of 2, 14 calls and 8 attestations, well signed or with one thing wrong |
| `ledger` | Is nothing spent twice or without its owners, and do amounts, rights and tokens add up? (`SpentOnce`, `OwnersConsent`, `SupplyConserved`, `RightsKept`, `TokensAccounted`) | 10 first UTXOs, 10 transactions that can be executed, one of them twice with other credentials, and 17 with one thing wrong |
| `wire` | Is what is written what is read, through every container, by its own reader and, but for two exceptions, by no other, and nothing when the end is missing? (`RoundTrip`, `FxReadsApart`, `DiscriminatorFinds`, `RunAccounted`, `CutRefused`, `WalkExact`, `GateAgrees`) | a value of every type of all 10 packages, 158 in all, every reader, every place to cut |

**Why the bounds are enough.** *Store:* a cache of two with three UTXOs evicts in
the middle of calls; a UTXO with two addresses has three writes, so a failure or
crash hits before, between and after them; three entries in a list allow a
deletion at its head, its end and between. *Fetching:* six changes let every UTXO be
stored and two be deleted or stored again; limits of one, two and more than all give
full, partly filled and final pages. *VerifyTx:* amounts of 1 and 3 in words up to 3
overflow with two items; lists of three have orders in which only the neighbors of the
middle tell, outputs that are equal to `Less` and outputs without wire bytes;
`Collections_proofs` lifts neighbors to whole lists. *fx:* two signatures are enough for
one of them to be wrong in every way; a third key is one that owns nothing.
*Keychains:*
thresholds of 0 to 3 with 0 to 3 keys held, an address listed twice, out of order or
without a key; three moments are before, at and after a lock. *Ledger:* every operation
is executed with rights from genesis and with rights an earlier operation left, the
property and the tokens pass through two transactions, and each faulty transaction
fails one conjunct of `Verifies`; no transaction has as many outputs as `MaxIndices`, 100. *CachedFx:* with two goroutines one can store between the look-up and the store of
the other; with two entries it can evict what the other has just stored; goroutines
have no identity beyond that, so they are symmetric. *Wire:* the header is 4 cells in
place of 16 bytes, still longer than the prefix; lists have up to three envelopes of
different kinds and lengths.

**Fairness.** There is one liveness property, `ScanEnds`, and one assumption, weak
fairness of `NextPage`: a client that has begun a scan asks for the next page at some
time. Nothing is assumed about the writers, except that `MaxChanges` bounds them; a
store that never stops changing can keep a scan busy. All other properties are about safety
and are checked without fairness. Deadlock is checked in every run; `VerifyTx` and
`UTXOFetching` have an explicit step for a call or a client that is done.

## Where the code does not do what is said of it

Three runs are expected to find a violation.

* `checksum_reput`: `PutUTXO` of a UTXO that is stored already XORs its identifier
  *out* of the checksum; a restart brings it back in. With callers that never put a
  stored UTXO again, `ChecksumCurrent` holds (run `utxo_state`) and is proved.
* `retried_delete`: a delete that is cut off after the database write, by a crash or by a list
  that cannot be written, is not completed by trying again. The retry finds no UTXO, returns no error and
  leaves the identifier in the address lists. Pages that reach it fail from then on. The
  property (`DeleteDeletes`) is restricted to processes in which every write of the database
  has worked, so that an answer from a stale cache entry is no counterexample; TLC's trace
  is a put, a delete that reaches the database only, a crash, and the retry.
* `attestations`: `bls12381fx` keys its cache by bitmap, hash and aggregate signature.
  The committee is not part of the key, so the verdict of one attestation can answer
  another one, with another committee. `Attested` says what still holds.

Smaller ones, met while modelling, which no run of their own is about; the four about envelopes that come first are
exceptions which the properties of `wire` name:

* "Canonical envelopes MUST consume every byte" (`wire/discriminator.go:92-93`), but nothing
  returns `ErrTrailingBytes`, and every `Wrap` ignores what follows its message. The test that
  speaks of it (`wire/transferable_test.go:192-200`) fails only if the parsed size is that of the
  longer buffer. `RoundTrip` does not ask for such an envelope to be read; `FxReadsApart` says that if
  it is, it is read as the message it holds.
* The two bytes of the prefix are to close "the cross-type confusion surface"
  (`wire/discriminator.go:79-83`). `WrapLockedOutput` does not look at the first, and the second, 0x0F,
  is also that of `PQOutputOwners`, so that it reads the owners of `mldsafx` and `slhdsafx` as a
  locked output. `FxReadsApart` makes the exception.
* `secp256k1fx/wire.go:188-190` announces an error for a run of signatures that does not
  divide; such a run is read as a credential without signatures. `RunAccounted` says that no
  package ever makes something of a part of the run.
* `wire/transfer_output.go:68-69` says `SyntacticVerify` also asks for a positive amount; the
  classical one does not (that with a security level does). `GateAgrees` makes the exception.
* An output that needs no signature (threshold 0, no addresses) passes `Verify` in every
  package, and the keychain makes an input for it, but in the five packages with a cache
  `Credential.Verify` refuses an empty credential: nothing can spend it. `SpendAccepted`
  makes the exception.
* `SignHash` of the signers of `schnorrfx`, `ed25519fx`, `mldsafx` and `slhdsafx` signs the
  hash it is given, which their fx never verifies (`SignHashApart`); `mldsafx/keychain.go:32`
  says as much.
* An `nftfx` mint may list no outputs: the right to mint the group is used up and leaves
  nothing. `TokensAccounted` counts it as a mint of no tokens.
* `VerifyTx` looks for duplicates within a list only; an input in two lists counts
  twice. The VM has to keep names distinct (`NamedOnce` in `Ledger`).
* `utxo_fetching.go:53-54` says a page has only UTXOs of the start address "whose IDs
  are greater than" the start identifier; the lists are in order of insertion, the
  latest first, and a cursor whose UTXO is gone begins the list again.
* `utxo_fetching.go:58-59` calls the returned identifiers those of the last UTXO
  fetched; they are those of the last one *searched*, which may be a duplicate.
* `wire/discriminator.go:32-33` says TypeKind 0 is rejected by every Wrap;
  `OutputOwners`, `UTXO`, `LockedOutput`, `PChainOwner`, `SignedTx` and `XVMBaseTx` are
  written with it and do not look at it.
* `wire/discriminator.go:127-128` calls `NextEnvelope` the one walker of all packed
  lists; `SignedTx` has two of its own, without the check for a size below a header.

## What is proved

All theorems hold for every value of the constants that satisfies the module's
ASSUME. Each proof has the form: an inductive invariant, a lemma that Init implies
it, a lemma with one step for each action that Next preserves it, and the theorem.

* **Store** (`UTXOState_proofs`, on the list lemmas of `Collections_proofs`).
  `StateInv` is `TypeOK`, `CacheCoherent`, `IndexComplete` and `WritesInOrder` together:
  none is inductive alone, because what a running call still owes the lists
  (`todo`) is known only from `WritesInOrder` and the types. From it follow
  `StateTypeCorrect`, `CacheNeverStale`, `IndexAlwaysComplete`, `WritesAlwaysInOrder`, and,
  for callers that put no stored UTXO again (`~Reput`), `ChecksumNeverDrifts`.
  `StateImplementsSet` is the refinement: `ReplyInv` says that a reply is "running"
  exactly while a call is, and each step is then one of `UTXOSet` or a stutter. The
  invariants speak of `Stored`, the set the database will hold once the running call
  is done; it is also the refinement mapping.
* **Store under faults** (second half of `UTXOState_proofs`, which reuses the lemmas on calls). `FaultInv`
  has `WritesInOrder`, the coherence of cache and checksum unless `tainted` (or
  `rewritten`), and `IndexInv` on the lists. `WholeListed` is the property for UTXOs that
  are not torn; it is not inductive, because the last write of a call makes a torn UTXO
  whole: `RunningListed` follows the lists a running call has already written, torn or
  not, and `OnlyPayersListed` answers for the addresses it never writes. Theorems:
  `FaultsLeaveCacheCoherent`, `FaultsLeaveChecksumCurrent`, `FaultsLeaveIndexComplete`.
* **Fetching** (`UTXOFetching_proofs`). `FetchInv` has `IndexExact` (a list has the stored UTXOs of
  its address, each once), `PagesSucceed`, and `NoneLost`: while a client pages, a UTXO that
  has been stored since its first page is either received already or lies *after* the cursor, in
  the list of each wanted address that it pays. That is what a page must
  keep, although the UTXO of the cursor may have gone, when the list is searched from its
  head again. What one page does, over all addresses in their order and with the limit it has
  left, is shown once, for a loop of any length, and used for a page,
  for `GetAllUTXOs` and for the balance. Theorems: `FetchTypeCorrect`, `ScanLosesNothing`,
  `PagesNeverFail`, `PagesAreSound`, and `BalanceAlwaysExact`, for which the checked additions are a
  second loop that agrees with the true sum until one of them fails.
* **Flow checker and VerifyTx** (`VerifyTx_proofs`). `FlowInv` says that a word is the true sum as long as
  there is no error (`WordsExact`); `FlowConserves` is that no accepted flow creates an
  asset, for any word width and any order of `Consume`, `Produce` and `Verify` (the run
  `verify_tx` calls them as `VerifyTx` does only); `FlowRejectionJustified` and
  `FlowRejectionSticks` are about the errors. `VerifyTx` adds `WalkInv`: the items before the current one
  are valid, the lists before the current one are valid and sorted. This gives
  `TxTypeCorrect` and `AcceptedIsWellFormed`, with the lemma that a list
  whose neighbors are in order is in order throughout. `SumInv` adds that the totals so far are
  those of the items before the current one, and `CauseInv` that each error has its cause in the
  transaction: a word overflows only when the total of a whole transaction does, because totals only
  grow. They give `AcceptedTxIsSound` and `RejectedTxIsFaulty`, which together say that
  `VerifyTx` accepts exactly the well-formed transactions that balance in true numbers that fit.
  `AcceptedHasOneOrder` follows by counting: if two sorted orders of one list differed
  first at a place, the items up to it in the one would all have to be among the fewer
  items before it in the other (`SomeStay`).
* **secp256k1fx** (last part of `VerifyTx_proofs`). `FxInv` remembers of the last answer what it depended on: the form of
  the call, the time, and the signatures if they were looked at. `FxAuthorized` needs in
  addition that strictly increasing indices into strictly increasing addresses name
  distinct owners. `FxAcceptanceFinal` and `FxRejectionFinal` compare two answers.
* **CachedFx.** `CachedInv` has `CacheInv` (each entry holds the verdict its key
  determines, and the cache its size) and `JobRight` for each goroutine: the signatures
  before the current one are right, and a job that has missed the cache has passed the
  checks of the current one. Another goroutine's step changes the cache only, which
  `CacheInv` describes without mentioning who stored what; this is why no interleaving
  matters. Theorems: `CachedTypeCorrect`, `VerdictsTruthful`, `VerdictsInvisible`,
  `CachedAuthorized`, `CachedAttested`.
* **Keychains** (`Keychains_proofs`). `MatchFinds` is about the loop: it takes places that
  ascend, at most as many as the threshold, and when they are fewer, all that it has keys for.
  `Decides` is about the fx: it accepts a call made for chosen places exactly when the output
  is valid and open, the places ascend and are as many as the threshold, and the right thing
  was signed; it is proved for `Secp256k1Fx` and for the five packages of `CachedFx` by unfolding both.
  `KeychainInv` remembers what `Spend` has made. `SpendAlwaysAccepted` and `SignHashAlwaysApart` put the
  three together. `SpendAlwaysComplete` is the other direction: places that ascend are distinct, so
  when the loop has found fewer than the threshold, by the pigeonhole principle nobody can choose
  more, in any order.
* **Ledger** (`Ledger_proofs`). `LedgerInv` adds to `SpentOnce` that every name that is or
  was in the set is *known*: it is in the genesis, or has the identifier of an executed
  transaction. An executed transaction names something, because the fee is positive and must be
  consumed (`FeeIsPaid`), and what
  it names is stored; so it has not been executed before, and what it produces is not
  known yet. `NothingSpentTwice` is for any genesis and any transactions, and does not
  depend on signatures, but on the VM, which must delete what operations take (`RemoveTaken`) and
  keep names distinct (`NamedOnce`); `RemainingIs` puts its deletions and those of `Consume` together. `OwnersHaveConsented` goes through the five operations and the
  transfer: each has passed `VerifyCredentials` of `Secp256k1Fx` for the owners of the
  *stored* output; strictly increasing indices into strictly increasing addresses are an
  injection from the places of the input to the signers, which gives their number. It
  needs the types of what is stored (`EntryInv`), because an address must be a number
  for the order to tell two of them apart.
* **What the ledger conserves.** A *weight* gives a number to each thing that can be stored,
  and `Total` adds the weights of a set. `ExecuteTotal` says what one transaction does to the total of
  any weight: less the inputs and what the operations take, plus the outputs and what they leave.
  A weight is *accounted for* by two tallies (`Accounts`) if every operation leaves what it takes,
  plus what it makes, less what it destroys, in each of the five cases. `AccountInv` says that whatever is
  accounted for, and is not an amount, adds up at all times; it quantifies over all weights, which is
  what makes one induction serve every right and token. The weights are then chosen:
  one right with its owners (`RightsAlwaysKept`), the rights, tokens and
  properties of a group (`TokensAlwaysAccounted`). Amounts are not kept by inputs and outputs one by one, but
  by `VerifyTx` for the transaction as a whole, less the fee and the exports: `SupplyAlwaysConserved` adds that.
* **Wire** (`Wire_proofs`). `WireInv` says that the buffer is what was written, a beginning of
  it, or one cell more, and that an answer is what the reader's `Wrap` makes of the buffer. It
  is proved for values with lists of any length and a header of any size, in four layers. *Tables:*
  the fields of every shape lie apart and inside the object (`FieldsApart`), and code and TypeKind tell
  the type (`ReaderNames`). *One envelope:* whoever takes its two bytes has its shape and package
  (`ReadersApart`), with the exceptions of the classical `OutputOwners` and of `WrapLockedOutput` for a `PQOutputOwners`; a whole envelope is refused for
  its two bytes only, and a part of one always, because the size in its header asks for more
  (`WholeIsRead`, `PartIsRefused`). *Runs of bytes:* signatures and keys of one length are cut where they
  were joined (`RunWhole`), the pieces use up any run that has no remainder, and a remainder gives none. *Packed lists:* after `k` envelopes a walk is where
  the first `k` end, so that each step finds the next whole, or a torn one, which it refuses
  (`WalkOfParts`, `PackedWalk`). `ObjectRead` and `OwnWrap` put these together for what holds
  something, and each property follows from `WireInv`: `WireRoundTrip`, `WireFxReadsApart`,
  `WireDiscriminatorFinds`, `WireRunAccounted`, `WireCutRefused`, `WireWalkExact`,
  `WireGateAgrees`. The proof changed the model in three places: what is sent has
  types (`WireAssumption`); a credential is sound only with a level that its package has,
  without which an empty one of an unknown level, refused by `Verify`, would have to be read back; and the cases of
  `ReadLevelled` and `Wrap`, of which more than one could hold, are now tried in the order of the code.
* **Data.** Sums are `SumFunctionOnSet` of the community modules, a fold that is defined by a
  CHOOSE of a recursive function. `Collections_proofs` shows that it obeys its recursion on every finite
  set (`SumRecursion`), by an induction stated with sets in the place of predicates
  (`SubsetInduction`), and from it what sums do under union, restriction, one more item,
  sums of sums and sums along a sequence. `LoopRuns` and `LoopInduction` do the same for the loops
  written as recursive functions.

Lists of three and more items, larger caches, wider words, more goroutines and keys
are thus covered by the theorems where the runs have two, and so are longer packed lists and the
header of 16 bytes.

Only model-checked: `ScanEnds`, which is liveness under fairness, out of the prover's reach.
The three properties that a run
refutes (`ChecksumCurrent` with `Reput`, `DeleteDeletes`, `AttestationsApart`) are no theorems.

Assumptions that the proofs and the runs share: signatures cannot be forged and
hashes do not collide; the linked lists of `linkeddb` put at the head, delete, and
iterate as `LinkedIndex` says; `zap.Parse` asks for as many bytes as the header says. `Ledger` assumes in addition that
identifiers of transactions are distinct and none is that of the genesis, that the genesis is finite and
the fee positive and of an asset (`LedgerAssumption`), that the VM deletes what operations take
and finds every UTXO a transaction names, each named once (`RemoveTaken`, `Found`, `NamedOnce`), and that what is
stored, produced and signed has the types of the code (`EntryAssumption`). `Keychains` assumes that addresses are
numbers and that what is to be spent has the types of the code (`KeychainAssumption`; an operation
has no amount in the code, and is given one that is not zero). `Wire` assumes that what is sent has the
types of the code (`WireAssumption`): a credential of the BLS package is the one signature of its field
(`bls12381fx/wire.go:63-69`), only the packages with keys of one length send keys with a credential
(`wire/credential.go:100-102`), and what a container holds is plain. TLC evaluates
each of them on its instance.

## What is not modelled

* `GetAtomicUTXOs`: it passes a request on to the shared memory of another chain, which
  defines the order of the pages and lies outside this repository.
* The parser registry: a variable that is set once at boot; a model would restate the
  `sync.Once`.
* Parsing and formatting of addresses and identifiers, which are conversions of text
  without state, and `VerifyMemoFieldLength`, one comparison.
* The sorting functions: `sort.Sort` with the `Less` that `VerifyTx` models.
* `InputID` and other hashes (taken to be injective) and metrics.
* The VM: the semantic verification and execution of transactions that `Ledger` trusts,
  the deletion of what operations take included.
* Mocks, generated accessors, API types: nothing of their own to go wrong.
* The libraries: databases, `linkeddb`, `lru`, `zap`, cryptography. They appear as the
  code uses them and are marked external in `PROJECT.json`.

## Plan

Done: the store with its refinement and its faults; fetching and balances; flow checker
and `VerifyTx`; secp256k1fx, the fx with caches, and the keychains of all of them; wire;
the operations of `nftfx` and `propertyfx`; the ledger that composes them. Every safety
property that a passing run checks is also a theorem.

Next, in this order:

1. `Ledger` over `UTXOState` instead of a set, so that a crash between the deletes and puts of
   a transaction leaves some of them undone; what a VM must do when it restarts.
2. `GetAtomicUTXOs` with the order of pages that the shared memory promises.
