---------------------------- MODULE Secp256k1Fx ----------------------------
(***************************************************************************)
(* The feature extension of secp256k1fx/fx.go, which decides whether a     *)
(* credential may spend an output, mint from it, or act for its owners.    *)
(* A VM asks it about the same call more than once: when a transaction     *)
(* arrives, when a block with it is verified, and when it is replayed.     *)
(* Meanwhile the clock advances and the chain ends its bootstrapping,      *)
(* before which fx does not look at signatures.                            *)
(*                                                                         *)
(* An address and the key it is the hash of are one number, and so are the *)
(* bytes of a transaction and their hash.  A signature is a pair of a key  *)
(* and a transaction.                                                      *)
(***************************************************************************)
EXTENDS Integers, Sequences

CONSTANTS
  Key,         (* the keys, by the order of their addresses               *)
  UnsignedTx,  (* the transactions                                        *)
  Calls,       (* the calls fx may be asked about                         *)
  MaxTime      (* bound: how far the clock goes                           *)

Owners == [locktime : Nat, threshold : Nat, addrs : Seq(Key)]
TransferOutput == [amt : Nat, owners : Owners]
Signature == [key : Key, tx : UnsignedTx]

\* What a call passes to fx: the transaction, the signature indices of the
\* input and the signatures of the credential, with for a transfer the output
\* spent and the amount of the input, for an operation the owners of the mint
\* output spent and the outputs of the operation, for a permission the owners.
Transfer == [kind : {"transfer"}, tx : UnsignedTx, in : Seq(Nat), sigs : Seq(Signature),
             owners : Owners, amt : Nat, inAmt : Nat]
Operation == [kind : {"operation"}, tx : UnsignedTx, in : Seq(Nat), sigs : Seq(Signature),
              owners : Owners, mint : Owners, transfer : TransferOutput]
Permission == [kind : {"permission"}, tx : UnsignedTx, in : Seq(Nat), sigs : Seq(Signature),
               owners : Owners]
Call == Transfer \cup Operation \cup Permission

ASSUME FxAssumption ==
  /\ Key \subseteq Nat
  /\ MaxTime \in Nat
  /\ Calls \subseteq Call

VARIABLES
  clock,         (* what VM.Clock tells                                   *)
  bootstrapped,
  call,          (* the call                                              *)
  answer,        (* the last answer to it                                 *)
  at,            (* when that was                                         *)
  full           (* and whether it was with the signatures                *)

fxVars == <<clock, bootstrapped>>
answerVars == <<answer, at, full>>
callVars == <<fxVars, call, answerVars>>

FxTypeOK ==
  /\ clock \in 0..MaxTime
  /\ bootstrapped \in BOOLEAN
  /\ call \in Calls
  /\ answer \in {"none", "ok", "error"}
  /\ at \in 0..clock
  /\ full \in BOOLEAN /\ (full => bootstrapped)

-----------------------------------------------------------------------------
(* The parts of a call that are verified by themselves.                    *)

\* Mutant: neighbors may be equal.
NotDescending(s) == \A i \in 2..Len(s) : s[i - 1] <= s[i]

\* Each element is less than the next: no duplicates.
isSortedAndUniqueByCompare(s) == \A i \in 2..Len(s) : s[i - 1] < s[i]

ValidOwners(o) ==
  /\ o.threshold <= Len(o.addrs)
  /\ o.threshold = 0 => o.addrs = <<>>
  /\ isSortedAndUniqueByCompare(o.addrs)

ValidInput(in) == isSortedAndUniqueByCompare(in)

ValidTransferOutput(out) == out.amt # 0 /\ ValidOwners(out.owners)

ValidTransferInput(amt, in) == amt # 0 /\ ValidInput(in)

ValidMintOperation(c) ==
  /\ ValidInput(c.in)
  /\ ValidOwners(c.mint)
  /\ ValidTransferOutput(c.transfer)

Equals(o, p) == o.locktime = p.locktime /\ o.threshold = p.threshold /\ o.addrs = p.addrs

-----------------------------------------------------------------------------
(* Credentials.                                                            *)

NoKey == -1

\* A signature recovers to the key that made it only for the transaction it
\* was made for; otherwise to one that nobody has, or to an error.
Recover(tx, sig) == IF sig.tx = tx THEN sig.key ELSE NoKey

\* Every index is that of an owner, and the signature is his.
Signed(c) ==
  \A i \in DOMAIN c.in :
    /\ c.in[i] < Len(c.owners.addrs)
    /\ Recover(c.tx, c.sigs[i]) = c.owners.addrs[c.in[i] + 1]

\* Mutant: the lock ends where it should begin.
VerifyCredentialsUntil(c) ==
  /\ ~(c.owners.locktime < clock)
  /\ c.owners.threshold = Len(c.in)
  /\ Len(c.in) = Len(c.sigs)
  /\ bootstrapped => Signed(c)

\* Mutant: the signatures are skipped when they should be verified.
VerifyCredentialsInverted(c) ==
  /\ ~(c.owners.locktime > clock)
  /\ c.owners.threshold = Len(c.in)
  /\ Len(c.in) = Len(c.sigs)
  /\ ~bootstrapped => Signed(c)

VerifyCredentials(c) ==
  /\ ~(c.owners.locktime > clock)
  /\ c.owners.threshold = Len(c.in)
  /\ Len(c.in) = Len(c.sigs)
  /\ bootstrapped => Signed(c)

\* Mutant: the input need not have the amount of the output.
VerifySpendAnyAmount(c) ==
  /\ ValidTransferOutput([amt |-> c.amt, owners |-> c.owners])
  /\ ValidTransferInput(c.inAmt, c.in)
  /\ VerifyCredentials(c)

VerifySpend(c) ==
  /\ ValidTransferOutput([amt |-> c.amt, owners |-> c.owners])
  /\ ValidTransferInput(c.inAmt, c.in)
  /\ c.amt = c.inAmt
  /\ VerifyCredentials(c)

VerifyOperation(c) ==
  /\ ValidMintOperation(c)
  /\ ValidOwners(c.owners)
  /\ Equals(c.owners, c.mint)
  /\ VerifyCredentials(c)

VerifyPermission(c) ==
  /\ ValidInput(c.in)
  /\ ValidOwners(c.owners)
  /\ VerifyCredentials(c)

Accepts(c) ==
  CASE c.kind = "transfer"   -> VerifySpend(c)
    [] c.kind = "operation"  -> VerifyOperation(c)
    [] c.kind = "permission" -> VerifyPermission(c)

-----------------------------------------------------------------------------
\* Initialize; some call will be made.
FxInit ==
  /\ clock = 0
  /\ bootstrapped = FALSE
  /\ call \in Calls
  /\ answer = "none" /\ at = 0 /\ full = FALSE

Tick ==
  /\ clock < MaxTime
  /\ clock' = clock + 1
  /\ UNCHANGED <<bootstrapped, call, answerVars>>

Bootstrapped ==
  /\ bootstrapped' = TRUE
  /\ UNCHANGED <<clock, call, answerVars>>

\* fx is asked about the call.
VerifyCall ==
  /\ answer' = IF Accepts(call) THEN "ok" ELSE "error"
  /\ at' = clock /\ full' = bootstrapped
  /\ UNCHANGED <<fxVars, call>>

FxNext == Tick \/ Bootstrapped \/ VerifyCall

FxSpec == FxInit /\ [][FxNext]_callVars

-----------------------------------------------------------------------------
\* A call that is accepted with its signatures has been signed, for the very
\* transaction, by as many distinct owners as the threshold says, after the
\* locktime (secp256k1fx/fx.go 173-218; that the signers are distinct needs both
\* input.go 39 and output_owners.go 121).
Authorized ==
  answer = "ok" /\ full =>
    /\ call.owners.locktime <= at
    /\ Len(call.sigs) = call.owners.threshold
    /\ \A i \in DOMAIN call.sigs :
         /\ call.sigs[i].tx = call.tx
         /\ \E j \in DOMAIN call.owners.addrs : call.owners.addrs[j] = call.sigs[i].key
    /\ \A i, j \in DOMAIN call.sigs : call.sigs[i].key = call.sigs[j].key => i = j

\* An operation that is accepted leaves the right to mint with those who had
\* it, no easier and no harder to exercise, and never out of reach
\* (secp256k1fx/fx.go 130-138, output_owners.go 97-126).
MintRightKept ==
  answer = "ok" /\ call.kind = "operation" =>
    call.mint = call.owners /\ call.mint.threshold <= Len(call.mint.addrs)

\* A call accepted with its signatures is accepted for good: what got into a
\* block verifies when the block is replayed, whenever that is
\* (secp256k1fx/fx.go 176-186).
AcceptanceFinal ==
  [][VerifyCall /\ answer = "ok" /\ full => answer' = "ok"]_callVars

\* A call rejected after its locktime is never accepted later, not even by the
\* lenient fx of a chain that is bootstrapping (secp256k1fx/fx.go 176-186).
RejectionFinal ==
  [][VerifyCall /\ answer = "error" /\ call.owners.locktime <= at => answer' = "error"]_callVars
=============================================================================
