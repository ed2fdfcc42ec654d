-------------------------- MODULE UTXOStateFaults --------------------------
(***************************************************************************)
(* UTXOState over a database whose operations may fail, in a process that  *)
(* may stop between two writes of a call.  utxo_state.go neither batches   *)
(* the writes of a call nor undoes them, so what is still true afterwards  *)
(* depends on how far the call came.  Three history variables record it:   *)
(* "tainted" that a call of this process changed cache and checksum and    *)
(* then failed to write the database, "rewritten" that one put a UTXO that *)
(* was stored already, "torn" the UTXOs whose last call wrote the database *)
(* but not every address list.                                             *)
(***************************************************************************)
EXTENDS UTXOState

VARIABLES tainted, rewritten, torn

faultVars == <<vars, tainted, rewritten, torn>>

FaultTypeOK ==
  /\ TypeOK
  /\ tainted \in BOOLEAN /\ rewritten \in BOOLEAN
  /\ torn \in SUBSET UTXO

FaultInit == Init /\ tainted = FALSE /\ rewritten = FALSE /\ torn = {}

LastWrite == op # "idle" /\ Tail(todo) = <<>>
DatabaseWritten == Head(todo) # Database

\* A call that makes all of its writes leaves its UTXO whole.
CallStep ==
  /\ Calls
  /\ torn' = IF LastWrite THEN torn \ {cur} ELSE torn
  /\ rewritten' = (rewritten \/ (op = "idle" /\ op' = "put" /\ cur' \in utxoDB))
  /\ UNCHANGED tainted

NewProcess ==
  /\ tainted' = FALSE /\ rewritten' = FALSE
  /\ \/ Restart /\ UNCHANGED torn
     \/ Crash /\ torn' = IF DatabaseWritten THEN torn \cup {cur} ELSE torn

FailedWrite ==
  /\ WriteFails
  /\ IF DatabaseWritten THEN torn' = torn \cup {cur} /\ UNCHANGED tainted
                        ELSE tainted' = TRUE /\ UNCHANGED torn
  /\ UNCHANGED rewritten

FailedRead ==
  /\ \E u \in UTXO : ReadFails(u)
  /\ UNCHANGED <<tainted, rewritten, torn>>

FaultNext == CallStep \/ NewProcess \/ FailedWrite \/ FailedRead

FaultSpec == FaultInit /\ [][FaultNext]_faultVars

-----------------------------------------------------------------------------
\* Cache and database disagree only in a process that failed to write the
\* database (utxo_state.go 185-188, 216-219); a crash, or a failure to write an
\* address list, does not make them disagree, and a restart ends it.
CacheCoherentUnlessTainted == ~tainted => CacheCoherent

\* The same for the checksum (utxo_state.go 183, 214, 273-289), in a process
\* that has not put a stored UTXO either.
ChecksumCurrentUnlessTainted == ~tainted /\ ~rewritten => ChecksumCurrent

\* The address lists are right for every UTXO whose last call was not cut off
\* after it had written the database; putting or deleting the UTXO again to the
\* end repairs its lists (utxo_state.go 190-203, 221-233).
IndexCompleteUnlessTorn ==
  \A a \in Addr, u \in UTXO \ torn :
    \/ u = cur /\ a \in ToSet(todo)
    \/ u \in ToSet(index[a]) <=> u \in Stored /\ Pays(u, a)

\* A DeleteUTXO that reports success has left the UTXO in no address list:
\* "DeleteUTXO deletes the provided utxo" (utxo_state.go 69; 205-210).  This is asked
\* of processes whose writes of the database have worked, so that an early return is
\* one for a UTXO that is gone.
DeleteDeletes ==
  [][~tainted =>
       \A u \in UTXO : DeleteNothing(u) => \A a \in Addr : u \notin ToSet(index[a])]_faultVars
=============================================================================
