------------------------------ MODULE DataRoot ------------------------------
(***************************************************************************)
(* The files of one data root, as machines over one state: the daemon      *)
(* lock, the backups and restores of the ledger (R), its diagnosis (D),    *)
(* its hash chains with their checkpoints (H), the records the operator    *)
(* keeps (O) and the tools that throw things away (K).  They share no      *)
(* variable: a restore takes the lock, which LedgerRestore carries as      *)
(* `running`, a tool too, which Housekeeping carries as `owner`, and the   *)
(* records have a lock of their own.                                       *)
(***************************************************************************)
EXTENDS DaemonLock

CONSTANTS
  Backup, Restore, MaxEvents, MaxRows, RestoreFaults, RestoreRaces,
  Recorder, MaxLines, RecordFaults, MarkerFails,
  MaxWrites, Coarse,
  Chains, ChainRows, MaxDamage, MaxReceipts, MaxSeals,
  Tx, Place, ActiveTools, ExpireAfter, PruneAfter, KeepLatest, MinimumAge,
  MaxBackups, MaxTime, ToolFaults, MaxToolFaults, Overlaps, Damaged

VARIABLES
  fs, pending, backups, due, running, committed, run,
  trail, durable, named, marker, latch, at, said, unsure,
  receipts, reading, told, spent,
  db, wal, writes, now, damage, diag, instants,
  rows, open, tool, sealed, checkpoint, signed, links, count,
  txs, paths, catalog, owner, jobs, actions, gone, hasty, time, faults

R == INSTANCE LedgerRestore WITH Faults <- RestoreFaults, Races <- RestoreRaces

O == INSTANCE OperatorRecords WITH
       Process <- Recorder, MaxFaults <- RecordFaults, lock <- latch, entry <- named

D == INSTANCE LedgerDiagnosis

H == INSTANCE LedgerChains WITH
       MaxRows <- ChainRows, backup <- sealed, receipts <- signed

K == INSTANCE Housekeeping WITH
       Active <- ActiveTools, Faults <- ToolFaults, MaxFaults <- MaxToolFaults

-----------------------------------------------------------------------------
(* What each machine promises, with the shape of its state.                *)

\* What a daemon finds when it opens the ledger, whichever step of Backup or
\* of ledgerrestore.Run was the last one before a failure, a kill or a loss of
\* power: every event, nothing foreign, and no WAL of another ledger.
RestoredLedgerIsWhole == R!RestoreTypeOK /\ R!RestoredLedgerIsWhole

\* A restore drops no event unless it was told that it may, and reports
\* "applied" only when the ledger is the backup whose digest was named.
RestoreAsAsked == R!RestoreAsAsked

\* What Trail.Record answered for stays in the audit trail, in one chain that
\* fails closed, and a receipt chain that Verify accepts lists every receipt
\* that was answered for.
RecordsAreKept == O!RecordsTypeOK /\ O!RecordsAreKept

\* A diagnosis that concludes anything speaks of two files that were on disk
\* together, and blames the one that is damaged.
VerdictIsSound == D!DiagnosisTypeOK /\ D!VerdictIsSound

\* A chain that verifies, and the backup under a checkpoint that verifies, hold
\* the rows FutureDiff left, each after the row it left it after.
ChainsAreHonest == H!ChainsTypeOK /\ H!ChainsAreHonest

\* Expiry, pruning and the backup catalog throw away what they planned to, as
\* long as it is still what they planned for, and record only what they did.
HousekeepingIsSafe == K!HousekeepingTypeOK /\ K!HousekeepingIsSafe
=============================================================================
