----------------------------- MODULE MCDataRoot -----------------------------
(***************************************************************************)
(* The machines that own the data root's files, side by side: the daemon   *)
(* lock, the restore, the diagnosis, the ledger's hash chains with their   *)
(* checkpoints, the operator's records, and the tools that throw things    *)
(* away.  They share no state, so `machine` picks the one a behaviour is   *)
(* about and the others stay put.  The chains are taken twice, once for    *)
(* each way a chain is verified, and the tools work on transactions in one *)
(* behaviour and on backups in another.                                    *)
(***************************************************************************)
EXTENDS DataRoot, TLC

CONSTANTS d1, d2, i1, i2, i3, b1, b2, r1, r2, p1, p2, t1, t2, q1, q2

VARIABLES machine

restoreVars == <<fs, pending, backups, due, running, committed, run>>
diagVars == <<db, wal, writes, now, damage, diag, instants>>
chainVars == <<rows, open, tool, sealed, checkpoint, signed, links, count>>
recordVars == <<trail, durable, named, marker, latch, at, said, unsure,
                receipts, reading, told, spent>>
toolVars == <<txs, paths, catalog, owner, jobs, actions, gone, hasty, time, faults>>

\* The chains that rows are written to.
Chained == CASE machine = "events" -> {"events"}
             [] machine = "numbered" -> Chains \ {"events"}
             [] OTHER -> {}

MCInit ==
  /\ machine \in {"lock", "restore", "diagnosis", "events", "numbered", "records",
                 "transactions", "backups"}
  /\ Init /\ R!Init /\ O!Init
  /\ IF machine = "diagnosis" THEN D!DiagnosisInit
     ELSE /\ db = D!NoFile /\ wal = D!NoFile /\ writes = 0 /\ now = 0
          /\ damage = "none" /\ diag = D!Idle /\ instants = {}
  /\ H!Init /\ \A c \in Chains \ Chained : rows[c] = <<>>
  /\ K!Init

Only(m) == machine = m /\ UNCHANGED machine

\* The steps of the tools that concern transactions, with one fault, and those
\* that concern backups.
OfTransactions ==
  faults' <= 1 /\ UNCHANGED K!backupVars /\ jobs'["catalog"] = jobs["catalog"]
OfBackups ==
  UNCHANGED K!txVars /\ \A k \in {"expire", "prune"} : jobs'[k] = jobs[k]

MCNext ==
  \/ /\ Only("lock") /\ Next
     /\ UNCHANGED <<restoreVars, diagVars, chainVars, recordVars, toolVars>>
  \/ /\ Only("restore") /\ R!Next
     /\ UNCHANGED <<vars, diagVars, chainVars, recordVars, toolVars>>
  \/ /\ Only("diagnosis") /\ D!DiagnosisNext
     /\ UNCHANGED <<vars, restoreVars, chainVars, recordVars, toolVars>>
  \/ /\ Only("events") \/ Only("numbered")
     /\ H!Next /\ \A c \in Chains \ Chained : rows'[c] = <<>>
     /\ UNCHANGED <<vars, restoreVars, diagVars, recordVars, toolVars>>
  \/ /\ Only("records") /\ O!Next
     /\ UNCHANGED <<vars, restoreVars, diagVars, chainVars, toolVars>>
  \/ /\ \/ Only("transactions") /\ K!Next /\ OfTransactions
        \/ Only("backups") /\ K!Next /\ OfBackups
     /\ UNCHANGED <<vars, restoreVars, diagVars, chainVars, recordVars>>

MCSpec ==
  MCInit /\ [][MCNext]_<<machine, vars, restoreVars, diagVars, chainVars, recordVars,
                        toolVars>>

MCSymmetry ==
  Permutations(Daemon) \cup Permutations(Restore) \cup Permutations(Recorder)
=============================================================================
