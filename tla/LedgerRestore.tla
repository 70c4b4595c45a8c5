---------------------------- MODULE LedgerRestore ----------------------------
(***************************************************************************)
(* Backing the ledger up and restoring it: Repository.Backup and           *)
(* ledgerrestore.Run over the files of one data root, with a daemon that   *)
(* commits, a process that can be killed and a machine that can lose power.*)
(*                                                                         *)
(* A ledger's content is the sequence of its committed records, so "file A *)
(* is byte-identical to B" is equality and "the digest of A" is A.  The    *)
(* ledger on disk is ledger.db plus the frames of its WAL, which extend    *)
(* the db file they were written over.  A directory change that was not    *)
(* synced may be lost with the power; changes are lost last first, which   *)
(* is what the code's one sync after several changes relies on.            *)
(***************************************************************************)
EXTENDS Naturals, Sequences, FiniteSets, SequencesExt

CONSTANTS
  Backup,      \* paths of backup files inside the data root
  Restore,     \* runs of the restore tool
  None,
  MaxEvents,   \* bound on events the daemon commits
  MaxRows,     \* bound on backups recorded in the catalog
  Faults,      \* subset of {"io", "crash", "power", "plant"}
  Races        \* overlaps allowed: subset of {"daemon"}

VARIABLES
  fs,        \* the data root as a process sees it
  pending,   \* earlier states of the data root a power loss may bring back
  backups,   \* the content of each backup file, or None
  due,       \* a backup file that is published and not in the catalog yet
  running,   \* whether a daemon has the ledger open
  committed, \* events ever committed
  run        \* the state of each run of the restore tool

vars == <<fs, pending, backups, due, running, committed, run>>

Event(n) == [kind |-> "event", id |-> n]
Row(b, content) == [kind |-> "backup", path |-> b, digest |-> content]
IsEvent(x) == x.kind = "event"

\* A well-formed ledger of some other home.
Foreign == <<Event(0)>>

Events(content) == {content[i].id : i \in {j \in DOMAIN content : IsEvent(content[j])}}
Rows(content) == Cardinality({j \in DOMAIN content : ~IsEvent(content[j])})

\* WAL frames count only over the db file they extend.
StaleSidecar(f) == f.wal # <<>> /\ f.base # f.db
Effective(f) == IF StaleSidecar(f) THEN f.db ELSE f.db \o f.wal

NoQuarantine == [phase |-> "absent", db |-> <<>>, wal |-> <<>>, path |-> None,
                 digest |-> <<>>]
NotRun == [pc |-> "idle", backup |-> None, digest |-> <<>>, stale |-> FALSE,
           staged |-> <<>>, result |-> "none"]

Init ==
  /\ fs = [db |-> <<>>, wal |-> <<>>, base |-> <<>>,
           q |-> [r \in Restore |-> NoQuarantine]]
  /\ pending = {}
  /\ backups = [b \in Backup |-> None]
  /\ due = None
  /\ running = FALSE
  /\ committed = 0
  /\ run = [r \in Restore |-> NotRun]

Active(r) == run[r].pc \notin {"idle", "done"}
DirChange(f) == fs' = f /\ pending' = pending \cup {fs}
Sync == pending' = {}

-----------------------------------------------------------------------------
(* The daemon and its backups.                                             *)

StartDaemon ==
  /\ ~running
  /\ "daemon" \in Races \/ \A r \in Restore : ~Active(r)
  /\ running' = TRUE
  /\ UNCHANGED <<fs, pending, backups, due, committed, run>>

\* A committed transaction is in the WAL and synced (synchronous=FULL).
Write(x) ==
  /\ fs' = [fs EXCEPT !.wal = IF StaleSidecar(fs) THEN <<x>> ELSE Append(@, x),
                      !.base = fs.db]
  /\ Sync

Commit ==
  /\ running
  /\ committed < MaxEvents
  /\ committed' = committed + 1
  /\ Write(Event(committed + 1))
  /\ UNCHANGED <<backups, due, running, run>>

\* SQLite folds the WAL into the db file and removes it.
Folded(f) == [f EXCEPT !.db = Effective(f), !.wal = <<>>, !.base = <<>>]

Checkpoint ==
  /\ running
  /\ fs.wal # <<>>
  /\ fs' = Folded(fs)
  /\ Sync
  /\ UNCHANGED <<backups, due, running, committed, run>>

\* A clean stop closes the last connection, which checkpoints.
StopDaemon ==
  /\ running
  /\ due = None
  /\ running' = FALSE
  /\ fs' = Folded(fs)
  /\ Sync
  /\ UNCHANGED <<backups, due, committed, run>>

CrashDaemon ==
  /\ "crash" \in Faults
  /\ running
  /\ running' = FALSE
  /\ due' = None
  /\ UNCHANGED <<fs, pending, backups, committed, run>>

\* durablewrite publishes the file whole; its digest is of what was written.
BackupFile(b) ==
  /\ running
  /\ due = None
  /\ Rows(Effective(fs)) < MaxRows
  /\ Effective(fs) # <<>>
  /\ backups' = [backups EXCEPT ![b] = Effective(fs)]
  /\ due' = [path |-> b, digest |-> Effective(fs)]
  /\ UNCHANGED <<fs, pending, running, committed, run>>

\* The catalog row is inserted into the live ledger afterwards, or not: the
\* insert and the directory sync before it can fail.
BackupRecord ==
  /\ running
  /\ due # None
  /\ due' = None
  /\ \/ Write(Row(due.path, due.digest))
     \/ "io" \in Faults /\ UNCHANGED <<fs, pending>>
  /\ UNCHANGED <<backups, running, committed, run>>

\* Somebody copies a ledger of another home over a backup file.
Plant(b) ==
  /\ "plant" \in Faults
  /\ backups[b] # Foreign
  /\ backups' = [backups EXCEPT ![b] = Foreign]
  /\ UNCHANGED <<fs, pending, due, running, committed, run>>

-----------------------------------------------------------------------------
(* Provenance.                                                             *)

\* A copy of the three files is opened; the originals are not touched.
SnapshotCopy == Effective(fs)

\* The newest catalog row of path b in that copy, if there is one.
CatalogRow(b) ==
  LET rows == {i \in DOMAIN SnapshotCopy :
                 ~IsEvent(SnapshotCopy[i]) /\ SnapshotCopy[i].path = b}
  IN  {SnapshotCopy[i] : i \in {j \in rows : \A k \in rows : k <= j}}

CatalogProves(b, digest) == \E row \in CatalogRow(b) : row.digest = digest

\* A row whose digest differs is an error, not an absent row.
CatalogContradicts(b, digest) == \E row \in CatalogRow(b) : row.digest # digest

\* Directories are looked at in the order of their random names, up to the first
\* whose manifest fits or that cannot be read in full, which refuses.
EvidenceProves(b, digest) ==
  LET fits == \E r \in Restore : /\ fs.q[r].phase = "written"
                                 /\ fs.q[r].path = b /\ fs.q[r].digest = digest
      broken == \E r \in Restore : fs.q[r].phase = "partial"
  IN  {proof \in BOOLEAN : IF proof THEN fits ELSE broken \/ ~fits}

\* What the search for a proof may come to.
Provenance(b, digest) ==
  IF CatalogProves(b, digest) THEN {TRUE}
  ELSE IF fs.db = digest /\ ~CatalogContradicts(b, digest) THEN EvidenceProves(b, digest)
  ELSE {FALSE}

-----------------------------------------------------------------------------
(* The restore.                                                            *)

Step(r, pc, f) == run' = [run EXCEPT ![r] = [f EXCEPT !.pc = pc]]
Ended(result) == [NotRun EXCEPT !.pc = "done", !.result = result]
End(r, result) == run' = [run EXCEPT ![r] = Ended(result)]

\* The arguments, the socket and the lock: a running daemon refuses.
CheckRestore(r) ==
  /\ run[r].pc = "idle"
  /\ \A s \in Restore : ~Active(s)
  /\ \E b \in Backup, stale \in BOOLEAN :
       /\ backups[b] # None
       /\ IF running THEN End(r, "failed")
          ELSE Step(r, "stage", [run[r] EXCEPT !.backup = b, !.stale = stale,
                                               !.digest = backups[b]])
  /\ UNCHANGED <<fs, pending, backups, due, running, committed>>

\* Mutant: the staged copy is not compared with the operator's digest.
StageBackupMutant(r) ==
  /\ run[r].pc = "stage"
  /\ Step(r, "prove", [run[r] EXCEPT !.staged = backups[run[r].backup]])
  /\ UNCHANGED <<fs, pending, backups, due, running, committed>>

\* Abandoned staging files go; the copy must still have the digest.
StageBackup(r) ==
  /\ run[r].pc = "stage"
  /\ IF backups[run[r].backup] = run[r].digest
     THEN Step(r, "prove", [run[r] EXCEPT !.staged = backups[run[r].backup]])
     ELSE End(r, "failed")
  /\ UNCHANGED <<fs, pending, backups, due, running, committed>>

ProveProvenance(r) ==
  /\ run[r].pc = "prove"
  /\ \E proof \in Provenance(run[r].backup, run[r].digest) :
       IF proof
       THEN Step(r, IF fs.db = run[r].digest THEN "already" ELSE "stale", run[r])
       ELSE End(r, "failed")
  /\ UNCHANGED <<fs, pending, backups, due, running, committed>>

Healthy(f) == ~StaleSidecar(f)

\* The db file is the backup already: sync, diagnose, report.
AlreadyRestored(r) ==
  /\ run[r].pc = "already"
  /\ Sync
  /\ End(r, IF Healthy(fs) THEN "already_restored" ELSE "failed")
  /\ UNCHANGED <<fs, backups, due, running, committed>>

\* backupCoversLive: every chain head, at an equal or greater sequence.
Covers(staged, live) == Cardinality(Events(staged)) >= Cardinality(Events(live))

\* Opening the live ledger for the comparison folds its WAL, as any last
\* close does.
StalenessCheck(r) ==
  /\ run[r].pc = "stale"
  /\ IF run[r].stale
     THEN Step(r, "quarantine", run[r]) /\ UNCHANGED <<fs, pending>>
     ELSE /\ fs' = IF running THEN fs ELSE Folded(fs)
          /\ Sync
          /\ IF Covers(run[r].staged, Effective(fs))
             THEN Step(r, "quarantine", run[r])
             ELSE End(r, "failed")
  /\ UNCHANGED <<backups, due, running, committed>>

QuarantineCreate(r) ==
  /\ run[r].pc = "quarantine"
  /\ DirChange([fs EXCEPT !.q[r] = [NoQuarantine EXCEPT !.phase = "partial"]])
  /\ Step(r, "preserve", run[r])
  /\ UNCHANGED <<backups, due, running, committed>>

\* Mutant: the WAL is not preserved.
PreserveMutant(r) ==
  [phase |-> "written", db |-> fs.db, wal |-> <<>>, path |-> run[r].backup,
   digest |-> run[r].digest]

\* What a manifest says of the restore that wrote it.
Manifest(r) == [path |-> run[r].backup, digest |-> run[r].digest]

\* The db file, its WAL and the manifest, each synced as it is written.
Preserve(r) ==
  [phase |-> "written", db |-> fs.db,
   wal |-> IF StaleSidecar(fs) THEN <<>> ELSE fs.wal,
   path |-> Manifest(r).path, digest |-> Manifest(r).digest]

QuarantineOriginal(r) ==
  /\ run[r].pc = "preserve"
  /\ DirChange([fs EXCEPT !.q[r] = Preserve(r)])
  /\ Step(r, "sync_quarantine", run[r])
  /\ UNCHANGED <<backups, due, running, committed>>

QuarantineSync(r) ==
  /\ run[r].pc = "sync_quarantine"
  /\ Sync
  /\ Step(r, "semantic", run[r])
  /\ UNCHANGED <<fs, backups, due, running, committed>>

\* The optional pre-restore backup: a file this home's catalog never records.
SemanticBackup(r) ==
  /\ run[r].pc = "semantic"
  /\ \/ UNCHANGED backups
     \/ \E b \in Backup : /\ backups[b] = None
                          /\ backups' = [backups EXCEPT ![b] = Effective(fs)]
  /\ Step(r, "sidecars", run[r])
  /\ UNCHANGED <<fs, pending, due, running, committed>>

RemoveLiveSidecars(r) ==
  /\ run[r].pc = "sidecars"
  /\ DirChange([fs EXCEPT !.wal = <<>>, !.base = <<>>])
  /\ Step(r, "publish", run[r])
  /\ UNCHANGED <<backups, due, running, committed>>

PublishRename(r) ==
  /\ run[r].pc = "publish"
  /\ DirChange([fs EXCEPT !.db = run[r].staged])
  /\ Step(r, "sync", run[r])
  /\ UNCHANGED <<backups, due, running, committed>>

PublishSync(r) ==
  /\ run[r].pc = "sync"
  /\ Sync
  /\ Step(r, "verify", run[r])
  /\ UNCHANGED <<fs, backups, due, running, committed>>

PostVerify(r) ==
  /\ run[r].pc = "verify"
  /\ End(r, IF Healthy(fs) THEN "applied" ELSE "failed")
  /\ UNCHANGED <<fs, pending, backups, due, running, committed>>

\* A step fails: a partial quarantine is removed, a complete one is kept.
FailRestore(r) ==
  /\ "io" \in Faults
  /\ Active(r)
  /\ IF run[r].pc \in {"preserve", "sync_quarantine"}
     THEN DirChange([fs EXCEPT !.q[r] = NoQuarantine])
     ELSE UNCHANGED <<fs, pending>>
  /\ End(r, "failed")
  /\ UNCHANGED <<backups, due, running, committed>>

CrashRestore(r) ==
  /\ "crash" \in Faults
  /\ Active(r)
  /\ End(r, "failed")
  /\ UNCHANGED <<fs, pending, backups, due, running, committed>>

\* Every process dies and unsynced directory changes may be undone.
PowerLoss ==
  /\ "power" \in Faults
  /\ running \/ \E r \in Restore : Active(r)
  /\ fs' \in pending \cup {fs}
  /\ pending' = {}
  /\ running' = FALSE
  /\ due' = None
  /\ run' = [r \in Restore |->
               IF Active(r) THEN Ended("failed")
               ELSE run[r]]
  /\ UNCHANGED <<backups, committed>>

-----------------------------------------------------------------------------
DaemonNext ==
  \/ StartDaemon \/ Commit \/ Checkpoint \/ StopDaemon \/ CrashDaemon
  \/ BackupRecord \/ \E b \in Backup : BackupFile(b) \/ Plant(b)

RestoreNext(r) ==
  \/ CheckRestore(r) \/ StageBackup(r) \/ ProveProvenance(r)
  \/ AlreadyRestored(r) \/ StalenessCheck(r)
  \/ QuarantineCreate(r) \/ QuarantineOriginal(r) \/ QuarantineSync(r)
  \/ SemanticBackup(r) \/ RemoveLiveSidecars(r)
  \/ PublishRename(r) \/ PublishSync(r) \/ PostVerify(r)
  \/ FailRestore(r) \/ CrashRestore(r)

Next == DaemonNext \/ PowerLoss \/ \E r \in Restore : RestoreNext(r)

Spec == Init /\ [][Next]_vars

-----------------------------------------------------------------------------
(* Properties.                                                             *)

Phase == {"absent", "partial", "written"}
RestorePC == {"idle", "stage", "prove", "already", "stale", "quarantine",
              "preserve", "sync_quarantine", "semantic", "sidecars", "publish",
              "sync", "verify", "done"}

RestoreTypeOK ==
  /\ running \in BOOLEAN
  /\ committed \in 0 .. MaxEvents
  /\ \A r \in Restore : /\ fs.q[r].phase \in Phase
                        /\ run[r].pc \in RestorePC
                        /\ run[r].backup \in Backup \cup {None}
                        /\ run[r].stale \in BOOLEAN

Preserved(q) == IF q.phase = "written" THEN Events(q.db \o q.wal) ELSE {}

\* No event is ever lost from the data root: it is in the ledger a daemon
\* would open, or in a completed quarantine.  A restore, wherever it fails,
\* is killed or loses the power, only ever moves events out of the ledger
\* after it has preserved them.
NoEventLost ==
  1 .. committed \subseteq
    Events(Effective(fs)) \cup UNION {Preserved(fs.q[r]) : r \in Restore}

\* Nothing but a history of this home becomes the ledger, although anybody
\* may put another home's ledger at a backup's path at any moment.
LedgerIsOurs == 0 \notin Events(fs.db)

\* The ledger never sits beside a WAL of another ledger file, which SQLite
\* would replay into it.
NoStaleSidecar == ~StaleSidecar(fs)

\* What a daemon finds when it opens the ledger, at every instant and after
\* every failure of a restore: no event is lost, nothing foreign has come in,
\* and no other ledger's WAL is replayed into it.
RestoredLedgerIsWhole == NoEventLost /\ LedgerIsOurs /\ NoStaleSidecar

\* A restore that was not told to accept a stale backup drops no event the
\* live ledger has, although it compares sequence numbers and no contents.
DropsNothing(r) ==
  run[r].pc = "publish" /\ run'[r].pc = "sync" /\ ~run[r].stale
    => Events(Effective(fs)) \subseteq Events(Effective(fs'))

\* "Applied" is reported only when the daemon's next open finds exactly the
\* content whose digest the operator named.
IsExact(r) ==
  run[r].result = "none" /\ run'[r].result = "applied"
    => Effective(fs') = run[r].digest

\* A restore does what its operator asked: both of the above, of every step.
RestoreAsAsked == [][\A r \in Restore : DropsNothing(r) /\ IsExact(r)]_vars

\* Stated by Report.AlreadyRestored: the authoritative ledger was already
\* identical to the backup, so the daemon's next open finds its events.
AlreadyRestoredIsExact ==
  [][\A r \in Restore :
       run[r].result = "none" /\ run'[r].result = "already_restored"
         => Events(Effective(fs')) = Events(run[r].digest)]_vars
=============================================================================
