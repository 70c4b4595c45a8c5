--------------------------- MODULE LedgerDiagnosis ---------------------------
(***************************************************************************)
(* ledger.Diagnose: the offline diagnosis of the ledger's files, which     *)
(* copies ledger.db and its WAL one after the other and lets SQLite check  *)
(* the copies.  The caller asserts that nothing writes the ledger and the  *)
(* function does not take that on trust: it compares hashes, identities,   *)
(* sizes and times.  Here the assertion is wrong: a writer commits,        *)
(* checkpoints and closes while the copy is made.  The SHM file goes       *)
(* through the same steps as the WAL and is left out.                      *)
(***************************************************************************)
EXTENDS Naturals

CONSTANTS
  MaxWrites,   \* bound on the writer's steps
  Coarse       \* TRUE: a write may fall into the clock tick of the last one

VARIABLES
  db, wal,     \* the authoritative files, or NoFile
  writes,      \* writes so far: a write's number is the content it leaves
  now,         \* the file system's clock
  damage,      \* the file whose bytes are damaged at rest: "none", "db", "wal"
  diag,        \* the diagnosis: its step and what it has recorded
  instants     \* every pair of contents the two files ever had together

diagVars == <<db, wal, writes, now, damage, diag, instants>>

NoFile == [exists |-> FALSE, content |-> 0, ino |-> 0, size |-> 0, mtime |-> 0]
Ino == {1, 2}
File(content, ino, size, mtime) ==
  [exists |-> TRUE, content |-> content, ino |-> ino, size |-> size, mtime |-> mtime]

Idle == [pc |-> "idle", db |-> NoFile, wal |-> NoFile, copyDb |-> NoFile,
         copyWal |-> NoFile, verdict |-> "none"]

DiagnosisInit ==
  /\ db \in {NoFile, File(0, 1, 1, 0)}
  /\ wal = NoFile
  /\ writes = 0
  /\ now = 0
  /\ damage \in {"none", "db"}
  /\ (damage = "db" => db.exists)
  /\ diag = Idle
  /\ instants = {<<db.content, wal.content>>}

-----------------------------------------------------------------------------
(* The writer.                                                             *)

\* The time a write stamps on its file.
Tick == IF Coarse THEN {now, now + 1} ELSE {now + 1}

Wrote(d, w, t) ==
  /\ db' = d
  /\ wal' = w
  /\ now' = t
  /\ writes' = writes + 1
  /\ instants' = instants \cup {<<d.content, w.content>>}

MayWrite == db.exists /\ writes < MaxWrites /\ diag.pc # "done"

\* A commit creates the WAL, grows it, or restarts it from its beginning.
WalWrite ==
  /\ MayWrite
  /\ \E i \in Ino, grow \in {0, 1}, t \in Tick :
       /\ wal.exists => i = wal.ino
       /\ Wrote(db, File(writes + 1, i, wal.size + grow, t), t)
  /\ UNCHANGED <<damage, diag>>

\* A checkpoint rewrites pages of the db file.
CheckpointWrite ==
  /\ MayWrite
  /\ wal.exists
  /\ \E grow \in {0, 1}, t \in Tick :
       Wrote([db EXCEPT !.content = writes + 1, !.size = @ + grow, !.mtime = t], wal, t)
  /\ UNCHANGED <<damage, diag>>

\* The last close removes the WAL.
WalRemove ==
  /\ MayWrite
  /\ wal.exists
  /\ \E t \in Tick : Wrote(db, NoFile, t)
  /\ damage' = IF damage = "wal" THEN "none" ELSE damage
  /\ UNCHANGED diag

\* The disk damages a WAL.
DamageWal ==
  /\ damage = "none" /\ wal.exists /\ diag.pc = "idle"
  /\ damage' = "wal"
  /\ UNCHANGED <<db, wal, writes, now, diag, instants>>

-----------------------------------------------------------------------------
(* Diagnose.                                                               *)

Keep == UNCHANGED <<db, wal, writes, now, damage, instants>>
Verdict(v) == diag' = [diag EXCEPT !.pc = "done", !.verdict = v] /\ Keep
Goto(pc, d) == diag' = [d EXCEPT !.pc = pc] /\ Keep

\* statAuthoritative: a missing ledger is not a damaged one.
StatBefore ==
  /\ diag.pc = "idle"
  /\ IF db.exists
     THEN Goto("copy_db", [diag EXCEPT !.db = db, !.wal = wal])
     ELSE Verdict("database_not_initialized")

\* copyAuthoritative, its first half: identity, hash and copy.
CopyDb ==
  /\ diag.pc = "copy_db"
  /\ Goto("check_db", [diag EXCEPT !.copyDb = db])

\* Its second half: hash before = copied = after, and the same inode.
Stable(copy, file) ==
  file.exists /\ file.ino = copy.ino /\ file.content = copy.content

CheckDb ==
  /\ diag.pc = "check_db"
  /\ IF ~Stable(diag.copyDb, db) THEN Verdict("diagnosis_inconclusive")
     ELSE Goto(IF diag.wal.exists THEN "copy_wal" ELSE "set", diag)

CopyWal ==
  /\ diag.pc = "copy_wal"
  /\ IF wal.exists THEN Goto("check_wal", [diag EXCEPT !.copyWal = wal])
     ELSE Verdict("diagnosis_inconclusive")

CheckWal ==
  /\ diag.pc = "check_wal"
  /\ IF Stable(diag.copyWal, wal) THEN Goto("set", diag)
     ELSE Verdict("diagnosis_inconclusive")

SameSetFile(a, b) ==
  a.exists = b.exists /\ (a.exists => a.ino = b.ino /\ a.size = b.size)

\* setEquals: nothing appeared, disappeared, was replaced or changed its size.
CheckSet ==
  /\ diag.pc = "set"
  /\ IF SameSetFile(diag.db, db) /\ SameSetFile(diag.wal, wal)
     THEN Goto("sqlite", diag)
     ELSE Verdict("diagnosis_inconclusive")

CopiedTogether == <<diag.copyDb.content, diag.copyWal.content>> \in instants

\* diagnoseConnection on the copies: all files, or the db file alone.  A pair
\* of files that never existed together may look any way to SQLite.
Passes(part) ==
  CASE part = "alone" -> {damage # "db"}
    [] part = "full"  -> IF CopiedTogether
                         THEN {damage = "none" \/ (damage = "wal" /\ ~diag.copyWal.exists)}
                         ELSE BOOLEAN

\* diagnoseSnapshot: a db file that is sound alone puts the blame on the WAL.
Classify(full, alone) ==
  IF full THEN "healthy"
  ELSE IF diag.copyWal.exists /\ alone THEN "wal_inconsistent"
  ELSE "ledger_corrupt"

DiagnoseSnapshot ==
  /\ diag.pc = "sqlite"
  /\ \E full \in Passes("full"), alone \in Passes("alone") :
       Goto("after", [diag EXCEPT !.verdict = Classify(full, alone)])

\* Mutant: what changed while SQLite ran is not looked at.
SameAsMutant(a, b) == SameSetFile(a, b)

\* sameAs compares times too.
SameAs(a, b) == SameSetFile(a, b) /\ (a.exists => a.mtime = b.mtime)

StatAfter ==
  /\ diag.pc = "after"
  /\ IF SameAs(diag.db, db) /\ SameAs(diag.wal, wal)
     THEN Goto("done", diag)
     ELSE Verdict("diagnosis_inconclusive")

DiagnosisNext ==
  \/ WalWrite \/ CheckpointWrite \/ WalRemove \/ DamageWal
  \/ StatBefore \/ CopyDb \/ CheckDb \/ CopyWal \/ CheckWal \/ CheckSet
  \/ DiagnoseSnapshot \/ StatAfter

DiagnosisSpec == DiagnosisInit /\ [][DiagnosisNext]_diagVars

-----------------------------------------------------------------------------
(* Properties.                                                             *)

Concluded == diag.pc = "done" /\ diag.verdict \notin
               {"database_not_initialized", "diagnosis_inconclusive"}

DiagnosisTypeOK ==
  /\ diag.verdict \in {"none", "database_not_initialized", "healthy",
                       "ledger_corrupt", "wal_inconsistent", "diagnosis_inconclusive"}
  /\ damage \in {"none", "db", "wal"}
  /\ writes \in 0 .. MaxWrites

\* A conclusive verdict is about two files that were on disk together, even
\* when the caller's promise that nothing writes was wrong; and it blames the
\* file that is damaged.  An undamaged ledger is never called damaged, and a
\* damaged db file never a WAL problem, which has another remedy.
VerdictIsSound ==
  Concluded =>
    /\ CopiedTogether
    /\ diag.verdict = "healthy" => damage # "db"
    /\ diag.verdict = "wal_inconsistent" => damage = "wal"
    /\ diag.verdict = "ledger_corrupt" => damage = "db"
=============================================================================
