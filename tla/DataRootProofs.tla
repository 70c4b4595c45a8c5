--------------------------- MODULE DataRootProofs ---------------------------
(***************************************************************************)
(* What the machines of DataRoot keep, for any number of backups,          *)
(* restores, events, writes and processes: the ledger a restore leaves,    *)
(* the records the operator keeps and what a diagnosis concludes.          *)
(***************************************************************************)
EXTENDS DataRoot, SequenceTheorems, FiniteSetTheorems, WellFoundedInduction, TLAPS

-----------------------------------------------------------------------------
(* The content of a ledger.                                                *)

\* The bound on events is a number.
RestoreBounds == MaxEvents \in Nat

\* A sequence of records.
Word(c) == \E T : c \in Seq(T)

\* The digests a content holds are of contents of the same kind.
RecordsOwn(x, S) ==
  \A i \in DOMAIN x : ~R!IsEvent(x[i]) =>
    x[i].digest \in S /\ R!Events(x[i].digest) \subseteq R!Events(x)

\* A history of this home: its own events only, and each backup it records is
\* an earlier history of this home.
Ours(c) ==
  \E S, T : /\ c \in S
            /\ \A x \in S : /\ x \in Seq(T)
                            /\ R!Events(x) \subseteq 1 .. MaxEvents
                            /\ RecordsOwn(x, S)

\* A record adds its event, if it is one, to the events of a ledger.
LEMMA EventsAppend ==
  ASSUME NEW c, Word(c), NEW x
  PROVE  /\ Word(Append(c, x))
         /\ R!Events(Append(c, x)) = R!Events(c) \cup (IF R!IsEvent(x) THEN {x.id} ELSE {})
<1>1. PICK T : c \in Seq(T)
  BY DEF Word
<1> DEFINE U == T \cup {x}
           d == Append(c, x)
<1>2. c \in Seq(U)
  BY <1>1, SeqMonotonic
<1>3. /\ d \in Seq(U) /\ Len(c) \in Nat /\ Len(d) = Len(c) + 1
      /\ \A i \in 1 .. Len(c) : d[i] = c[i]
      /\ d[Len(c) + 1] = x
  BY <1>2, AppendProperties, LenProperties
<1>4. DOMAIN c = 1 .. Len(c) /\ DOMAIN d = 1 .. Len(c) + 1
  BY <1>2, <1>3, LenProperties
<1> HIDE DEF d
<1>5. DOMAIN d = DOMAIN c \cup {Len(c) + 1}
  BY <1>3, <1>4
<1>6. R!Events(d) = R!Events(c) \cup (IF R!IsEvent(x) THEN {x.id} ELSE {})
  BY <1>3, <1>4, <1>5 DEF R!Events, R!IsEvent
<1>7. Word(d)
  BY <1>3 DEF Word
<1> QED BY <1>6, <1>7 DEF d

\* The frames of a WAL add events to those of the file they extend.
LEMMA EventsPrefix ==
  ASSUME NEW c, NEW w, Word(c), Word(w)
  PROVE  Word(c \o w) /\ R!Events(c) \subseteq R!Events(c \o w)
<1>1. PICK T1 : c \in Seq(T1)
  BY DEF Word
<1>2. PICK T2 : w \in Seq(T2)
  BY DEF Word
<1> DEFINE T == T1 \cup T2
<1>3. c \in Seq(T) /\ w \in Seq(T)
  BY <1>1, <1>2, SeqMonotonic
<1> DEFINE d == c \o w
<1>4. /\ d \in Seq(T) /\ Len(d) = Len(c) + Len(w) /\ Len(c) \in Nat /\ Len(w) \in Nat
      /\ \A i \in 1 .. Len(c) : d[i] = c[i]
  BY <1>3, ConcatProperties, LenProperties
<1>5. DOMAIN c = 1 .. Len(c) /\ DOMAIN d = 1 .. Len(d)
  BY <1>3, <1>4, LenProperties
<1> HIDE DEF d
<1>6. DOMAIN c \subseteq DOMAIN d
  BY <1>4, <1>5
<1>7. R!Events(c) \subseteq R!Events(d)
  BY <1>4, <1>5, <1>6 DEF R!Events, R!IsEvent
<1>8. Word(d)
  BY <1>4 DEF Word
<1> QED BY <1>7, <1>8 DEF d

\* Over an empty WAL a ledger is its db file, and appending to the WAL is
\* appending to the ledger.
LEMMA JoinFacts ==
  ASSUME NEW c, NEW w, Word(c), Word(w), NEW x
  PROVE  /\ c \o <<>> = c
         /\ c \o Append(w, x) = Append(c \o w, x)
         /\ Word(<<>>) /\ Word(Append(w, x))
<1>1. PICK T1 : c \in Seq(T1)
  BY DEF Word
<1>2. PICK T2 : w \in Seq(T2)
  BY DEF Word
<1> DEFINE T == T1 \cup T2 \cup {x}
<1>3. c \in Seq(T) /\ w \in Seq(T) /\ x \in T
  BY <1>1, <1>2, SeqMonotonic
<1>4. c \o <<>> = c
  BY <1>3, ConcatEmptySeq
<1>5. /\ c \o w \in Seq(T) /\ <<x>> \in Seq(T)
      /\ Append(w, x) = w \o <<x>>
      /\ Append(c \o w, x) = (c \o w) \o <<x>>
  BY <1>3, AppendIsConcat, ConcatProperties
<1>6. (c \o w) \o <<x>> = c \o (w \o <<x>>)
  BY <1>3, <1>5, ConcatAssociative
<1>7. Append(w, x) \in Seq(T) /\ <<>> \in Seq(T)
  BY <1>3, AppendProperties, EmptySeq
<1> QED BY <1>4, <1>5, <1>6, <1>7 DEF Word

\* A history holds finitely many events, all of this home, and so does each
\* backup it records.
LEMMA OursFacts ==
  ASSUME RestoreBounds, NEW c, Ours(c)
  PROVE  /\ Word(c) /\ R!Events(c) \subseteq 1 .. MaxEvents
         /\ 0 \notin R!Events(c) /\ IsFiniteSet(R!Events(c))
         /\ \A i \in DOMAIN c : ~R!IsEvent(c[i]) =>
              Ours(c[i].digest) /\ R!Events(c[i].digest) \subseteq R!Events(c)
<1>1. PICK S, T : /\ c \in S
                  /\ \A x \in S : /\ x \in Seq(T)
                                  /\ R!Events(x) \subseteq 1 .. MaxEvents
                                  /\ RecordsOwn(x, S)
  BY DEF Ours
<1>2. Word(c) /\ R!Events(c) \subseteq 1 .. MaxEvents /\ 0 \notin R!Events(c)
  BY <1>1 DEF Word
<1>3. IsFiniteSet(R!Events(c))
  <2>1. IsFiniteSet(1 .. MaxEvents)
    BY FS_Interval DEF RestoreBounds
  <2> QED BY <1>2, <2>1, FS_Subset
<1>4. ASSUME NEW i \in DOMAIN c, ~R!IsEvent(c[i])
      PROVE  Ours(c[i].digest) /\ R!Events(c[i].digest) \subseteq R!Events(c)
  BY <1>1, <1>4 DEF RecordsOwn, Ours
<1> QED BY <1>2, <1>3, <1>4

\* A history with one more record is one, if what it records is: an event of
\* this home, or a backup that holds no event the ledger does not.
LEMMA OursAppend ==
  ASSUME NEW c, Ours(c), NEW x,
         R!IsEvent(x) => x.id \in 1 .. MaxEvents,
         ~R!IsEvent(x) => Ours(x.digest) /\ R!Events(x.digest) \subseteq R!Events(c)
  PROVE  Ours(Append(c, x))
<1> DEFINE Witness(y, S, T) == /\ y \in S
                               /\ \A z \in S : /\ z \in Seq(T)
                                               /\ R!Events(z) \subseteq 1 .. MaxEvents
                                               /\ RecordsOwn(z, S)
<1>1. PICK S1, T1 : Witness(c, S1, T1)
  BY DEF Ours
<1>2. PICK S2, T2 : IF R!IsEvent(x) THEN S2 = {} /\ T2 = {} ELSE Witness(x.digest, S2, T2)
  <2>1. CASE R!IsEvent(x)
    BY <2>1
  <2>2. CASE ~R!IsEvent(x)
    BY <2>2 DEF Ours
  <2> QED BY <2>1, <2>2
<1> DEFINE d == Append(c, x)
           S == S1 \cup S2 \cup {d}
           T == T1 \cup T2 \cup {x}
<1>3. \A z \in S1 \cup S2 : z \in Seq(T) /\ R!Events(z) \subseteq 1 .. MaxEvents
  <2> TAKE z \in S1 \cup S2
  <2>1. z \in Seq(T1) \/ z \in Seq(T2)
    BY <1>1, <1>2
  <2>2. z \in Seq(T)
    BY <2>1, SeqMonotonic
  <2> QED BY <1>1, <1>2, <2>2
<1>4. \A z \in S1 \cup S2 : RecordsOwn(z, S)
  BY <1>1, <1>2 DEF RecordsOwn
<1>5. Word(c) /\ c \in Seq(T)
  BY <1>1, <1>3 DEF Word
<1>6. /\ d \in Seq(T) /\ Len(c) \in Nat /\ Len(d) = Len(c) + 1
      /\ \A i \in 1 .. Len(c) : d[i] = c[i]
      /\ d[Len(c) + 1] = x
  BY <1>5, AppendProperties, LenProperties
<1>7. DOMAIN c = 1 .. Len(c) /\ DOMAIN d = 1 .. Len(c) + 1
  BY <1>5, <1>6, LenProperties
<1>8. R!Events(d) = R!Events(c) \cup (IF R!IsEvent(x) THEN {x.id} ELSE {})
  BY <1>5, EventsAppend
<1> HIDE DEF d
<1>9. R!Events(d) \subseteq 1 .. MaxEvents
  BY <1>1, <1>8
<1>10. RecordsOwn(d, S)
  <2> SUFFICES ASSUME NEW i \in DOMAIN d, ~R!IsEvent(d[i])
               PROVE  d[i].digest \in S /\ R!Events(d[i].digest) \subseteq R!Events(d)
    BY DEF RecordsOwn
  <2>1. CASE i \in DOMAIN c
    <3>1. d[i] = c[i] /\ RecordsOwn(c, S1)
      BY <1>1, <1>6, <1>7, <2>1
    <3> QED BY <1>8, <2>1, <3>1 DEF RecordsOwn
  <2>2. CASE i \notin DOMAIN c
    <3>1. i = Len(c) + 1
      BY <1>6, <1>7, <2>2
    <3>2. d[i] = x
      BY <1>6, <3>1
    <3> QED BY <1>2, <1>8, <3>2
  <2> QED BY <2>1, <2>2
<1>11. \A z \in S : z \in Seq(T) /\ R!Events(z) \subseteq 1 .. MaxEvents /\ RecordsOwn(z, S)
  BY <1>3, <1>4, <1>6, <1>9, <1>10
<1>12. d \in S
  OBVIOUS
<1> HIDE DEF S, T
<1> QED BY <1>11, <1>12 DEF Ours, d

\* The ledger before its first record is a history of this home.
LEMMA OursEmpty ==
  Ours(<<>>) /\ Word(<<>>) /\ R!Events(<<>>) = {}
<1>1. R!Events(<<>>) = {}
  BY DEF R!Events
<1>2. <<>> \in Seq({})
  BY EmptySeq
<1>3. RecordsOwn(<<>>, {<<>>})
  BY DEF RecordsOwn
<1> DEFINE S == {<<>>}
<1>4. <<>> \in S /\ \A x \in S : /\ x \in Seq({})
                                /\ R!Events(x) \subseteq 1 .. MaxEvents
                                /\ RecordsOwn(x, S)
  BY <1>1, <1>2, <1>3
<1> HIDE DEF S
<1>5. Ours(<<>>)
  BY <1>4 DEF Ours
<1> QED BY <1>1, <1>2, <1>5 DEF Word

-----------------------------------------------------------------------------
(* The ledger's files.                                                     *)

\* What a power loss may leave: the data root as it is, or an earlier state
\* of it since the last sync.
States == pending \cup {fs}

FileFields == {"db", "wal", "base", "q"}

\* Every state of the files is a ledger of this home with a WAL of its own.
FileOK(f) ==
  /\ DOMAIN f = FileFields /\ DOMAIN f.q = Restore
  /\ \A r \in Restore : f.q[r].phase \in R!Phase
  /\ Word(f.wal) /\ ~R!StaleSidecar(f)
  /\ Ours(f.db) /\ Ours(f.db \o f.wal)

\* What a daemon reads from the files f.
Live(f) == f.db \o f.wal

\* Every event is read or preserved.
Lossless(f) ==
  \A n \in 1 .. committed :
    \/ n \in R!Events(Live(f))
    \/ \E r \in Restore : n \in R!Preserved(f.q[r])

FilesKept == \A f \in States : FileOK(f) /\ Lossless(f)

\* A backup that is about to be recorded holds nothing the ledger does not.
DueIsOurs ==
  due # None => /\ running /\ Ours(due.digest)
                /\ R!Events(due.digest) \subseteq R!Events(Live(fs))

-----------------------------------------------------------------------------
(* The runs of the restore.                                                *)

RunFields == {"pc", "backup", "digest", "stale", "staged", "result"}

RunOK(r) ==
  /\ DOMAIN run[r] = RunFields
  /\ run[r].pc \in R!RestorePC
  /\ run[r].backup \in Backup \cup {None}
  /\ run[r].stale \in BOOLEAN

\* One restore at a time, and none beside a daemon.
Alone ==
  \A r \in Restore : R!Active(r) => ~running /\ \A s \in Restore : R!Active(s) => s = r

BeforeQuarantine == {"idle", "stage", "prove", "already", "stale", "quarantine"}
BeforePublish == {"preserve", "sync_quarantine", "semantic", "sidecars", "publish"}

\* A run has no complete quarantine before it makes it, in any state a power
\* loss may bring back.
NothingToLose(r) ==
  /\ run[r].pc \in BeforeQuarantine => \A f \in States : f.q[r].phase # "written"
  /\ run[r].pc = "preserve" => fs.q[r].phase # "written"

\* Once written, the quarantine holds every event of the live ledger, and as
\* long as it may still be removed it holds no other.
QuarantineHolds(r) ==
  /\ run[r].pc \in BeforePublish \ {"preserve"}
       => R!Events(Live(fs)) \subseteq R!Preserved(fs.q[r])
  /\ run[r].pc = "sync_quarantine"
       => R!Preserved(fs.q[r]) \subseteq R!Events(Live(fs))

\* The staged copy is the backup that was asked for; once its provenance is
\* shown it is a history of this home that the ledger has not lost, and once
\* the comparison has passed it is all of it.
StagedIsProven(r) ==
  /\ run[r].pc \in {"prove", "stale", "quarantine"} \cup BeforePublish
       => run[r].staged = run[r].digest
  /\ run[r].pc \in {"stale", "quarantine"} \cup BeforePublish => Ours(run[r].staged)
  /\ run[r].pc = "stale" => R!Events(run[r].staged) \subseteq R!Events(Live(fs))
  /\ run[r].pc \in {"quarantine"} \cup BeforePublish /\ ~run[r].stale
       => R!Events(Live(fs)) \subseteq R!Events(run[r].staged)

\* The old WAL is gone before the backup takes the place of the ledger, and
\* from then on the ledger is the backup.
PublishedIsBackup(r) ==
  /\ run[r].pc = "publish" => fs.wal = <<>>
  /\ run[r].pc \in {"sync", "verify"} => fs.db = run[r].digest /\ fs.wal = <<>>

Progress(r) ==
  NothingToLose(r) /\ QuarantineHolds(r) /\ StagedIsProven(r) /\ PublishedIsBackup(r)

\* The inductive invariant of backups and restores.
RestoreInv ==
  /\ running \in BOOLEAN /\ committed \in 0 .. MaxEvents /\ DOMAIN run = Restore
  /\ FilesKept /\ DueIsOurs /\ Alone
  /\ \A r \in Restore : RunOK(r) /\ Progress(r)

\* A daemon reads the WAL over the file it extends.
LEMMA LiveIsEffective ==
  ASSUME NEW f, FileOK(f)
  PROVE  R!Effective(f) = Live(f)
BY DEF FileOK, R!Effective, Live

\* A sync leaves the present state alone; a change that was not synced adds it
\* to those a power loss may bring back.
LEMMA FilesStayKept ==
  ASSUME FilesKept, FileOK(fs'), Lossless(fs)',
         pending' = {} \/ (pending' \subseteq States /\ committed' = committed)
  PROVE  FilesKept'
BY DEF FilesKept, States, Lossless

\* A step of one restore: what it has to show for the run that takes it, the
\* others being at their start or end.
LEMMA RestoreStep ==
  ASSUME RestoreInv, NEW r \in Restore, NEW v,
         run' = [run EXCEPT ![r] = v],
         UNCHANGED <<due, running, committed>>,
         \A s \in Restore \ {r} : ~R!Active(s) /\ fs'.q[s] = fs.q[s],
         pending' = {} \/ pending' \subseteq States,
         FileOK(fs'), Lossless(fs)',
         RunOK(r)', Progress(r)',
         running => fs' = fs /\ v.pc = "done"
  PROVE  RestoreInv'
<1>1. run'[r] = v /\ DOMAIN run' = Restore /\ \A s \in Restore \ {r} : run'[s] = run[s]
  BY DEF RestoreInv
<1>2. FilesKept'
  BY FilesStayKept DEF RestoreInv
<1>3. DueIsOurs'
  BY DEF RestoreInv, DueIsOurs
<1>4. Alone'
  BY <1>1 DEF RestoreInv, Alone, R!Active
<1>5. ASSUME NEW s \in Restore \ {r} PROVE RunOK(s)' /\ Progress(s)'
  <2>1. RunOK(s) /\ NothingToLose(s) /\ ~R!Active(s) /\ run'[s] = run[s]
    BY <1>1 DEF RestoreInv, Progress
  <2>2. run'[s].pc \in {"idle", "done"}
    BY <2>1 DEF R!Active
  <2>3. NothingToLose(s)'
    BY <2>1, <2>2 DEF NothingToLose, States
  <2> QED BY <2>1, <2>2, <2>3 DEF RunOK, Progress, QuarantineHolds, StagedIsProven,
                                  PublishedIsBackup, BeforePublish
<1>6. \A s \in Restore : RunOK(s)' /\ Progress(s)'
  BY <1>5
<1> QED BY <1>1, <1>2, <1>3, <1>4, <1>6 DEF RestoreInv

\* A step of the daemon, which no restore runs beside.
LEMMA LedgerStep ==
  ASSUME RestoreInv, run' = run, running' \in BOOLEAN, committed' \in 0 .. MaxEvents,
         \A s \in Restore : ~R!Active(s),
         fs'.q = fs.q, FileOK(fs'), Lossless(fs)',
         pending' = {} \/ (pending' \subseteq States /\ committed' = committed),
         DueIsOurs'
  PROVE  RestoreInv'
<1>1. FilesKept'
  BY FilesStayKept DEF RestoreInv
<1>2. Alone'
  BY DEF Alone, R!Active
<1>3. ASSUME NEW s \in Restore PROVE RunOK(s)' /\ Progress(s)'
  <2>1. RunOK(s) /\ NothingToLose(s) /\ run'[s] = run[s]
    BY DEF RestoreInv, Progress
  <2>2. run'[s].pc \in {"idle", "done"}
    BY <2>1 DEF R!Active
  <2>3. NothingToLose(s)'
    BY <2>1, <2>2 DEF NothingToLose, States
  <2> QED BY <2>1, <2>2, <2>3 DEF RunOK, Progress, QuarantineHolds, StagedIsProven,
                                  PublishedIsBackup, BeforePublish
<1>4. \A s \in Restore : RunOK(s)' /\ Progress(s)'
  BY <1>3
<1>5. DOMAIN run' = Restore
  BY DEF RestoreInv
<1> QED BY <1>1, <1>2, <1>4, <1>5 DEF RestoreInv

-----------------------------------------------------------------------------
(* Steps of the daemon and its backups.                                    *)

\* A transaction that commits adds its record to what a daemon reads.
LEMMA WriteKeeps ==
  ASSUME FileOK(fs), NEW x, R!Write(x),
         R!IsEvent(x) => x.id \in 1 .. MaxEvents,
         ~R!IsEvent(x) =>
           Ours(x.digest) /\ R!Events(x.digest) \subseteq R!Events(Live(fs))
  PROVE  /\ FileOK(fs') /\ fs'.q = fs.q /\ pending' = {}
         /\ R!Events(Live(fs)) \subseteq R!Events(Live(fs'))
         /\ R!IsEvent(x) => x.id \in R!Events(Live(fs'))
<1>1. Word(fs.db) /\ Word(fs.wal) /\ Word(Live(fs)) /\ Ours(Live(fs))
  BY DEF FileOK, Ours, Word, Live
<1>2. /\ fs'.db = fs.db /\ fs'.wal = Append(fs.wal, x) /\ fs'.base = fs.db
      /\ fs'.q = fs.q /\ DOMAIN fs' = FileFields
  BY DEF FileOK, FileFields, R!Write
<1>3. Live(fs') = Append(Live(fs), x)
  <2>1. fs.db \o Append(fs.wal, x) = Append(fs.db \o fs.wal, x)
    <3> DEFINE d == fs.db
               w == fs.wal
    <3>1. Word(d) /\ Word(w)
      BY <1>1
    <3> HIDE DEF d, w
    <3>2. d \o Append(w, x) = Append(d \o w, x)
      BY <3>1, JoinFacts
    <3> QED BY <3>2 DEF d, w
  <2>2. Live(fs') = fs'.db \o fs'.wal /\ Live(fs) = fs.db \o fs.wal
    BY DEF Live
  <2> QED BY <1>2, <2>1, <2>2
<1>4. Ours(Live(fs'))
  BY <1>1, <1>3, OursAppend
<1>5. /\ R!Events(Live(fs)) \subseteq R!Events(Live(fs'))
      /\ R!IsEvent(x) => x.id \in R!Events(Live(fs'))
  BY <1>1, <1>3, EventsAppend
<1>6. Word(fs'.wal) /\ ~R!StaleSidecar(fs')
  BY <1>1, <1>2, JoinFacts DEF R!StaleSidecar
<1>7. FileOK(fs')
  BY <1>2, <1>4, <1>6 DEF FileOK, Live
<1> QED BY <1>2, <1>5, <1>7 DEF R!Write, R!Sync

\* Folding the WAL into the file changes nothing a daemon reads.
LEMMA FoldKeeps ==
  ASSUME FileOK(fs)
  PROVE  /\ FileOK(R!Folded(fs)) /\ R!Folded(fs).q = fs.q
         /\ Live(R!Folded(fs)) = Live(fs) /\ R!Folded(fs).wal = <<>>
<1> DEFINE g == R!Folded(fs)
<1>1. R!Effective(fs) = Live(fs)
  BY LiveIsEffective
<1>2. /\ g.db = Live(fs) /\ g.wal = <<>> /\ g.q = fs.q /\ DOMAIN g = FileFields
  BY <1>1 DEF FileOK, FileFields, R!Folded
<1>3. Ours(Live(fs)) /\ Word(Live(fs))
  BY DEF FileOK, Ours, Word, Live
<1>4. Live(g) = Live(fs) /\ Word(g.wal)
  BY <1>2, <1>3, JoinFacts DEF Live
<1> HIDE DEF g
<1>5. FileOK(g)
  BY <1>2, <1>3, <1>4 DEF FileOK, Live, R!StaleSidecar
<1> QED BY <1>2, <1>4, <1>5 DEF g

\* What a file's change does not take from the live ledger stays.
LEMMA LosslessStays ==
  ASSUME RestoreInv, fs'.q = fs.q, R!Events(Live(fs)) \subseteq R!Events(Live(fs')),
         \A n \in 1 .. committed' : n \in 1 .. committed \/ n \in R!Events(Live(fs'))
  PROVE  Lossless(fs)'
BY DEF RestoreInv, FilesKept, States, Lossless

\* A commit is one event more.
LEMMA CommitKeeps ==
  ASSUME RestoreBounds, RestoreInv, R!Commit
  PROVE  RestoreInv'
<1> DEFINE x == R!Event(committed + 1)
<1>1. /\ FileOK(fs) /\ running /\ committed \in 0 .. MaxEvents /\ committed < MaxEvents
      /\ committed' = committed + 1 /\ R!Write(x) /\ UNCHANGED <<due, running, run>>
  BY DEF RestoreInv, FilesKept, States, R!Commit
<1>2. committed + 1 \in 1 .. MaxEvents
  BY <1>1 DEF RestoreBounds
<1>3. R!IsEvent(x) /\ x.id = committed + 1
  BY DEF R!IsEvent, R!Event
<1>4. /\ FileOK(fs') /\ fs'.q = fs.q /\ pending' = {}
      /\ R!Events(Live(fs)) \subseteq R!Events(Live(fs'))
      /\ committed + 1 \in R!Events(Live(fs'))
  BY <1>1, <1>2, <1>3, WriteKeeps
<1>5. Lossless(fs)'
  <2>1. \A n \in 1 .. committed' : n \in 1 .. committed \/ n = committed + 1
    BY <1>1
  <2> QED BY <1>4, <2>1, LosslessStays
<1>6. DueIsOurs'
  BY <1>1, <1>4 DEF RestoreInv, DueIsOurs
<1>7. \A s \in Restore : ~R!Active(s)
  BY <1>1 DEF RestoreInv, Alone
<1>8. committed' \in 0 .. MaxEvents
  BY <1>1, <1>2
<1> QED BY <1>1, <1>4, <1>5, <1>6, <1>7, <1>8, LedgerStep DEF RestoreInv

\* Start, checkpoint and stop change neither what is read nor what is preserved.
LEMMA ServeKeeps ==
  ASSUME RestoreBounds, "daemon" \notin RestoreRaces, RestoreInv,
         R!StartDaemon \/ R!Checkpoint \/ R!StopDaemon \/ R!CrashDaemon
  PROVE  RestoreInv'
<1>1. /\ FileOK(fs) /\ Lossless(fs) /\ DueIsOurs /\ committed \in 0 .. MaxEvents
      /\ running \in BOOLEAN
  BY DEF RestoreInv, FilesKept, States
<1>2. \A s \in Restore : ~R!Active(s)
  BY DEF RestoreInv, Alone, R!StartDaemon, R!Checkpoint, R!StopDaemon, R!CrashDaemon
<1>3. UNCHANGED <<committed, run>> /\ running' \in BOOLEAN
  BY <1>1 DEF R!StartDaemon, R!Checkpoint, R!StopDaemon, R!CrashDaemon
<1>4. \/ fs' = fs /\ pending' = pending
      \/ fs' = R!Folded(fs) /\ pending' = {}
  BY DEF R!StartDaemon, R!Checkpoint, R!StopDaemon, R!CrashDaemon, R!Sync
<1>5. FileOK(fs') /\ fs'.q = fs.q /\ Live(fs') = Live(fs)
  BY <1>1, <1>4, FoldKeeps
<1>6. Lossless(fs)'
  BY <1>3, <1>5, LosslessStays
<1>7. DueIsOurs'
  <2>1. due' = None \/ (due' = due /\ (due # None => running'))
    BY <1>1 DEF DueIsOurs, R!StartDaemon, R!Checkpoint, R!StopDaemon, R!CrashDaemon
  <2> QED BY <1>1, <1>5, <2>1 DEF DueIsOurs
<1> QED BY <1>1, <1>2, <1>3, <1>4, <1>5, <1>6, <1>7, LedgerStep DEF States

\* A backup file is what the ledger holds, which is what is recorded of it.
LEMMA BackupFileKeeps ==
  ASSUME RestoreBounds, RestoreInv, NEW b \in Backup, R!BackupFile(b)
  PROVE  RestoreInv'
<1>1. /\ FileOK(fs) /\ running /\ due'.digest = R!Effective(fs)
      /\ UNCHANGED <<fs, pending, running, committed, run>>
  BY DEF RestoreInv, FilesKept, States, R!BackupFile
<1>2. due'.digest = Live(fs) /\ Ours(Live(fs))
  BY <1>1, LiveIsEffective DEF FileOK, Live
<1>3. DueIsOurs'
  BY <1>1, <1>2 DEF DueIsOurs
<1>4. \A s \in Restore : ~R!Active(s)
  BY <1>1 DEF RestoreInv, Alone
<1>5. Lossless(fs)' /\ FileOK(fs') /\ pending' \subseteq States
  BY <1>1 DEF RestoreInv, FilesKept, States, Lossless
<1> QED BY <1>1, <1>3, <1>4, <1>5, LedgerStep DEF RestoreInv

\* The record of a backup holds nothing the ledger does not.
LEMMA BackupRecordKeeps ==
  ASSUME RestoreBounds, RestoreInv, R!BackupRecord
  PROVE  RestoreInv'
<1>1. /\ FileOK(fs) /\ running /\ due # None /\ due' = None
      /\ UNCHANGED <<running, committed, run>>
      /\ Ours(due.digest) /\ R!Events(due.digest) \subseteq R!Events(Live(fs))
  BY DEF RestoreInv, FilesKept, States, DueIsOurs, R!BackupRecord
<1>2. DueIsOurs'
  BY <1>1 DEF DueIsOurs
<1>3. \A s \in Restore : ~R!Active(s)
  BY <1>1 DEF RestoreInv, Alone
<1>4. CASE R!Write(R!Row(due.path, due.digest))
  <2> DEFINE x == R!Row(due.path, due.digest)
  <2>1. ~R!IsEvent(x) /\ x.digest = due.digest
    BY DEF R!IsEvent, R!Row
  <2>2. /\ FileOK(fs') /\ fs'.q = fs.q /\ pending' = {}
        /\ R!Events(Live(fs)) \subseteq R!Events(Live(fs'))
    BY <1>1, <1>4, <2>1, WriteKeeps
  <2>3. Lossless(fs)'
    BY <1>1, <2>2, LosslessStays
  <2> QED BY <1>1, <1>2, <1>3, <2>2, <2>3, LedgerStep DEF RestoreInv
<1>5. CASE UNCHANGED <<fs, pending>>
  <2>1. Lossless(fs)' /\ FileOK(fs') /\ pending' \subseteq States
    BY <1>1, <1>5 DEF RestoreInv, FilesKept, States, Lossless
  <2> QED BY <1>1, <1>2, <1>3, <1>5, <2>1, LedgerStep DEF RestoreInv
<1> QED BY <1>4, <1>5 DEF R!BackupRecord

-----------------------------------------------------------------------------
(* Steps of a restore that leave the files alone.                          *)

\* What holds for the restore that is under way.
LEMMA UnderWay ==
  ASSUME RestoreInv, NEW r \in Restore, R!Active(r)
  PROVE  /\ ~running /\ FileOK(fs) /\ Lossless(fs) /\ RunOK(r) /\ Progress(r)
         /\ \A s \in Restore \ {r} : ~R!Active(s)
BY DEF RestoreInv, FilesKept, States, Alone

\* A step of a restore that changes no file.
LEMMA QuietStep ==
  ASSUME RestoreInv, NEW r \in Restore, NEW v,
         run' = [run EXCEPT ![r] = v],
         UNCHANGED <<fs, due, running, committed>>,
         pending' = {} \/ pending' = pending,
         \A s \in Restore \ {r} : ~R!Active(s),
         RunOK(r)', Progress(r)',
         running => v.pc = "done"
  PROVE  RestoreInv'
<1>1. FileOK(fs') /\ Lossless(fs)'
  BY DEF RestoreInv, FilesKept, States, Lossless
<1>2. pending' = {} \/ pending' \subseteq States
  BY DEF States
<1> QED BY <1>1, <1>2, RestoreStep

\* A run that has ended has nothing to show.
LEMMA EndedIsFine ==
  ASSUME RestoreInv, NEW r \in Restore, NEW result, R!End(r, result)
  PROVE  RunOK(r)' /\ Progress(r)'
<1>1. run'[r] = R!Ended(result)
  BY DEF RestoreInv, R!End
<1>2. /\ DOMAIN run'[r] = RunFields /\ run'[r].pc = "done" /\ run'[r].backup = None
      /\ run'[r].stale = FALSE
  BY <1>1 DEF R!Ended, R!NotRun, RunFields
<1> QED BY <1>2 DEF RunOK, Progress, NothingToLose, QuarantineHolds, StagedIsProven,
                    PublishedIsBackup, BeforeQuarantine, BeforePublish, R!RestorePC

\* A run that ends without touching a file.
LEMMA QuietEnd ==
  ASSUME RestoreInv, NEW r \in Restore, NEW result, R!End(r, result),
         UNCHANGED <<fs, due, running, committed>>,
         pending' = {} \/ pending' = pending,
         \A s \in Restore \ {r} : ~R!Active(s)
  PROVE  RestoreInv'
<1>1. R!Ended(result).pc = "done"
  BY DEF R!Ended, R!NotRun
<1>2. RunOK(r)' /\ Progress(r)'
  BY EndedIsFine
<1> QED BY <1>1, <1>2, QuietStep DEF R!End

\* A restore begins when none is under way, and at once gives up beside a daemon.
LEMMA CheckRestoreKeeps ==
  ASSUME RestoreInv, NEW r \in Restore, R!CheckRestore(r)
  PROVE  RestoreInv'
<1>1. /\ run[r].pc = "idle" /\ RunOK(r) /\ Progress(r) /\ DOMAIN run = Restore
      /\ \A s \in Restore \ {r} : ~R!Active(s)
      /\ UNCHANGED <<fs, pending, due, running, committed>>
  BY DEF RestoreInv, R!CheckRestore
<1>2. PICK b \in Backup, stale \in BOOLEAN :
        IF running THEN R!End(r, "failed")
        ELSE R!Step(r, "stage", [run[r] EXCEPT !.backup = b, !.stale = stale,
                                               !.digest = backups[b]])
  BY DEF R!CheckRestore
<1>3. CASE running
  BY <1>1, <1>2, <1>3, QuietEnd
<1>4. CASE ~running
  <2> DEFINE v == [[run[r] EXCEPT !.backup = b, !.stale = stale, !.digest = backups[b]]
                     EXCEPT !.pc = "stage"]
  <2>1. run' = [run EXCEPT ![r] = v]
    BY <1>2, <1>4 DEF R!Step
  <2>2. /\ DOMAIN v = RunFields /\ v.pc = "stage" /\ v.backup = b /\ v.stale = stale
    BY <1>1 DEF RunOK, RunFields
  <2> HIDE DEF v
  <2>3. run'[r] = v
    BY <1>1, <2>1
  <2>4. RunOK(r)'
    BY <2>2, <2>3 DEF RunOK, R!RestorePC
  <2>5. Progress(r)'
    BY <1>1, <2>2, <2>3 DEF Progress, NothingToLose, QuarantineHolds, StagedIsProven,
         PublishedIsBackup, BeforeQuarantine, BeforePublish, States
  <2> QED BY <1>1, <1>4, <2>1, <2>4, <2>5, QuietStep
<1> QED BY <1>3, <1>4

\* The staged copy is compared with the digest the operator named.
LEMMA StageBackupKeeps ==
  ASSUME RestoreInv, NEW r \in Restore, R!StageBackup(r)
  PROVE  RestoreInv'
<1>1. /\ run[r].pc = "stage" /\ DOMAIN run = Restore
      /\ UNCHANGED <<fs, pending, due, running, committed>>
  BY DEF RestoreInv, R!StageBackup
<1>2. /\ ~running /\ RunOK(r) /\ Progress(r)
      /\ \A s \in Restore \ {r} : ~R!Active(s)
  BY <1>1, UnderWay DEF R!Active
<1>3. CASE backups[run[r].backup] = run[r].digest
  <2> DEFINE v == [[run[r] EXCEPT !.staged = backups[run[r].backup]] EXCEPT !.pc = "prove"]
  <2>1. run' = [run EXCEPT ![r] = v]
    BY <1>3 DEF R!Step, R!StageBackup
  <2>2. /\ DOMAIN v = RunFields /\ v.pc = "prove" /\ v.backup = run[r].backup
        /\ v.stale = run[r].stale /\ v.digest = run[r].digest /\ v.staged = run[r].digest
    BY <1>2, <1>3 DEF RunOK, RunFields
  <2> HIDE DEF v
  <2>3. run'[r] = v
    BY <1>1, <2>1
  <2>4. RunOK(r)'
    BY <1>2, <2>2, <2>3 DEF RunOK, R!RestorePC
  <2>5. Progress(r)'
    BY <1>1, <1>2, <2>2, <2>3 DEF Progress, NothingToLose, QuarantineHolds, StagedIsProven,
         PublishedIsBackup, BeforeQuarantine, BeforePublish, States
  <2> QED BY <1>1, <1>2, <2>1, <2>4, <2>5, QuietStep
<1>4. CASE backups[run[r].backup] # run[r].digest
  <2>1. R!End(r, "failed")
    BY <1>4 DEF R!StageBackup
  <2> QED BY <1>1, <1>2, <2>1, QuietEnd
<1> QED BY <1>3, <1>4

\* Evidence for a backup that is not the ledger already is the ledger's own record of it.
LEMMA ProvenIsOurs ==
  ASSUME RestoreBounds, FileOK(fs), NEW b, NEW d, TRUE \in R!Provenance(b, d), fs.db # d
  PROVE  Ours(d) /\ R!Events(d) \subseteq R!Events(Live(fs))
<1>1. R!CatalogProves(b, d)
  BY DEF R!Provenance
<1>2. R!SnapshotCopy = Live(fs) /\ Ours(Live(fs))
  BY LiveIsEffective DEF R!SnapshotCopy, FileOK, Live
<1>3. PICK i \in DOMAIN Live(fs) : ~R!IsEvent(Live(fs)[i]) /\ Live(fs)[i].digest = d
  BY <1>1, <1>2 DEF R!CatalogProves, R!CatalogRow
<1> QED BY <1>2, <1>3, OursFacts

\* Only what the ledger records as its backup goes on.
LEMMA ProveProvenanceKeeps ==
  ASSUME RestoreBounds, RestoreInv, NEW r \in Restore, R!ProveProvenance(r)
  PROVE  RestoreInv'
<1>1. /\ run[r].pc = "prove" /\ DOMAIN run = Restore
      /\ UNCHANGED <<fs, pending, due, running, committed>>
  BY DEF RestoreInv, R!ProveProvenance
<1>2. /\ ~running /\ RunOK(r) /\ Progress(r) /\ FileOK(fs)
      /\ \A s \in Restore \ {r} : ~R!Active(s)
  BY <1>1, UnderWay DEF R!Active
<1> DEFINE place == IF fs.db = run[r].digest THEN "already" ELSE "stale"
<1>5. \/ /\ TRUE \in R!Provenance(run[r].backup, run[r].digest)
          /\ R!Step(r, place, run[r])
       \/ R!End(r, "failed")
  BY DEF R!ProveProvenance
<1>3. CASE TRUE \in R!Provenance(run[r].backup, run[r].digest) /\ R!Step(r, place, run[r])
  <2> DEFINE v == [run[r] EXCEPT !.pc = place]
  <2>1. run' = [run EXCEPT ![r] = v]
    BY <1>3 DEF R!Step
  <2>2. /\ DOMAIN v = RunFields /\ v.pc = place /\ v.backup = run[r].backup
        /\ v.stale = run[r].stale /\ v.digest = run[r].digest /\ v.staged = run[r].staged
    BY <1>2 DEF RunOK, RunFields
  <2> HIDE DEF v
  <2>3. run'[r] = v
    BY <1>1, <2>1
  <2>4. RunOK(r)'
    BY <1>2, <2>2, <2>3 DEF RunOK, R!RestorePC
  <2>5. run[r].staged = run[r].digest
    BY <1>1, <1>2 DEF Progress, StagedIsProven
  <2>6. place = "stale" => /\ Ours(run[r].staged)
                           /\ R!Events(run[r].staged) \subseteq R!Events(Live(fs))
    BY <1>2, <1>3, <2>5, ProvenIsOurs
  <2>7. StagedIsProven(r)'
    BY <1>1, <2>2, <2>3, <2>5, <2>6 DEF StagedIsProven, BeforePublish
  <2>8. Progress(r)'
    BY <1>1, <1>2, <2>2, <2>3, <2>7 DEF Progress, NothingToLose, QuarantineHolds,
         PublishedIsBackup, BeforeQuarantine, BeforePublish, States
  <2> QED BY <1>1, <1>2, <2>1, <2>4, <2>8, QuietStep
<1>4. CASE R!End(r, "failed")
  BY <1>1, <1>2, <1>4, QuietEnd
<1> QED BY <1>5, <1>3, <1>4

\* The steps that only end a run.
LEMMA EndsKeep ==
  ASSUME RestoreInv, NEW r \in Restore,
         R!AlreadyRestored(r) \/ R!PostVerify(r) \/ R!CrashRestore(r)
  PROVE  RestoreInv'
<1>1. R!Active(r) /\ UNCHANGED <<fs, due, running, committed>>
  BY DEF R!Active, R!AlreadyRestored, R!PostVerify, R!CrashRestore
<1>2. PICK result : R!End(r, result)
  BY DEF R!AlreadyRestored, R!PostVerify, R!CrashRestore
<1>3. pending' = {} \/ pending' = pending
  BY DEF R!AlreadyRestored, R!PostVerify, R!CrashRestore, R!Sync
<1> QED BY <1>1, <1>2, <1>3, UnderWay, QuietEnd

-----------------------------------------------------------------------------
(* Steps of a restore that change the files.                               *)

\* The modules count alike.
LEMMA SameCount ==
  ASSUME NEW T
  PROVE  R!Cardinality(T) = Cardinality(T)
BY DEF R!Cardinality, Cardinality

\* A part of a finite set that is not smaller than the set is the set, which is
\* why comparing sequence numbers is enough for a backup of the same home.
LEMMA CoversAll ==
  ASSUME NEW S, IsFiniteSet(S), NEW T \in SUBSET S, Cardinality(T) >= Cardinality(S)
  PROVE  S = T
<1>1. /\ IsFiniteSet(T) /\ Cardinality(T) <= Cardinality(S)
      /\ Cardinality(S) = Cardinality(T) => S = T
  BY FS_Subset
<1>2. Cardinality(T) \in Nat /\ Cardinality(S) \in Nat
  BY <1>1, FS_CardinalityType
<1> QED BY <1>1, <1>2

\* What a run records of itself when it goes on to another place.
LEMMA StepMoves ==
  ASSUME RestoreInv, NEW r \in Restore, NEW p \in R!RestorePC, R!Step(r, p, run[r])
  PROVE  /\ run' = [run EXCEPT ![r] = [run[r] EXCEPT !.pc = p]]
         /\ run'[r].pc = p /\ run'[r].stale = run[r].stale
         /\ run'[r].digest = run[r].digest /\ run'[r].staged = run[r].staged
         /\ RunOK(r)'
<1>1. /\ run' = [run EXCEPT ![r] = [run[r] EXCEPT !.pc = p]]
      /\ DOMAIN run = Restore /\ RunOK(r)
  BY DEF RestoreInv, R!Step
<1>2. run'[r] = [run[r] EXCEPT !.pc = p]
  BY <1>1
<1> QED BY <1>1, <1>2 DEF RunOK, RunFields

\* A backup that the ledger recorded and that counts as many events is all of it.
LEMMA StalenessCheckKeeps ==
  ASSUME RestoreBounds, RestoreInv, NEW r \in Restore, R!StalenessCheck(r)
  PROVE  RestoreInv'
<1>1. run[r].pc = "stale" /\ UNCHANGED <<due, running, committed>> /\ R!Active(r)
  BY DEF R!StalenessCheck, R!Active
<1>2. /\ ~running /\ RunOK(r) /\ Progress(r) /\ FileOK(fs) /\ Lossless(fs)
      /\ \A s \in Restore \ {r} : ~R!Active(s)
  BY <1>1, UnderWay
<1>3. /\ run[r].staged = run[r].digest /\ Ours(run[r].staged)
      /\ R!Events(run[r].staged) \subseteq R!Events(Live(fs))
      /\ \A f \in States : f.q[r].phase # "written"
  BY <1>1, <1>2 DEF Progress, StagedIsProven, NothingToLose, BeforeQuarantine
<1>4. CASE run[r].stale
  <2>1. R!Step(r, "quarantine", run[r]) /\ UNCHANGED <<fs, pending>>
    BY <1>4 DEF R!StalenessCheck
  <2>2. /\ run' = [run EXCEPT ![r] = [run[r] EXCEPT !.pc = "quarantine"]]
        /\ run'[r].pc = "quarantine" /\ run'[r].stale
        /\ run'[r].digest = run[r].digest /\ run'[r].staged = run[r].staged
        /\ RunOK(r)'
    BY <1>4, <2>1, StepMoves DEF R!RestorePC
  <2>3. Progress(r)'
    BY <1>3, <2>1, <2>2 DEF Progress, NothingToLose, QuarantineHolds, StagedIsProven,
         PublishedIsBackup, BeforePublish, States
  <2> QED BY <1>1, <1>2, <2>1, <2>2, <2>3, QuietStep
<1>5. CASE ~run[r].stale
  <2>1. fs' = R!Folded(fs) /\ pending' = {}
    BY <1>2, <1>5 DEF R!StalenessCheck, R!Sync
  <2>2. FileOK(fs') /\ fs'.q = fs.q /\ Live(fs') = Live(fs)
    BY <1>2, <2>1, FoldKeeps
  <2>3. Lossless(fs)'
    BY <1>1, <2>2, LosslessStays
  <2>4. CASE R!Covers(run[r].staged, R!Effective(fs))
    <3>1. R!Step(r, "quarantine", run[r])
      BY <1>5, <2>4 DEF R!StalenessCheck
    <3>2. /\ run' = [run EXCEPT ![r] = [run[r] EXCEPT !.pc = "quarantine"]]
          /\ run'[r].pc = "quarantine"
          /\ run'[r].digest = run[r].digest /\ run'[r].staged = run[r].staged
          /\ RunOK(r)'
      BY <3>1, StepMoves DEF R!RestorePC
    <3>3. Cardinality(R!Events(run[r].staged)) >= Cardinality(R!Events(Live(fs)))
      BY <1>2, <2>4, LiveIsEffective, SameCount DEF R!Covers
    <3>4. IsFiniteSet(R!Events(Live(fs)))
      BY <1>2, OursFacts DEF FileOK, Live
    <3>5. R!Events(Live(fs)) = R!Events(run[r].staged)
      BY <1>3, <3>3, <3>4, CoversAll
    <3>6. Progress(r)'
      BY <1>3, <2>1, <2>2, <3>2, <3>5 DEF Progress, NothingToLose, QuarantineHolds,
           StagedIsProven, PublishedIsBackup, BeforePublish, States
    <3>7. \A s \in Restore \ {r} : ~R!Active(s) /\ fs'.q[s] = fs.q[s]
      BY <1>2, <2>2
    <3> QED BY <1>1, <1>2, <2>1, <2>2, <2>3, <3>2, <3>6, <3>7, RestoreStep
  <2>5. CASE ~R!Covers(run[r].staged, R!Effective(fs))
    <3>1. R!End(r, "failed")
      BY <1>5, <2>5 DEF R!StalenessCheck
    <3>2. RunOK(r)' /\ Progress(r)'
      BY <3>1, EndedIsFine
    <3>3. \A s \in Restore \ {r} : ~R!Active(s) /\ fs'.q[s] = fs.q[s]
      BY <1>2, <2>2
    <3> QED BY <1>1, <1>2, <2>1, <2>2, <2>3, <3>1, <3>2, <3>3, RestoreStep DEF R!End
  <2> QED BY <2>4, <2>5
<1> QED BY <1>4, <1>5

\* A change to one quarantine.
LEMMA QuarantineChanges ==
  ASSUME FileOK(fs), NEW r \in Restore, NEW v, v.phase \in R!Phase,
         fs' = [fs EXCEPT !.q[r] = v]
  PROVE  /\ FileOK(fs') /\ Live(fs') = Live(fs) /\ fs'.wal = fs.wal /\ fs'.db = fs.db
         /\ fs'.q[r] = v /\ \A s \in Restore \ {r} : fs'.q[s] = fs.q[s]
<1>1. /\ fs'.db = fs.db /\ fs'.wal = fs.wal /\ fs'.base = fs.base
      /\ fs'.q = [fs.q EXCEPT ![r] = v] /\ DOMAIN fs' = FileFields
  BY DEF FileOK, FileFields
<1>2. /\ DOMAIN fs'.q = Restore /\ fs'.q[r] = v
      /\ \A s \in Restore \ {r} : fs'.q[s] = fs.q[s]
  BY <1>1 DEF FileOK
<1>3. \A s \in Restore : fs'.q[s].phase \in R!Phase
  BY <1>2 DEF FileOK
<1>4. FileOK(fs')
  BY <1>1, <1>2, <1>3 DEF FileOK, R!StaleSidecar
<1> QED BY <1>1, <1>2, <1>4 DEF Live

\* A quarantine may change while it preserves nothing that is not in the ledger.
LEMMA LosslessQuarantine ==
  ASSUME Lossless(fs), committed' = committed, NEW r \in Restore,
         R!Events(Live(fs)) \subseteq R!Events(Live(fs')),
         R!Preserved(fs.q[r]) \subseteq R!Events(Live(fs)),
         \A s \in Restore \ {r} : fs'.q[s] = fs.q[s]
  PROVE  Lossless(fs)'
BY DEF Lossless

\* A quarantine directory is made: it preserves nothing yet.
LEMMA QuarantineCreateKeeps ==
  ASSUME RestoreInv, NEW r \in Restore, R!QuarantineCreate(r)
  PROVE  RestoreInv'
<1> DEFINE v == [R!NoQuarantine EXCEPT !.phase = "partial"]
<1>1. /\ run[r].pc = "quarantine" /\ UNCHANGED <<due, running, committed>> /\ R!Active(r)
      /\ fs' = [fs EXCEPT !.q[r] = v] /\ pending' = pending \cup {fs}
      /\ R!Step(r, "preserve", run[r])
  BY DEF R!QuarantineCreate, R!Active, R!DirChange
<1>2. /\ ~running /\ RunOK(r) /\ Progress(r) /\ FileOK(fs) /\ Lossless(fs)
      /\ \A s \in Restore \ {r} : ~R!Active(s)
  BY <1>1, UnderWay
<1>3. v.phase = "partial"
  BY DEF R!NoQuarantine
<1> HIDE DEF v
<1>4. /\ FileOK(fs') /\ Live(fs') = Live(fs)
      /\ fs'.q[r] = v /\ \A s \in Restore \ {r} : fs'.q[s] = fs.q[s]
  BY <1>1, <1>2, <1>3, QuarantineChanges DEF R!Phase
<1>5. R!Preserved(fs.q[r]) = {}
  BY <1>1, <1>2 DEF Progress, NothingToLose, BeforeQuarantine, States, R!Preserved
<1>6. Lossless(fs)'
  BY <1>1, <1>2, <1>4, <1>5, LosslessQuarantine
<1>7. /\ run' = [run EXCEPT ![r] = [run[r] EXCEPT !.pc = "preserve"]]
      /\ run'[r].pc = "preserve" /\ run'[r].stale = run[r].stale
      /\ run'[r].digest = run[r].digest /\ run'[r].staged = run[r].staged
      /\ RunOK(r)'
  BY <1>1, StepMoves DEF R!RestorePC
<1>8. StagedIsProven(r)'
  BY <1>1, <1>2, <1>4, <1>7 DEF Progress, StagedIsProven, BeforePublish
<1>9. Progress(r)'
  BY <1>3, <1>4, <1>7, <1>8 DEF Progress, NothingToLose, QuarantineHolds,
       PublishedIsBackup, BeforeQuarantine, BeforePublish
<1>10. \A s \in Restore \ {r} : ~R!Active(s) /\ fs'.q[s] = fs.q[s]
  BY <1>2, <1>4
<1>11. pending' \subseteq States
  BY <1>1 DEF States
<1> QED BY <1>1, <1>2, <1>4, <1>6, <1>7, <1>9, <1>10, <1>11, RestoreStep

\* The quarantine is written: it holds what a daemon would read.
LEMMA QuarantineOriginalKeeps ==
  ASSUME RestoreInv, NEW r \in Restore, R!QuarantineOriginal(r)
  PROVE  RestoreInv'
<1> DEFINE v == R!Preserve(r)
<1>1. /\ run[r].pc = "preserve" /\ UNCHANGED <<due, running, committed>> /\ R!Active(r)
      /\ fs' = [fs EXCEPT !.q[r] = v] /\ pending' = pending \cup {fs}
      /\ R!Step(r, "sync_quarantine", run[r])
  BY DEF R!QuarantineOriginal, R!Active, R!DirChange
<1>2. /\ ~running /\ RunOK(r) /\ Progress(r) /\ FileOK(fs) /\ Lossless(fs)
      /\ \A s \in Restore \ {r} : ~R!Active(s)
  BY <1>1, UnderWay
<1>3. v.phase = "written" /\ v.db = fs.db /\ v.wal = fs.wal
  BY <1>2 DEF R!Preserve, FileOK
<1> HIDE DEF v
<1>4. /\ FileOK(fs') /\ Live(fs') = Live(fs)
      /\ fs'.q[r] = v /\ \A s \in Restore \ {r} : fs'.q[s] = fs.q[s]
  BY <1>1, <1>2, <1>3, QuarantineChanges DEF R!Phase
<1>5. R!Preserved(fs.q[r]) = {}
  BY <1>1, <1>2 DEF Progress, NothingToLose, R!Preserved
<1>6. Lossless(fs)'
  BY <1>1, <1>2, <1>4, <1>5, LosslessQuarantine
<1>7. /\ run' = [run EXCEPT ![r] = [run[r] EXCEPT !.pc = "sync_quarantine"]]
      /\ run'[r].pc = "sync_quarantine" /\ run'[r].stale = run[r].stale
      /\ run'[r].digest = run[r].digest /\ run'[r].staged = run[r].staged
      /\ RunOK(r)'
  BY <1>1, StepMoves DEF R!RestorePC
<1>8. StagedIsProven(r)'
  BY <1>1, <1>2, <1>4, <1>7 DEF Progress, StagedIsProven, BeforePublish
<1>9. R!Preserved(fs'.q[r]) = R!Events(Live(fs'))
  BY <1>3, <1>4 DEF R!Preserved, Live
<1>10. Progress(r)'
  BY <1>7, <1>8, <1>9 DEF Progress, NothingToLose, QuarantineHolds,
       PublishedIsBackup, BeforeQuarantine, BeforePublish
<1>11. \A s \in Restore \ {r} : ~R!Active(s) /\ fs'.q[s] = fs.q[s]
  BY <1>2, <1>4
<1>12. pending' \subseteq States
  BY <1>1 DEF States
<1> QED BY <1>1, <1>2, <1>4, <1>6, <1>7, <1>10, <1>11, <1>12, RestoreStep

\* The quarantine is synced, and a pre-restore backup may be taken: no file of
\* the ledger changes.
LEMMA SyncAndBackupKeep ==
  ASSUME RestoreInv, NEW r \in Restore, R!QuarantineSync(r) \/ R!SemanticBackup(r)
  PROVE  RestoreInv'
<1>1. /\ UNCHANGED <<fs, due, running, committed>> /\ R!Active(r)
      /\ pending' = {} \/ pending' = pending
      /\ run[r].pc \in {"sync_quarantine", "semantic"}
  BY DEF R!QuarantineSync, R!SemanticBackup, R!Active, R!Sync
<1>2. /\ ~running /\ RunOK(r) /\ Progress(r) /\ FileOK(fs)
      /\ \A s \in Restore \ {r} : ~R!Active(s)
  BY <1>1, UnderWay
<1>3. PICK p \in {"semantic", "sidecars"} : R!Step(r, p, run[r])
  BY DEF R!QuarantineSync, R!SemanticBackup
<1>4. /\ run' = [run EXCEPT ![r] = [run[r] EXCEPT !.pc = p]]
      /\ run'[r].pc = p /\ run'[r].stale = run[r].stale
      /\ run'[r].digest = run[r].digest /\ run'[r].staged = run[r].staged
      /\ RunOK(r)'
  BY <1>3, StepMoves DEF R!RestorePC
<1>5. StagedIsProven(r)'
  BY <1>1, <1>2, <1>4 DEF Progress, StagedIsProven, BeforePublish
<1>6. QuarantineHolds(r)'
  BY <1>1, <1>2, <1>4 DEF Progress, QuarantineHolds, BeforePublish
<1>7. Progress(r)'
  BY <1>4, <1>5, <1>6 DEF Progress, NothingToLose, PublishedIsBackup, BeforeQuarantine
<1> QED BY <1>1, <1>2, <1>4, <1>7, QuietStep

\* The old WAL goes: its events are in the quarantine.
LEMMA RemoveSidecarsKeeps ==
  ASSUME RestoreInv, NEW r \in Restore, R!RemoveLiveSidecars(r)
  PROVE  RestoreInv'
<1>1. /\ run[r].pc = "sidecars" /\ UNCHANGED <<due, running, committed>> /\ R!Active(r)
      /\ fs' = [fs EXCEPT !.wal = <<>>, !.base = <<>>] /\ pending' = pending \cup {fs}
      /\ R!Step(r, "publish", run[r])
  BY DEF R!RemoveLiveSidecars, R!Active, R!DirChange
<1>2. /\ ~running /\ RunOK(r) /\ Progress(r) /\ FileOK(fs) /\ Lossless(fs)
      /\ \A s \in Restore \ {r} : ~R!Active(s)
  BY <1>1, UnderWay
<1>3. fs'.db = fs.db /\ fs'.wal = <<>> /\ fs'.q = fs.q /\ DOMAIN fs' = FileFields
  BY <1>1, <1>2 DEF FileOK, FileFields
<1>4. Word(fs.db) /\ Word(fs.wal) /\ Ours(fs.db)
  BY <1>2 DEF FileOK, Ours, Word
<1>5. Live(fs') = fs.db /\ Word(<<>>)
  BY <1>3, <1>4, JoinFacts DEF Live
<1>6. R!Events(Live(fs')) \subseteq R!Events(Live(fs))
  BY <1>4, <1>5, EventsPrefix DEF Live
<1>7. FileOK(fs')
  BY <1>2, <1>3, <1>4, <1>5 DEF FileOK, Live, R!StaleSidecar
<1>8. R!Events(Live(fs)) \subseteq R!Preserved(fs'.q[r])
  BY <1>1, <1>2, <1>3 DEF Progress, QuarantineHolds, BeforePublish
<1>9. Lossless(fs)'
  BY <1>1, <1>2, <1>3, <1>8 DEF Lossless
<1>10. /\ run' = [run EXCEPT ![r] = [run[r] EXCEPT !.pc = "publish"]]
       /\ run'[r].pc = "publish" /\ run'[r].stale = run[r].stale
       /\ run'[r].digest = run[r].digest /\ run'[r].staged = run[r].staged
       /\ RunOK(r)'
  BY <1>1, StepMoves DEF R!RestorePC
<1>11. StagedIsProven(r)'
  BY <1>1, <1>2, <1>6, <1>10 DEF Progress, StagedIsProven, BeforePublish
<1>12. Progress(r)'
  BY <1>3, <1>6, <1>8, <1>10, <1>11 DEF Progress, NothingToLose, QuarantineHolds,
       PublishedIsBackup, BeforeQuarantine
<1>13. \A s \in Restore \ {r} : ~R!Active(s) /\ fs'.q[s] = fs.q[s]
  BY <1>2, <1>3
<1>14. pending' \subseteq States
  BY <1>1 DEF States
<1> QED BY <1>1, <1>2, <1>7, <1>9, <1>10, <1>12, <1>13, <1>14, RestoreStep

\* The rename puts the staged backup where the ledger was, and drops no event
\* of it unless the operator accepted that.
LEMMA PublishRenameKeeps ==
  ASSUME RestoreInv, NEW r \in Restore, R!PublishRename(r)
  PROVE  /\ RestoreInv'
         /\ ~run[r].stale => R!Events(Live(fs)) \subseteq R!Events(Live(fs'))
<1>1. /\ run[r].pc = "publish" /\ UNCHANGED <<due, running, committed>> /\ R!Active(r)
      /\ fs' = [fs EXCEPT !.db = run[r].staged] /\ pending' = pending \cup {fs}
      /\ R!Step(r, "sync", run[r])
  BY DEF R!PublishRename, R!Active, R!DirChange
<1>2. /\ ~running /\ RunOK(r) /\ Progress(r) /\ FileOK(fs) /\ Lossless(fs)
      /\ \A s \in Restore \ {r} : ~R!Active(s)
  BY <1>1, UnderWay
<1>3. /\ run[r].staged = run[r].digest /\ Ours(run[r].staged) /\ fs.wal = <<>>
      /\ ~run[r].stale => R!Events(Live(fs)) \subseteq R!Events(run[r].staged)
      /\ R!Events(Live(fs)) \subseteq R!Preserved(fs.q[r])
  BY <1>1, <1>2 DEF Progress, StagedIsProven, PublishedIsBackup, QuarantineHolds,
                    BeforePublish
<1>4. /\ fs'.db = run[r].staged /\ fs'.wal = <<>> /\ fs'.q = fs.q
      /\ DOMAIN fs' = FileFields
  BY <1>1, <1>2, <1>3 DEF FileOK, FileFields
<1>5. Word(run[r].staged) /\ Word(<<>>)
  BY <1>3, OursEmpty DEF Ours, Word
<1>6. Live(fs') = run[r].staged
  BY <1>4, <1>5, JoinFacts DEF Live
<1>7. FileOK(fs')
  BY <1>2, <1>3, <1>4, <1>5, <1>6 DEF FileOK, Live, R!StaleSidecar
<1>8. Lossless(fs)'
  BY <1>1, <1>2, <1>3, <1>4 DEF Lossless
<1>9. /\ run' = [run EXCEPT ![r] = [run[r] EXCEPT !.pc = "sync"]]
      /\ run'[r].pc = "sync" /\ run'[r].digest = run[r].digest /\ RunOK(r)'
  BY <1>1, StepMoves DEF R!RestorePC
<1>10. Progress(r)'
  BY <1>3, <1>4, <1>9 DEF Progress, NothingToLose, QuarantineHolds, StagedIsProven,
       PublishedIsBackup, BeforeQuarantine, BeforePublish
<1>11. \A s \in Restore \ {r} : ~R!Active(s) /\ fs'.q[s] = fs.q[s]
  BY <1>2, <1>4
<1>12. pending' \subseteq States
  BY <1>1 DEF States
<1>13. RestoreInv'
  BY <1>1, <1>2, <1>7, <1>8, <1>9, <1>10, <1>11, <1>12, RestoreStep
<1> QED BY <1>3, <1>6, <1>13

\* The rename is synced.
LEMMA PublishSyncKeeps ==
  ASSUME RestoreInv, NEW r \in Restore, R!PublishSync(r)
  PROVE  RestoreInv'
<1>1. /\ run[r].pc = "sync" /\ UNCHANGED <<fs, due, running, committed>> /\ R!Active(r)
      /\ pending' = {} /\ R!Step(r, "verify", run[r])
  BY DEF R!PublishSync, R!Active, R!Sync
<1>2. /\ ~running /\ Progress(r) /\ \A s \in Restore \ {r} : ~R!Active(s)
  BY <1>1, UnderWay
<1>3. /\ run' = [run EXCEPT ![r] = [run[r] EXCEPT !.pc = "verify"]]
      /\ run'[r].pc = "verify" /\ run'[r].digest = run[r].digest /\ RunOK(r)'
  BY <1>1, StepMoves DEF R!RestorePC
<1>4. Progress(r)'
  BY <1>1, <1>2, <1>3 DEF Progress, NothingToLose, QuarantineHolds, StagedIsProven,
       PublishedIsBackup, BeforeQuarantine, BeforePublish
<1> QED BY <1>1, <1>2, <1>3, <1>4, QuietStep

\* A step fails: of a quarantine that goes, everything is still in the ledger.
LEMMA FailRestoreKeeps ==
  ASSUME RestoreInv, NEW r \in Restore, R!FailRestore(r)
  PROVE  RestoreInv'
<1>1. /\ UNCHANGED <<due, running, committed>> /\ R!Active(r) /\ R!End(r, "failed")
  BY DEF R!FailRestore
<1>2. /\ ~running /\ Progress(r) /\ FileOK(fs) /\ Lossless(fs)
      /\ \A s \in Restore \ {r} : ~R!Active(s)
  BY <1>1, UnderWay
<1>3. CASE run[r].pc \in {"preserve", "sync_quarantine"}
  <2> DEFINE v == R!NoQuarantine
  <2>1. fs' = [fs EXCEPT !.q[r] = v] /\ pending' = pending \cup {fs}
    BY <1>3 DEF R!FailRestore, R!DirChange
  <2>2. v.phase = "absent"
    BY DEF R!NoQuarantine
  <2> HIDE DEF v
  <2>3. /\ FileOK(fs') /\ Live(fs') = Live(fs)
        /\ fs'.q[r] = v /\ \A s \in Restore \ {r} : fs'.q[s] = fs.q[s]
    BY <1>2, <2>1, <2>2, QuarantineChanges DEF R!Phase
  <2>4. Lossless(fs)'
    <3>1. R!Preserved(fs.q[r]) \subseteq R!Events(Live(fs))
      BY <1>2, <1>3 DEF Progress, NothingToLose, QuarantineHolds, R!Preserved
    <3> QED BY <1>1, <1>2, <2>3, <3>1, LosslessQuarantine
  <2>5. RunOK(r)' /\ Progress(r)'
    BY <1>1, EndedIsFine
  <2>6. \A s \in Restore \ {r} : ~R!Active(s) /\ fs'.q[s] = fs.q[s]
    BY <1>2, <2>3
  <2>7. pending' \subseteq States
    BY <2>1 DEF States
  <2> QED BY <1>1, <1>2, <2>3, <2>4, <2>5, <2>6, <2>7, RestoreStep DEF R!End
<1>4. CASE run[r].pc \notin {"preserve", "sync_quarantine"}
  <2>1. UNCHANGED <<fs, pending>>
    BY <1>4 DEF R!FailRestore
  <2> QED BY <1>1, <1>2, <2>1, QuietEnd
<1> QED BY <1>3, <1>4

-----------------------------------------------------------------------------
(* Every step.                                                             *)

\* When the power goes, what is left is a state since the last sync, and no
\* process.
LEMMA PowerLossKeeps ==
  ASSUME RestoreInv, R!PowerLoss
  PROVE  RestoreInv'
<1>1. /\ fs' \in States /\ pending' = {} /\ running' = FALSE /\ due' = None
      /\ committed' = committed
      /\ run' = [r \in Restore |-> IF R!Active(r) THEN R!Ended("failed") ELSE run[r]]
  BY DEF R!PowerLoss, States
<1>2. FileOK(fs') /\ Lossless(fs)'
  BY <1>1 DEF RestoreInv, FilesKept, Lossless
<1>3. FilesKept'
  BY <1>1, <1>2, FilesStayKept DEF RestoreInv
<1>4. ASSUME NEW r \in Restore PROVE RunOK(r)' /\ Progress(r)' /\ ~R!Active(r)'
  <2>1. RunOK(r) /\ NothingToLose(r)
    BY DEF RestoreInv, Progress
  <2>2. CASE R!Active(r)
    <3>1. run'[r] = R!Ended("failed")
      BY <1>1, <2>2
    <3>2. /\ DOMAIN run'[r] = RunFields /\ run'[r].pc = "done" /\ run'[r].backup = None
          /\ run'[r].stale = FALSE
      BY <3>1 DEF R!Ended, R!NotRun, RunFields
    <3> QED BY <3>2 DEF RunOK, Progress, NothingToLose, QuarantineHolds, StagedIsProven,
              PublishedIsBackup, BeforeQuarantine, BeforePublish, R!RestorePC, R!Active
  <2>3. CASE ~R!Active(r)
    <3>1. run'[r] = run[r] /\ run'[r].pc \in {"idle", "done"}
      BY <1>1, <2>3 DEF R!Active
    <3>2. NothingToLose(r)'
      BY <1>1, <2>1, <3>1 DEF NothingToLose, States
    <3> QED BY <2>1, <3>1, <3>2 DEF RunOK, Progress, QuarantineHolds, StagedIsProven,
              PublishedIsBackup, BeforePublish, R!Active
  <2> QED BY <2>2, <2>3
<1>5. \A r \in Restore : RunOK(r)' /\ Progress(r)'
  BY <1>4
<1>6. Alone'
  BY <1>4 DEF Alone
<1>7. DueIsOurs'
  BY <1>1 DEF DueIsOurs
<1>8. committed' \in 0 .. MaxEvents /\ DOMAIN run' = Restore
  BY <1>1 DEF RestoreInv
<1> QED BY <1>1, <1>3, <1>5, <1>6, <1>7, <1>8 DEF RestoreInv

\* The step of a restore that puts a backup in place is the rename, and the one
\* that reports success follows it.
LEMMA RestoreNextKeeps ==
  ASSUME RestoreBounds, RestoreInv, NEW r \in Restore, R!RestoreNext(r)
  PROVE  RestoreInv' /\ R!DropsNothing(r) /\ R!IsExact(r)
<1>1. DOMAIN run = Restore /\ RunOK(r)
  BY DEF RestoreInv
<1>2. CASE R!PublishRename(r)
  <2>1. RestoreInv' /\ (~run[r].stale => R!Events(Live(fs)) \subseteq R!Events(Live(fs')))
    BY <1>2, PublishRenameKeeps
  <2>2. R!Effective(fs) = Live(fs) /\ R!Effective(fs') = Live(fs')
    BY <2>1, LiveIsEffective DEF RestoreInv, FilesKept, States
  <2>3. run'[r].result = run[r].result
    BY <1>1, <1>2 DEF R!PublishRename, R!Step, RunOK, RunFields
  <2> QED BY <2>1, <2>2, <2>3 DEF R!DropsNothing, R!IsExact
<1>3. CASE R!PostVerify(r)
  <2>1. /\ run[r].pc = "verify" /\ fs' = fs /\ R!Active(r)
    BY <1>3 DEF R!PostVerify, R!Active
  <2>2. FileOK(fs) /\ Progress(r)
    BY <2>1, UnderWay
  <2>3. fs.db = run[r].digest /\ fs.wal = <<>> /\ Word(fs.db) /\ Word(fs.wal)
    BY <2>1, <2>2 DEF Progress, PublishedIsBackup, FileOK, Ours, Word
  <2>4. R!Effective(fs') = run[r].digest
    BY <2>1, <2>2, <2>3, LiveIsEffective, JoinFacts DEF Live
  <2> QED BY <1>3, <2>1, <2>4, EndsKeep DEF R!DropsNothing, R!IsExact
<1>4. CASE /\ R!CheckRestore(r) \/ R!StageBackup(r) \/ R!ProveProvenance(r)
              \/ R!StalenessCheck(r) \/ R!QuarantineCreate(r) \/ R!QuarantineOriginal(r)
              \/ R!QuarantineSync(r) \/ R!SemanticBackup(r) \/ R!RemoveLiveSidecars(r)
              \/ R!PublishSync(r) \/ R!AlreadyRestored(r) \/ R!FailRestore(r)
              \/ R!CrashRestore(r)
  <2>1. RestoreInv'
    BY <1>4, CheckRestoreKeeps, StageBackupKeeps, ProveProvenanceKeeps,
       StalenessCheckKeeps, QuarantineCreateKeeps, QuarantineOriginalKeeps,
       SyncAndBackupKeep, RemoveSidecarsKeeps, PublishSyncKeeps, EndsKeep,
       FailRestoreKeeps
  <2>2. \/ R!End(r, "failed") \/ R!End(r, "already_restored")
        \/ \E f : /\ f.result = run[r].result /\ {"pc", "result"} \subseteq DOMAIN f
                  /\ \E p \in R!RestorePC \ {"sync"} : R!Step(r, p, f)
    <3>1. CASE R!CheckRestore(r)
      <4>1. PICK b \in Backup, stale \in BOOLEAN :
              IF running THEN R!End(r, "failed")
              ELSE R!Step(r, "stage", [run[r] EXCEPT !.backup = b, !.stale = stale,
                                                     !.digest = backups[b]])
        BY <3>1 DEF R!CheckRestore
      <4> DEFINE f == [run[r] EXCEPT !.backup = b, !.stale = stale, !.digest = backups[b]]
      <4>2. f.result = run[r].result /\ {"pc", "result"} \subseteq DOMAIN f
        BY <1>1 DEF RunOK, RunFields
      <4> HIDE DEF f
      <4>3. R!End(r, "failed") \/ R!Step(r, "stage", f)
        BY <4>1 DEF f
      <4> QED BY <4>2, <4>3 DEF R!RestorePC
    <3>2. CASE R!StageBackup(r)
      <4> DEFINE f == [run[r] EXCEPT !.staged = backups[run[r].backup]]
      <4>1. f.result = run[r].result /\ {"pc", "result"} \subseteq DOMAIN f
        BY <1>1 DEF RunOK, RunFields
      <4> HIDE DEF f
      <4>2. R!End(r, "failed") \/ R!Step(r, "prove", f)
        BY <3>2 DEF R!StageBackup, f
      <4> QED BY <4>1, <4>2 DEF R!RestorePC
    <3>3. CASE R!AlreadyRestored(r) \/ R!FailRestore(r) \/ R!CrashRestore(r)
      BY <3>3 DEF R!AlreadyRestored, R!FailRestore, R!CrashRestore
    <3>4. CASE R!ProveProvenance(r) \/ R!StalenessCheck(r) \/ R!QuarantineCreate(r)
               \/ R!QuarantineOriginal(r) \/ R!QuarantineSync(r) \/ R!SemanticBackup(r)
               \/ R!RemoveLiveSidecars(r) \/ R!PublishSync(r)
      <4>1. \/ R!End(r, "failed")
            \/ \E p \in R!RestorePC \ {"sync"} : R!Step(r, p, run[r])
        BY <3>4 DEF R!ProveProvenance, R!StalenessCheck, R!QuarantineCreate,
             R!QuarantineOriginal, R!QuarantineSync, R!SemanticBackup,
             R!RemoveLiveSidecars, R!PublishSync, R!RestorePC
      <4> QED BY <1>1, <4>1 DEF RunOK, RunFields
    <3> QED BY <1>4, <3>1, <3>2, <3>3, <3>4
  <2>3. run'[r].pc # "sync" /\ (run[r].result = "none" => run'[r].result # "applied")
    <3>1. ASSUME NEW x \in {"failed", "already_restored"}, R!End(r, x)
          PROVE  run'[r].pc = "done" /\ run'[r].result = x
      BY <1>1, <3>1 DEF R!End, R!Ended, R!NotRun
    <3>2. ASSUME NEW f, {"pc", "result"} \subseteq DOMAIN f, f.result = run[r].result,
                 NEW p \in R!RestorePC \ {"sync"}, R!Step(r, p, f)
          PROVE  run'[r].pc # "sync" /\ run'[r].result = run[r].result
      <4>1. run'[r] = [f EXCEPT !.pc = p]
        BY <1>1, <3>2 DEF R!Step
      <4> QED BY <3>2, <4>1
    <3> QED BY <2>2, <3>1, <3>2
  <2> QED BY <2>1, <2>3 DEF R!DropsNothing, R!IsExact
<1> QED BY <1>2, <1>3, <1>4 DEF R!RestoreNext

\* Every step keeps the invariant and does what the operator asked.
LEMMA RestoreNextIsAsked ==
  ASSUME RestoreBounds, "daemon" \notin RestoreRaces, RestoreInv, [R!Next]_(R!vars)
  PROVE  /\ RestoreInv'
         /\ \A r \in Restore : R!DropsNothing(r) /\ R!IsExact(r)
<1>1. ASSUME NEW r \in Restore, run'[r] = run[r]
      PROVE  R!DropsNothing(r) /\ R!IsExact(r)
  BY <1>1 DEF R!DropsNothing, R!IsExact
<1>2. CASE UNCHANGED R!vars
  <2>1. RestoreInv'
    BY <1>2 DEF R!vars, RestoreInv, FilesKept, DueIsOurs, Alone, RunOK, Progress,
         NothingToLose, QuarantineHolds, StagedIsProven, PublishedIsBackup, States,
         Lossless, R!Active
  <2> QED BY <1>1, <1>2, <2>1 DEF R!vars
<1>3. CASE R!DaemonNext
  <2>1. run' = run
    BY <1>3 DEF R!DaemonNext, R!StartDaemon, R!Commit, R!Checkpoint, R!StopDaemon,
         R!CrashDaemon, R!BackupRecord, R!BackupFile, R!Plant
  <2>2. ASSUME NEW b \in Backup, R!Plant(b) PROVE RestoreInv'
    BY <2>2 DEF R!Plant, RestoreInv, FilesKept, DueIsOurs, Alone, RunOK, Progress,
         NothingToLose, QuarantineHolds, StagedIsProven, PublishedIsBackup, States,
         Lossless, R!Active
  <2>3. RestoreInv'
    BY <1>3, <2>2, ServeKeeps, CommitKeeps, BackupRecordKeeps, BackupFileKeeps
       DEF R!DaemonNext
  <2> QED BY <1>1, <2>1, <2>3
<1>4. CASE R!PowerLoss
  <2>1. RestoreInv' /\ DOMAIN run = Restore
    BY <1>4, PowerLossKeeps DEF RestoreInv
  <2>2. ASSUME NEW r \in Restore PROVE R!DropsNothing(r) /\ R!IsExact(r)
    <3>1. run'[r] = run[r] \/ run'[r] = R!Ended("failed")
      BY <1>4 DEF R!PowerLoss
    <3>2. R!Ended("failed").pc = "done" /\ R!Ended("failed").result = "failed"
      BY DEF R!Ended, R!NotRun
    <3> QED BY <3>1, <3>2 DEF R!DropsNothing, R!IsExact
  <2> QED BY <2>1, <2>2
<1>5. ASSUME NEW r \in Restore, R!RestoreNext(r)
      PROVE  RestoreInv' /\ \A s \in Restore : R!DropsNothing(s) /\ R!IsExact(s)
  <2>1. RestoreInv' /\ R!DropsNothing(r) /\ R!IsExact(r)
    BY <1>5, RestoreNextKeeps
  <2>2. ASSUME NEW s \in Restore, s # r PROVE run'[s] = run[s]
    <3>1. DOMAIN run = Restore
      BY DEF RestoreInv
    <3>2. \E v : run' = [run EXCEPT ![r] = v]
      BY <1>5 DEF R!RestoreNext, R!CheckRestore, R!StageBackup, R!ProveProvenance,
           R!AlreadyRestored, R!StalenessCheck, R!QuarantineCreate, R!QuarantineOriginal,
           R!QuarantineSync, R!SemanticBackup, R!RemoveLiveSidecars, R!PublishRename,
           R!PublishSync, R!PostVerify, R!FailRestore, R!CrashRestore, R!Step, R!End
    <3> QED BY <2>2, <3>1, <3>2
  <2> QED BY <1>1, <2>1, <2>2
<1> QED BY <1>2, <1>3, <1>4, <1>5 DEF R!Next

\* Before its first commit the ledger is empty, and no restore has run.
LEMMA RestoreStarts ==
  ASSUME RestoreBounds, R!Init
  PROVE  RestoreInv
<1>1. /\ fs = [db |-> <<>>, wal |-> <<>>, base |-> <<>>,
               q |-> [r \in Restore |-> R!NoQuarantine]]
      /\ pending = {} /\ due = None /\ running = FALSE /\ committed = 0
      /\ run = [r \in Restore |-> R!NotRun]
  BY DEF R!Init
<1>2. fs.db = <<>> /\ fs.wal = <<>> /\ DOMAIN fs = FileFields /\ DOMAIN fs.q = Restore
  BY <1>1 DEF FileFields
<1>3. \A r \in Restore : fs.q[r].phase = "absent"
  BY <1>1 DEF R!NoQuarantine
<1>4. Ours(<<>>) /\ Word(<<>>)
  BY OursEmpty
<1>5. <<>> \o <<>> = <<>>
  BY <1>4, JoinFacts
<1>6. Ours(fs.db \o fs.wal)
  BY <1>2, <1>4, <1>5
<1>7. FileOK(fs)
  BY <1>2, <1>3, <1>4, <1>6 DEF FileOK, R!StaleSidecar, R!Phase
<1>8. FilesKept
  BY <1>1, <1>7 DEF FilesKept, States, Lossless
<1>9. ASSUME NEW r \in Restore PROVE RunOK(r) /\ Progress(r) /\ ~R!Active(r)
  <2>1. run[r] = R!NotRun
    BY <1>1
  <2>2. /\ DOMAIN run[r] = RunFields /\ run[r].pc = "idle" /\ run[r].backup = None
        /\ run[r].stale = FALSE
    BY <2>1 DEF R!NotRun, RunFields
  <2> QED BY <1>1, <1>3, <2>2 DEF RunOK, Progress, NothingToLose, QuarantineHolds,
            StagedIsProven, PublishedIsBackup, BeforePublish, States, R!RestorePC, R!Active
<1>10. \A r \in Restore : RunOK(r) /\ Progress(r)
  BY <1>9
<1>11. Alone /\ DueIsOurs
  BY <1>1, <1>9 DEF Alone, DueIsOurs
<1>12. committed \in 0 .. MaxEvents /\ DOMAIN run = Restore
  BY <1>1 DEF RestoreBounds
<1> QED BY <1>1, <1>8, <1>10, <1>11, <1>12 DEF RestoreInv

\* What the invariant says of the files is what a daemon may count on.
LEMMA FilesAreWhole ==
  ASSUME RestoreBounds, RestoreInv
  PROVE  RestoredLedgerIsWhole
<1>1. FileOK(fs) /\ Lossless(fs) /\ running \in BOOLEAN /\ committed \in 0 .. MaxEvents
  BY DEF RestoreInv, FilesKept, States
<1>2. R!RestoreTypeOK
  BY <1>1 DEF RestoreInv, FileOK, RunOK, R!RestoreTypeOK
<1>3. R!NoEventLost
  BY <1>1, LiveIsEffective DEF Lossless, R!NoEventLost
<1>4. R!LedgerIsOurs
  BY <1>1, OursFacts DEF FileOK, R!LedgerIsOurs
<1>5. R!NoStaleSidecar
  BY <1>1 DEF FileOK, R!NoStaleSidecar
<1> QED BY <1>2, <1>3, <1>4, <1>5 DEF RestoredLedgerIsWhole, R!RestoredLedgerIsWhole

\* For any number of events, backups and restores, with I/O errors, kills, lost power and
\* other homes' ledgers put at a backup's path at any moment: no committed event leaves
\* the data root, nothing foreign becomes the ledger, and no WAL lies beside a file it
\* does not extend.  No daemon starts while a restore is under way, which holds its lock.
THEOREM RestoreKeepsWhole ==
  ASSUME RestoreBounds, "daemon" \notin RestoreRaces
  PROVE  R!Spec => []RestoredLedgerIsWhole
<1>1. R!Init => RestoreInv
  BY RestoreStarts
<1>2. RestoreInv /\ [R!Next]_(R!vars) => RestoreInv'
  BY RestoreNextIsAsked
<1>3. RestoreInv => RestoredLedgerIsWhole
  BY FilesAreWhole
<1> QED BY <1>1, <1>2, <1>3, PTL DEF R!Spec

\* Under the same condition a restore never replaces the ledger by a backup that lacks
\* an event of it unless it was told that it may, although it compares nothing but
\* sequence numbers, and it reports "applied" only of exactly the named backup.
THEOREM RestoreDoesAsAsked ==
  ASSUME RestoreBounds, "daemon" \notin RestoreRaces
  PROVE  R!Spec => RestoreAsAsked
<1>1. R!Init => RestoreInv
  BY RestoreStarts
<1>2. RestoreInv /\ [R!Next]_(R!vars)
        => RestoreInv' /\ [\A r \in Restore : R!DropsNothing(r) /\ R!IsExact(r)]_(R!vars)
  BY RestoreNextIsAsked
<1> QED BY <1>1, <1>2, PTL DEF R!Spec, RestoreAsAsked, R!RestoreAsAsked

-----------------------------------------------------------------------------
(* The audit trail.                                                        *)

\* No recorder is "no recorder".
RecordBounds == None \notin Recorder /\ MaxLines \in Nat

TrailLine == [line : Nat, prev : Nat, torn : BOOLEAN]
RecordStep == {"idle", "verified", "written", "synced"}

RecordShape ==
  /\ trail \in Seq(TrailLine) /\ durable \in 0 .. Len(trail)
  /\ marker \in BOOLEAN /\ named \in BOOLEAN
  /\ at \in [Recorder -> [step : RecordStep, line : Nat]]
  /\ latch \in Recorder \cup {None}
  /\ \A p \in Recorder : at[p].step # "idle" <=> latch = p
  /\ spent \in [lines : Nat, receipts : Nat, faults : Nat]
  /\ said \in Seq(Nat)

\* The line of place i, or 0 before the first.
LineAt(t, i) == IF i = 0 THEN 0 ELSE t[i].line

\* Half a line has no number and comes last; the others are numbered upwards,
\* each chained to the one before it.
TrailNumbered ==
  /\ \A i \in 1 .. Len(trail) :
       IF trail[i].torn THEN i = Len(trail) /\ trail[i].line = 0
       ELSE /\ trail[i].line \in 1 .. spent.lines
            /\ trail[i].prev = LineAt(trail, i - 1)
  /\ \A i, j \in 1 .. Len(trail) :
       i < j /\ ~trail[j].torn => trail[i].line < trail[j].line

\* What was answered for is on disk, upwards as well.
SaidIsDurable ==
  /\ \A i \in 1 .. Len(said) :
       \E k \in 1 .. durable : ~trail[k].torn /\ trail[k].line = said[i]
  /\ \A i, j \in 1 .. Len(said) : i < j => said[i] < said[j]
  /\ said # <<>> => named

\* Where the process inside Record is, the trail is as it left it.
RecordProgress(p) ==
  /\ at[p].step = "verified" => /\ \A i \in 1 .. Len(trail) : ~trail[i].torn
                                /\ at[p].line = LineAt(trail, Len(trail))
  /\ at[p].step \in {"written", "synced"} =>
       /\ Len(trail) > 0 /\ ~trail[Len(trail)].torn
       /\ trail[Len(trail)].line = at[p].line
       /\ \A i \in 1 .. Len(said) : said[i] < at[p].line
  /\ at[p].step = "synced" => durable = Len(trail)

\* A line that may not be on disk is the last one, and the marker and the free
\* lock say that nobody is appending after it.
UnsureIsLast ==
  /\ unsure # {} => marker /\ latch = None
  /\ \A l \in unsure : l # 0 /\ \A i \in 1 .. Len(trail) : trail[i].line = l => i = Len(trail)

\* The inductive invariant of the trail.
TrailInv ==
  /\ RecordShape /\ TrailNumbered /\ SaidIsDurable /\ UnsureIsLast
  /\ \A p \in Recorder : RecordProgress(p)

\* The tip of the first i lines is the line of place i.
LEMMA TipIsLineAt ==
  ASSUME NEW t \in Seq(TrailLine), NEW i \in 0 .. Len(t)
  PROVE  O!Tip(SubSeq(t, 1, i)) = LineAt(t, i)
<1>1. Len(t) \in Nat /\ \A k \in 1 .. Len(t) : t[k] \in TrailLine
  BY ElementOfSeq, LenProperties
<1> DEFINE s == SubSeq(t, 1, i)
<1>2. /\ s \in Seq(TrailLine) /\ Len(s) = i
      /\ \A k \in 1 .. i : s[k] = t[k]
  <2>1. \A k \in 1 .. i : t[k] \in TrailLine
    BY <1>1
  <2>2. /\ s \in Seq(TrailLine) /\ Len(s) = IF 1 <= i THEN i - 1 + 1 ELSE 0
        /\ \A k \in 1 .. i - 1 + 1 : s[k] = t[1 + k - 1]
    BY <1>1, <2>1, SubSeqProperties, i \in Int, 1 \in Int
  <2>3. i \in Nat
    BY <1>1
  <2> QED BY <2>2, <2>3
<1> HIDE DEF s
<1>3. CASE i = 0
  <2>1. s = <<>>
    BY <1>2, <1>3, EmptySeq
  <2> QED BY <1>3, <2>1 DEF O!Tip, LineAt, s
<1>4. CASE i # 0
  <2>1. i \in 1 .. i
    BY <1>1, <1>4
  <2>2. s # <<>>
    BY <1>2, <1>4, EmptySeq
  <2>3. O!Last(s) = t[i]
    BY <1>2, <2>1 DEF O!Last
  <2> QED BY <1>4, <2>2, <2>3 DEF O!Tip, LineAt, s
<1> QED BY <1>3, <1>4

\* The trail and what was answered for, place by place.
LEMMA RecordFacts ==
  ASSUME RecordShape
  PROVE  /\ Len(trail) \in Nat /\ DOMAIN trail = 1 .. Len(trail)
         /\ \A i \in 1 .. Len(trail) : trail[i] \in TrailLine
         /\ Len(said) \in Nat /\ DOMAIN said = 1 .. Len(said)
         /\ \A i \in 1 .. Len(said) : said[i] \in Nat
BY LenProperties, ElementOfSeq DEF RecordShape

\* A trail that is accepted has no half line and no marker.
LEMMA ValidIsWhole ==
  ASSUME RecordShape, O!TrailValid
  PROVE  /\ ~marker /\ \A i \in 1 .. Len(trail) : ~trail[i].torn
         /\ O!Tip(trail) = LineAt(trail, Len(trail))
<1>1. /\ trail \in Seq(TrailLine) /\ Len(trail) \in 0 .. Len(trail)
      /\ SubSeq(trail, 1, Len(trail)) = trail
  BY RecordFacts, SubSeqFull DEF RecordShape
<1>2. O!Tip(trail) = LineAt(trail, Len(trail))
  BY <1>1, TipIsLineAt
<1> QED BY <1>2, RecordFacts DEF O!TrailValid

\* A receipt leaves the trail alone.
LEMMA TrailAlone ==
  ASSUME TrailInv, UNCHANGED O!trailVars, spent' \in [lines : Nat, receipts : Nat, faults : Nat],
         spent'.lines = spent.lines
  PROVE  TrailInv'
BY DEF TrailInv, RecordShape, TrailNumbered, SaidIsDurable, UnsureIsLast, RecordProgress,
       O!trailVars, LineAt

\* One process is inside Record at a time.
LEMMA InsideAlone ==
  ASSUME RecordBounds, TrailInv, NEW p \in Recorder, at[p].step # "idle"
  PROVE  /\ latch = p /\ at[p].line \in Nat /\ unsure = {}
         /\ \A q \in Recorder : at[q].step # "idle" => q = p
BY DEF TrailInv, RecordShape, UnsureIsLast, RecordBounds

\* An empty trail satisfies the invariant.
LEMMA TrailStarts == RecordBounds /\ O!Init => TrailInv
<1> SUFFICES ASSUME RecordBounds, O!Init PROVE TrailInv
  OBVIOUS
<1>1. trail = <<>> /\ said = <<>> /\ Len(trail) = 0 /\ Len(said) = 0
      /\ trail \in Seq(TrailLine) /\ said \in Seq(Nat)
  BY EmptySeq DEF O!Init
<1>2. RecordShape
  <2>1. /\ at \in [Recorder -> [step : RecordStep, line : Nat]]
        /\ \A p \in Recorder : at[p].step = "idle"
    BY DEF O!Init, O!Idle, RecordStep
  <2>2. spent \in [lines : Nat, receipts : Nat, faults : Nat]
    BY DEF O!Init
  <2>3. /\ durable \in 0 .. Len(trail) /\ marker \in BOOLEAN /\ named \in BOOLEAN /\ latch = None
    <3>1. durable = 0 /\ marker = FALSE /\ named = FALSE /\ latch = None
      BY DEF O!Init
    <3>2. durable \in 0 .. Len(trail)
      BY <1>1, <3>1
    <3>3. marker \in BOOLEAN /\ named \in BOOLEAN
      BY <3>1
    <3> QED BY <3>1, <3>2, <3>3
  <2> QED BY <1>1, <2>1, <2>2, <2>3 DEF RecordBounds, RecordShape
<1>3. TrailNumbered /\ SaidIsDurable /\ UnsureIsLast
  BY <1>1 DEF TrailNumbered, SaidIsDurable, UnsureIsLast, O!Init
<1>4. \A p \in Recorder : RecordProgress(p)
  BY DEF RecordProgress, O!Init, O!Idle
<1> QED BY <1>2, <1>3, <1>4 DEF TrailInv

\* Begin takes the free lock and reads the tip of a trail it has verified.
LEMMA BeginKeeps ==
  ASSUME RecordBounds, TrailInv, NEW p \in Recorder, O!Begin(p)
  PROVE  TrailInv'
<1>1. /\ RecordShape /\ latch = None /\ latch' = p /\ O!TrailValid
      /\ at' = [at EXCEPT ![p] = [step |-> "verified", line |-> LineAt(trail, Len(trail))]]
      /\ UNCHANGED <<trail, durable, named, marker, said, unsure, spent>>
  BY ValidIsWhole DEF TrailInv, O!Begin, O!Lock
<1>2. ~marker /\ unsure = {} /\ \A i \in 1 .. Len(trail) : ~trail[i].torn
  BY <1>1, ValidIsWhole DEF TrailInv, UnsureIsLast
<1>3. LineAt(trail, Len(trail)) \in Nat
  BY <1>1, RecordFacts DEF LineAt, TrailLine
<1>4. \A q \in Recorder : at[q].step = "idle"
  BY <1>1 DEF RecordShape, RecordBounds
<1>5. /\ at' \in [Recorder -> [step : RecordStep, line : Nat]]
      /\ at'[p].step = "verified" /\ at'[p].line = LineAt(trail, Len(trail))
      /\ \A q \in Recorder : q # p => at'[q].step = "idle"
  BY <1>1, <1>3, <1>4 DEF RecordShape, RecordStep
<1>6. RecordShape'
  BY <1>1, <1>5 DEF RecordShape
<1>7. TrailNumbered' /\ SaidIsDurable' /\ UnsureIsLast'
  BY <1>1, <1>2 DEF TrailInv, TrailNumbered, SaidIsDurable, UnsureIsLast, LineAt
<1>8. LineAt(trail, Len(trail))' = LineAt(trail, Len(trail))
  BY <1>1 DEF LineAt
<1>9. \A q \in Recorder : RecordProgress(q)'
  BY <1>1, <1>2, <1>5, <1>8 DEF RecordProgress
<1> QED BY <1>6, <1>7, <1>9 DEF TrailInv

\* A process that leaves Record gives the lock back.
LEMMA LeaveFrees ==
  ASSUME RecordBounds, TrailInv, NEW p \in Recorder, at[p].step # "idle", O!Leave(p)
  PROVE  /\ latch' = None /\ at' \in [Recorder -> [step : RecordStep, line : Nat]]
         /\ \A q \in Recorder : at'[q].step = "idle"
<1>1. latch = p /\ \A q \in Recorder : at[q].step # "idle" => q = p
  BY InsideAlone
<1>2. O!Idle \in [step : RecordStep, line : Nat] /\ O!Idle.step = "idle"
  BY DEF O!Idle, RecordStep
<1>3. at \in [Recorder -> [step : RecordStep, line : Nat]] /\ at' = [at EXCEPT ![p] = O!Idle]
  BY DEF O!Leave, TrailInv, RecordShape
<1>4. latch' = None
  BY <1>1 DEF O!Leave
<1> QED BY <1>1, <1>2, <1>3, <1>4

\* With nobody inside Record the invariant is about the file alone.
LEMMA NobodyInside ==
  ASSUME RecordBounds, latch' = None, at' \in [Recorder -> [step : RecordStep, line : Nat]],
         \A q \in Recorder : at'[q].step = "idle",
         trail' \in Seq(TrailLine), durable' \in 0 .. Len(trail'), marker' \in BOOLEAN,
         named' \in BOOLEAN, spent' \in [lines : Nat, receipts : Nat, faults : Nat],
         said' \in Seq(Nat), TrailNumbered', SaidIsDurable', UnsureIsLast'
  PROVE  TrailInv'
BY DEF TrailInv, RecordShape, RecordBounds, RecordProgress

\* Half a line after whole ones.
LEMMA HalfLine ==
  ASSUME NEW t \in Seq(TrailLine)
  PROVE  LET u == Append(t, O!Torn) IN
         /\ u \in Seq(TrailLine) /\ Len(u) = Len(t) + 1 /\ Len(t) \in Nat
         /\ \A i \in 1 .. Len(t) : u[i] = t[i]
         /\ u[Len(u)] = [line |-> 0, prev |-> 0, torn |-> TRUE]
<1>1. O!Torn \in TrailLine
  BY DEF O!Torn, TrailLine
<1> QED BY <1>1, AppendProperties, LenProperties DEF O!Torn

\* A trail that keeps its first n lines, all that is on disk among them, and may
\* have half a line after them, keeps what was promised of it.
LEMMA CutKeeps ==
  ASSUME TrailInv, NEW n \in durable .. Len(trail), NEW u \in Seq(TrailLine),
         \A i \in 1 .. n : u[i] = trail[i],
         Len(u) = n \/ /\ Len(u) = n + 1
                        /\ u[n + 1] = [line |-> 0, prev |-> 0, torn |-> TRUE]
                        /\ \A i \in 1 .. n : ~trail[i].torn,
         trail' = u, durable' \in durable .. Len(u), said # <<>> => named', said' = said,
         spent'.lines = spent.lines
  PROVE  durable' \in 0 .. Len(trail') /\ TrailNumbered' /\ SaidIsDurable'
<1>1. RecordShape /\ TrailNumbered /\ SaidIsDurable /\ Len(trail) \in Nat /\ Len(u) \in Nat
      /\ durable \in 0 .. Len(trail) /\ n \in 0 .. Len(trail)
      /\ n <= Len(u) /\ Len(u) <= n + 1
  BY RecordFacts, LenProperties DEF TrailInv, RecordShape
<1>2. \A i \in 1 .. Len(u) : i # n + 1 => i \in 1 .. n /\ i \in 1 .. Len(trail) /\ u[i] = trail[i]
  BY <1>1
<1>3. \A i \in 1 .. Len(u) : i = n + 1 => u[i].torn /\ i = Len(u) /\ u[i].line = 0
  BY <1>1
<1>4. ASSUME NEW i \in 1 .. Len(u)
      PROVE  IF u[i].torn THEN i = Len(u) /\ u[i].line = 0
             ELSE u[i].line \in 1 .. spent.lines /\ u[i].prev = LineAt(u, i - 1)
  <2>1. CASE i = n + 1
    BY <1>3, <2>1
  <2>2. CASE i # n + 1 /\ u[i].torn
    <3>1. i = Len(trail) /\ i = n /\ trail[i].torn /\ trail[i].line = 0
      BY <1>1, <1>2, <2>2 DEF TrailNumbered
    <3> QED BY <1>1, <1>2, <2>2, <3>1
  <2>3. CASE i # n + 1 /\ ~u[i].torn
    <3>1. trail[i].line \in 1 .. spent.lines /\ trail[i].prev = LineAt(trail, i - 1)
      BY <1>1, <1>2, <2>3 DEF TrailNumbered
    <3>2. LineAt(trail, i - 1) = LineAt(u, i - 1)
      BY <1>1, <1>2, <2>3 DEF LineAt
    <3> QED BY <1>2, <2>3, <3>1, <3>2
  <2> QED BY <2>1, <2>2, <2>3
<1>5. \A i, j \in 1 .. Len(u) : i < j /\ ~u[j].torn => u[i].line < u[j].line
  <2> SUFFICES ASSUME NEW i \in 1 .. Len(u), NEW j \in 1 .. Len(u), i < j, ~u[j].torn
               PROVE  u[i].line < u[j].line
    OBVIOUS
  <2>1. j # n + 1 /\ i # n + 1
    BY <1>1, <1>3
  <2> QED BY <1>1, <1>2, <2>1 DEF TrailNumbered
<1>6. TrailNumbered'
  BY <1>4, <1>5 DEF TrailNumbered, LineAt
<1>7. \A i \in 1 .. Len(said) : \E k \in 1 .. durable' : ~u[k].torn /\ u[k].line = said[i]
  <2> TAKE i \in 1 .. Len(said)
  <2>1. PICK k \in 1 .. durable : ~trail[k].torn /\ trail[k].line = said[i]
    BY <1>1 DEF SaidIsDurable
  <2>2. k \in 1 .. durable' /\ k \in 1 .. n
    BY <1>1
  <2> QED BY <2>1, <2>2
<1>8. SaidIsDurable'
  BY <1>1, <1>7 DEF SaidIsDurable
<1> QED BY <1>1, <1>6, <1>8

\* A write that fails, or a process that dies, leaves half a line at most.
LEMMA WriteFailsKeeps ==
  ASSUME RecordBounds, TrailInv, NEW p \in Recorder, O!WriteFails(p) \/ O!Die(p)
  PROVE  TrailInv'
<1>1. /\ at[p].step # "idle" /\ O!Leave(p) /\ O!Fault
      /\ trail' = trail \/ (at[p].step = "verified" /\ trail' = Append(trail, O!Torn))
      /\ UNCHANGED <<durable, named, marker, said, unsure>>
  BY DEF O!WriteFails, O!Die
<1>2. /\ latch' = None /\ at' \in [Recorder -> [step : RecordStep, line : Nat]]
      /\ \A q \in Recorder : at'[q].step = "idle"
  BY <1>1, LeaveFrees
<1>3. RecordShape /\ spent' \in [lines : Nat, receipts : Nat, faults : Nat]
      /\ spent'.lines = spent.lines /\ Len(trail) \in Nat
  <2>1. RecordShape
    BY DEF TrailInv
  <2>2. spent' = [spent EXCEPT !.faults = @ + 1] /\ spent \in [lines : Nat, receipts : Nat, faults : Nat]
    BY <1>1, <2>1 DEF O!Fault, RecordShape
  <2>3. spent' \in [lines : Nat, receipts : Nat, faults : Nat] /\ spent'.lines = spent.lines
    BY <2>2
  <2> QED BY <2>1, <2>3, RecordFacts
<1>4. unsure' = {}
  BY <1>1, InsideAlone
<1>5. /\ trail' \in Seq(TrailLine)
      /\ durable' \in 0 .. Len(trail') /\ TrailNumbered' /\ SaidIsDurable'
  <2>0. said # <<>> => named'
    BY <1>1 DEF TrailInv, SaidIsDurable
  <2>1. CASE trail' = trail
    <3>1. trail' \in Seq(TrailLine) /\ Len(trail) \in durable .. Len(trail)
          /\ durable' \in durable .. Len(trail)
      BY <1>1, <1>3, <2>1 DEF RecordShape
    <3> QED BY <1>1, <1>3, <2>0, <2>1, <3>1, CutKeeps
  <2>2. CASE at[p].step = "verified" /\ trail' = Append(trail, O!Torn)
    <3> DEFINE u == Append(trail, O!Torn)
    <3>1. /\ u \in Seq(TrailLine) /\ Len(u) = Len(trail) + 1
          /\ \A i \in 1 .. Len(trail) : u[i] = trail[i]
          /\ u[Len(trail) + 1] = [line |-> 0, prev |-> 0, torn |-> TRUE]
      BY <1>3, HalfLine DEF RecordShape
    <3>2. \A i \in 1 .. Len(trail) : ~trail[i].torn
      BY <2>2 DEF TrailInv, RecordProgress
    <3>3. Len(trail) \in durable .. Len(trail) /\ durable' \in durable .. Len(u)
      BY <1>1, <1>3, <3>1 DEF RecordShape
    <3> HIDE DEF u
    <3> QED BY <1>1, <1>3, <2>0, <2>2, <3>1, <3>2, <3>3, CutKeeps DEF u
  <2> QED BY <1>1, <2>1, <2>2
<1>6. UnsureIsLast'
  BY <1>4 DEF UnsureIsLast
<1>7. marker' \in BOOLEAN /\ named' \in BOOLEAN /\ said' \in Seq(Nat)
  BY <1>1, <1>3 DEF RecordShape
<1> QED BY <1>2, <1>3, <1>5, <1>6, <1>7, NobodyInside

\* A fault spends a fault and nothing else.
LEMMA FaultSpends ==
  ASSUME TrailInv, O!Fault
  PROVE  spent' \in [lines : Nat, receipts : Nat, faults : Nat] /\ spent'.lines = spent.lines
<1>1. spent' = [spent EXCEPT !.faults = @ + 1] /\ spent \in [lines : Nat, receipts : Nat, faults : Nat]
  BY DEF O!Fault, TrailInv, RecordShape
<1> QED BY <1>1

\* A line is numbered after, and chained to, the one read under the same lock.
LEMMA WriteLineKeeps ==
  ASSUME RecordBounds, TrailInv, NEW p \in Recorder, O!WriteLine(p)
  PROVE  TrailInv'
<1> DEFINE line == spent.lines + 1
           new == [line |-> line, prev |-> at[p].line, torn |-> FALSE]
           u == Append(trail, new)
<1>1. /\ at[p].step = "verified" /\ trail' = u
      /\ at' = [at EXCEPT ![p] = [step |-> "written", line |-> line]]
      /\ spent' = [spent EXCEPT !.lines = line]
      /\ UNCHANGED <<durable, named, marker, latch, said, unsure>>
  BY DEF O!WriteLine
<1>2. RecordShape /\ TrailNumbered /\ SaidIsDurable /\ Len(trail) \in Nat
  BY RecordFacts DEF TrailInv
<1>3. /\ unsure = {} /\ latch = p /\ at[p].line \in Nat
      /\ \A q \in Recorder : at[q].step # "idle" => q = p
  BY <1>1, InsideAlone
<1>4. /\ \A i \in 1 .. Len(trail) : ~trail[i].torn
      /\ at[p].line = LineAt(trail, Len(trail))
  BY <1>1 DEF TrailInv, RecordProgress
<1>5. /\ spent' \in [lines : Nat, receipts : Nat, faults : Nat] /\ spent'.lines = line
      /\ line \in Nat /\ spent.lines < line /\ line > 0 /\ spent.lines \in Nat
  <2>1. spent \in [lines : Nat, receipts : Nat, faults : Nat]
    BY <1>2 DEF RecordShape
  <2>2. line \in Nat /\ spent.lines < line /\ line > 0 /\ spent.lines \in Nat
    BY <2>1
  <2> HIDE DEF line
  <2> QED BY <1>1, <2>1, <2>2
<1>6. new \in TrailLine /\ new.line = line /\ new.prev = at[p].line /\ new.torn = FALSE
  BY <1>3, <1>5 DEF TrailLine
<1>7. /\ u \in Seq(TrailLine) /\ Len(u) = Len(trail) + 1
      /\ \A i \in 1 .. Len(trail) : u[i] = trail[i]
      /\ u[Len(trail) + 1] = new
  BY <1>2, <1>6, AppendProperties DEF RecordShape
<1> HIDE DEF u, new, line
<1>8. /\ at' \in [Recorder -> [step : RecordStep, line : Nat]]
      /\ at'[p].step = "written" /\ at'[p].line = line
      /\ \A q \in Recorder : q # p => at'[q].step = "idle"
  BY <1>1, <1>2, <1>3, <1>5 DEF RecordShape, RecordStep
<1>9. RecordShape'
  <2>1. durable' \in 0 .. Len(trail')
    BY <1>1, <1>2, <1>7 DEF RecordShape
  <2>2. \A q \in Recorder : at'[q].step # "idle" <=> latch' = q
    BY <1>1, <1>3, <1>8
  <2> QED BY <1>1, <1>2, <1>5, <1>7, <1>8, <2>1, <2>2 DEF RecordShape
<1>10. ASSUME NEW i \in 1 .. Len(u)
       PROVE  /\ ~u[i].torn /\ u[i].line \in 1 .. line
              /\ u[i].prev = LineAt(u, i - 1)
              /\ i < Len(u) => u[i].line < line
  <2>1. CASE i = Len(trail) + 1
    <3>1. LineAt(u, Len(trail)) = LineAt(trail, Len(trail))
      BY <1>2, <1>7 DEF LineAt
    <3> QED BY <1>2, <1>4, <1>5, <1>6, <1>7, <2>1, <3>1
  <2>2. CASE i # Len(trail) + 1
    <3>1. i \in 1 .. Len(trail) /\ u[i] = trail[i]
      BY <1>2, <1>7, <2>2
    <3>2. trail[i].line \in 1 .. spent.lines /\ trail[i].prev = LineAt(trail, i - 1)
      BY <1>2, <1>4, <3>1 DEF TrailNumbered
    <3>3. LineAt(trail, i - 1) = LineAt(u, i - 1)
      BY <1>2, <1>7, <3>1 DEF LineAt
    <3> QED BY <1>4, <1>5, <3>1, <3>2, <3>3
  <2> QED BY <2>1, <2>2
<1>11. \A i, j \in 1 .. Len(u) : i < j => u[i].line < u[j].line
  <2> SUFFICES ASSUME NEW i \in 1 .. Len(u), NEW j \in 1 .. Len(u), i < j
               PROVE  u[i].line < u[j].line
    OBVIOUS
  <2>1. CASE j = Len(u)
    BY <1>2, <1>6, <1>7, <1>10, <2>1
  <2>2. CASE j # Len(u)
    <3>1. i \in 1 .. Len(trail) /\ j \in 1 .. Len(trail)
      BY <1>2, <1>7, <2>2
    <3> QED BY <1>2, <1>4, <1>7, <3>1 DEF TrailNumbered
  <2> QED BY <2>1, <2>2
<1>12. TrailNumbered'
  BY <1>1, <1>5, <1>10, <1>11 DEF TrailNumbered, LineAt
<1>13. ASSUME NEW i \in 1 .. Len(said)
       PROVE  said[i] < line /\ \E k \in 1 .. durable : ~u[k].torn /\ u[k].line = said[i]
  <2>1. PICK k \in 1 .. durable : ~trail[k].torn /\ trail[k].line = said[i]
    BY <1>2 DEF SaidIsDurable
  <2>2. k \in 1 .. Len(trail)
    BY <1>2 DEF RecordShape
  <2>3. trail[k].line \in 1 .. spent.lines
    BY <1>2, <2>1, <2>2 DEF TrailNumbered
  <2> QED BY <1>5, <1>7, <2>1, <2>2, <2>3
<1>14. SaidIsDurable'
  BY <1>1, <1>2, <1>13 DEF SaidIsDurable
<1>15. UnsureIsLast'
  BY <1>1, <1>3 DEF UnsureIsLast
<1>16. ASSUME NEW q \in Recorder PROVE RecordProgress(q)'
  <2>1. CASE q = p
    BY <1>1, <1>2, <1>6, <1>7, <1>8, <1>13, <2>1 DEF RecordProgress
  <2>2. CASE q # p
    BY <1>8, <2>2 DEF RecordProgress
  <2> QED BY <2>1, <2>2
<1> QED BY <1>9, <1>12, <1>14, <1>15, <1>16 DEF TrailInv

\* A sync of the file puts every line on disk.
LEMMA SyncFileKeeps ==
  ASSUME RecordBounds, TrailInv, NEW p \in Recorder, O!SyncFile(p)
  PROVE  TrailInv'
<1>1. /\ at[p].step = "written" /\ durable' = Len(trail)
      /\ at' = [at EXCEPT ![p].step = "synced"]
      /\ UNCHANGED <<trail, named, marker, latch, said, unsure, spent>>
  BY DEF O!SyncFile, O!Synced
<1>2. RecordShape /\ TrailNumbered /\ SaidIsDurable /\ Len(trail) \in Nat
  BY RecordFacts DEF TrailInv
<1>3. unsure = {} /\ latch = p /\ \A q \in Recorder : at[q].step # "idle" => q = p
  BY <1>1, InsideAlone
<1>4. /\ at' \in [Recorder -> [step : RecordStep, line : Nat]]
      /\ at'[p].step = "synced" /\ at'[p].line = at[p].line
      /\ \A q \in Recorder : q # p => at'[q] = at[q] /\ at'[q].step = "idle"
  <2>1. at \in [Recorder -> [step : RecordStep, line : Nat]] /\ "synced" \in RecordStep
    BY <1>2 DEF RecordShape, RecordStep
  <2> QED BY <1>1, <1>3, <2>1
<1>5. RecordShape'
  <2>1. durable' \in 0 .. Len(trail')
    BY <1>1, <1>2
  <2>2. \A q \in Recorder : at'[q].step # "idle" <=> latch' = q
    BY <1>1, <1>3, <1>4
  <2> QED BY <1>1, <1>2, <1>4, <2>1, <2>2 DEF RecordShape
<1>6. TrailNumbered' /\ UnsureIsLast'
  BY <1>1, <1>2, <1>3 DEF TrailNumbered, UnsureIsLast, LineAt
<1>7. SaidIsDurable'
  <2>1. durable \in 0 .. Len(trail)
    BY <1>2 DEF RecordShape
  <2>2. \A k \in 1 .. durable : k \in 1 .. Len(trail)
    BY <1>2, <2>1
  <2> QED BY <1>1, <1>2, <2>2 DEF SaidIsDurable
<1>8. ASSUME NEW q \in Recorder PROVE RecordProgress(q)'
  <2>1. CASE q = p
    BY <1>1, <1>4, <2>1 DEF RecordProgress, TrailInv
  <2>2. CASE q # p
    BY <1>4, <2>2 DEF RecordProgress
  <2> QED BY <2>1, <2>2
<1> QED BY <1>5, <1>6, <1>7, <1>8 DEF TrailInv

\* An answer is given for the last line, which is on disk under its name.
LEMMA SyncDirectoryKeeps ==
  ASSUME RecordBounds, TrailInv, NEW p \in Recorder, O!SyncDirectory(p)
  PROVE  TrailInv'
<1> DEFINE line == at[p].line
           tell == Append(said, line)
<1>1. /\ at[p].step = "synced" /\ named' = TRUE /\ said' = tell /\ O!Leave(p)
      /\ UNCHANGED <<trail, durable, marker, unsure, spent>>
  BY DEF O!SyncDirectory
<1>2. RecordShape /\ TrailNumbered /\ SaidIsDurable /\ Len(said) \in Nat /\ Len(trail) \in Nat
  BY RecordFacts DEF TrailInv
<1>3. unsure = {} /\ line \in Nat
  BY <1>1, InsideAlone
<1>4. /\ latch' = None /\ at' \in [Recorder -> [step : RecordStep, line : Nat]]
      /\ \A q \in Recorder : at'[q].step = "idle"
  BY <1>1, LeaveFrees
<1>5. /\ Len(trail) > 0 /\ ~trail[Len(trail)].torn /\ trail[Len(trail)].line = line
      /\ durable = Len(trail) /\ \A i \in 1 .. Len(said) : said[i] < line
  BY <1>1 DEF TrailInv, RecordProgress
<1>6. /\ tell \in Seq(Nat) /\ Len(tell) = Len(said) + 1 /\ tell[Len(said) + 1] = line
      /\ \A i \in 1 .. Len(said) : tell[i] = said[i]
  BY <1>2, <1>3, AppendProperties DEF RecordShape
<1> HIDE DEF tell, line
<1>7. \A i \in 1 .. Len(tell) : \E k \in 1 .. durable : ~trail[k].torn /\ trail[k].line = tell[i]
  <2> TAKE i \in 1 .. Len(tell)
  <2>1. CASE i = Len(said) + 1
    <3>1. Len(trail) \in 1 .. durable
      BY <1>2, <1>5
    <3> QED BY <1>5, <1>6, <2>1, <3>1
  <2>2. CASE i # Len(said) + 1
    <3>1. i \in 1 .. Len(said) /\ tell[i] = said[i]
      BY <1>2, <1>6, <2>2
    <3> QED BY <1>2, <3>1 DEF SaidIsDurable
  <2> QED BY <2>1, <2>2
<1>8. \A i, j \in 1 .. Len(tell) : i < j => tell[i] < tell[j]
  <2> SUFFICES ASSUME NEW i \in 1 .. Len(tell), NEW j \in 1 .. Len(tell), i < j
               PROVE  tell[i] < tell[j]
    OBVIOUS
  <2>1. i \in 1 .. Len(said) /\ tell[i] = said[i] /\ (j = Len(said) + 1 \/ j \in 1 .. Len(said))
    BY <1>2, <1>6
  <2> QED BY <1>2, <1>5, <1>6, <2>1 DEF SaidIsDurable
<1>9. SaidIsDurable'
  BY <1>1, <1>7, <1>8 DEF SaidIsDurable
<1>10. TrailNumbered'
  BY <1>1, <1>2 DEF TrailNumbered, LineAt
<1>11. UnsureIsLast'
  BY <1>1, <1>3 DEF UnsureIsLast
<1>12. /\ trail' \in Seq(TrailLine) /\ durable' \in 0 .. Len(trail') /\ marker' \in BOOLEAN
       /\ spent' \in [lines : Nat, receipts : Nat, faults : Nat]
  BY <1>1, <1>2 DEF RecordShape
<1>13. named' \in BOOLEAN
  BY <1>1
<1>14. said' \in Seq(Nat)
  BY <1>1, <1>6
<1> QED BY <1>4, <1>9, <1>10, <1>11, <1>12, <1>13, <1>14, NobodyInside

\* A sync that fails marks the trail, and the line in doubt is its last one.
LEMMA SyncFailsKeeps ==
  ASSUME RecordBounds, MarkerFails = FALSE, TrailInv, NEW p \in Recorder, O!SyncFails(p)
  PROVE  TrailInv'
<1> DEFINE line == at[p].line
<1>1. /\ at[p].step \in {"written", "synced"} /\ marker' = TRUE
      /\ unsure' = unsure \cup {line} /\ O!Leave(p) /\ O!Fault
      /\ UNCHANGED <<trail, durable, named, said>>
  BY DEF O!SyncFails, O!Mark
<1>2. RecordShape /\ TrailNumbered /\ SaidIsDurable /\ Len(trail) \in Nat
  BY RecordFacts DEF TrailInv
<1>3. unsure = {} /\ line \in Nat
  BY <1>1, InsideAlone
<1>4. /\ latch' = None /\ at' \in [Recorder -> [step : RecordStep, line : Nat]]
      /\ \A q \in Recorder : at'[q].step = "idle"
  BY <1>1, LeaveFrees
<1>5. Len(trail) > 0 /\ ~trail[Len(trail)].torn /\ trail[Len(trail)].line = line
  BY <1>1 DEF TrailInv, RecordProgress
<1>6. spent' \in [lines : Nat, receipts : Nat, faults : Nat] /\ spent'.lines = spent.lines
  BY <1>1, FaultSpends
<1> HIDE DEF line
<1>7. TrailNumbered' /\ SaidIsDurable'
  BY <1>1, <1>2, <1>6 DEF TrailNumbered, SaidIsDurable, LineAt
<1>8. UnsureIsLast'
  <2>1. line # 0 /\ \A i \in 1 .. Len(trail) : trail[i].line = line => i = Len(trail)
    <3>1. Len(trail) \in 1 .. Len(trail)
      BY <1>2, <1>5
    <3>2. trail[Len(trail)].line \in 1 .. spent.lines
      BY <1>2, <1>5, <3>1 DEF TrailNumbered
    <3>3. ASSUME NEW i \in 1 .. Len(trail), trail[i].line = line PROVE i = Len(trail)
      <4>1. i < Len(trail) => trail[i].line < trail[Len(trail)].line
        BY <1>2, <1>5, <3>1 DEF TrailNumbered
      <4> QED BY <1>2, <1>3, <1>5, <3>3, <4>1
    <3> QED BY <1>5, <3>2, <3>3
  <2>2. unsure' = {line}
    BY <1>1, <1>3
  <2> QED BY <1>1, <1>4, <2>1, <2>2 DEF UnsureIsLast
<1>9. /\ trail' \in Seq(TrailLine) /\ durable' \in 0 .. Len(trail') /\ named' \in BOOLEAN
      /\ said' \in Seq(Nat)
  BY <1>1, <1>2 DEF RecordShape
<1>10. marker' \in BOOLEAN
  BY <1>1
<1> QED BY <1>4, <1>6, <1>7, <1>8, <1>9, <1>10, NobodyInside

\* The first n lines of the trail.
LEMMA CutFacts ==
  ASSUME RecordShape, NEW n \in 0 .. Len(trail)
  PROVE  LET u == SubSeq(trail, 1, n) IN
         /\ u \in Seq(TrailLine) /\ Len(u) = n /\ \A i \in 1 .. n : u[i] = trail[i]
<1> DEFINE u == SubSeq(trail, 1, n)
<1>1. \A i \in 1 .. n : trail[i] \in TrailLine
  BY RecordFacts
<1>2. /\ u \in Seq(TrailLine) /\ Len(u) = IF 1 <= n THEN n - 1 + 1 ELSE 0
      /\ \A i \in 1 .. n - 1 + 1 : u[i] = trail[1 + i - 1]
  BY <1>1, SubSeqProperties, n \in Int, 1 \in Int
<1>3. n \in Nat
  BY RecordFacts
<1> QED BY <1>2, <1>3

\* A loss of power takes nothing that was answered for.
LEMMA PowerLossKeepsTrail ==
  ASSUME RecordBounds, TrailInv, O!PowerLoss
  PROVE  TrailInv'
<1>1. /\ durable' = Len(trail') /\ marker' \in {marker, FALSE} /\ named' = (trail' # <<>>)
      /\ latch' = None /\ at' = [p \in Recorder |-> O!Idle] /\ unsure' = {} /\ said' = said
      /\ O!Fault
  BY DEF O!PowerLoss
<1>2. RecordShape /\ TrailNumbered /\ SaidIsDurable /\ Len(said) \in Nat /\ Len(trail) \in Nat
      /\ durable \in 0 .. Len(trail)
  BY RecordFacts DEF TrailInv, RecordShape
<1>3. /\ at' \in [Recorder -> [step : RecordStep, line : Nat]]
      /\ \A q \in Recorder : at'[q].step = "idle"
  BY <1>1 DEF O!Idle, RecordStep
<1>4. spent' \in [lines : Nat, receipts : Nat, faults : Nat] /\ spent'.lines = spent.lines
  BY <1>1, FaultSpends
<1>5. said # <<>> => named /\ durable > 0
  <2> SUFFICES ASSUME said # <<>> PROVE durable > 0
    BY <1>2 DEF SaidIsDurable
  <2>1. 1 \in 1 .. Len(said)
    BY <1>2, EmptySeq DEF RecordShape
  <2> QED BY <1>2, <2>1 DEF SaidIsDurable
<1>6. PICK n \in 0 .. Len(trail) :
        \/ n >= durable /\ trail' = SubSeq(trail, 1, n)
        \/ n >= durable /\ n < Len(trail) /\ trail' = Append(SubSeq(trail, 1, n), O!Torn)
        \/ n = 0 /\ ~named /\ trail' = <<>>
  <2>1. \/ \E n \in durable .. Len(trail) :
             \/ trail' = SubSeq(trail, 1, n)
             \/ n < Len(trail) /\ trail' = Append(SubSeq(trail, 1, n), O!Torn)
        \/ ~named /\ trail' = <<>>
    BY DEF O!PowerLoss
  <2>2. /\ 0 \in 0 .. Len(trail)
        /\ \A n \in durable .. Len(trail) : n \in 0 .. Len(trail) /\ n >= durable
    BY <1>2
  <2> QED BY <2>1, <2>2
<1> DEFINE c == SubSeq(trail, 1, n)
<1>7. /\ c \in Seq(TrailLine) /\ Len(c) = n /\ \A i \in 1 .. n : c[i] = trail[i]
      /\ n \in Nat
  BY <1>2, CutFacts
<1> HIDE DEF c
<1>8. trail' \in Seq(TrailLine) /\ TrailNumbered' /\ SaidIsDurable'
  <2>1. CASE n >= durable /\ trail' = c
    <3>1. said # <<>> => named'
      <4>1. said # <<>> => Len(c) > 0
        BY <1>2, <1>5, <1>7, <2>1
      <4>2. c = <<>> => Len(c) = 0
        BY EmptySeq
      <4>3. said # <<>> => c # <<>>
        BY <4>1, <4>2
      <4> QED BY <1>1, <2>1, <4>3
    <3>2. n \in durable .. Len(trail) /\ durable' \in durable .. Len(c)
      BY <1>1, <1>2, <1>7, <2>1
    <3> QED BY <1>1, <1>4, <1>7, <2>1, <3>1, <3>2, CutKeeps
  <2>2. CASE n >= durable /\ n < Len(trail) /\ trail' = Append(c, O!Torn)
    <3> DEFINE u == Append(c, O!Torn)
    <3>1. /\ u \in Seq(TrailLine) /\ Len(u) = n + 1 /\ \A i \in 1 .. n : u[i] = c[i]
          /\ u[n + 1] = [line |-> 0, prev |-> 0, torn |-> TRUE]
      BY <1>7, HalfLine
    <3> HIDE DEF u
    <3>2. \A i \in 1 .. n : u[i] = trail[i] /\ ~trail[i].torn
      <4>1. \A i \in 1 .. n : u[i] = trail[i]
        BY <1>7, <3>1
      <4>2. \A i \in 1 .. n : i \in 1 .. Len(trail) /\ i # Len(trail)
        BY <1>2, <2>2
      <4>3. \A i \in 1 .. n : ~trail[i].torn
        BY <1>2, <4>2 DEF TrailNumbered
      <4> QED BY <4>1, <4>3
    <3>3. trail' = u /\ u # <<>>
      BY <1>7, <2>2, <3>1, EmptySeq DEF u
    <3>4. n \in durable .. Len(trail) /\ durable' \in durable .. Len(u) /\ (said # <<>> => named')
      <4>1. n \in durable .. Len(trail) /\ durable' \in durable .. Len(u)
        BY <1>1, <1>2, <1>7, <2>2, <3>1, <3>3
      <4>2. named' = TRUE
        BY <1>1, <3>3
      <4> QED BY <4>1, <4>2
    <3> QED BY <1>1, <1>4, <3>1, <3>2, <3>3, <3>4, CutKeeps
  <2>3. CASE n = 0 /\ ~named /\ trail' = <<>>
    <3>1. /\ trail' = <<>> /\ Len(trail') = 0 /\ said = <<>> /\ Len(said) = 0
          /\ trail' \in Seq(TrailLine)
      BY <1>5, <2>3, EmptySeq
    <3> QED BY <1>1, <3>1 DEF TrailNumbered, SaidIsDurable
  <2> QED BY <1>6, <2>1, <2>2, <2>3 DEF c
<1>9. durable' \in 0 .. Len(trail') /\ named' \in BOOLEAN /\ said' \in Seq(Nat)
  <2>1. Len(trail') \in Nat
    BY <1>8, LenProperties
  <2>2. durable' \in 0 .. Len(trail')
    BY <1>1, <2>1
  <2> QED BY <1>1, <1>2, <2>2 DEF RecordShape
<1>10. marker' \in BOOLEAN
  BY <1>1, <1>2 DEF RecordShape
<1>11. UnsureIsLast'
  BY <1>1 DEF UnsureIsLast
<1> QED BY <1>1, <1>3, <1>4, <1>8, <1>9, <1>10, <1>11, NobodyInside

\* An operator cuts off half a line, for which nothing was answered.
LEMMA InspectKeeps ==
  ASSUME RecordBounds, TrailInv, O!Inspect
  PROVE  TrailInv'
<1>1. PICK n \in 0 .. Len(trail) :
        /\ \A i \in 1 .. n : ~trail[i].torn
        /\ n < Len(trail) => trail[n + 1].torn
        /\ trail' = SubSeq(trail, 1, n)
  BY DEF O!Inspect
<1>2. /\ latch = None /\ durable' = Len(trail') /\ marker' = FALSE /\ unsure' = {}
      /\ UNCHANGED <<named, latch, at, said, spent>>
  BY DEF O!Inspect
<1>3. RecordShape /\ TrailNumbered /\ SaidIsDurable /\ Len(said) \in Nat /\ Len(trail) \in Nat
      /\ durable \in 0 .. Len(trail)
  BY RecordFacts DEF TrailInv, RecordShape
<1> DEFINE c == SubSeq(trail, 1, n)
<1>4. /\ c \in Seq(TrailLine) /\ Len(c) = n /\ \A i \in 1 .. n : c[i] = trail[i]
      /\ n \in Nat /\ trail' = c
  BY <1>1, <1>3, CutFacts
<1> HIDE DEF c
\* Only the last line is half there, and nothing was answered for it.
<1>5. ASSUME NEW i \in 1 .. Len(said)
      PROVE  \E k \in 1 .. n : ~trail[k].torn /\ trail[k].line = said[i]
  <2>1. PICK k \in 1 .. durable : ~trail[k].torn /\ trail[k].line = said[i]
    BY <1>3 DEF SaidIsDurable
  <2>2. k \in 1 .. Len(trail) /\ k \in Nat
    BY <1>3
  <2>3. k <= n
    <3> SUFFICES ASSUME k > n PROVE FALSE
      BY <1>4, <2>2
    <3>1. n + 1 \in 1 .. Len(trail) /\ n < Len(trail) /\ trail[n + 1].torn
      BY <1>1, <1>3, <1>4, <2>2
    <3>2. n + 1 = Len(trail)
      BY <1>3, <3>1 DEF TrailNumbered
    <3>3. k = n + 1
      BY <1>4, <2>2, <3>2
    <3> QED BY <2>1, <3>1, <3>3
  <2> QED BY <1>4, <2>1, <2>2, <2>3
<1>6. SaidIsDurable'
  <2>1. \A i \in 1 .. Len(said) : \E k \in 1 .. durable' : ~c[k].torn /\ c[k].line = said[i]
    <3> TAKE i \in 1 .. Len(said)
    <3>1. PICK k \in 1 .. n : ~trail[k].torn /\ trail[k].line = said[i]
      BY <1>5
    <3>2. k \in 1 .. durable' /\ c[k] = trail[k]
      BY <1>2, <1>4
    <3> QED BY <3>1, <3>2
  <2> QED BY <1>2, <1>3, <1>4, <2>1 DEF SaidIsDurable
<1>7. TrailNumbered'
  <2>1. ASSUME NEW i \in 1 .. n
        PROVE  ~c[i].torn /\ c[i].line \in 1 .. spent.lines /\ c[i].prev = LineAt(c, i - 1)
    <3>1. i \in 1 .. Len(trail) /\ c[i] = trail[i] /\ ~trail[i].torn
      BY <1>1, <1>3, <1>4
    <3>2. trail[i].line \in 1 .. spent.lines /\ trail[i].prev = LineAt(trail, i - 1)
      BY <1>3, <3>1 DEF TrailNumbered
    <3>3. LineAt(trail, i - 1) = LineAt(c, i - 1)
      BY <1>4 DEF LineAt
    <3> QED BY <3>1, <3>2, <3>3
  <2>2. \A i, j \in 1 .. n : i < j => c[i].line < c[j].line
    <3> SUFFICES ASSUME NEW i \in 1 .. n, NEW j \in 1 .. n, i < j PROVE c[i].line < c[j].line
      OBVIOUS
    <3>1. i \in 1 .. Len(trail) /\ j \in 1 .. Len(trail) /\ ~trail[j].torn
      BY <1>1, <1>3, <1>4
    <3> QED BY <1>3, <1>4, <3>1 DEF TrailNumbered
  <2> QED BY <1>2, <1>4, <2>1, <2>2 DEF TrailNumbered, LineAt
<1>8. UnsureIsLast'
  BY <1>2 DEF UnsureIsLast
<1>9. durable' \in 0 .. Len(trail') /\ trail' \in Seq(TrailLine)
  BY <1>2, <1>4
<1>10. /\ at' \in [Recorder -> [step : RecordStep, line : Nat]] /\ latch' = None
       /\ \A q \in Recorder : at'[q].step = "idle"
  BY <1>2, <1>3 DEF RecordShape, RecordBounds
<1>11. /\ named' \in BOOLEAN /\ said' \in Seq(Nat)
       /\ spent' \in [lines : Nat, receipts : Nat, faults : Nat]
  BY <1>2, <1>3 DEF RecordShape
<1>12. marker' \in BOOLEAN
  BY <1>2
<1> QED BY <1>6, <1>7, <1>8, <1>9, <1>10, <1>11, <1>12, NobodyInside

\* The receipts of a process leave the trail alone.
LEMMA ReceiptsLeaveTrail ==
  ASSUME TrailInv, NEW p \in Recorder,
         O!LoadReceipts(p) \/ O!WriteReceipt(p) \/ O!TearReceipt(p)
  PROVE  TrailInv'
<1>1. UNCHANGED O!trailVars
  BY DEF O!LoadReceipts, O!WriteReceipt, O!TearReceipt
<1>2. spent \in [lines : Nat, receipts : Nat, faults : Nat]
  BY DEF TrailInv, RecordShape
<1>3. \/ spent' = spent
      \/ spent' = [spent EXCEPT !.receipts = @ + 1]
      \/ spent' = [spent EXCEPT !.receipts = @ + 1, !.faults = @ + 1]
  BY DEF O!LoadReceipts, O!WriteReceipt, O!TearReceipt
<1>4. spent' \in [lines : Nat, receipts : Nat, faults : Nat] /\ spent'.lines = spent.lines
  <2>1. CASE spent' = spent
    BY <1>2, <2>1
  <2>2. CASE spent' = [spent EXCEPT !.receipts = @ + 1]
    BY <1>2, <2>2
  <2>3. CASE spent' = [spent EXCEPT !.receipts = @ + 1, !.faults = @ + 1]
    <3> DEFINE s == [spent EXCEPT !.receipts = @ + 1]
    <3>1. s \in [lines : Nat, receipts : Nat, faults : Nat] /\ s.lines = spent.lines
          /\ s.faults = spent.faults
      BY <1>2
    <3>2. spent' = [s EXCEPT !.faults = @ + 1]
      BY <1>2, <2>3, Zenon
    <3> HIDE DEF s
    <3> QED BY <3>1, <3>2
  <2> QED BY <1>3, <2>1, <2>2, <2>3
<1> QED BY <1>1, <1>4, TrailAlone

\* Every step of the records keeps the trail's invariant.
LEMMA TrailStepKeeps ==
  ASSUME RecordBounds, MarkerFails = FALSE, TrailInv, [O!Next]_(O!vars)
  PROVE  TrailInv'
<1>1. CASE UNCHANGED O!vars
  <2>1. UNCHANGED O!trailVars /\ spent' = spent
    BY <1>1 DEF O!vars
  <2>2. spent \in [lines : Nat, receipts : Nat, faults : Nat]
    BY DEF TrailInv, RecordShape
  <2> QED BY <2>1, <2>2, TrailAlone
<1>2. ASSUME NEW p \in Recorder, O!Begin(p) PROVE TrailInv'
  BY <1>2, BeginKeeps
<1>3. ASSUME NEW p \in Recorder, O!WriteLine(p) PROVE TrailInv'
  BY <1>3, WriteLineKeeps
<1>4. ASSUME NEW p \in Recorder, O!WriteFails(p) \/ O!Die(p) PROVE TrailInv'
  BY <1>4, WriteFailsKeeps
<1>5. ASSUME NEW p \in Recorder, O!SyncFile(p) PROVE TrailInv'
  BY <1>5, SyncFileKeeps
<1>6. ASSUME NEW p \in Recorder, O!SyncDirectory(p) PROVE TrailInv'
  BY <1>6, SyncDirectoryKeeps
<1>7. ASSUME NEW p \in Recorder, O!SyncFails(p) PROVE TrailInv'
  BY <1>7, SyncFailsKeeps
<1>8. ASSUME NEW p \in Recorder, O!LoadReceipts(p) \/ O!WriteReceipt(p) \/ O!TearReceipt(p)
      PROVE TrailInv'
  BY <1>8, ReceiptsLeaveTrail
<1>9. CASE O!PowerLoss
  BY <1>9, PowerLossKeepsTrail
<1>10. CASE O!Inspect
  BY <1>10, InspectKeeps
<1> QED BY <1>1, <1>2, <1>3, <1>4, <1>5, <1>6, <1>7, <1>8, <1>9, <1>10 DEF O!Next

\* A trail whose lines are numbered upwards keeps what was answered for, in
\* the order of the answers.
LEMMA TrailIsKept ==
  ASSUME TrailInv
  PROVE  O!RecordedIsKept /\ O!FailsClosed
<1>1. /\ RecordShape /\ TrailNumbered /\ SaidIsDurable /\ UnsureIsLast
      /\ Len(trail) \in Nat /\ DOMAIN trail = 1 .. Len(trail)
      /\ \A i \in 1 .. Len(trail) : trail[i] \in TrailLine
      /\ Len(said) \in Nat /\ DOMAIN said = 1 .. Len(said)
      /\ durable \in 0 .. Len(trail)
  BY RecordFacts DEF TrailInv, RecordShape
\* The place of a line that was answered for.
<1>2. ASSUME NEW i \in 1 .. Len(said)
      PROVE  /\ O!PlaceOf(said[i]) \in 1 .. Len(trail) /\ ~trail[O!PlaceOf(said[i])].torn
             /\ trail[O!PlaceOf(said[i])].line = said[i]
  <2>1. PICK k \in 1 .. durable : ~trail[k].torn /\ trail[k].line = said[i]
    BY <1>1 DEF SaidIsDurable
  <2>2. k \in 1 .. Len(trail)
    BY <1>1
  <2>3. said[i] \in 1 .. spent.lines
    BY <1>1, <2>1, <2>2 DEF TrailNumbered
  <2>9. said[i] # 0
    <3>1. spent.lines \in Nat
      BY <1>1 DEF RecordShape
    <3> QED BY <2>3, <3>1
  <2>4. O!PlaceOf(said[i]) \in 1 .. Len(trail) /\ trail[O!PlaceOf(said[i])].line = said[i]
    BY <1>1, <2>1, <2>2 DEF O!PlaceOf
  <2> DEFINE a == O!PlaceOf(said[i])
  <2> HIDE DEF a
  <2>5. a \in 1 .. Len(trail) /\ trail[a].line = said[i]
    BY <2>4 DEF a
  <2>6. ~trail[a].torn
    BY <1>1, <2>9, <2>5 DEF TrailNumbered
  <2> QED BY <2>5, <2>6 DEF a
<1>3. ASSUME NEW i \in 1 .. Len(said), i > 1
      PROVE  O!PlaceOf(said[i - 1]) < O!PlaceOf(said[i])
  <2> DEFINE a == O!PlaceOf(said[i - 1])
             b == O!PlaceOf(said[i])
  <2>1. i - 1 \in 1 .. Len(said) /\ i - 1 < i
    BY <1>1, <1>3
  <2>2. /\ a \in 1 .. Len(trail) /\ ~trail[a].torn /\ trail[a].line = said[i - 1]
        /\ b \in 1 .. Len(trail) /\ ~trail[b].torn /\ trail[b].line = said[i]
    BY <1>2, <2>1
  <2>3. said[i - 1] < said[i]
    BY <1>1, <2>1 DEF SaidIsDurable
  <2>4. said[i - 1] \in Nat /\ said[i] \in Nat
    BY <1>1, <2>1, RecordFacts
  <2> HIDE DEF a, b
  <2>5. ~(b < a)
    <3>1. b < a => trail[b].line < trail[a].line
      BY <1>1, <2>2 DEF TrailNumbered
    <3>2. ~(said[i] < said[i - 1])
      BY <2>3, <2>4
    <3> QED BY <2>2, <3>1, <3>2
  <2>6. a # b
    BY <2>2, <2>3, <2>4
  <2>7. a < b
    BY <1>1, <2>2, <2>5, <2>6
  <2> QED BY <2>7 DEF a, b
<1>4. \A i \in DOMAIN trail :
        IF trail[i].torn THEN i = Len(trail)
        ELSE trail[i].prev = O!Tip(SubSeq(trail, 1, i - 1))
  <2> TAKE i \in DOMAIN trail
  <2>1. i \in 1 .. Len(trail) /\ i - 1 \in 0 .. Len(trail) /\ trail \in Seq(TrailLine)
    BY <1>1 DEF RecordShape
  <2>2. O!Tip(SubSeq(trail, 1, i - 1)) = LineAt(trail, i - 1)
    BY <2>1, TipIsLineAt
  <2> QED BY <1>1, <2>1, <2>2 DEF TrailNumbered
<1>5. \A i \in 1 .. Len(said) : \E l \in O!Range(trail) : l.line = said[i]
  BY <1>1, <1>2 DEF O!Range
<1>6. O!RecordedIsKept
  BY <1>1, <1>3, <1>4, <1>5 DEF O!RecordedIsKept
<1>7. O!FailsClosed
  BY <1>1 DEF O!FailsClosed, UnsureIsLast
<1> QED BY <1>6, <1>7

-----------------------------------------------------------------------------
(* The receipts.                                                           *)

ReceiptFile == [seq : Nat, prev : Nat, id : Nat, torn : BOOLEAN]
Whole == {r \in receipts : ~r.torn}

ReceiptShape ==
  /\ receipts \subseteq ReceiptFile /\ IsFiniteSet(receipts)
  /\ Cardinality(receipts) <= spent.receipts /\ spent.receipts <= MaxLines
  /\ \A r \in receipts : r.id \in 1 .. spent.receipts /\ r.seq \in 1 .. MaxLines
  /\ \A r, s \in receipts : r.id = s.id => r = s
  /\ told \in Seq(Nat) /\ DOMAIN reading = Recorder

\* The answers are the whole receipts, one answer each and upwards.
ToldAreWhole ==
  /\ Len(told) = Cardinality(Whole)
  /\ \A r \in Whole : \E j \in 1 .. Len(told) : told[j] = r.id
  /\ \A j \in 1 .. Len(told) : told[j] <= spent.receipts
  /\ \A i, j \in 1 .. Len(told) : i < j => told[i] < told[j]

\* A place that was taken was free when it was read: it is no later than the
\* answer's.
PlacesAreEarly ==
  /\ \A r \in Whole : \A j \in 1 .. Len(told) : told[j] = r.id => r.seq <= j
  /\ \A p \in Recorder : reading[p] # None =>
       reading[p].seq \in 1 .. MaxLines /\ reading[p].prev \in Nat
         /\ reading[p].seq <= Len(told) + 1

\* The inductive invariant of the receipts.
ReceiptInv == ReceiptShape /\ ToldAreWhole /\ PlacesAreEarly

\* Every non-empty set of numbers has a least one.
LEMMA LeastNumber ==
  ASSUME NEW T \in SUBSET Nat, T # {}
  PROVE  \E m \in T : \A k \in T : m <= k
<1>1. PICK m \in T : \A k \in T : ~(<<k, m>> \in OpToRel(<, Nat))
  BY NatLessThanWellFounded, WFMin
<1>2. \A k \in T : ~(k < m)
  BY <1>1 DEF OpToRel
<1> QED BY <1>2

\* The only way to give n places to n takers, none of them a place before its
\* own, is to give each its own.
LEMMA EarlyPlacesAreOwn ==
  ASSUME NEW n \in Nat, NEW f \in [1 .. n -> 1 .. n],
         \A i \in 1 .. n : i <= f[i],
         \A i, j \in 1 .. n : f[i] = f[j] => i = j
  PROVE  \A i \in 1 .. n : f[i] = i
<1> SUFFICES ASSUME NEW a \in 1 .. n, f[a] # a PROVE FALSE
  OBVIOUS
<1> DEFINE T == {k \in Nat : n - k \in 1 .. n /\ f[n - k] # n - k}
<1>1. n - a \in Nat /\ n - (n - a) = a
  OBVIOUS
<1>2. n - a \in T
  BY <1>1
<1>3. PICK m \in T : \A k \in T : m <= k
  BY <1>2, LeastNumber
<1> DEFINE i == n - m
<1>4. i \in 1 .. n /\ f[i] # i /\ i < f[i] /\ f[i] \in 1 .. n
  BY <1>3
<1>5. f[f[i]] = f[i]
  <2> SUFFICES ASSUME f[f[i]] # f[i] PROVE FALSE
    OBVIOUS
  <2> DEFINE k == n - f[i]
  <2>1. k \in Nat /\ n - k = f[i] /\ k < m
    BY <1>3, <1>4
  <2>2. k \in T
    BY <1>4, <2>1
  <2> QED BY <1>3, <2>1, <2>2
<1> QED BY <1>4, <1>5

\* Counting is the same through the instance.
LEMMA SameFileCount ==
  ASSUME NEW T
  PROVE  O!Cardinality(T) = Cardinality(T)
BY DEF O!Cardinality, Cardinality

\* An order of the receipts lists them all.
LEMMA OrderFacts ==
  ASSUME IsFiniteSet(receipts), NEW s \in O!InOrder(receipts)
  PROVE  /\ Cardinality(receipts) \in Nat /\ Len(s) = Cardinality(receipts)
         /\ DOMAIN s = 1 .. Len(s) /\ \A i \in 1 .. Len(s) : s[i] \in receipts
         /\ \A i, j \in 1 .. Len(s) : i # j => s[i] # s[j]
<1> DEFINE n == Cardinality(receipts)
<1>1. n \in Nat
  BY FS_CardinalityType
<1>2. s \in [1 .. n -> receipts] /\ \A i, j \in DOMAIN s : i # j => s[i] # s[j]
  BY SameFileCount DEF O!InOrder
<1> HIDE DEF n
<1>3. s \in Seq(receipts)
  BY <1>1, <1>2, SeqDef
<1>4. Len(s) \in Nat /\ DOMAIN s = 1 .. Len(s)
  BY <1>3, LenProperties
<1>5. Len(s) = n
  <2>1. 1 .. Len(s) = 1 .. n
    BY <1>2, <1>4
  <2> DEFINE m == Len(s)
  <2> HIDE DEF m
  <2>2. m \in Nat /\ 1 .. m = 1 .. n
    BY <1>4, <2>1 DEF m
  <2>3. m < n => n \in 1 .. n /\ n \notin 1 .. m
    BY <1>1, <2>2
  <2>4. n < m => m \in 1 .. m /\ m \notin 1 .. n
    BY <1>1, <2>2
  <2>5. m = n
    BY <1>1, <2>2, <2>3, <2>4
  <2> QED BY <2>5 DEF m
<1> QED BY <1>1, <1>2, <1>4, <1>5 DEF n

\* An empty directory of receipts satisfies the invariant.
LEMMA ReceiptStarts == RecordBounds /\ O!Init => ReceiptInv
<1> SUFFICES ASSUME RecordBounds, O!Init PROVE ReceiptInv
  OBVIOUS
<1>1. /\ receipts = {} /\ told = <<>> /\ reading = [p \in Recorder |-> None]
      /\ spent.receipts = 0 /\ MaxLines \in Nat
  BY DEF O!Init, RecordBounds
<1>2. Len(told) = 0 /\ told \in Seq(Nat)
  BY <1>1, EmptySeq
<1>3. Whole = {}
  BY <1>1 DEF Whole
<1>4. IsFiniteSet({}) /\ Cardinality({}) = 0
  BY FS_EmptySet
<1>5. ReceiptShape
  BY <1>1, <1>2, <1>4 DEF ReceiptShape
<1>6. ToldAreWhole
  BY <1>1, <1>2, <1>3, <1>4 DEF ToldAreWhole
<1>7. PlacesAreEarly
  BY <1>1, <1>3 DEF PlacesAreEarly
<1> QED BY <1>5, <1>6, <1>7 DEF ReceiptInv

\* A step of the trail leaves the receipts alone; a loss of power forgets what
\* was being read.
LEMMA ReceiptsAlone ==
  ASSUME ReceiptInv, receipts' = receipts, told' = told, spent'.receipts = spent.receipts,
         reading' = reading \/ reading' = [p \in Recorder |-> None]
  PROVE  ReceiptInv'
<1>1. ReceiptShape'
  BY DEF ReceiptInv, ReceiptShape
<1>2. ToldAreWhole'
  BY DEF ReceiptInv, ToldAreWhole, Whole
<1>3. PlacesAreEarly'
  BY DEF ReceiptInv, PlacesAreEarly, Whole
<1> QED BY <1>1, <1>2, <1>3 DEF ReceiptInv

\* The receipts in numbers.
LEMMA ReceiptFacts ==
  ASSUME RecordBounds, RecordShape, ReceiptInv
  PROVE  /\ IsFiniteSet(Whole) /\ Cardinality(Whole) \in Nat
         /\ Cardinality(receipts) \in Nat /\ Cardinality(Whole) <= Cardinality(receipts)
         /\ Len(told) \in Nat /\ DOMAIN told = 1 .. Len(told) /\ Len(told) <= spent.receipts
         /\ \A j \in 1 .. Len(told) : told[j] \in Nat
         /\ spent.receipts \in Nat /\ MaxLines \in Nat
<1>1. IsFiniteSet(receipts) /\ Whole \subseteq receipts
  BY DEF ReceiptInv, ReceiptShape, Whole
<1>2. /\ IsFiniteSet(Whole) /\ Cardinality(Whole) <= Cardinality(receipts)
      /\ Cardinality(Whole) \in Nat /\ Cardinality(receipts) \in Nat
  BY <1>1, FS_Subset, FS_CardinalityType
<1>3. /\ Len(told) \in Nat /\ DOMAIN told = 1 .. Len(told)
      /\ \A j \in 1 .. Len(told) : told[j] \in Nat
  BY LenProperties, ElementOfSeq DEF ReceiptInv, ReceiptShape
<1>4. spent.receipts \in Nat /\ MaxLines \in Nat
  BY DEF RecordShape, RecordBounds
<1>5. Len(told) = Cardinality(Whole) /\ Cardinality(receipts) <= spent.receipts
  BY DEF ReceiptInv, ReceiptShape, ToldAreWhole
<1> QED BY <1>2, <1>3, <1>4, <1>5

\* The place taken is the one after all the receipts that were answered for.
LEMMA ReceiptLoadKeeps ==
  ASSUME RecordBounds, RecordShape, ReceiptInv, NEW p \in Recorder, O!LoadReceipts(p)
  PROVE  ReceiptInv'
<1>1. PICK s \in O!InOrder(receipts) :
        reading' = [reading EXCEPT ![p] =
            [seq |-> Len(s) + 1, prev |-> IF s = <<>> THEN 0 ELSE O!Last(s).id]]
  BY DEF O!LoadReceipts
<1>2. /\ \A r \in receipts : ~r.torn
      /\ spent.receipts < MaxLines /\ UNCHANGED <<receipts, told, spent>>
  BY DEF O!LoadReceipts, O!Loadable
<1>3. receipts = Whole
  BY <1>2 DEF Whole
<1>4. /\ Len(s) = Cardinality(receipts) /\ Cardinality(receipts) \in Nat
      /\ DOMAIN s = 1 .. Len(s) /\ \A i \in 1 .. Len(s) : s[i] \in receipts
  BY OrderFacts DEF ReceiptInv, ReceiptShape
<1>5. Len(s) = Len(told) /\ Len(s) + 1 \in 1 .. MaxLines
  <2>1. Len(told) = Cardinality(Whole)
    BY DEF ReceiptInv, ToldAreWhole
  <2> QED BY <1>2, <1>3, <1>4, <2>1, ReceiptFacts
<1> DEFINE prev == IF s = <<>> THEN 0 ELSE O!Last(s).id
<1>6. prev \in Nat
  <2>1. CASE Len(s) = 0
    <3>1. s = <<>>
      <4>1. s \in [1 .. 0 -> receipts]
        BY <1>4, <2>1, SameFileCount DEF O!InOrder
      <4> QED BY <4>1, SMT
    <3> QED BY <3>1
  <2>2. CASE Len(s) # 0
    <3>1. Len(s) \in 1 .. Len(s)
      BY <1>4, <2>2
    <3>2. s[Len(s)] \in ReceiptFile
      BY <1>4, <3>1 DEF ReceiptInv, ReceiptShape
    <3>3. O!Last(s).id \in Nat
      BY <3>2 DEF O!Last, ReceiptFile
    <3> QED BY <3>3
  <2> QED BY <2>1, <2>2
<1> HIDE DEF prev
<1>7. DOMAIN reading = Recorder
  BY DEF ReceiptInv, ReceiptShape
<1>8. /\ DOMAIN reading' = Recorder
      /\ reading'[p] = [seq |-> Len(s) + 1, prev |-> prev]
      /\ \A q \in Recorder : q # p => reading'[q] = reading[q]
  BY <1>1, <1>7 DEF prev
<1>9. ReceiptShape'
  BY <1>2, <1>8 DEF ReceiptInv, ReceiptShape
<1>10. ToldAreWhole'
  BY <1>2 DEF ReceiptInv, ToldAreWhole, Whole
<1>11. PlacesAreEarly'
  <2>1. reading'[p].seq = Len(told) + 1 /\ reading'[p].prev = prev
    BY <1>5, <1>8
  <2>2. Whole' = Whole
    BY <1>2 DEF Whole
  <2>3. Len(told) + 1 <= Len(told) + 1
    BY ReceiptFacts
  <2> QED BY <1>2, <1>5, <1>6, <1>8, <2>1, <2>2, <2>3 DEF ReceiptInv, PlacesAreEarly
<1> QED BY <1>9, <1>10, <1>11 DEF ReceiptInv

\* The files after one is added.
LEMMA AddReceipt ==
  ASSUME RecordBounds, RecordShape, ReceiptInv, NEW new \in ReceiptFile,
         new.id = spent.receipts + 1, new.seq \in 1 .. MaxLines, spent.receipts < MaxLines,
         receipts' = receipts \cup {new}, spent'.receipts = spent.receipts + 1
  PROVE  /\ receipts' \subseteq ReceiptFile /\ IsFiniteSet(receipts')
         /\ Cardinality(receipts') <= spent'.receipts /\ spent'.receipts <= MaxLines
         /\ \A r \in receipts' : r.id \in 1 .. spent'.receipts /\ r.seq \in 1 .. MaxLines
         /\ \A r, s \in receipts' : r.id = s.id => r = s
         /\ new \notin receipts
<1>1. /\ receipts \subseteq ReceiptFile /\ IsFiniteSet(receipts)
      /\ Cardinality(receipts) <= spent.receipts /\ spent.receipts <= MaxLines
      /\ \A r \in receipts : r.id \in 1 .. spent.receipts /\ r.seq \in 1 .. MaxLines
      /\ \A r, s \in receipts : r.id = s.id => r = s
  BY DEF ReceiptInv, ReceiptShape
<1>2. spent.receipts \in Nat /\ MaxLines \in Nat
  BY ReceiptFacts
<1>3. \A r \in receipts : r.id # new.id
  BY <1>1, <1>2
<1>4. new \notin receipts
  BY <1>3
<1>5. /\ IsFiniteSet(receipts \cup {new})
      /\ Cardinality(receipts \cup {new}) = Cardinality(receipts) + 1
      /\ Cardinality(receipts) \in Nat
  BY <1>1, <1>4, FS_AddElement, FS_CardinalityType
<1>6. Cardinality(receipts') <= spent'.receipts /\ spent'.receipts <= MaxLines
  BY <1>1, <1>2, <1>5
<1>7. \A r \in receipts' : r.id \in 1 .. spent'.receipts /\ r.seq \in 1 .. MaxLines
  BY <1>1, <1>2
<1>8. \A r, s \in receipts' : r.id = s.id => r = s
  BY <1>1, <1>3
<1> QED BY <1>1, <1>4, <1>5, <1>6, <1>7, <1>8

\* A receipt is written under a name of its own and answered for.
LEMMA ReceiptWriteKeeps ==
  ASSUME RecordBounds, RecordShape, ReceiptInv, NEW p \in Recorder, O!WriteReceipt(p)
  PROVE  ReceiptInv'
<1> DEFINE new == O!Receipt(reading[p].seq, reading[p].prev, FALSE)
           tell == Append(told, new.id)
<1>1. /\ reading[p] # None /\ spent.receipts < MaxLines
      /\ receipts' = receipts \cup {new} /\ told' = tell
      /\ reading' = [reading EXCEPT ![p] = None]
      /\ spent' = [spent EXCEPT !.receipts = @ + 1]
  BY DEF O!WriteReceipt
<1>2. /\ reading[p].seq \in 1 .. MaxLines /\ reading[p].prev \in Nat
      /\ reading[p].seq <= Len(told) + 1
  BY <1>1 DEF ReceiptInv, PlacesAreEarly
<1>3. /\ spent.receipts \in Nat /\ MaxLines \in Nat /\ Len(told) \in Nat
      /\ IsFiniteSet(Whole) /\ Cardinality(Whole) \in Nat
      /\ \A j \in 1 .. Len(told) : told[j] \in Nat
  BY ReceiptFacts
<1>4. /\ new \in ReceiptFile /\ new.id = spent.receipts + 1 /\ new.torn = FALSE
      /\ new.seq = reading[p].seq
  BY <1>2, <1>3 DEF O!Receipt, ReceiptFile
<1>5. spent'.receipts = spent.receipts + 1
  BY <1>1 DEF RecordShape
<1> HIDE DEF new
<1>6. /\ tell \in Seq(Nat) /\ Len(tell) = Len(told) + 1
      /\ tell[Len(told) + 1] = spent.receipts + 1
      /\ \A j \in 1 .. Len(told) : tell[j] = told[j]
  <2>1. told \in Seq(Nat) /\ new.id \in Nat
    BY <1>3, <1>4 DEF ReceiptInv, ReceiptShape
  <2> QED BY <1>4, <2>1, AppendProperties
<1> HIDE DEF tell
<1>7. /\ receipts' \subseteq ReceiptFile /\ IsFiniteSet(receipts')
      /\ Cardinality(receipts') <= spent'.receipts /\ spent'.receipts <= MaxLines
      /\ \A r \in receipts' : r.id \in 1 .. spent'.receipts /\ r.seq \in 1 .. MaxLines
      /\ \A r, s \in receipts' : r.id = s.id => r = s
      /\ new \notin receipts
  BY <1>1, <1>2, <1>4, <1>5, AddReceipt
<1>8. DOMAIN reading' = Recorder /\ reading'[p] = None
      /\ \A q \in Recorder : q # p => reading'[q] = reading[q]
  BY <1>1 DEF ReceiptInv, ReceiptShape
<1>9. ReceiptShape'
  BY <1>1, <1>6, <1>7, <1>8 DEF ReceiptShape
<1>10. Whole' = Whole \cup {new} /\ new \notin Whole
  BY <1>1, <1>4, <1>7 DEF Whole
<1>11. /\ Len(told) = Cardinality(Whole)
       /\ \A r \in Whole : \E j \in 1 .. Len(told) : told[j] = r.id
       /\ \A j \in 1 .. Len(told) : told[j] <= spent.receipts
       /\ \A i, j \in 1 .. Len(told) : i < j => told[i] < told[j]
  BY DEF ReceiptInv, ToldAreWhole
<1>12. ToldAreWhole'
  <2>1. Cardinality(Whole \cup {new}) = Cardinality(Whole) + 1
    BY <1>3, <1>10, FS_AddElement
  <2>2. \A r \in Whole \cup {new} : \E j \in 1 .. Len(tell) : tell[j] = r.id
    <3> TAKE r \in Whole \cup {new}
    <3>1. CASE r = new
      <4>1. Len(told) + 1 \in 1 .. Len(tell)
        BY <1>3, <1>6
      <4> QED BY <1>4, <1>6, <3>1, <4>1
    <3>2. CASE r \in Whole
      <4>1. PICK j \in 1 .. Len(told) : told[j] = r.id
        BY <1>11, <3>2
      <4>2. j \in 1 .. Len(tell) /\ tell[j] = r.id
        BY <1>3, <1>6, <4>1
      <4> QED BY <4>2
    <3> QED BY <3>1, <3>2
  <2>3. \A j \in 1 .. Len(tell) : tell[j] <= spent.receipts + 1
    <3> TAKE j \in 1 .. Len(tell)
    <3>1. j = Len(told) + 1 \/ j \in 1 .. Len(told)
      BY <1>3, <1>6
    <3> QED BY <1>3, <1>6, <1>11, <3>1
  <2>4. \A i, j \in 1 .. Len(tell) : i < j => tell[i] < tell[j]
    <3> SUFFICES ASSUME NEW i \in 1 .. Len(tell), NEW j \in 1 .. Len(tell), i < j
                 PROVE  tell[i] < tell[j]
      OBVIOUS
    <3>1. i \in 1 .. Len(told) /\ (j = Len(told) + 1 \/ j \in 1 .. Len(told))
      <4>1. Len(tell) = Len(told) + 1 /\ Len(told) \in Nat
        BY <1>3, <1>6
      <4> QED BY <4>1
    <3>2. told[i] <= spent.receipts /\ told[i] \in Nat
      BY <1>3, <1>11, <3>1
    <3>3. CASE j = Len(told) + 1
      BY <1>3, <1>6, <3>1, <3>2, <3>3
    <3>4. CASE j \in 1 .. Len(told)
      BY <1>6, <1>11, <3>1, <3>4
    <3> QED BY <3>1, <3>3, <3>4
  <2> QED BY <1>1, <1>5, <1>6, <1>10, <1>11, <2>1, <2>2, <2>3, <2>4 DEF ToldAreWhole
<1>13. PlacesAreEarly'
  <2>1. ASSUME NEW r \in Whole \cup {new}, NEW j \in 1 .. Len(tell), tell[j] = r.id
        PROVE  r.seq <= j
    <3>1. j = Len(told) + 1 \/ (j \in 1 .. Len(told) /\ tell[j] = told[j])
      BY <1>3, <1>6
    <3>2. CASE r = new
      <4>1. j \notin 1 .. Len(told)
        BY <1>3, <1>4, <1>6, <1>11, <2>1, <3>2
      <4> QED BY <1>2, <1>4, <3>1, <3>2, <4>1
    <3>3. CASE r \in Whole
      <4>1. r.id \in 1 .. spent.receipts
        BY <3>3 DEF Whole, ReceiptInv, ReceiptShape
      <4>2. j \in 1 .. Len(told) /\ told[j] = r.id
        BY <1>3, <1>6, <2>1, <3>1, <4>1
      <4> QED BY <3>3, <4>2 DEF ReceiptInv, PlacesAreEarly
    <3> QED BY <3>2, <3>3
  <2>2. ASSUME NEW q \in Recorder, reading'[q] # None
        PROVE  /\ reading'[q].seq \in 1 .. MaxLines /\ reading'[q].prev \in Nat
               /\ reading'[q].seq <= Len(tell) + 1
    <3>1. /\ reading'[q] = reading[q] /\ reading[q].seq \in 1 .. MaxLines
          /\ reading[q].prev \in Nat /\ reading[q].seq <= Len(told) + 1
      BY <1>8, <2>2 DEF ReceiptInv, PlacesAreEarly
    <3> QED BY <1>3, <1>6, <3>1
  <2> QED BY <1>1, <1>10, <2>1, <2>2 DEF PlacesAreEarly
<1> QED BY <1>9, <1>12, <1>13 DEF ReceiptInv

\* A receipt that was torn is not answered for.
LEMMA ReceiptTearKeeps ==
  ASSUME RecordBounds, RecordShape, ReceiptInv, NEW p \in Recorder, O!TearReceipt(p)
  PROVE  ReceiptInv'
<1> DEFINE new == O!Receipt(reading[p].seq, reading[p].prev, TRUE)
<1>1. /\ reading[p] # None /\ spent.receipts < MaxLines /\ told' = told
      /\ receipts' = receipts \/ receipts' = receipts \cup {new}
      /\ reading' = [reading EXCEPT ![p] = None]
  BY DEF O!TearReceipt
<1>2. /\ reading[p].seq \in 1 .. MaxLines /\ reading[p].prev \in Nat
  BY <1>1 DEF ReceiptInv, PlacesAreEarly
<1>3. /\ spent.receipts \in Nat /\ MaxLines \in Nat /\ Cardinality(receipts) \in Nat
      /\ Len(told) \in Nat /\ \A j \in 1 .. Len(told) : told[j] \in Nat
  BY ReceiptFacts
<1>4. /\ new \in ReceiptFile /\ new.id = spent.receipts + 1 /\ new.torn = TRUE
      /\ new.seq = reading[p].seq
  BY <1>2, <1>3 DEF O!Receipt, ReceiptFile
<1>5. spent'.receipts = spent.receipts + 1
  <2> DEFINE s == [spent EXCEPT !.receipts = @ + 1]
  <2>1. s \in [lines : Nat, receipts : Nat, faults : Nat] /\ s.receipts = spent.receipts + 1
    <3>1. spent \in [lines : Nat, receipts : Nat, faults : Nat]
      BY DEF RecordShape
    <3> QED BY <3>1
  <2>2. spent' = [s EXCEPT !.faults = s.faults + 1]
    <3>1. spent \in [lines : Nat, receipts : Nat, faults : Nat] /\ s.faults = spent.faults
      BY DEF RecordShape
    <3>2. spent' = [spent EXCEPT !.receipts = @ + 1, !.faults = @ + 1]
      BY DEF O!TearReceipt
    <3> QED BY <3>1, <3>2, Zenon
  <2> HIDE DEF s
  <2> QED BY <2>1, <2>2
<1> HIDE DEF new
<1>6. /\ receipts' \subseteq ReceiptFile /\ IsFiniteSet(receipts')
      /\ Cardinality(receipts') <= spent'.receipts /\ spent'.receipts <= MaxLines
      /\ \A r \in receipts' : r.id \in 1 .. spent'.receipts /\ r.seq \in 1 .. MaxLines
      /\ \A r, s \in receipts' : r.id = s.id => r = s
  <2>1. CASE receipts' = receipts
    BY <1>1, <1>3, <1>5, <2>1 DEF ReceiptInv, ReceiptShape
  <2>2. CASE receipts' = receipts \cup {new}
    BY <1>1, <1>2, <1>4, <1>5, <2>2, AddReceipt
  <2> QED BY <1>1, <2>1, <2>2
<1>7. DOMAIN reading' = Recorder /\ reading'[p] = None
      /\ \A q \in Recorder : q # p => reading'[q] = reading[q]
  BY <1>1 DEF ReceiptInv, ReceiptShape
<1>8. Whole' = Whole
  BY <1>1, <1>4 DEF Whole
<1>9. ReceiptShape'
  BY <1>1, <1>6, <1>7 DEF ReceiptInv, ReceiptShape
<1>10. ToldAreWhole'
  BY <1>1, <1>3, <1>5, <1>8 DEF ReceiptInv, ToldAreWhole
<1>11. PlacesAreEarly'
  BY <1>1, <1>7, <1>8 DEF ReceiptInv, PlacesAreEarly
<1> QED BY <1>9, <1>10, <1>11 DEF ReceiptInv

\* Every step of the records keeps the receipts' invariant.
LEMMA ReceiptStepKeeps ==
  ASSUME RecordBounds, TrailInv, ReceiptInv, [O!Next]_(O!vars)
  PROVE  ReceiptInv'
<1>1. RecordShape
  BY DEF TrailInv
<1>2. CASE UNCHANGED O!vars
  BY <1>2, ReceiptsAlone DEF O!vars, O!receiptVars
<1>3. ASSUME NEW p \in Recorder,
             O!Begin(p) \/ O!WriteLine(p) \/ O!WriteFails(p) \/ O!SyncFile(p)
               \/ O!SyncDirectory(p) \/ O!SyncFails(p) \/ O!Die(p)
      PROVE  ReceiptInv'
  <2>1. UNCHANGED O!receiptVars
    BY <1>3 DEF O!Begin, O!WriteLine, O!WriteFails, O!SyncFile, O!SyncDirectory,
                O!SyncFails, O!Die
  <2>2. \/ spent' = spent
        \/ spent' = [spent EXCEPT !.lines = spent.lines + 1]
        \/ spent' = [spent EXCEPT !.faults = @ + 1]
    BY <1>3 DEF O!Begin, O!WriteLine, O!WriteFails, O!SyncFile, O!SyncDirectory,
                O!SyncFails, O!Die, O!Fault
  <2>3. spent'.receipts = spent.receipts
    BY <1>1, <2>2 DEF RecordShape
  <2> QED BY <2>1, <2>3, ReceiptsAlone DEF O!receiptVars
<1>4. ASSUME NEW p \in Recorder, O!LoadReceipts(p) PROVE ReceiptInv'
  BY <1>1, <1>4, ReceiptLoadKeeps
<1>5. ASSUME NEW p \in Recorder, O!WriteReceipt(p) PROVE ReceiptInv'
  BY <1>1, <1>5, ReceiptWriteKeeps
<1>6. ASSUME NEW p \in Recorder, O!TearReceipt(p) PROVE ReceiptInv'
  BY <1>1, <1>6, ReceiptTearKeeps
<1>7. CASE O!PowerLoss
  <2>1. spent' = [spent EXCEPT !.faults = @ + 1]
    BY <1>7 DEF O!PowerLoss, O!Fault
  <2>2. spent'.receipts = spent.receipts
    BY <1>1, <2>1 DEF RecordShape
  <2>3. UNCHANGED <<receipts, told>> /\ reading' = [p \in Recorder |-> None]
    BY <1>7 DEF O!PowerLoss
  <2> QED BY <2>2, <2>3, ReceiptsAlone
<1>8. CASE O!Inspect
  BY <1>8, ReceiptsAlone DEF O!Inspect, O!receiptVars
<1> QED BY <1>2, <1>3, <1>4, <1>5, <1>6, <1>7, <1>8 DEF O!Next

\* In a chain that verifies, each receipt stands at the place of its answer.
LEMMA GreenIsWhole ==
  ASSUME RecordBounds, RecordShape, ReceiptInv
  PROVE  O!GreenReceiptsAreWhole
<1> SUFFICES ASSUME O!ReceiptsValid, NEW s \in O!InOrder(receipts)
             PROVE  [i \in DOMAIN s |-> s[i].id] = told
  BY DEF O!GreenReceiptsAreWhole
<1>1. /\ Len(s) = Cardinality(receipts) /\ Cardinality(receipts) \in Nat
      /\ DOMAIN s = 1 .. Len(s) /\ \A i \in 1 .. Len(s) : s[i] \in receipts
      /\ \A i, j \in 1 .. Len(s) : i # j => s[i] # s[j]
  BY OrderFacts DEF ReceiptInv, ReceiptShape
<1>2. receipts = Whole /\ \A i \in 1 .. Len(s) : s[i].seq = i
  BY <1>1 DEF O!ReceiptsValid, O!Loadable, O!Orderly, Whole
<1> DEFINE n == Len(s)
<1>3. n \in Nat /\ Len(told) = n /\ DOMAIN told = 1 .. n
  BY <1>1, <1>2, ReceiptFacts DEF ReceiptInv, ToldAreWhole
<1>4. /\ \A i \in 1 .. n : \E j \in 1 .. n : told[j] = s[i].id
      /\ \A i, j \in 1 .. n : told[j] = s[i].id => i <= j
  <2>1. \A r \in Whole : \E j \in 1 .. Len(told) : told[j] = r.id
    BY DEF ReceiptInv, ToldAreWhole
  <2>2. \A r \in Whole : \A j \in 1 .. Len(told) : told[j] = r.id => r.seq <= j
    BY DEF ReceiptInv, PlacesAreEarly
  <2> QED BY <1>1, <1>2, <1>3, <2>1, <2>2
<1> DEFINE f == [i \in 1 .. n |-> CHOOSE j \in 1 .. n : told[j] = s[i].id]
<1> HIDE DEF n
<1>5. \A i \in 1 .. n : f[i] \in 1 .. n /\ told[f[i]] = s[i].id /\ i <= f[i]
  BY <1>4
<1>6. \A i, j \in 1 .. n : f[i] = f[j] => i = j
  <2> SUFFICES ASSUME NEW i \in 1 .. n, NEW j \in 1 .. n, f[i] = f[j] PROVE i = j
    OBVIOUS
  <2>1. s[i].id = s[j].id
    BY <1>5
  <2>2. s[i] = s[j]
    BY <1>1, <2>1 DEF n, ReceiptInv, ReceiptShape
  <2> QED BY <1>1, <2>2 DEF n
<1>7. f \in [1 .. n -> 1 .. n]
  BY <1>5
<1> HIDE DEF f
<1>8. \A i \in 1 .. n : f[i] = i
  BY <1>3, <1>5, <1>6, <1>7, EarlyPlacesAreOwn
<1>9. \A i \in 1 .. n : told[i] = s[i].id
  BY <1>5, <1>8
<1>10. told \in [1 .. n -> Nat]
  BY <1>3, LenProperties DEF ReceiptInv, ReceiptShape
<1> QED BY <1>1, <1>9, <1>10 DEF n

\* What an operator may rely on follows from the two invariants.
LEMMA RecordsAreKeptNow ==
  ASSUME RecordBounds, TrailInv, ReceiptInv
  PROVE  RecordsAreKept
<1>1. RecordShape
  BY DEF TrailInv
<1>2. O!RecordsTypeOK
  <2>1. \A r \in receipts : r.seq \in 1 .. MaxLines /\ r.id \in 1 .. MaxLines
    <3> SUFFICES ASSUME NEW r \in receipts
                 PROVE  r.seq \in 1 .. MaxLines /\ r.id \in 1 .. MaxLines
      OBVIOUS
    <3>1. /\ r.seq \in 1 .. MaxLines /\ r.id \in 1 .. spent.receipts
          /\ spent.receipts <= MaxLines
      BY DEF ReceiptInv, ReceiptShape
    <3>2. spent.receipts \in Nat /\ MaxLines \in Nat
      BY <1>1, ReceiptFacts
    <3> QED BY <3>1, <3>2
  <2> QED BY <1>1, <2>1 DEF O!RecordsTypeOK, RecordShape
<1>3. O!RecordedIsKept /\ O!FailsClosed
  BY TrailIsKept
<1>4. O!GreenReceiptsAreWhole
  BY <1>1, GreenIsWhole
<1> QED BY <1>2, <1>3, <1>4 DEF RecordsAreKept, O!RecordsAreKept

\* As long as the uncertainty marker can be written, every event that
\* Trail.Record answered for stays in the audit trail, which is one chain and
\* fails closed, and a receipt chain that Verify accepts lists every receipt
\* that was answered for: for any number of processes, lines, failures, deaths
\* and losses of power.
THEOREM RecordsKept ==
  ASSUME RecordBounds, MarkerFails = FALSE
  PROVE  O!RecordsSpec => []RecordsAreKept
<1>1. O!Init => TrailInv /\ ReceiptInv
  BY TrailStarts, ReceiptStarts
<1>2. TrailInv /\ ReceiptInv /\ [O!Next]_(O!vars) => TrailInv' /\ ReceiptInv'
  BY TrailStepKeeps, ReceiptStepKeeps
<1>3. TrailInv /\ ReceiptInv => RecordsAreKept
  BY RecordsAreKeptNow
<1> QED BY <1>1, <1>2, <1>3, PTL DEF O!RecordsSpec

-----------------------------------------------------------------------------
(* What a diagnosis concludes.                                             *)

\* The clock of the file system tells two writes apart.
DiagnosisBounds == MaxWrites \in Nat /\ Coarse = FALSE

FileRecord ==
  [exists : BOOLEAN, content : Nat, ino : Nat, size : Nat, mtime : Nat]
Begun == {"copy_db", "check_db", "copy_wal", "check_wal", "set", "sqlite", "after"}
Judgement == {"healthy", "ledger_corrupt", "wal_inconsistent"}
Diagnosing ==
  [pc : {"idle", "done"} \cup Begun, db : FileRecord, wal : FileRecord,
   copyDb : FileRecord, copyWal : FileRecord,
   verdict : {"none", "database_not_initialized", "diagnosis_inconclusive"} \cup Judgement]

\* Files carry the time of their last write, a missing WAL is not damaged, and
\* what is on disk is one of the pairs that were.
DiagnosisShape ==
  /\ db \in FileRecord /\ wal \in FileRecord /\ diag \in Diagnosing
  /\ writes \in 0 .. MaxWrites /\ now \in Nat /\ damage \in {"none", "db", "wal"}
  /\ db.mtime <= now /\ wal.mtime <= now
  /\ ~db.exists => db = D!NoFile
  /\ ~wal.exists => wal = D!NoFile
  /\ <<db.content, wal.content>> \in instants
  /\ damage = "wal" => wal.exists
  /\ diag.pc = "idle" => diag = D!Idle
  /\ diag.pc \in Begun \ {"after"} => diag.verdict = "none"

\* What was there at first was there together; a file that bears its time is
\* that file still.
SeenFirst ==
  diag.pc \in Begun =>
    /\ diag.db.exists /\ <<diag.db.content, diag.wal.content>> \in instants
    /\ diag.db.mtime <= db.mtime /\ (db.mtime = diag.db.mtime => db = diag.db)
    /\ diag.wal.mtime <= now
    /\ wal.exists /\ diag.wal.exists /\ wal.mtime <= diag.wal.mtime => wal = diag.wal
    /\ ~diag.wal.exists => diag.wal = D!NoFile
    /\ damage = "wal" => diag.wal.exists

\* A copy is of the file that was there at first, or of a later one.
CopiedLater ==
  /\ diag.pc \in Begun \ {"copy_db"} =>
       /\ diag.db.mtime <= diag.copyDb.mtime /\ diag.copyDb.mtime <= db.mtime
       /\ diag.copyDb.mtime = diag.db.mtime => diag.copyDb = diag.db
  /\ diag.pc \in {"copy_db", "check_db", "copy_wal"} => diag.copyWal = D!NoFile
  /\ diag.pc \in {"check_wal", "set", "sqlite", "after"} =>
       IF diag.wal.exists
       THEN /\ diag.copyWal.exists /\ diag.copyWal.mtime <= now
            /\ diag.copyWal.mtime <= diag.wal.mtime => diag.copyWal = diag.wal
            /\ wal.exists => diag.copyWal.mtime <= wal.mtime
       ELSE diag.copyWal = D!NoFile
  /\ diag.pc = "copy_wal" => diag.wal.exists

\* What SQLite said of copies of the first files, as far as it still matters.
JudgedThen ==
  diag.pc = "after" /\ diag.copyDb = diag.db /\ diag.copyWal = diag.wal =>
    /\ diag.verdict = "healthy" => damage # "db"
    /\ diag.verdict = "ledger_corrupt" => damage = "db"
    /\ diag.verdict = "wal_inconsistent" =>
         /\ diag.wal.exists
         /\ damage = "wal" \/ ~wal.exists \/ wal.mtime > diag.wal.mtime

DiagnosisInv ==
  DiagnosisShape /\ SeenFirst /\ CopiedLater /\ JudgedThen /\ D!VerdictIsSound

\* A file that was never there.
LEMMA NoFileIs ==
  /\ D!NoFile \in FileRecord /\ ~D!NoFile.exists /\ D!NoFile.mtime = 0
  /\ D!NoFile.content = 0
  BY DEF D!NoFile, FileRecord

\* At first nothing was looked at.
LEMMA DiagnosisInitial == ASSUME DiagnosisBounds, D!DiagnosisInit PROVE DiagnosisInv
<1> USE DEF DiagnosisBounds
<1>1. D!Idle \in Diagnosing /\ D!Idle.pc = "idle"
  BY NoFileIs DEF D!Idle, Diagnosing
<1>2. D!File(0, 1, 1, 0) \in FileRecord /\ D!File(0, 1, 1, 0).mtime = 0
      /\ D!File(0, 1, 1, 0).exists
  BY DEF D!File, FileRecord
<1>3. DiagnosisShape
  BY <1>1, <1>2, NoFileIs DEF D!DiagnosisInit, DiagnosisShape, Begun
<1> QED BY <1>1, <1>3 DEF D!DiagnosisInit, DiagnosisInv, SeenFirst, CopiedLater, JudgedThen,
        D!VerdictIsSound, D!Concluded, Begun

\* A write carries a new time; the files that bear the old one are as they were.
LEMMA LedgerWriteKeeps ==
  ASSUME DiagnosisBounds, DiagnosisInv, D!MayWrite, NEW f \in FileRecord, NEW g \in FileRecord,
         f.mtime <= now + 1, g.mtime <= now + 1, f.exists, ~g.exists => g = D!NoFile,
         f = db \/ f.mtime = now + 1, g = wal \/ ~g.exists \/ g.mtime = now + 1,
         D!Wrote(f, g, now + 1), diag' = diag,
         \/ damage' = damage /\ (damage = "wal" => g.exists)
         \/ ~g.exists /\ damage' \in {"none", damage} /\ damage' # "wal"
                      /\ (damage = "db" => damage' = "db")
  PROVE  DiagnosisInv'
<1> USE DEF DiagnosisBounds, DiagnosisInv
<1>1. /\ db' = f /\ wal' = g /\ now' = now + 1 /\ writes' = writes + 1
      /\ instants' = instants \cup {<<f.content, g.content>>}
  BY DEF D!Wrote
<1>2. /\ db.mtime \in Nat /\ wal.mtime \in Nat /\ diag.db.mtime \in Nat
      /\ diag.wal.mtime \in Nat /\ diag.copyDb.mtime \in Nat /\ diag.copyWal.mtime \in Nat
      /\ f.mtime \in Nat /\ g.mtime \in Nat /\ now \in Nat
  BY DEF DiagnosisShape, Diagnosing, FileRecord
<1>3. DiagnosisShape'
  BY <1>1, <1>2 DEF DiagnosisShape, D!MayWrite
<1>4. SeenFirst'
  BY <1>1, <1>2 DEF SeenFirst, DiagnosisShape
<1>5. CopiedLater'
  BY <1>1, <1>2 DEF CopiedLater, SeenFirst, DiagnosisShape, Begun
<1>6. JudgedThen'
  BY <1>1, <1>2 DEF JudgedThen, SeenFirst, DiagnosisShape, Begun
<1>7. D!VerdictIsSound'
  BY <1>1 DEF D!VerdictIsSound, D!Concluded, D!MayWrite
<1> QED BY <1>3, <1>4, <1>5, <1>6, <1>7

\* A verdict that nothing can be concluded is sound.
LEMMA GivesUp ==
  ASSUME DiagnosisInv,
         NEW v \in {"database_not_initialized", "diagnosis_inconclusive"}, D!Verdict(v)
  PROVE  DiagnosisInv'
<1>1. diag' \in Diagnosing /\ diag'.pc = "done" /\ diag'.verdict = v
  BY DEF DiagnosisInv, DiagnosisShape, D!Verdict, Diagnosing
<1>2. UNCHANGED <<db, wal, writes, now, damage, instants>>
  BY DEF D!Verdict, D!Keep
<1> QED BY <1>1, <1>2 DEF DiagnosisInv, DiagnosisShape, SeenFirst, CopiedLater, JudgedThen,
        Begun, D!VerdictIsSound, D!Concluded

\* A step that goes on as it is.
LEMMA GoesOnSound ==
  ASSUME DiagnosisInv, NEW to \in Begun \ {"copy_db", "after"}, D!Goto(to, diag),
         diag.pc \in Begun \ {"copy_db", "after"},
         to = "copy_wal" => diag.wal.exists /\ diag.pc = "check_db",
         to = "check_db" => diag.pc = "check_db",
         to \in {"check_wal", "set", "sqlite"} =>
            \/ diag.pc \in {"check_wal", "set", "sqlite"}
            \/ diag.pc = "check_db" /\ ~diag.wal.exists
  PROVE  DiagnosisInv'
<1>1. /\ diag' \in Diagnosing /\ diag'.pc = to /\ diag'.db = diag.db /\ diag'.wal = diag.wal
      /\ diag'.copyDb = diag.copyDb /\ diag'.copyWal = diag.copyWal
      /\ diag'.verdict = diag.verdict
  BY DEF DiagnosisInv, DiagnosisShape, D!Goto, Diagnosing
<1>2. UNCHANGED <<db, wal, writes, now, damage, instants>>
  BY DEF D!Goto, D!Keep
<1>3. DiagnosisShape' /\ SeenFirst'
  BY <1>1, <1>2 DEF DiagnosisInv, DiagnosisShape, SeenFirst, Begun
<1>4. CopiedLater'
  BY <1>1, <1>2 DEF DiagnosisInv, CopiedLater, Begun
<1>5. JudgedThen' /\ D!VerdictIsSound'
  BY <1>1 DEF JudgedThen, D!VerdictIsSound, D!Concluded, Begun
<1> QED BY <1>3, <1>4, <1>5 DEF DiagnosisInv

\* Every write, and every step of the diagnosis.
LEMMA DiagnosisNextKeeps ==
  ASSUME DiagnosisBounds, DiagnosisInv, [D!DiagnosisNext]_(D!diagVars)
  PROVE  DiagnosisInv'
<1>a. /\ db \in FileRecord /\ wal \in FileRecord /\ diag \in Diagnosing /\ now \in Nat
      /\ writes \in Nat /\ db.mtime <= now /\ wal.mtime <= now
      /\ damage \in {"none", "db", "wal"} /\ (damage = "wal" => wal.exists)
      /\ ~wal.exists => wal = D!NoFile
  BY DEF DiagnosisInv, DiagnosisShape, DiagnosisBounds
<1>b. D!Tick = {now + 1}
  BY DEF DiagnosisBounds, D!Tick
<1>1. CASE D!WalWrite
  <2>1. PICK i \in D!Ino, grow \in {0, 1} :
          D!Wrote(db, D!File(writes + 1, i, wal.size + grow, now + 1), now + 1)
    BY <1>1, <1>b DEF D!WalWrite
  <2> DEFINE g == D!File(writes + 1, i, wal.size + grow, now + 1)
  <2>2. g \in FileRecord /\ g.mtime = now + 1 /\ g.exists
    BY <1>a DEF D!File, FileRecord, D!Ino
  <2>3. D!MayWrite /\ db.exists /\ damage' = damage /\ diag' = diag
    BY <1>1 DEF D!WalWrite, D!MayWrite
  <2> HIDE DEF g
  <2>4. D!Wrote(db, g, now + 1)
    BY <2>1 DEF g
  <2>5. db.mtime \in Nat /\ db.mtime <= now + 1
    BY <1>a DEF FileRecord
  <2> QED BY <1>a, <2>2, <2>3, <2>4, <2>5, LedgerWriteKeeps
<1>2. CASE D!CheckpointWrite
  <2>1. PICK grow \in {0, 1} :
          D!Wrote([db EXCEPT !.content = writes + 1, !.size = db.size + grow,
                             !.mtime = now + 1], wal, now + 1)
    BY <1>2, <1>b DEF D!CheckpointWrite
  <2> DEFINE f == [db EXCEPT !.content = writes + 1, !.size = db.size + grow,
                             !.mtime = now + 1]
  <2>2. f \in FileRecord /\ f.mtime = now + 1 /\ f.exists = db.exists
    <3>1. db.size + grow \in Nat /\ writes + 1 \in Nat /\ now + 1 \in Nat
      BY <1>a DEF FileRecord
    <3>2. db \in FileRecord
      BY <1>a
    <3> QED BY <3>1, <3>2 DEF FileRecord
  <2>3. D!MayWrite /\ db.exists /\ damage' = damage /\ diag' = diag /\ wal.exists
    BY <1>2 DEF D!CheckpointWrite, D!MayWrite
  <2> HIDE DEF f
  <2>4. D!Wrote(f, wal, now + 1)
    BY <2>1 DEF f
  <2>5. wal.mtime \in Nat /\ wal.mtime <= now + 1 /\ f.mtime <= now + 1
        /\ (damage = "wal" => wal.exists) /\ (~wal.exists => wal = D!NoFile) /\ f.exists
    BY <1>a, <2>2, <2>3 DEF FileRecord
  <2> QED BY <1>a, <2>2, <2>3, <2>4, <2>5, LedgerWriteKeeps, Zenon
<1>3. CASE D!WalRemove
  <2>1. /\ D!MayWrite /\ db.exists /\ diag' = diag /\ D!Wrote(db, D!NoFile, now + 1)
        /\ damage' = IF damage = "wal" THEN "none" ELSE damage
    BY <1>3, <1>b DEF D!WalRemove, D!MayWrite
  <2>2. db.mtime \in Nat /\ db.mtime <= now + 1 /\ 0 <= now + 1
    BY <1>a DEF FileRecord
  <2> QED BY <1>a, <2>1, <2>2, NoFileIs, LedgerWriteKeeps
<1>4. CASE D!DamageWal
  BY <1>4 DEF D!DamageWal, DiagnosisInv, DiagnosisShape, SeenFirst, CopiedLater, JudgedThen,
     Begun, D!VerdictIsSound, D!Concluded
<1>5. CASE D!StatBefore
  <2>1. CASE ~db.exists
    BY <1>5, <2>1, GivesUp DEF D!StatBefore
  <2>2. CASE db.exists
    <3>1. diag.pc = "idle" /\ D!Goto("copy_db", [diag EXCEPT !.db = db, !.wal = wal])
      BY <1>5, <2>2 DEF D!StatBefore
    <3>2. /\ diag' \in Diagnosing /\ diag'.pc = "copy_db" /\ diag'.db = db /\ diag'.wal = wal
          /\ diag'.copyWal = diag.copyWal /\ diag'.verdict = diag.verdict
      BY <1>a, <3>1 DEF D!Goto, Diagnosing, Begun
    <3>3. UNCHANGED <<db, wal, writes, now, damage, instants>>
      BY <3>1 DEF D!Goto, D!Keep
    <3>4. diag.copyWal = D!NoFile /\ diag.verdict = "none"
      BY <3>1 DEF DiagnosisInv, DiagnosisShape, D!Idle
    <3> QED BY <1>a, <2>2, <3>2, <3>3, <3>4 DEF DiagnosisInv, DiagnosisShape, SeenFirst,
            CopiedLater, JudgedThen, Begun, D!VerdictIsSound, D!Concluded, FileRecord
  <2> QED BY <2>1, <2>2
<1>6. CASE D!CopyDb
  <2>1. diag.pc = "copy_db" /\ D!Goto("check_db", [diag EXCEPT !.copyDb = db])
    BY <1>6 DEF D!CopyDb
  <2>2. /\ diag' \in Diagnosing /\ diag'.pc = "check_db" /\ diag'.db = diag.db
        /\ diag'.wal = diag.wal /\ diag'.copyDb = db
        /\ diag'.copyWal = diag.copyWal /\ diag'.verdict = diag.verdict
    BY <1>a, <2>1 DEF D!Goto, Diagnosing, Begun
  <2>3. UNCHANGED <<db, wal, writes, now, damage, instants>>
    BY <2>1 DEF D!Goto, D!Keep
  <2>4. DiagnosisShape' /\ SeenFirst'
    BY <2>1, <2>2, <2>3 DEF DiagnosisInv, DiagnosisShape, SeenFirst, Begun
  <2>5. CopiedLater'
    BY <1>a, <2>1, <2>2, <2>3 DEF DiagnosisInv, CopiedLater, SeenFirst, Begun, FileRecord
  <2> QED BY <2>2, <2>4, <2>5 DEF DiagnosisInv, JudgedThen, D!VerdictIsSound, D!Concluded
<1>7. CASE D!CheckDb
  <2>1. CASE D!Verdict("diagnosis_inconclusive")
    BY <2>1, GivesUp
  <2>2. CASE D!Goto(IF diag.wal.exists THEN "copy_wal" ELSE "set", diag)
    <3> DEFINE to == IF diag.wal.exists THEN "copy_wal" ELSE "set"
    <3>1. /\ to \in Begun \ {"copy_db", "after"} /\ diag.pc = "check_db"
          /\ to = "copy_wal" => diag.wal.exists
          /\ to # "copy_wal" => ~diag.wal.exists
          /\ to \in {"copy_wal", "set"}
      BY <1>7 DEF D!CheckDb, Begun
    <3>2. diag.pc \in Begun \ {"copy_db", "after"}
      BY <3>1 DEF Begun
    <3>3. D!Goto(to, diag)
      BY <2>2
    <3> HIDE DEF to
    <3> QED BY <3>1, <3>2, <3>3, GoesOnSound
  <2> QED BY <1>7, <2>1, <2>2 DEF D!CheckDb
<1>8. CASE D!CopyWal
  <2>1. CASE D!Verdict("diagnosis_inconclusive")
    BY <2>1, GivesUp
  <2>2. CASE wal.exists /\ D!Goto("check_wal", [diag EXCEPT !.copyWal = wal])
    <3>1. /\ diag' \in Diagnosing /\ diag'.pc = "check_wal" /\ diag'.db = diag.db
          /\ diag'.wal = diag.wal /\ diag'.copyDb = diag.copyDb
          /\ diag'.copyWal = wal /\ diag'.verdict = diag.verdict /\ diag.pc = "copy_wal"
      BY <1>8, <1>a, <2>2 DEF D!CopyWal, D!Goto, Diagnosing, Begun
    <3>2. UNCHANGED <<db, wal, writes, now, damage, instants>>
      BY <2>2 DEF D!Goto, D!Keep
    <3>3. DiagnosisShape' /\ SeenFirst'
      BY <3>1, <3>2 DEF DiagnosisInv, DiagnosisShape, SeenFirst, Begun
    <3>4. CopiedLater'
      BY <1>a, <2>2, <3>1, <3>2 DEF DiagnosisInv, CopiedLater, SeenFirst, Begun, FileRecord
    <3> QED BY <3>1, <3>3, <3>4 DEF DiagnosisInv, JudgedThen, D!VerdictIsSound, D!Concluded
  <2> QED BY <1>8, <2>1, <2>2 DEF D!CopyWal
<1>9. CASE D!CheckWal
  <2>1. diag.pc = "check_wal" /\ diag.pc \in Begun \ {"copy_db", "after"}
        /\ "set" \in Begun \ {"copy_db", "after"}
    BY <1>9 DEF D!CheckWal, Begun
  <2> QED BY <1>9, <2>1, GivesUp, GoesOnSound DEF D!CheckWal
<1>10. CASE D!CheckSet
  <2>1. diag.pc = "set" /\ diag.pc \in Begun \ {"copy_db", "after"}
        /\ "sqlite" \in Begun \ {"copy_db", "after"}
    BY <1>10 DEF D!CheckSet, Begun
  <2> QED BY <1>10, <2>1, GivesUp, GoesOnSound DEF D!CheckSet
\* SQLite tells the truth of two files that were together.
<1>11. CASE D!DiagnoseSnapshot
  <2>1. PICK full \in D!Passes("full"), alone \in D!Passes("alone") :
          D!Goto("after", [diag EXCEPT !.verdict = D!Classify(full, alone)])
    BY <1>11 DEF D!DiagnoseSnapshot
  <2>2. diag.pc = "sqlite" /\ D!Classify(full, alone) \in Judgement
    BY <1>11 DEF D!DiagnoseSnapshot, D!Classify, Judgement
  <2>3. /\ diag' \in Diagnosing /\ diag'.pc = "after" /\ diag'.db = diag.db
        /\ diag'.wal = diag.wal /\ diag'.copyDb = diag.copyDb
        /\ diag'.copyWal = diag.copyWal /\ diag'.verdict = D!Classify(full, alone)
    BY <1>a, <2>1, <2>2 DEF D!Goto, Diagnosing, Begun
  <2>4. UNCHANGED <<db, wal, writes, now, damage, instants>>
    BY <2>1 DEF D!Goto, D!Keep
  <2>5. DiagnosisShape' /\ SeenFirst'
    BY <2>2, <2>3, <2>4 DEF DiagnosisInv, DiagnosisShape, SeenFirst, Begun
  <2>6. CopiedLater'
    BY <2>2, <2>3, <2>4 DEF DiagnosisInv, CopiedLater, Begun
  <2>7. JudgedThen'
    <3>1. SUFFICES ASSUME diag.copyDb = diag.db, diag.copyWal = diag.wal
                   PROVE  JudgedThen'
      BY <2>3 DEF JudgedThen
    <3>2. D!CopiedTogether
      BY <2>2, <3>1 DEF DiagnosisInv, SeenFirst, D!CopiedTogether, Begun
    <3>3. /\ full = (damage = "none" \/ (damage = "wal" /\ ~diag.wal.exists))
          /\ alone = (damage # "db")
      BY <3>1, <3>2 DEF D!Passes
    <3>4. damage = "wal" => diag.wal.exists
      BY <2>2 DEF DiagnosisInv, SeenFirst, Begun
    <3> QED BY <1>a, <2>3, <2>4, <3>1, <3>3, <3>4 DEF JudgedThen, D!Classify
  <2> QED BY <2>3, <2>5, <2>6, <2>7 DEF DiagnosisInv, D!VerdictIsSound, D!Concluded
\* Files that still bear their times are those that were copied.
<1>12. CASE D!StatAfter
  <2>1. CASE D!Verdict("diagnosis_inconclusive")
    BY <2>1, GivesUp
  <2>2. CASE D!SameAs(diag.db, db) /\ D!SameAs(diag.wal, wal) /\ D!Goto("done", diag)
    <3>1. /\ diag' \in Diagnosing /\ diag'.pc = "done" /\ diag'.db = diag.db
          /\ diag'.wal = diag.wal /\ diag'.copyDb = diag.copyDb
          /\ diag'.copyWal = diag.copyWal /\ diag'.verdict = diag.verdict /\ diag.pc = "after"
      BY <1>12, <1>a, <2>2 DEF D!StatAfter, D!Goto, Diagnosing, Begun
    <3>2. UNCHANGED <<db, wal, writes, now, damage, instants>>
      BY <2>2 DEF D!Goto, D!Keep
    <3>3. /\ diag.copyDb.mtime \in Nat /\ db.mtime \in Nat /\ diag.db.mtime \in Nat
          /\ diag.copyWal.mtime \in Nat /\ wal.mtime \in Nat /\ diag.wal.mtime \in Nat
      BY <1>a DEF Diagnosing, FileRecord
    <3>4. diag.copyDb = diag.db /\ diag.copyWal = diag.wal
      BY <2>2, <3>1, <3>3
         DEF D!SameAs, D!SameSetFile, DiagnosisInv, SeenFirst, CopiedLater, Begun
    <3>5. D!CopiedTogether'
      BY <3>1, <3>2, <3>4 DEF D!CopiedTogether, DiagnosisInv, SeenFirst, Begun
    <3>6. D!VerdictIsSound'
      BY <2>2, <3>1, <3>2, <3>3, <3>4, <3>5
         DEF D!VerdictIsSound, DiagnosisInv, JudgedThen, D!SameAs, D!SameSetFile
    <3> QED BY <3>1, <3>2, <3>6 DEF DiagnosisInv, DiagnosisShape, SeenFirst, CopiedLater,
            JudgedThen, Begun
  <2> QED BY <1>12, <2>1, <2>2 DEF D!StatAfter
<1>13. CASE UNCHANGED D!diagVars
  BY <1>13 DEF D!diagVars, DiagnosisInv, DiagnosisShape, SeenFirst, CopiedLater, JudgedThen,
     D!VerdictIsSound, D!Concluded, D!CopiedTogether
<1> QED
  BY <1>1, <1>2, <1>3, <1>4, <1>5, <1>6, <1>7, <1>8, <1>9, <1>10, <1>11, <1>12, <1>13
     DEF D!DiagnosisNext

\* VerdictIsSound for any number of writes between the diagnosis's steps, as long as the
\* file system's clock tells two writes apart (ledger.Diagnose): comparing sizes, identities
\* and times of the two files afterwards is enough to know that the copies, made one after
\* the other, are of files that were together.
THEOREM DiagnosesSoundly ==
  ASSUME DiagnosisBounds
  PROVE  D!DiagnosisSpec => []VerdictIsSound
<1>1. D!DiagnosisInit => DiagnosisInv
  BY DiagnosisInitial
<1>2. DiagnosisInv /\ [D!DiagnosisNext]_(D!diagVars) => DiagnosisInv'
  BY DiagnosisNextKeeps
<1>3. DiagnosisInv => VerdictIsSound
  BY DEF DiagnosisInv, VerdictIsSound, D!DiagnosisTypeOK, DiagnosisShape, Diagnosing, Judgement
<1> QED BY <1>1, <1>2, <1>3, PTL DEF D!DiagnosisSpec
=============================================================================
