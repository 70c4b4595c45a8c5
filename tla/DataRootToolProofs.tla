------------------------- MODULE DataRootToolProofs -------------------------
(***************************************************************************)
(* What the tools of a data root keep, for any number of transactions,     *)
(* backups, chains, rows and checkpoints: expire, prune and catalog throw  *)
(* away only what they may, and a chain or a checkpoint that verifies      *)
(* holds FutureDiff's own rows.                                            *)
(***************************************************************************)
EXTENDS DataRootProofs

-----------------------------------------------------------------------------
(* What is thrown away.                                                    *)

\* Nobody writes a backup over one that is being deleted, and the names of
\* what is not a tool or a backup are of nothing else.
ToolBounds ==
  /\ KeepLatest \in Nat /\ "backup" \notin Overlaps
  /\ None \notin K!Tools \cup {"daemon"} /\ None \notin Nat /\ Damaged \notin Nat

ExpireTask == [tx : Tx, status : K!Status, at : Nat]
Work == ExpireTask \cup Tx \cup Nat
ToolPlace ==
  {"off", "next", "abort", "remove", "record", "tree", "dir", "inspect", "unlist"}
Job == [at : ToolPlace, plan : SUBSET Work, on : Work \cup {None}]
TxRecord == [status : K!Status, at : Nat, tree : BOOLEAN, dir : BOOLEAN]
BackupRecord == [place : Place, made : Nat, listed : BOOLEAN]

\* The lock of the data root is the daemon's or that of the tool at work.
ToolShape ==
  /\ txs \in [Tx -> TxRecord] /\ time \in Nat
  /\ jobs \in [K!Tools -> Job]
  /\ owner \in {None, "daemon", "expire", "catalog"}
  /\ jobs["expire"].at # "off" => owner = "expire"
  /\ jobs["catalog"].at # "off" => owner = "catalog"

Over(t) == txs[t].status \in K!Terminal

\* What is gone is of a transaction that is over, and what was recorded was done.
TxSafe ==
  /\ hasty = {}
  /\ \A t \in Tx :
       /\ ~txs[t].dir => Over(t)
       /\ ~txs[t].tree => Over(t) \/ txs[t].status = "aborting"
       /\ <<"expire", t>> \in actions => txs[t].status = "aborted"
       /\ <<"prune", t>> \in actions => ~txs[t].dir

\* Under the lock of the data root a transaction stays what expiry found it to be.
ExpireWorks ==
  LET j == jobs["expire"]
  IN /\ j.at \in {"off", "next", "abort", "remove", "record"} /\ j.plan \subseteq ExpireTask
     /\ j.at \in {"abort", "remove", "record"} => j.on \in ExpireTask
     /\ j.at = "abort" =>
          txs[j.on.tx].status = j.on.status /\ txs[j.on.tx].at = j.on.at
     /\ j.at = "remove" => txs[j.on.tx].status = "aborting"
     /\ j.at = "record" => txs[j.on.tx].status = "aborted"

\* Pruning has no lock, but what is over stays over.
PruneWorks ==
  LET j == jobs["prune"]
  IN /\ j.at \in {"off", "tree", "dir", "record"}
     /\ j.plan \subseteq Tx /\ \A t \in j.plan : Over(t)
     /\ j.at \in {"dir", "record"} => j.on \in Tx /\ Over(j.on)
     /\ j.at = "record" => ~txs[j.on].dir

\* A file holds the backup it was written as, and never one that is gone.
BackupsShape ==
  /\ catalog \in Seq(BackupRecord) /\ paths \in [Place -> Nat \cup {None, Damaged}]
  /\ gone \subseteq 1 .. Len(catalog)
  /\ \A p \in Place : paths[p] \in Nat =>
       /\ paths[p] \in 1 .. Len(catalog) /\ catalog[paths[p]].place = p
       /\ paths[p] \notin gone
  /\ \A b : <<"catalog", b>> \in actions => b \in 1 .. Len(catalog)
  /\ \A b \in 1 .. Len(catalog) :
       <<"catalog", b>> \in actions \/ ~catalog[b].listed => paths[catalog[b].place] # b

\* Of n backups, those after one that are not among those given up.
Left(n, x, given) == {o \in 1 .. n : o > x} \ given

BackupsKept == \A b \in gone : Cardinality(Left(Len(catalog), b, gone)) >= KeepLatest

\* Whatever the catalog is about to delete, enough younger ones are not in its plan.
CatalogWorks ==
  LET j == jobs["catalog"]
  IN /\ j.at \in {"off", "inspect", "remove", "unlist", "record"}
     /\ j.plan \subseteq 1 .. Len(catalog)
     /\ \A x \in j.plan :
          Cardinality(Left(Len(catalog), x, gone \cup j.plan)) >= KeepLatest
     /\ j.at \in {"remove", "unlist", "record"} => j.on \in j.plan
     /\ \A x \in j.plan :
          catalog[x].listed \/ (j.at \in {"unlist", "record"} /\ x = j.on)
     /\ j.at = "remove" => paths[catalog[j.on].place] \in {j.on, None, Damaged}
     /\ j.at \in {"unlist", "record"} => paths[catalog[j.on].place] # j.on

TxPart == TxSafe /\ ExpireWorks /\ PruneWorks
BackupPart == BackupsShape /\ BackupsKept /\ CatalogWorks
ToolInv == ToolShape /\ TxPart /\ BackupPart

\* The instance counts as the module does.
LEMMA ToolsCount == ASSUME NEW S PROVE K!Cardinality(S) = Cardinality(S)
BY DEF K!Cardinality, Cardinality

\* Of a finite set of numbers that has n, there are n with fewer than n above them.
LEMMA NewestMany ==
  ASSUME NEW n \in Nat, NEW S0 \in SUBSET Nat, IsFiniteSet(S0), Cardinality(S0) >= n
  PROVE  Cardinality({o \in S0 : Cardinality({p \in S0 : p > o}) < n}) >= n
<1> DEFINE Above(S, o) == {p \in S : p > o}
           Top(S) == {o \in S : Cardinality(Above(S, o)) < n}
           Fails(S) == IsFiniteSet(S) /\ Cardinality(S) >= n /\ ~(Cardinality(Top(S)) >= n)
           T == {k \in Nat : \E S \in SUBSET Nat : Fails(S) /\ Cardinality(S) = k}
<1>1. \A S \in SUBSET Nat : IsFiniteSet(S) =>
        /\ Cardinality(S) \in Nat /\ IsFiniteSet(Top(S)) /\ Cardinality(Top(S)) \in Nat
        /\ \A o \in S : IsFiniteSet(Above(S, o)) /\ Cardinality(Above(S, o)) \in Nat
  BY FS_Subset, FS_CardinalityType
<1>2. SUFFICES ASSUME T # {} PROVE FALSE
  <2>1. ~Fails(S0)
    <3>1. ASSUME Fails(S0) PROVE FALSE
      <4>1. Cardinality(S0) \in Nat
        BY <1>1
      <4>2. Cardinality(S0) \in T
        BY <3>1, <4>1
      <4> QED BY <1>2, <4>2
    <3> QED BY <3>1
  <2>2. Cardinality(Top(S0)) >= n
    <3> HIDE DEF Top
    <3> QED BY <2>1
  <2> QED BY <2>2
<1>3. PICK k \in T : \A l \in T : k <= l
  BY <1>2, LeastNumber
<1>4. PICK S \in SUBSET Nat : Fails(S) /\ Cardinality(S) = k
  BY <1>3
<1> HIDE DEF T
<1>5. k \in Nat /\ k >= n
  BY <1>4, <1>1
<1>6. CASE k = n
  <2>1. ASSUME NEW o \in S PROVE Cardinality(Above(S, o)) < n
    <3>1. IsFiniteSet(S \ {o}) /\ Cardinality(S \ {o}) = k - 1
      BY <1>4, FS_RemoveElement
    <3>2. Above(S, o) \in SUBSET (S \ {o})
      OBVIOUS
    <3>3. Cardinality(Above(S, o)) <= k - 1
      BY <3>1, <3>2, FS_Subset
    <3>4. Cardinality(Above(S, o)) \in Nat
      BY <1>1, <1>4
    <3> QED BY <1>5, <1>6, <3>3, <3>4
  <2>2. Top(S) = S
    BY <2>1
  <2> QED BY <1>4, <1>5, <1>6, <2>2
<1>7. CASE k > n
  <2>1. S # {}
    BY <1>4, <1>5, <1>7, FS_EmptySet
  <2>2. PICK m \in S : \A l \in S : m <= l
    BY <2>1, LeastNumber
  <2> DEFINE Rest == S \ {m}
  <2>3. IsFiniteSet(Rest) /\ Cardinality(Rest) = k - 1 /\ Rest \in SUBSET Nat
    BY <1>4, FS_RemoveElement
  <2>4. k - 1 \in Nat /\ k - 1 >= n /\ ~(k <= k - 1)
    BY <1>5, <1>7
  <2>5. Cardinality(Top(Rest)) >= n
    <3>1. k - 1 \notin T
      BY <1>3, <2>4
    <3> QED BY <2>3, <2>4, <3>1 DEF T
  <2>6. \A o \in Rest : Above(Rest, o) = Above(S, o)
    BY <2>2
  <2>7. Top(Rest) \in SUBSET Top(S)
    BY <2>6
  <2>8. Cardinality(Top(Rest)) <= Cardinality(Top(S)) /\ Cardinality(Top(S)) \in Nat
        /\ Cardinality(Top(Rest)) \in Nat
    BY <1>1, <1>4, <2>3, <2>7, FS_Subset
  <2> QED BY <1>4, <2>5, <2>8
<1> QED BY <1>5, <1>6, <1>7

\* A set of places in a catalog has a latest one.
LEMMA LatestOf ==
  ASSUME NEW n \in Nat, NEW S \in SUBSET (1 .. n), S # {}
  PROVE  K!Max(S) \in S
<1> DEFINE T == {n - x : x \in S}
<1>1. T \in SUBSET Nat /\ T # {}
  <2>1. \A x \in S : n - x \in Nat
    OBVIOUS
  <2>2. PICK z \in S : TRUE
    OBVIOUS
  <2>3. n - z \in T
    OBVIOUS
  <2> QED BY <2>1, <2>3
<1>2. PICK m \in T : \A k \in T : m <= k
  BY <1>1, LeastNumber
<1>3. PICK y \in S : m = n - y
  BY <1>2
<1>4. \A x \in S : y >= x
  <2> SUFFICES ASSUME NEW x \in S PROVE y >= x
    OBVIOUS
  <2>1. n - x \in T
    OBVIOUS
  <2>2. n - y <= n - x
    BY <1>2, <1>3, <2>1
  <2>3. x \in Nat /\ y \in Nat
    OBVIOUS
  <2> QED BY <2>2, <2>3
<1>5. \E x \in S : \A z \in S : x >= z
  BY <1>4
<1> QED BY <1>5 DEF K!Max

\* A tool that stops or is killed leaves nothing promised.
LEMMA TxFrame ==
  ASSUME TxPart, UNCHANGED <<txs, hasty>>,
         jobs'["expire"] \in {jobs["expire"], K!Off},
         jobs'["prune"] \in {jobs["prune"], K!Off},
         \A t \in Tx : /\ <<"expire", t>> \in actions' => <<"expire", t>> \in actions
                       /\ <<"prune", t>> \in actions' => <<"prune", t>> \in actions
  PROVE  TxPart'
<1>1. TxSafe'
  BY DEF TxPart, TxSafe, Over
<1>2. ExpireWorks'
  <2>1. CASE jobs'["expire"] = jobs["expire"]
    BY <2>1 DEF TxPart, ExpireWorks
  <2>2. CASE jobs'["expire"] = K!Off
    BY <2>2 DEF ExpireWorks, K!Off
  <2> QED BY <2>1, <2>2
<1>3. PruneWorks'
  <2>1. CASE jobs'["prune"] = jobs["prune"]
    BY <2>1 DEF TxPart, PruneWorks, Over
  <2>2. CASE jobs'["prune"] = K!Off
    BY <2>2 DEF PruneWorks, K!Off
  <2> QED BY <2>1, <2>2
<1> QED BY <1>1, <1>2, <1>3 DEF TxPart

\* The backups stand as long as no file, record or list of theirs changes.
LEMMA BackupFrame ==
  ASSUME BackupPart, UNCHANGED <<paths, catalog, gone>>,
         jobs'["catalog"] \in {jobs["catalog"], K!Off},
         \A b : <<"catalog", b>> \in actions' => <<"catalog", b>> \in actions
  PROVE  BackupPart'
<1>1. BackupsShape' /\ BackupsKept'
  BY DEF BackupPart, BackupsShape, BackupsKept
<1>2. CatalogWorks'
  <2>1. CASE jobs'["catalog"] = jobs["catalog"]
    BY <2>1 DEF BackupPart, CatalogWorks
  <2>2. CASE jobs'["catalog"] = K!Off
    BY <2>2 DEF CatalogWorks, K!Off
  <2> QED BY <2>1, <2>2
<1> QED BY <1>1, <1>2 DEF BackupPart

\* A data root starts with its transactions at work, and no backups.
LEMMA ToolInit == ASSUME ToolBounds, K!Init PROVE ToolInv
<1>1. ToolShape
  BY DEF K!Init, ToolShape, TxRecord, Job, ToolPlace, K!Off, K!Status, K!Safe, K!Tools
<1>2. TxPart
  BY DEF K!Init, TxPart, TxSafe, ExpireWorks, PruneWorks, K!Off, K!Tools
<1>3. BackupPart
  <2>1. catalog = <<>> /\ Len(catalog) = 0 /\ catalog \in Seq(BackupRecord)
    BY EmptySeq DEF K!Init
  <2>2. jobs["catalog"] = K!Off /\ gone = {} /\ actions = {}
    BY DEF K!Init, K!Tools
  <2>3. BackupsShape
    BY <2>1, <2>2 DEF K!Init, BackupsShape, ToolBounds
  <2> QED BY <2>2, <2>3 DEF BackupPart, BackupsKept, CatalogWorks, K!Off
<1> QED BY <1>1, <1>2, <1>3 DEF ToolInv

\* What the daemon does to transactions.
LEMMA DaemonWorks ==
  ASSUME ToolInv, ToolBounds, K!DaemonWork,
         UNCHANGED <<paths, catalog, gone, jobs, actions, hasty, time, faults>>
  PROVE  ToolInv'
<1>1. BackupPart'
  BY BackupFrame DEF ToolInv
<1>2. CASE UNCHANGED txs
  <2>1. ToolShape'
    BY <1>2 DEF K!DaemonWork, ToolInv, ToolShape, ToolBounds, K!Tools
  <2>2. TxPart'
    BY <1>2, TxFrame DEF ToolInv
  <2> QED BY <1>1, <2>1, <2>2 DEF ToolInv
<1>3. CASE ~UNCHANGED txs
  <2>1. PICK t \in Tx :
          /\ owner = "daemon" /\ UNCHANGED owner
          /\ \/ \E s \in K!Status :
                  <<txs[t].status, s>> \in K!Moves
                  /\ txs' = [txs EXCEPT ![t].status = s, ![t].at = time]
             \/ /\ txs[t].status \in K!Safe
                /\ txs' = [txs EXCEPT ![t].status = "aborting", ![t].at = time]
             \/ \E left \in {FALSE, txs[t].tree} :
                  /\ txs[t].status = "aborting"
                  /\ txs' = [txs EXCEPT ![t] = [status |-> "aborted", at |-> time,
                                                tree |-> left, dir |-> @.dir]]
    BY <1>3 DEF K!DaemonWork, K!SetStatus
  <2>2. txs \in [Tx -> TxRecord] /\ time \in Nat /\ txs[t] \in TxRecord
    BY DEF ToolInv, ToolShape
  <2>3. /\ txs' \in [Tx -> TxRecord]
        /\ \A u \in Tx : u # t => txs'[u] = txs[u]
        /\ txs'[t].dir = txs[t].dir
        /\ ~txs'[t].tree => ~txs[t].tree \/ txs'[t].status = "aborted"
        /\ txs[t].status \in K!Terminal => txs'[t].status = txs[t].status
        /\ txs[t].status = "aborting" => txs'[t].status = "aborted"
    <3>1. CASE \E s \in K!Status :
                  <<txs[t].status, s>> \in K!Moves
                  /\ txs' = [txs EXCEPT ![t].status = s, ![t].at = time]
      <4>1. PICK s \in K!Status :
              <<txs[t].status, s>> \in K!Moves
              /\ txs' = [txs EXCEPT ![t].status = s, ![t].at = time]
        BY <3>1
      <4>2. txs'[t] = [txs[t] EXCEPT !.status = s, !.at = time]
        BY <4>1, <2>2
      <4>3. txs'[t] \in TxRecord /\ txs'[t].status = s /\ txs'[t].dir = txs[t].dir
            /\ txs'[t].tree = txs[t].tree
        BY <4>2, <2>2 DEF TxRecord
      <4>4. txs[t].status \notin K!Terminal \cup {"aborting"}
        BY <4>1 DEF K!Moves, K!Terminal
      <4>5. txs' \in [Tx -> TxRecord] /\ \A u \in Tx : u # t => txs'[u] = txs[u]
        BY <4>1, <4>3, <2>2
      <4> QED BY <4>3, <4>4, <4>5
    <3>2. CASE /\ txs[t].status \in K!Safe
               /\ txs' = [txs EXCEPT ![t].status = "aborting", ![t].at = time]
      BY <3>2, <2>2 DEF TxRecord, K!Status, K!Terminal, K!Safe
    <3>3. CASE \E left \in {FALSE, txs[t].tree} :
                  /\ txs[t].status = "aborting"
                  /\ txs' = [txs EXCEPT ![t] = [status |-> "aborted", at |-> time,
                                                tree |-> left, dir |-> @.dir]]
      <4>1. PICK left \in {FALSE, txs[t].tree} :
              /\ txs[t].status = "aborting"
              /\ txs' = [txs EXCEPT ![t] = [status |-> "aborted", at |-> time,
                                            tree |-> left, dir |-> txs[t].dir]]
        BY <3>3, <2>2
      <4>2. txs'[t] = [status |-> "aborted", at |-> time, tree |-> left,
                       dir |-> txs[t].dir]
        BY <4>1, <2>2
      <4>3. txs'[t] \in TxRecord
        BY <4>1, <4>2, <2>2 DEF TxRecord, K!Status, K!Terminal
      <4>4. txs' \in [Tx -> TxRecord] /\ \A u \in Tx : u # t => txs'[u] = txs[u]
        BY <4>1, <4>3, <2>2
      <4> QED BY <4>1, <4>2, <4>4 DEF K!Terminal
    <3> QED BY <2>1, <3>1, <3>2, <3>3
  <2>4. \A u \in Tx : Over(u) => Over(u)' /\ txs'[u].status = txs[u].status
    BY <2>3 DEF Over
  <2>5. ToolShape'
    BY <2>1, <2>3 DEF ToolInv, ToolShape
  <2>6. TxSafe'
    BY <2>3, <2>4 DEF ToolInv, TxPart, TxSafe, Over, K!Terminal
  <2>7. jobs["expire"].at = "off"
    BY <2>1, "daemon" # "expire" DEF ToolInv, ToolShape
  <2>8. ExpireWorks'
    BY <2>7 DEF ToolInv, TxPart, ExpireWorks
  <2>9. PruneWorks'
    BY <2>3, <2>4 DEF ToolInv, TxPart, PruneWorks
  <2> QED BY <1>1, <2>5, <2>6, <2>8, <2>9 DEF ToolInv, TxPart
<1> QED BY <1>2, <1>3

\* The tools keep their places, and give the lock back when they stop.
LEMMA StopShape ==
  ASSUME ToolShape, ToolBounds, NEW k \in K!Tools, K!Stop(k),
         txs' \in [Tx -> TxRecord], time' \in Nat
  PROVE  /\ ToolShape'
         /\ jobs'[k] = K!Off
         /\ \A l \in K!Tools : l # k => jobs'[l] = jobs[l]
<1>1. K!Off \in Job /\ K!Off.at = "off"
  BY DEF K!Off, Job, ToolPlace
<1>2. /\ jobs' \in [K!Tools -> Job] /\ jobs'[k] = K!Off
      /\ \A l \in K!Tools : l # k => jobs'[l] = jobs[l]
  BY <1>1 DEF ToolShape, K!Stop, K!Go
<1>3. owner' = IF owner = k THEN None ELSE owner
  BY DEF K!Stop
<1> QED BY <1>1, <1>2, <1>3 DEF ToolShape, K!Tools

\* Of a set of backups no fewer are left than of a part of it.
LEMMA KeptMonotone ==
  ASSUME NEW n \in Nat, NEW B \in SUBSET (1 .. n), NEW A \in SUBSET B,
         NEW m \in Nat, Cardinality(A) >= m
  PROVE  Cardinality(B) >= m
<1>1. IsFiniteSet(B)
  <2>1. IsFiniteSet(1 .. n)
    BY FS_Interval
  <2> QED BY <2>1, FS_Subset
<1>2. IsFiniteSet(A) /\ Cardinality(A) <= Cardinality(B)
  BY <1>1, FS_Subset
<1>3. Cardinality(A) \in Nat /\ Cardinality(B) \in Nat
  BY <1>1, <1>2, FS_CardinalityType
<1> QED BY <1>2, <1>3

\* A new backup is written over no file that is being deleted.
LEMMA BackupMade ==
  ASSUME ToolInv, ToolBounds, NEW p \in Place, K!MakeBackup(p),
         UNCHANGED <<txs, hasty, owner, jobs, actions, gone, time, faults>>
  PROVE  ToolInv'
<1> DEFINE n == Len(catalog) + 1
           b0 == [place |-> p, made |-> time, listed |-> TRUE]
<1>1. ToolShape' /\ TxPart'
  BY TxFrame DEF ToolInv, ToolShape
<1>2. catalog \in Seq(BackupRecord) /\ Len(catalog) \in Nat /\ b0 \in BackupRecord
  BY DEF ToolInv, BackupPart, BackupsShape, ToolShape, BackupRecord
<1>3. /\ catalog' = Append(catalog, b0) /\ paths' = [paths EXCEPT ![p] = n]
      /\ \/ "backup" \in Overlaps
         \/ jobs["catalog"].at = "off"
         \/ \A b \in K!Listed : catalog[b].place # p
  BY DEF K!MakeBackup, K!At
<1>4. /\ catalog' \in Seq(BackupRecord) /\ Len(catalog') = n
      /\ \A b \in 1 .. Len(catalog) : catalog'[b] = catalog[b]
      /\ catalog'[n] = b0
  BY <1>2, <1>3, AppendProperties
<1>5. n \in Nat /\ 1 .. Len(catalog') = (1 .. Len(catalog)) \cup {n}
      /\ n \notin 1 .. Len(catalog)
  BY <1>2, <1>4
<1>6. \A q \in Place : paths'[q] = IF q = p THEN n ELSE paths[q]
  BY <1>3 DEF ToolInv, BackupPart, BackupsShape
<1>7. paths \in [Place -> Nat \cup {None, Damaged}] /\ gone \subseteq 1 .. Len(catalog)
  BY DEF ToolInv, BackupPart, BackupsShape
<1> HIDE DEF n
<1>8. BackupsShape'
  <2>1. paths' \in [Place -> Nat \cup {None, Damaged}]
    BY <1>3, <1>5, <1>7
  <2>2. \A q \in Place : paths'[q] \in Nat =>
          /\ paths'[q] \in 1 .. Len(catalog') /\ catalog'[paths'[q]].place = q
          /\ paths'[q] \notin gone
    BY <1>4, <1>5, <1>6, <1>7 DEF ToolInv, BackupPart, BackupsShape
  <2>3. \A b : <<"catalog", b>> \in actions => b \in 1 .. Len(catalog)
    BY DEF ToolInv, BackupPart, BackupsShape
  <2>4. ASSUME NEW b \in 1 .. Len(catalog'),
               <<"catalog", b>> \in actions \/ ~catalog'[b].listed
        PROVE  paths'[catalog'[b].place] # b
    <3>1. b \in 1 .. Len(catalog)
      BY <2>3, <2>4, <1>4, <1>5
    <3>2. catalog[b] \in BackupRecord
      BY <3>1, <1>2, ElementOfSeq
    <3>3. catalog[b].place \in Place
      BY <3>2 DEF BackupRecord
    <3>4. paths[catalog[b].place] # b
      BY <3>1, <2>4, <1>4 DEF ToolInv, BackupPart, BackupsShape
    <3> QED BY <3>1, <3>3, <3>4, <1>4, <1>5, <1>6
  <2> QED BY <1>4, <1>5, <1>7, <2>1, <2>2, <2>3, <2>4 DEF BackupsShape
<1>9. ASSUME NEW x, NEW given, Cardinality(Left(Len(catalog), x, given)) >= KeepLatest
      PROVE  Cardinality(Left(Len(catalog'), x, given)) >= KeepLatest
  <2> DEFINE A == Left(Len(catalog), x, given)
             B == Left(Len(catalog'), x, given)
  <2>1. B \in SUBSET (1 .. Len(catalog'))
    BY DEF Left
  <2>2. A \in SUBSET B /\ Cardinality(A) >= KeepLatest
    BY <1>5, <1>9 DEF Left
  <2>3. Len(catalog') \in Nat /\ KeepLatest \in Nat
    BY <1>4, <1>5 DEF ToolBounds
  <2> HIDE DEF A, B
  <2>4. Cardinality(B) >= KeepLatest
    BY <2>1, <2>2, <2>3, KeptMonotone
  <2> QED BY <2>4 DEF B
<1>10. BackupsKept'
  BY <1>9 DEF ToolInv, BackupPart, BackupsKept
<1>11. CatalogWorks'
  <2> DEFINE j == jobs["catalog"]
  <2>1. jobs' = jobs /\ gone' = gone
    OBVIOUS
  <2>2. /\ j.at \in {"off", "inspect", "remove", "unlist", "record"}
        /\ j.plan \subseteq 1 .. Len(catalog)
        /\ \A x \in j.plan :
             Cardinality(Left(Len(catalog), x, gone \cup j.plan)) >= KeepLatest
        /\ j.at \in {"remove", "unlist", "record"} => j.on \in j.plan
        /\ \A x \in j.plan :
             catalog[x].listed \/ (j.at \in {"unlist", "record"} /\ x = j.on)
        /\ j.at = "remove" => paths[catalog[j.on].place] \in {j.on, None, Damaged}
        /\ j.at \in {"unlist", "record"} => paths[catalog[j.on].place] # j.on
    BY DEF ToolInv, BackupPart, CatalogWorks
  <2> HIDE DEF j
  <2>3. j.plan \subseteq 1 .. Len(catalog')
    BY <2>2, <1>5
  <2>4. \A x \in j.plan :
          Cardinality(Left(Len(catalog'), x, gone \cup j.plan)) >= KeepLatest
    BY <2>2, <1>9
  <2>5. \A x \in j.plan : catalog'[x] = catalog[x] /\ catalog[x].place \in Place
    <3>1. ASSUME NEW x \in j.plan PROVE catalog[x] \in BackupRecord
      BY <2>2, <1>2, ElementOfSeq
    <3> QED BY <3>1, <2>2, <1>4 DEF BackupRecord
  <2>6. j.at = "remove" => paths'[catalog'[j.on].place] \in {j.on, None, Damaged}
    <3>1. SUFFICES ASSUME j.at = "remove"
                   PROVE  paths'[catalog'[j.on].place] \in {j.on, None, Damaged}
      OBVIOUS
    <3>2. j.on \in j.plan /\ catalog[j.on].listed
      BY <3>1, <2>2
    <3>3. \A b \in K!Listed : catalog[b].place # p
      BY <3>1, <1>3 DEF ToolBounds, j
    <3>4. DOMAIN catalog = 1 .. Len(catalog)
      BY <1>2, LenProperties
    <3>5. catalog[j.on].place # p
      BY <3>2, <3>3, <3>4, <2>2 DEF K!Listed
    <3> QED BY <3>1, <3>2, <3>5, <2>2, <2>5, <1>6
  <2>7. j.at \in {"unlist", "record"} => paths'[catalog'[j.on].place] # j.on
    BY <2>2, <2>5, <1>5, <1>6
  <2> QED BY <2>1, <2>2, <2>3, <2>4, <2>5, <2>6, <2>7 DEF CatalogWorks, j
<1> QED BY <1>1, <1>8, <1>10, <1>11 DEF ToolInv, BackupPart

\* A file that is lost or damaged holds no backup any more.
LEMMA FileDamaged ==
  ASSUME ToolInv, ToolBounds, NEW p \in Place, K!Damage(p),
         UNCHANGED <<txs, hasty, owner, jobs, actions, gone, catalog, time>>
  PROVE  ToolInv'
<1>1. ToolShape' /\ TxPart'
  BY TxFrame DEF ToolInv, ToolShape
<1>2. PICK c \in {None, Damaged} : paths' = [paths EXCEPT ![p] = c]
  BY DEF K!Damage
<1>3. paths \in [Place -> Nat \cup {None, Damaged}] /\ None \notin Nat /\ Damaged \notin Nat
  BY DEF ToolInv, BackupPart, BackupsShape, ToolBounds
<1>4. /\ paths' \in [Place -> Nat \cup {None, Damaged}]
      /\ \A q \in Place : paths'[q] = IF q = p THEN c ELSE paths[q]
  BY <1>2, <1>3
<1>5. catalog \in Seq(BackupRecord) /\ Len(catalog) \in Nat
  BY DEF ToolInv, BackupPart, BackupsShape
<1>6. \A b \in 1 .. Len(catalog) : catalog[b].place \in Place /\ b \in Nat
  <2>1. ASSUME NEW b \in 1 .. Len(catalog) PROVE catalog[b] \in BackupRecord
    BY <1>5, ElementOfSeq
  <2> QED BY <2>1 DEF BackupRecord
<1>7. \A b \in 1 .. Len(catalog) :
        paths[catalog[b].place] # b => paths'[catalog[b].place] # b
  BY <1>2, <1>3, <1>4, <1>6
<1>8. BackupsShape'
  BY <1>2, <1>3, <1>4, <1>7 DEF ToolInv, BackupPart, BackupsShape
<1>9. BackupsKept'
  BY DEF ToolInv, BackupPart, BackupsKept
<1>10. CatalogWorks'
  <2> DEFINE j == jobs["catalog"]
  <2>1. /\ j.at \in {"remove", "unlist", "record"} => j.on \in j.plan
        /\ j.plan \subseteq 1 .. Len(catalog)
        /\ j.at = "remove" => paths[catalog[j.on].place] \in {j.on, None, Damaged}
        /\ j.at \in {"unlist", "record"} => paths[catalog[j.on].place] # j.on
    BY DEF ToolInv, BackupPart, CatalogWorks
  <2> HIDE DEF j
  <2>2. j.at = "remove" => paths'[catalog[j.on].place] \in {j.on, None, Damaged}
    BY <2>1, <1>2, <1>4, <1>6
  <2>3. j.at \in {"unlist", "record"} => paths'[catalog[j.on].place] # j.on
    BY <2>1, <1>6, <1>7
  <2> QED BY <2>2, <2>3 DEF ToolInv, BackupPart, CatalogWorks, j
<1> QED BY <1>1, <1>8, <1>9, <1>10 DEF ToolInv, BackupPart

\* Killing a tool leaves the files, and gives its lock back.
LEMMA ToolKilled ==
  ASSUME ToolInv, ToolBounds, NEW k \in K!Tools, K!Crash(k),
         UNCHANGED <<txs, hasty, paths, catalog, gone, actions, time>>
  PROVE  ToolInv'
<1>1. K!Stop(k)
  BY DEF K!Crash
<1>2. /\ ToolShape'
      /\ jobs'[k] = K!Off
      /\ \A l \in K!Tools : l # k => jobs'[l] = jobs[l]
  <2>1. ToolShape /\ txs' \in [Tx -> TxRecord] /\ time' \in Nat
    BY DEF ToolInv, ToolShape
  <2> QED BY <1>1, <2>1, StopShape
<1>3. \A l \in {"expire", "prune", "catalog"} : jobs'[l] \in {jobs[l], K!Off}
  BY <1>2 DEF K!Tools
<1>4. TxPart' /\ BackupPart'
  BY <1>3, TxFrame, BackupFrame DEF ToolInv
<1> QED BY <1>2, <1>4 DEF ToolInv

\* Everything that happens beside the tools.
LEMMA WorldMoves == ASSUME ToolInv, ToolBounds, K!World PROVE ToolInv'
<1> USE DEF K!txVars, K!backupVars
<1>1. CASE K!DaemonWork /\ UNCHANGED <<K!backupVars, jobs, actions, hasty, time, faults>>
  BY <1>1, DaemonWorks
<1>2. ASSUME NEW p \in Place, K!MakeBackup(p),
             UNCHANGED <<K!txVars, owner, jobs, actions, gone, time, faults>>
      PROVE  ToolInv'
  BY <1>2, BackupMade
<1>3. ASSUME NEW p \in Place, K!Damage(p),
             UNCHANGED <<K!txVars, owner, catalog, gone, jobs, actions, time>>
      PROVE  ToolInv'
  BY <1>3, FileDamaged
<1>4. ASSUME NEW k \in K!Tools, K!Crash(k),
             UNCHANGED <<K!txVars, K!backupVars, actions, time>>
      PROVE  ToolInv'
  BY <1>4, ToolKilled
<1>5. ASSUME time' = time + 1,
             UNCHANGED <<K!txVars, K!backupVars, owner, jobs, actions, faults>>
      PROVE  ToolInv'
  BY <1>5, TxFrame, BackupFrame DEF ToolInv, ToolShape
<1> QED BY <1>1, <1>2, <1>3, <1>4, <1>5 DEF K!World

\* A step of one tool moves that tool only.
LEMMA GoShape ==
  ASSUME ToolShape, NEW k \in K!Tools, NEW job \in Job, K!Go(k, job)
  PROVE  /\ jobs' \in [K!Tools -> Job]
         /\ jobs'[k] = job
         /\ \A l \in K!Tools : l # k => jobs'[l] = jobs[l]
BY DEF ToolShape, K!Go

\* Expiry plans under the lock of the data root.
LEMMA ExpirePlanned ==
  ASSUME ToolInv, ToolBounds, K!ExpirePlan, UNCHANGED <<paths, catalog, gone, time>>
  PROVE  ToolInv'
<1> DEFINE job == [K!Off EXCEPT !.at = "next", !.plan = K!Stale]
<1>1. K!Stale \subseteq ExpireTask
  BY DEF ToolInv, ToolShape, TxRecord, K!Stale, ExpireTask
<1>2. job.at = "next" /\ job.plan = K!Stale
  BY DEF K!Off
<1>3. job \in Job
  BY <1>1 DEF Job, Work, ToolPlace, K!Off
<1>4. K!Go("expire", job) /\ UNCHANGED <<txs, hasty, actions>> /\ owner = None
      /\ owner' = "expire"
  BY DEF K!ExpirePlan, K!txVars
<1>5. /\ jobs' \in [K!Tools -> Job] /\ jobs'["expire"] = job
      /\ \A l \in K!Tools : l # "expire" => jobs'[l] = jobs[l]
  BY <1>3, <1>4, GoShape DEF ToolInv, K!Tools
<1>6. jobs["catalog"].at = "off" /\ jobs'["catalog"] = jobs["catalog"]
      /\ jobs'["prune"] = jobs["prune"]
  BY <1>4, <1>5 DEF ToolInv, ToolShape, ToolBounds, K!Tools
<1>7. ToolShape'
  BY <1>4, <1>5, <1>6 DEF ToolInv, ToolShape
<1>8. BackupPart'
  BY <1>4, <1>6, BackupFrame DEF ToolInv
<1>9. TxPart'
  BY <1>1, <1>2, <1>4, <1>5, <1>6
     DEF ToolInv, TxPart, TxSafe, ExpireWorks, PruneWorks, Over
<1> QED BY <1>7, <1>8, <1>9 DEF ToolInv

\* When the expiry is about to abort one it has just seen that nobody touched it.
LEMMA ExpireChecked ==
  ASSUME ToolInv, ToolBounds, K!ExpireCheck, UNCHANGED <<paths, catalog, gone, time>>
  PROVE  ToolInv'
<1>1. UNCHANGED <<txs, hasty, actions>> /\ jobs["expire"].at = "next"
  BY DEF K!ExpireCheck, K!txVars, K!At
<1>2. CASE K!Stop("expire")
  <2>1. /\ ToolShape'
        /\ jobs'["expire"] = K!Off
        /\ \A l \in K!Tools : l # "expire" => jobs'[l] = jobs[l]
    <3>1. ToolShape /\ txs' \in [Tx -> TxRecord] /\ time' \in Nat /\ "expire" \in K!Tools
      BY <1>1 DEF ToolInv, ToolShape, K!Tools
    <3> QED BY <1>2, <3>1, StopShape
  <2> QED BY <1>1, <2>1, TxFrame, BackupFrame DEF ToolInv, K!Tools
<1>3. ASSUME NEW c \in jobs["expire"].plan,
             txs[c.tx].status = c.status, txs[c.tx].at = c.at, UNCHANGED owner,
             K!Go("expire", [jobs["expire"] EXCEPT !.at = "abort", !.on = c])
      PROVE  ToolInv'
  <2> DEFINE job == [jobs["expire"] EXCEPT !.at = "abort", !.on = c]
  <2>1. jobs["expire"] \in Job /\ c \in ExpireTask /\ jobs["expire"].plan \subseteq ExpireTask
    BY <1>3 DEF ToolInv, ToolShape, TxPart, ExpireWorks, K!Tools
  <2>2. job \in Job /\ job.at = "abort" /\ job.on = c /\ job.plan = jobs["expire"].plan
    BY <2>1 DEF Job, Work, ToolPlace
  <2>3. /\ jobs' \in [K!Tools -> Job] /\ jobs'["expire"] = job
        /\ \A l \in K!Tools : l # "expire" => jobs'[l] = jobs[l]
    BY <1>3, <2>2, GoShape DEF ToolInv, K!Tools
  <2>4. jobs'["catalog"] = jobs["catalog"] /\ jobs'["prune"] = jobs["prune"]
    BY <2>3 DEF K!Tools
  <2> HIDE DEF job
  <2>5. ToolShape'
    BY <1>1, <1>3, <2>3, <2>4 DEF ToolInv, ToolShape
  <2>6. BackupPart'
    BY <1>1, <2>4, BackupFrame DEF ToolInv
  <2>7. TxPart'
    BY <1>1, <1>3, <2>1, <2>2, <2>3, <2>4
       DEF ToolInv, TxPart, TxSafe, ExpireWorks, PruneWorks, Over
  <2> QED BY <2>5, <2>6, <2>7 DEF ToolInv
<1> QED BY <1>2, <1>3 DEF K!ExpireCheck

\* Aborting finds the transaction as it was checked: the daemon is locked out.
LEMMA ExpireAborts ==
  ASSUME ToolInv, ToolBounds, K!ExpireAbort, UNCHANGED <<paths, catalog, gone, time>>
  PROVE  ToolInv'
<1> DEFINE c == jobs["expire"].on
           job == [jobs["expire"] EXCEPT !.at = "remove"]
<1>1. /\ jobs["expire"] \in Job /\ jobs["expire"].at = "abort" /\ c \in ExpireTask
      /\ c.tx \in Tx /\ txs[c.tx] \in TxRecord
      /\ txs[c.tx].status = c.status /\ txs[c.tx].at = c.at
      /\ UNCHANGED actions
  BY DEF K!ExpireAbort, K!At, ToolInv, ToolShape, TxPart, ExpireWorks, K!Tools, ExpireTask
<1>2. CASE txs[c.tx].status \in K!Safe
  <2>1. /\ txs' = [txs EXCEPT ![c.tx].status = "aborting", ![c.tx].at = time]
        /\ hasty' = hasty /\ UNCHANGED owner
        /\ K!Go("expire", job)
    BY <1>1, <1>2 DEF K!ExpireAbort, K!SetStatus
  <2>2. job \in Job /\ job.at = "remove" /\ job.on = c /\ job.plan = jobs["expire"].plan
    BY <1>1 DEF Job, ToolPlace
  <2>3. /\ jobs' \in [K!Tools -> Job] /\ jobs'["expire"] = job
        /\ \A l \in K!Tools : l # "expire" => jobs'[l] = jobs[l]
    BY <2>1, <2>2, GoShape DEF ToolInv, K!Tools
  <2>4. jobs'["catalog"] = jobs["catalog"] /\ jobs'["prune"] = jobs["prune"]
    BY <2>3 DEF K!Tools
  <2> HIDE DEF job, c
  <2>5. /\ txs' \in [Tx -> TxRecord]
        /\ \A u \in Tx : u # c.tx => txs'[u] = txs[u]
        /\ txs'[c.tx].status = "aborting"
        /\ txs'[c.tx].dir = txs[c.tx].dir /\ txs'[c.tx].tree = txs[c.tx].tree
    BY <1>1, <2>1 DEF ToolInv, ToolShape, TxRecord, K!Status
  <2>6. ~Over(c.tx) /\ txs[c.tx].status # "aborted" /\ txs[c.tx].status # "aborting"
    BY <1>2 DEF Over, K!Safe, K!Terminal
  <2>7. ToolShape'
    BY <1>1, <2>1, <2>3, <2>4, <2>5 DEF ToolInv, ToolShape
  <2>8. BackupPart'
    BY <1>1, <2>4, BackupFrame DEF ToolInv
  <2>9. \A u \in Tx : Over(u) => Over(u)' /\ txs'[u] = txs[u]
    BY <2>5, <2>6 DEF Over
  <2>10. TxSafe'
    BY <1>1, <2>1, <2>5, <2>6, <2>9 DEF ToolInv, TxPart, TxSafe, Over
  <2>11. ExpireWorks'
    BY <1>1, <2>2, <2>3, <2>5 DEF ToolInv, TxPart, ExpireWorks
  <2>12. PruneWorks'
    BY <2>4, <2>9 DEF ToolInv, TxPart, PruneWorks
  <2> QED BY <2>7, <2>8, <2>10, <2>11, <2>12 DEF ToolInv, TxPart
<1>3. CASE txs[c.tx].status \notin K!Safe
  <2>1. K!Stop("expire") /\ UNCHANGED <<txs, hasty>>
    BY <1>3 DEF K!ExpireAbort, K!txVars
  <2>2. /\ ToolShape'
        /\ jobs'["expire"] = K!Off
        /\ \A l \in K!Tools : l # "expire" => jobs'[l] = jobs[l]
    <3>1. ToolShape /\ txs' \in [Tx -> TxRecord] /\ time' \in Nat /\ "expire" \in K!Tools
      BY <2>1 DEF ToolInv, ToolShape, K!Tools
    <3> QED BY <2>1, <3>1, StopShape
  <2> QED BY <1>1, <2>1, <2>2, TxFrame, BackupFrame DEF ToolInv, K!Tools
<1> QED BY <1>2, <1>3

\* What is removed, or stays behind, is of a transaction being aborted.
LEMMA ExpireRemoves ==
  ASSUME ToolInv, ToolBounds, K!ExpireRemove, UNCHANGED <<paths, catalog, gone, time>>
  PROVE  ToolInv'
<1> DEFINE c == jobs["expire"].on
           job == [jobs["expire"] EXCEPT !.at = "record"]
<1>1. /\ jobs["expire"] \in Job /\ jobs["expire"].at = "remove" /\ c \in ExpireTask
      /\ c.tx \in Tx /\ txs[c.tx] \in TxRecord /\ txs[c.tx].status = "aborting"
      /\ UNCHANGED <<actions, owner, hasty>> /\ K!Go("expire", job)
  BY DEF K!ExpireRemove, K!At, ToolInv, ToolShape, TxPart, ExpireWorks, K!Tools, ExpireTask
<1>2. PICK left \in {FALSE, txs[c.tx].tree} :
        txs' = [txs EXCEPT ![c.tx] = [@ EXCEPT !.status = "aborted", !.at = time,
                                               !.tree = left]]
  BY DEF K!ExpireRemove
<1>3. job \in Job /\ job.at = "record" /\ job.on = c /\ job.plan = jobs["expire"].plan
  BY <1>1 DEF Job, ToolPlace
<1>4. /\ jobs' \in [K!Tools -> Job] /\ jobs'["expire"] = job
      /\ \A l \in K!Tools : l # "expire" => jobs'[l] = jobs[l]
  BY <1>1, <1>3, GoShape DEF ToolInv, K!Tools
<1>5. jobs'["catalog"] = jobs["catalog"] /\ jobs'["prune"] = jobs["prune"]
  BY <1>4 DEF K!Tools
<1> HIDE DEF job, c
<1>6. /\ txs' \in [Tx -> TxRecord]
      /\ \A u \in Tx : u # c.tx => txs'[u] = txs[u]
      /\ txs'[c.tx].status = "aborted" /\ txs'[c.tx].dir = txs[c.tx].dir
  <2>1. txs'[c.tx] = [txs[c.tx] EXCEPT !.status = "aborted", !.at = time, !.tree = left]
    BY <1>1, <1>2 DEF ToolInv, ToolShape
  <2>2. /\ txs'[c.tx] \in TxRecord /\ txs'[c.tx].status = "aborted"
        /\ txs'[c.tx].dir = txs[c.tx].dir
    BY <1>1, <1>2, <2>1 DEF ToolInv, ToolShape, TxRecord, K!Status, K!Terminal
  <2>3. txs \in [Tx -> TxRecord]
    BY DEF ToolInv, ToolShape
  <2> QED BY <1>1, <1>2, <2>2, <2>3
<1>7. ToolShape'
  BY <1>1, <1>4, <1>5, <1>6 DEF ToolInv, ToolShape
<1>8. BackupPart'
  BY <1>1, <1>5, BackupFrame DEF ToolInv
<1>9. \A u \in Tx : Over(u) => Over(u)' /\ txs'[u] = txs[u]
  BY <1>1, <1>6 DEF Over, K!Terminal
<1>10. TxSafe'
  BY <1>1, <1>6, <1>9 DEF ToolInv, TxPart, TxSafe, Over, K!Terminal
<1>11. ExpireWorks'
  BY <1>1, <1>3, <1>4, <1>6 DEF ToolInv, TxPart, ExpireWorks
<1>12. PruneWorks'
  BY <1>5, <1>9 DEF ToolInv, TxPart, PruneWorks
<1> QED BY <1>7, <1>8, <1>10, <1>11, <1>12 DEF ToolInv, TxPart

\* The record of an expiry follows the abort.
LEMMA ExpireRecords ==
  ASSUME ToolInv, ToolBounds, K!ExpireRecord, UNCHANGED <<paths, catalog, gone, time>>
  PROVE  ToolInv'
<1> DEFINE c == jobs["expire"].on
           plan == jobs["expire"].plan \ {c}
           job == [K!Off EXCEPT !.at = "next", !.plan = plan]
<1>1. /\ jobs["expire"].at = "record" /\ c \in ExpireTask /\ txs[c.tx].status = "aborted"
      /\ actions' = actions \cup {<<"expire", c.tx>>} /\ K!Go("expire", job)
      /\ UNCHANGED <<txs, hasty, owner>>
      /\ owner = "expire" /\ jobs["expire"].plan \subseteq ExpireTask
  BY DEF K!ExpireRecord, K!At, K!txVars, ToolInv, ToolShape, TxPart, ExpireWorks
<1>2. job \in Job /\ job.at = "next" /\ job.plan = plan
  BY <1>1 DEF Job, ToolPlace, Work, K!Off
<1>3. /\ jobs' \in [K!Tools -> Job] /\ jobs'["expire"] = job
      /\ \A l \in K!Tools : l # "expire" => jobs'[l] = jobs[l]
  BY <1>1, <1>2, GoShape DEF ToolInv, K!Tools
<1>4. jobs'["catalog"] = jobs["catalog"] /\ jobs'["prune"] = jobs["prune"]
  BY <1>3 DEF K!Tools
<1> HIDE DEF job
<1>5. ToolShape'
  BY <1>1, <1>3, <1>4 DEF ToolInv, ToolShape
<1>6. \A b : <<"catalog", b>> \in actions' => <<"catalog", b>> \in actions
  BY <1>1
<1>7. BackupPart'
  BY <1>1, <1>4, <1>6, BackupFrame DEF ToolInv
<1>8. TxSafe'
  BY <1>1 DEF ToolInv, TxPart, TxSafe, Over
<1>9. ExpireWorks'
  BY <1>1, <1>2, <1>3 DEF ExpireWorks
<1>10. PruneWorks'
  BY <1>1, <1>4 DEF ToolInv, TxPart, PruneWorks, Over
<1> QED BY <1>5, <1>7, <1>8, <1>9, <1>10 DEF ToolInv, TxPart

\* Whatever a step of pruning removes belongs to a transaction that is over.
LEMMA PruneStep ==
  ASSUME ToolInv, ToolBounds, NEW job \in Job, K!Go("prune", job),
         UNCHANGED <<hasty, owner, time, paths, catalog, gone>>,
         txs' \in [Tx -> TxRecord],
         \A t \in Tx :
           /\ txs'[t].status = txs[t].status /\ txs'[t].at = txs[t].at
           /\ txs[t].dir \/ ~txs'[t].dir
           /\ ~txs'[t].dir => ~txs[t].dir \/ Over(t)
           /\ ~txs'[t].tree => ~txs[t].tree \/ Over(t)
           /\ <<"expire", t>> \in actions' => <<"expire", t>> \in actions
           /\ <<"prune", t>> \in actions' =>
                <<"prune", t>> \in actions \/ ~txs'[t].dir,
         \A b : <<"catalog", b>> \in actions' => <<"catalog", b>> \in actions,
         job.at \in {"off", "tree", "dir", "record"}, job.plan \subseteq Tx,
         \A t \in job.plan : Over(t),
         job.at \in {"dir", "record"} => job.on \in Tx /\ Over(job.on),
         job.at = "record" => ~txs'[job.on].dir
  PROVE  ToolInv'
<1>1. /\ jobs' \in [K!Tools -> Job] /\ jobs'["prune"] = job
      /\ \A l \in K!Tools : l # "prune" => jobs'[l] = jobs[l]
  BY GoShape DEF ToolInv, K!Tools
<1>2. jobs'["catalog"] = jobs["catalog"] /\ jobs'["expire"] = jobs["expire"]
  BY <1>1 DEF K!Tools
<1>3. ToolShape'
  BY <1>1, <1>2 DEF ToolInv, ToolShape
<1>4. BackupPart'
  BY <1>2, BackupFrame DEF ToolInv
<1>5. \A t \in Tx : Over(t)' <=> Over(t)
  BY DEF Over
<1>6. TxSafe'
  BY <1>5 DEF ToolInv, TxPart, TxSafe, Over
<1>7. ExpireWorks'
  <2>1. \A x \in ExpireTask : x.tx \in Tx
    BY DEF ExpireTask
  <2> QED BY <1>2, <2>1 DEF ToolInv, TxPart, ExpireWorks
<1>8. PruneWorks'
  BY <1>1, <1>5 DEF PruneWorks
<1> QED BY <1>3, <1>4, <1>6, <1>7, <1>8 DEF ToolInv, TxPart

\* Pruning plans for what is over, with no lock.
LEMMA PrunePlanned ==
  ASSUME ToolInv, ToolBounds, K!PrunePlan, UNCHANGED <<paths, catalog, gone, time>>
  PROVE  ToolInv'
<1> DEFINE job == [K!Off EXCEPT !.at = "tree", !.plan = K!TerminalWorkspaces]
<1>1. K!Go("prune", job) /\ UNCHANGED <<txs, hasty, actions, owner>>
  BY DEF K!PrunePlan, K!txVars
<1>2. K!TerminalWorkspaces \subseteq Tx /\ \A t \in K!TerminalWorkspaces : Over(t)
  BY DEF K!TerminalWorkspaces, Over
<1>3. job \in Job /\ job.at = "tree" /\ job.plan = K!TerminalWorkspaces
  BY <1>2 DEF Job, ToolPlace, Work, K!Off
<1> HIDE DEF job
<1>4. txs' \in [Tx -> TxRecord]
  BY <1>1 DEF ToolInv, ToolShape
<1> QED BY <1>1, <1>2, <1>3, <1>4, PruneStep

\* Going on with the next one, whether this one was pruned or not.
LEMMA PruneSkips ==
  ASSUME ToolInv, ToolBounds, NEW u \in Tx, K!Skip(u),
         \/ UNCHANGED actions
         \/ actions' = actions \cup {<<"prune", u>>} /\ ~txs[u].dir,
         UNCHANGED <<txs, hasty, owner, time, paths, catalog, gone>>
  PROVE  ToolInv'
<1> DEFINE plan == jobs["prune"].plan \ {u}
           job == [K!Off EXCEPT !.at = "tree", !.plan = plan]
<1>1. K!Go("prune", job)
  BY DEF K!Skip
<1>2. plan \subseteq Tx /\ \A t \in plan : Over(t)
  BY DEF ToolInv, TxPart, PruneWorks
<1>3. job \in Job /\ job.at = "tree" /\ job.plan = plan
  BY <1>2 DEF Job, ToolPlace, Work, K!Off
<1> HIDE DEF job, plan
<1>4. txs' \in [Tx -> TxRecord]
  BY DEF ToolInv, ToolShape
<1>5. \A t \in Tx :
        /\ <<"expire", t>> \in actions' => <<"expire", t>> \in actions
        /\ <<"prune", t>> \in actions' => <<"prune", t>> \in actions \/ ~txs'[t].dir
  OBVIOUS
<1>6. \A b : <<"catalog", b>> \in actions' => <<"catalog", b>> \in actions
  OBVIOUS
<1> QED BY <1>1, <1>2, <1>3, <1>4, <1>5, <1>6, PruneStep

\* A worktree that goes is of a transaction that is still over.
LEMMA PruneTrees ==
  ASSUME ToolInv, ToolBounds, K!PruneTree, UNCHANGED <<paths, catalog, gone, time>>
  PROVE  ToolInv'
<1>1. UNCHANGED <<actions, hasty>> /\ jobs["prune"] \in Job
      /\ jobs["prune"].plan \subseteq Tx /\ \A t \in jobs["prune"].plan : Over(t)
  BY DEF K!PruneTree, ToolInv, ToolShape, TxPart, PruneWorks, K!Tools
<1>2. CASE K!Stop("prune") /\ UNCHANGED txs
  <2>1. /\ ToolShape'
        /\ jobs'["prune"] = K!Off
        /\ \A l \in K!Tools : l # "prune" => jobs'[l] = jobs[l]
    <3>1. ToolShape /\ txs' \in [Tx -> TxRecord] /\ time' \in Nat /\ "prune" \in K!Tools
      BY <1>2 DEF ToolInv, ToolShape, K!Tools
    <3> QED BY <1>2, <3>1, StopShape
  <2> QED BY <1>1, <1>2, <2>1, TxFrame, BackupFrame DEF ToolInv, K!Tools
<1>3. ASSUME NEW t \in jobs["prune"].plan, UNCHANGED owner,
             txs' = [txs EXCEPT ![t].tree = FALSE],
             K!Go("prune", [jobs["prune"] EXCEPT !.at = "dir", !.on = t])
      PROVE  ToolInv'
  <2> DEFINE job == [jobs["prune"] EXCEPT !.at = "dir", !.on = t]
  <2>1. t \in Tx /\ Over(t)
    BY <1>1, <1>3
  <2>2. job \in Job /\ job.at = "dir" /\ job.on = t /\ job.plan = jobs["prune"].plan
    BY <1>1, <2>1 DEF Job, ToolPlace, Work
  <2> HIDE DEF job
  <2>3. txs' \in [Tx -> TxRecord]
    BY <1>3, <2>1 DEF ToolInv, ToolShape, TxRecord
  <2>4. \A u \in Tx :
          /\ txs'[u].status = txs[u].status /\ txs'[u].at = txs[u].at
          /\ txs'[u].dir = txs[u].dir
          /\ ~txs'[u].tree => ~txs[u].tree \/ Over(u)
    BY <1>3, <2>1 DEF ToolInv, ToolShape, TxRecord
  <2>5. K!Go("prune", job)
    BY <1>3 DEF job
  <2> QED BY <1>1, <1>3, <2>1, <2>2, <2>3, <2>4, <2>5, PruneStep
<1>4. ASSUME NEW t \in jobs["prune"].plan, UNCHANGED <<owner, txs>>, K!Skip(t)
      PROVE  ToolInv'
  BY <1>1, <1>4, PruneSkips
<1> QED BY <1>2, <1>3, <1>4 DEF K!PruneTree

\* So is a directory that goes.
LEMMA PruneDirs ==
  ASSUME ToolInv, ToolBounds, K!PruneDir, UNCHANGED <<paths, catalog, gone, time>>
  PROVE  ToolInv'
<1> DEFINE t == jobs["prune"].on
           job == [jobs["prune"] EXCEPT !.at = "record"]
<1>1. /\ UNCHANGED <<owner, actions, hasty>> /\ jobs["prune"] \in Job
      /\ jobs["prune"].at = "dir" /\ t \in Tx /\ Over(t)
      /\ jobs["prune"].plan \subseteq Tx /\ \A u \in jobs["prune"].plan : Over(u)
  BY DEF K!PruneDir, K!At, ToolInv, ToolShape, TxPart, PruneWorks, K!Tools
<1>2. CASE txs' = [txs EXCEPT ![t].dir = FALSE] /\ K!Go("prune", job)
  <2>1. job \in Job /\ job.at = "record" /\ job.on = t /\ job.plan = jobs["prune"].plan
    BY <1>1 DEF Job, ToolPlace
  <2>2. txs' \in [Tx -> TxRecord] /\ ~txs'[t].dir
    BY <1>1, <1>2 DEF ToolInv, ToolShape, TxRecord
  <2>3. \A u \in Tx :
          /\ txs'[u].status = txs[u].status /\ txs'[u].at = txs[u].at
          /\ txs[u].dir \/ ~txs'[u].dir
          /\ ~txs'[u].dir => ~txs[u].dir \/ Over(u)
          /\ txs'[u].tree = txs[u].tree
    BY <1>1, <1>2 DEF ToolInv, ToolShape, TxRecord
  <2> HIDE DEF job, t
  <2> QED BY <1>1, <1>2, <2>1, <2>2, <2>3, PruneStep
<1>3. CASE K!Skip(t) /\ UNCHANGED txs
  <2> HIDE DEF t
  <2> QED BY <1>1, <1>3, PruneSkips
<1> QED BY <1>2, <1>3 DEF K!PruneDir

\* The record of a pruning follows the removal of the directory.
LEMMA PruneRecords ==
  ASSUME ToolInv, ToolBounds, K!PruneRecord, UNCHANGED <<paths, catalog, gone, time>>
  PROVE  ToolInv'
<1> DEFINE t == jobs["prune"].on
<1>1. /\ t \in Tx /\ ~txs[t].dir /\ K!Skip(t)
      /\ actions' = actions \cup {<<"prune", t>>} /\ UNCHANGED <<owner, txs, hasty>>
  BY DEF K!PruneRecord, K!At, K!txVars, ToolInv, TxPart, PruneWorks
<1> HIDE DEF t
<1> QED BY <1>1, PruneSkips

\* What the catalog and its job are made of.
LEMMA CatalogShape ==
  ASSUME ToolInv
  PROVE  /\ catalog \in Seq(BackupRecord) /\ Len(catalog) \in Nat
         /\ DOMAIN catalog = 1 .. Len(catalog)
         /\ \A b \in 1 .. Len(catalog) :
              catalog[b] \in BackupRecord /\ catalog[b].place \in Place /\ b \in Nat
         /\ jobs["catalog"] \in Job /\ jobs["catalog"].plan \subseteq 1 .. Len(catalog)
<1>1. catalog \in Seq(BackupRecord) /\ jobs["catalog"] \in Job
      /\ jobs["catalog"].plan \subseteq 1 .. Len(catalog)
  BY DEF ToolInv, ToolShape, BackupPart, BackupsShape, CatalogWorks, K!Tools
<1>2. Len(catalog) \in Nat /\ DOMAIN catalog = 1 .. Len(catalog)
  BY <1>1, LenProperties
<1>3. ASSUME NEW b \in 1 .. Len(catalog)
      PROVE  catalog[b] \in BackupRecord /\ catalog[b].place \in Place /\ b \in Nat
  <2>1. catalog[b] \in BackupRecord
    BY <1>1, ElementOfSeq
  <2> QED BY <1>2, <2>1 DEF BackupRecord
<1> QED BY <1>1, <1>2, <1>3

\* The newest KeepLatest of the backups after a candidate are no candidates.
LEMMA CandidatesLeaveEnough ==
  ASSUME ToolInv, ToolBounds, \A b \in K!Listed : K!Inspect(b)
  PROVE  /\ K!Candidates \subseteq 1 .. Len(catalog)
         /\ \A x \in K!Candidates :
              /\ catalog[x].listed
              /\ Cardinality(Left(Len(catalog), x, gone \cup K!Candidates)) >= KeepLatest
<1>1. K!Listed \subseteq 1 .. Len(catalog) /\ Len(catalog) \in Nat
  BY CatalogShape DEF K!Listed
<1>2. K!Candidates \subseteq K!Listed
  BY DEF K!Candidates
<1>3. K!Listed \cap gone = {}
  <2>1. ASSUME NEW b \in K!Listed PROVE b \notin gone
    <3>1. paths[catalog[b].place] = b /\ catalog[b].place \in Place /\ b \in Nat
      BY <1>1, CatalogShape DEF K!Inspect
    <3> QED BY <3>1 DEF ToolInv, BackupPart, BackupsShape
  <2> QED BY <2>1
<1>4. ASSUME NEW x \in K!Candidates
      PROVE  Cardinality(Left(Len(catalog), x, gone \cup K!Candidates)) >= KeepLatest
  <2> DEFINE S == K!Newer(x)
             A == {o \in S : Cardinality({p \in S : p > o}) < KeepLatest}
             B == Left(Len(catalog), x, gone \cup K!Candidates)
  <2>1. S = {o \in K!Listed : o > x} /\ x \in 1 .. Len(catalog)
    BY <1>1, <1>2 DEF K!Newer
  <2>2. S \in SUBSET (1 .. Len(catalog)) /\ S \in SUBSET Nat
    <3>1. S \subseteq K!Listed
      BY <2>1
    <3>2. 1 .. Len(catalog) \subseteq Nat
      BY <1>1
    <3> HIDE DEF S
    <3> QED BY <1>1, <3>1, <3>2
  <2>3. IsFiniteSet(S)
    <3>1. IsFiniteSet(1 .. Len(catalog))
      BY <1>1, FS_Interval
    <3> HIDE DEF S
    <3> QED BY <2>2, <3>1, FS_Subset
  <2>4. KeepLatest \in Nat
    BY DEF ToolBounds
  <2>5. Cardinality(S) >= KeepLatest
    <3>1. K!Cardinality(S) >= KeepLatest
      BY DEF K!Candidates
    <3> HIDE DEF S
    <3> QED BY <3>1, ToolsCount
  <2>6. Cardinality(A) >= KeepLatest
    <3> HIDE DEF S
    <3> QED BY <2>2, <2>3, <2>4, <2>5, NewestMany
  <2>7. ASSUME NEW o \in A PROVE o \in B
    <3>1. o \in S /\ Cardinality({p \in S : p > o}) < KeepLatest
      BY <2>7
    <3>2. o \in K!Listed /\ o > x /\ o \in 1 .. Len(catalog) /\ o \notin gone
      BY <2>1, <2>2, <3>1, <1>3
    <3>3. K!Newer(o) = {p \in S : p > o}
      <4>1. \A p \in K!Listed : p \in Nat /\ (p > o => p > x)
        BY <1>1, <2>1, <3>2
      <4>2. K!Newer(o) = {p \in K!Listed : p > o}
        BY DEF K!Newer
      <4> HIDE DEF S
      <4> QED BY <2>1, <4>1, <4>2
    <3>4. Cardinality(K!Newer(o)) < KeepLatest
      <4> HIDE DEF S
      <4> QED BY <3>1, <3>3
    <3>5. IsFiniteSet(K!Newer(o))
      <4> HIDE DEF S
      <4> QED BY <2>3, <3>3, FS_Subset
    <3>6. Cardinality(K!Newer(o)) \in Nat
      BY <3>5, FS_CardinalityType
    <3>7. o \notin K!Candidates
      <4>1. K!Cardinality(K!Newer(o)) = Cardinality(K!Newer(o))
        BY ToolsCount
      <4> QED BY <2>4, <3>4, <3>6, <4>1 DEF K!Candidates
    <3> QED BY <3>2, <3>7 DEF Left
  <2>8. A \in SUBSET B
    BY <2>7
  <2>9. B \in SUBSET (1 .. Len(catalog))
    BY DEF Left
  <2>10. Cardinality(B) >= KeepLatest
    <3> HIDE DEF A, B
    <3> QED BY <1>1, <2>4, <2>6, <2>8, <2>9, KeptMonotone
  <2> QED BY <2>10
<1>5. \A x \in K!Candidates : catalog[x].listed
  BY <1>2 DEF K!Listed
<1> QED BY <1>1, <1>2, <1>4, <1>5

\* One bad backup and nothing is planned; otherwise enough are left out.
LEMMA CatalogPlanned ==
  ASSUME ToolInv, ToolBounds, K!CatalogPlan, UNCHANGED <<txs, hasty, time>>
  PROVE  ToolInv'
<1>1. UNCHANGED <<paths, catalog, gone, actions>> /\ owner = None
  BY DEF K!CatalogPlan, K!backupVars
<1>2. CASE \A b \in K!Listed : K!Inspect(b)
  <2> DEFINE job == [K!Off EXCEPT !.at = "inspect", !.plan = K!Candidates]
  <2>1. K!Go("catalog", job) /\ owner' = "catalog"
    BY <1>2 DEF K!CatalogPlan
  <2>2. /\ K!Candidates \subseteq 1 .. Len(catalog) /\ Len(catalog) \in Nat
        /\ \A x \in K!Candidates :
             /\ catalog[x].listed
             /\ Cardinality(Left(Len(catalog), x, gone \cup K!Candidates)) >= KeepLatest
    BY <1>2, CandidatesLeaveEnough, CatalogShape
  <2>3. job \in Job /\ job.at = "inspect" /\ job.plan = K!Candidates
    <3>1. K!Candidates \subseteq Work
      BY <2>2 DEF Work
    <3> QED BY <3>1 DEF Job, ToolPlace, K!Off
  <2>4. /\ jobs' \in [K!Tools -> Job] /\ jobs'["catalog"] = job
        /\ \A l \in K!Tools : l # "catalog" => jobs'[l] = jobs[l]
    BY <2>1, <2>3, GoShape DEF ToolInv, K!Tools
  <2>5. jobs'["expire"] = jobs["expire"] /\ jobs'["prune"] = jobs["prune"]
        /\ jobs["expire"].at = "off"
    BY <1>1, <2>4 DEF K!Tools, ToolInv, ToolShape, ToolBounds
  <2> HIDE DEF job
  <2>6. ToolShape'
    BY <2>1, <2>4, <2>5 DEF ToolInv, ToolShape
  <2>7. TxPart'
    BY <1>1, <2>5, TxFrame DEF ToolInv
  <2>8. BackupsShape' /\ BackupsKept'
    BY <1>1 DEF ToolInv, BackupPart, BackupsShape, BackupsKept
  <2>9. CatalogWorks'
    BY <1>1, <2>2, <2>3, <2>4 DEF CatalogWorks
  <2> QED BY <2>6, <2>7, <2>8, <2>9 DEF ToolInv, BackupPart
<1>3. CASE UNCHANGED <<owner, jobs>>
  <2>1. ToolShape'
    BY <1>3 DEF ToolInv, ToolShape
  <2> QED BY <1>1, <1>3, <2>1, TxFrame, BackupFrame DEF ToolInv
<1> QED BY <1>2, <1>3 DEF K!CatalogPlan

\* The catalog stops, with the files, list and records as they are.
LEMMA CatalogStops ==
  ASSUME ToolInv, ToolBounds, K!Stop("catalog"),
         UNCHANGED <<txs, hasty, time, paths, catalog, gone, actions>>
  PROVE  ToolInv'
<1>1. ToolShape /\ txs' \in [Tx -> TxRecord] /\ time' \in Nat /\ "catalog" \in K!Tools
  BY DEF ToolInv, ToolShape, K!Tools
<1>2. /\ ToolShape'
      /\ jobs'["catalog"] = K!Off
      /\ \A l \in K!Tools : l # "catalog" => jobs'[l] = jobs[l]
  BY <1>1, StopShape
<1> QED BY <1>2, TxFrame, BackupFrame DEF ToolInv, K!Tools

\* The newest of the plan is looked at again before it is removed.
LEMMA CatalogInspects ==
  ASSUME ToolInv, ToolBounds, K!CatalogInspect, UNCHANGED <<txs, hasty, time>>
  PROVE  ToolInv'
<1> DEFINE plan == jobs["catalog"].plan
           x == K!Max(plan)
           job == [jobs["catalog"] EXCEPT !.at = "remove", !.on = x]
<1>1. UNCHANGED <<paths, catalog, gone, actions>> /\ jobs["catalog"].at = "inspect"
  BY DEF K!CatalogInspect, K!backupVars, K!At
<1>2. CASE K!Stop("catalog")
  BY <1>1, <1>2, CatalogStops
<1>3. CASE /\ plan # {} /\ K!Inspect(x) /\ UNCHANGED owner
           /\ K!Go("catalog", job)
  <2>1. jobs["catalog"] \in Job /\ plan \subseteq 1 .. Len(catalog) /\ Len(catalog) \in Nat
    BY CatalogShape
  <2>2. x \in plan
    BY <1>3, <2>1, LatestOf
  <2> HIDE DEF x
  <2>3. x \in Nat /\ paths[catalog[x].place] = x
    BY <1>3, <2>1, <2>2 DEF K!Inspect
  <2>4. job \in Job /\ job.at = "remove" /\ job.on = x /\ job.plan = plan
    BY <2>1, <2>3 DEF Job, ToolPlace, Work
  <2>5. /\ jobs' \in [K!Tools -> Job] /\ jobs'["catalog"] = job
        /\ \A l \in K!Tools : l # "catalog" => jobs'[l] = jobs[l]
    BY <1>3, <2>4, GoShape DEF ToolInv, K!Tools
  <2>6. jobs'["expire"] = jobs["expire"] /\ jobs'["prune"] = jobs["prune"]
    BY <2>5 DEF K!Tools
  <2> HIDE DEF job
  <2>7. ToolShape'
    BY <1>1, <1>3, <2>5, <2>6 DEF ToolInv, ToolShape
  <2>8. TxPart'
    BY <1>1, <2>6, TxFrame DEF ToolInv
  <2>9. BackupsShape' /\ BackupsKept'
    BY <1>1 DEF ToolInv, BackupPart, BackupsShape, BackupsKept
  <2>10. CatalogWorks'
    BY <1>1, <2>2, <2>3, <2>4, <2>5 DEF ToolInv, BackupPart, CatalogWorks
  <2> QED BY <2>7, <2>8, <2>9, <2>10 DEF ToolInv, BackupPart
<1> QED BY <1>2, <1>3 DEF K!CatalogInspect

\* What is deleted was in the plan, so whatever had enough left still has.
LEMMA CatalogRemoves ==
  ASSUME ToolInv, ToolBounds, K!CatalogRemove, UNCHANGED <<txs, hasty, time>>
  PROVE  ToolInv'
<1> DEFINE j == jobs["catalog"]
           x == j.on
           p == catalog[x].place
           n == Len(catalog)
           job == [jobs["catalog"] EXCEPT !.at = "unlist"]
<1>1. UNCHANGED <<catalog, actions>> /\ j.at = "remove"
  BY DEF K!CatalogRemove, K!At
<1>2. /\ j \in Job /\ j.plan \subseteq 1 .. n /\ n \in Nat
      /\ \A b \in 1 .. n : catalog[b].place \in Place /\ b \in Nat
  BY CatalogShape
<1>3. /\ x \in j.plan /\ x \in 1 .. n /\ p \in Place /\ paths[p] \in {x, None, Damaged}
      /\ \A b \in j.plan : catalog[b].listed
      /\ \A b \in j.plan : Cardinality(Left(n, b, gone \cup j.plan)) >= KeepLatest
  BY <1>1, <1>2 DEF ToolInv, BackupPart, CatalogWorks
<1>4. CASE K!Stop("catalog") /\ UNCHANGED <<paths, gone>>
  BY <1>1, <1>4, CatalogStops
<1>5. CASE /\ paths[p] # None /\ paths' = [paths EXCEPT ![p] = None]
           /\ gone' = gone \cup ({paths[p]} \ {Damaged})
           /\ K!Go("catalog", job) /\ UNCHANGED owner
  <2>1. job \in Job /\ job.at = "unlist" /\ job.on = x /\ job.plan = j.plan
    BY <1>2 DEF Job, ToolPlace
  <2>2. /\ jobs' \in [K!Tools -> Job] /\ jobs'["catalog"] = job
        /\ \A l \in K!Tools : l # "catalog" => jobs'[l] = jobs[l]
    BY <1>5, <2>1, GoShape DEF ToolInv, K!Tools
  <2>3. jobs'["expire"] = jobs["expire"] /\ jobs'["prune"] = jobs["prune"]
    BY <2>2 DEF K!Tools
  <2>4. gone \subseteq gone' /\ gone' \subseteq gone \cup {x}
    BY <1>3, <1>5
  <2>5. /\ paths \in [Place -> Nat \cup {None, Damaged}] /\ gone \subseteq 1 .. n
        /\ \A q \in Place : paths[q] \in Nat =>
             /\ paths[q] \in 1 .. n /\ catalog[paths[q]].place = q
             /\ paths[q] \notin gone
        /\ \A b : <<"catalog", b>> \in actions => b \in 1 .. n
        /\ \A b \in 1 .. n :
             <<"catalog", b>> \in actions \/ ~catalog[b].listed
               => paths[catalog[b].place] # b
    BY DEF ToolInv, BackupPart, BackupsShape
  <2>6. None \notin Nat
    BY DEF ToolBounds
  <2> HIDE DEF job, j, x, n
  <2>7. ToolShape'
    BY <1>1, <1>5, <2>2, <2>3 DEF ToolInv, ToolShape, j
  <2>8. TxPart'
    BY <1>1, <2>3, TxFrame DEF ToolInv
  <2>9. \A q \in Place : paths'[q] = IF q = p THEN None ELSE paths[q]
    BY <1>3, <1>5, <2>5
  <2>10. BackupsShape'
    <3>1. paths' \in [Place -> Nat \cup {None, Damaged}] /\ gone' \subseteq 1 .. n
      BY <1>3, <1>5, <2>4, <2>5
    <3>2. \A q \in Place : paths'[q] \in Nat =>
             /\ paths'[q] \in 1 .. n /\ catalog[paths'[q]].place = q
             /\ paths'[q] \notin gone'
      <4>1. SUFFICES ASSUME NEW q \in Place, paths'[q] \in Nat
                     PROVE  /\ paths'[q] \in 1 .. n /\ catalog[paths'[q]].place = q
                            /\ paths'[q] \notin gone'
        OBVIOUS
      <4>2. q # p /\ paths'[q] = paths[q]
        BY <4>1, <2>6, <2>9
      <4>3. paths[q] # x
        BY <4>1, <4>2, <2>5
      <4> QED BY <4>1, <4>2, <4>3, <2>4, <2>5
    <3>3. \A b \in 1 .. n :
             <<"catalog", b>> \in actions \/ ~catalog[b].listed
               => paths'[catalog[b].place] # b
      BY <1>2, <2>5, <2>6, <2>9
    <3> QED BY <1>1, <2>5, <3>1, <3>2, <3>3 DEF BackupsShape, ToolInv, BackupPart, n
  <2>11. \A b \in j.plan : Cardinality(Left(n, b, gone' \cup j.plan)) >= KeepLatest
    <3>1. gone' \cup j.plan = gone \cup j.plan
      BY <1>3, <2>4
    <3> QED BY <1>3, <3>1
  <2>12. Cardinality(Left(n, x, gone')) >= KeepLatest
    <3>1. Left(n, x, gone' \cup j.plan) \in SUBSET Left(n, x, gone')
      BY DEF Left
    <3>2. Left(n, x, gone') \in SUBSET (1 .. n)
      BY DEF Left
    <3>3. KeepLatest \in Nat /\ Cardinality(Left(n, x, gone' \cup j.plan)) >= KeepLatest
      BY <1>3, <2>11 DEF ToolBounds
    <3> QED BY <1>2, <3>1, <3>2, <3>3, KeptMonotone
  <2>13. ASSUME NEW b \in gone' PROVE Cardinality(Left(n, b, gone')) >= KeepLatest
    <3>1. CASE b = x
      BY <2>12, <3>1
    <3>2. CASE b # x /\ x > b
      <4>1. b \in gone /\ b \in Nat /\ x \in Nat /\ n \in Nat
        BY <3>2, <2>4, <2>5, <1>2, <1>3
      <4>2. Left(n, x, gone') \in SUBSET Left(n, b, gone')
        BY <3>2, <4>1 DEF Left
      <4>3. Left(n, b, gone') \in SUBSET (1 .. n) /\ KeepLatest \in Nat
        BY DEF Left, ToolBounds
      <4> QED BY <4>1, <4>2, <4>3, <2>12, KeptMonotone
    <3>3. CASE b # x /\ ~(x > b)
      <4>1. b \in gone
        BY <3>3, <2>4
      <4>2. Left(n, b, gone') = Left(n, b, gone)
        BY <3>3, <2>4 DEF Left
      <4>3. Cardinality(Left(n, b, gone)) >= KeepLatest
        BY <4>1 DEF ToolInv, BackupPart, BackupsKept, n
      <4> QED BY <4>2, <4>3
    <3> QED BY <3>1, <3>2, <3>3
  <2>14. BackupsKept'
    BY <1>1, <2>13 DEF BackupsKept, n
  <2>15. paths'[catalog[x].place] # x
    BY <1>2, <1>3, <2>6, <2>9
  <2>16. CatalogWorks'
    BY <1>1, <1>2, <1>3, <2>1, <2>2, <2>11, <2>15 DEF CatalogWorks, n
  <2> QED BY <2>7, <2>8, <2>10, <2>14, <2>16 DEF ToolInv, BackupPart
<1> QED BY <1>4, <1>5 DEF K!CatalogRemove

\* The one taken off the list is the one whose file is gone.
LEMMA CatalogUnlists ==
  ASSUME ToolInv, ToolBounds, K!CatalogUnlist, UNCHANGED <<txs, hasty, time>>
  PROVE  ToolInv'
<1> DEFINE j == jobs["catalog"]
           x == j.on
           n == Len(catalog)
           e == [catalog[x] EXCEPT !.listed = FALSE]
           job == [jobs["catalog"] EXCEPT !.at = "record"]
<1>1. /\ j.at = "unlist" /\ UNCHANGED <<owner, paths, gone, actions>> /\ K!Go("catalog", job)
      /\ catalog' = [catalog EXCEPT ![x].listed = FALSE]
  BY DEF K!CatalogUnlist, K!At
<1>2. /\ catalog \in Seq(BackupRecord) /\ j \in Job /\ j.plan \subseteq 1 .. n /\ n \in Nat
      /\ \A b \in 1 .. n :
           catalog[b] \in BackupRecord /\ catalog[b].place \in Place /\ b \in Nat
  BY CatalogShape
<1>3. /\ x \in j.plan /\ x \in 1 .. n /\ paths[catalog[x].place] # x
      /\ \A b \in j.plan : catalog[b].listed \/ b = x
      /\ \A b \in j.plan : Cardinality(Left(n, b, gone \cup j.plan)) >= KeepLatest
  BY <1>1, <1>2 DEF ToolInv, BackupPart, CatalogWorks
<1>4. e \in BackupRecord /\ e.place = catalog[x].place
  BY <1>2, <1>3 DEF BackupRecord
<1>5. catalog' = [catalog EXCEPT ![x] = e]
  BY <1>1
<1> HIDE DEF e
<1>6. /\ catalog' \in Seq(BackupRecord) /\ Len(catalog') = n
      /\ \A b \in 1 .. n : catalog'[b] = IF b = x THEN e ELSE catalog[b]
  BY <1>2, <1>3, <1>4, <1>5, ExceptSeq
<1>7. \A b \in 1 .. n : /\ catalog'[b].place = catalog[b].place
                        /\ b # x => catalog'[b] = catalog[b]
  BY <1>4, <1>6
<1>8. job \in Job /\ job.at = "record" /\ job.on = x /\ job.plan = j.plan
  BY <1>2 DEF Job, ToolPlace
<1>9. /\ jobs' \in [K!Tools -> Job] /\ jobs'["catalog"] = job
      /\ \A l \in K!Tools : l # "catalog" => jobs'[l] = jobs[l]
  BY <1>1, <1>8, GoShape DEF ToolInv, K!Tools
<1>10. jobs'["expire"] = jobs["expire"] /\ jobs'["prune"] = jobs["prune"]
  BY <1>9 DEF K!Tools
<1> HIDE DEF job, j, x
<1>11. ToolShape'
  BY <1>1, <1>9, <1>10 DEF ToolInv, ToolShape, j
<1>12. TxPart'
  BY <1>1, <1>10, TxFrame DEF ToolInv
<1>13. BackupsShape'
  <2>1. \A q \in Place : paths[q] \in Nat =>
             /\ paths[q] \in 1 .. n /\ catalog'[paths[q]].place = q
             /\ paths[q] \notin gone
    BY <1>7 DEF ToolInv, BackupPart, BackupsShape
  <2>2. \A b \in 1 .. n :
           <<"catalog", b>> \in actions \/ ~catalog'[b].listed
             => paths[catalog'[b].place] # b
    BY <1>3, <1>7 DEF ToolInv, BackupPart, BackupsShape
  <2> QED BY <1>1, <1>6, <2>1, <2>2 DEF ToolInv, BackupPart, BackupsShape
<1>14. BackupsKept'
  BY <1>1, <1>6 DEF ToolInv, BackupPart, BackupsKept
<1>15. CatalogWorks'
  BY <1>1, <1>2, <1>3, <1>6, <1>7, <1>8, <1>9 DEF CatalogWorks
<1> QED BY <1>11, <1>12, <1>13, <1>14, <1>15 DEF ToolInv, BackupPart

\* The record of a deletion follows the deletion.
LEMMA CatalogRecords ==
  ASSUME ToolInv, ToolBounds, K!CatalogRecord, UNCHANGED <<txs, hasty, time>>
  PROVE  ToolInv'
<1> DEFINE j == jobs["catalog"]
           x == j.on
           n == Len(catalog)
           plan == j.plan \ {x}
           job == [K!Off EXCEPT !.at = "inspect", !.plan = plan]
<1>1. /\ j.at = "record" /\ UNCHANGED <<owner, paths, catalog, gone>>
      /\ K!Go("catalog", job) /\ actions' = actions \cup {<<"catalog", x>>}
  BY DEF K!CatalogRecord, K!At, K!backupVars
<1>2. /\ j.plan \subseteq 1 .. n /\ n \in Nat
      /\ \A b \in 1 .. n : catalog[b].place \in Place /\ b \in Nat
  BY CatalogShape
<1>3. /\ x \in j.plan /\ x \in 1 .. n /\ paths[catalog[x].place] # x
      /\ \A b \in j.plan : catalog[b].listed \/ b = x
      /\ \A b \in j.plan : Cardinality(Left(n, b, gone \cup j.plan)) >= KeepLatest
  BY <1>1, <1>2 DEF ToolInv, BackupPart, CatalogWorks
<1>4. job \in Job /\ job.at = "inspect" /\ job.plan = plan
  <2>1. plan \subseteq Work
    BY <1>2 DEF Work
  <2> QED BY <2>1 DEF Job, ToolPlace, K!Off
<1>5. /\ jobs' \in [K!Tools -> Job] /\ jobs'["catalog"] = job
      /\ \A l \in K!Tools : l # "catalog" => jobs'[l] = jobs[l]
  BY <1>1, <1>4, GoShape DEF ToolInv, K!Tools
<1>6. jobs'["expire"] = jobs["expire"] /\ jobs'["prune"] = jobs["prune"]
  BY <1>5 DEF K!Tools
<1> HIDE DEF job, j, x
<1>7. ToolShape'
  BY <1>1, <1>5, <1>6 DEF ToolInv, ToolShape, j
<1>8. TxPart'
  <2>1. \A t \in Tx : /\ <<"expire", t>> \in actions' => <<"expire", t>> \in actions
                      /\ <<"prune", t>> \in actions' => <<"prune", t>> \in actions
    BY <1>1
  <2> QED BY <1>6, <2>1, TxFrame DEF ToolInv
<1>9. BackupsShape'
  <2>1. \A b : <<"catalog", b>> \in actions' => <<"catalog", b>> \in actions \/ b = x
    BY <1>1
  <2> QED BY <1>1, <1>3, <2>1 DEF ToolInv, BackupPart, BackupsShape
<1>10. BackupsKept'
  BY <1>1 DEF ToolInv, BackupPart, BackupsKept
<1>11. ASSUME NEW b \in plan
       PROVE  Cardinality(Left(n, b, gone \cup plan)) >= KeepLatest
  <2>1. Left(n, b, gone \cup j.plan) \in SUBSET Left(n, b, gone \cup plan)
    BY DEF Left
  <2>2. Left(n, b, gone \cup plan) \in SUBSET (1 .. n) /\ KeepLatest \in Nat
    BY DEF Left, ToolBounds
  <2>3. Cardinality(Left(n, b, gone \cup j.plan)) >= KeepLatest
    BY <1>3
  <2> HIDE DEF plan
  <2> QED BY <1>2, <2>1, <2>2, <2>3, KeptMonotone
<1>12. CatalogWorks'
  BY <1>1, <1>2, <1>3, <1>4, <1>5, <1>11 DEF CatalogWorks
<1> QED BY <1>7, <1>8, <1>9, <1>10, <1>12 DEF ToolInv, BackupPart

\* Every step keeps what the tools rely on.
LEMMA ToolNext == ASSUME ToolInv, ToolBounds, K!Next PROVE ToolInv'
<1> USE DEF K!txVars, K!backupVars
<1>1. CASE K!World
  BY <1>1, WorldMoves
<1>2. CASE /\ K!ExpirePlan \/ K!ExpireCheck \/ K!ExpireAbort \/ K!ExpireRemove
              \/ K!ExpireRecord
           /\ UNCHANGED <<K!backupVars, time>>
  BY <1>2, ExpirePlanned, ExpireChecked, ExpireAborts, ExpireRemoves, ExpireRecords
<1>3. CASE /\ K!PrunePlan \/ K!PruneTree \/ K!PruneDir \/ K!PruneRecord
           /\ UNCHANGED <<K!backupVars, time>>
  BY <1>3, PrunePlanned, PruneTrees, PruneDirs, PruneRecords
<1>4. CASE /\ \/ K!CatalogPlan \/ K!CatalogInspect \/ K!CatalogRemove
              \/ K!CatalogUnlist \/ K!CatalogRecord
           /\ UNCHANGED <<K!txVars, time>>
  BY <1>4, CatalogPlanned, CatalogInspects, CatalogRemoves, CatalogUnlists,
     CatalogRecords
<1> QED BY <1>1, <1>2, <1>3, <1>4 DEF K!Next

\* HousekeepingIsSafe for any number of transactions, backups, tools' runs, crashes and
\* failures (futurediff-expire, futurediff-prune, futurediff-backup-catalog), as long as
\* nobody writes a backup over a file while the catalog deletes it: runtimes go only of
\* transactions that are over, transactions only when nobody touched them, backups only
\* while KeepLatest younger ones are left alone, and records follow the deed.
THEOREM ToolsAreCareful ==
  ASSUME ToolBounds
  PROVE  K!HousekeepingSpec => []HousekeepingIsSafe
<1>1. K!Init => ToolInv
  BY ToolInit
<1>2. ToolInv /\ [K!Next]_(K!vars) => ToolInv'
  <2>1. ASSUME ToolInv, UNCHANGED K!vars PROVE ToolInv'
    <3>1. ToolShape'
      BY <2>1 DEF ToolInv, ToolShape, K!vars
    <3> QED BY <2>1, <3>1, TxFrame, BackupFrame DEF ToolInv, K!vars
  <2> QED BY <2>1, ToolNext
<1>3. ToolInv => HousekeepingIsSafe
  <2> SUFFICES ASSUME ToolInv PROVE HousekeepingIsSafe
    OBVIOUS
  <2>1. DOMAIN catalog = 1 .. Len(catalog)
    BY CatalogShape
  <2>2. K!HousekeepingTypeOK
    <3>1. \A t \in Tx : txs[t].status \in K!Status /\ txs[t].tree \in BOOLEAN
      BY DEF ToolInv, ToolShape, TxRecord
    <3>2. \A p \in Place : paths[p] \in DOMAIN catalog \cup {None, Damaged}
      BY <2>1 DEF ToolInv, BackupPart, BackupsShape
    <3>3. owner \in K!Tools \cup {None, "daemon"}
      BY DEF ToolInv, ToolShape, K!Tools
    <3> QED BY <3>1, <3>2, <3>3 DEF K!HousekeepingTypeOK
  <2>3. K!HousekeepingIsSafe
    <3>1. \A t \in Tx : /\ ~txs[t].dir => txs[t].status \in K!Terminal
                        /\ ~txs[t].tree => txs[t].status \in K!Terminal \cup {"aborting"}
      BY DEF ToolInv, TxPart, TxSafe, Over
    <3>2. \A t \in Tx : /\ <<"expire", t>> \in actions => txs[t].status = "aborted"
                        /\ <<"prune", t>> \in actions => ~txs[t].dir
      BY DEF ToolInv, TxPart, TxSafe
    <3>3. ASSUME NEW b \in gone
          PROVE  K!Cardinality({o \in DOMAIN catalog : o > b} \ gone) >= KeepLatest
      <4>1. Cardinality(Left(Len(catalog), b, gone)) >= KeepLatest
        BY DEF ToolInv, BackupPart, BackupsKept
      <4>2. {o \in DOMAIN catalog : o > b} \ gone = Left(Len(catalog), b, gone)
        BY <2>1 DEF Left
      <4> DEFINE A == {o \in DOMAIN catalog : o > b} \ gone
      <4>3. K!Cardinality(A) >= KeepLatest
        <5>1. A = Left(Len(catalog), b, gone)
          BY <4>2
        <5> HIDE DEF A
        <5> QED BY <4>1, <5>1, ToolsCount
      <4> QED BY <4>3
    <3>4. \A b \in DOMAIN catalog :
            <<"catalog", b>> \in actions \/ ~catalog[b].listed => ~K!Inspect(b)
      BY <2>1 DEF ToolInv, BackupPart, BackupsShape, K!Inspect
    <3>5. hasty = {}
      BY DEF ToolInv, TxPart, TxSafe
    <3> QED BY <3>1, <3>2, <3>3, <3>4, <3>5 DEF K!HousekeepingIsSafe
  <2> QED BY <2>2, <2>3 DEF HousekeepingIsSafe
<1> QED BY <1>1, <1>2, <1>3, PTL DEF K!HousekeepingSpec

-----------------------------------------------------------------------------
(* The hash chains and their checkpoints.                                   *)

\* What the digests of a chain should be follow each other.
LEMMA ExpectedIs ==
  ASSUME NEW c, NEW rs, NEW n \in Nat, Len(rs) = n
  PROVE  /\ H!Expected(c, rs)[0] = H!Blank
         /\ \A i \in 1 .. n :
              H!Expected(c, rs)[i]
                = H!Digest(c, rs[i].seq, rs[i].body, H!Expected(c, rs)[i - 1])
<1> DEFINE Follows(e, m) ==
             e = [i \in 0 .. m |-> IF i = 0 THEN H!Blank
                                   ELSE H!Digest(c, rs[i].seq, rs[i].body, e[i - 1])]
<1> DEFINE T == {m \in Nat : ~\E e : Follows(e, m)}
<1>1. T = {}
  <2>1. SUFFICES ASSUME T # {} PROVE FALSE
    OBVIOUS
  <2>2. PICK m \in T : \A k \in T : m <= k
    BY <2>1, LeastNumber
  <2>3. m # 0
    <3>1. Follows([i \in 0 .. 0 |-> H!Blank], 0)
      OBVIOUS
    <3> QED BY <2>2, <3>1
  <2>4. m - 1 \in Nat /\ ~(m <= m - 1) /\ m \in Nat
    BY <2>2, <2>3
  <2> HIDE DEF Follows
  <2>5. PICK e : Follows(e, m - 1)
    BY <2>2, <2>4
  <2> DEFINE f == [i \in 0 .. m |-> IF i = 0 THEN H!Blank
                                    ELSE H!Digest(c, rs[i].seq, rs[i].body, e[i - 1])]
  <2>6. \A i \in 0 .. (m - 1) : f[i] = e[i]
    <3>1. e = [i \in 0 .. (m - 1) |-> IF i = 0 THEN H!Blank
                                      ELSE H!Digest(c, rs[i].seq, rs[i].body, e[i - 1])]
      BY <2>5 DEF Follows
    <3>2. \A i \in 0 .. (m - 1) :
            e[i] = IF i = 0 THEN H!Blank ELSE H!Digest(c, rs[i].seq, rs[i].body, e[i - 1])
      <4> DEFINE X(i) == IF i = 0 THEN H!Blank
                         ELSE H!Digest(c, rs[i].seq, rs[i].body, e[i - 1])
      <4>1. e = [i \in 0 .. (m - 1) |-> X(i)]
        BY <3>1
      <4> HIDE DEF X
      <4>2. \A i \in 0 .. (m - 1) : e[i] = X(i)
        BY <4>1
      <4> QED BY <4>2 DEF X
    <3>3. \A i \in 0 .. (m - 1) : i \in 0 .. m
      BY <2>4
    <3> QED BY <3>2, <3>3
  <2>7. \A i \in 0 .. m : i # 0 => i - 1 \in 0 .. (m - 1)
    BY <2>4
  <2> DEFINE X(i) == IF i = 0 THEN H!Blank
                     ELSE H!Digest(c, rs[i].seq, rs[i].body, e[i - 1])
             Y(i) == IF i = 0 THEN H!Blank
                     ELSE H!Digest(c, rs[i].seq, rs[i].body, f[i - 1])
  <2>8. \A i \in 0 .. m : X(i) = Y(i)
    <3> HIDE DEF f
    <3> QED BY <2>6, <2>7
  <2>9. f = [i \in 0 .. m |-> Y(i)]
    <3>1. f = [i \in 0 .. m |-> X(i)]
      OBVIOUS
    <3> HIDE DEF X, Y, f
    <3> QED BY <2>8, <3>1
  <2>10. Follows(f, m)
    <3> HIDE DEF f
    <3> QED BY <2>9 DEF Follows
  <2> QED BY <2>2, <2>10
<1> DEFINE e0 == H!Expected(c, rs)
<1>2. Follows(e0, n)
  <2>1. \E e : Follows(e, n)
    BY <1>1
  <2>2. e0 = CHOOSE e : Follows(e, n)
    BY DEF H!Expected
  <2> HIDE DEF Follows, e0
  <2> QED BY <2>1, <2>2
<1> HIDE DEF e0
<1> DEFINE X(i) == IF i = 0 THEN H!Blank ELSE H!Digest(c, rs[i].seq, rs[i].body, e0[i - 1])
<1>3. \A i \in 0 .. n : e0[i] = X(i)
  <2>1. e0 = [i \in 0 .. n |-> X(i)]
    BY <1>2
  <2> HIDE DEF X
  <2> QED BY <2>1
<1>4. 0 \in 0 .. n /\ \A i \in 1 .. n : i \in 0 .. n /\ i # 0
  OBVIOUS
<1>5. e0[0] = H!Blank /\ \A i \in 1 .. n : e0[i] = H!Digest(c, rs[i].seq, rs[i].body, e0[i - 1])
  BY <1>3, <1>4
<1> QED BY <1>5 DEF e0

\* A chain is a sequence of numbered rows.
Row(S) == [seq : Nat \ {0}, body : S, previous : S, digest : S]
Table(rs) == \E S : rs \in Seq(Row(S))
Rising(rs) == \A i \in 2 .. Len(rs) : rs[i - 1].seq < rs[i].seq

\* Whatever damages a chain computes no digest, and leaves the numbers rising.
Spoilt(rs, ds) ==
  /\ Table(ds) /\ (Rising(rs) => Rising(ds))
  /\ \A j \in 1 .. Len(ds) :
       ds[j].digest = H!Blank \/ \E k \in 1 .. Len(rs) : ds[j].digest = rs[k].digest

\* Damage that changes or blanks a row.
LEMMA RowChanged ==
  ASSUME NEW S, NEW rs \in Seq(Row(S)), NEW i \in 1 .. Len(rs), NEW r \in Row(S),
         r.seq = rs[i].seq, r.digest \in {H!Blank, rs[i].digest}
  PROVE  Spoilt(rs, [rs EXCEPT ![i] = r])
<1> DEFINE ds == [rs EXCEPT ![i] = r]
<1>1. /\ ds \in Seq(Row(S)) /\ Len(ds) = Len(rs) /\ Len(rs) \in Nat
      /\ \A j \in 1 .. Len(rs) : ds[j] = IF j = i THEN r ELSE rs[j]
  BY ExceptSeq, LenProperties
<1> HIDE DEF ds
<1>2. Rising(rs) => Rising(ds)
  <2>1. \A j \in 2 .. Len(rs) : j \in 1 .. Len(rs) /\ j - 1 \in 1 .. Len(rs)
    BY <1>1
  <2>2. \A j \in 1 .. Len(rs) : ds[j].seq = rs[j].seq
    BY <1>1
  <2> QED BY <1>1, <2>1, <2>2 DEF Rising
<1> QED BY <1>1, <1>2 DEF Spoilt, Table, ds

\* Damage that drops a row.
LEMMA RowLost ==
  ASSUME NEW S, NEW rs \in Seq(Row(S)), NEW i \in 1 .. Len(rs)
  PROVE  Spoilt(rs, H!RemoveAt(rs, i))
<1> DEFINE n == Len(rs)
           a == SubSeq(rs, 1, i - 1)
           b == SubSeq(rs, i + 1, n)
           ds == H!RemoveAt(rs, i)
<1>1. n \in Nat /\ i \in Nat /\ i >= 1 /\ i <= n /\ \A j \in 1 .. n : rs[j] \in Row(S)
  BY LenProperties, ElementOfSeq
<1>2. /\ a \in Seq(Row(S)) /\ Len(a) = i - 1
      /\ \A j \in 1 .. (i - 1) : a[j] = rs[j]
  <2>1. \A j \in 1 .. (i - 1) : rs[j] \in Row(S)
    BY <1>1
  <2>2. 1 \in Int /\ i - 1 \in Int
    BY <1>1
  <2>3. /\ a \in Seq(Row(S)) /\ Len(a) = IF 1 <= i - 1 THEN i - 1 - 1 + 1 ELSE 0
        /\ \A j \in 1 .. (i - 1 - 1 + 1) : a[j] = rs[1 + j - 1]
    BY <2>1, <2>2, SubSeqProperties
  <2> HIDE DEF a
  <2> QED BY <1>1, <2>3
<1>3. /\ b \in Seq(Row(S)) /\ Len(b) = n - i
      /\ \A j \in 1 .. (n - i) : b[j] = rs[i + j]
  <2>1. \A j \in (i + 1) .. n : rs[j] \in Row(S)
    BY <1>1
  <2>2. i + 1 \in Int /\ n \in Int
    BY <1>1
  <2>3. /\ b \in Seq(Row(S)) /\ Len(b) = IF i + 1 <= n THEN n - (i + 1) + 1 ELSE 0
        /\ \A j \in 1 .. (n - (i + 1) + 1) : b[j] = rs[(i + 1) + j - 1]
    <3> HIDE DEF n
    <3> QED BY <2>1, <2>2, SubSeqProperties
  <2> HIDE DEF b, n
  <2>4. n - (i + 1) + 1 = n - i
    BY <1>1
  <2>5. \A j \in 1 .. (n - i) : (i + 1) + j - 1 = i + j
    BY <1>1
  <2> QED BY <1>1, <2>3, <2>4, <2>5
<1>4. /\ ds \in Seq(Row(S)) /\ Len(ds) = n - 1
      /\ \A j \in 1 .. (n - 1) : ds[j] = IF j < i THEN rs[j] ELSE rs[j + 1]
  <2>1. ds = a \o b
    BY DEF H!RemoveAt
  <2> HIDE DEF ds, a, b, n
  <2>2. /\ a \o b \in Seq(Row(S)) /\ Len(a \o b) = (i - 1) + (n - i)
        /\ \A j \in 1 .. ((i - 1) + (n - i)) :
             (a \o b)[j] = IF j <= i - 1 THEN a[j] ELSE b[j - (i - 1)]
    <3> DEFINE T == Row(S)
    <3>1. a \in Seq(T) /\ b \in Seq(T)
      BY <1>2, <1>3
    <3> HIDE DEF T
    <3>2. /\ a \o b \in Seq(T) /\ Len(a \o b) = Len(a) + Len(b)
          /\ \A j \in 1 .. (Len(a) + Len(b)) :
               (a \o b)[j] = IF j <= Len(a) THEN a[j] ELSE b[j - Len(a)]
      BY <3>1, ConcatProperties
    <3> QED BY <3>2, <1>2, <1>3 DEF T
  <2>3. (i - 1) + (n - i) = n - 1
    BY <1>1
  <2>4. ASSUME NEW j \in 1 .. (n - 1) PROVE ds[j] = IF j < i THEN rs[j] ELSE rs[j + 1]
    <3>1. CASE j < i
      BY <1>1, <1>2, <2>1, <2>2, <2>3, <3>1
    <3>2. CASE ~(j < i)
      <4>1. j - (i - 1) \in 1 .. (n - i) /\ i + (j - (i - 1)) = j + 1 /\ ~(j <= i - 1)
        BY <1>1, <3>2
      <4>2. b[j - (i - 1)] = rs[i + (j - (i - 1))]
        BY <1>3, <4>1
      <4> QED BY <2>1, <2>2, <2>3, <3>2, <4>1, <4>2
    <3> QED BY <3>1, <3>2
  <2> QED BY <2>1, <2>2, <2>3, <2>4
<1> HIDE DEF ds, n
<1>5. Rising(rs) => Rising(ds)
  <2>1. SUFFICES ASSUME Rising(rs), NEW j \in 2 .. (n - 1)
                 PROVE  ds[j - 1].seq < ds[j].seq
    BY <1>4 DEF Rising
  <2>2. /\ \A k \in 2 .. n : rs[k - 1].seq < rs[k].seq
        /\ \A k \in 1 .. n : rs[k].seq \in Nat
    BY <1>1, <2>1 DEF Rising, Row, n
  <2>3. j \in 2 .. n /\ j + 1 \in 2 .. n /\ j - 1 \in 1 .. (n - 1) /\ j \in 1 .. (n - 1)
        /\ j - 1 \in 1 .. n /\ j \in 1 .. n /\ j + 1 \in 1 .. n /\ (j + 1) - 1 = j
        /\ (j - 1) + 1 = j
    BY <1>1, <2>1
  <2>4. rs[j - 1].seq < rs[j].seq /\ rs[j].seq < rs[j + 1].seq
    BY <2>2, <2>3
  <2>5. /\ ds[j] = IF j < i THEN rs[j] ELSE rs[j + 1]
        /\ ds[j - 1] = IF j - 1 < i THEN rs[j - 1] ELSE rs[j]
    BY <1>4, <2>3
  <2> QED BY <1>1, <2>2, <2>3, <2>4, <2>5
<1>6. \A j \in 1 .. Len(ds) : \E k \in 1 .. n : ds[j].digest = rs[k].digest
  <2>1. \A j \in 1 .. (n - 1) : j \in 1 .. n /\ j + 1 \in 1 .. n
    BY <1>1
  <2> QED BY <1>4, <2>1
<1> QED BY <1>4, <1>5, <1>6 DEF Spoilt, Table, ds, n

\* Every damage: a row changed, blanked, dropped, repeated or exchanged with the next.
LEMMA DamagedIsSpoilt ==
  ASSUME NEW rs, Table(rs), NEW i \in DOMAIN rs, NEW ds \in H!DamagedRows(rs, i)
  PROVE  Spoilt(rs, ds)
<1>1. PICK S0 : rs \in Seq(Row(S0))
  BY DEF Table
<1> DEFINE S == S0 \cup {<<rs[i].body[1], "changed">>, H!Blank}
           n == Len(rs)
<1>2. Row(S0) \subseteq Row(S)
  BY DEF Row
<1>3. rs \in Seq(Row(S))
  <2> DEFINE A == Row(S0)
             B == Row(S)
  <2>1. rs \in Seq(A) /\ A \subseteq B
    BY <1>1, <1>2
  <2> HIDE DEF A, B
  <2>2. rs \in Seq(B)
    BY <2>1, SeqMonotonic
  <2> QED BY <2>2 DEF B
<1>4. n \in Nat /\ i \in 1 .. n /\ \A j \in 1 .. n : rs[j] \in Row(S)
  <2>1. n \in Nat /\ DOMAIN rs = 1 .. n
    BY <1>3, LenProperties
  <2>2. \A j \in 1 .. n : rs[j] \in Row(S)
    BY <1>3, ElementOfSeq
  <2> QED BY <2>1, <2>2
<1>5. H!Blank \in S /\ <<rs[i].body[1], "changed">> \in S
  OBVIOUS
<1> HIDE DEF S
<1>6. Spoilt(rs, [rs EXCEPT ![i].body = <<@[1], "changed">>])
  <2> DEFINE r == [rs[i] EXCEPT !.body = <<rs[i].body[1], "changed">>]
  <2>1. r \in Row(S) /\ r.seq = rs[i].seq /\ r.digest = rs[i].digest
    BY <1>4, <1>5 DEF Row
  <2>2. [rs EXCEPT ![i].body = <<@[1], "changed">>] = [rs EXCEPT ![i] = r]
    OBVIOUS
  <2> HIDE DEF r
  <2> QED BY <1>3, <1>4, <2>1, <2>2, RowChanged
<1>7. Spoilt(rs, [rs EXCEPT ![i].previous = H!Blank, ![i].digest = H!Blank])
  <2> DEFINE r == [rs[i] EXCEPT !.previous = H!Blank, !.digest = H!Blank]
  <2>1. r \in Row(S) /\ r.seq = rs[i].seq /\ r.digest = H!Blank
    BY <1>4, <1>5 DEF Row
  <2>2. [rs EXCEPT ![i].previous = H!Blank, ![i].digest = H!Blank] = [rs EXCEPT ![i] = r]
    <3>1. [rs EXCEPT ![i].previous = H!Blank, ![i].digest = H!Blank]
            = [[rs EXCEPT ![i].previous = H!Blank] EXCEPT ![i].digest = H!Blank]
      OBVIOUS
    <3> QED BY <3>1
  <2> HIDE DEF r
  <2> QED BY <1>3, <1>4, <2>1, <2>2, RowChanged
<1>8. Spoilt(rs, H!RemoveAt(rs, i))
  BY <1>3, <1>4, RowLost
<1>9. Spoilt(rs, Append(rs, [rs[i] EXCEPT !.seq = H!Last(rs).seq + 1]))
  <2> DEFINE r == [rs[i] EXCEPT !.seq = H!Last(rs).seq + 1]
             es == Append(rs, r)
  <2>1. H!Last(rs) = rs[n] /\ n \in 1 .. n /\ rs[n].seq \in Nat
    BY <1>4 DEF H!Last, Row
  <2>2. r \in Row(S) /\ r.seq = rs[n].seq + 1 /\ r.digest = rs[i].digest
    BY <1>4, <2>1 DEF Row
  <2> HIDE DEF r
  <2>3. /\ es \in Seq(Row(S)) /\ Len(es) = n + 1
        /\ \A j \in 1 .. n : es[j] = rs[j]
        /\ es[n + 1] = r
    <3> DEFINE T == Row(S)
    <3>1. rs \in Seq(T) /\ r \in T
      BY <1>3, <2>2
    <3> HIDE DEF T
    <3>2. es \in Seq(T) /\ Len(es) = Len(rs) + 1
          /\ (\A j \in 1 .. Len(rs) : es[j] = rs[j]) /\ es[Len(rs) + 1] = r
      BY <3>1, AppendProperties
    <3> QED BY <3>2 DEF T
  <2> HIDE DEF es, n
  <2>4. Rising(rs) => Rising(es)
    <3>1. SUFFICES ASSUME Rising(rs), NEW j \in 2 .. (n + 1)
                   PROVE  es[j - 1].seq < es[j].seq
      BY <2>3 DEF Rising
    <3>2. CASE j = n + 1
      <4>1. j - 1 = n
        BY <1>4, <3>2
      <4> QED BY <2>1, <2>2, <2>3, <3>2, <4>1
    <3>3. CASE j # n + 1
      <4>1. j \in 2 .. n /\ j \in 1 .. n /\ j - 1 \in 1 .. n
        BY <1>4, <3>3
      <4> QED BY <2>3, <3>1, <4>1 DEF Rising, n
    <3> QED BY <3>2, <3>3
  <2>5. \A j \in 1 .. (n + 1) : \E k \in 1 .. n : es[j].digest = rs[k].digest
    <3>1. \A j \in 1 .. (n + 1) : j \in 1 .. n \/ j = n + 1
      BY <1>4
    <3> QED BY <1>4, <2>2, <2>3, <3>1
  <2> QED BY <2>3, <2>4, <2>5 DEF Spoilt, Table, es, r, n
<1>10. ASSUME i # Len(rs)
       PROVE  Spoilt(rs, [rs EXCEPT ![i] = [rs[i + 1] EXCEPT !.seq = rs[i].seq],
                                    ![i + 1] = [rs[i] EXCEPT !.seq = rs[i + 1].seq]])
  <2> DEFINE r == [rs[i + 1] EXCEPT !.seq = rs[i].seq]
             q == [rs[i] EXCEPT !.seq = rs[i + 1].seq]
             es == [[rs EXCEPT ![i] = r] EXCEPT ![i + 1] = q]
  <2>1. i + 1 \in 1 .. n /\ i + 1 # i
    BY <1>4, <1>10
  <2>2. /\ r \in Row(S) /\ r.seq = rs[i].seq /\ r.digest = rs[i + 1].digest
        /\ q \in Row(S) /\ q.seq = rs[i + 1].seq /\ q.digest = rs[i].digest
    BY <1>4, <2>1 DEF Row
  <2>3. [rs EXCEPT ![i] = [rs[i + 1] EXCEPT !.seq = rs[i].seq],
                   ![i + 1] = [rs[i] EXCEPT !.seq = rs[i + 1].seq]] = es
    OBVIOUS
  <2> HIDE DEF r, q
  <2>4. /\ es \in Seq(Row(S)) /\ Len(es) = n
        /\ \A j \in 1 .. n : es[j] = IF j = i + 1 THEN q ELSE IF j = i THEN r ELSE rs[j]
    <3> DEFINE T == Row(S)
               xs == [rs EXCEPT ![i] = r]
    <3>1. rs \in Seq(T) /\ r \in T /\ q \in T
      BY <1>3, <2>2
    <3> HIDE DEF T
    <3>2. xs \in Seq(T) /\ Len(xs) = Len(rs)
          /\ \A j \in 1 .. Len(rs) : xs[j] = IF j = i THEN r ELSE rs[j]
      BY <3>1, <1>4, ExceptSeq
    <3> HIDE DEF xs
    <3>3. /\ [xs EXCEPT ![i + 1] = q] \in Seq(T) /\ Len([xs EXCEPT ![i + 1] = q]) = Len(xs)
          /\ \A j \in 1 .. Len(xs) :
               [xs EXCEPT ![i + 1] = q][j] = IF j = i + 1 THEN q ELSE xs[j]
      BY <3>1, <3>2, <2>1, ExceptSeq
    <3> QED BY <3>2, <3>3 DEF T, xs
  <2> HIDE DEF es, n
  <2>5. \A j \in 1 .. n : es[j].seq = rs[j].seq
    BY <2>2, <2>4
  <2>6. Rising(rs) => Rising(es)
    <3>1. \A j \in 2 .. n : j \in 1 .. n /\ j - 1 \in 1 .. n
      BY <1>4
    <3> QED BY <2>4, <2>5, <3>1 DEF Rising, n
  <2>7. \A j \in 1 .. n : \E k \in 1 .. n : es[j].digest = rs[k].digest
    BY <1>4, <2>1, <2>2, <2>4
  <2>8. Spoilt(rs, es)
    BY <2>4, <2>6, <2>7 DEF Spoilt, Table, n
  <2> QED BY <2>3, <2>8
<1> QED BY <1>6, <1>7, <1>8, <1>9, <1>10 DEF H!DamagedRows

\* L knows the row a digest was computed for, and where it was left.  A row that
\* followed one whose digest was blanked is astray: it says that it stands first, and its
\* number belies it.
Astray(d) == d[4] = H!Blank /\ d[2] \notin {0, 1}
Pred(d) == IF d[4] = H!Blank THEN <<>> ELSE <<d[4]>>
In(L, d) == Astray(d) \/ <<Pred(d), <<d[3], d[4], d>>>> \in L
Rooted(L) == \A l \in L : l[1] = <<>> \/ l[1][1] = H!Blank \/ In(L, l[1][1])
Held(L, rs) == \A i \in 1 .. Len(rs) : rs[i].digest = H!Blank \/ In(L, rs[i].digest)

\* A chain in which each digest is of its row and of the digest before.
Chained(c, rs) ==
  \A i \in 1 .. Len(rs) :
    /\ rs[i].previous = IF i = 1 THEN H!Blank ELSE rs[i - 1].digest
    /\ \E s : rs[i].digest = H!Digest(c, s, rs[i].body, rs[i].previous)

\* A table is numbered from 1, as every sequence.
LEMMA TableIs ==
  ASSUME NEW rs, Table(rs)
  PROVE  Len(rs) \in Nat /\ DOMAIN rs = 1 .. Len(rs)
BY LenProperties DEF Table

\* A digest says what it is of, and is never blank.
LEMMA DigestIs ==
  ASSUME NEW c, NEW s, NEW b, NEW p, NEW d, d = H!Digest(c, s, b, p)
  PROVE  /\ d # H!Blank /\ d[3] = b /\ d[4] = p
         /\ d[2] = IF H!Numbered(c) THEN s ELSE 0
BY DEF H!Digest, H!Blank

\* Both ways to verify a chain look at all of this.
LEMMA ValidIsChained ==
  ASSUME NEW c, NEW rs, Table(rs), H!Valid(c, rs)
  PROVE  Chained(c, rs)
<1> DEFINE n == Len(rs)
           e == H!Expected(c, rs)
<1>1. n \in Nat /\ DOMAIN rs = 1 .. n
  BY TableIs
<1>2. CASE H!Numbered(c)
  <2>1. ASSUME NEW i \in 1 .. n
        PROVE  H!Newest(c, SubSeq(rs, 1, i - 1)) = IF i = 1 THEN H!Blank ELSE rs[i - 1].digest
    <3> DEFINE a == SubSeq(rs, 1, i - 1)
    <3>1. PICK S : rs \in Seq(Row(S))
      BY DEF Table
    <3>2. \A j \in 1 .. (i - 1) : rs[j] \in Row(S)
      <4>1. \A j \in 1 .. n : rs[j] \in Row(S)
        BY <3>1, ElementOfSeq
      <4> QED BY <1>1, <4>1
    <3>3. 1 \in Int /\ i - 1 \in Int
      BY <1>1
    <3>4. /\ a \in Seq(Row(S)) /\ Len(a) = IF 1 <= i - 1 THEN i - 1 - 1 + 1 ELSE 0
          /\ \A j \in 1 .. (i - 1 - 1 + 1) : a[j] = rs[1 + j - 1]
      BY <3>2, <3>3, SubSeqProperties
    <3> HIDE DEF a
    <3>5. CASE i = 1
      <4>1. a = <<>>
        BY <3>4, <3>5, EmptySeq
      <4> QED BY <3>5, <4>1 DEF H!Newest, a
    <3>6. CASE i # 1
      <4>1. Len(a) = i - 1 /\ i - 1 \in 1 .. (i - 1) /\ a[i - 1] = rs[i - 1]
        BY <1>1, <3>4, <3>6
      <4>2. a # <<>>
        BY <1>1, <3>6, <4>1, EmptySeq
      <4> QED BY <3>6, <4>1, <4>2 DEF H!Newest, H!Last, a
    <3> QED BY <3>5, <3>6
  <2> QED BY <1>1, <1>2, <2>1 DEF H!Valid, Chained
<1>3. CASE ~H!Numbered(c)
  <2>1. e[0] = H!Blank /\ \A i \in 1 .. n :
              e[i] = H!Digest(c, rs[i].seq, rs[i].body, e[i - 1])
    BY <1>1, ExpectedIs
  <2>2. \A i \in 1 .. n : rs[i].previous = e[i - 1] /\ rs[i].digest = e[i]
    BY <1>1, <1>3 DEF H!Valid
  <2> HIDE DEF e
  <2>3. \A i \in 1 .. n : i # 1 => i - 1 \in 1 .. n
    BY <1>1
  <2> QED BY <1>1, <2>1, <2>2, <2>3 DEF Chained
<1> QED BY <1>2, <1>3

\* In a chain that verifies no row is astray: the first one has the number 1.
LEMMA ValidIsStraight ==
  ASSUME NEW c, NEW rs, Table(rs), H!Valid(c, rs), NEW i \in 1 .. Len(rs)
  PROVE  ~Astray(rs[i].digest)
<1>1. DOMAIN rs = 1 .. Len(rs) /\ Chained(c, rs)
  BY TableIs, ValidIsChained
<1>2. PICK s : rs[i].digest = H!Digest(c, s, rs[i].body, rs[i].previous)
  BY <1>1 DEF Chained
<1>3. rs[i].digest[4] = rs[i].previous
  BY <1>2, DigestIs
<1>4. CASE i = 1
  <2>1. CASE H!Numbered(c)
    <3>1. rs[i].digest = H!Digest(c, 1, rs[i].body, rs[i].previous)
      BY <1>1, <1>4, <2>1 DEF H!Valid
    <3>2. rs[i].digest[2] = 1
      BY <2>1, <3>1, DigestIs
    <3> QED BY <3>2 DEF Astray
  <2>2. CASE ~H!Numbered(c)
    <3>1. rs[i].digest[2] = 0
      BY <1>2, <2>2, DigestIs
    <3> QED BY <3>1 DEF Astray
  <2> QED BY <2>1, <2>2
<1>5. CASE i # 1
  <2>1. i - 1 \in 1 .. Len(rs)
    BY <1>5, TableIs
  <2>2. \E t, b, p : rs[i - 1].digest = H!Digest(c, t, b, p)
    BY <1>1, <2>1 DEF Chained
  <2>3. rs[i - 1].digest # H!Blank /\ rs[i].previous = rs[i - 1].digest
    BY <1>1, <1>5, <2>2, DigestIs DEF Chained
  <2> QED BY <1>3, <2>3 DEF Astray
<1> QED BY <1>4, <1>5

\* A chain that verifies and whose digests were all computed by FutureDiff is its history.
LEMMA ChainedIsHistory ==
  ASSUME NEW L, NEW c, NEW rs, Table(rs), H!Valid(c, rs),
         \A i \in 1 .. Len(rs) : In(L, rs[i].digest)
  PROVE  H!Links(rs) \subseteq L
<1>1. DOMAIN rs = 1 .. Len(rs) /\ Chained(c, rs)
  BY TableIs, ValidIsChained
<1>2. ASSUME NEW i \in 1 .. Len(rs)
      PROVE  <<IF i = 1 THEN <<>> ELSE <<rs[i - 1].digest>>, H!Entry(rs[i])>> \in L
  <2>1. PICK s : rs[i].digest = H!Digest(c, s, rs[i].body, rs[i].previous)
    BY <1>1 DEF Chained
  <2>2. rs[i].digest[3] = rs[i].body /\ rs[i].digest[4] = rs[i].previous
    BY <2>1, DigestIs
  <2>3. <<Pred(rs[i].digest), <<rs[i].body, rs[i].previous, rs[i].digest>>>> \in L
    BY <2>2, ValidIsStraight DEF In
  <2>4. CASE i = 1
    <3>1. rs[i].previous = H!Blank
      BY <1>1, <2>4 DEF Chained
    <3> QED BY <2>2, <2>3, <2>4, <3>1 DEF Pred, H!Entry
  <2>5. CASE i # 1
    <3>1. i - 1 \in 1 .. Len(rs)
      BY <2>5, TableIs
    <3>2. \E t, b, p : rs[i - 1].digest = H!Digest(c, t, b, p)
      BY <1>1, <3>1 DEF Chained
    <3>3. rs[i - 1].digest # H!Blank /\ rs[i].previous = rs[i - 1].digest
      BY <1>1, <2>5, <3>2, DigestIs DEF Chained
    <3> QED BY <2>2, <2>3, <2>5, <3>3 DEF Pred, H!Entry
  <2> QED BY <2>4, <2>5
<1> QED BY <1>1, <1>2 DEF H!Links

\* A chain that verifies and whose stored digests were computed by FutureDiff.
LEMMA ValidIsHistory ==
  ASSUME NEW L, NEW c, NEW rs, Table(rs), Held(L, rs), H!Valid(c, rs)
  PROVE  H!Links(rs) \subseteq L
<1>1. Chained(c, rs)
  BY ValidIsChained
<1>2. ASSUME NEW i \in 1 .. Len(rs) PROVE In(L, rs[i].digest)
  <2>1. PICK s : rs[i].digest = H!Digest(c, s, rs[i].body, rs[i].previous)
    BY <1>1 DEF Chained
  <2> QED BY <2>1, DigestIs DEF Held
<1> QED BY <1>2, ChainedIsHistory

\* The last digest of a chain vouches for those before it.
LEMMA HeadVouches ==
  ASSUME NEW L, Rooted(L), NEW c, NEW rs, Table(rs), H!Valid(c, rs),
         Len(rs) > 0 => In(L, rs[Len(rs)].digest)
  PROVE  H!Links(rs) \subseteq L
<1> DEFINE n == Len(rs)
           T == {k \in Nat : k < n /\ ~In(L, rs[n - k].digest)}
<1>1. n \in Nat /\ Chained(c, rs)
  BY TableIs, ValidIsChained
<1>2. T = {}
  <2>1. SUFFICES ASSUME T # {} PROVE FALSE
    OBVIOUS
  <2>2. PICK k \in T : \A j \in T : k <= j
    BY <2>1, LeastNumber
  <2>3. k \in Nat /\ k < n /\ ~In(L, rs[n - k].digest)
    BY <2>2
  <2>4. k # 0
    BY <1>1, <2>3
  <2> DEFINE i == n - (k - 1)
  <2>5. /\ i \in 1 .. n /\ i # 1 /\ i - 1 = n - k /\ i - 1 \in 1 .. n
        /\ k - 1 \in Nat /\ k - 1 < n /\ ~(k <= k - 1)
    BY <1>1, <2>3, <2>4
  <2>6. In(L, rs[i].digest)
    <3>1. k - 1 \notin T
      BY <2>2, <2>5
    <3> QED BY <2>5, <3>1
  <2> HIDE DEF i, n, T
  <2>7. rs[i].previous = rs[i - 1].digest
        /\ \E s : rs[i].digest = H!Digest(c, s, rs[i].body, rs[i].previous)
    BY <1>1, <2>5 DEF Chained, n
  <2>8. rs[i].digest[4] = rs[i - 1].digest
    BY <2>7, DigestIs
  <2>9. \E s, b, p : rs[i - 1].digest = H!Digest(c, s, b, p)
    BY <1>1, <2>5 DEF Chained, n
  <2>10. rs[i - 1].digest # H!Blank
    BY <2>9, DigestIs
  <2>11. In(L, rs[i - 1].digest)
    <3> DEFINE d == rs[i].digest
               l == <<<<d[4]>>, <<d[3], d[4], d>>>>
    <3>1. l \in L
      BY <2>6, <2>8, <2>10 DEF In, Astray, Pred
    <3>2. l[1] # <<>> /\ l[1][1] = rs[i - 1].digest
      BY <2>8
    <3> HIDE DEF l
    <3> QED BY <3>1, <3>2, <2>10 DEF Rooted
  <2> QED BY <2>3, <2>5, <2>11
<1>3. ASSUME NEW i \in 1 .. n PROVE In(L, rs[i].digest)
  <2>1. n - i \in Nat /\ n - i < n /\ n - (n - i) = i
    BY <1>1
  <2>2. n - i \notin T
    BY <1>2
  <2> QED BY <2>1, <2>2
<1> QED BY <1>3, ChainedIsHistory

\* What an open makes of a chain it adopts.
LEMMA AdoptedIs ==
  ASSUME NEW c, NEW rs, Table(rs), Rising(rs), H!Adopts(c)
  PROVE  /\ Table(H!Adopted(c, rs)) /\ Rising(H!Adopted(c, rs))
         /\ Chained(c, H!Adopted(c, rs))
<1> DEFINE n == Len(rs)
           e == H!Expected(c, rs)
           Q(i) == [rs[i] EXCEPT !.previous = e[i - 1], !.digest = e[i]]
           ds == H!Adopted(c, rs)
<1>1. PICK S0 : rs \in Seq(Row(S0))
  BY DEF Table
<1>2. n \in Nat /\ DOMAIN rs = 1 .. n
  BY TableIs
<1>3. \A i \in 1 .. n : rs[i] \in Row(S0)
  BY <1>1, ElementOfSeq
<1>4. e[0] = H!Blank /\ \A i \in 1 .. n :
            e[i] = H!Digest(c, rs[i].seq, rs[i].body, e[i - 1])
  BY <1>2, ExpectedIs
<1> DEFINE S == S0 \cup {e[i] : i \in 0 .. n}
<1>5. ds = [i \in 1 .. n |-> Q(i)]
  BY <1>2 DEF H!Adopted
<1> HIDE DEF e
<1>6. ASSUME NEW i \in 1 .. n
      PROVE  /\ Q(i) \in Row(S) /\ Q(i).seq = rs[i].seq /\ Q(i).body = rs[i].body
             /\ Q(i).previous = e[i - 1] /\ Q(i).digest = e[i]
  <2>1. rs[i] \in [seq : Nat \ {0}, body : S0, previous : S0, digest : S0]
    BY <1>3 DEF Row
  <2>2. e[i] \in S /\ e[i - 1] \in S /\ S0 \subseteq S
    <3>1. i \in 0 .. n /\ i - 1 \in 0 .. n
      BY <1>2
    <3> QED BY <3>1
  <2> HIDE DEF S
  <2> QED BY <2>1, <2>2 DEF Row
<1> HIDE DEF Q, ds, S
<1>7. /\ Len(ds) = n /\ Table(ds)
      /\ \A i \in 1 .. n : ds[i] = Q(i)
  <2>1. ds \in [1 .. n -> Row(S)] /\ \A i \in 1 .. n : ds[i] = Q(i)
    BY <1>5, <1>6
  <2>2. ds \in Seq(Row(S))
    BY <1>2, <2>1, SeqDef
  <2>3. Len(ds) = n
    <3>1. DOMAIN ds = 1 .. n /\ DOMAIN ds = 1 .. Len(ds) /\ Len(ds) \in Nat
      BY <2>1, <2>2, LenProperties
    <3> QED BY <1>2, <3>1
  <2> QED BY <2>1, <2>2, <2>3 DEF Table
<1>8. Rising(ds)
  <2>1. \A i \in 2 .. n : i \in 1 .. n /\ i - 1 \in 1 .. n
    BY <1>2
  <2>2. \A i \in 1 .. n : ds[i].seq = rs[i].seq
    BY <1>6, <1>7
  <2> QED BY <1>7, <2>1, <2>2 DEF Rising, n
<1>9. Chained(c, ds)
  <2> SUFFICES ASSUME NEW i \in 1 .. n
               PROVE  /\ ds[i].previous = IF i = 1 THEN H!Blank ELSE ds[i - 1].digest
                      /\ \E s : ds[i].digest = H!Digest(c, s, ds[i].body, ds[i].previous)
    BY <1>7 DEF Chained
  <2>1. /\ ds[i].previous = e[i - 1] /\ ds[i].digest = e[i] /\ ds[i].body = rs[i].body
    BY <1>6, <1>7
  <2>2. ASSUME i # 1 PROVE ds[i - 1].digest = e[i - 1]
    <3>1. i - 1 \in 1 .. n
      BY <1>2, <2>2
    <3> QED BY <1>6, <1>7, <3>1
  <2>3. i = 1 => i - 1 = 0
    OBVIOUS
  <2>4. e[i] = H!Digest(c, rs[i].seq, rs[i].body, e[i - 1])
    BY <1>4
  <2> QED BY <1>4, <2>1, <2>2, <2>3, <2>4
<1> QED BY <1>7, <1>8, <1>9 DEF ds

\* What is known of a chain's digests is known when more is.
LEMMA MoreIsHeld ==
  ASSUME NEW L, NEW M, L \subseteq M, NEW rs, Held(L, rs)
  PROVE  Held(M, rs)
BY DEF Held, In

\* An open leaves the chain with digests that FutureDiff computed, all of them known.
LEMMA AdoptedIsHeld ==
  ASSUME NEW L, NEW c, NEW rs, Table(rs), Rising(rs), Rooted(L), Held(L, rs),
         NEW ds \in {rs, H!Adopted(c, rs)},
         NEW M, M = IF ds # rs THEN L \cup H!Links(ds) ELSE L
  PROVE  Table(ds) /\ Rising(ds) /\ L \subseteq M /\ Rooted(M) /\ Held(M, ds)
<1>1. CASE ds = rs
  BY <1>1
<1>2. CASE ds # rs
  <2>1. H!Adopts(c) /\ ds = H!Adopted(c, rs)
    BY <1>2 DEF H!Adopted
  <2>2. Table(ds) /\ Rising(ds) /\ Chained(c, ds)
    BY <2>1, AdoptedIs
  <2>3. L \subseteq M /\ M = L \cup H!Links(ds)
    BY <1>2
  <2>4. Len(ds) \in Nat /\ DOMAIN ds = 1 .. Len(ds)
    BY <2>2, TableIs
  <2>5. ASSUME NEW i \in 1 .. Len(ds) PROVE In(M, ds[i].digest)
    <3> DEFINE w == IF i = 1 THEN <<>> ELSE <<ds[i - 1].digest>>
    <3>1. <<w, H!Entry(ds[i])>> \in M
      BY <2>3, <2>4 DEF H!Links
    <3>2. /\ ds[i].previous = IF i = 1 THEN H!Blank ELSE ds[i - 1].digest
          /\ \E s : ds[i].digest = H!Digest(c, s, ds[i].body, ds[i].previous)
      BY <2>2 DEF Chained
    <3>3. ds[i].digest[3] = ds[i].body /\ ds[i].digest[4] = ds[i].previous
      BY <3>2, DigestIs
    <3>4. ASSUME i # 1 PROVE ds[i - 1].digest # H!Blank
      <4>1. i - 1 \in 1 .. Len(ds)
        BY <2>4, <3>4
      <4>2. \E s, b, p : ds[i - 1].digest = H!Digest(c, s, b, p)
        BY <2>2, <4>1 DEF Chained
      <4> QED BY <4>2, DigestIs
    <3>5. w = Pred(ds[i].digest)
      BY <3>2, <3>3, <3>4 DEF Pred
    <3> HIDE DEF w
    <3> QED BY <3>1, <3>3, <3>5 DEF In, H!Entry
  <2>6. Rooted(M)
    <3> SUFFICES ASSUME NEW l \in M
                 PROVE  l[1] = <<>> \/ l[1][1] = H!Blank \/ In(M, l[1][1])
      BY DEF Rooted
    <3>1. CASE l \in L
      BY <3>1, <2>3 DEF Rooted, In
    <3>2. CASE l \in H!Links(ds)
      <4>1. PICK i \in 1 .. Len(ds) :
              l = <<IF i = 1 THEN <<>> ELSE <<ds[i - 1].digest>>, H!Entry(ds[i])>>
        BY <2>4, <3>2 DEF H!Links
      <4>2. i # 1 => i - 1 \in 1 .. Len(ds)
        BY <2>4
      <4> QED BY <4>1, <4>2, <2>5
    <3> QED BY <2>3, <3>1, <3>2
  <2> QED BY <2>2, <2>3, <2>5, <2>6 DEF Held
<1> QED BY <1>1, <1>2

\* The row an append inserts is known, and known to stand where it does.
LEMMA AppendedIsHeld ==
  ASSUME NEW L, NEW c, NEW rs, Table(rs), Rising(rs), Rooted(L), Held(L, rs), NEW b,
         H!MayAppend(c, rs),
         NEW M, M = L \cup {<<IF rs = <<>> THEN <<>> ELSE <<H!Last(rs).digest>>,
                              H!Entry(H!NewRow(c, rs, b))>>}
  PROVE  /\ Table(Append(rs, H!NewRow(c, rs, b))) /\ Rising(Append(rs, H!NewRow(c, rs, b)))
         /\ L \subseteq M /\ Rooted(M) /\ Held(M, Append(rs, H!NewRow(c, rs, b)))
<1> DEFINE n == Len(rs)
           p == H!Newest(c, rs)
           q == IF rs = <<>> THEN 1 ELSE H!Last(rs).seq + 1
           w == IF rs = <<>> THEN <<>> ELSE <<H!Last(rs).digest>>
           new == H!NewRow(c, rs, b)
           ds == Append(rs, new)
<1>1. PICK S0 : rs \in Seq(Row(S0))
  BY DEF Table
<1>2. n \in Nat /\ (n = 0 <=> rs = <<>>) /\ \A i \in 1 .. n : rs[i] \in Row(S0)
  BY <1>1, LenProperties, ElementOfSeq, EmptySeq
<1>3. new = [seq |-> q, body |-> b, previous |-> p, digest |-> H!Digest(c, q, b, p)]
  BY DEF H!NewRow
<1>4. n # 0 => H!Last(rs) = rs[n] /\ n \in 1 .. n /\ rs[n].seq \in Nat \ {0}
  BY <1>2 DEF H!Last, Row
<1>5. q \in Nat \ {0} /\ (n # 0 => q = rs[n].seq + 1)
  BY <1>2, <1>4
<1>6. p = H!Blank \/ In(L, p)
  BY <1>2, <1>4 DEF H!Newest, Held
<1> DEFINE S == S0 \cup {b, p, H!Digest(c, q, b, p)}
<1>7. new \in Row(S) /\ new.seq = q
  <2>1. b \in S /\ p \in S /\ H!Digest(c, q, b, p) \in S
    OBVIOUS
  <2> HIDE DEF S, p, q
  <2> QED BY <1>3, <1>5, <2>1 DEF Row
<1>8. rs \in Seq(Row(S))
  <2> DEFINE A == Row(S0)
             B == Row(S)
  <2>1. rs \in Seq(A) /\ A \subseteq B
    BY <1>1 DEF Row
  <2> HIDE DEF A, B
  <2>2. rs \in Seq(B)
    BY <2>1, SeqMonotonic
  <2> QED BY <2>2 DEF B
<1>9. ds \in Seq(Row(S)) /\ Len(ds) = n + 1 /\ (\A j \in 1 .. n : ds[j] = rs[j])
      /\ ds[n + 1] = new
  <2> DEFINE T == Row(S)
  <2>1. rs \in Seq(T) /\ new \in T
    BY <1>7, <1>8
  <2> HIDE DEF T, new
  <2>2. ds \in Seq(T) /\ Len(ds) = Len(rs) + 1
        /\ (\A j \in 1 .. Len(rs) : ds[j] = rs[j]) /\ ds[Len(rs) + 1] = new
    BY <2>1, AppendProperties
  <2> QED BY <2>2 DEF T
<1>10. new.digest = H!Digest(c, q, b, p) /\ new.body = b /\ new.previous = p
  BY <1>3
<1>11. L \subseteq M /\ M = L \cup {<<w, <<b, p, H!Digest(c, q, b, p)>>>>}
  BY <1>3 DEF H!Entry
<1> DEFINE d == H!Digest(c, q, b, p)
<1>12. d[3] = b /\ d[4] = p /\ d[2] = IF H!Numbered(c) THEN q ELSE 0
  BY DigestIs
<1>13. w = IF rs = <<>> THEN <<>> ELSE <<p>>
  BY DEF H!Newest
<1>14. /\ rs = <<>> => p = H!Blank
       /\ rs # <<>> /\ p = H!Blank => H!Numbered(c) /\ q \notin {0, 1}
  <2>1. rs # <<>> /\ p = H!Blank => H!Numbered(c)
    BY DEF H!MayAppend, H!Numbered
  <2>2. rs # <<>> => q \notin {0, 1}
    BY <1>2, <1>4, <1>5
  <2> QED BY <2>1, <2>2 DEF H!Newest
<1> HIDE DEF S, p, q, w, new, ds, n, d
<1>15. In(M, new.digest)
  <2>1. CASE Astray(d)
    BY <1>10, <2>1 DEF In, d
  <2>2. CASE ~Astray(d)
    <3>1. Pred(d) = w
      BY <1>12, <1>13, <1>14, <2>2 DEF Pred, Astray
    <3> QED BY <1>10, <1>11, <1>12, <3>1 DEF In, d
  <2> QED BY <2>1, <2>2
<1>16. Rooted(M)
  <2>1. \A x : In(L, x) => In(M, x)
    BY <1>11 DEF In
  <2>2. ASSUME NEW l \in M
             PROVE  l[1] = <<>> \/ l[1][1] = H!Blank \/ In(M, l[1][1])
    <3>1. CASE l \in L
      BY <2>1, <3>1 DEF Rooted
    <3>2. CASE l \notin L
      <4>1. l[1] = <<>> \/ l[1][1] = p
        BY <1>11, <1>13, <3>2
      <4> QED BY <1>6, <2>1, <4>1
    <3> QED BY <3>1, <3>2
  <2> QED BY <2>2 DEF Rooted
<1>17. Held(M, ds)
  <2>1. \A j \in 1 .. (n + 1) : j \in 1 .. n \/ j = n + 1
    BY <1>2
  <2>2. Held(M, rs)
    BY <1>11, MoreIsHeld
  <2> QED BY <1>9, <1>15, <2>1, <2>2 DEF Held, n
<1>18. Rising(ds)
  <2> SUFFICES ASSUME NEW j \in 2 .. (n + 1) PROVE ds[j - 1].seq < ds[j].seq
    BY <1>9 DEF Rising
  <2>1. CASE j = n + 1
    <3>1. j - 1 = n /\ n # 0 /\ n \in 1 .. n
      BY <1>2, <2>1
    <3> QED BY <1>4, <1>5, <1>7, <1>9, <2>1, <3>1
  <2>2. CASE j # n + 1
    <3>1. j \in 2 .. n /\ j \in 1 .. n /\ j - 1 \in 1 .. n
      BY <1>2, <2>2
    <3> QED BY <1>9, <3>1 DEF Rising, n
  <2> QED BY <2>1, <2>2
<1> QED BY <1>9, <1>11, <1>16, <1>17, <1>18 DEF Table, ds, new

\* A head that is read from the ledger is a digest that FutureDiff computed.
LEMMA NewestIsHeld ==
  ASSUME NEW L, NEW c, NEW rs, Table(rs), Held(L, rs)
  PROVE  H!Newest(c, rs) = H!Blank \/ In(L, H!Newest(c, rs))
<1>1. CASE rs = <<>>
  BY <1>1 DEF H!Newest
<1>2. CASE rs # <<>>
  <2>1. Len(rs) \in Nat /\ Len(rs) # 0
    BY <1>2, TableIs, EmptySeq DEF Table
  <2>2. Len(rs) \in 1 .. Len(rs)
    BY <2>1
  <2> QED BY <1>2, <2>2 DEF H!Newest, H!Last, Held
<1> QED BY <1>1, <1>2

\* No damage brings a digest that FutureDiff did not compute.
LEMMA SpoiltIsHeld ==
  ASSUME NEW L, NEW rs, NEW ds, Rising(rs), Spoilt(rs, ds), Held(L, rs)
  PROVE  Table(ds) /\ Rising(ds) /\ Held(L, ds)
BY DEF Spoilt, Held

ChainBounds == MaxReceipts \in Nat

\* The tables, and what is known of them.
Map(f) == \E T : f \in [Chains -> T]
Sound(known, tables) ==
  Map(tables) /\ \A c \in Chains : /\ Table(tables[c]) /\ Rising(tables[c])
                                   /\ Held(known[c], tables[c])
Known(known) == Map(known) /\ \A c \in Chains : Rooted(known[c])
Vouched(known, heads) == \A c \in Chains : heads[c] = H!Blank \/ In(known[c], heads[c])
More(known, more) == \A c \in Chains : known[c] \subseteq more[c]

\* Every digest stored in the ledger, in a backup nobody touched and in a checkpoint was
\* computed by FutureDiff, for a row it left after the row with the digest before.
LedgerSound == Sound(links, rows) /\ Known(links)
ToolSound ==
  tool # None =>
    /\ tool \in [at : {"backup", "heads"}, seal : Nat]
                \cup [at : {"write"}, seal : Nat, heads : {tool.heads},
                      receipts : {tool.receipts}]
    /\ tool.seal \in 1 .. count.seals
    /\ tool.at = "write" => Vouched(links, tool.heads)
BackupSound ==
  sealed # None =>
    /\ \E T : sealed \in [tables : T, seal : Nat, intact : BOOLEAN]
    /\ sealed.intact => Sound(links, sealed.tables)
CheckpointSound ==
  checkpoint # None => /\ checkpoint.seal \in 1 .. count.seals
                       /\ Vouched(links, checkpoint.heads)
ChainBase ==
  /\ open \in BOOLEAN /\ (open => tool = None)
  /\ signed \in 0 .. MaxReceipts
  /\ \E A, B : count \in [rows : A, damages : B, seals : Nat]
ChainInv == LedgerSound /\ ToolSound /\ BackupSound /\ CheckpointSound /\ ChainBase

\* Whatever was vouched for stays so while FutureDiff leaves more rows.
LEMMA MoreIsSound ==
  ASSUME NEW known, NEW more, More(known, more), NEW tables, Sound(known, tables)
  PROVE  Sound(more, tables)
<1>1. \A c \in Chains : Held(more[c], tables[c])
  BY MoreIsHeld DEF More, Sound
<1> QED BY <1>1 DEF Sound

\* The same for the heads that were read.
LEMMA MoreIsVouched ==
  ASSUME NEW known, NEW more, More(known, more), NEW heads, Vouched(known, heads)
  PROVE  Vouched(more, heads)
BY DEF More, Vouched, In

\* The backup and the checkpoint while the ledger moves.
LEMMA CopiesStay ==
  ASSUME BackupSound, CheckpointSound, More(links, links'), sealed' = sealed,
         checkpoint' = checkpoint, count.seals \in Nat, count'.seals \in Nat,
         count.seals <= count'.seals
  PROVE  BackupSound' /\ CheckpointSound'
<1>1. BackupSound'
  <2>1. \A t : Sound(links, t) => Sound(links', t)
    BY MoreIsSound
  <2> QED BY <2>1 DEF BackupSound
<1>2. CheckpointSound'
  <2>1. \A h : Vouched(links, h) => Vouched(links', h)
    BY MoreIsVouched
  <2> QED BY <2>1 DEF CheckpointSound
<1> QED BY <1>1, <1>2

\* An open adopts some of the chains, or none.
LEMMA OpenedIsSound ==
  ASSUME NEW known, NEW tables, Sound(known, tables), Known(known),
         NEW after, Map(after),
         \A c \in Chains : after[c] \in {tables[c], H!Adopted(c, tables[c])},
         NEW more, more = [c \in Chains |-> IF after[c] # tables[c]
                                            THEN known[c] \cup H!Links(after[c])
                                            ELSE known[c]]
  PROVE  Sound(more, after) /\ Known(more) /\ More(known, more)
<1>1. ASSUME NEW c \in Chains
      PROVE  /\ Table(after[c]) /\ Rising(after[c])
             /\ known[c] \subseteq more[c] /\ Rooted(more[c]) /\ Held(more[c], after[c])
  <2> DEFINE L == known[c]
             M == more[c]
             rs == tables[c]
             ds == after[c]
  <2>1. Table(rs) /\ Rising(rs) /\ Rooted(L) /\ Held(L, rs)
    BY DEF Sound, Known
  <2>2. ds \in {rs, H!Adopted(c, rs)} /\ M = IF ds # rs THEN L \cup H!Links(ds) ELSE L
    OBVIOUS
  <2> HIDE DEF L, M, rs, ds
  <2>3. Table(ds) /\ Rising(ds) /\ L \subseteq M /\ Rooted(M) /\ Held(M, ds)
    BY <2>1, <2>2, AdoptedIsHeld
  <2> QED BY <2>3 DEF L, M, ds
<1>2. Map(more)
  <2> DEFINE F(c) == IF after[c] # tables[c] THEN known[c] \cup H!Links(after[c]) ELSE known[c]
  <2>1. more = [c \in Chains |-> F(c)]
    OBVIOUS
  <2> HIDE DEF F
  <2>2. more \in [Chains -> {F(c) : c \in Chains}]
    BY <2>1
  <2> QED BY <2>2 DEF Map
<1> QED BY <1>1, <1>2 DEF Sound, Known, More

\* A ledger begins empty, or with a row from before the chain columns.
LEMMA ChainInit == ASSUME ChainBounds, H!Init PROVE ChainInv
<1>1. ASSUME NEW c \in Chains
      PROVE  /\ Table(rows[c]) /\ Rising(rows[c]) /\ Rooted(links[c])
             /\ Held(links[c], rows[c])
  <2> DEFINE L == links[c]
             rs == rows[c]
  <2>1. rs \in {<<>>, <<H!Legacy>>} /\ L = H!Links(rs)
    BY DEF H!Init
  <2> HIDE DEF L, rs
  <2>2. CASE rs = <<>>
    <3>1. Len(rs) = 0 /\ rs \in Seq(Row({})) /\ DOMAIN rs = {}
      BY <2>2
    <3>2. L = {}
      BY <2>1, <3>1 DEF H!Links
    <3>3. Table(rs)
      BY <3>1 DEF Table
    <3>4. 1 .. Len(rs) = {} /\ 2 .. Len(rs) = {}
      BY <3>1
    <3>5. Rising(rs) /\ Held(L, rs)
      BY <3>4 DEF Rising, Held
    <3>6. Rooted(L)
      BY <3>2 DEF Rooted
    <3> QED BY <3>3, <3>5, <3>6 DEF L, rs
  <2>3. CASE rs = <<H!Legacy>>
    <3>1. Len(rs) = 1 /\ rs[1] = H!Legacy /\ DOMAIN rs = {1}
      BY <2>3
    <3>2. H!Legacy \in Row({<<0, "whole">>, H!Blank})
      BY DEF H!Legacy, Row
    <3>3. rs \in Seq(Row({<<0, "whole">>, H!Blank}))
      BY <2>3, <3>2
    <3>4. \A l \in L : l[1] = <<>>
      BY <2>1, <3>1 DEF H!Links
    <3>5. rs[1].digest = H!Blank
      BY <3>1 DEF H!Legacy
    <3>6. Table(rs)
      BY <3>3 DEF Table
    <3>7. 2 .. Len(rs) = {} /\ \A i \in 1 .. Len(rs) : i = 1
      BY <3>1
    <3>8. Rising(rs) /\ Held(L, rs)
      BY <3>5, <3>7 DEF Rising, Held
    <3>9. Rooted(L)
      BY <3>4 DEF Rooted
    <3> QED BY <3>6, <3>8, <3>9 DEF L, rs
  <2> QED BY <2>1, <2>2, <2>3 DEF L, rs
<1>2. Map(rows) /\ Map(links)
  <2>1. rows \in [Chains -> {<<>>, <<H!Legacy>>}]
    BY DEF H!Init
  <2>2. links \in [Chains -> {H!Links(rows[c]) : c \in Chains}]
    BY DEF H!Init
  <2> QED BY <2>1, <2>2 DEF Map
<1>3. LedgerSound
  BY <1>1, <1>2 DEF LedgerSound, Sound, Known
<1>4. ChainBase
  <2>1. count \in [rows : {[c \in Chains |-> 0]}, damages : {0}, seals : Nat]
    BY DEF H!Init
  <2>2. open = FALSE /\ tool = None /\ signed = 0
    BY DEF H!Init
  <2>3. \E A, B : count \in [rows : A, damages : B, seals : Nat]
    BY <2>1
  <2>4. open \in BOOLEAN /\ (open => tool = None)
    BY <2>2, Zenon
  <2>5. signed \in 0 .. MaxReceipts
    BY <2>2 DEF ChainBounds
  <2> QED BY <2>3, <2>4, <2>5 DEF ChainBase
<1>5. ToolSound /\ BackupSound /\ CheckpointSound
  BY DEF H!Init, ToolSound, BackupSound, CheckpointSound
<1> QED BY <1>3, <1>4, <1>5 DEF ChainInv

\* The daemon moves while no tool is at work, or the ledger is damaged.
LEMMA LedgerMoves ==
  ASSUME ChainInv, LedgerSound', More(links, links'), UNCHANGED <<sealed, checkpoint>>,
         count'.seals = count.seals, ChainBase', tool' = tool
  PROVE  ChainInv'
<1>1. count.seals \in Nat
  BY DEF ChainInv, ChainBase
<1>2. BackupSound' /\ CheckpointSound'
  BY <1>1, CopiesStay DEF ChainInv
<1>3. ToolSound'
  <2>1. \A h : Vouched(links, h) => Vouched(links', h)
    BY MoreIsVouched
  <2> QED BY <2>1 DEF ChainInv, ToolSound
<1> QED BY <1>2, <1>3 DEF ChainInv

\* A step that leaves the ledger alone.
LEMMA LedgerStays ==
  ASSUME ChainInv, rows' = rows, links' = links
  PROVE  LedgerSound' /\ More(links, links')
BY DEF ChainInv, LedgerSound, More

\* OpenRepository: adopted rows are left by FutureDiff.
LEMMA OpenKeeps == ASSUME ChainInv, H!Open PROVE ChainInv'
<1> DEFINE F(c) == IF c = "events" /\ H!Adoptable(c, rows[c]) THEN H!Adopted(c, rows[c])
                   ELSE rows[c]
           after == IF H!Openable(rows) THEN H!Opened(rows) ELSE [c \in Chains |-> F(c)]
           G(c) == IF after[c] # rows[c] THEN links[c] \cup H!Links(after[c]) ELSE links[c]
<1>1. /\ rows' = after /\ links' = [c \in Chains |-> G(c)]
      /\ open' = H!Openable(rows) /\ tool = None
      /\ UNCHANGED <<tool, sealed, checkpoint, signed, count>>
  BY DEF H!Open
<1>2. Map(after) /\ \A c \in Chains : after[c] \in {rows[c], H!Adopted(c, rows[c])}
  <2>1. CASE H!Openable(rows)
    <3>1. after = [c \in Chains |-> H!Adopted(c, rows[c])]
      BY <2>1 DEF H!Opened
    <3> HIDE DEF after
    <3>2. after \in [Chains -> {H!Adopted(c, rows[c]) : c \in Chains}]
      BY <3>1
    <3> QED BY <3>1, <3>2 DEF Map
  <2>2. CASE ~H!Openable(rows)
    <3>1. after = [c \in Chains |-> F(c)]
      BY <2>2
    <3>2. \A c \in Chains : F(c) \in {rows[c], H!Adopted(c, rows[c])}
      OBVIOUS
    <3> HIDE DEF after, F
    <3>3. after \in [Chains -> {F(c) : c \in Chains}]
      BY <3>1
    <3> QED BY <3>1, <3>2, <3>3 DEF Map
  <2> QED BY <2>1, <2>2
<1>3. LedgerSound' /\ More(links, links')
  <2>1. Sound(links, rows) /\ Known(links)
    BY DEF ChainInv, LedgerSound
  <2> HIDE DEF after
  <2>2. links' = [c \in Chains |-> IF after[c] # rows[c] THEN links[c] \cup H!Links(after[c])
                                   ELSE links[c]]
    BY <1>1
  <2>3. Sound(links', after) /\ Known(links') /\ More(links, links')
    BY <1>2, <2>1, <2>2, OpenedIsSound
  <2> QED BY <1>1, <2>3 DEF LedgerSound
<1>4. ChainBase'
  <2>1. open' \in BOOLEAN
    <3>1. H!Openable(rows) \in BOOLEAN
      BY DEF H!Openable
    <3> QED BY <1>1, <3>1
  <2>2. tool' = None /\ signed' = signed /\ count' = count
    BY <1>1
  <2> QED BY <2>1, <2>2 DEF ChainInv, ChainBase
<1> QED BY <1>1, <1>3, <1>4, LedgerMoves

\* The daemon stops.
LEMMA CloseKeeps == ASSUME ChainInv, H!Close PROVE ChainInv'
<1>1. UNCHANGED <<rows, tool, sealed, checkpoint, signed, links, count>> /\ open' = FALSE
  BY DEF H!Close
<1>2. ChainBase'
  BY <1>1 DEF ChainInv, ChainBase
<1> QED BY <1>1, <1>2, LedgerStays, LedgerMoves

\* An operator receipt is recorded.
LEMMA RecordReceiptKeeps == ASSUME ChainBounds, ChainInv, H!RecordReceipt PROVE ChainInv'
<1>1. /\ UNCHANGED <<rows, open, tool, sealed, checkpoint, links, count>>
      /\ signed < MaxReceipts /\ signed' = signed + 1
  BY DEF H!RecordReceipt
<1>2. signed' \in 0 .. MaxReceipts
  BY <1>1 DEF ChainInv, ChainBase, ChainBounds
<1>3. ChainBase'
  BY <1>1, <1>2 DEF ChainInv, ChainBase
<1> QED BY <1>1, <1>3, LedgerStays, LedgerMoves

\* appendChainedEvent and its like.
LEMMA AppendRowKeeps == ASSUME ChainInv, NEW c \in Chains, H!AppendRow(c) PROVE ChainInv'
<1> DEFINE old == rows[c]
           b == <<count.rows[c] + 1, "whole">>
           new == H!NewRow(c, old, b)
           L == links[c]
           M == L \cup {<<IF old = <<>> THEN <<>> ELSE <<H!Last(old).digest>>, H!Entry(new)>>}
           ds == Append(old, new)
<1>1. /\ rows' = [rows EXCEPT ![c] = ds] /\ links' = [links EXCEPT ![c] = M]
      /\ count' = [count EXCEPT !.rows[c] = @ + 1]
      /\ UNCHANGED <<open, tool, sealed, checkpoint, signed>> /\ H!MayAppend(c, old)
  BY DEF H!AppendRow
<1>2. Table(old) /\ Rising(old) /\ Rooted(L) /\ Held(L, old)
  BY DEF ChainInv, LedgerSound, Sound, Known
<1>3. Table(ds) /\ Rising(ds) /\ L \subseteq M /\ Rooted(M) /\ Held(M, ds)
  <2>1. H!MayAppend(c, old)
    BY <1>1
  <2> HIDE DEF old, L, b
  <2> QED BY <1>2, <2>1, AppendedIsHeld
<1> HIDE DEF ds, M
<1>4. PICK T, J : rows \in [Chains -> T] /\ links \in [Chains -> J]
  BY DEF ChainInv, LedgerSound, Sound, Known, Map
<1>5. /\ rows' \in [Chains -> T \cup {ds}] /\ links' \in [Chains -> J \cup {M}]
      /\ rows'[c] = ds /\ links'[c] = M
      /\ \A k \in Chains \ {c} : rows'[k] = rows[k] /\ links'[k] = links[k]
  BY <1>1, <1>4
<1>6. LedgerSound' /\ More(links, links')
  <2>1. Map(rows') /\ Map(links')
    BY <1>5 DEF Map
  <2>2. \A k \in Chains \ {c} : Table(rows[k]) /\ Rising(rows[k]) /\ Rooted(links[k])
                               /\ Held(links[k], rows[k])
    BY DEF ChainInv, LedgerSound, Sound, Known
  <2>3. ASSUME NEW k \in Chains
        PROVE  /\ Table(rows'[k]) /\ Rising(rows'[k]) /\ Rooted(links'[k])
               /\ Held(links'[k], rows'[k]) /\ links[k] \subseteq links'[k]
    BY <1>3, <1>5, <2>2
  <2> QED BY <2>1, <2>3 DEF LedgerSound, Sound, Known, More
<1>7. count'.seals = count.seals /\ \E A, B : count' \in [rows : A, damages : B, seals : Nat]
  <2>1. PICK A, B : count \in [rows : A, damages : B, seals : Nat]
    BY DEF ChainInv, ChainBase
  <2> DEFINE r == [count.rows EXCEPT ![c] = @ + 1]
  <2>2. count' = [count EXCEPT !.rows = r]
    BY <1>1
  <2> HIDE DEF r
  <2>3. count' \in [rows : A \cup {r}, damages : B, seals : Nat] /\ count'.seals = count.seals
    BY <2>1, <2>2
  <2> QED BY <2>3
<1>8. ChainBase'
  BY <1>1, <1>7 DEF ChainInv, ChainBase
<1> QED BY <1>1, <1>6, <1>7, <1>8, LedgerMoves

\* Something that is not FutureDiff damages the ledger.
LEMMA DamageLedgerKeeps ==
  ASSUME ChainInv, NEW c \in Chains, H!DamageLedger(c) PROVE ChainInv'
<1> PICK i \in DOMAIN rows[c] :
           \E ds \in H!DamagedRows(rows[c], i) : rows' = [rows EXCEPT ![c] = ds]
  BY DEF H!DamageLedger
<1>1. PICK ds \in H!DamagedRows(rows[c], i) : rows' = [rows EXCEPT ![c] = ds]
  OBVIOUS
<1>2. /\ count' = [count EXCEPT !.damages = @ + 1]
      /\ UNCHANGED <<open, tool, sealed, checkpoint, signed, links>>
  BY DEF H!DamageLedger
<1>3. Table(rows[c]) /\ Rising(rows[c]) /\ Held(links[c], rows[c])
  BY DEF ChainInv, LedgerSound, Sound
<1>4. Table(ds) /\ Rising(ds) /\ Held(links[c], ds)
  BY <1>1, <1>3, DamagedIsSpoilt, SpoiltIsHeld
<1>5. LedgerSound' /\ More(links, links')
  <2>1. PICK T : rows \in [Chains -> T]
    BY DEF ChainInv, LedgerSound, Sound, Map
  <2>2. /\ rows' \in [Chains -> T \cup {ds}] /\ rows'[c] = ds
        /\ \A k \in Chains \ {c} : rows'[k] = rows[k]
    BY <1>1, <2>1
  <2>3. Map(rows')
    BY <2>2 DEF Map
  <2>4. \A k \in Chains \ {c} : Table(rows[k]) /\ Rising(rows[k]) /\ Held(links[k], rows[k])
    BY DEF ChainInv, LedgerSound, Sound
  <2>5. \A k \in Chains : Table(rows'[k]) /\ Rising(rows'[k]) /\ Held(links[k], rows'[k])
    BY <1>4, <2>2, <2>4
  <2> QED BY <1>2, <2>3, <2>5 DEF ChainInv, LedgerSound, Sound, More
<1>6. count'.seals = count.seals /\ \E A, B : count' \in [rows : A, damages : B, seals : Nat]
  <2>1. PICK A, B : count \in [rows : A, damages : B, seals : Nat]
    BY DEF ChainInv, ChainBase
  <2> DEFINE d == count.damages + 1
  <2>2. count' = [count EXCEPT !.damages = d]
    BY <1>2
  <2> HIDE DEF d
  <2>3. count' \in [rows : A, damages : B \cup {d}, seals : Nat] /\ count'.seals = count.seals
    BY <2>1, <2>2
  <2> QED BY <2>3
<1>7. ChainBase'
  BY <1>2, <1>6 DEF ChainInv, ChainBase
<1> QED BY <1>2, <1>5, <1>6, <1>7, LedgerMoves

\* A backup that somebody touched vouches for nothing.
LEMMA BackupTouched ==
  ASSUME ChainInv, sealed # None, BackupSound', ToolSound', ChainBase',
         count'.seals = count.seals,
         UNCHANGED <<rows, links, checkpoint>>
  PROVE  ChainInv'
<1>1. LedgerSound' /\ More(links, links')
  BY LedgerStays
<1>2. CheckpointSound'
  BY DEF ChainInv, CheckpointSound
<1> QED BY <1>1, <1>2 DEF ChainInv

\* Or the backup, which then is no longer the file that was sealed.
LEMMA DamageBackupKeeps ==
  ASSUME ChainInv, NEW c \in Chains, H!DamageBackup(c) PROVE ChainInv'
<1>1. PICK ds : sealed' = [sealed EXCEPT !.tables[c] = ds, !.intact = FALSE]
  BY DEF H!DamageBackup
<1>2. /\ count' = [count EXCEPT !.damages = @ + 1] /\ sealed # None
      /\ UNCHANGED <<rows, open, tool, checkpoint, signed, links>>
  BY DEF H!DamageBackup
<1>3. BackupSound'
  <2>1. PICK T : sealed \in [tables : T, seal : Nat, intact : BOOLEAN]
    BY <1>2 DEF ChainInv, BackupSound
  <2> DEFINE t == [sealed.tables EXCEPT ![c] = ds]
  <2>2. sealed' = [[sealed EXCEPT !.tables = t] EXCEPT !.intact = FALSE]
    BY <1>1
  <2> HIDE DEF t
  <2>3. sealed' \in [tables : T \cup {t}, seal : Nat, intact : BOOLEAN] /\ ~sealed'.intact
    BY <2>1, <2>2
  <2> QED BY <2>3 DEF BackupSound
<1>4. count'.seals = count.seals /\ \E A, B : count' \in [rows : A, damages : B, seals : Nat]
  <2>1. PICK A, B : count \in [rows : A, damages : B, seals : Nat]
    BY DEF ChainInv, ChainBase
  <2> DEFINE d == count.damages + 1
  <2>2. count' = [count EXCEPT !.damages = d]
    BY <1>2
  <2> HIDE DEF d
  <2>3. count' \in [rows : A, damages : B \cup {d}, seals : Nat] /\ count'.seals = count.seals
    BY <2>1, <2>2
  <2> QED BY <2>3
<1>5. ChainBase' /\ ToolSound'
  BY <1>2, <1>4 DEF ChainInv, ChainBase, ToolSound
<1> QED BY <1>2, <1>3, <1>4, <1>5, BackupTouched

\* Verify adopts the rows of the backup it opens.
LEMMA VerifyCheckpointKeeps == ASSUME ChainInv, H!VerifyCheckpoint PROVE ChainInv'
<1>1. /\ sealed' = [sealed EXCEPT !.tables = H!Opened(@), !.intact = FALSE] /\ sealed # None
      /\ UNCHANGED <<rows, open, tool, checkpoint, signed, links, count>>
  BY DEF H!VerifyCheckpoint
<1>2. BackupSound'
  <2>1. PICK T : sealed \in [tables : T, seal : Nat, intact : BOOLEAN]
    BY <1>1 DEF ChainInv, BackupSound
  <2> DEFINE t == H!Opened(sealed.tables)
  <2>2. sealed' = [[sealed EXCEPT !.tables = t] EXCEPT !.intact = FALSE]
    BY <1>1
  <2> HIDE DEF t
  <2>3. sealed' \in [tables : T \cup {t}, seal : Nat, intact : BOOLEAN] /\ ~sealed'.intact
    BY <2>1, <2>2
  <2> QED BY <2>3 DEF BackupSound
<1>3. ChainBase' /\ ToolSound'
  BY <1>1 DEF ChainInv, ChainBase, ToolSound
<1> QED BY <1>1, <1>2, <1>3, BackupTouched

\* The tool opens the ledger, and so adopts its rows, before it reads anything.
LEMMA SealBeginKeeps == ASSUME ChainInv, H!SealBegin PROVE ChainInv'
<1> DEFINE after == H!Opened(rows)
<1>1. /\ rows' = after /\ ~open
      /\ links' = [c \in Chains |-> IF after[c] # rows[c] THEN links[c] \cup H!Links(after[c])
                                    ELSE links[c]]
      /\ tool' = [at |-> "backup", seal |-> count.seals + 1]
      /\ count' = [count EXCEPT !.seals = @ + 1]
      /\ UNCHANGED <<open, sealed, checkpoint, signed>>
  <2>1. /\ rows' = after
        /\ links' = [c \in Chains |-> IF rows'[c] # rows[c] THEN links[c] \cup H!Links(rows'[c])
                                      ELSE links[c]]
    BY DEF H!SealBegin
  <2>2. /\ tool' = [at |-> "backup", seal |-> count.seals + 1] /\ ~open
        /\ count' = [count EXCEPT !.seals = @ + 1]
        /\ UNCHANGED <<open, sealed, checkpoint, signed>>
    BY DEF H!SealBegin
  <2> HIDE DEF after
  <2> QED BY <2>1, <2>2
<1>2. Map(after) /\ \A c \in Chains : after[c] \in {rows[c], H!Adopted(c, rows[c])}
  <2>1. after = [c \in Chains |-> H!Adopted(c, rows[c])]
    BY DEF H!Opened
  <2> HIDE DEF after
  <2>2. after \in [Chains -> {H!Adopted(c, rows[c]) : c \in Chains}]
    BY <2>1
  <2> QED BY <2>1, <2>2 DEF Map
<1> HIDE DEF after
<1>3. LedgerSound' /\ More(links, links')
  <2>1. Sound(links, rows) /\ Known(links)
    BY DEF ChainInv, LedgerSound
  <2>2. Sound(links', after) /\ Known(links') /\ More(links, links')
    BY <1>1, <1>2, <2>1, OpenedIsSound
  <2> QED BY <1>1, <2>2 DEF LedgerSound
<1>4. PICK A, B : count \in [rows : A, damages : B, seals : Nat]
  BY DEF ChainInv, ChainBase
<1>5. /\ count' \in [rows : A, damages : B, seals : Nat] /\ count'.seals = count.seals + 1
      /\ count.seals \in Nat
  BY <1>1, <1>4
<1>6. BackupSound' /\ CheckpointSound'
  <2>1. count.seals \in Nat /\ count'.seals \in Nat /\ count.seals <= count'.seals
    BY <1>5
  <2> QED BY <1>1, <1>3, <2>1, CopiesStay DEF ChainInv
<1>7. ToolSound'
  <2>1. tool' \in [at : {"backup", "heads"}, seal : Nat] /\ tool'.seal = count'.seals
        /\ tool'.at = "backup"
    BY <1>1, <1>5
  <2>2. tool'.seal \in 1 .. count'.seals
    BY <1>5, <2>1
  <2> QED BY <2>1, <2>2 DEF ToolSound
<1>8. ChainBase'
  <2>1. open' = FALSE
    BY <1>1 DEF ChainInv, ChainBase
  <2> QED BY <1>1, <1>5, <2>1 DEF ChainInv, ChainBase
<1> QED BY <1>3, <1>6, <1>7, <1>8 DEF ChainInv

\* While the tool is at work the daemon has the ledger closed.
LEMMA ToolKeepsBase ==
  ASSUME ChainInv, tool # None, UNCHANGED <<open, signed, count>>
  PROVE  ChainBase' /\ count.seals \in Nat
<1>1. open = FALSE
  BY DEF ChainInv, ChainBase
<1> QED BY <1>1 DEF ChainInv, ChainBase

\* Create publishes a backup of the ledger.
LEMMA SealBackupKeeps == ASSUME ChainInv, H!SealBackup PROVE ChainInv'
<1>1. /\ tool # None /\ tool.at = "backup"
      /\ sealed' = [tables |-> rows, seal |-> tool.seal, intact |-> TRUE]
      /\ tool' = [tool EXCEPT !.at = "heads"]
      /\ UNCHANGED <<rows, open, checkpoint, signed, links, count>>
  BY DEF H!SealBackup
<1>2. tool \in [at : {"backup", "heads"}, seal : Nat] /\ tool.seal \in 1 .. count.seals
  BY <1>1 DEF ChainInv, ToolSound
<1>3. ToolSound'
  <2>1. tool' \in [at : {"backup", "heads"}, seal : Nat] /\ tool'.seal = tool.seal
        /\ tool'.at = "heads"
    BY <1>1, <1>2
  <2> QED BY <1>1, <1>2, <2>1 DEF ToolSound
<1>4. BackupSound'
  <2>1. Sound(links', rows')
    BY <1>1 DEF ChainInv, LedgerSound
  <2>2. sealed' \in [tables : {rows}, seal : Nat, intact : BOOLEAN] /\ sealed'.tables = rows'
    BY <1>1, <1>2
  <2> QED BY <2>1, <2>2 DEF BackupSound
<1>5. LedgerSound' /\ CheckpointSound'
  BY <1>1, LedgerStays DEF ChainInv, CheckpointSound
<1> QED BY <1>1, <1>3, <1>4, <1>5, ToolKeepsBase DEF ChainInv

\* Create reads the heads from the ledger.
LEMMA SealHeadsKeeps == ASSUME ChainInv, H!SealHeads PROVE ChainInv'
<1> DEFINE heads == H!Heads(rows)
<1>1. /\ tool # None /\ tool.at = "heads"
      /\ \/ tool' = [at |-> "write", seal |-> tool.seal, heads |-> heads, receipts |-> signed]
         \/ tool' = None
      /\ UNCHANGED <<rows, open, sealed, checkpoint, signed, links, count>>
  BY DEF H!SealHeads
<1>2. tool \in [at : {"backup", "heads"}, seal : Nat] /\ tool.seal \in 1 .. count.seals
  BY <1>1 DEF ChainInv, ToolSound
<1>3. Vouched(links, heads)
  <2>1. \A c \in Chains : Table(rows[c]) /\ Held(links[c], rows[c])
    BY DEF ChainInv, LedgerSound, Sound
  <2>2. \A c \in Chains : heads[c] = H!Newest(c, rows[c])
    BY DEF H!Heads
  <2> HIDE DEF heads
  <2> QED BY <2>1, <2>2, NewestIsHeld DEF Vouched
<1> HIDE DEF heads
<1>4. ToolSound'
  <2>1. CASE tool' = None
    BY <2>1 DEF ToolSound
  <2>2. CASE tool' = [at |-> "write", seal |-> tool.seal, heads |-> heads, receipts |-> signed]
    <3>1. /\ tool'.at = "write" /\ tool'.seal = tool.seal /\ tool'.heads = heads
          /\ tool'.receipts = signed
      BY <2>2
    <3>2. tool' \in [at : {"write"}, seal : Nat, heads : {tool'.heads},
                     receipts : {tool'.receipts}]
      BY <1>2, <2>2, <3>1
    <3> QED BY <1>1, <1>2, <1>3, <3>1, <3>2 DEF ToolSound
  <2> QED BY <1>1, <2>1, <2>2
<1>5. LedgerSound' /\ BackupSound' /\ CheckpointSound'
  BY <1>1, LedgerStays DEF ChainInv, BackupSound, CheckpointSound
<1> QED BY <1>1, <1>4, <1>5, ToolKeepsBase DEF ChainInv

\* Create publishes the checkpoint.
LEMMA SealWriteKeeps == ASSUME ChainInv, H!SealWrite PROVE ChainInv'
<1>1. /\ tool # None /\ tool.at = "write" /\ tool' = None
      /\ checkpoint' = [seal |-> tool.seal, heads |-> tool.heads, receipts |-> tool.receipts]
      /\ UNCHANGED <<rows, open, sealed, signed, links, count>>
  BY DEF H!SealWrite
<1>2. Vouched(links, tool.heads) /\ tool.seal \in 1 .. count.seals
  BY <1>1 DEF ChainInv, ToolSound
<1>3. CheckpointSound'
  BY <1>1, <1>2 DEF CheckpointSound
<1>4. LedgerSound' /\ BackupSound' /\ ToolSound'
  BY <1>1, LedgerStays DEF ChainInv, BackupSound, ToolSound
<1> QED BY <1>1, <1>3, <1>4, ToolKeepsBase DEF ChainInv

\* Create fails, or its tool dies.
LEMMA SealFailsKeeps == ASSUME ChainInv, H!SealFails PROVE ChainInv'
<1>1. /\ tool # None /\ tool' = None
      /\ UNCHANGED <<rows, open, sealed, checkpoint, signed, links, count>>
  BY DEF H!SealFails
<1>2. LedgerSound' /\ BackupSound' /\ CheckpointSound' /\ ToolSound'
  BY <1>1, LedgerStays DEF ChainInv, BackupSound, CheckpointSound, ToolSound
<1> QED BY <1>1, <1>2, ToolKeepsBase DEF ChainInv

\* Every step keeps what is known of the digests.
LEMMA ChainNext == ASSUME ChainBounds, ChainInv, H!Next PROVE ChainInv'
<1>1. CASE H!Open \/ H!Close \/ H!RecordReceipt
  BY <1>1, OpenKeeps, CloseKeeps, RecordReceiptKeeps
<1>2. CASE \E c \in Chains : H!AppendRow(c) \/ H!DamageLedger(c) \/ H!DamageBackup(c)
  BY <1>2, AppendRowKeeps, DamageLedgerKeeps, DamageBackupKeeps
<1>3. CASE H!SealBegin \/ H!SealBackup \/ H!SealHeads \/ H!SealWrite \/ H!SealFails
  BY <1>3, SealBeginKeeps, SealBackupKeeps, SealHeadsKeeps, SealWriteKeeps, SealFailsKeeps
<1>4. CASE H!VerifyCheckpoint
  BY <1>4, VerifyCheckpointKeeps
<1> QED BY <1>1, <1>2, <1>3, <1>4 DEF H!Next

\* What the checkpoint's verification looks at, chain by chain.
LEMMA HoldsIsSound ==
  ASSUME ChainInv, checkpoint # None, sealed # None, H!Holds(sealed, checkpoint),
         NEW c \in Chains
  PROVE  /\ H!Valid(c, H!Adopted(c, sealed.tables[c]))
         /\ H!IsHistory(c, H!Adopted(c, sealed.tables[c]))
<1> DEFINE rs == sealed.tables[c]
           ds == H!Adopted(c, rs)
           L == links[c]
<1>1. /\ sealed.intact /\ H!Audited(H!Opened(sealed.tables))
      /\ \A k \in Chains \ {"access"} :
           /\ H!Numbered(k) => H!Valid(k, H!Opened(sealed.tables)[k])
           /\ H!Heads(H!Opened(sealed.tables))[k] = checkpoint.heads[k]
  BY DEF H!Holds
<1>2. H!Opened(sealed.tables)[c] = ds
  BY DEF H!Opened
<1>3. c # "access" => H!Newest(c, ds) = checkpoint.heads[c]
  <2>1. H!Heads(H!Opened(sealed.tables))[c] = H!Newest(c, ds)
    BY <1>2 DEF H!Heads
  <2> QED BY <1>1, <2>1
<1>4. H!Valid(c, ds)
  <2>1. CASE c = "api"
    BY <1>1, <1>2, <2>1 DEF H!Numbered
  <2>2. CASE c # "api"
    BY <1>1, <1>2, <2>2 DEF H!Audited
  <2> QED BY <2>1, <2>2
<1>5. Table(rs) /\ Rising(rs) /\ Held(L, rs) /\ Rooted(L)
  BY <1>1 DEF ChainInv, BackupSound, LedgerSound, Sound, Known
<1>6. ds[Len(ds)] = H!Last(ds)
  BY DEF H!Last
<1>7. Vouched(links, checkpoint.heads)
  BY DEF ChainInv, CheckpointSound
<1> HIDE DEF rs, ds, L
<1>8. H!Links(ds) \subseteq L
  <2>1. CASE H!Adopts(c)
    <3>1. Table(ds) /\ Chained(c, ds)
      BY <1>5, <2>1, AdoptedIs DEF ds
    <3>2. ASSUME Len(ds) > 0 PROVE In(L, ds[Len(ds)].digest)
      <4>1. Len(ds) \in 1 .. Len(ds) /\ ds # <<>>
        BY <3>1, <3>2, TableIs
      <4>2. ds[Len(ds)].digest = checkpoint.heads[c]
        BY <1>3, <1>6, <2>1, <4>1 DEF H!Newest, H!Adopts
      <4>3. ds[Len(ds)].digest # H!Blank
        BY <3>1, <4>1, DigestIs DEF Chained
      <4> QED BY <1>7, <4>2, <4>3 DEF Vouched, L
    <3> QED BY <1>4, <1>5, <3>1, <3>2, HeadVouches
  <2>2. CASE ~H!Adopts(c)
    <3>1. ds = rs
      BY <2>2 DEF H!Adopted, ds
    <3> QED BY <1>4, <1>5, <3>1, ValidIsHistory
  <2> QED BY <2>1, <2>2
<1> QED BY <1>4, <1>8 DEF ds, rs, L, H!IsHistory

\* ChainsAreHonest for any chains, rows, damages and checkpoints (event_chain.go,
\* api_requests.go, authorization.go, integritycheckpoint.Create and Verify): a chain that
\* verifies holds only rows FutureDiff left, each after the row with the digest it left it
\* after, and a checkpoint that verifies vouches for that.  Damage computes no digest; so
\* every digest stored is of a row FutureDiff left, and covers the digest before it.
THEOREM ChainsStayHonest ==
  ASSUME ChainBounds
  PROVE  H!ChainsSpec => []ChainsAreHonest
<1>1. H!Init => ChainInv
  BY ChainInit
<1>2. ChainInv /\ [H!Next]_(H!vars) => ChainInv'
  <2>1. ASSUME ChainInv, UNCHANGED H!vars PROVE ChainInv'
    BY <2>1 DEF H!vars, ChainInv, LedgerSound, ToolSound, BackupSound, CheckpointSound,
                ChainBase
  <2> QED BY <2>1, ChainNext
<1>3. ChainInv => ChainsAreHonest
  <2> SUFFICES ASSUME ChainInv PROVE ChainsAreHonest
    OBVIOUS
  <2>1. ASSUME NEW c \in Chains
        PROVE  Table(rows[c]) /\ Rising(rows[c]) /\ Held(links[c], rows[c])
    BY DEF ChainInv, LedgerSound, Sound
  <2>2. H!ChainsTypeOK
    <3>1. ASSUME NEW c \in Chains, NEW i \in DOMAIN rows[c]
          PROVE  /\ rows[c][i].seq \in Nat \ {0}
                 /\ i > 1 => rows[c][i - 1].seq < rows[c][i].seq
      <4> DEFINE rs == rows[c]
      <4>1. Table(rs) /\ Rising(rs)
        BY <2>1
      <4> HIDE DEF rs
      <4>2. Len(rs) \in Nat /\ DOMAIN rs = 1 .. Len(rs)
        BY <4>1, TableIs
      <4>3. PICK S : rs \in Seq(Row(S))
        BY <4>1 DEF Table
      <4>4. i \in 1 .. Len(rs)
        BY <3>1, <4>2 DEF rs
      <4>5. rs[i] \in Row(S)
        BY <4>3, <4>4, ElementOfSeq
      <4>6. i > 1 => i \in 2 .. Len(rs)
        BY <4>2, <4>4
      <4> QED BY <4>1, <4>5, <4>6 DEF Rising, Row, rs
    <3>2. tool # None => tool.at \in {"backup", "heads", "write"}
      BY DEF ChainInv, ToolSound
    <3>3. checkpoint # None => checkpoint.seal \in 1 .. count.seals
      BY DEF ChainInv, CheckpointSound
    <3>4. open \in BOOLEAN /\ (open => tool = None) /\ signed \in 0 .. MaxReceipts
      BY DEF ChainInv, ChainBase
    <3> QED BY <3>1, <3>2, <3>3, <3>4 DEF H!ChainsTypeOK
  <2>3. H!GreenIsHistory
    BY <2>1, ValidIsHistory DEF H!GreenIsHistory, H!IsHistory
  <2>4. H!CheckpointVouches
    BY HoldsIsSound DEF H!CheckpointVouches
  <2> QED BY <2>2, <2>3, <2>4 DEF ChainsAreHonest, H!ChainsAreHonest
<1> QED BY <1>1, <1>2, <1>3, PTL DEF H!ChainsSpec
=============================================================================
