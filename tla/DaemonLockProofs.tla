-------------------------- MODULE DaemonLockProofs --------------------------
(***************************************************************************)
(* Proofs about DaemonLock, for any number of daemons, offline tools and   *)
(* cleanups: a held lock file is never unlinked, and, as long as           *)
(* cleanup-lock and a start do not overlap, one process writes the ledger. *)
(***************************************************************************)
EXTENDS DaemonLock, TLAPS

User == Daemon \cup Tool

\* From the flock on and until Release, a process holds the lock.
HeldPC == {"locked", "truncated", "gate", "open_ledger", "write_pid",
           "unlink_socket", "listen", "serving", "drained", "closing", "close_ledger",
           "writing", "release"}

LockShape ==
  /\ path \in Inode \cup {None}
  /\ flock \in [Inode -> Process \cup {None}]
  /\ fd \in [Process -> Inode \cup {None}]
  /\ pc \in [Process -> PC]

\* A cleanup unlinks and unlocks the inode whose flock it holds.
CleanerHolds ==
  \A c \in Cleaner :
    /\ pc[c] \in {"rm_flock", "rm_unlink", "rm_unlock"} => fd[c] \in Inode
    /\ pc[c] \in {"rm_unlink", "rm_unlock"} => flock[fd[c]] = c

\* A cleanup takes none of the steps of the lock's users, and they none of its.
OwnSteps ==
  /\ \A c \in Cleaner : pc[c] \notin HeldPC \cup {"acquire", "opened"}
  /\ \A p \in User : pc[p] \notin CleanPC

\* Inductive whether cleanups and starts overlap or not.
CleanInv == LockShape /\ CleanerHolds /\ OwnSteps

\* The inductive invariant behind OneWriter: whoever is past its flock holds
\* the flock of the inode the path names, whoever is about to take it has that
\* inode open, and nobody is about to take it while a cleanup removes.
UserHolds ==
  \A p \in User :
    pc[p] \in HeldPC => path \in Inode /\ fd[p] = path /\ flock[path] = p
OpenedIsNamed ==
  \A p \in User : pc[p] = "opened" => path \in Inode /\ fd[p] = path
Apart ==
  \A c \in Cleaner, p \in User : pc[c] \in RemovePC => pc[p] \notin StartingPC

OwnerInv == UserHolds /\ OpenedIsNamed /\ Apart

LEMMA Labels ==
  /\ HeldPC \subseteq PC /\ CleanPC \subseteq PC /\ InspectPC \subseteq PC
  /\ {"idle", "acquire", "opened", "gone"} \subseteq PC
  /\ StartingPC \subseteq HeldPC \cup {"opened"}
  BY DEF HeldPC, PC, InAcquire, InspectPC, DaemonPC, CleanPC, RemovePC, StartingPC

-----------------------------------------------------------------------------
\* A step of anyone keeps CleanInv.
LEMMA CleanNext == CleanInv /\ [Next]_vars => CleanInv'
<1> SUFFICES ASSUME CleanInv, [Next]_vars PROVE CleanInv'
  OBVIOUS
<1> USE Labels, KindAssumption DEF CleanInv, LockShape, CleanerHolds, OwnSteps,
    InspectPC, Serving, Process, User, Goto, Closed, Exit, lockVars, HeldPC,
        InAcquire, CleanPC, RemovePC
<1>1. ASSUME NEW p \in User, AcquireStep(p) PROVE CleanInv'
  <2>1. CASE OpenLock(p)
    BY <1>1, <2>1 DEF OpenLock, Fresh, MayAcquire
  <2>2. CASE TakeLock(p)
    BY <1>1, <2>2 DEF TakeLock
  <2>3. CASE TruncateMeta(p)
    BY <1>1, <2>3 DEF TruncateMeta
  <2>4. CASE WriteMeta(p)
    BY <1>1, <2>4 DEF WriteMeta
  <2>5. CASE AcquireFails(p)
    BY <1>1, <2>5 DEF AcquireFails
  <2> QED BY <1>1, <2>1, <2>2, <2>3, <2>4, <2>5 DEF AcquireStep
<1>2. ASSUME NEW p \in Process, Start(p) \/ Release(p) \/ Crash(p) PROVE CleanInv'
  <2>1. CASE Start(p)
    <3>1. LockShape'
      BY <1>2, <2>1 DEF Start
    <3>2. CleanerHolds'
      BY <1>2, <2>1 DEF Start
    <3>3. OwnSteps'
      BY <1>2, <2>1 DEF Start
    <3> QED BY <3>1, <3>2, <3>3
  <2>2. CASE Release(p)
    BY <1>2, <2>2 DEF Release
  <2>3. CASE Crash(p)
    BY <1>2, <2>3 DEF Crash
  <2> QED BY <1>2, <2>1, <2>2, <2>3
<1>3. ASSUME NEW d \in Daemon, DaemonStep(d) PROVE CleanInv'
  <2>1. CASE IntegrityGate(d)
    BY <1>3, <2>1 DEF IntegrityGate
  <2>2. CASE OpenLedger(d)
    BY <1>3, <2>2 DEF OpenLedger
  <2>3. CASE WritePidFile(d)
    BY <1>3, <2>3 DEF WritePidFile
  <2>4. CASE RemoveOldSocket(d)
    BY <1>3, <2>4 DEF RemoveOldSocket
  <2>5. CASE Listen(d)
    BY <1>3, <2>5 DEF Listen
  <2>6. CASE BeginMutation(d)
    BY <1>3, <2>6 DEF BeginMutation
  <2>7. CASE EndMutation(d)
    BY <1>3, <2>7 DEF EndMutation
  <2>8. CASE Interrupt(d)
    BY <1>3, <2>8 DEF Interrupt
  <2>9. CASE DrainEnds(d)
    BY <1>3, <2>9 DEF DrainEnds
  <2>10. CASE CloseServer(d)
    BY <1>3, <2>10 DEF CloseServer
  <2>11. CASE RemovePidFile(d)
    BY <1>3, <2>11 DEF RemovePidFile
  <2>12. CASE CloseLedger(d)
    BY <1>3, <2>12 DEF CloseLedger
  <2> QED BY <1>3, <2>1, <2>2, <2>3, <2>4, <2>5, <2>6, <2>7, <2>8, <2>9, <2>10,
      <2>11, <2>12 DEF DaemonStep
<1>4. ASSUME NEW p \in Tool \cup Cleaner, InspectStep(p) PROVE CleanInv'
  <2>1. CASE InspectRead(p)
    <3>1. LockShape'
      BY <1>4, <2>1 DEF InspectRead, Answered
    <3>2. CleanerHolds'
      BY <1>4, <2>1 DEF InspectRead, Answered
    <3>3. OwnSteps'
      BY <1>4, <2>1 DEF InspectRead, Answered
    <3> QED BY <3>1, <3>2, <3>3
  <2>2. CASE InspectProbe(p)
    <3>1. LockShape'
      BY <1>4, <2>2 DEF InspectProbe, Answered
    <3>2. CleanerHolds'
      BY <1>4, <2>2 DEF InspectProbe, Answered
    <3>3. OwnSteps'
      BY <1>4, <2>2 DEF InspectProbe, Answered
    <3> QED BY <3>1, <3>2, <3>3
  <2>3. CASE InspectRelease(p)
    BY <1>4, <2>3 DEF InspectRelease
  <2> QED BY <1>4, <2>1, <2>2, <2>3 DEF InspectStep
<1>5. ASSUME NEW p \in Tool, ToolDone(p) PROVE CleanInv'
    BY <1>5 DEF ToolDone
<1>6. ASSUME NEW c \in Cleaner, CleanerStep(c) PROVE CleanInv'
  <2>1. CASE CleanupAudit(c)
    BY <1>6, <2>1 DEF CleanupAudit
  <2>2. CASE RemoveOpen(c)
    BY <1>6, <2>2 DEF RemoveOpen, MayRemove
  <2>3. CASE RemoveFlock(c)
    BY <1>6, <2>3 DEF RemoveFlock
  <2>4. CASE RemoveUnlink(c)
    BY <1>6, <2>4 DEF RemoveUnlink
  <2>5. CASE RemoveUnlock(c)
    BY <1>6, <2>5 DEF RemoveUnlock
  <2>6. CASE DialSocket(c)
    BY <1>6, <2>6 DEF DialSocket
  <2>7. CASE RemoveSocket(c)
    BY <1>6, <2>7 DEF RemoveSocket
  <2> QED BY <1>6, <2>1, <2>2, <2>3, <2>4, <2>5, <2>6, <2>7 DEF CleanerStep
<1>7. CASE ReusePid
  BY <1>7 DEF ReusePid
<1>8. CASE UNCHANGED vars
  BY <1>8 DEF vars, MayAcquire, MayRemove
<1> QED
  BY <1>1, <1>2, <1>3, <1>4, <1>5, <1>6, <1>7, <1>8 DEF Next, User

\* With cleanups and starts kept apart, a step keeps OwnerInv.
LEMMA OwnerNext == CleanInv /\ OwnerInv /\ "cleanup" \notin Races /\ [Next]_vars => OwnerInv'
<1> SUFFICES ASSUME CleanInv, OwnerInv, "cleanup" \notin Races,
    [Next]_vars PROVE OwnerInv'
  OBVIOUS
<1> USE Labels, KindAssumption DEF CleanInv, LockShape, CleanerHolds, OwnSteps,
    OwnerInv, UserHolds, OpenedIsNamed, Apart, StartingPC, InspectPC, Serving,
        Process, User, Goto, Closed, Exit, lockVars, HeldPC, InAcquire, CleanPC,
            RemovePC
<1>1. ASSUME NEW p \in User, AcquireStep(p) PROVE OwnerInv'
  <2>1. CASE OpenLock(p)
    BY <1>1, <2>1 DEF OpenLock, Fresh, MayAcquire
  <2>2. CASE TakeLock(p)
    BY <1>1, <2>2 DEF TakeLock
  <2>3. CASE TruncateMeta(p)
    BY <1>1, <2>3 DEF TruncateMeta
  <2>4. CASE WriteMeta(p)
    BY <1>1, <2>4 DEF WriteMeta
  <2>5. CASE AcquireFails(p)
    BY <1>1, <2>5 DEF AcquireFails
  <2> QED BY <1>1, <2>1, <2>2, <2>3, <2>4, <2>5 DEF AcquireStep
<1>2. ASSUME NEW p \in Process, Start(p) \/ Release(p) \/ Crash(p) PROVE OwnerInv'
  <2>1. CASE Start(p)
    BY <1>2, <2>1 DEF Start
  <2>2. CASE Release(p)
    BY <1>2, <2>2 DEF Release
  <2>3. CASE Crash(p)
    BY <1>2, <2>3 DEF Crash
  <2> QED BY <1>2, <2>1, <2>2, <2>3
<1>3. ASSUME NEW d \in Daemon, DaemonStep(d) PROVE OwnerInv'
  <2>1. CASE IntegrityGate(d)
    BY <1>3, <2>1 DEF IntegrityGate
  <2>2. CASE OpenLedger(d)
    BY <1>3, <2>2 DEF OpenLedger
  <2>3. CASE WritePidFile(d)
    BY <1>3, <2>3 DEF WritePidFile
  <2>4. CASE RemoveOldSocket(d)
    BY <1>3, <2>4 DEF RemoveOldSocket
  <2>5. CASE Listen(d)
    BY <1>3, <2>5 DEF Listen
  <2>6. CASE BeginMutation(d)
    BY <1>3, <2>6 DEF BeginMutation
  <2>7. CASE EndMutation(d)
    BY <1>3, <2>7 DEF EndMutation
  <2>8. CASE Interrupt(d)
    BY <1>3, <2>8 DEF Interrupt
  <2>9. CASE DrainEnds(d)
    BY <1>3, <2>9 DEF DrainEnds
  <2>10. CASE CloseServer(d)
    BY <1>3, <2>10 DEF CloseServer
  <2>11. CASE RemovePidFile(d)
    BY <1>3, <2>11 DEF RemovePidFile
  <2>12. CASE CloseLedger(d)
    BY <1>3, <2>12 DEF CloseLedger
  <2> QED BY <1>3, <2>1, <2>2, <2>3, <2>4, <2>5, <2>6, <2>7, <2>8, <2>9, <2>10,
      <2>11, <2>12 DEF DaemonStep
<1>4. ASSUME NEW p \in Tool \cup Cleaner, InspectStep(p) PROVE OwnerInv'
  <2>1. CASE InspectRead(p)
    BY <1>4, <2>1 DEF InspectRead, Answered
  <2>2. CASE InspectProbe(p)
    BY <1>4, <2>2 DEF InspectProbe, Answered
  <2>3. CASE InspectRelease(p)
    BY <1>4, <2>3 DEF InspectRelease
  <2> QED BY <1>4, <2>1, <2>2, <2>3 DEF InspectStep
<1>5. ASSUME NEW p \in Tool, ToolDone(p) PROVE OwnerInv'
    BY <1>5 DEF ToolDone
<1>6. ASSUME NEW c \in Cleaner, CleanerStep(c) PROVE OwnerInv'
  <2>1. CASE CleanupAudit(c)
    BY <1>6, <2>1 DEF CleanupAudit
  <2>2. CASE RemoveOpen(c)
    BY <1>6, <2>2 DEF RemoveOpen, MayRemove
  <2>3. CASE RemoveFlock(c)
    BY <1>6, <2>3 DEF RemoveFlock
  <2>4. CASE RemoveUnlink(c)
    BY <1>6, <2>4 DEF RemoveUnlink
  <2>5. CASE RemoveUnlock(c)
    BY <1>6, <2>5 DEF RemoveUnlock
  <2>6. CASE DialSocket(c)
    BY <1>6, <2>6 DEF DialSocket
  <2>7. CASE RemoveSocket(c)
    BY <1>6, <2>7 DEF RemoveSocket
  <2> QED BY <1>6, <2>1, <2>2, <2>3, <2>4, <2>5, <2>6, <2>7 DEF CleanerStep
<1>7. CASE ReusePid
  BY <1>7 DEF ReusePid
<1>8. CASE UNCHANGED vars
  BY <1>8 DEF vars, MayAcquire, MayRemove
<1> QED
  BY <1>1, <1>2, <1>3, <1>4, <1>5, <1>6, <1>7, <1>8 DEF Next, User

-----------------------------------------------------------------------------
(* The theorems.                                                           *)

LEMMA OwnerInit == Init => CleanInv /\ OwnerInv
  BY DEF Init, CleanInv, LockShape, CleanerHolds, OwnSteps, OwnerInv, UserHolds,
         OpenedIsNamed, Apart, HeldPC, CleanPC, RemovePC, PC, Process, User

LEMMA InvOneWriter == CleanInv /\ OwnerInv => OneWriter
<1> SUFFICES ASSUME CleanInv, OwnerInv, NEW p \in Writer, NEW q \in Writer PROVE p = q
  BY DEF OneWriter
<1>1. /\ p \in User /\ pc[p] \in HeldPC
      /\ q \in User /\ pc[q] \in HeldPC
  BY DEF Writer, User, HeldPC
<1> QED
  BY <1>1 DEF OwnerInv, UserHolds

\* What a cleanup unlinks is the inode whose flock it holds itself.
LEMMA StepKeepsHeldLock ==
  CleanInv /\ [Next]_vars => [path # None /\ path' # path => flock[path] \notin User]_vars
<1> SUFFICES ASSUME CleanInv, [Next]_vars, path # None,
    path' # path PROVE flock[path] \notin User
  OBVIOUS
<1>1. PICK c \in Cleaner : RemoveUnlink(c)
  <2>1. ASSUME NEW p \in Process, Start(p) \/ Release(p) \/ Crash(p) PROVE FALSE
    BY <2>1 DEF Start, Release, Crash, Exit, lockVars
  <2>2. ASSUME NEW p \in User, AcquireStep(p) PROVE FALSE
    BY <2>2 DEF AcquireStep, OpenLock, TakeLock, TruncateMeta, WriteMeta,
        AcquireFails, Exit
  <2>3. ASSUME NEW d \in Daemon, DaemonStep(d) PROVE FALSE
    BY <2>3 DEF DaemonStep, IntegrityGate, OpenLedger, WritePidFile, RemoveOldSocket,
       Listen, BeginMutation, EndMutation, Interrupt, DrainEnds, CloseServer,
           RemovePidFile,
       CloseLedger, Exit, lockVars
  <2>4. ASSUME NEW p \in Tool \cup Cleaner, InspectStep(p) PROVE FALSE
    BY <2>4 DEF InspectStep, InspectRead, InspectProbe, InspectRelease, Answered, Exit
  <2>5. ASSUME NEW p \in Tool, ToolDone(p) PROVE FALSE
    BY <2>5 DEF ToolDone, lockVars
  <2>6. ASSUME NEW c \in Cleaner, CleanerStep(c) PROVE RemoveUnlink(c)
    BY <2>6 DEF CleanerStep, CleanupAudit, RemoveOpen, RemoveFlock, RemoveUnlock,
       DialSocket, RemoveSocket, Exit, lockVars
  <2>7. ~ReusePid /\ ~UNCHANGED vars
    BY DEF ReusePid, lockVars, vars
  <2> QED
    BY <2>1, <2>2, <2>3, <2>4, <2>5, <2>6, <2>7 DEF Next, User
<1>2. flock[path] = c
  BY <1>1 DEF RemoveUnlink, CleanInv, CleanerHolds
<1> QED
  BY <1>2, KindAssumption DEF User

\* RemoveIfUnheld never takes the lock file away from a process that holds its
\* flock, whatever overlaps: any number of processes, inodes and mutations.
THEOREM LockHeldKept == Spec => HeldLockKept
<1>1. Init => CleanInv
  BY OwnerInit
<1>2. CleanInv /\ [Next]_vars => CleanInv'
  BY CleanNext
<1>3. CleanInv /\ [Next]_vars =>
        [path # None /\ path' # path => flock[path] \notin Daemon \cup Tool]_vars
  BY StepKeepsHeldLock DEF User
<1> QED
  BY <1>1, <1>2, <1>3, PTL DEF Spec, HeldLockKept

\* One writer per data root, when no cleanup-lock overlaps a start: the flock
\* daemonlock.Acquire takes excludes every other daemon and offline tool.
THEOREM LockOneWriter == ASSUME "cleanup" \notin Races PROVE Spec => []OneWriter
<1>1. Init => CleanInv /\ OwnerInv
  BY OwnerInit
<1>2. CleanInv /\ OwnerInv /\ [Next]_vars => (CleanInv /\ OwnerInv)'
  BY CleanNext, OwnerNext
<1>3. CleanInv /\ OwnerInv => OneWriter
  BY InvOneWriter
<1> QED
  BY <1>1, <1>2, <1>3, PTL DEF Spec

-----------------------------------------------------------------------------
(* The drain.                                                              *)

\* From the end of an unhurried drain on, no mutation is in flight and none
\* can begin.
DrainInv ==
  /\ pc \in [Process -> PC]
  /\ active \in [Daemon -> Nat] /\ draining \in [Daemon -> BOOLEAN]
  /\ \A d \in Daemon :
       pc[d] \in {"drained", "closing", "close_ledger"} => draining[d] /\ active[d] = 0

LEMMA DrainInit == Init => DrainInv
  BY DEF Init, DrainInv, Process, PC

LEMMA DrainNext == CleanInv /\ DrainInv /\ "timeout" \notin Faults /\ [Next]_vars => DrainInv'
<1> SUFFICES ASSUME CleanInv, DrainInv, "timeout" \notin Faults,
    [Next]_vars PROVE DrainInv'
  OBVIOUS
<1>1. pc' \in [Process -> PC]
  BY CleanNext DEF CleanInv, LockShape
<1> USE <1>1, KindAssumption DEF DrainInv, CleanInv, OwnSteps, Process, User, Goto,
    Exit, serveVars
<1>2. ASSUME NEW p \in Process, Start(p) \/ Release(p) PROVE DrainInv'
  BY <1>2 DEF Start, Release
<1>3. ASSUME NEW p \in Process, Crash(p) PROVE DrainInv'
  BY <1>3 DEF Crash
<1>4. ASSUME NEW p \in User, AcquireStep(p) PROVE DrainInv'
  BY <1>4 DEF AcquireStep, OpenLock, TakeLock, TruncateMeta, WriteMeta, AcquireFails
<1>5. ASSUME NEW d \in Daemon, DaemonStep(d) PROVE DrainInv'
  <2>1. CASE IntegrityGate(d) \/ OpenLedger(d) \/ WritePidFile(d) \/ RemoveOldSocket(d) \/ Listen(d)
    BY <1>5, <2>1 DEF IntegrityGate, OpenLedger, WritePidFile, RemoveOldSocket, Listen
  <2>2. CASE BeginMutation(d)
    BY <1>5, <2>2 DEF BeginMutation
  <2>3. CASE EndMutation(d)
    BY <1>5, <2>3 DEF EndMutation
  <2>4. CASE Interrupt(d)
    BY <1>5, <2>4 DEF Interrupt
  <2>5. CASE DrainEnds(d)
    BY <1>5, <2>5 DEF DrainEnds
  <2>6. CASE CloseServer(d) \/ RemovePidFile(d)
    BY <1>5, <2>6 DEF CloseServer, RemovePidFile
  <2>7. CASE CloseLedger(d)
    BY <1>5, <2>7 DEF CloseLedger
  <2> QED BY <1>5, <2>1, <2>2, <2>3, <2>4, <2>5, <2>6, <2>7 DEF DaemonStep
<1>6. ASSUME NEW p \in Tool \cup Cleaner, InspectStep(p) PROVE DrainInv'
  BY <1>6 DEF InspectStep, InspectRead, InspectProbe, InspectRelease, Answered
<1>7. ASSUME NEW p \in Tool, ToolDone(p) PROVE DrainInv'
  BY <1>7 DEF ToolDone
<1>8. ASSUME NEW c \in Cleaner, CleanerStep(c) PROVE DrainInv'
  BY <1>8 DEF CleanerStep, CleanupAudit, RemoveOpen, RemoveFlock, RemoveUnlink,
     RemoveUnlock, DialSocket, RemoveSocket
<1>9. CASE ReusePid \/ UNCHANGED vars
  BY <1>9 DEF ReusePid, vars
<1> QED
  BY <1>2, <1>3, <1>4, <1>5, <1>6, <1>7, <1>8, <1>9 DEF Next

\* drain.Manager: whatever a daemon admits, it closes the ledger under no
\* mutation unless the shutdown timeout cut the drain short.
THEOREM DrainComplete == Spec => []DrainIsComplete
<1>1. CASE "timeout" \in Faults
  <2>1. DrainIsComplete
    BY <1>1 DEF DrainIsComplete
  <2> QED
    BY <2>1, PTL
<1>2. CASE "timeout" \notin Faults
  <2>1. Init => CleanInv /\ DrainInv
    BY OwnerInit, DrainInit
  <2>2. CleanInv /\ DrainInv /\ [Next]_vars => (CleanInv /\ DrainInv)'
    BY <1>2, CleanNext, DrainNext
  <2>3. DrainInv => DrainIsComplete
    BY DEF DrainInv, DrainIsComplete
  <2> QED
    BY <2>1, <2>2, <2>3, PTL DEF Spec
<1> QED
  BY <1>1, <1>2

-----------------------------------------------------------------------------
(* The owner serves.                                                       *)

ServeShape ==
  /\ meta \in [Inode -> Process \cup {None}]
  /\ seen \in [Process -> Process \cup {None}]
  /\ socket \in Daemon \cup {None} /\ pid \in Daemon \cup {None, Stranger}
  /\ active \in [Daemon -> 0 .. MaxMutations] /\ draining \in [Daemon -> BOOLEAN]

\* A pid file names a daemon that is on its way from writing it to removing it, or
\* one that died there.
PidNames ==
  \A d \in Daemon :
    pid = d => pc[d] \in {"unlink_socket", "listen", "serving", "drained", "closing", "gone"}
StartedNamed ==
  \A d \in Daemon : pc[d] \in {"unlink_socket", "listen", "serving", "drained"} => pid = d
SocketNames ==
  \A d \in Daemon : /\ pc[d] = "listen" => socket = None
                    /\ Serving(d) => socket = d
\* A cleanup removes the socket path only where nobody listened, and nobody has started since.
NobodyServes ==
  \A c \in Cleaner, d \in Daemon : pc[c] = "rm_socket" => ~Serving(d)

ServeInv == ServeShape /\ PidNames /\ StartedNamed /\ SocketNames /\ NobodyServes

\* The lock has one holder.
LEMMA OneHolder ==
  ASSUME OwnerInv, KindAssumption, NEW p \in User, NEW q \in User,
         pc[p] \in HeldPC, pc[q] \in HeldPC
  PROVE  p = q
  BY DEF OwnerInv, UserHolds

LEMMA ServeInit == Init => ServeInv
  BY KindAssumption, MutationAssumption
     DEF Init, ServeInv, ServeShape, PidNames, StartedNamed, SocketNames, NobodyServes,
         Serving, Process

\* With cleanups and starts kept apart, a step keeps ServeInv.
LEMMA ServeNext ==
  ASSUME CleanInv, OwnerInv, "cleanup" \notin Races, ServeInv, [Next]_vars PROVE ServeInv'
<1> USE KindAssumption, MutationAssumption
    DEF ServeInv, ServeShape, PidNames, StartedNamed, SocketNames, NobodyServes, Serving,
        CleanInv, LockShape, OwnSteps, User, Goto, Closed, Exit, serveVars, lockVars,
        HeldPC, CleanPC, RemovePC, Process
<1>1. ASSUME NEW p \in User, AcquireStep(p) PROVE ServeInv'
  <2>1. CASE OpenLock(p)
    BY <1>1, <2>1 DEF OpenLock
  <2>2. CASE TakeLock(p)
    BY <1>1, <2>2 DEF TakeLock
  <2>3. CASE TruncateMeta(p)
    BY <1>1, <2>3 DEF TruncateMeta
  <2>4. CASE WriteMeta(p)
    BY <1>1, <2>4 DEF WriteMeta
  <2>5. CASE AcquireFails(p)
    BY <1>1, <2>5 DEF AcquireFails, InAcquire
  <2> QED BY <1>1, <2>1, <2>2, <2>3, <2>4, <2>5 DEF AcquireStep
<1>2. ASSUME NEW p \in Process, Start(p) \/ Release(p) \/ Crash(p) PROVE ServeInv'
  <2>1. CASE Start(p)
    BY <1>2, <2>1 DEF Start
  <2>2. CASE Release(p)
    BY <1>2, <2>2 DEF Release
  <2>3. CASE Crash(p)
    BY <1>2, <2>3 DEF Crash
  <2> QED BY <1>2, <2>1, <2>2, <2>3
<1>3. ASSUME NEW d \in Daemon, DaemonStep(d) PROVE ServeInv'
  <2> DEFINE Held == \A e \in Daemon : pc[e] \in HeldPC => e = d
  <2>0. pc[d] \in HeldPC => Held
    BY OneHolder
  <2>1. CASE IntegrityGate(d) \/ OpenLedger(d)
    BY <1>3, <2>1 DEF IntegrityGate, OpenLedger
  <2>3. CASE WritePidFile(d)
    BY <1>3, <2>0, <2>3 DEF WritePidFile
  <2>4. CASE RemoveOldSocket(d)
    BY <1>3, <2>0, <2>4 DEF RemoveOldSocket
  <2>5. CASE Listen(d)
    BY <1>3, <2>0, <2>5 DEF Listen, OwnerInv, Apart, StartingPC
  <2>6. CASE BeginMutation(d)
    BY <1>3, <2>6 DEF BeginMutation
  <2>7. CASE EndMutation(d)
    BY <1>3, <2>7 DEF EndMutation
  <2>8. CASE Interrupt(d)
    BY <1>3, <2>8 DEF Interrupt
  <2>9. CASE DrainEnds(d)
    BY <1>3, <2>9 DEF DrainEnds
  <2>10. CASE CloseServer(d)
    BY <1>3, <2>0, <2>10 DEF CloseServer
  <2>11. CASE RemovePidFile(d)
    BY <1>3, <2>0, <2>11 DEF RemovePidFile
  <2>12. CASE CloseLedger(d)
    BY <1>3, <2>12 DEF CloseLedger
  <2> QED BY <1>3, <2>1, <2>3, <2>4, <2>5, <2>6, <2>7, <2>8, <2>9, <2>10,
      <2>11, <2>12 DEF DaemonStep
<1>4. ASSUME NEW p \in Tool \cup Cleaner, InspectStep(p) PROVE ServeInv'
  <2>1. CASE InspectRead(p)
    BY <1>4, <2>1 DEF InspectRead, Answered
  <2>2. CASE InspectProbe(p)
    BY <1>4, <2>2 DEF InspectProbe, Answered
  <2>3. CASE InspectRelease(p)
    BY <1>4, <2>3 DEF InspectRelease
  <2> QED BY <1>4, <2>1, <2>2, <2>3 DEF InspectStep
<1>5. ASSUME NEW p \in Tool, ToolDone(p) PROVE ServeInv'
    BY <1>5 DEF ToolDone
<1>6. ASSUME NEW c \in Cleaner, CleanerStep(c) PROVE ServeInv'
  <2>1. CASE CleanupAudit(c)
    BY <1>6, <2>1 DEF CleanupAudit
  <2>2. CASE RemoveOpen(c)
    BY <1>6, <2>2 DEF RemoveOpen
  <2>3. CASE RemoveFlock(c)
    BY <1>6, <2>3 DEF RemoveFlock
  <2>4. CASE RemoveUnlink(c)
    BY <1>6, <2>4 DEF RemoveUnlink
  <2>5. CASE RemoveUnlock(c)
    BY <1>6, <2>5 DEF RemoveUnlock
  <2>6. CASE DialSocket(c)
    BY <1>6, <2>6 DEF DialSocket, Listening
  <2>7. CASE RemoveSocket(c)
    BY <1>6, <2>7 DEF RemoveSocket, OwnerInv, Apart, StartingPC
  <2> QED BY <1>6, <2>1, <2>2, <2>3, <2>4, <2>5, <2>6, <2>7 DEF CleanerStep
<1>7. CASE ReusePid
  BY <1>7 DEF ReusePid, Alive
<1>8. CASE UNCHANGED vars
  BY <1>8 DEF vars
<1> QED
  BY <1>1, <1>2, <1>3, <1>4, <1>5, <1>6, <1>7, <1>8 DEF Next, User

\* Wherever its predecessor died, whose process id was reused and whichever cleanups ran:
\* the daemon with the lock finds a pid file of nobody alive and a free socket path, and
\* once it serves both name it.
THEOREM OwnerAlwaysServes == ASSUME "cleanup" \notin Races PROVE Spec => []OwnerServes
<1>1. Init => CleanInv /\ OwnerInv /\ ServeInv
  BY OwnerInit, ServeInit
<1>2. CleanInv /\ OwnerInv /\ ServeInv /\ [Next]_vars => (CleanInv /\ OwnerInv /\ ServeInv)'
  BY CleanNext, OwnerNext, ServeNext
<1>3. CleanInv /\ OwnerInv /\ ServeInv => OwnerServes
  <2> SUFFICES ASSUME CleanInv, OwnerInv, ServeInv PROVE OwnerServes
    OBVIOUS
  <2>1. LockTypeOK
    BY DEF CleanInv, LockShape, ServeInv, ServeShape, LockTypeOK
  <2>2. ASSUME NEW d \in Daemon, pc[d] = "write_pid", pid \in Daemon PROVE ~Alive(pid)
    <3>1. pid # d /\ pc[pid] \in {"unlink_socket", "listen", "serving", "drained", "closing",
                                  "gone"}
      BY <2>2 DEF ServeInv, PidNames
    <3>2. pc[pid] = "gone"
      BY <2>2, <3>1, OneHolder, KindAssumption DEF HeldPC, User
    <3> QED BY <2>2, <3>2, KindAssumption DEF Alive, Process
  <2> QED
    BY <2>1, <2>2 DEF OwnerServes, OwnerCanServe, ServeInv, StartedNamed, SocketNames, Serving
<1> QED
  BY <1>1, <1>2, <1>3, PTL DEF Spec
=============================================================================
