----------------------------- MODULE DaemonLock -----------------------------
(***************************************************************************)
(* Who may write a data root: the lock file daemon.lock and its flock      *)
(* (internal/daemonlock), the daemon's start, drain and stop               *)
(* (cmd/futurediffd, api.Server, internal/drain), the offline tools that   *)
(* take the lock, and `fdif cleanup-lock`, which removes a stale one.      *)
(*                                                                         *)
(* A flock belongs to an inode, not to a name.  The file is therefore      *)
(* modelled as the inode the path names now, and a process keeps the inode *)
(* it opened whatever happens to the name.  Each process constant is one   *)
(* operating-system process: it starts once and, once gone, stays gone.    *)
(***************************************************************************)
EXTENDS Naturals, FiniteSets

CONSTANTS
  Daemon,        \* futurediffd processes
  Tool,          \* offline ledger tools: maintenance, checkpoint, lease cleanup
  Cleaner,       \* runs of `fdif cleanup-lock`
  Inode,         \* inodes a lock file can get
  None,
  Stranger,      \* a process of somebody else's that got a dead daemon's id
  MaxMutations,  \* bound on mutations one daemon has in flight
  Faults,        \* what may go wrong: subset of {"io", "crash",
                 \*   "timeout", "pid_reuse"}
  Races          \* overlaps allowed: subset of {"cleanup"}

Process == Daemon \cup Tool \cup Cleaner

ASSUME KindAssumption ==
  /\ Daemon \cap Tool = {} /\ Daemon \cap Cleaner = {} /\ Tool \cap Cleaner = {}
  /\ None \notin Process \cup Inode /\ Stranger \notin Process \cup {None}
ASSUME MutationAssumption == MaxMutations \in Nat

VARIABLES
  path,      \* the inode daemon.lock names
  flock,     \* the process that holds each inode's exclusive flock
  meta,      \* the process whose metadata each inode holds; None: not decodable
  fd,        \* the inode each process has open
  pc,        \* what each process does next
  seen,      \* what a process's Inspect has read of the metadata
  socket,    \* the daemon that bound futurediff.sock
  pid,       \* the process futurediff.pid names
  active,    \* mutations in flight in each daemon
  draining   \* drain.Manager.draining of each daemon

vars == <<path, flock, meta, fd, pc, seen, socket, pid, active, draining>>
lockVars == <<path, flock, meta, fd, seen>>
serveVars == <<socket, pid, active, draining>>

InAcquire == {"opened", "locked", "truncated"}
StartingPC == InAcquire \cup {"gate", "open_ledger", "write_pid",
                              "unlink_socket", "listen"}
InspectPC == {"inspect", "probe", "probing"}
DaemonPC == {"gate", "open_ledger", "write_pid", "unlink_socket", "listen",
             "serving", "drained", "closing", "close_ledger"}
RemovePC == {"rm_flock", "rm_unlink", "rm_unlock", "dial", "rm_socket"}
CleanPC == RemovePC \cup {"audit", "rm_open"}
PC == {"idle", "acquire", "writing", "release", "gone"}
        \cup InAcquire \cup InspectPC \cup DaemonPC \cup CleanPC

Alive(p) == p = Stranger \/ (p \in Process /\ pc[p] \notin {"idle", "gone"})
Goto(p, label) == pc' = [pc EXCEPT ![p] = label]

\* A process that has the ledger open for writing.
Writer == {p \in Daemon : pc[p] \in {"write_pid", "unlink_socket", "listen",
                                     "serving", "drained", "closing", "close_ledger"}}
            \cup {p \in Tool : pc[p] = "writing"}

\* A connect to futurediff.sock succeeds.
Serving(d) == pc[d] \in {"serving", "drained"}
Listening == socket # None /\ Serving(socket)

\* Close the descriptor: the kernel drops this process's flock with it.
Closed(p) == /\ fd' = [fd EXCEPT ![p] = None]
             /\ flock' = [i \in Inode |-> IF flock[i] = p THEN None ELSE flock[i]]

Exit(p) == Closed(p) /\ Goto(p, "gone") /\ UNCHANGED <<path, meta, seen>>

Init ==
  /\ path = None
  /\ flock = [i \in Inode |-> None]
  /\ meta = [i \in Inode |-> None]
  /\ fd = [p \in Process |-> None]
  /\ pc = [p \in Process |-> "idle"]
  /\ seen = [p \in Process |-> None]
  /\ socket = None
  /\ pid = None
  /\ active = [d \in Daemon |-> 0]
  /\ draining = [d \in Daemon |-> FALSE]

-----------------------------------------------------------------------------
(* daemonlock.Acquire.                                                     *)

\* The operator keeps cleanup-lock and a start apart unless Races allows it.
MayAcquire == "cleanup" \in Races \/ \A q \in Cleaner : pc[q] \notin RemovePC
MayRemove == "cleanup" \in Races \/ \A q \in Process : pc[q] \notin StartingPC

\* A daemon goes straight to Acquire, some tools too; the others and a
\* cleaner inspect first.
Start(p) ==
  /\ pc[p] = "idle"
  /\ \E label \in {"acquire", "inspect"} :
       /\ p \in Daemon => label = "acquire"
       /\ p \in Cleaner => label = "inspect"
       /\ Goto(p, label)
  /\ UNCHANGED <<lockVars, serveVars>>

\* Unused inodes: those no name and no descriptor keeps.
Fresh(i) == i # path /\ \A q \in Process : fd[q] # i

\* os.OpenFile with O_CREATE.
OpenLock(p) ==
  /\ pc[p] = "acquire"
  /\ MayAcquire
  /\ \/ /\ path # None
        /\ fd' = [fd EXCEPT ![p] = path]
        /\ UNCHANGED <<path, meta>>
     \/ /\ path = None
        /\ \E i \in Inode :
             /\ Fresh(i)
             /\ path' = i
             /\ fd' = [fd EXCEPT ![p] = i]
             /\ meta' = [meta EXCEPT ![i] = None]
  /\ Goto(p, "opened")
  /\ UNCHANGED <<flock, seen, serveVars>>

\* Mutant: the lock file is taken without a flock, as if its presence locked.
TakeLockMutant(p) ==
  /\ pc[p] = "opened"
  /\ flock' = [flock EXCEPT ![fd[p]] = p]
  /\ Goto(p, "locked")
  /\ UNCHANGED <<path, meta, fd, seen, serveVars>>

\* flock LOCK_EX|LOCK_NB: a second owner is refused at once.
TakeLock(p) ==
  /\ pc[p] = "opened"
  /\ \/ /\ flock[fd[p]] = None
        /\ flock' = [flock EXCEPT ![fd[p]] = p]
        /\ Goto(p, "locked")
        /\ UNCHANGED <<path, meta, fd, seen>>
     \/ flock[fd[p]] # None /\ Exit(p)
  /\ UNCHANGED serveVars

\* Truncate, then Write and Sync: in between the file does not decode.
TruncateMeta(p) ==
  /\ pc[p] = "locked"
  /\ meta' = [meta EXCEPT ![fd[p]] = None]
  /\ Goto(p, "truncated")
  /\ UNCHANGED <<path, flock, fd, seen, serveVars>>

WriteMeta(p) ==
  /\ pc[p] = "truncated"
  /\ meta' = [meta EXCEPT ![fd[p]] = p]
  /\ Goto(p, IF p \in Daemon THEN "gate" ELSE "writing")
  /\ UNCHANGED <<path, flock, fd, seen, serveVars>>

\* Every error path of Acquire unlocks and closes; the callers then exit.
AcquireFails(p) ==
  /\ "io" \in Faults
  /\ pc[p] \in InAcquire \cup {"acquire"}
  /\ Exit(p)
  /\ UNCHANGED serveVars

-----------------------------------------------------------------------------
(* The daemon: start, serve, drain, stop.                                  *)

\* openLedgerForStartup: the integrity gate and the open release the lock on
\* failure; a configuration that does not load ends the process.
IntegrityGate(d) ==
  /\ pc[d] = "gate"
  /\ \/ Goto(d, "open_ledger") /\ UNCHANGED lockVars
     \/ "io" \in Faults /\ Exit(d)
  /\ UNCHANGED serveVars

OpenLedger(d) ==
  /\ pc[d] = "open_ledger"
  /\ \/ Goto(d, "write_pid") /\ UNCHANGED lockVars
     \/ "io" \in Faults /\ Exit(d)
  /\ UNCHANGED serveVars

\* Mutant: an existing pid file is left as it is when its process is gone.
WritePidFileMutant(d) ==
  /\ pc[d] = "write_pid"
  /\ \/ /\ ~Alive(pid)
        /\ pid' = IF pid = None THEN d ELSE pid
        /\ Goto(d, "unlink_socket")
        /\ UNCHANGED lockVars
     \/ Alive(pid) /\ Exit(d) /\ UNCHANGED pid
  /\ UNCHANGED <<socket, active, draining>>

\* writePIDFile refuses while the process an older file names is alive.
WritePidFile(d) ==
  /\ pc[d] = "write_pid"
  /\ \/ /\ ~Alive(pid)
        /\ pid' = d
        /\ Goto(d, "unlink_socket")
        /\ UNCHANGED lockVars
     \/ Alive(pid) /\ Exit(d) /\ UNCHANGED pid
  /\ UNCHANGED <<socket, active, draining>>

\* Serve removes whatever the socket path names before it listens.
RemoveOldSocket(d) ==
  /\ pc[d] = "unlink_socket"
  /\ socket' = None
  /\ Goto(d, "listen")
  /\ UNCHANGED <<lockVars, pid, active, draining>>

\* A bind fails when the path exists; the daemon then dies with its pid file.
Listen(d) ==
  /\ pc[d] = "listen"
  /\ \/ socket = None /\ socket' = d /\ Goto(d, "serving") /\ UNCHANGED lockVars
     \/ socket # None /\ Exit(d) /\ UNCHANGED socket
  /\ UNCHANGED <<pid, active, draining>>

\* Mutant: a draining daemon still admits mutations.
BeginMutationMutant(d) ==
  /\ Serving(d)
  /\ active[d] < MaxMutations
  /\ active' = [active EXCEPT ![d] = @ + 1]
  /\ UNCHANGED <<lockVars, pc, socket, pid, draining>>

\* drain.Manager: a mutation is admitted only before the drain.
BeginMutation(d) ==
  /\ Serving(d)
  /\ ~draining[d]
  /\ active[d] < MaxMutations
  /\ active' = [active EXCEPT ![d] = @ + 1]
  /\ UNCHANGED <<lockVars, pc, socket, pid, draining>>

\* The release function of an admitted mutation: once per mutation.
EndMutation(d) ==
  /\ Serving(d)
  /\ active[d] > 0
  /\ active' = [active EXCEPT ![d] = @ - 1]
  /\ UNCHANGED <<lockVars, pc, socket, pid, draining>>

\* A signal from the terminal, or from DaemonManager.Stop by the pid file.
Interrupt(d) ==
  /\ Serving(d)
  /\ draining' = [draining EXCEPT ![d] = TRUE]
  /\ UNCHANGED <<lockVars, pc, socket, pid, active>>

\* Manager.Wait ends when the last mutation does, or at the shutdown timeout.
DrainEnds(d) ==
  /\ pc[d] = "serving"
  /\ draining[d]
  /\ active[d] = 0 \/ "timeout" \in Faults
  /\ Goto(d, "drained")
  /\ UNCHANGED <<lockVars, socket, pid, active, draining>>

\* Only then does the listener close, which unlinks the socket path, whichever
\* socket it names.
CloseServer(d) ==
  /\ pc[d] = "drained"
  /\ socket' = None
  /\ Goto(d, "closing")
  /\ UNCHANGED <<lockVars, pid, active, draining>>

\* main's deferred calls, last first: pid file, ledger, lock.
RemovePidFile(d) ==
  /\ pc[d] = "closing"
  /\ pid' = None
  /\ Goto(d, "close_ledger")
  /\ UNCHANGED <<lockVars, socket, active, draining>>

CloseLedger(d) ==
  /\ pc[d] = "close_ledger"
  /\ active' = [active EXCEPT ![d] = 0]
  /\ Goto(d, "release")
  /\ UNCHANGED <<lockVars, socket, pid, draining>>

\* An offline tool's work ends and the repository is closed.
ToolDone(p) ==
  /\ p \in Tool
  /\ pc[p] = "writing"
  /\ Goto(p, "release")
  /\ UNCHANGED <<lockVars, serveVars>>

\* Lock.Release, after which the process returns from main.
Release(p) ==
  /\ pc[p] = "release"
  /\ Exit(p)
  /\ UNCHANGED serveVars

\* The process is killed: the kernel closes its descriptors, and its socket,
\* its pid file and its lock file stay behind.
Crash(p) ==
  /\ "crash" \in Faults
  /\ Alive(p)
  /\ Exit(p)
  /\ IF p \in Daemon THEN active' = [active EXCEPT ![p] = 0] ELSE UNCHANGED active
  /\ UNCHANGED <<socket, pid, draining>>

\* The kernel gives the id in a dead daemon's pid file to another process.
ReusePid ==
  /\ "pid_reuse" \in Faults
  /\ pid \in Daemon /\ ~Alive(pid)
  /\ pid' = Stranger
  /\ UNCHANGED <<lockVars, pc, socket, active, draining>>

-----------------------------------------------------------------------------
(* daemonlock.Inspect, as cleanup-lock and the offline tools call it.      *)

\* What the caller does with the answer: whether cleanup is allowed, and
\* whether the lock was seen held.
Answered(p, cleanable, held) ==
  IF p \in Tool
  THEN IF held THEN Exit(p)
       ELSE Goto(p, "acquire") /\ UNCHANGED <<path, flock, meta, fd, seen>>
  ELSE IF cleanable
       THEN /\ Goto(p, "audit")
            /\ fd' = [fd EXCEPT ![p] = None]
            /\ flock' = [i \in Inode |-> IF flock[i] = p THEN None ELSE flock[i]]
            /\ UNCHANGED <<path, meta, seen>>
       ELSE Exit(p)

\* Lstat and read: no file is an answer, and so is one that does not decode,
\* whoever holds its flock.
InspectRead(p) ==
  /\ pc[p] = "inspect"
  /\ \/ path = None /\ Answered(p, FALSE, FALSE)
     \/ path # None /\ meta[path] = None
          /\ IF p \in Tool THEN Exit(p) ELSE Answered(p, TRUE, FALSE)
     \/ /\ path # None /\ meta[path] # None
        /\ seen' = [seen EXCEPT ![p] = meta[path]]
        /\ Goto(p, "probe")
        /\ UNCHANGED <<path, flock, meta, fd>>
  /\ UNCHANGED serveVars

\* A held flock: the owner the metadata named is judged by its process and
\* by the socket.  A dead owner makes the lock cleanable.
InspectProbe(p) ==
  /\ pc[p] = "probe"
  /\ \/ path = None /\ Exit(p)
     \/ /\ path # None /\ flock[path] = None
        /\ fd' = [fd EXCEPT ![p] = path]
        /\ flock' = [flock EXCEPT ![path] = p]
        /\ Goto(p, "probing")
        /\ UNCHANGED <<path, meta, seen>>
     \/ /\ path # None /\ flock[path] # None
        /\ Answered(p, ~Alive(seen[p]), TRUE)
  /\ UNCHANGED serveVars

\* A free flock was taken by the probe itself and is given back.
InspectRelease(p) ==
  /\ pc[p] = "probing"
  /\ Closed(p)
  /\ Goto(p, IF p \in Tool THEN "acquire" ELSE "audit")
  /\ UNCHANGED <<path, meta, seen, serveVars>>

-----------------------------------------------------------------------------
(* App.cleanupLock and daemonlock.RemoveIfUnheld.                          *)

\* The audit record precedes every removal; without it nothing is removed.
CleanupAudit(p) ==
  /\ pc[p] = "audit"
  /\ \/ Goto(p, "rm_open") /\ UNCHANGED lockVars
     \/ "io" \in Faults /\ Exit(p)
  /\ UNCHANGED serveVars

\* A lock that is already gone is no error: the socket is next.
RemoveOpen(p) ==
  /\ pc[p] = "rm_open"
  /\ MayRemove
  /\ \/ /\ path # None
        /\ fd' = [fd EXCEPT ![p] = path]
        /\ Goto(p, "rm_flock")
     \/ path = None /\ Goto(p, "dial") /\ UNCHANGED fd
  /\ UNCHANGED <<path, flock, meta, seen, serveVars>>

\* Mutant: the removal does not look at the flock.
RemoveFlockMutant(p) ==
  /\ pc[p] = "rm_flock"
  /\ Goto(p, "rm_unlink")
  /\ UNCHANGED <<lockVars, serveVars>>

RemoveFlock(p) ==
  /\ pc[p] = "rm_flock"
  /\ \/ /\ flock[fd[p]] = None
        /\ flock' = [flock EXCEPT ![fd[p]] = p]
        /\ Goto(p, "rm_unlink")
        /\ UNCHANGED <<path, meta, fd, seen>>
     \/ flock[fd[p]] # None /\ Exit(p)
  /\ UNCHANGED serveVars

\* Only the inode whose flock is held is unlinked.
RemoveUnlink(p) ==
  /\ pc[p] = "rm_unlink"
  /\ path' = IF path = fd[p] THEN None ELSE path
  /\ Goto(p, "rm_unlock")
  /\ UNCHANGED <<flock, meta, fd, seen, serveVars>>

RemoveUnlock(p) ==
  /\ pc[p] = "rm_unlock"
  /\ Closed(p)
  /\ Goto(p, "dial")
  /\ UNCHANGED <<path, meta, seen, serveVars>>

\* A listener keeps its socket.
DialSocket(p) ==
  /\ pc[p] = "dial"
  /\ \/ Listening /\ Exit(p)
     \/ ~Listening /\ Goto(p, "rm_socket") /\ UNCHANGED lockVars
  /\ UNCHANGED serveVars

RemoveSocket(p) ==
  /\ pc[p] = "rm_socket"
  /\ socket' = None
  /\ Exit(p)
  /\ UNCHANGED <<pid, active, draining>>

-----------------------------------------------------------------------------
AcquireStep(p) ==
  OpenLock(p) \/ TakeLock(p) \/ TruncateMeta(p) \/ WriteMeta(p) \/ AcquireFails(p)

DaemonStep(d) ==
  \/ IntegrityGate(d) \/ OpenLedger(d) \/ WritePidFile(d)
  \/ RemoveOldSocket(d) \/ Listen(d)
  \/ BeginMutation(d) \/ EndMutation(d) \/ Interrupt(d)
  \/ DrainEnds(d) \/ CloseServer(d) \/ RemovePidFile(d) \/ CloseLedger(d)

InspectStep(p) == InspectRead(p) \/ InspectProbe(p) \/ InspectRelease(p)

CleanerStep(p) ==
  \/ CleanupAudit(p) \/ RemoveOpen(p) \/ RemoveFlock(p) \/ RemoveUnlink(p)
  \/ RemoveUnlock(p) \/ DialSocket(p) \/ RemoveSocket(p)

Next ==
  \/ \E p \in Process : Start(p) \/ Release(p) \/ Crash(p)
  \/ ReusePid
  \/ \E p \in Daemon \cup Tool : AcquireStep(p)
  \/ \E d \in Daemon : DaemonStep(d)
  \/ \E p \in Tool \cup Cleaner : InspectStep(p)
  \/ \E p \in Tool : ToolDone(p)
  \/ \E p \in Cleaner : CleanerStep(p)

Spec == Init /\ [][Next]_vars

-----------------------------------------------------------------------------
(* Properties.                                                             *)

LockTypeOK ==
  /\ path \in Inode \cup {None}
  /\ flock \in [Inode -> Process \cup {None}]
  /\ meta \in [Inode -> Process \cup {None}]
  /\ fd \in [Process -> Inode \cup {None}]
  /\ pc \in [Process -> PC]
  /\ seen \in [Process -> Process \cup {None}]
  /\ socket \in Daemon \cup {None}
  /\ pid \in Daemon \cup {None, Stranger}
  /\ active \in [Daemon -> 0 .. MaxMutations]
  /\ draining \in [Daemon -> BOOLEAN]

\* One daemon, or one offline tool, has the ledger open for writing at a
\* time: the flock of the file daemon.lock names excludes every other.
OneWriter == \A p, q \in Writer : p = q

\* Whoever holds the lock can serve, wherever its predecessor died: the pid
\* file names no live daemon, the socket path is free when it binds, and once
\* it serves, `fdif` reaches it by its socket and `fdif daemon stop` by its pid.
OwnerCanServe ==
  \A d \in Daemon :
    /\ pc[d] = "write_pid" /\ pid \in Daemon => ~Alive(pid)
    /\ pc[d] = "listen" => socket = None
    /\ Serving(d) => socket = d /\ pid = d

\* The shape of the lock's state, and that its owner can serve.
OwnerServes == LockTypeOK /\ OwnerCanServe

\* A daemon that drained without a timeout closes the ledger under no
\* mutation: none slips in between the drain's start and its end.
DrainIsComplete ==
  "timeout" \notin Faults =>
    \A d \in Daemon : pc[d] \in {"closing", "close_ledger"} => active[d] = 0

\* RemoveIfUnheld never takes the lock file away from a process that holds
\* its flock, whatever Inspect answered before.
HeldLockKept ==
  [][path # None /\ path' # path => flock[path] \notin Daemon \cup Tool]_vars
=============================================================================
