------------------------ MODULE SandboxedExecution ------------------------
(***************************************************************************)
(* Commands run in a container over a copy of the workspace, and what they *)
(* leave behind (src/internal/runtimeoci/runtime.go, Service.Execute in    *)
(* src/internal/app/service.go).  The copy, the container's run and the    *)
(* synchronisation back are many file operations; requests of the same     *)
(* transaction overlap, nothing keeps them apart.                          *)
(*                                                                         *)
(* A file's content is who wrote it last; paths are numbered in the order  *)
(* a walk takes them.  copyFile's temporary names are left out.            *)
(***************************************************************************)
EXTENDS Naturals, FiniteSets, FiniteSetsExt

CONSTANTS Execution,     \* the execution requests, one run each
          Path,          \* the files a command may touch: numbers
          MaxExecutions, \* the quota of recorded executions
          Faults,        \* {"runtime", "limit", "disk", "crash"} at most
          None,          \* nobody's file: it was there before
          Absent, Link   \* no file, a symbolic link

VARIABLES
    files,    \* path -> content of the workspace
    runs,     \* execution -> where it is, its copy and what is left to do
    recorded, \* the evidence records of the ledger: [by, reason, synced]
    wrote     \* history: the executions that changed the workspace

vars == <<files, runs, recorded, wrote>>

Idle == [at |-> "idle", copy |-> [p \in Path |-> Absent], todo |-> {},
         reason |-> "none", synced |-> FALSE, shared |-> FALSE, whole |-> FALSE]

Init ==
    /\ files \in [Path -> {None, Absent}]
    /\ runs = [e \in Execution |-> Idle]
    /\ recorded = {} /\ wrote = {}

At(e, at) == runs[e].at = at
Set(e, r) == runs' = [runs EXCEPT ![e] = r]
InFlight(e) == runs[e].at \notin {"idle", "done", "lost"}
Present(tree) == {p \in Path : tree[p] # Absent}

\* Execute returns: without evidence if the command never ran, else with the
\* reason the command ended for.
Refuse(e) == Set(e, [runs[e] EXCEPT !.at = "done"])
Finish(e, synced) ==
    Set(e, [runs[e] EXCEPT !.at = "record", !.todo = {}, !.synced = synced,
                           !.whole = synced /\ files = runs[e].copy])

-----------------------------------------------------------------------------
(* The copy. *)

\* Service.Execute counts what is recorded, once.
Start(e) ==
    /\ At(e, "idle")
    /\ Cardinality(recorded) < MaxExecutions
    /\ LET busy == {o \in Execution : InFlight(o)} IN
         runs' = [o \in Execution |->
                    IF o = e THEN [Idle EXCEPT !.at = "probe", !.shared = busy # {}]
                    ELSE [runs[o] EXCEPT !.shared = @ \/ o \in busy]]
    /\ UNCHANGED <<files, recorded, wrote>>

\* A rootless runtime with the pinned image is there, or nothing runs; the walk
\* then lists what it will copy.
Probe(e) ==
    /\ At(e, "probe")
    /\ \/ Set(e, [runs[e] EXCEPT !.at = "copy", !.todo = Present(files)])
       \/ "runtime" \in Faults /\ Refuse(e)
    /\ UNCHANGED <<files, recorded, wrote>>

\* copySanitized: a link, a file that has gone since, or too much of it all
\* ends the execution before its command.
CopyIn(e) ==
    /\ At(e, "copy")
    /\ runs[e].todo # {}
    /\ LET p == Min(runs[e].todo) IN
         \/ /\ files[p] \notin {Absent, Link}
            /\ Set(e, [runs[e] EXCEPT !.copy[p] = files[p], !.todo = @ \ {p}])
         \/ /\ files[p] \in {Absent, Link} \/ "limit" \in Faults
            /\ Refuse(e)
    /\ UNCHANGED <<files, recorded, wrote>>

\* The command changes its copy and ends in one of four ways; only a clean
\* exit goes on to the workspace.
RunCommand(e) ==
    /\ At(e, "copy")
    /\ runs[e].todo = {}
    /\ \/ \E p \in Path, c \in {e, Absent, Link} :
            Set(e, [runs[e] EXCEPT !.at = "survey", !.copy[p] = c, !.reason = "success"])
       \/ \E reason \in {"exited", "timed_out", "cancelled", "runtime_error"} :
            Set(e, [runs[e] EXCEPT !.at = "record", !.reason = reason])
    /\ UNCHANGED <<files, recorded, wrote>>

-----------------------------------------------------------------------------
(* The way back. *)

\* syncSanitized: both sides are listed first, and a link on either ends it.
Survey(e) ==
    /\ At(e, "survey")
    /\ IF \E p \in Path : Link \in {runs[e].copy[p], files[p]}
       THEN Finish(e, FALSE)
       ELSE Set(e, [runs[e] EXCEPT !.at = "delete",
                      !.todo = Present(files) \ Present(runs[e].copy)])
    /\ UNCHANGED <<files, recorded, wrote>>

\* What the copy no longer has goes first, in any order ...
Delete(e) ==
    /\ At(e, "delete")
    /\ \/ /\ runs[e].todo = {}
          /\ Set(e, [runs[e] EXCEPT !.at = "update", !.todo = Present(runs[e].copy)])
          /\ UNCHANGED <<files, wrote>>
       \/ \E p \in runs[e].todo :
            /\ files' = [files EXCEPT ![p] = Absent]
            /\ Set(e, [runs[e] EXCEPT !.todo = @ \ {p}])
            /\ wrote' = wrote \cup {e}
       \/ "disk" \in Faults /\ Finish(e, FALSE) /\ UNCHANGED <<files, wrote>>
    /\ UNCHANGED recorded

\* Mutant: an execution that fails on the way back returns nothing.
UpdateMutant(e) ==
    /\ At(e, "update")
    /\ \/ runs[e].todo = {} /\ Finish(e, TRUE) /\ UNCHANGED <<files, wrote>>
       \/ /\ runs[e].todo # {}
          /\ LET p == Min(runs[e].todo) IN
               /\ files' = [files EXCEPT ![p] = runs[e].copy[p]]
               /\ Set(e, [runs[e] EXCEPT !.todo = @ \ {p}])
          /\ wrote' = wrote \cup {e}
       \/ /\ runs[e].todo # {} /\ Faults \cap {"limit", "disk"} # {}
          /\ Refuse(e) /\ UNCHANGED <<files, wrote>>
    /\ UNCHANGED recorded

\* ... then every file of the copy is written, changed or not, until it is
\* done or the disk or the limits say no.
Update(e) ==
    /\ At(e, "update")
    /\ \/ runs[e].todo = {} /\ Finish(e, TRUE) /\ UNCHANGED <<files, wrote>>
       \/ /\ runs[e].todo # {}
          /\ LET p == Min(runs[e].todo) IN
               /\ files' = [files EXCEPT ![p] = runs[e].copy[p]]
               /\ Set(e, [runs[e] EXCEPT !.todo = @ \ {p}])
          /\ wrote' = wrote \cup {e}
       \/ /\ runs[e].todo # {} /\ Faults \cap {"limit", "disk"} # {}
          /\ Finish(e, FALSE) /\ UNCHANGED <<files, wrote>>
    /\ UNCHANGED recorded

RecordRuntimeExecution(e) ==
    recorded' = recorded \cup
                  {[by |-> e, reason |-> runs[e].reason, synced |-> runs[e].synced]}

\* persistRuntimeEvidence: the evidence is kept, or the execution leaves no
\* trace but the files.
Record(e) ==
    /\ At(e, "record")
    /\ \/ /\ RecordRuntimeExecution(e)
          /\ Set(e, [runs[e] EXCEPT !.at = "done"])
       \/ /\ "disk" \in Faults
          /\ Set(e, [runs[e] EXCEPT !.at = "lost"])
          /\ UNCHANGED recorded
    /\ UNCHANGED <<files, wrote>>

\* The daemon dies, and with it every execution.
Crash ==
    /\ "crash" \in Faults
    /\ \E e \in Execution : InFlight(e)
    /\ runs' = [e \in Execution |->
                  IF InFlight(e) THEN [runs[e] EXCEPT !.at = "lost"] ELSE runs[e]]
    /\ UNCHANGED <<files, recorded, wrote>>

SandboxNext ==
    \/ Crash
    \/ \E e \in Execution :
         \/ Start(e) \/ Probe(e) \/ CopyIn(e) \/ RunCommand(e) \/ Survey(e) \/ Delete(e)
         \/ Update(e) \/ Record(e)

SandboxSpec == Init /\ [][SandboxNext]_vars

-----------------------------------------------------------------------------
(* Properties. *)

SandboxTypeOK ==
    /\ files \in [Path -> Execution \cup {None, Absent, Link}]
    /\ wrote \subseteq Execution
    /\ \A r \in recorded : r.by \in Execution /\ r.synced \in BOOLEAN

\* What an execution's record lets a reviewer conclude about the files: a
\* command that did not succeed changed none; "synchronized" means all of the
\* copy arrived, unless another execution was at work; whoever changed a file
\* has a record, except where the daemon died or could not write it; and no
\* command makes a link in the workspace.
EvidenceMatchesFiles ==
    /\ \A r \in recorded :
         /\ r.reason # "success" => r.by \notin wrote
         /\ r.synced => runs[r.by].shared \/ runs[r.by].whole
    /\ \A e \in wrote : At(e, "done") => \E r \in recorded : r.by = e
    /\ \A p \in Path : files[p] # Link

\* Not a promise the code keeps: the quota holds, and a synchronized record
\* is the last word on the files.  Requests that overlap are counted before
\* any of them is recorded, and each removes what its copy does not have.
QuotaHolds == Cardinality(recorded) <= MaxExecutions
=============================================================================
