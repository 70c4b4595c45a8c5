--------------------------- MODULE OperatorRecords ---------------------------
(***************************************************************************)
(* The two records an operator keeps beside the ledger: the audit trail    *)
(* (src/internal/operatoraudit/trail.go), one file of chained lines that   *)
(* the daemon and the command line append to under a file lock, and the    *)
(* signed receipts (src/internal/operatorreceipt/receipt.go), one file     *)
(* each, written without any lock.                                         *)
(*                                                                         *)
(* A line of the trail is modelled by what it says and the line it was     *)
(* chained to; a hash is the line it is the hash of.  The trail file has a *)
(* part that is on disk and a rest that a power loss may take, whole lines *)
(* or half of one.  Writing, syncing and marking may each fail.            *)
(***************************************************************************)
EXTENDS Naturals, Sequences, FiniteSets, SequencesExt

CONSTANTS Process,   \* the processes that record: daemon, fdif, tools
          None,      \* no holder, no line, no receipt
          MaxLines,  \* lines and receipts a behaviour writes
          MaxFaults, \* failures, deaths and power losses in a behaviour
          MarkerFails \* whether the uncertainty marker may fail to be written

VARIABLES
    trail,    \* the lines of the trail file: [line, prev], torn when half
    durable,  \* how many of them a power loss leaves
    entry,    \* the directory entry of the trail file is on disk
    marker,   \* .operator-events.uncertain exists
    lock,     \* the process that holds .operator-events.lock, or None
    at,       \* process -> where it is in Record
    said,     \* history: the lines Record has answered success for, in order
    unsure,   \* history: lines that Record failed for but that were written
    receipts, \* the receipt files: [seq, prev, id], torn when half
    reading,  \* process -> the receipts it has loaded, or None
    told,     \* history: the receipts Record has answered success for
    spent     \* bounds: lines, receipts and faults so far

trailVars == <<trail, durable, entry, marker, lock, at, said, unsure>>
receiptVars == <<receipts, reading, told>>
vars == <<trailVars, receiptVars, spent>>

-----------------------------------------------------------------------------
(* Verification. *)

Torn == [line |-> 0, prev |-> 0, torn |-> TRUE]

Tip(lines) == IF lines = <<>> THEN 0 ELSE Last(lines).line

\* verifyTrailFile: no marker, no half line, and every line numbered by its
\* place and chained to the line before it.
TrailValid ==
    /\ ~marker
    /\ \A i \in DOMAIN trail :
          /\ ~trail[i].torn
          /\ trail[i].prev = Tip(SubSeq(trail, 1, i - 1))

\* The receipts in the order of their file names: by number, and by digest
\* where two have the same one.
InOrder(files) ==
    {s \in [1..Cardinality(files) -> files] :
        /\ \A i, j \in DOMAIN s : i # j => s[i] # s[j]
        /\ \A i, j \in DOMAIN s : i < j => s[i].seq <= s[j].seq}

\* loadReceipts refuses a directory with a file it cannot parse.
Loadable == \A r \in receipts : ~r.torn

\* Verify: each receipt is numbered by its place and chained to the one before.
Orderly(s) ==
    \A i \in DOMAIN s :
        /\ s[i].seq = i
        /\ s[i].prev = IF i = 1 THEN 0 ELSE s[i - 1].id

ReceiptsValid == Loadable /\ \A s \in InOrder(receipts) : Orderly(s)

-----------------------------------------------------------------------------
(* The audit trail. *)

Idle == [step |-> "idle", line |-> 0]

Init ==
    /\ trail = <<>> /\ durable = 0 /\ entry = FALSE /\ marker = FALSE
    /\ lock = None
    /\ at = [p \in Process |-> Idle]
    /\ said = <<>> /\ unsure = {}
    /\ receipts = {} /\ told = <<>>
    /\ reading = [p \in Process |-> None]
    /\ spent = [lines |-> 0, receipts |-> 0, faults |-> 0]

Fault ==
    /\ spent.faults < MaxFaults
    /\ spent' = [spent EXCEPT !.faults = @ + 1]

\* withFileLock: one process at a time, across processes.
Lock(p) == lock = None /\ lock' = p

\* Record, up to its first write: the whole trail is verified under the lock,
\* and one that is not valid is not appended to.
Begin(p) ==
    /\ at[p].step = "idle" /\ spent.lines < MaxLines
    /\ Lock(p)
    /\ TrailValid
    /\ at' = [at EXCEPT ![p] = [step |-> "verified", line |-> Tip(trail)]]
    /\ UNCHANGED <<trail, durable, entry, marker, said, unsure, receiptVars,
                   spent>>

Leave(p) ==
    /\ lock' = IF lock = p THEN None ELSE lock
    /\ at' = [at EXCEPT ![p] = Idle]

\* The line is appended, chained to the line that was the newest at Begin.
WriteLine(p) ==
    /\ at[p].step = "verified"
    /\ LET line == spent.lines + 1 IN
          /\ trail' = Append(trail, [line |-> line, prev |-> at[p].line,
                                     torn |-> FALSE])
          /\ at' = [at EXCEPT ![p] = [step |-> "written", line |-> line]]
          /\ spent' = [spent EXCEPT !.lines = line]
    /\ UNCHANGED <<durable, entry, marker, lock, said, unsure, receiptVars>>

\* The write fails, before any byte or after some: Record fails, and the half
\* line stays as evidence.
WriteFails(p) ==
    /\ at[p].step = "verified"
    /\ trail' \in {trail, Append(trail, Torn)}
    /\ Leave(p)
    /\ Fault
    /\ UNCHANGED <<durable, entry, marker, said, unsure, receiptVars>>

\* Mutant: the file is not synced.
SyncedMutant == durable

\* What is on disk once the file is synced.
Synced == Len(trail)

SyncFile(p) ==
    /\ at[p].step = "written"
    /\ durable' = Synced
    /\ at' = [at EXCEPT ![p].step = "synced"]
    /\ UNCHANGED <<trail, entry, marker, lock, said, unsure, receiptVars, spent>>

\* The directory is synced and Record answers.
SyncDirectory(p) ==
    /\ at[p].step = "synced"
    /\ entry' = TRUE
    /\ said' = Append(said, at[p].line)
    /\ Leave(p)
    /\ UNCHANGED <<trail, durable, marker, unsure, receiptVars, spent>>

\* markUncertain, whose own failure is ignored.
Mark == marker' = TRUE \/ (MarkerFails /\ marker' = marker)

\* A sync fails: the line is visible and may not be on disk.  Record marks
\* the trail uncertain and fails.
SyncFails(p) ==
    /\ at[p].step \in {"written", "synced"}
    /\ Mark
    /\ unsure' = unsure \cup {at[p].line}
    /\ Leave(p)
    /\ Fault
    /\ UNCHANGED <<trail, durable, entry, said, receiptVars>>

\* A process dies inside Record; the kernel gives its lock back, and a line
\* that it was writing may be half there.
Die(p) ==
    /\ at[p].step # "idle"
    /\ trail' \in {trail} \cup (IF at[p].step = "verified" THEN {Append(trail, Torn)}
                                ELSE {})
    /\ Leave(p)
    /\ Fault
    /\ UNCHANGED <<durable, entry, marker, said, unsure, receiptVars>>

\* Power is lost: every process dies, and of what was not synced any part may
\* be gone, the file itself when its entry was not.  The marker is never
\* synced.
PowerLoss ==
    /\ \/ \E n \in durable..Len(trail) :
             \/ trail' = SubSeq(trail, 1, n)
             \/ n < Len(trail) /\ trail' = Append(SubSeq(trail, 1, n), Torn)
       \/ ~entry /\ trail' = <<>>
    /\ durable' = Len(trail')
    /\ marker' \in {marker, FALSE}
    /\ entry' = (trail' # <<>>)
    /\ lock' = None
    /\ at' = [p \in Process |-> Idle]
    /\ reading' = [p \in Process |-> None]
    /\ unsure' = {}
    /\ Fault
    /\ UNCHANGED <<said, receipts, told>>

\* An operator looks at a trail that fails closed, cuts the half line off and
\* removes the marker.
Inspect ==
    /\ lock = None /\ ~TrailValid
    /\ \E n \in 0..Len(trail) :
          /\ \A i \in 1..n : ~trail[i].torn
          /\ n < Len(trail) => trail[n + 1].torn
          /\ trail' = SubSeq(trail, 1, n)
    /\ durable' = Len(trail')
    /\ marker' = FALSE
    /\ unsure' = {}
    /\ UNCHANGED <<entry, lock, at, said, receiptVars, spent>>

-----------------------------------------------------------------------------
(* Receipts: no lock, no sync. *)

Receipt(seq, prev, torn) ==
    [seq |-> seq, prev |-> prev, id |-> spent.receipts + 1, torn |-> torn]

\* Record loads what is there and takes the next place.
LoadReceipts(p) ==
    /\ reading[p] = None /\ at[p].step = "idle"
    /\ spent.receipts < MaxLines
    /\ Loadable
    /\ \E s \in InOrder(receipts) :
          reading' = [reading EXCEPT ![p] =
              [seq |-> Len(s) + 1, prev |-> IF s = <<>> THEN 0 ELSE Last(s).id]]
    /\ UNCHANGED <<trailVars, receipts, told, spent>>

\* Record writes a file of a name of its own: the name holds the digest.
WriteReceipt(p) ==
    /\ reading[p] # None /\ spent.receipts < MaxLines
    /\ LET new == Receipt(reading[p].seq, reading[p].prev, FALSE) IN
          /\ receipts' = receipts \cup {new}
          /\ told' = Append(told, new.id)
    /\ reading' = [reading EXCEPT ![p] = None]
    /\ spent' = [spent EXCEPT !.receipts = @ + 1]
    /\ UNCHANGED trailVars

\* The write fails or the tool dies inside it.
TearReceipt(p) ==
    /\ reading[p] # None
    /\ receipts' \in {receipts,
                      receipts \cup {Receipt(reading[p].seq, reading[p].prev, TRUE)}}
    /\ reading' = [reading EXCEPT ![p] = None]
    /\ spent' = [spent EXCEPT !.receipts = @ + 1, !.faults = @ + 1]
    /\ spent.faults < MaxFaults /\ spent.receipts < MaxLines
    /\ UNCHANGED <<trailVars, told>>

Next ==
    \/ \E p \in Process :
          \/ Begin(p) \/ WriteLine(p) \/ WriteFails(p) \/ SyncFile(p)
          \/ SyncDirectory(p) \/ SyncFails(p) \/ Die(p)
          \/ LoadReceipts(p) \/ WriteReceipt(p) \/ TearReceipt(p)
    \/ PowerLoss \/ Inspect

RecordsNext == Next
RecordsSpec == Init /\ [][Next]_vars

-----------------------------------------------------------------------------
(* What the records promise. *)

\* The lock is held exactly by the process inside Record, and what is on disk
\* is part of the file.
RecordsTypeOK ==
    /\ \A p \in Process : at[p].step # "idle" <=> lock = p
    /\ durable \in 0..Len(trail)
    /\ marker \in BOOLEAN /\ entry \in BOOLEAN
    /\ \A r \in receipts : r.seq \in 1..MaxLines /\ r.id \in 1..MaxLines

PlaceOf(line) == CHOOSE i \in DOMAIN trail : trail[i].line = line

\* An event that Record said it recorded stays in the trail, in the order of
\* the answers, whichever process dies and whenever the power goes; and the
\* whole lines of the trail are always one chain, with a half line at most at
\* its end, so that only that or the marker ever stops it (Record: "The audit event must be durable").
RecordedIsKept ==
    /\ \A i \in DOMAIN said :
          /\ \E l \in Range(trail) : l.line = said[i]
          /\ i > 1 => PlaceOf(said[i - 1]) < PlaceOf(said[i])
    /\ \A i \in DOMAIN trail :
          IF trail[i].torn THEN i = Len(trail)
          ELSE trail[i].prev = Tip(SubSeq(trail, 1, i - 1))

\* After a sync failed the trail fails closed: nothing is appended after the
\* line that may not be on disk until an operator has looked at it or the
\* power loss has decided (uncertainMarker: "appends fail closed until an
\* operator inspects the trail and removes the marker").
FailsClosed ==
    \A l \in unsure : \A i \in DOMAIN trail :
        trail[i].line = l => i = Len(trail)

\* A receipt chain that verifies lists every receipt Record answered for, in
\* the order of the answers: two tools that took the same place are never
\* both accepted.
GreenReceiptsAreWhole ==
    ReceiptsValid =>
        \A s \in InOrder(receipts) : [i \in DOMAIN s |-> s[i].id] = told

\* What an operator may rely on, of the trail and of the receipts.
RecordsAreKept == RecordedIsKept /\ FailsClosed /\ GreenReceiptsAreWhole
=============================================================================
