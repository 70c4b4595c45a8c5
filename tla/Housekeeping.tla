---------------------------- MODULE Housekeeping ----------------------------
(***************************************************************************)
(* The offline tools that throw things away, next to the daemon whose data *)
(* they are: futurediff-expire aborts transactions nobody touched,         *)
(* futurediff-prune removes the runtime of finished ones, and              *)
(* futurediff-backup-catalog deletes old ledger backups.  Each plans       *)
(* first and then works through its plan, one file operation or ledger     *)
(* write at a time, and may be killed in between.                          *)
(*                                                                         *)
(* `holder` is the daemon lock (module DaemonLock): the expiry and the     *)
(* catalog take it before they read, the pruning never does.               *)
(***************************************************************************)
EXTENDS Naturals, Sequences, FiniteSets, FiniteSetsExt

CONSTANTS Tx, Place,               \* transactions; where backups are written
          Active,                  \* the tools that are run
          ExpireAfter, PruneAfter, \* ages after which a tool takes an interest
          KeepLatest, MinimumAge,  \* the backup policy
          MaxBackups, MaxTime,     \* bounds on backups and on the clock
          Faults, MaxFaults,       \* {"crash", "disk", "damage"} at most
          Overlaps,                \* "backup": over a file while it is deleted
          None, Damaged

Tools == {"expire", "prune", "catalog"}
Safe == {"active", "ready", "stale"}
Terminal == {"committed", "aborted"}
\* The transitions that can be seen from here: stages the daemon passes
\* through in one request are skipped.
Moves == {<<"active", "ready">>, <<"ready", "stale">>, <<"stale", "ready">>,
          <<"ready", "committing">>, <<"committing", "committed">>}
Status == Safe \cup Terminal \cup {"committing", "aborting"}

VARIABLES
    txs,     \* transaction -> [status, at, tree, dir]
    paths,   \* place -> the backup whose bytes are there, Damaged or None
    catalog, \* the backups in the order they were made: [place, made, listed]
    owner,   \* the holder of the daemon lock: None, "daemon" or a tool
    jobs,    \* tool -> [at, plan, on]: where it is, what is left, what it is on
    actions, \* the tools' own records: <<tool, what>>
    gone,    \* history: the backups whose bytes the catalog deleted
    hasty,   \* history: transactions expired though somebody had touched them
    time, faults

txVars == <<txs, hasty>>
backupVars == <<paths, catalog, gone>>
vars == <<txs, paths, catalog, owner, jobs, actions, gone, hasty, time, faults>>

Off == [at |-> "off", plan |-> {}, on |-> None]

Init ==
    /\ txs = [t \in Tx |-> [status |-> "active", at |-> 0, tree |-> TRUE, dir |-> TRUE]]
    /\ paths = [p \in Place |-> None] /\ catalog = <<>>
    /\ owner = None
    /\ jobs = [k \in Tools |-> Off]
    /\ actions = {} /\ gone = {} /\ hasty = {}
    /\ time = 0 /\ faults = 0

At(k, at) == jobs[k].at = at
Go(k, job) == jobs' = [jobs EXCEPT ![k] = job]
Stop(k) == Go(k, Off) /\ owner' = IF owner = k THEN None ELSE owner
Fails == "disk" \in Faults /\ faults < MaxFaults /\ faults' = faults + 1
Listed == {b \in DOMAIN catalog : catalog[b].listed}
SetStatus(t, s) == txs' = [txs EXCEPT ![t].status = s, ![t].at = time]

-----------------------------------------------------------------------------
(* The daemon, the operator and the world. *)

DaemonWork ==
    \/ /\ owner = None /\ owner' = "daemon"
       /\ UNCHANGED txs
    \/ /\ owner = "daemon" /\ owner' = None
       /\ UNCHANGED txs
    \/ \E t \in Tx :
         /\ owner = "daemon" /\ UNCHANGED owner
         /\ \/ \E s \in Status : <<txs[t].status, s>> \in Moves /\ SetStatus(t, s)
            \/ \E s \in Safe : txs[t].status = s /\ SetStatus(t, "aborting")
            \/ \E left \in {FALSE, txs[t].tree} :
                 /\ txs[t].status = "aborting"
                 /\ txs' = [txs EXCEPT ![t] = [status |-> "aborted", at |-> time,
                                                tree |-> left, dir |-> @.dir]]

\* futurediff-admin takes no lock either; it may write over an older backup.
MakeBackup(p) ==
    /\ Len(catalog) < MaxBackups
    /\ \/ "backup" \in Overlaps
       \/ At("catalog", "off")
       \/ \A b \in Listed : catalog[b].place # p
    /\ catalog' = Append(catalog, [place |-> p, made |-> time, listed |-> TRUE])
    /\ paths' = [paths EXCEPT ![p] = Len(catalog) + 1]

Damage(p) ==
    /\ "damage" \in Faults /\ faults < MaxFaults /\ faults' = faults + 1
    /\ paths[p] # None
    /\ \E c \in {None, Damaged} : paths' = [paths EXCEPT ![p] = c]

Crash(k) ==
    /\ "crash" \in Faults /\ faults < MaxFaults /\ faults' = faults + 1
    /\ ~At(k, "off")
    /\ Stop(k)

World ==
    \/ DaemonWork /\ UNCHANGED <<backupVars, jobs, actions, hasty, time, faults>>
    \/ \E p \in Place :
         /\ MakeBackup(p)
         /\ UNCHANGED <<txVars, owner, jobs, actions, gone, time, faults>>
    \/ \E p \in Place :
         Damage(p) /\ UNCHANGED <<txVars, owner, catalog, gone, jobs, actions, time>>
    \/ \E k \in Tools : Crash(k) /\ UNCHANGED <<txVars, backupVars, actions, time>>
    \/ /\ time < MaxTime /\ time' = time + 1
       /\ UNCHANGED <<txVars, backupVars, owner, jobs, actions, faults>>

-----------------------------------------------------------------------------
(* futurediff-expire: plan, then abort what has not changed since. *)

Stale == {[tx |-> t, status |-> txs[t].status, at |-> txs[t].at] :
            t \in {u \in Tx : txs[u].status \in Safe /\ txs[u].at + ExpireAfter < time}}

\* Mutant: the daemon may go on while the plan is applied.
ExpirePlanMutant ==
    /\ At("expire", "off")
    /\ Go("expire", [Off EXCEPT !.at = "next", !.plan = Stale])
    /\ UNCHANGED <<owner, txVars, actions, faults>>

ExpirePlan ==
    /\ At("expire", "off") /\ owner = None
    /\ owner' = "expire"
    /\ Go("expire", [Off EXCEPT !.at = "next", !.plan = Stale])
    /\ UNCHANGED <<txVars, actions, faults>>

\* The oldest first; one that changed ends the run.
ExpireCheck ==
    /\ At("expire", "next")
    /\ \/ jobs["expire"].plan = {} /\ Stop("expire")
       \/ \E c \in jobs["expire"].plan :
            /\ \A o \in jobs["expire"].plan : c.at <= o.at
            /\ IF txs[c.tx].status = c.status /\ txs[c.tx].at = c.at
               THEN /\ Go("expire", [jobs["expire"] EXCEPT !.at = "abort", !.on = c])
                    /\ UNCHANGED owner
               ELSE Stop("expire")
    /\ UNCHANGED <<txVars, actions, faults>>

\* AbortWithReason reads the transaction again and aborts it from wherever it is.
ExpireAbort ==
    /\ At("expire", "abort")
    /\ LET c == jobs["expire"].on IN
         IF txs[c.tx].status \in Safe
         THEN /\ SetStatus(c.tx, "aborting")
              /\ hasty' = IF txs[c.tx].status = c.status /\ txs[c.tx].at = c.at
                          THEN hasty ELSE hasty \cup {c.tx}
              /\ Go("expire", [jobs["expire"] EXCEPT !.at = "remove"])
              /\ UNCHANGED owner
         ELSE Stop("expire") /\ UNCHANGED txVars
    /\ UNCHANGED <<actions, faults>>

\* The worktree goes, or stays without anybody hearing of it.
ExpireRemove ==
    /\ At("expire", "remove")
    /\ LET t == jobs["expire"].on.tx IN
         \E left \in {FALSE, txs[t].tree} :
           txs' = [txs EXCEPT ![t] = [@ EXCEPT !.status = "aborted", !.at = time,
                                               !.tree = left]]
    /\ Go("expire", [jobs["expire"] EXCEPT !.at = "record"])
    /\ UNCHANGED <<owner, actions, hasty, faults>>

ExpireRecord ==
    /\ At("expire", "record")
    /\ actions' = actions \cup {<<"expire", jobs["expire"].on.tx>>}
    /\ Go("expire", [Off EXCEPT !.at = "next",
                       !.plan = jobs["expire"].plan \ {jobs["expire"].on}])
    /\ UNCHANGED <<owner, txVars, faults>>

-----------------------------------------------------------------------------
(* futurediff-prune: the runtime directories of what is finished. *)

TerminalWorkspaces ==
    {t \in Tx : /\ txs[t].status \in Terminal
                /\ txs[t].at + PruneAfter < time
                /\ <<"prune", t>> \notin actions}

\* Go on to the next candidate; one that fails is skipped.
Skip(t) == Go("prune", [Off EXCEPT !.at = "tree", !.plan = jobs["prune"].plan \ {t}])

PrunePlan ==
    /\ At("prune", "off")
    /\ Go("prune", [Off EXCEPT !.at = "tree", !.plan = TerminalWorkspaces])
    /\ UNCHANGED <<owner, txVars, actions, faults>>

\* `git worktree remove` knows nothing of a worktree that is already gone, and
\* its failure passes for any other.
PruneTree ==
    /\ At("prune", "tree")
    /\ \/ jobs["prune"].plan = {} /\ Stop("prune") /\ UNCHANGED <<txs, faults>>
       \/ \E t \in jobs["prune"].plan :
            /\ \/ /\ txs[t].tree
                  /\ txs' = [txs EXCEPT ![t].tree = FALSE]
                  /\ Go("prune", [jobs["prune"] EXCEPT !.at = "dir", !.on = t])
                  /\ UNCHANGED faults
               \/ /\ (~txs[t].tree /\ UNCHANGED faults) \/ Fails
                  /\ Skip(t) /\ UNCHANGED txs
            /\ UNCHANGED owner
    /\ UNCHANGED <<actions, hasty>>

PruneDir ==
    /\ At("prune", "dir")
    /\ LET t == jobs["prune"].on IN
         \/ /\ txs' = [txs EXCEPT ![t].dir = FALSE]
            /\ Go("prune", [jobs["prune"] EXCEPT !.at = "record"])
            /\ UNCHANGED faults
         \/ Fails /\ Skip(t) /\ UNCHANGED txs
    /\ UNCHANGED <<owner, actions, hasty>>

PruneRecord ==
    /\ At("prune", "record")
    /\ LET t == jobs["prune"].on IN
         actions' = actions \cup {<<"prune", t>>} /\ Skip(t)
    /\ UNCHANGED <<owner, txVars, faults>>

-----------------------------------------------------------------------------
(* futurediff-backup-catalog. *)

Inspect(b) == paths[catalog[b].place] = b
Newer(b) == {o \in Listed : o > b}

Candidates ==
    {b \in Listed : /\ Cardinality(Newer(b)) >= KeepLatest
                    /\ catalog[b].made + MinimumAge <= time}

\* Evaluate: one bad backup and nothing is deleted.
CatalogPlan ==
    /\ At("catalog", "off") /\ owner = None
    /\ IF \A b \in Listed : Inspect(b)
       THEN /\ owner' = "catalog"
            /\ Go("catalog", [Off EXCEPT !.at = "inspect", !.plan = Candidates])
       ELSE UNCHANGED <<owner, jobs>>
    /\ UNCHANGED <<backupVars, actions, faults>>

\* Apply: each is looked at again, newest first, and then removed by its path.
CatalogInspect ==
    /\ At("catalog", "inspect")
    /\ LET plan == jobs["catalog"].plan IN
         IF plan = {} \/ ~Inspect(Max(plan)) THEN Stop("catalog")
         ELSE /\ Go("catalog", [jobs["catalog"] EXCEPT !.at = "remove", !.on = Max(plan)])
              /\ UNCHANGED owner
    /\ UNCHANGED <<backupVars, actions, faults>>

CatalogRemove ==
    /\ At("catalog", "remove")
    /\ LET p == catalog[jobs["catalog"].on].place IN
         \/ /\ paths[p] # None
            /\ paths' = [paths EXCEPT ![p] = None]
            /\ gone' = gone \cup ({paths[p]} \ {Damaged})
            /\ Go("catalog", [jobs["catalog"] EXCEPT !.at = "unlist"])
            /\ UNCHANGED <<owner, faults>>
         \/ /\ (paths[p] = None /\ UNCHANGED faults) \/ Fails
            /\ Stop("catalog") /\ UNCHANGED <<paths, gone>>
    /\ UNCHANGED <<catalog, actions>>

CatalogUnlist ==
    /\ At("catalog", "unlist")
    /\ catalog' = [catalog EXCEPT ![jobs["catalog"].on].listed = FALSE]
    /\ Go("catalog", [jobs["catalog"] EXCEPT !.at = "record"])
    /\ UNCHANGED <<owner, paths, gone, actions, faults>>

CatalogRecord ==
    /\ At("catalog", "record")
    /\ LET b == jobs["catalog"].on IN
         /\ actions' = actions \cup {<<"catalog", b>>}
         /\ Go("catalog", [Off EXCEPT !.at = "inspect", !.plan = jobs["catalog"].plan \ {b}])
    /\ UNCHANGED <<owner, backupVars, faults>>

Next ==
    \/ World
    \/ /\ "expire" \in Active
       /\ ExpirePlan \/ ExpireCheck \/ ExpireAbort \/ ExpireRemove \/ ExpireRecord
       /\ UNCHANGED <<backupVars, time>>
    \/ /\ "prune" \in Active
       /\ PrunePlan \/ PruneTree \/ PruneDir \/ PruneRecord
       /\ UNCHANGED <<backupVars, time>>
    \/ /\ "catalog" \in Active
       /\ \/ CatalogPlan \/ CatalogInspect \/ CatalogRemove \/ CatalogUnlist
          \/ CatalogRecord
       /\ UNCHANGED <<txVars, time>>

HousekeepingSpec == Init /\ [][Next]_vars

-----------------------------------------------------------------------------
(* Properties. *)

HousekeepingTypeOK ==
    /\ \A t \in Tx : txs[t].status \in Status /\ txs[t].tree \in BOOLEAN
    /\ \A p \in Place : paths[p] \in DOMAIN catalog \cup {None, Damaged}
    /\ owner \in Tools \cup {None, "daemon"}

\* What is thrown away is what the tools said they would throw away: a
\* runtime only of a transaction that is over, a worktree only of one that
\* is over or being aborted; a transaction only while nobody touched it since
\* the plan; a backup's bytes only while KeepLatest younger ones were left
\* alone; and a tool's record never speaks of what it did not do.
HousekeepingIsSafe ==
    /\ \A t \in Tx : /\ ~txs[t].dir => txs[t].status \in Terminal
                     /\ ~txs[t].tree => txs[t].status \in Terminal \cup {"aborting"}
    /\ hasty = {}
    /\ \A b \in gone : Cardinality({o \in DOMAIN catalog : o > b} \ gone) >= KeepLatest
    /\ \A t \in Tx : /\ <<"expire", t>> \in actions => txs[t].status = "aborted"
                     /\ <<"prune", t>> \in actions => ~txs[t].dir
    /\ \A b \in DOMAIN catalog :
         <<"catalog", b>> \in actions \/ ~catalog[b].listed => ~Inspect(b)
=============================================================================
