------------------------------ MODULE MvpFlow ------------------------------
(***************************************************************************)
(* The original design branch: a transaction staged by                     *)
(* gateway.SpikeService and published by mvpflow.Service as repository     *)
(* patch, GitHub pull request and Slack message, over two files,           *)
(* transaction.json and mvpflow-commit.json, that are plainly overwritten. *)
(*                                                                         *)
(* One prepared transaction is modelled.  Callers may run side by side and *)
(* stop between any two writes; a provider may refuse, or do the work and  *)
(* lose the answer; a lookup may fail.                                     *)
(***************************************************************************)
EXTENDS Naturals, FiniteSets

CONSTANTS
  Caller,      \* whoever calls the service: a command, a test, a second shell
  None,
  MaxCalls     \* bound on calls

VARIABLES
  meta,      \* transaction.json: [state, effect], or None
  ledger,    \* ledger.jsonl: the state transitions appended
  prepared,  \* whether Prepare returned: its result is the caller's to keep
  tree,      \* the source repository: "base", "patched" or "moved" on by its user
  applied,   \* whether the patch was ever applied to it
  schema,    \* the schema diff file the approval's fingerprint covers
  approval,  \* the approval snapshot, or None
  record,    \* mvpflow-commit.json, or None
  fresh,     \* whether the pull request's base branch is where it was prepared
  pulls,     \* pull requests created, and which of them are open
  posts,     \* messages posted
  call,      \* each caller's progress and what it holds in memory
  calls,     \* calls so far
  careful    \* no call overlapped another or began a commit anew, no lookup failed

vars == <<meta, ledger, prepared, tree, applied, schema, approval, record, fresh,
          pulls, posts, call, calls, careful>>
gatewayVars == <<meta, ledger, tree, applied>>
flowVars == <<prepared, schema, approval, record, fresh, pulls, posts>>

Idle == [pc |-> "idle", own |-> None, rec |-> None, reconcile |-> FALSE,
         compensate |-> FALSE]

NewRecord == [state |-> "COMMITTING", repo |-> "PENDING", github |-> "PENDING",
              slack |-> "PENDING", pull |-> None, post |-> None]

Init ==
  /\ meta = None /\ ledger = {} /\ prepared = FALSE
  /\ tree = "base" /\ applied = FALSE
  /\ schema = None /\ approval = None /\ record = None
  /\ fresh = TRUE /\ pulls = [made |-> {}, open |-> {}] /\ posts = 0
  /\ call = [c \in Caller |-> Idle] /\ calls = 0 /\ careful = TRUE

At(c, pc) == call[c].pc = pc
Goto(c, pc) == call' = [call EXCEPT ![c].pc = pc]
Return(c) == call' = [call EXCEPT ![c] = Idle]
Appended(from, to) == ledger \cup {<<from, to>>}

Begin(c, careless) ==
  /\ At(c, "idle")
  /\ calls < MaxCalls
  /\ calls' = calls + 1
  /\ careful' = (careful /\ ~careless /\ \A d \in Caller \ {c} : At(d, "idle"))

Same == UNCHANGED <<calls, careful>>

-----------------------------------------------------------------------------
(* Service.Prepare: the disposable Postgres preview, then the gateway's    *)
(* staged run.                                                             *)

\* The preview's rollback check only goes into its report: Prepare and the
\* approval look at the schema diff alone.
Preview(c) ==
  /\ Begin(c, FALSE)
  /\ meta = None
  /\ schema' \in {"diff", "other_diff"}
  /\ Goto(c, "start")
  /\ UNCHANGED <<gatewayVars, prepared, approval, record, fresh, pulls, posts>>

\* SpikeService.RunWithOptions saves NEW and appends the move to ACTIVE, which
\* the file shows only when a later save writes it.
StartRun(c) ==
  /\ At(c, "start")
  /\ meta = None
  /\ meta' = [state |-> "NEW", effect |-> "DECLARED"]
  /\ ledger' = Appended("NEW", "ACTIVE")
  /\ Goto(c, "staged")
  /\ Same /\ UNCHANGED <<tree, applied, flowVars>>

CommandFails(c) ==
  /\ At(c, "staged")
  /\ Return(c)
  /\ Same /\ UNCHANGED <<gatewayVars, flowVars>>

\* The append and the save that follow the captured patch: to ABORTED when it
\* is empty, to VERIFYING when there is a verification command.
CapturePatch(c) ==
  /\ At(c, "staged")
  /\ \E to \in {"ABORTED", "AWAITING_APPROVAL", "VERIFYING"} :
       /\ ledger' = Appended("ACTIVE", to)
       /\ call' = [call EXCEPT ![c].pc = "save_run",
                               ![c].own = [state |-> to, effect |-> "PREPARED"]]
  /\ Same /\ UNCHANGED <<meta, tree, applied, flowVars>>

SaveRun(c) ==
  /\ At(c, "save_run")
  /\ meta' = call[c].own
  /\ IF call[c].own.state = "VERIFYING"
     THEN Goto(c, "verify") /\ UNCHANGED prepared
     ELSE Return(c) /\ prepared' = TRUE
  /\ Same
  /\ UNCHANGED <<ledger, tree, applied, schema, approval, record, fresh, pulls, posts>>

VerifyRun(c) ==
  /\ At(c, "verify")
  /\ \/ /\ ledger' = Appended("VERIFYING", "AWAITING_APPROVAL")
        /\ call' = [call EXCEPT ![c].pc = "save_run",
                      ![c].own = [state |-> "AWAITING_APPROVAL", effect |-> "VERIFIED"]]
     \/ /\ ledger' = ledger \cup {<<"VERIFYING", "ABORTING">>, <<"ABORTING", "ABORTED">>}
        /\ call' = [call EXCEPT ![c].pc = "save_run",
                      ![c].own = [state |-> "ABORTED", effect |-> "ABORTED"]]
  /\ Same /\ UNCHANGED <<meta, tree, applied, flowVars>>

\* CaptureApproval binds the snapshot to what was prepared; nothing later in
\* this branch rewrites the transaction, only the schema diff file can change.
CaptureApproval(c) ==
  /\ Begin(c, FALSE)
  /\ prepared
  /\ approval = None
  /\ \E d \in {"approved", "rejected"} :
       approval' = [decision |-> d, schema |-> schema]
  /\ UNCHANGED <<gatewayVars, prepared, schema, record, fresh, pulls, posts, call>>

IsApproved == approval # None /\ approval.decision = "approved" /\ approval.schema = schema

-----------------------------------------------------------------------------
(* Beginning to publish.                                                   *)

\* Commit, CommitWithCompensation and CommitApproved write a new commit record
\* over whatever record an earlier call left; only the last one looks at the
\* approval.
StartCommit(c) ==
  /\ Begin(c, record # None)
  /\ prepared
  /\ record' = NewRecord
  /\ \E how \in {"plain", "compensating", "approved"} :
       /\ how = "approved" => IsApproved
       /\ call' = [call EXCEPT ![c] = [pc |-> "fresh", own |-> None, rec |-> NewRecord,
                                       reconcile |-> FALSE,
                                       compensate |-> how = "compensating"]]
  /\ UNCHANGED <<gatewayVars, prepared, schema, approval, fresh, pulls, posts>>

\* Mutant: reconciling without looking before it acts again.
ReconcileMutant(c) ==
  /\ Begin(c, FALSE)
  /\ prepared
  /\ record # None
  /\ call' = [call EXCEPT ![c] = [pc |-> "fresh", own |-> None, rec |-> record,
                                  reconcile |-> FALSE, compensate |-> FALSE]]
  /\ UNCHANGED <<gatewayVars, flowVars>>

ReconcileCommit(c) ==
  /\ Begin(c, FALSE)
  /\ prepared
  /\ record # None
  /\ record.state # "COMPENSATED"
  /\ call' = [call EXCEPT ![c] = [pc |-> "fresh", own |-> None, rec |-> record,
                                  reconcile |-> TRUE, compensate |-> FALSE]]
  /\ UNCHANGED <<gatewayVars, flowVars>>

CheckBaseFreshness(c) ==
  /\ At(c, "fresh")
  /\ \/ fresh /\ Goto(c, "repo")
     \/ Return(c)
  /\ Same /\ UNCHANGED <<gatewayVars, flowVars>>

-----------------------------------------------------------------------------
(* The repository: ensureRepoCommitted, SpikeService.Commit and Recover.   *)

EnsureRepo(c) ==
  /\ At(c, "repo")
  /\ CASE call[c].rec.repo = "COMMITTED" -> Goto(c, "save_repo")
       [] meta.state = "AWAITING_APPROVAL" -> Goto(c, "load_commit")
       [] meta.state = "COMMITTING" -> Goto(c, "recover")
       [] meta.state = "COMMITTED" -> Goto(c, "repo_done")
       [] OTHER -> Return(c)
  /\ Same /\ UNCHANGED <<gatewayVars, flowVars>>

LoadForCommit(c) ==
  /\ At(c, "load_commit")
  /\ IF meta.state = "AWAITING_APPROVAL"
     THEN call' = [call EXCEPT ![c].pc = "save_committing", ![c].own = meta]
     ELSE Return(c)
  /\ Same /\ UNCHANGED <<gatewayVars, flowVars>>

SaveCommitting(c) ==
  /\ At(c, "save_committing")
  /\ meta' = [call[c].own EXCEPT !.state = "COMMITTING"]
  /\ Goto(c, "apply")
  /\ Same /\ UNCHANGED <<ledger, tree, applied, flowVars>>

\* git apply takes the patch whole or not at all.
ApplyPatch(c) ==
  /\ At(c, "apply")
  /\ ledger' = Appended("AWAITING_APPROVAL", "COMMITTING")
  /\ IF tree = "base"
     THEN tree' = "patched" /\ applied' = TRUE /\ Goto(c, "applied")
     ELSE Return(c) /\ UNCHANGED <<tree, applied>>
  /\ Same /\ UNCHANGED <<meta, flowVars>>

\* Mutant: recovery that trusts the state COMMITTING alone.
RecoverMutant(c) ==
  /\ At(c, "recover")
  /\ call' = [call EXCEPT ![c].pc = "applied", ![c].own = meta]
  /\ Same /\ UNCHANGED <<gatewayVars, flowVars>>

\* isPatchApplied asks whether the patch would come off again.
RecoverRepo(c) ==
  /\ At(c, "recover")
  /\ IF meta.state = "COMMITTING" /\ tree = "patched"
     THEN call' = [call EXCEPT ![c].pc = "applied", ![c].own = meta]
     ELSE Return(c)
  /\ Same /\ UNCHANGED <<gatewayVars, flowVars>>

AppendCommitted(c) ==
  /\ At(c, "applied")
  /\ ledger' = Appended("COMMITTING", "COMMITTED")
  /\ Goto(c, "save_committed")
  /\ Same /\ UNCHANGED <<meta, tree, applied, flowVars>>

SaveCommitted(c) ==
  /\ At(c, "save_committed")
  /\ meta' = [state |-> "COMMITTED", effect |-> "COMMITTED"]
  /\ Goto(c, "repo_done")
  /\ Same /\ UNCHANGED <<ledger, tree, applied, flowVars>>

RepoDone(c) ==
  /\ At(c, "repo_done")
  /\ call' = [call EXCEPT ![c].pc = "save_repo", ![c].rec.repo = "COMMITTED"]
  /\ Same /\ UNCHANGED <<gatewayVars, flowVars>>

SaveRecord(c, from, to) ==
  /\ At(c, from)
  /\ record' = call[c].rec
  /\ IF to = "idle" THEN Return(c) ELSE Goto(c, to)
  /\ Same
  /\ UNCHANGED <<gatewayVars, prepared, schema, approval, fresh, pulls, posts>>

-----------------------------------------------------------------------------
(* The two providers: ensureGitHubReceipt and ensureSlackReceipt.          *)

\* What a caller holds once a provider step ends well.
HasPull(c, state, n) ==
  call' = [call EXCEPT ![c].pc = "save_github", ![c].rec.github = state,
                       ![c].rec.pull = n]
HasPost(c, state) ==
  call' = [call EXCEPT ![c].pc = "save_slack", ![c].rec.slack = state,
                       ![c].rec.post = posts', ![c].rec.state = "COMMITTED"]

\* prcreate.Client.Recover lists open pull requests only.
FindPull(c) ==
  /\ At(c, "github") \/ At(c, "github_again")
  /\ call[c].rec.pull = None
  /\ At(c, "github") => call[c].reconcile
  /\ \/ \E n \in pulls.open : HasPull(c, "RECOVERED", n) /\ UNCHANGED careful
     \/ /\ pulls.open = {}
        /\ IF At(c, "github") THEN Goto(c, "github_create") ELSE Return(c)
        /\ UNCHANGED careful
     \/ /\ IF At(c, "github") THEN Goto(c, "github_create") ELSE Return(c)
        /\ careful' = FALSE
  /\ UNCHANGED <<gatewayVars, flowVars, calls>>

\* The provider refuses a second open pull request between the same branches.
CreatePull(c) ==
  /\ At(c, "github_create") \/ (At(c, "github") /\ ~call[c].reconcile)
  /\ call[c].rec.pull = None
  /\ LET n == Cardinality(pulls.made) + 1 IN
     \/ /\ pulls.open = {}
        /\ pulls' = [made |-> pulls.made \cup {n}, open |-> {n}]
        /\ HasPull(c, "COMMITTED", n) \/ Goto(c, "github_again")
     \/ Goto(c, "github_again") /\ UNCHANGED pulls
  /\ Same
  /\ UNCHANGED <<gatewayVars, prepared, schema, approval, record, fresh, posts>>

KeepPull(c) ==
  /\ At(c, "github")
  /\ call[c].rec.pull # None
  /\ Goto(c, "save_github")
  /\ Same /\ UNCHANGED <<gatewayVars, flowVars>>

\* A failed second lookup reports failure, and the caller may compensate.
SlackFails(c) ==
  IF call[c].compensate
  THEN call' = [call EXCEPT ![c].pc = "close", ![c].rec.slack = "FAILED"]
  ELSE Return(c)

FindPost(c) ==
  /\ At(c, "slack") \/ At(c, "slack_again")
  /\ call[c].rec.post = None
  /\ At(c, "slack") => call[c].reconcile
  /\ UNCHANGED posts
  /\ \/ posts > 0 /\ HasPost(c, "RECOVERED") /\ UNCHANGED careful
     \/ /\ posts = 0
        /\ IF At(c, "slack") THEN Goto(c, "slack_send") ELSE SlackFails(c)
        /\ UNCHANGED careful
     \/ /\ IF At(c, "slack") THEN Goto(c, "slack_send") ELSE SlackFails(c)
        /\ careful' = FALSE
  /\ UNCHANGED <<gatewayVars, prepared, schema, approval, record, fresh, pulls, calls>>

\* The message carries its effect id as metadata; the provider does not look
\* at it, so every request that arrives posts.
SendPost(c) ==
  /\ At(c, "slack_send") \/ (At(c, "slack") /\ ~call[c].reconcile)
  /\ call[c].rec.post = None
  /\ \/ posts' = posts + 1 /\ (HasPost(c, "COMMITTED") \/ Goto(c, "slack_again"))
     \/ UNCHANGED posts /\ Goto(c, "slack_again")
  /\ Same
  /\ UNCHANGED <<gatewayVars, prepared, schema, approval, record, fresh, pulls>>

KeepPost(c) ==
  /\ At(c, "slack")
  /\ call[c].rec.post # None
  /\ call' = [call EXCEPT ![c].pc = "save_slack", ![c].rec.state = "COMMITTED"]
  /\ Same /\ UNCHANGED <<gatewayVars, flowVars>>

\* prcreate.Client.Close; closing what is closed is no error.
ClosePull(n) == pulls' = [pulls EXCEPT !.open = @ \ {n}]

\* compensateAfterSlackFailure: any failure to close asks for a person.
Compensate(c) ==
  /\ At(c, "close")
  /\ \/ /\ ClosePull(call[c].rec.pull)
        /\ call' = [call EXCEPT ![c].pc = "save_slack", ![c].rec.state = "COMPENSATED"]
     \/ /\ UNCHANGED pulls \/ ClosePull(call[c].rec.pull)
        /\ call' = [call EXCEPT ![c].pc = "save_slack",
                                ![c].rec.state = "FAILED_MANUAL_INTERVENTION"]
  /\ Same
  /\ UNCHANGED <<gatewayVars, prepared, schema, approval, record, fresh, posts>>

-----------------------------------------------------------------------------
(* The world around the calls.                                             *)

Crash(c) ==
  /\ ~At(c, "idle")
  /\ Return(c)
  /\ Same /\ UNCHANGED <<gatewayVars, flowVars>>

MoveTree ==
  /\ tree # "moved"
  /\ tree' = "moved"
  /\ Same /\ UNCHANGED <<meta, ledger, applied, flowVars, call>>

MoveBase ==
  /\ fresh
  /\ fresh' = FALSE
  /\ Same
  /\ UNCHANGED <<gatewayVars, prepared, schema, approval, record, pulls, posts, call>>

\* A second preview into the same evidence directory overwrites the diff.
RewriteSchema ==
  /\ approval # None
  /\ schema = "diff"
  /\ schema' = "other_diff"
  /\ Same
  /\ UNCHANGED <<gatewayVars, prepared, approval, record, fresh, pulls, posts, call>>

-----------------------------------------------------------------------------
Saves(c) ==
  \/ SaveRecord(c, "save_repo", "github")
  \/ SaveRecord(c, "save_github", "slack")
  \/ SaveRecord(c, "save_slack", "idle")

FlowNext ==
  \/ MoveTree \/ MoveBase \/ RewriteSchema
  \/ \E c \in Caller :
       \/ Preview(c) \/ StartRun(c) \/ CommandFails(c) \/ CapturePatch(c)
       \/ SaveRun(c) \/ VerifyRun(c) \/ CaptureApproval(c)
       \/ StartCommit(c) \/ ReconcileCommit(c) \/ CheckBaseFreshness(c)
       \/ EnsureRepo(c) \/ LoadForCommit(c) \/ SaveCommitting(c) \/ ApplyPatch(c)
       \/ RecoverRepo(c) \/ AppendCommitted(c) \/ SaveCommitted(c) \/ RepoDone(c)
       \/ Saves(c) \/ FindPull(c) \/ CreatePull(c) \/ KeepPull(c)
       \/ FindPost(c) \/ SendPost(c) \/ KeepPost(c) \/ Compensate(c) \/ Crash(c)

FlowSpec == Init /\ [][FlowNext]_vars

-----------------------------------------------------------------------------
(* Properties.                                                             *)

FlowTypeOK ==
  /\ meta # None => meta.state \in {"NEW", "ABORTED", "VERIFYING", "AWAITING_APPROVAL",
                                    "COMMITTING", "COMMITTED"}
  /\ tree \in {"base", "patched", "moved"}
  /\ pulls.open \subseteq pulls.made
  /\ calls \in 0 .. MaxCalls

\* What the two files say happened did happen, whatever stopped, was refused
\* or lost its answer, and however callers overlapped: a committed transaction
\* was applied to the repository and its ledger says so, a committed record's
\* pull request and message exist, and a compensated record's pull request is closed.
FilesTellTheTruth ==
  /\ meta # None /\ meta.state = "COMMITTED" =>
       applied /\ <<"COMMITTING", "COMMITTED">> \in ledger
  /\ record # None =>
       /\ record.state = "COMMITTED" =>
            applied /\ record.pull \in pulls.made /\ posts > 0
       /\ record.state = "COMPENSATED" =>
            applied /\ record.pull \in pulls.made \ pulls.open

\* The branch's exactly-once story and its limits: one pull request and one
\* message per transaction across any crashes and lost answers, as long as
\* callers take turns, continue with ReconcileCommit rather than a new Commit,
\* and no lookup fails.
CarefulPublishesOnce ==
  careful => posts <= 1 /\ Cardinality(pulls.made) <= 1
=============================================================================
