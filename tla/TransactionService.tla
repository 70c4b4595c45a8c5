------------------------- MODULE TransactionService -------------------------
(***************************************************************************)
(* The requests internal/app runs on one transaction, each a sequence of   *)
(* steps over the ledger, the Git repository (internal/staging) and the    *)
(* providers (internal/adapters).  The daemon serves requests concurrently *)
(* and one step ends where another request, the agent, the provider or a   *)
(* crash can come between: at every ledger transaction, Git command and    *)
(* provider call that reads or writes something shared.                    *)
(***************************************************************************)
EXTENDS TransactionLedger

CONSTANTS
  Request,      \* requests that can be in progress at once
  Operation,    \* the operations clients ask for in this instance
  Kind,         \* Effect -> "branch", "pr" or "slack"
  Rank,         \* Effect -> its place in ORDER BY commit_rank, effect_id
  Base,         \* the tree of the base commit
  Oversized,    \* trees whose patch exceeds the quota
  EffectQuota,  \* quota.Policy.MaxEffectsPerTransaction
  Faults,       \* what the environment may do: see the last section
  MaxAttempts   \* bound on the commit and recover requests

ASSUME KindAssumption ==
  /\ Kind \in [Effect -> {"branch", "pr", "slack"}]
  /\ Rank \in [Effect -> Nat]
  /\ \A e, f \in Effect : Rank[e] = Rank[f] => e = f
  /\ \A e \in Effect :
       /\ Kind[e] = "branch" => DependsOn[e] = {}
       /\ Kind[e] = "pr" => \A d \in DependsOn[e] : Kind[d] = "branch"
ASSUME ServiceAssumption ==
  /\ Base \in Tree /\ Oversized \subseteq Tree /\ Coordinator # {} /\ Version # {}
  /\ EffectQuota \in Nat /\ MaxAttempts \in Nat /\ MaxAttempts <= MaxToken
  /\ None \notin Request \cup Effect

VARIABLES
  req,          \* the requests in progress and their local variables
  workspace,    \* tree in the transaction's working copy, None once removed
  checked,      \* the tree the recorded verification's checks ran on
  patchFile,    \* the tree artifacts/staged.patch produces
  integration,  \* what Git knows of the integration worktree
  intRef,       \* tree of refs/heads/futurediff/<transaction>
  moved,        \* the source branch is not at the base commit
  version,      \* version each pull request's base has at the provider
  taken,        \* branches whose remote name points at another commit
  copies,       \* how often each effect was applied at its provider
  late,         \* calls sent that the provider may still apply
  attempts,     \* commit and recover requests so far
  owner         \* coordinatorID() of the running daemon: its process id

worldVars == <<workspace, checked, patchFile, integration, intRef, moved,
               version, taken, copies, late, attempts, owner>>
vars == <<ledgerVars, req, worldVars>>

Idle == [op |-> "idle", pc |-> "idle", tree |-> None, digest |-> None,
         effect |-> None, doc |-> None, from |-> "none", token |-> 0,
         rows |-> [e \in Effect |-> NoEffect], todo |-> {}, done |-> {},
         exists |-> FALSE, all |-> FALSE, any |-> FALSE, answer |-> None]

-----------------------------------------------------------------------------
(* Requests.                                                               *)

Asked(r, op) == op \in Operation /\ req[r] = Idle
Start(r, op, pc) == req' = [req EXCEPT ![r].op = op, ![r].pc = pc]
At(r, pc) == req[r].pc = pc
Goto(r, pc) == req' = [req EXCEPT ![r].pc = pc]
End(r) == req' = [req EXCEPT ![r] = Idle]

\* Keeps requests that will bump material_revision below its bound.
Room ==
  material + Cardinality({r \in Request : req[r].op \in {"seal", "prepare", "refresh"}})
    < MaxMaterial

\* A ledger method returns an error: a condition of its own does not hold,
\* or SQLite or the disk fails and the SQL transaction is rolled back.
Refused(ok) == ~ok \/ "ledger" \in Faults

\* Mutant: the update does not compare the status first.
TryTransitionMutant(from, to, invalidate) ==
  /\ status' = to
  /\ approval' = IF invalidate THEN None ELSE approval
  /\ UNCHANGED <<material, patch, verification, effects, receipts,
                 materialized, lease>>

\* Transition as callers use it that ignore its error.
TryTransition(from, to, invalidate) ==
  \/ status = from /\ Transition(from, to, invalidate)
  \/ Refused(status = from) /\ UNCHANGED ledgerVars

\* MarkNeedsReconciliation with its error ignored.
TryMark == TryTransition("committing", "needs_reconciliation", FALSE)

\* Git's answers: the source branch is where it was, and the stored patch still
\* gives the commit of the sealed tree.
Pinned == ~moved
Predicted == patchFile = patch

\* The first effect in commit order.
First(S) == CHOOSE e \in S : \A f \in S : Rank[e] <= Rank[f]

-----------------------------------------------------------------------------
(* Staging: create, edit, seal.                                            *)

StageWorkspace == workspace' = Base

CreateTransaction ==
  /\ Create
  /\ StageWorkspace
  /\ UNCHANGED <<req, checked, patchFile, integration, intRef, moved, version,
                 taken, copies, late, attempts, owner>>

\* The agent writes to its working copy, directly or through Execute.  The
\* working copy stays writable after the transaction is sealed.
Edit(tree) ==
  /\ "edit" \in Operation
  /\ workspace # None /\ workspace' = tree
  /\ UNCHANGED <<ledgerVars, req, checked, patchFile, integration, intRef,
                 moved, version, taken, copies, late, attempts, owner>>

\* Seal, first half: Capture replaces artifacts/staged.patch before anything
\* looks at the transaction's status.
SealCapture(r) ==
  /\ Asked(r, "seal") /\ Room /\ workspace # None
  /\ \/ /\ workspace \in Oversized
        /\ patchFile' = None /\ UNCHANGED req
     \/ /\ workspace \notin Oversized
        /\ patchFile' = workspace
        /\ req' = [req EXCEPT ![r].op = "seal", ![r].pc = "record_patch",
                              ![r].tree = workspace]
  /\ UNCHANGED <<ledgerVars, workspace, checked, integration, intRef, moved,
                 version, taken, copies, late, attempts, owner>>

SealRecord(r) ==
  /\ At(r, "record_patch")
  /\ \/ RecordPatch(req[r].tree)
     \/ Refused(RecordPatchOK) /\ UNCHANGED ledgerVars
  /\ End(r)
  /\ UNCHANGED worldVars

-----------------------------------------------------------------------------
(* Verify and approve.                                                     *)

VerifyStart(r) ==
  /\ Asked(r, "verify")
  /\ status \in {"sealed", "stale"}
  /\ req' = [req EXCEPT ![r].op = "verify", ![r].pc = "checks",
                        ![r].digest = VerificationMaterial]
  /\ UNCHANGED <<ledgerVars, worldVars>>

\* RunWithMaterial: the checks run in the working copy.
VerifyChecks(r) ==
  /\ At(r, "checks")
  /\ req' = [req EXCEPT ![r].pc = "record_verification", ![r].tree = workspace]
  /\ UNCHANGED <<ledgerVars, worldVars>>

VerifyRecord(r) ==
  /\ At(r, "record_verification")
  /\ \/ /\ \E results \in CheckResults :
             RecordVerification(req[r].digest, results)
        /\ checked' = req[r].tree
     \/ Refused(RecordVerificationOK) /\ UNCHANGED <<ledgerVars, checked>>
  /\ End(r)
  /\ UNCHANGED <<workspace, patchFile, integration, intRef, moved, version,
                 taken, copies, late, attempts, owner>>

\* Approve, ApproveSigned and ApproveSignedQuorum once the signatures hold.
Approve ==
  /\ "approve" \in Operation
  /\ ApproveWithEvidence(ApprovalMaterial)
  /\ UNCHANGED <<req, worldVars>>

-----------------------------------------------------------------------------
(* Preparing and refreshing external effects.                              *)

\* enforceEffectQuota, the status check and the provider reads of the three
\* Prepare requests.  A branch binds the commit predicted from the patch file
\* and must be absent at the provider.
PrepareRead(r, e) ==
  /\ Asked(r, "prepare") /\ Room
  /\ ~Exists(e) /\ \A q \in Request : req[q].effect # e
  /\ Cardinality({f \in Effect : Exists(f)}) < EffectQuota
  /\ status \in IF Kind[e] = "branch" THEN {"sealed"} ELSE {"active", "sealed"}
  /\ \A d \in DependsOn[e] : Exists(d)
  /\ Kind[e] = "branch" => Predicted /\ copies[e] = 0 /\ e \notin taken
  /\ req' = [req EXCEPT ![r].op = "prepare", ![r].pc = "persist",
                        ![r].effect = e, ![r].doc = version[e]]
  /\ UNCHANGED <<ledgerVars, worldVars>>

PreparePersist(r) ==
  /\ At(r, "persist")
  /\ \/ CreateExternalEffect(req[r].effect, req[r].doc)
     \/ Refused(CreateExternalEffectOK(req[r].effect)) /\ UNCHANGED ledgerVars
  /\ End(r)
  /\ UNCHANGED worldVars

\* RefreshGitHubEffect: only pull requests can be refreshed.
RefreshRead(r, e) ==
  /\ Asked(r, "refresh") /\ Room
  /\ Exists(e) /\ Kind[e] = "pr"
  /\ req' = [req EXCEPT ![r].op = "refresh", ![r].pc = "rebind",
                        ![r].effect = e, ![r].doc = version[e]]
  /\ UNCHANGED <<ledgerVars, worldVars>>

RefreshPersist(r) ==
  /\ At(r, "rebind")
  /\ \/ RefreshExternalEffect(req[r].effect, req[r].doc)
     \/ Refused(RefreshExternalEffectOK(req[r].effect)) /\ UNCHANGED ledgerVars
  /\ End(r)
  /\ UNCHANGED worldVars
-----------------------------------------------------------------------------
(* Commit.                                                                 *)

\* The provider no longer has what the effect was prepared against.
PreflightStale(e, doc) ==
  \/ Kind[e] = "branch" /\ e \in taken
  \/ Kind[e] = "pr" /\ (version[e] # doc \/ DependsOn[e] \cap taken # {})

\* CommitContext; the digest is the one the client saw.
CommitStart(r) ==
  /\ Asked(r, "commit") /\ attempts < MaxAttempts
  /\ status = "ready"
  /\ attempts' = attempts + 1
  /\ req' = [req EXCEPT ![r].op = "commit", ![r].pc = "pin",
                        ![r].digest = approval]
  /\ UNCHANGED <<ledgerVars, workspace, checked, patchFile, integration,
                 intRef, moved, version, taken, copies, late, owner>>

\* SourcePinned, then the effects preflightExternalEffects will look at.
CommitPin(r) ==
  /\ At(r, "pin")
  /\ \/ "git" \in Faults /\ End(r)
     \/ ~Pinned /\ Goto(r, "mark_stale")
     \/ /\ Pinned
        /\ req' = [req EXCEPT ![r].pc = "preflight", ![r].rows = effects,
                              ![r].todo = {e \in Effect : Exists(e) /\ effects[e].status # "committed"}]
  /\ UNCHANGED <<ledgerVars, worldVars>>

\* preflightExternalEffects: one effect at a time, read-only.
Preflight(r) ==
  /\ At(r, "preflight")
  /\ \/ req[r].todo = {} /\ Goto(r, "lease")
     \/ req[r].todo # {} /\ "provider" \in Faults /\ End(r)
     \/ LET e == First(req[r].todo) IN
        /\ req[r].todo # {}
        /\ \/ /\ PreflightStale(e, req[r].rows[e].doc)
              /\ Goto(r, "mark_stale")
           \/ /\ ~PreflightStale(e, req[r].rows[e].doc)
              /\ req' = [req EXCEPT ![r].todo = @ \ {e}]
  /\ UNCHANGED <<ledgerVars, worldVars>>

MarkStale(r) ==
  /\ At(r, "mark_stale")
  /\ TryTransition("ready", "stale", TRUE)
  /\ End(r)
  /\ UNCHANGED worldVars

\* acquireTransactionLease, for Commit and for Recover.  The lease of a
\* daemon that died is held against its successor until it runs out.
TakeLease(r) ==
  /\ At(r, "lease")
  /\ \/ /\ AcquireLease(owner)
        /\ req' = [req EXCEPT ![r].token = lease.token + 1,
                              ![r].pc = IF req[r].op = "commit" THEN "begin" ELSE "inspect"]
     \/ Refused(AcquireLeaseOK(owner)) /\ End(r) /\ UNCHANGED ledgerVars
  /\ UNCHANGED worldVars

CommitBegin(r) ==
  /\ At(r, "begin")
  /\ \/ BeginCommit(req[r].digest) /\ Goto(r, "inspect")
     \/ Refused(BeginCommitOK(req[r].digest)) /\ End(r) /\ UNCHANGED ledgerVars
  /\ UNCHANGED worldVars

\* Mutant: the error is returned and nothing is marked.
FailMutant(r) == End(r)

\* A failed commit marks the transaction for reconciliation; a failed
\* recovery just returns.
Fail(r) == IF req[r].op = "commit" THEN Goto(r, "mark") ELSE End(r)

Mark(r) ==
  /\ At(r, "mark")
  /\ TryMark
  /\ End(r)
  /\ UNCHANGED worldVars

\* InspectIntegrationRef: a ref that cannot be read counts as absent, a tree
\* that cannot be read is an error.
Inspect(r) ==
  /\ At(r, "inspect")
  /\ \/ /\ intRef = None \/ "git" \in Faults
        /\ Goto(r, IF req[r].op = "commit" THEN "materialize" ELSE "reload")
     \/ /\ intRef # None /\ intRef = patch
        /\ req' = [req EXCEPT ![r].pc = "record_ref", ![r].exists = TRUE]
     \/ intRef # None /\ (intRef # patch \/ "git" \in Faults) /\ Fail(r)
  /\ UNCHANGED <<ledgerVars, worldVars>>

\* Materialize, first half: pin, patch digest, integration worktree.  When
\* the worktree cannot be added its directory is removed all the same, and
\* Git goes on listing it.
AddWorktree(r) ==
  /\ At(r, "materialize")
  /\ \/ /\ Pinned /\ Predicted /\ integration = "clean"
        /\ integration' = "in_use" /\ Goto(r, "publish")
     \/ /\ Pinned /\ Predicted /\ integration # "clean"
        /\ integration' = "registered" /\ Fail(r)
     \/ /\ ~Pinned \/ ~Predicted \/ "git" \in Faults
        /\ Fail(r) /\ UNCHANGED integration
  /\ UNCHANGED <<ledgerVars, workspace, checked, patchFile, intRef, moved,
                 version, taken, copies, late, attempts, owner>>

\* Mutant: whatever the patch file holds now is published.
PublishRefMutant(r) ==
  /\ At(r, "publish")
  /\ intRef' = patchFile /\ Goto(r, "record_ref")
  /\ integration' = "clean"
  /\ UNCHANGED <<ledgerVars, workspace, checked, patchFile, moved, version,
                 taken, copies, late, attempts, owner>>

\* Materialize, second half: the create-only update-ref, then the deferred
\* removal of the worktree.
PublishRef(r) ==
  /\ At(r, "publish")
  /\ \/ /\ integration = "in_use" /\ patchFile = patch /\ intRef = None
        /\ intRef' = patch /\ Goto(r, "record_ref")
     \/ /\ integration # "in_use" \/ patchFile # patch \/ intRef # None \/ "git" \in Faults
        /\ Fail(r) /\ UNCHANGED intRef
  /\ integration' = "clean"
  /\ UNCHANGED <<ledgerVars, workspace, checked, patchFile, moved, version,
                 taken, copies, late, attempts, owner>>

RecordRef(r) ==
  /\ At(r, "record_ref")
  /\ \/ /\ RecordMaterializedRef(patch)
        /\ Goto(r, IF req[r].op = "commit" THEN "load" ELSE "reload")
     \/ Refused(RecordMaterializedRefOK(patch)) /\ Fail(r) /\ UNCHANGED ledgerVars
  /\ UNCHANGED worldVars

Finalize(r) ==
  /\ At(r, "finalize")
  /\ \/ FinalizeTransactionCommit /\ End(r)
     \/ Refused(FinalizeOK) /\ Fail(r) /\ UNCHANGED ledgerVars
  /\ UNCHANGED worldVars

-----------------------------------------------------------------------------
(* Releasing the effects: commitExternalEffects.                           *)

\* The loop works on the rows as they were when it began.
LoadEffects(r) ==
  /\ At(r, "load")
  /\ req' = [req EXCEPT ![r].pc = "next", ![r].rows = effects,
                        ![r].todo = {e \in Effect : Exists(e) /\ effects[e].status # "committed"},
                        ![r].done = {e \in Effect : effects[e].status = "committed"}]
  /\ UNCHANGED <<ledgerVars, worldVars>>

\* Mutant: dependencies are not looked at.
NextEffectOKMutant(r, e) ==
  /\ req[r].rows[e].status = "verified"
  /\ BeginEffectAttemptOK(e, "commit", req[r].token)

NextEffectOK(r, e) ==
  /\ req[r].rows[e].status = "verified"
  /\ DependsOn[e] \subseteq req[r].done
  /\ BeginEffectAttemptOK(e, "commit", req[r].token)

NextEffect(r) ==
  /\ At(r, "next")
  /\ \/ req[r].todo = {} /\ Goto(r, "finalize") /\ UNCHANGED ledgerVars
     \/ LET e == First(req[r].todo) IN
        /\ req[r].todo # {}
        /\ \/ /\ NextEffectOK(r, e)
              /\ BeginEffectAttempt(e, "commit", req[r].token)
              /\ req' = [req EXCEPT ![r].pc = "check", ![r].effect = e]
           \/ Refused(NextEffectOK(r, e)) /\ Fail(r) /\ UNCHANGED ledgerVars
  /\ UNCHANGED worldVars

\* Mutant: a message is never found again.
FoundMutant(e) == Kind[e] # "slack" /\ copies[e] > 0

\* The adapters' Status: is the effect at the provider?
Found(e) == copies[e] > 0

\* The receipt a status query returns: the lowest matching pull request, the
\* newest matching message, the branch itself.
Observed(e) == IF Kind[e] = "slack" THEN copies[e] ELSE 1

\* The reads each adapter makes after the intent is durable and before it
\* mutates: freshness (pull request), then status.
CheckProvider(r) ==
  LET e == req[r].effect
      stale == PreflightStale(e, req[r].rows[e].doc)
  IN
  /\ At(r, "check")
  /\ \/ "provider" \in Faults /\ Goto(r, "unknown")
     \/ stale /\ Goto(r, "definite")
     \/ /\ ~stale /\ Found(e)
        /\ req' = [req EXCEPT ![r].pc = "receipt", ![r].answer = Observed(e)]
     \/ ~stale /\ ~Found(e) /\ Goto(r, "post")
  /\ UNCHANGED <<ledgerVars, worldVars>>

\* A branch is pushed create-only; the other providers create again.
Applicable(e) == Kind[e] = "branch" => copies[e] = 0 /\ e \notin taken

\* Mutant: every failed call is taken for a rejection.
PostEffectMutant(r) ==
  LET e == req[r].effect IN
  /\ At(r, "post")
  /\ copies' = [copies EXCEPT ![e] = @ + 1]
  /\ Goto(r, "definite")
  /\ UNCHANGED <<ledgerVars, workspace, checked, patchFile, integration,
                 intRef, moved, version, taken, late, attempts, owner>>

\* Publish, Create or Post.  The call may be applied and answered, be applied
\* and its answer lost, be lost, still be on its way, be rejected, or be
\* applied and answered with a server error, which the adapters take for a
\* rejection; a push that fails is always ambiguous.
PostEffect(r) ==
  LET e == req[r].effect IN
  /\ At(r, "post")
  /\ \/ /\ Applicable(e)
        /\ copies' = [copies EXCEPT ![e] = @ + 1]
        /\ \/ req' = [req EXCEPT ![r].pc = "receipt", ![r].answer = copies[e] + 1]
           \/ "provider" \in Faults /\ Goto(r, "unknown")
        /\ UNCHANGED late
     \/ /\ "provider" \in Faults \/ ~Applicable(e)
        /\ Goto(r, "unknown") /\ UNCHANGED <<copies, late>>
     \/ /\ "late" \in Faults
        /\ Goto(r, "unknown")
        /\ late' = [late EXCEPT ![e] = @ + 1] /\ UNCHANGED copies
     \/ /\ "provider" \in Faults /\ Kind[e] # "branch"
        /\ Goto(r, "definite") /\ UNCHANGED <<copies, late>>
     \/ /\ "server_error" \in Faults /\ Kind[e] # "branch"
        /\ copies' = [copies EXCEPT ![e] = @ + 1]
        /\ Goto(r, "definite") /\ UNCHANGED late
  /\ UNCHANGED <<ledgerVars, workspace, checked, patchFile, integration,
                 intRef, moved, version, taken, attempts, owner>>

RecordReceipt(r) ==
  LET e == req[r].effect IN
  /\ At(r, "receipt")
  /\ \/ /\ RecordEffectCommitted(e, req[r].token, req[r].answer)
        /\ req' = [req EXCEPT ![r].pc = "next", ![r].effect = None,
                              ![r].answer = None, ![r].todo = @ \ {e},
                              ![r].done = @ \cup {e}]
     \/ /\ Refused(RecordEffectCommittedOK(e, req[r].token, req[r].answer))
        /\ Goto(r, "mark_effect") /\ UNCHANGED ledgerVars
  /\ UNCHANGED worldVars

\* effectUnknown and effectDefiniteFailure, first half.
EffectUnknown(r) ==
  /\ At(r, "unknown")
  /\ \/ MarkEffectUnknown(req[r].effect, req[r].token)
     \/ Refused(Fenced(req[r].token)) /\ UNCHANGED ledgerVars
  /\ Goto(r, "mark_effect")
  /\ UNCHANGED worldVars

EffectDefiniteFailure(r) ==
  /\ At(r, "definite")
  /\ \/ MarkEffectDefiniteFailure(req[r].effect, req[r].token)
     \/ Refused(Fenced(req[r].token)) /\ UNCHANGED ledgerVars
  /\ Goto(r, "mark_effect")
  /\ UNCHANGED worldVars

\* Second half, and recordReceipt's error path.
MarkEffect(r) ==
  /\ At(r, "mark_effect")
  /\ TryMark
  /\ Fail(r)
  /\ UNCHANGED worldVars
-----------------------------------------------------------------------------
(* Recover.                                                                *)

RecoverStart(r) ==
  /\ Asked(r, "recover") /\ attempts < MaxAttempts
  /\ \/ status = "committing" /\ MarkNeedsReconciliation
     \/ status = "needs_reconciliation" /\ UNCHANGED ledgerVars
  /\ attempts' = attempts + 1
  /\ Start(r, "recover", "lease")
  /\ UNCHANGED <<workspace, checked, patchFile, integration, intRef, moved,
                 version, taken, copies, late, owner>>

\* reconcileExternalEffects: effects that may have been released are asked
\* about, one by one; the others only count.
ReloadEffects(r) ==
  /\ At(r, "reload")
  /\ req' = [req EXCEPT ![r].pc = "query", ![r].rows = effects,
                        ![r].todo = {e \in Effect : effects[e].status \in {"unknown", "committing"}},
                        ![r].any = \E e \in Effect : effects[e].status = "committed",
                        ![r].all = \A e \in Effect : effects[e].status # "verified"]
  /\ UNCHANGED <<ledgerVars, worldVars>>

QueryNext(r) ==
  /\ At(r, "query")
  /\ \/ req[r].todo = {} /\ Goto(r, "decide") /\ UNCHANGED ledgerVars
     \/ LET e == First(req[r].todo) IN
        /\ req[r].todo # {}
        /\ \/ /\ BeginEffectAttempt(e, "status", req[r].token)
              /\ req' = [req EXCEPT ![r].pc = "ask", ![r].effect = e]
           \/ /\ Refused(BeginEffectAttemptOK(e, "status", req[r].token))
              /\ End(r) /\ UNCHANGED ledgerVars
  /\ UNCHANGED worldVars

\* The status query, and what its answer leads to.
AskProvider(r) ==
  LET e == req[r].effect IN
  /\ At(r, "ask")
  /\ \/ "provider" \in Faults /\ Goto(r, "still_unknown")
     \/ e \in taken /\ Goto(r, "manual")
     \/ /\ e \notin taken /\ Found(e)
        /\ req' = [req EXCEPT ![r].pc = "found", ![r].answer = Observed(e)]
     \/ e \notin taken /\ ~Found(e) /\ Goto(r, "rearm")
  /\ UNCHANGED <<ledgerVars, worldVars>>

\* Mutant: the query is repeated until the provider answers.
StillUnknownMutant(r) ==
  /\ At(r, "still_unknown")
  /\ Goto(r, "ask")
  /\ UNCHANGED <<ledgerVars, worldVars>>

\* The query failed: the outcome stays unknown and recovery gives up.
StillUnknown(r) ==
  /\ At(r, "still_unknown")
  /\ \/ MarkEffectUnknown(req[r].effect, req[r].token)
     \/ Refused(Fenced(req[r].token)) /\ UNCHANGED ledgerVars
  /\ End(r)
  /\ UNCHANGED worldVars

Rearm(r) ==
  LET e == req[r].effect IN
  /\ At(r, "rearm")
  /\ \/ /\ RearmEffect(e, req[r].token)
        /\ req' = [req EXCEPT ![r].pc = "query", ![r].effect = None,
                              ![r].todo = @ \ {e}, ![r].all = FALSE]
     \/ Refused(Fenced(req[r].token)) /\ End(r) /\ UNCHANGED ledgerVars
  /\ UNCHANGED worldVars

RecordFound(r) ==
  LET e == req[r].effect IN
  /\ At(r, "found")
  /\ \/ /\ RecordEffectCommitted(e, req[r].token, req[r].answer)
        /\ req' = [req EXCEPT ![r].pc = "query", ![r].effect = None,
                              ![r].answer = None, ![r].todo = @ \ {e},
                              ![r].any = TRUE]
     \/ /\ Refused(RecordEffectCommittedOK(e, req[r].token, req[r].answer))
        /\ Goto(r, "mark_effect") /\ UNCHANGED ledgerVars
  /\ UNCHANGED worldVars

\* What the evidence allows: finish, go on, give up, or start over.
Decision(r) ==
  LET q == req[r] IN
  IF q.exists /\ q.all THEN "finalize"
  ELSE IF q.exists /\ q.any THEN "load"
  ELSE IF q.any THEN "manual"
  ELSE IF ~Pinned THEN "to_stale" ELSE "to_ready"

Decide(r) ==
  /\ At(r, "decide")
  /\ \/ Goto(r, Decision(r))
     \/ Decision(r) \in {"to_stale", "to_ready"} /\ "git" \in Faults /\ End(r)
  /\ UNCHANGED <<ledgerVars, worldVars>>

\* The decision is applied later, on the status alone: Transition looks at
\* neither the lease nor the effects.
Conclude(r) ==
  /\ \/ At(r, "manual") /\ TryTransition("needs_reconciliation", "manual_intervention", FALSE)
     \/ At(r, "to_ready") /\ TryTransition("needs_reconciliation", "ready", FALSE)
     \/ At(r, "to_stale") /\ TryTransition("needs_reconciliation", "stale", TRUE)
  /\ End(r)
  /\ UNCHANGED worldVars

-----------------------------------------------------------------------------
(* Abort, also what transactionexpiry runs on an expired transaction.      *)

AbortStart(r) ==
  /\ Asked(r, "abort")
  /\ status \in Abortable
  /\ req' = [req EXCEPT ![r].op = "abort", ![r].pc = "abort_check",
                        ![r].from = status]
  /\ UNCHANGED <<ledgerVars, worldVars>>

AbortCheck(r) ==
  /\ At(r, "abort_check")
  /\ IF \E e \in Effect : effects[e].status \in {"committed", "committing", "unknown"}
     THEN End(r) ELSE Goto(r, "aborting")
  /\ UNCHANGED <<ledgerVars, worldVars>>

AbortBegin(r) ==
  /\ At(r, "aborting")
  /\ \/ Transition(req[r].from, "aborting", TRUE) /\ Goto(r, "abort_effects")
     \/ Refused(status = req[r].from) /\ End(r) /\ UNCHANGED ledgerVars
  /\ UNCHANGED worldVars

\* Mutant: the request returns before the last transition.
AbortEffectsMutant(r) ==
  /\ At(r, "abort_effects")
  /\ AbortPreparedEffects
  /\ End(r)
  /\ UNCHANGED worldVars

AbortEffects(r) ==
  /\ At(r, "abort_effects")
  /\ \/ AbortPreparedEffects /\ Goto(r, "remove")
     \/ Refused(status = "aborting") /\ End(r) /\ UNCHANGED ledgerVars
  /\ UNCHANGED worldVars

\* Staging.Abort: the working copy goes, and Git forgets worktrees whose
\* directory is gone.
AbortWorkspace(r) ==
  /\ At(r, "remove")
  /\ workspace' = None
  /\ integration' = IF integration = "registered" THEN "clean" ELSE integration
  /\ Goto(r, "aborted")
  /\ UNCHANGED <<ledgerVars, checked, patchFile, intRef, moved, version, taken,
                 copies, late, attempts, owner>>

AbortEnd(r) ==
  /\ At(r, "aborted")
  /\ TryTransition("aborting", "aborted", TRUE)
  /\ End(r)
  /\ UNCHANGED worldVars

-----------------------------------------------------------------------------
(* The environment.                                                        *)

MoveSource ==
  /\ "move" \in Faults
  /\ moved' = ~moved
  /\ UNCHANGED <<ledgerVars, req, workspace, checked, patchFile, integration,
                 intRef, version, taken, copies, late, attempts, owner>>

\* Somebody pushes to the pull request's base, or takes the branch's name.
ChangeProvider(e) ==
  /\ "change" \in Faults
  /\ \/ /\ Kind[e] = "pr" /\ UNCHANGED taken
        /\ \E v \in Version \ {version[e]} : version' = [version EXCEPT ![e] = v]
     \/ /\ Kind[e] = "branch" /\ copies[e] = 0 /\ e \notin taken
        /\ taken' = taken \cup {e} /\ UNCHANGED version
  /\ UNCHANGED <<ledgerVars, req, workspace, checked, patchFile, integration,
                 intRef, moved, copies, late, attempts, owner>>

\* A call nobody waits for any more reaches the provider.
LandLate(e) ==
  /\ late[e] > 0
  /\ late' = [late EXCEPT ![e] = @ - 1]
  /\ copies' = IF Applicable(e) THEN [copies EXCEPT ![e] = @ + 1] ELSE copies
  /\ UNCHANGED <<ledgerVars, req, workspace, checked, patchFile, integration,
                 intRef, moved, version, taken, attempts, owner>>

\* The daemon dies and is started again under another or the same process
\* id: SQLite and Git keep what they were given, the requests are gone.
Crash ==
  /\ "crash" \in Faults
  /\ req' = [r \in Request |-> Idle]
  /\ owner' \in Coordinator
  /\ integration' = IF integration = "in_use" THEN "left" ELSE integration
  /\ UNCHANGED <<ledgerVars, workspace, checked, patchFile, intRef, moved,
                 version, taken, copies, late, attempts>>

\* Mutant: cleanup runs beside a live daemon.
LeaseTimeMutant ==
  /\ "expiry" \in Faults
  /\ ExpireLease \/ DeleteExpiredLeases
  /\ UNCHANGED <<req, worldVars>>

\* leasecleanup deletes expired leases only while it holds the daemon lock.
LeaseTime ==
  /\ "expiry" \in Faults
  /\ \/ ExpireLease
     \/ DeleteExpiredLeases /\ \A r \in Request : req[r] = Idle
  /\ UNCHANGED <<req, worldVars>>

-----------------------------------------------------------------------------
Init ==
  /\ LedgerInit
  /\ req = [r \in Request |-> Idle]
  /\ workspace = None /\ checked = None /\ patchFile = None
  /\ integration = "clean" /\ intRef = None /\ moved = FALSE
  /\ version = [e \in Effect |-> CHOOSE v \in Version : TRUE]
  /\ taken = {}
  /\ copies = [e \in Effect |-> 0] /\ late = [e \in Effect |-> 0]
  /\ attempts = 0 /\ owner \in Coordinator

Ask(r) ==
  \/ SealCapture(r) \/ VerifyStart(r) \/ CommitStart(r) \/ RecoverStart(r)
  \/ AbortStart(r)
  \/ \E e \in Effect : PrepareRead(r, e) \/ RefreshRead(r, e)

Step(r) ==
  \/ SealRecord(r) \/ VerifyChecks(r) \/ VerifyRecord(r)
  \/ PreparePersist(r) \/ RefreshPersist(r)
  \/ CommitPin(r) \/ Preflight(r) \/ MarkStale(r) \/ TakeLease(r) \/ CommitBegin(r)
  \/ Inspect(r) \/ AddWorktree(r) \/ PublishRef(r) \/ RecordRef(r)
  \/ LoadEffects(r) \/ NextEffect(r) \/ CheckProvider(r) \/ PostEffect(r)
  \/ RecordReceipt(r) \/ EffectUnknown(r) \/ EffectDefiniteFailure(r)
  \/ MarkEffect(r) \/ Mark(r) \/ Finalize(r)
  \/ ReloadEffects(r) \/ QueryNext(r) \/ AskProvider(r) \/ StillUnknown(r)
  \/ Rearm(r) \/ RecordFound(r) \/ Decide(r) \/ Conclude(r)
  \/ AbortCheck(r) \/ AbortBegin(r) \/ AbortEffects(r) \/ AbortWorkspace(r)
  \/ AbortEnd(r)

Environment ==
  \/ \E tree \in Tree : Edit(tree)
  \/ MoveSource \/ Crash \/ LeaseTime
  \/ \E e \in Effect : ChangeProvider(e) \/ LandLate(e)

Next ==
  \/ CreateTransaction \/ Approve \/ Environment
  \/ \E r \in Request : Ask(r) \/ Step(r)

Spec == Init /\ [][Next]_vars

\* A request runs in its own goroutine until it returns.
Fairness == \A r \in Request : WF_vars(Step(r))

FairSpec == Spec /\ Fairness

-----------------------------------------------------------------------------
(* Repository.Audit: the findings that are about a transaction's rows.     *)

Created == {e \in Effect : Exists(e)}
DependencyCycle ==
  \E S \in (SUBSET Created) \ {{}} : \A e \in S : DependsOn[e] \cap S # {}

Finding(code, found) == IF found THEN {code} ELSE {}
EffectIs(e, states) == effects[e].status \in states
Audit ==
  Finding("approval_binding", approval # None /\ approval.material # material)
  \cup Finding("committed_without_repository_ref",
               status = "committed" /\ materialized = None)
  \cup Finding("committed_effect_without_receipt",
               \E e \in Effect : EffectIs(e, {"committed"}) /\ receipts[e] = None)
  \cup Finding("receipt_state_mismatch",
               \E e \in Created : receipts[e] # None /\ ~EffectIs(e, {"committed"}))
  \cup Finding("unknown_effect_without_reconciliation",
               /\ status \notin {"needs_reconciliation", "manual_intervention"}
               /\ \E e \in Effect : EffectIs(e, {"unknown"}))
  \cup Finding("terminal_transaction_with_live_effect",
               /\ status \in {"committed", "aborted"}
               /\ \E e \in Effect : EffectIs(e, {"verified", "committing", "unknown"}))
  \cup Finding("effect_dependency_cycle", DependencyCycle)

-----------------------------------------------------------------------------
(* Properties.                                                             *)

\* Requests and world keep their shape.
ServiceTypeOK ==
  /\ LedgerTypeOK
  /\ \A r \in Request :
       /\ req[r].todo \subseteq Effect /\ req[r].done \subseteq Effect
       /\ req[r].effect \in Effect \cup {None}
       /\ req[r].token \in 0 .. MaxToken
       /\ req[r].rows \in [Effect -> EffectRow]
  /\ workspace \in Tree \cup {None} /\ checked \in Tree \cup {None}
  /\ patchFile \in Tree \cup {None} /\ intRef \in Tree \cup {None}
  /\ integration \in {"clean", "in_use", "left", "registered"}
  /\ version \in [Effect -> Version] /\ taken \subseteq Effect
  /\ copies \in [Effect -> Nat] /\ late \in [Effect -> Nat]
  /\ attempts \in 0 .. MaxAttempts /\ owner \in Coordinator

\* A transaction reported as committed is really out: the safe branch exists
\* with the sealed tree, and every effect was applied at its provider and has
\* its receipt.
CommittedIsReleased ==
  status = "committed" =>
    /\ intRef # None /\ intRef = patch
    /\ \A e \in Effect : Exists(e) => copies[e] > 0 /\ receipts[e] # None

\* "The coordinator releases an effect only after all dependencies have
\* committed receipts": whatever reached a provider, in whatever order
\* answers, crashes and retries came, its dependencies reached theirs and are
\* on record.
DependencyOrder ==
  \A e \in Effect : copies[e] + late[e] > 0 =>
    \A d \in DependsOn[e] : copies[d] > 0 /\ receipts[d] # None

\* The safe branch appears once, while the transaction is committing and
\* carries an approval of exactly the tree that appears.
PublishedUnderApproval ==
  [][intRef' # intRef =>
       /\ intRef = None /\ status = "committing"
       /\ approval # None /\ approval.patch = intRef']_vars

\* An effect the provider applied is never on record as merely prepared: at
\* every instant, crashes and lost answers included, its row says that it may
\* have happened.
NoForgottenRelease ==
  \A e \in Effect : copies[e] > 0 =>
    effects[e].status \in {"committing", "unknown", "committed"}

\* "A blind duplicate mutation is prohibited": no effect is applied twice.
AtMostOnce == \A e \in Effect : copies[e] <= 1

\* An aborted transaction released nothing to any provider.
AbortedUnreleased ==
  status \in {"aborting", "aborted"} => \A e \in Effect : copies[e] = 0

\* The program's own audit (ledger/audit.go) finds nothing wrong, whenever it is
\* run, but for one thing it can be too early to ask: an unknown effect whose
\* transaction is still committing, as every crash before the mark leaves it.
AuditIsClean ==
  Audit \subseteq IF status = "committing" THEN {"unknown_effect_without_reconciliation"}
                  ELSE {}

\* What the ledger says of a transaction is what happened at the providers, at
\* every instant: out when committed, not out when aborted, and possibly out
\* whenever it is; and its tables agree with each other.
OutcomeIsHonest ==
  CommittedIsReleased /\ AbortedUnreleased /\ NoForgottenRelease /\ AuditIsClean

\* No two requests in progress hold the same fencing token, although lease
\* cleanup starts the numbering again.
TokenExclusive ==
  \A r, q \in Request :
    r # q /\ req[r].token > 0 => req[r].token # req[q].token

\* "Manual intervention required: external effect committed but repository
\* ref is absent", or a branch conflict: nothing else ends a transaction there.
ManualMeansAbsent ==
  status = "manual_intervention" => intRef = None \/ taken # {}

\* "The patch is frozen before approval": the stored patch is the sealed one.
PatchFrozen == patch # None /\ status # "aborted" => patchFile = patch

\* "Verification runs against the transaction material that is about to be
\* approved": the checks that made a transaction ready ran on the sealed tree.
VerifiedTreeIsSealed == status = "ready" => checked = patch

\* "VerificationMaterial binds deterministic verification to both the exact
\* repository patch and every prepared external-effect": what was verified is
\* what is about to be approved.
VerificationCurrent ==
  status = "ready" => verification.material = VerificationMaterial

\* A transaction does not stay in "committing": its request commits it or
\* hands it to reconciliation.
CommitSettles == status = "committing" ~> status # "committing"

\* Every request returns, whatever it meets on the way.
RequestsEnd == \A r \in Request : req[r] # Idle ~> req[r] = Idle

\* "Every nonterminal transaction state has an exit": an abort that began is
\* carried through.
AbortCompletes == status = "aborting" ~> status = "aborted"
=============================================================================
