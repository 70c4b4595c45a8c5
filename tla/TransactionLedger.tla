------------------------- MODULE TransactionLedger -------------------------
(***************************************************************************)
(* The durable record of one transaction: the rows internal/ledger keeps   *)
(* in SQLite for it and the repository methods that change them.  Every    *)
(* method runs inside DB.WithTx, which holds the connection mutex and an   *)
(* immediate SQL transaction, so every method is one atomic action.  A     *)
(* method that returns an error changes nothing: its conditions are the    *)
(* guard of the action, named XOK where a caller acts on the failure.      *)
(*                                                                         *)
(* The specification at the end lets any caller call any method at any     *)
(* time, with the arguments that appear at the call sites of internal/app. *)
(* What holds here holds however the requests of the service interleave.   *)
(***************************************************************************)
EXTENDS Naturals, FiniteSets

CONSTANTS
  Effect,        \* the external effects a client may prepare
  DependsOn,     \* Effect -> the effects it declares as dependencies
  Tree,          \* contents the staged Git tree can have
  Version,       \* versions of a provider resource a preparation can bind
  CheckResults,  \* the result sets a verification run can end with
  Receipt,       \* provider answers: request digest and resource identity
  Coordinator,   \* owners that can ask for the transaction's lease
  None,          \* SQL NULL, and an absent row
  MaxMaterial,   \* bound on material_revision
  MaxToken       \* bound on the lease's fencing token

ASSUME EffectAssumption == DependsOn \in [Effect -> SUBSET Effect]
ASSUME NoneAssumption ==
  None \notin Tree \cup Version \cup Receipt \cup Coordinator
ASSUME BoundAssumption == MaxMaterial \in Nat /\ MaxToken \in Nat

VARIABLES
  status,        \* transactions.status
  material,      \* transactions.material_revision
  approval,      \* transactions.approval_digest
  patch,         \* staged_patches: the sealed tree
  verification,  \* the newest row of verification_runs
  effects,       \* effects and effect_documents: status and prepared version
  receipts,      \* receipts: one per effect
  materialized,  \* materialized_repository_refs: the recorded tree
  lease          \* leases: owner, fencing token and whether it still runs

ledgerVars == <<status, material, approval, patch, verification, effects,
                receipts, materialized, lease>>

L == INSTANCE TransactionLifecycle WITH state <- status

-----------------------------------------------------------------------------
(* Rows.                                                                   *)

EffectState == {"absent", "verified", "committing", "committed", "unknown",
                "aborted"}
EffectRow == [status : EffectState, doc : Version \cup {None}]
NoEffect == [status |-> "absent", doc |-> None]

\* A digest is injective, so it is modelled by what it is computed from.
VerificationDigest == [patch : Tree, docs : [Effect -> Version \cup {None}]]
Outcome == {"pass", "fail", "error"}
VerificationRun == [material : VerificationDigest, outcome : Outcome]
ApprovalDigest == [material : Nat, patch : Tree,
                   verification : VerificationRun, effects : [Effect -> EffectRow]]
Lease == [owner : Coordinator \cup {None}, token : Nat, live : BOOLEAN]
NoLease == [owner |-> None, token |-> 0, live |-> FALSE]

Exists(e) == effects[e].status # "absent"

-----------------------------------------------------------------------------
(* Digests and outcomes the methods compute.                               *)

\* VerificationMaterial: the patch and every prepared effect's document.
VerificationMaterial ==
  [patch |-> patch,
   docs  |-> [e \in Effect |->
                IF effects[e].status \in {"absent", "aborted"}
                THEN None ELSE effects[e].doc]]

\* Mutant: the digest leaves the external effects out.
ApprovalMaterialMutant ==
  [material |-> material, patch |-> patch, verification |-> verification,
   effects |-> [e \in Effect |-> NoEffect]]

\* approvalMaterialWith: what an operator approves.
ApprovalMaterial ==
  [material |-> material, patch |-> patch,
   verification |-> verification, effects |-> effects]

\* Every effect the transaction has is verified or already committed.
CommitReady ==
  \A e \in Effect : Exists(e) => effects[e].status \in {"verified", "committed"}

\* verificationOutcome: recalculated from the required checks only.
VerificationOutcome(results) ==
  LET required == {r \in results : r.required}
  IN  IF required = {} \/ \E r \in required : r.status \in {"error", "cancelled"}
      THEN "error"
      ELSE IF \A r \in required : r.status = "pass" THEN "pass" ELSE "fail"

-----------------------------------------------------------------------------
(* Transactions.                                                           *)

LedgerInit ==
  /\ status = "none"
  /\ material = 0
  /\ approval = None
  /\ patch = None
  /\ verification = None
  /\ effects = [e \in Effect |-> NoEffect]
  /\ receipts = [e \in Effect |-> None]
  /\ materialized = None
  /\ lease = NoLease

\* Create: the row is inserted and activated in one SQL transaction.
Create ==
  /\ status = "none"
  /\ status' = "active"
  /\ UNCHANGED <<material, approval, patch, verification, effects, receipts,
                 materialized, lease>>

\* Transition: a compare-and-set on the status along an edge of the graph.
\* No call site passes materialChanged.
Transition(expected, next, invalidateApproval) ==
  /\ L!CanTransition(expected, next)
  /\ status = expected
  /\ status' = next
  /\ approval' = IF invalidateApproval THEN None ELSE approval
  /\ UNCHANGED <<material, patch, verification, effects, receipts,
                 materialized, lease>>

\* MarkNeedsReconciliation: Transition from whatever the status is; only
\* "committing" has that edge among the states the code reaches.
MarkNeedsReconciliation ==
  Transition(status, "needs_reconciliation", FALSE)

RecordPatchOK == status = "active" /\ patch = None

\* RecordPatch: seals the captured tree.
RecordPatch(tree) ==
  /\ RecordPatchOK
  /\ material < MaxMaterial
  /\ patch' = tree
  /\ status' = "sealed"
  /\ material' = material + 1
  /\ approval' = None
  /\ UNCHANGED <<verification, effects, receipts, materialized, lease>>

RecordVerificationOK == status \in {"sealed", "stale"}

\* RecordVerification: stores the digest the caller verified against, which
\* may be older than the current material.
RecordVerification(digest, results) ==
  /\ RecordVerificationOK
  /\ verification' = [material |-> digest,
                      outcome  |-> VerificationOutcome(results)]
  /\ status' = IF VerificationOutcome(results) = "pass"
               THEN "ready" ELSE "failed_verification"
  /\ approval' = None
  /\ UNCHANGED <<material, patch, effects, receipts, materialized, lease>>

\* ApproveWithEvidence: accepts only the digest of the current material.
ApproveWithEvidence(digest) ==
  /\ status = "ready"
  /\ patch # None /\ verification # None /\ CommitReady
  /\ digest = ApprovalMaterial
  /\ approval' = digest
  /\ UNCHANGED <<status, material, patch, verification, effects, receipts,
                 materialized, lease>>

\* Mutant: a transaction without approval matches an empty digest.
BeginCommitOKMutant(digest) == status = "ready" /\ approval = digest /\ CommitReady

\* Mutant: the status is not looked at.
BeginCommitOKMutant2(digest) ==
  approval # None /\ approval = digest /\ CommitReady

BeginCommitOK(digest) ==
  /\ status = "ready"
  /\ approval # None /\ approval = digest
  /\ CommitReady

\* BeginCommit.
BeginCommit(digest) ==
  /\ BeginCommitOK(digest)
  /\ status' = "committing"
  /\ UNCHANGED <<material, approval, patch, verification, effects, receipts,
                 materialized, lease>>

CommitPhase == status \in {"committing", "needs_reconciliation"}

RecordMaterializedRefOK(tree) ==
  CommitPhase /\ materialized \in {None, tree}

\* RecordMaterializedRef: INSERT OR IGNORE, then the stored row must agree.
RecordMaterializedRef(tree) ==
  /\ RecordMaterializedRefOK(tree)
  /\ materialized' = tree
  /\ UNCHANGED <<status, material, approval, patch, verification, effects,
                 receipts, lease>>

\* Mutant: the repository receipt is not required.
FinalizeOKMutant ==
  CommitPhase /\ \A e \in Effect : Exists(e) => effects[e].status = "committed"

FinalizeOK ==
  /\ CommitPhase
  /\ materialized # None
  /\ \A e \in Effect : Exists(e) => effects[e].status = "committed"

\* FinalizeTransactionCommit.
FinalizeTransactionCommit ==
  /\ FinalizeOK
  /\ status' = "committed"
  /\ UNCHANGED <<material, approval, patch, verification, effects, receipts,
                 materialized, lease>>

-----------------------------------------------------------------------------
(* External effects.                                                       *)

CreateExternalEffectOK(e) ==
  /\ status \in {"active", "sealed"}
  /\ ~Exists(e)
  /\ e \notin DependsOn[e]
  /\ \A d \in DependsOn[e] : Exists(d)

\* Mutant: the effect is stored in a state nothing handles.
CreateExternalEffectMutant(e, doc) ==
  /\ CreateExternalEffectOK(e)
  /\ material < MaxMaterial
  /\ effects' = [effects EXCEPT ![e] = [status |-> "prepared", doc |-> doc]]
  /\ material' = material + 1
  /\ approval' = None
  /\ UNCHANGED <<status, patch, verification, receipts, materialized, lease>>

\* CreateExternalEffect: a new effect is durable only once verified.
CreateExternalEffect(e, doc) ==
  /\ CreateExternalEffectOK(e)
  /\ material < MaxMaterial
  /\ effects' = [effects EXCEPT ![e] = [status |-> "verified", doc |-> doc]]
  /\ material' = material + 1
  /\ approval' = None
  /\ UNCHANGED <<status, patch, verification, receipts, materialized, lease>>

\* Mutant: a ready transaction can be refreshed as well.
RefreshExternalEffectOKMutant(e) ==
  /\ status \in {"active", "stale", "ready"}
  /\ effects[e].status \in {"verified", "unknown"}

RefreshExternalEffectOK(e) ==
  /\ status \in {"active", "stale"}
  /\ effects[e].status \in {"verified", "unknown"}

\* RefreshExternalEffect: rebinds the effect to a new resource version.
RefreshExternalEffect(e, doc) ==
  /\ RefreshExternalEffectOK(e)
  /\ material < MaxMaterial
  /\ effects' = [effects EXCEPT ![e] = [status |-> "verified", doc |-> doc]]
  /\ material' = material + 1
  /\ approval' = None
  /\ UNCHANGED <<status, patch, verification, receipts, materialized, lease>>

AcquireLeaseOK(owner) ==
  lease.owner = None \/ lease.owner = owner \/ ~lease.live

\* AcquireLease: the owner itself may always acquire again, which fences the
\* token it was given before.
AcquireLease(owner) ==
  /\ AcquireLeaseOK(owner)
  /\ lease.token < MaxToken
  /\ lease' = [owner |-> owner, token |-> lease.token + 1, live |-> TRUE]
  /\ UNCHANGED <<status, material, approval, patch, verification, effects,
                 receipts, materialized>>

\* The lease's time to live runs out.
ExpireLease ==
  /\ lease.live
  /\ lease' = [lease EXCEPT !.live = FALSE]
  /\ UNCHANGED <<status, material, approval, patch, verification, effects,
                 receipts, materialized>>

\* DeleteExpiredLeases: the row goes, and its fencing token with it.
DeleteExpiredLeases ==
  /\ lease.owner # None /\ ~lease.live
  /\ lease' = NoLease
  /\ UNCHANGED <<status, material, approval, patch, verification, effects,
                 receipts, materialized>>

\* validateFencing.
Fenced(token) == lease.owner # None /\ lease.token = token /\ lease.live

\* Only the effect's status changes.
SetEffectStatus(e, next) ==
  /\ effects' = [effects EXCEPT ![e].status = next]
  /\ UNCHANGED <<status, material, approval, patch, verification, receipts,
                 materialized, lease>>

BeginEffectAttemptOK(e, phase, token) ==
  /\ Fenced(token)
  /\ CommitPhase
  /\ effects[e].status \in
       IF phase = "commit" THEN {"verified"} ELSE {"unknown", "committing"}

\* BeginEffectAttempt: the write-ahead intent; a status attempt leaves the
\* effect as it is.
BeginEffectAttempt(e, phase, token) ==
  /\ BeginEffectAttemptOK(e, phase, token)
  /\ SetEffectStatus(e, IF phase = "commit" THEN "committing"
                        ELSE effects[e].status)

\* MarkEffectUnknown, MarkEffectDefiniteFailure and RearmEffect look at the
\* fencing token only, not at the effect's or the transaction's status.
MarkEffectUnknown(e, token) ==
  Exists(e) /\ Fenced(token) /\ SetEffectStatus(e, "unknown")

MarkEffectDefiniteFailure(e, token) ==
  Exists(e) /\ Fenced(token) /\ SetEffectStatus(e, "verified")

RearmEffect(e, token) ==
  Exists(e) /\ Fenced(token) /\ SetEffectStatus(e, "verified")

\* Mutant: the stored receipt is not compared.
RecordEffectCommittedOKMutant(e, token, receipt) == Exists(e) /\ Fenced(token)

RecordEffectCommittedOK(e, token, receipt) ==
  /\ Exists(e) /\ Fenced(token)
  /\ receipts[e] \in {None, receipt}

\* RecordEffectCommitted: INSERT OR IGNORE, then the stored receipt must
\* agree with the provider's answer.
RecordEffectCommitted(e, token, receipt) ==
  /\ RecordEffectCommittedOK(e, token, receipt)
  /\ receipts' = [receipts EXCEPT ![e] = receipt]
  /\ effects' = [effects EXCEPT ![e].status = "committed"]
  /\ UNCHANGED <<status, material, approval, patch, verification,
                 materialized, lease>>

\* AbortPreparedEffects.
AbortPreparedEffects ==
  /\ status = "aborting"
  /\ effects' = [e \in Effect |->
                   IF effects[e].status = "verified"
                   THEN [effects[e] EXCEPT !.status = "aborted"]
                   ELSE effects[e]]
  /\ UNCHANGED <<status, material, approval, patch, verification, receipts,
                 materialized, lease>>

-----------------------------------------------------------------------------
(* Any caller, any time.                                                   *)

\* The states AbortWithReason aborts from.
Abortable == {"created", "active", "sealed", "failed_verification", "ready",
              "stale"}

\* The transitions the service asks for by name, with their
\* invalidateApproval argument.
NamedTransition ==
  \/ Transition("ready", "stale", TRUE)
  \/ Transition("needs_reconciliation", "ready", FALSE)
  \/ Transition("needs_reconciliation", "stale", TRUE)
  \/ Transition("needs_reconciliation", "manual_intervention", FALSE)
  \/ \E s \in Abortable : Transition(s, "aborting", TRUE)
  \/ Transition("aborting", "aborted", TRUE)

LedgerNext ==
  \/ Create
  \/ NamedTransition
  \/ MarkNeedsReconciliation
  \/ \E tree \in Tree : RecordPatch(tree) \/ RecordMaterializedRef(tree)
  \/ \E digest \in VerificationDigest, results \in CheckResults :
       RecordVerification(digest, results)
  \/ ApproveWithEvidence(ApprovalMaterial)
  \/ BeginCommit(approval)
  \/ FinalizeTransactionCommit
  \/ \E o \in Coordinator : AcquireLease(o)
  \/ ExpireLease
  \/ DeleteExpiredLeases
  \/ AbortPreparedEffects
  \/ \E e \in Effect, doc \in Version :
       CreateExternalEffect(e, doc) \/ RefreshExternalEffect(e, doc)
  \/ \E e \in Effect :
       \/ \E phase \in {"commit", "status"} :
            BeginEffectAttempt(e, phase, lease.token)
       \/ MarkEffectUnknown(e, lease.token)
       \/ MarkEffectDefiniteFailure(e, lease.token)
       \/ RearmEffect(e, lease.token)
       \/ \E receipt \in Receipt :
            RecordEffectCommitted(e, lease.token, receipt)

LedgerSpec == LedgerInit /\ [][LedgerNext]_ledgerVars

-----------------------------------------------------------------------------
(* Properties.                                                             *)

\* The rows keep the shape their columns and checks give them.
LedgerTypeOK ==
  /\ status \in L!TxState
  /\ material \in Nat
  /\ approval \in ApprovalDigest \cup {None}
  /\ patch \in Tree \cup {None}
  /\ verification \in VerificationRun \cup {None}
  /\ effects \in [Effect -> EffectRow]
  /\ receipts \in [Effect -> Receipt \cup {None}]
  /\ materialized \in Tree \cup {None}
  /\ lease \in Lease

\* "A later modification cannot silently reuse an earlier approval": while an
\* approval is on record the revision, the patch, the verification and every
\* effect's prepared document are the ones that were approved.
ApprovalCurrent ==
  approval # None =>
    /\ approval.material = material
    /\ approval.patch = patch
    /\ approval.verification = verification
    /\ \A e \in Effect :
         /\ approval.effects[e].doc = effects[e].doc
         /\ approval.effects[e].status = "absent" <=> ~Exists(e)

\* Release is gated: from BeginCommit on, recovery and its dead ends included,
\* the transaction carries an approval and a passing verification of a sealed
\* patch.
ReleaseGated ==
  status \in {"committing", "needs_reconciliation", "committed",
             "manual_intervention"} =>
    /\ approval # None
    /\ patch # None
    /\ verification # None /\ verification.outcome = "pass"

\* A committed status is never reported without its evidence: a committed
\* transaction has its repository receipt and a committed effect its
\* provider receipt.
CommittedHasEvidence ==
  /\ status = "committed" => materialized # None
  /\ \A e \in Effect : effects[e].status = "committed" => receipts[e] # None

\* Evidence is write-once: a sealed patch, a materialization record and a
\* provider receipt are never replaced, whoever retries.
EvidenceWriteOnce ==
  [][/\ patch # None => patch' = patch
     /\ materialized # None => materialized' = materialized
     /\ \A e \in Effect : receipts[e] # None => receipts'[e] = receipts[e]]_ledgerVars

\* The ledger moves the status only along the graph of the domain package.
LifecycleSpec == L!Spec
=============================================================================
