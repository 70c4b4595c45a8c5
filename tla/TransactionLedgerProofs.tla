---------------------- MODULE TransactionLedgerProofs ----------------------
(***************************************************************************)
(* Proofs about TransactionLedger, for every set of effects, trees,        *)
(* versions, receipts and coordinators and every bound: the invariants and *)
(* action properties the run ledger_methods checks on a small instance,    *)
(* and that the ledger implements TransactionLifecycle.                    *)
(***************************************************************************)
EXTENDS TransactionLedger, TLAPS

\* The states that the methods of the ledger reach.
Reached == {"none", "active", "sealed", "failed_verification", "ready",
            "stale", "committing", "needs_reconciliation", "committed",
            "manual_intervention", "aborting", "aborted"}

Released == {"committing", "needs_reconciliation", "committed",
             "manual_intervention"}

\* A transaction gets past verification only with a passing run on record,
\* and nothing replaces the run while it is there.
VerifiedBefore ==
  status \in Released \cup {"ready"} =>
    /\ verification \in VerificationRun
    /\ verification.outcome = "pass"

\* An approval is of something, and a released transaction keeps its own.
ApprovalHeld ==
  /\ approval # None => patch # None /\ verification # None
  /\ status \in Released => approval # None

\* The inductive invariant.
LedgerInv ==
  /\ LedgerTypeOK
  /\ ApprovalCurrent
  /\ CommittedHasEvidence
  /\ status \in Reached
  /\ VerifiedBefore
  /\ ApprovalHeld

-----------------------------------------------------------------------------
(* The initial state, and what the invariant gives.                        *)

\* The invariant holds of a ledger without the transaction's row.
LEMMA InitInv == LedgerInit => LedgerInv
<1> SUFFICES ASSUME LedgerInit PROVE LedgerInv
  OBVIOUS
<1>1. LedgerTypeOK
  BY DEF LedgerInit, LedgerTypeOK, L!TxState, EffectRow, NoEffect,
         EffectState, Lease, NoLease
<1>2. ApprovalCurrent /\ VerifiedBefore /\ ApprovalHeld
  BY DEF LedgerInit, ApprovalCurrent, VerifiedBefore, ApprovalHeld, Released
<1>3. CommittedHasEvidence
  BY DEF LedgerInit, CommittedHasEvidence, NoEffect
<1>4. status \in Reached
  BY DEF LedgerInit, Reached
<1> QED
  BY <1>1, <1>2, <1>3, <1>4 DEF LedgerInv

\* Being past BeginCommit shows an approval, a patch and a passing run.
LEMMA InvReleaseGated == LedgerInv => ReleaseGated
  BY DEF LedgerInv, ReleaseGated, VerifiedBefore, ApprovalHeld, Released

-----------------------------------------------------------------------------
(* One lemma per group of methods.                                         *)

\* A method that moves the status and at most clears the approval.
LEMMA StatusStep ==
  ASSUME LedgerInv,
         status' \in Reached,
         approval' \in {approval, None},
         UNCHANGED <<material, patch, verification, effects, receipts,
                     materialized, lease>>,
         status' \in Released \cup {"ready"} => status \in Released \cup {"ready"},
         status' \in Released => approval' # None,
         status' = "committed" => materialized # None
  PROVE  LedgerInv'
<1>1. LedgerTypeOK'
  BY DEF LedgerInv, LedgerTypeOK, L!TxState, Reached
<1>2. ApprovalCurrent'
  BY DEF LedgerInv, ApprovalCurrent, Exists
<1>3. CommittedHasEvidence'
  BY DEF LedgerInv, CommittedHasEvidence
<1>4. VerifiedBefore' /\ ApprovalHeld'
  BY DEF LedgerInv, VerifiedBefore, ApprovalHeld
<1> QED
  BY <1>1, <1>2, <1>3, <1>4 DEF LedgerInv

\* A method that rewrites the status of one effect that exists.
LEMMA EffectStatusStep ==
  ASSUME LedgerInv,
         NEW e \in Effect, NEW next \in EffectState,
         Exists(e), next # "absent",
         next = "committed" => receipts[e] # None,
         SetEffectStatus(e, next)
  PROVE  LedgerInv'
<1> DEFINE row == [effects[e] EXCEPT !.status = next]
<1>1. effects \in [Effect -> EffectRow] /\ row \in EffectRow
  BY DEF LedgerInv, LedgerTypeOK, EffectRow
<1>2. /\ effects' = [effects EXCEPT ![e] = row]
      /\ row.status = next /\ row.doc = effects[e].doc
  BY <1>1 DEF SetEffectStatus, EffectRow
<1> HIDE DEF row
<1>3. LedgerTypeOK'
  BY <1>1, <1>2 DEF LedgerInv, LedgerTypeOK, SetEffectStatus
<1>4. ApprovalCurrent'
  BY <1>1, <1>2 DEF LedgerInv, ApprovalCurrent, Exists, SetEffectStatus
<1>5. CommittedHasEvidence'
  BY <1>1, <1>2 DEF LedgerInv, CommittedHasEvidence, SetEffectStatus
<1>6. VerifiedBefore' /\ ApprovalHeld' /\ (status \in Reached)'
  BY DEF LedgerInv, VerifiedBefore, ApprovalHeld, SetEffectStatus
<1> QED
  BY <1>3, <1>4, <1>5, <1>6 DEF LedgerInv

\* A method that stores a verified effect with a new document.
LEMMA EffectDocumentStep ==
  ASSUME LedgerInv,
         NEW e \in Effect, NEW doc \in Version,
         status \notin Released,
         effects' = [effects EXCEPT ![e] = [status |-> "verified", doc |-> doc]],
         material' = material + 1,
         approval' = None,
         UNCHANGED <<status, patch, verification, receipts, materialized, lease>>
  PROVE  LedgerInv'
<1>1. [status |-> "verified", doc |-> doc] \in EffectRow
  BY DEF EffectRow, EffectState
<1>2. LedgerTypeOK'
  BY <1>1 DEF LedgerInv, LedgerTypeOK
<1>3. CommittedHasEvidence'
  BY DEF LedgerInv, LedgerTypeOK, CommittedHasEvidence
<1>4. ApprovalCurrent' /\ VerifiedBefore' /\ ApprovalHeld' /\ (status \in Reached)'
  BY DEF LedgerInv, ApprovalCurrent, VerifiedBefore, ApprovalHeld
<1> QED
  BY <1>2, <1>3, <1>4 DEF LedgerInv

\* A method that touches the lease only.
LEMMA LeaseStep ==
  ASSUME LedgerInv,
         lease' \in Lease,
         UNCHANGED <<status, material, approval, patch, verification, effects,
                     receipts, materialized>>
  PROVE  LedgerInv'
  BY DEF LedgerInv, LedgerTypeOK, ApprovalCurrent, CommittedHasEvidence,
         VerifiedBefore, ApprovalHeld, Exists

\* Every method preserves the invariant.
LEMMA NextInv == LedgerInv /\ [LedgerNext]_ledgerVars => LedgerInv'
<1> SUFFICES ASSUME LedgerInv, [LedgerNext]_ledgerVars PROVE LedgerInv'
  OBVIOUS
<1> USE DEF Reached, Released
<1>1. CASE Create
  BY <1>1, StatusStep DEF Create
<1>2. CASE NamedTransition
  <2>1. CASE Transition("needs_reconciliation", "manual_intervention", FALSE)
    BY <2>1, StatusStep DEF Transition, LedgerInv, ApprovalHeld
  <2>2. ASSUME NEW from, Transition(from, "aborting", TRUE)
        PROVE  LedgerInv'
    BY <2>2, StatusStep DEF Transition
  <2>3. CASE \/ Transition("ready", "stale", TRUE)
             \/ Transition("needs_reconciliation", "ready", FALSE)
             \/ Transition("needs_reconciliation", "stale", TRUE)
             \/ Transition("aborting", "aborted", TRUE)
    BY <2>3, StatusStep DEF Transition
  <2> QED
    BY <1>2, <2>1, <2>2, <2>3 DEF NamedTransition
<1>3. CASE MarkNeedsReconciliation
  <2>1. status = "committing"
    BY <1>3 DEF MarkNeedsReconciliation, Transition, L!CanTransition,
                L!transactionTransitions, L!TxState, LedgerInv
  <2> QED
    BY <1>3, <2>1, StatusStep
       DEF MarkNeedsReconciliation, Transition, LedgerInv, ApprovalHeld
<1>4. ASSUME NEW tree \in Tree, RecordPatch(tree)
      PROVE  LedgerInv'
  <2>1. LedgerTypeOK'
    BY <1>4 DEF RecordPatch, LedgerInv, LedgerTypeOK, L!TxState
  <2>2. CommittedHasEvidence'
    BY <1>4 DEF RecordPatch, LedgerInv, CommittedHasEvidence
  <2>3. ApprovalCurrent' /\ VerifiedBefore' /\ ApprovalHeld'
    BY <1>4 DEF RecordPatch, ApprovalCurrent, VerifiedBefore, ApprovalHeld
  <2> QED
    BY <1>4, <2>1, <2>2, <2>3 DEF RecordPatch, LedgerInv
<1>5. ASSUME NEW tree \in Tree, RecordMaterializedRef(tree)
      PROVE  LedgerInv'
  <2>1. materialized' # None
    BY <1>5, NoneAssumption DEF RecordMaterializedRef
  <2> QED
    BY <1>5, <2>1
       DEF RecordMaterializedRef, LedgerInv, LedgerTypeOK, ApprovalCurrent,
           CommittedHasEvidence, VerifiedBefore, ApprovalHeld, Exists
<1>6. ASSUME NEW digest \in VerificationDigest, NEW results \in CheckResults,
             RecordVerification(digest, results)
      PROVE  LedgerInv'
  <2>1. VerificationOutcome(results) \in Outcome
    BY DEF VerificationOutcome, Outcome
  <2>2. verification' \in VerificationRun
    BY <1>6, <2>1 DEF RecordVerification, VerificationRun
  <2>3. verification'.outcome = VerificationOutcome(results)
    BY <1>6 DEF RecordVerification
  <2>4. LedgerTypeOK'
    BY <1>6, <2>2 DEF RecordVerification, LedgerInv, LedgerTypeOK, L!TxState
  <2>5. CommittedHasEvidence'
    BY <1>6 DEF RecordVerification, LedgerInv, CommittedHasEvidence
  <2>6. VerifiedBefore'
    BY <1>6, <2>2, <2>3 DEF RecordVerification, VerifiedBefore
  <2>7. ApprovalCurrent' /\ ApprovalHeld'
    BY <1>6 DEF RecordVerification, ApprovalCurrent, ApprovalHeld
  <2> QED
    BY <1>6, <2>4, <2>5, <2>6, <2>7 DEF RecordVerification, LedgerInv
<1>7. CASE ApproveWithEvidence(ApprovalMaterial)
  <2>1. ApprovalMaterial \in ApprovalDigest
    BY <1>7 DEF ApproveWithEvidence, ApprovalMaterial, ApprovalDigest,
                LedgerInv, LedgerTypeOK
  <2>2. LedgerTypeOK'
    BY <1>7, <2>1 DEF ApproveWithEvidence, LedgerInv, LedgerTypeOK
  <2>3. ApprovalCurrent'
    BY <1>7 DEF ApproveWithEvidence, ApprovalMaterial, ApprovalCurrent, Exists
  <2>4. CommittedHasEvidence' /\ VerifiedBefore' /\ ApprovalHeld'
    BY <1>7 DEF ApproveWithEvidence, LedgerInv, CommittedHasEvidence,
                VerifiedBefore, ApprovalHeld
  <2> QED
    BY <1>7, <2>2, <2>3, <2>4 DEF ApproveWithEvidence, LedgerInv
<1>8. CASE BeginCommit(approval)
  BY <1>8, StatusStep DEF BeginCommit, BeginCommitOK
<1>9. CASE FinalizeTransactionCommit
  BY <1>9, StatusStep
     DEF FinalizeTransactionCommit, FinalizeOK, CommitPhase, LedgerInv, ApprovalHeld
<1>10. ASSUME NEW o \in Coordinator, AcquireLease(o)
       PROVE  LedgerInv'
  BY <1>10, LeaseStep DEF AcquireLease, Lease, LedgerInv, LedgerTypeOK
<1>11. CASE ExpireLease
  BY <1>11, LeaseStep DEF ExpireLease, Lease, LedgerInv, LedgerTypeOK
<1>12. CASE DeleteExpiredLeases
  BY <1>12, LeaseStep DEF DeleteExpiredLeases, Lease, NoLease
<1>13. CASE AbortPreparedEffects
  <2>1. \A e \in Effect : effects[e] \in EffectRow
    BY DEF LedgerInv, LedgerTypeOK
  <2>2. \A e \in Effect :
          /\ effects'[e] \in EffectRow
          /\ effects'[e].doc = effects[e].doc
          /\ effects'[e].status # effects[e].status =>
               effects[e].status = "verified" /\ effects'[e].status = "aborted"
    BY <1>13, <2>1 DEF AbortPreparedEffects, EffectRow, EffectState
  <2>3. effects' \in [Effect -> EffectRow]
    BY <1>13, <2>2 DEF AbortPreparedEffects
  <2>4. LedgerTypeOK'
    BY <1>13, <2>3 DEF AbortPreparedEffects, LedgerInv, LedgerTypeOK
  <2>5. ApprovalCurrent'
    BY <1>13, <2>2 DEF AbortPreparedEffects, LedgerInv, ApprovalCurrent, Exists
  <2>6. CommittedHasEvidence'
    BY <1>13, <2>2 DEF AbortPreparedEffects, LedgerInv, CommittedHasEvidence
  <2>7. VerifiedBefore' /\ ApprovalHeld' /\ (status \in Reached)'
    BY <1>13 DEF AbortPreparedEffects, LedgerInv, VerifiedBefore, ApprovalHeld
  <2> QED
    BY <2>4, <2>5, <2>6, <2>7 DEF LedgerInv
<1>14. ASSUME NEW e \in Effect, NEW doc \in Version,
              CreateExternalEffect(e, doc) \/ RefreshExternalEffect(e, doc)
       PROVE  LedgerInv'
  BY <1>14, EffectDocumentStep
     DEF CreateExternalEffect, CreateExternalEffectOK, RefreshExternalEffect,
         RefreshExternalEffectOK
<1>15. ASSUME NEW e \in Effect, NEW phase \in {"commit", "status"},
              BeginEffectAttempt(e, phase, lease.token)
       PROVE  LedgerInv'
  <2>1. effects[e].status \in {"verified", "unknown", "committing"}
    BY <1>15 DEF BeginEffectAttempt, BeginEffectAttemptOK
  <2> QED
    BY <1>15, <2>1, EffectStatusStep DEF BeginEffectAttempt, Exists, EffectState
<1>16. ASSUME NEW e \in Effect,
              \/ MarkEffectUnknown(e, lease.token)
              \/ MarkEffectDefiniteFailure(e, lease.token)
              \/ RearmEffect(e, lease.token)
       PROVE  LedgerInv'
  BY <1>16, EffectStatusStep
     DEF MarkEffectUnknown, MarkEffectDefiniteFailure, RearmEffect, EffectState
<1>17. ASSUME NEW e \in Effect, NEW receipt \in Receipt,
              RecordEffectCommitted(e, lease.token, receipt)
       PROVE  LedgerInv'
  <2> DEFINE row == [effects[e] EXCEPT !.status = "committed"]
  <2>1. /\ effects \in [Effect -> EffectRow] /\ row \in EffectRow
        /\ row.doc = effects[e].doc /\ row.status = "committed"
    BY DEF LedgerInv, LedgerTypeOK, EffectRow, EffectState
  <2>2. effects' = [effects EXCEPT ![e] = row] /\ Exists(e)
    BY <1>17 DEF RecordEffectCommitted, RecordEffectCommittedOK
  <2> HIDE DEF row
  <2>3. receipts' \in [Effect -> Receipt \cup {None}] /\ receipts'[e] # None
    BY <1>17, NoneAssumption DEF RecordEffectCommitted, LedgerInv, LedgerTypeOK
  <2>4. LedgerTypeOK'
    BY <1>17, <2>1, <2>2, <2>3 DEF RecordEffectCommitted, LedgerInv, LedgerTypeOK
  <2>5. ApprovalCurrent'
    BY <1>17, <2>1, <2>2 DEF RecordEffectCommitted, LedgerInv, ApprovalCurrent, Exists
  <2>6. CommittedHasEvidence'
    BY <1>17, <2>1, <2>2, <2>3
       DEF RecordEffectCommitted, LedgerInv, LedgerTypeOK, CommittedHasEvidence
  <2>7. VerifiedBefore' /\ ApprovalHeld' /\ (status \in Reached)'
    BY <1>17 DEF RecordEffectCommitted, LedgerInv, VerifiedBefore, ApprovalHeld
  <2> QED
    BY <2>4, <2>5, <2>6, <2>7 DEF LedgerInv
<1>18. CASE UNCHANGED ledgerVars
  BY <1>18, LeaseStep DEF ledgerVars, LedgerInv, LedgerTypeOK
<1> QED
  BY <1>1, <1>2, <1>3, <1>4, <1>5, <1>6, <1>7, <1>8, <1>9, <1>10, <1>11,
     <1>12, <1>13, <1>14, <1>15, <1>16, <1>17, <1>18 DEF LedgerNext

-----------------------------------------------------------------------------
(* The theorems.                                                           *)

\* The rows keep their shape, whatever the callers of internal/ledger do.
THEOREM LedgerTypeCorrect == LedgerSpec => []LedgerTypeOK
<1>1. LedgerInv => LedgerTypeOK
  BY DEF LedgerInv
<1> QED
  BY <1>1, InitInv, NextInv, PTL DEF LedgerSpec

\* No sequence of ledger calls leaves an approval beside material other than
\* the material it approved.
THEOREM ApprovalNeverStale == LedgerSpec => []ApprovalCurrent
<1>1. LedgerInv => ApprovalCurrent
  BY DEF LedgerInv
<1> QED
  BY <1>1, InitInv, NextInv, PTL DEF LedgerSpec

\* BeginCommit is the only way past approval and verification, and no later
\* method takes the approval or the passing run away.
THEOREM ReleaseAlwaysGated == LedgerSpec => []ReleaseGated
  BY InvReleaseGated, InitInv, NextInv, PTL DEF LedgerSpec

\* A committed transaction has its repository receipt and a committed effect
\* its provider receipt.
THEOREM CommitAlwaysEvidenced == LedgerSpec => []CommittedHasEvidence
<1>1. LedgerInv => CommittedHasEvidence
  BY DEF LedgerInv
<1> QED
  BY <1>1, InitInv, NextInv, PTL DEF LedgerSpec

\* What EvidenceWriteOnce asks of one step.
EvidenceKept ==
  /\ patch # None => patch' = patch
  /\ materialized # None => materialized' = materialized
  /\ \A e \in Effect : receipts[e] # None => receipts'[e] = receipts[e]

\* RecordPatch, RecordMaterializedRef and RecordEffectCommitted compare first.
LEMMA StepKeepsEvidence == LedgerInv /\ [LedgerNext]_ledgerVars => EvidenceKept
<1> SUFFICES ASSUME LedgerInv, [LedgerNext]_ledgerVars PROVE EvidenceKept
  OBVIOUS
<1> USE DEF EvidenceKept
<1>1. ASSUME NEW tree \in Tree, RecordPatch(tree)
      PROVE  EvidenceKept
  BY <1>1 DEF RecordPatch, RecordPatchOK
<1>2. ASSUME NEW tree \in Tree, RecordMaterializedRef(tree)
      PROVE  EvidenceKept
  BY <1>2 DEF RecordMaterializedRef, RecordMaterializedRefOK
<1>3. ASSUME NEW e \in Effect, NEW receipt \in Receipt,
             RecordEffectCommitted(e, lease.token, receipt)
      PROVE  EvidenceKept
  BY <1>3 DEF RecordEffectCommitted, RecordEffectCommittedOK, LedgerInv, LedgerTypeOK
<1>4. CASE UNCHANGED <<patch, materialized, receipts>>
  BY <1>4
<1> QED
  BY <1>1, <1>2, <1>3, <1>4
     DEF LedgerNext, Create, NamedTransition, Transition, MarkNeedsReconciliation,
         RecordVerification, ApproveWithEvidence, BeginCommit,
         FinalizeTransactionCommit, AcquireLease, ExpireLease,
         DeleteExpiredLeases, AbortPreparedEffects, CreateExternalEffect,
         RefreshExternalEffect, BeginEffectAttempt, MarkEffectUnknown,
         MarkEffectDefiniteFailure, RearmEffect, SetEffectStatus, ledgerVars

\* Patches, materialization records and receipts are written once.
THEOREM EvidenceNeverReplaced == LedgerSpec => EvidenceWriteOnce
<1>1. LedgerInv /\ [LedgerNext]_ledgerVars => [EvidenceKept]_ledgerVars
  BY StepKeepsEvidence
<1> QED
  BY <1>1, InitInv, NextInv, PTL DEF LedgerSpec, EvidenceWriteOnce, EvidenceKept

\* Every method moves the status along the graph of the domain package, or
\* leaves it alone: the ledger implements TransactionLifecycle.
THEOREM LedgerImplementsLifecycle == LedgerSpec => LifecycleSpec
<1> USE DEF L!CanTransition, L!transactionTransitions, L!TxState
<1>1. LedgerInit => status = "none"
  BY DEF LedgerInit
<1>2. LedgerInv /\ [LedgerNext]_ledgerVars => [L!Next]_status
  <2> SUFFICES ASSUME LedgerInv, LedgerNext PROVE L!Next \/ UNCHANGED status
    BY DEF ledgerVars
  <2>1. CASE Create
    BY <2>1 DEF Create, L!Next, L!MoveTwice
  <2>2. ASSUME NEW from, NEW to, NEW drop, Transition(from, to, drop)
        PROVE  L!Next
    <3>1. status \in L!TxState
      BY DEF LedgerInv, LedgerTypeOK
    <3>2. L!CanTransition(status, to) /\ status' = to
      BY <2>2 DEF Transition
    <3>3. to \in L!TxState
      BY <3>1, <3>2
    <3> QED
      BY <3>2, <3>3 DEF L!Next, L!Move
  <2>3. ASSUME NEW tree \in Tree, RecordPatch(tree)
        PROVE  L!Next
    BY <2>3 DEF RecordPatch, RecordPatchOK, L!Next, L!Move
  <2>4. ASSUME NEW digest, NEW results, RecordVerification(digest, results)
        PROVE  L!Next
    BY <2>4 DEF RecordVerification, RecordVerificationOK, L!Next, L!MoveTwice
  <2>5. CASE BeginCommit(approval)
    BY <2>5 DEF BeginCommit, BeginCommitOK, L!Next, L!Move
  <2>6. CASE FinalizeTransactionCommit
    BY <2>6 DEF FinalizeTransactionCommit, FinalizeOK, CommitPhase, L!Next, L!Move
  <2>7. CASE UNCHANGED status
    BY <2>7
  <2> QED
    BY <2>1, <2>2, <2>3, <2>4, <2>5, <2>6, <2>7
       DEF LedgerNext, NamedTransition, MarkNeedsReconciliation, RecordMaterializedRef,
           ApproveWithEvidence, AcquireLease, ExpireLease,
           DeleteExpiredLeases, AbortPreparedEffects, CreateExternalEffect,
           RefreshExternalEffect, BeginEffectAttempt, MarkEffectUnknown,
           MarkEffectDefiniteFailure, RearmEffect, RecordEffectCommitted,
           SetEffectStatus
<1> QED
  BY <1>1, <1>2, InitInv, NextInv, PTL DEF LedgerSpec, LifecycleSpec, L!Spec
=============================================================================
