----------------------------- MODULE Operations -----------------------------
(***************************************************************************)
(* What surrounds a transaction, as machines over one state: the provider  *)
(* adapters, the research branch's end-to-end flow (F) and its durable     *)
(* coordinator (C), the signing of approvals (S), a verification run (V)   *)
(* and commands in containers (X).  They share no variable.                *)
(***************************************************************************)
EXTENDS ProviderAdapters

CONSTANTS
  Caller, MaxCalls,
  Coordinator, Effects, Duration, CoordinatorTime,
  Key, ApproverOf, FirstKeys, Policy, Tool, MaxTime, MaxRevision, MaxSigned, Lifetime, Skew,
  Checks, MaxDepends, Executor, AllowLocal, OCI,
  Execution, Path, MaxExecutions, SandboxFaults, Link

VARIABLES
  meta, ledger, prepared, tree, applied, schema, approval, record, fresh,
  opened, sent, call, calls, careful,
  state, steps, decision, entry, lease, held, doing, strayed, clock,
  ring, editing, trusted, revision, signed, request, granted, now, disabled, distrusted,
  contract, stage, pending, order, scan, results, report,
  files, runs, recorded, wrote

F == INSTANCE MvpFlow WITH pulls <- opened, posts <- sent

C == INSTANCE DesignCoordinator WITH
       MaxTime <- CoordinatorTime, effects <- steps, approval <- decision,
       ledger <- entry, call <- doing, now <- clock

S == INSTANCE SignedApprovals WITH approval <- granted

V == INSTANCE VerificationEngine

X == INSTANCE SandboxedExecution WITH Faults <- SandboxFaults

-----------------------------------------------------------------------------
(* What each machine promises, with the shape of its state.                *)

\* The three files of the flow and its two providers agree with what happened.
FilesTellTheTruth == F!FlowTypeOK /\ F!FilesTellTheTruth

\* A caller that follows the flow's own advice publishes once.
CarefulPublishesOnce == F!CarefulPublishesOnce

\* An adapter takes no ambiguous answer of a provider for a rejection.
AdapterAnswersAreHonest == AdapterTypeOK /\ AnswersAreHonest

\* What an adapter publishes joins what was approved.
AdapterPinsHold == PinsHold

\* A transaction of the original branch that is finished took every effect with it,
\* if its callers kept their calls within their leases.
FinishedIsWhole == C!CoordinatorTypeOK /\ C!FinishedIsWhole

\* The same of any callers: the engine alone does not see to it.
FinishedIsWholeAnyway == C!Whole

\* An approval is a quorum's, over the present material, by keys then trusted.
ApprovalsAreSigned == S!ApprovalsTypeOK /\ S!ApprovalsAreSigned

\* A verification that passes passed every required check and all it stands on.
VerdictIsEarned == V!EngineTypeOK /\ V!VerdictIsEarned

\* The record of a sandboxed command matches what it did to the workspace.
EvidenceMatchesFiles == X!SandboxTypeOK /\ X!EvidenceMatchesFiles
=============================================================================
