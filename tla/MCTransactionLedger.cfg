SPECIFICATION LedgerSpec
CONSTANTS
  branch = branch
  pr = pr
  None = None
  Effect = {branch, pr}
  DependsOn <- MCDependsOn
  Tree = {t1}
  Version = {1}
  CheckResults <- MCCheckResults
  Receipt = {1, 2}
  Coordinator = {d1}
  MaxMaterial = 3
  MaxToken = 1
INVARIANTS
  LedgerTypeOK
  ApprovalCurrent
  ReleaseGated
  CommittedHasEvidence
PROPERTIES
  EvidenceWriteOnce
  LifecycleSpec
CHECK_DEADLOCK FALSE
