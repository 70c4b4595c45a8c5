SPECIFICATION Spec
CONSTANTS
  branch = branch
  pr = pr
  slack = slack
  reply = reply
  None = None
  Effect = {branch, pr, slack, reply}
  DependsOn <- MCDependsOn
  Kind <- MCKind
  Rank <- MCRank
  Tree = {t1}
  Base = t1
  Oversized = {}
  Version = {1, 2}
  CheckResults <- MCCheckResults
  Receipt = {1, 2, 3}
  Coordinator = {d1, d2}
  Request = {r1}
  Operation = {"seal", "verify", "approve", "prepare", "refresh", "commit", "recover", "abort"}
  EffectQuota = 4
  Faults = {"provider", "git", "ledger", "crash", "move", "change", "expiry"}
  MaxMaterial = 6
  MaxToken = 3
  MaxAttempts = 3
INVARIANTS
  ServiceTypeOK
  OutcomeIsHonest
  DependencyOrder
  AtMostOnce
  VerificationCurrent
SYMMETRY MCSymmetry
CHECK_DEADLOCK FALSE
