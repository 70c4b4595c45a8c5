SPECIFICATION Spec
CONSTANTS
  branch = branch
  pr = pr
  slack = slack
  reply = reply
  None = None
  Effect = {}
  DependsOn <- MCDependsOn
  Kind <- MCKind
  Rank <- MCRank
  Tree = {t1, t2}
  Base = t1
  Oversized = {}
  Version = {1}
  CheckResults <- MCPassing
  Receipt = {1, 2, 3}
  Coordinator = {daemon}
  Request = {r1}
  Operation = {"edit", "seal"}
  EffectQuota = 3
  Faults = {}
  MaxMaterial = 2
  MaxToken = 3
  MaxAttempts = 3
INVARIANTS
  PatchFrozen
CHECK_DEADLOCK FALSE
