SPECIFICATION Spec
CONSTANTS
  branch = branch
  pr = pr
  slack = slack
  reply = reply
  None = None
  Effect = {branch, pr}
  DependsOn <- MCDependsOn
  Kind <- MCKind
  Rank <- MCRank
  Tree = {t1, t2, huge}
  Base = t1
  Oversized = {huge}
  Version = {1, 2}
  CheckResults <- MCPassing
  Receipt = {1}
  Coordinator = {daemon}
  Request = {r1, r2}
  Operation = {"edit", "seal", "verify", "approve", "prepare", "refresh", "commit", "abort"}
  EffectQuota = 1
  Faults = {"change"}
  MaxMaterial = 4
  MaxToken = 1
  MaxAttempts = 1
PROPERTIES
  PublishedUnderApproval
CHECK_DEADLOCK FALSE
