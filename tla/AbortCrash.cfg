SPECIFICATION FairSpec
CONSTANTS
  branch = branch
  pr = pr
  slack = slack
  reply = reply
  None = None
  Effect = {}
  DependsOn <- MCDependsOn
  Kind <- MCKind
  Rank <- MCRank
  Tree = {t1}
  Base = t1
  Oversized = {}
  Version = {1}
  CheckResults <- MCPassing
  Receipt = {1, 2, 3}
  Coordinator = {daemon}
  Request = {r1}
  Operation = {"seal", "abort", "recover", "commit", "verify"}
  EffectQuota = 3
  Faults = {"crash"}
  MaxMaterial = 2
  MaxToken = 3
  MaxAttempts = 3
PROPERTIES
  AbortCompletes
CHECK_DEADLOCK FALSE
