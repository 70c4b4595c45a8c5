SPECIFICATION FairSpec
CONSTANTS
  branch = branch
  pr = pr
  slack = slack
  reply = reply
  None = None
  Effect = {branch, slack}
  DependsOn <- MCDependsOn
  Kind <- MCKind
  Rank <- MCRank
  Tree = {t1}
  Base = t1
  Oversized = {}
  Version = {1}
  CheckResults <- MCPassing
  Receipt = {1, 2}
  Coordinator = {daemon}
  Request = {r1, r2}
  Operation = {"seal", "verify", "approve", "prepare", "commit", "recover", "abort"}
  EffectQuota = 3
  Faults = {"provider", "git", "move"}
  MaxMaterial = 3
  MaxToken = 2
  MaxAttempts = 2
PROPERTIES
  CommitSettles
  RequestsEnd
  AbortCompletes
CHECK_DEADLOCK FALSE
