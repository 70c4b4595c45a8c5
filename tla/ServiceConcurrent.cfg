SPECIFICATION Spec
CONSTANTS
  branch = branch
  pr = pr
  slack = slack
  reply = reply
  None = None
  Effect = {slack}
  DependsOn <- MCDependsOn
  Kind <- MCKind
  Rank <- MCRank
  Tree = {t1}
  Base = t1
  Oversized = {}
  Version = {1}
  CheckResults <- MCPassing
  Receipt = {1, 2, 3}
  Coordinator = {daemon}
  Request = {r1, r2}
  Operation = {"seal", "verify", "approve", "prepare", "commit", "recover", "abort"}
  EffectQuota = 3
  Faults = {"expiry", "move", "late", "crash", "server_error"}
  MaxMaterial = 2
  MaxToken = 3
  MaxAttempts = 3
INVARIANTS
  TokenExclusive
PROPERTIES
  LedgerSpec
CHECK_DEADLOCK FALSE
