SPECIFICATION MCSpec
CONSTANTS
  q1 = q1
  q2 = q2
  owner = owner
  agent = agent
  operator = operator
  stranger = stranger
  t1 = t1
  k1 = k1
  c1 = c1
  None = None
  Request = {q1, q2}
  Principal = {owner, agent, operator, stranger}
  Peer = {owner, agent, operator}
  Tx = {t1}
  Owner <- MCOwner
  Key = {k1}
  Capability <- MCCapability
  Roles <- MCRoles
  Calls <- MCCalls
  MaxMutations = 1
  MaxFaults = 2
  MaxEpoch = 1
  MaxAccess = 2
  Faults = {"audit", "store", "crash", "power"}
  Run = {r1, r2}
  Change = {g1}
  Target = {h1}
  Commands = {"start", "status", "seal", "verify", "approve", "apply",
              "finish", "abort", "use", "clear", "recover"}
  MaxDigest = 5
  MaxEffects = 3
  MaxTurns = 3
  BlindViews = FALSE
INVARIANTS
  AuditedBeforeDone
  RetriesAreSafe
  UnsafeNeedsAuthority
  ReleaseMatchesTarget
  InterruptedFinishResumes
SYMMETRY MCSymmetry
CHECK_DEADLOCK FALSE
