SPECIFICATION MCSpec
CONSTANTS
  e1 = e1
  e2 = e2
  e3 = e3
  e4 = e4
  c1 = c1
  c2 = c2
  d1 = d1
  d2 = d2
  t1 = t1
  x1 = x1
  x2 = x2
  Overlap = TRUE
  None = None
  Absent = Absent
  Approved = Approved
  Effect = {e1, e2, e3, e4}
  Input <- MCInput
  Window = 2
  MaxMeddling = 1
  Faults = {"late"}
  Caller = {c1, c2}
  MaxCalls = 3
  Coordinator = {d1, d2}
  Effects = 2
  Duration = 2
  CoordinatorTime = 4
  Key = {"a1", "a2", "b1"}
  ApproverOf <- MCApproverOf
  Policy <- MCPolicy
  FirstKeys = {"a1", "b1"}
  Tool = {t1}
  MaxTime = 1
  MaxRevision = 2
  MaxSigned = 2
  Lifetime = 1
  Skew = 0
  Checks = 3
  MaxDepends = 2
  Executor <- MCExecutor
  AllowLocal = TRUE
  OCI = TRUE
  Execution = {x1, x2}
  Path = {1, 2}
  MaxExecutions = 1
  SandboxFaults = {"runtime", "limit", "disk", "crash"}
  Link = Link
INVARIANTS
  FinishedIsWholeAnyway
SYMMETRY MCSymmetry
CHECK_DEADLOCK FALSE
