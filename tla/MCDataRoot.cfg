SPECIFICATION MCSpec
CONSTANTS
  d1 = d1
  d2 = d2
  i1 = i1
  i2 = i2
  i3 = i3
  b1 = b1
  b2 = b2
  r1 = r1
  r2 = r2
  None = None
  Stranger = Stranger
  Daemon = {d1, d2}
  Tool = {tool}
  Cleaner = {cleaner}
  Inode = {i1, i2}
  MaxMutations = 1
  Faults = {"io", "crash", "pid_reuse"}
  Races = {}
  Backup = {b1, b2}
  Restore = {r1, r2}
  MaxEvents = 2
  MaxRows = 1
  RestoreRaces = {}
  RestoreFaults = {"io", "crash", "power", "plant"}
  MaxWrites = 3
  Coarse = FALSE
  p1 = p1
  p2 = p2
  Recorder = {p1, p2}
  MaxLines = 3
  RecordFaults = 2
  MarkerFails = FALSE
  Chains = {"events", "api", "decisions"}
  ChainRows = 2
  MaxDamage = 2
  MaxReceipts = 1
  MaxSeals = 1
  t1 = t1
  t2 = t2
  q1 = q1
  q2 = q2
  Tx = {t1, t2}
  Place = {q1, q2}
  Damaged = Damaged
  ActiveTools = {"expire", "prune", "catalog"}
  ExpireAfter = 0
  PruneAfter = 0
  KeepLatest = 1
  MinimumAge = 1
  MaxBackups = 3
  MaxTime = 2
  ToolFaults = {"crash", "disk", "damage"}
  MaxToolFaults = 2
  Overlaps = {}
INVARIANTS
  OneWriter
  OwnerServes
  DrainIsComplete
  RestoredLedgerIsWhole
  VerdictIsSound
  ChainsAreHonest
  RecordsAreKept
  HousekeepingIsSafe
PROPERTIES
  HeldLockKept
  RestoreAsAsked
SYMMETRY MCSymmetry
CHECK_DEADLOCK FALSE
