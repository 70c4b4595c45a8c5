SPECIFICATION Spec
CONSTANTS
  d1 = d1
  d2 = d2
  d3 = d3
  i1 = i1
  i2 = i2
  i3 = i3
  None = None
  Stranger = Stranger
  Daemon = {d1, d2}
  Tool = {tool}
  Cleaner = {cleaner}
  Inode = {i1, i2, i3}
  MaxMutations = 1
  Faults = {"io", "crash", "pid_reuse"}
  Races = {"cleanup"}
INVARIANTS
  OneWriter
SYMMETRY MCSymmetry
CHECK_DEADLOCK FALSE
