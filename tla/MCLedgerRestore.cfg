SPECIFICATION Spec
CONSTANTS
  b1 = b1
  b2 = b2
  r1 = r1
  r2 = r2
  None = None
  Backup = {b1}
  Restore = {r1, r2}
  MaxEvents = 2
  MaxRows = 2
  Faults = {"io", "crash", "power", "plant"}
  Races = {}
INVARIANTS
  RestoreTypeOK
  RestoredLedgerIsWhole
PROPERTIES
  RestoreAsAsked
SYMMETRY MCSymmetry
CHECK_DEADLOCK FALSE
