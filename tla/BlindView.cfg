SPECIFICATION CliSpec
CONSTANTS
  Run = {r1, r2}
  Change = {c1}
  Target = {t1}
  Commands = {"start","status","seal","verify","approve","apply","finish","abort","use","clear","recover"}
  MaxDigest = 5
  MaxEffects = 3
  MaxTurns = 3
  BlindViews = TRUE
  None = None
INVARIANT ReleaseMatchesTarget
CHECK_DEADLOCK FALSE
