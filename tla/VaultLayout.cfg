CONSTANTS
  w1 = w1
  w2 = w2
  Windows = {w1, w2}
  Nobody = Nobody
  Ids = {1, 2}
  MaxRounds = 1
  MaxCrashes = 1
  MaxEdits = 1
  MaxDamage = 1
  MaxJobs = 6
SPECIFICATION Spec
CHECK_DEADLOCK FALSE
INVARIANTS UndoIsReady
PROPERTIES VaultIsKept UpgradeEnds
