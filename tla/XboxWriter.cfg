SPECIFICATION RepairSpec
CONSTANTS
  A = A
  B = B
  C = C
  Members = {A, B}
  Others = {C}
  NoRecord = NoRecord
  MaxExt = 4
  Folders <- Starts
  Times <- Stamps
  Races = FALSE
  Counts <- Scopes
  Damages <- Breaking
  Backups <- Restored_
  Account = C
CHECK_DEADLOCK FALSE
INVARIANTS FolderIsSound
PROPERTIES EachCloses RepairIsSound
