CONSTANTS
  w1 = w1
  w2 = w2
  Windows = {w1, w2}
  Slots = {1, 2}
  Played = {1}
  SourceIds <- Sources
  Batches <- Orders
  Torn = Torn
  NoFile = NoFile
  MaxTime = 1
  Counts <- Scopes
  Versions = {"0.8", "0.9", "0.10", "1", "1.0"}
  Numbers <- VersionNumbers
  Current = "0.9"
  Offers <- Published
  MaxTries = 1
  MaxFaults = 2
  MaxScripts = 2
  Kinds <- AllKinds
  PutIns = {1, 2}
  Accounts = {1, 2}
  SaveSlots = {1, 2}
  Blocks <- FullSlots
  MaxPicks <- Patience
  MaxOutside = 1
  Days <- Sessions
  Terminals = {1, 2}
  LiveSlots = {1, 2}
  Lives <- Evenings
SYMMETRY Alike
SPECIFICATION AppSpec
CHECK_DEADLOCK FALSE
INVARIANTS VaultIsSound UpdateIsSafe DialogIsHonest NothingIsCut ChangesShown
PROPERTIES KeepsOthers 
