SPECIFICATION Spec
CONSTANTS
  Slots = {1}
  Files = {"save", "meta"}
  Data = {"save"}
  Orders <- OneOrder
  TargetLists <- OneSlot
  SameSets = {{}, {"meta"}}
  Filled = {{"save", "meta"}}
  MaxOps = 2
  MaxOutside = 1
  MaxCrashes = 1
  MaxFaults = 1
  Faults = {"busy", "io", "vault", "marker", "stage", "rename", "validate", "records", "source"}
INVARIANTS TypeOK CanGoBack BytesKept RecordsAgree
PROPERTIES OutcomesHold
