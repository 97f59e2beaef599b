SPECIFICATION Spec
CONSTANTS
  Slots = {1, 2}
  Files = {"save", "meta"}
  Data = {"save"}
  Orders <- OneOrder
  TargetLists <- Swap
  SameSets = {{}}
  Filled = {{"save", "meta"}, {}}
  MaxOps = 1
  MaxOutside = 1
  MaxCrashes = 1
  MaxFaults = 1
  Faults = {"busy", "vault", "marker", "stage", "rename", "validate", "records", "source"}
INVARIANTS RecordsAgree BytesKept
PROPERTIES MovesAreAtomic
