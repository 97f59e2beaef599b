SPECIFICATION EitherSpec
CONSTANTS
  Slots = {1}
  Files = {"save", "meta"}
  Data = {"save"}
  Orders <- OneOrder
  TargetLists <- OneSlot
  SameSets = {{}, {"meta"}}
  Filled = {{"save", "meta"}}
  MaxOps = 1
  MaxOutside = 1
  MaxCrashes = 1
  MaxFaults = 1
  Faults = {"busy", "io", "vault", "marker", "stage", "rename", "validate", "records", "source"}
  t1 = t1
  t2 = t2
  t3 = t3
  t4 = t4
  p1 = p1
  p2 = p2
  p3 = p3
  None = None
  Threads = {t1, t2, t3, t4}
  Processes = {p1, p2, p3}
  Records = {1, 2, 3}
  ProcessOf <- TwoOneAndOne
  Lockers = {p2, p3}
  InterruptAt = {"wait", "own", "open", "poll"}
  MaxBreaks = 2
INVARIANTS MutualExclusion OwnerIsHolder CountNeverLeaks
PROPERTIES OpenIsClosed SomeoneEnters
