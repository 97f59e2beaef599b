CONSTANTS
  a = a
  b = b
  da = da
  db1 = db1
  Vids <- MCVids
  Deep <- MCDeep
  Keys <- MCKeys
  Size <- MCSize
  Stored <- MCStored
  Counts <- MCCounts
  Budget = 4
  MaxWorkers = 3
  MaxStrikes = 3
SPECIFICATION Spec
CHECK_DEADLOCK FALSE
INVARIANTS WorkIsKept AnswersAreCurrent
PROPERTIES RequestsEnd
