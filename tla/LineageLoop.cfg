CONSTANTS
  Windows = {w1, w2}
  Nobody = Nobody
  Vids <- MCVids
  LineOf <- MCLineOf
  PlayOf <- MCPlayOf
  SavedAt <- MCSavedAt
  ClockOf <- MCClockOf
  Slots = {1, 2}
  Outside <- TwoSlotsOutside
  Beginnings <- TwoSlotsBeginnings
SPECIFICATION Spec
CHECK_DEADLOCK FALSE
INVARIANT OnlyOwnersClose
