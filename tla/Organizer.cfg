CONSTANTS
  Windows = {w1, w2}
  Nobody = Nobody
  Vids <- MCVids
  LineOf <- MCLineOf
  PlayOf <- MCPlayOf
  SavedAt <- MCSavedAt
  ClockOf <- MCClockOf
  Slots = {1}
  Outside <- MCOutside
  Beginnings <- MCBeginnings
SPECIFICATION Spec
CHECK_DEADLOCK FALSE
INVARIANTS ShownIsTrue LineageIsSound
PROPERTIES NotesSurvive CatchesUp
