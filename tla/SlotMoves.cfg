SPECIFICATION Spec
CONSTANTS
  Slots = {1, 2}
  Windows = {w1, w2}
  Start <- Both
  Shelf <- Older
  NoSave = NoSave
  Counts <- Scopes
CHECK_DEADLOCK FALSE
INVARIANTS UndoIsSound
PROPERTIES MovesAreSafe EachSettles
