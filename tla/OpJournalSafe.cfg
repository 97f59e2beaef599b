SPECIFICATION Spec
CONSTANTS
  Procs = {p1, p2}
  Ops = {o1, o2}
  Entries <- MCEntries4
  EntryWithFile = TRUE
  MaxBreaks = 2
  MaxRestores = 1
  None = None
  Damaged = Damaged
  Nothing = Nothing
SYMMETRY MCSymmetry
INVARIANTS AckedIsReadable
PROPERTIES ReadersAgree
