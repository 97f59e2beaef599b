CONSTANTS
  w1 = w1
  w2 = w2
  Nobody = Nobody
  Windows = {w1, w2}
  Source <- OtherStore
  CatalogIds = {1}
  MaxIds = 3
  MaxSaves = 1
  MaxHurt = 1
  MaxMishaps = 1
  MaxJobs = 3
  MaxNow = 1
  GuardWaits = FALSE
SPECIFICATION Spec
SYMMETRY Symmetric
CHECK_DEADLOCK FALSE
INVARIANTS EntriesAreHeld ListingsAgree
