SPECIFICATION Spec
CONSTANTS
  p1 = p1
  p2 = p2
  k1 = k1
  k2 = k2
  k3 = k3
  k4 = k4
  None = None
  Procs = {p1, p2}
  Bootstrap <- Root1
  Roots <- TestRoots
  Catalogs <- TestCatalogs
  Skew = 1
  MaxRootUpdates = 1
  MaxDay = 1
SYMMETRY Symmetry
INVARIANTS RootsLinked HistoryReaches
PROPERTY KeptUnlessOvertaken
CHECK_DEADLOCK FALSE
