SPECIFICATION Spec
CONSTANTS
  p1 = p1
  p2 = p2
  k1 = k1
  k2 = k2
  k3 = k3
  k4 = k4
  None = None
  Procs = {p1, p2}
  Bootstrap <- Root1
  Roots <- TestRoots
  Releases <- TestReleases
  Installed = 1
  Skew = 1
  MaxRootUpdates = 1
  MaxDay = 2
SYMMETRY Symmetry
INVARIANTS TypeOK NotFrozen StateSigned RefreshLinked
PROPERTY StateMonotone
CHECK_DEADLOCK FALSE
