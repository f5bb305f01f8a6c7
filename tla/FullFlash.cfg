SPECIFICATION MCSpec
CONSTANTS
  d1 = d1
  d2 = d2
  None = None
  Disks = {d1, d2}
  Plan <- ReusedBlock
  MaxVersion = 1
  MaxAttach = 2
  MaxTrust = 2
INVARIANTS TypeOK StatusHonest
PROPERTIES OnlyReviewed CommandEnds
CHECK_DEADLOCK FALSE
