SPECIFICATION FairSpec
CONSTANTS
  Procs = {p1, p2}
  Payloads <- MCResigned
  MaxSeq = 3
  MaxTime = 1
  MaxOps = 1
  MaxGenerations = 2
  Faults = {"cancel"}
  None = None
INVARIANTS CancelUndone
PROPERTIES LockReleased
CHECK_DEADLOCK FALSE
