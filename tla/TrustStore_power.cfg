SPECIFICATION Spec
CONSTANTS
  Procs = {p1, p2}
  Payloads <- MCPayloads
  MaxSeq = 3
  MaxTime = 1
  MaxOps = 2
  MaxGenerations = 4
  Faults = {"kill", "power"}
  None = None
INVARIANTS ActiveIntact HistoryAuthorized ObservedDurable
CHECK_DEADLOCK FALSE
SYMMETRY Symmetry
