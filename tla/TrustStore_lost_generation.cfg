SPECIFICATION Spec
CONSTANTS
  Procs = {p1}
  Payloads <- MCPayloads
  MaxSeq = 3
  MaxTime = 0
  MaxOps = 0
  MaxGenerations = 4
  Faults = {"io"}
  None = None
INVARIANTS ActiveIntact
CHECK_DEADLOCK FALSE
