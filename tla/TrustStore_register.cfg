SPECIFICATION Spec
CONSTANTS
  Procs = {p1, p2}
  Payloads <- MCPayloads
  MaxSeq = 3
  MaxTime = 0
  MaxOps = 1
  MaxGenerations = 2
  Faults = {"cancel", "io", "undo", "kill", "power"}
  None = None
INVARIANTS TypeOK
PROPERTIES RegisterSpec
CHECK_DEADLOCK FALSE
SYMMETRY Symmetry
