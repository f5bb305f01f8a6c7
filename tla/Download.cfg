SPECIFICATION AloneSpec
CONSTANTS
  p1 = p1
  p2 = p2
  f1 = f1
  f2 = f2
  f3 = f3
  Nil = Nil
  Jobs = {p1, p2}
  Files = {f1, f2, f3}
  Size = 2
SYMMETRY Symmetry
INVARIANTS FinishedUntouched AloneVerified
PROPERTY ForeignKept
CHECK_DEADLOCK FALSE
