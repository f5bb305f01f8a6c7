SPECIFICATION Spec
CONSTANTS
  MaxChanges = 2
  None = None
INVARIANTS TypeOK OriginalKept
PROPERTIES UndoExact SuccessDurable
