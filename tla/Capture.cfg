SPECIFICATION CaptureSpec
CONSTANTS
  Disks = {d1, d2}
  Size <- MCSize
  Layouts = {"plan"}
  MaxAttach = 2
  None = None
  Versions = {"old", "new"}
  MaxEdits = 2
  MaxOthers = 3
SYMMETRY DiskSymmetry
INVARIANTS CaptureTypeOK CaptureWhole CleanEnd
