SPECIFICATION Spec
CONSTANTS
  Disks = {d1, d2}
  Size <- MCSize
  Layouts = {"plan", "empty", "mixed", "v1", "v2"}
  MaxAttach = 2
  None = None
  Versions = {"v1", "v2"}
  Selected = "v1"
  MaxEdits = 2
  EditsLeaveTrace = TRUE
  MaxOthers = 2
  AllOptions = {"raw"}
  TotalRegions = 4
  QuickRegionCount = 2
SYMMETRY DiskSymmetry
INVARIANTS TypeOK ErasesReviewed OneSource ClaimHonest EndsClean VerdictTrue
