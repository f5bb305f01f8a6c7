SPECIFICATION MCSpec
CONSTANTS
  d1 = d1
  d2 = d2
  d3 = d3
  r1 = r1
  r2 = r2
  None = None
  Disks = {d1, d2, d3}
  Size <- Sizes
  Layouts = {"gpt-fat32", "mbr-ntfs"}
  MaxAttach = 2
  Runs = {r1, r2}
  Layout <- LayoutOf
INVARIANTS TypeOK TargetReviewed ChangeReported
PROPERTIES PassedDurable SystemMountKept
CHECK_DEADLOCK FALSE
