----------------------------- MODULE FreeDOSLayout -----------------------------
(***************************************************************************)
(* The arithmetic of package freedos: the one FAT32 partition a disk of a  *)
(* given size gets, the geometry of its filesystem, and the extents that   *)
(* are written and verified.  Everything else on the disk is free data     *)
(* space, which is left as it was.                                         *)
(***************************************************************************)
EXTENDS Naturals

SectorSize == 512
PartitionStart == 2048   \* sectors before the partition, and after it
FATCount == 2
DataAlignment == 2048
MinimumClusters == 65536
MaximumClusters == 268435455
BootBytes == 6 * SectorSize + 1536   \* both boot regions, from the first sector
CommandSize == 87772
KernelSize == 46256

ClustersForSize(size, clusterBytes) == (size + clusterBytes - 1) \div clusterBytes
\* The first entry of the FAT after the root directory and the two files.
AllocatedEnd(commandClusters, kernelClusters) == 3 + commandClusters + kernelClusters

RoundUp(value, alignment) == ((value + alignment - 1) \div alignment) * alignment

MiB == 2048   \* in sectors

\* Sectors per cluster for a partition of so many sectors, 0 when it is refused.
DefaultClusterSectors(total) ==
  CASE total < 32 * MiB -> 0
    [] total >= 32 * MiB /\ total < 64 * MiB -> 1
    [] total >= 64 * MiB /\ total < 128 * MiB -> 2
    [] total >= 128 * MiB /\ total < 256 * MiB -> 4
    [] total >= 256 * MiB /\ total < 8192 * MiB -> 8
    [] total >= 8192 * MiB /\ total < 16384 * MiB -> 16
    [] total >= 16384 * MiB /\ total < 32768 * MiB -> 32
    [] total >= 32768 * MiB /\ total < 1024 * (2048 * MiB) -> 64
    [] OTHER -> 0

\* Sectors of one FAT, of both FATs with the reserved sectors before them, and
\* the clusters that are left.
ExpectedMediaGeometry(total, cluster) ==
  LET fat == (total + 2 * cluster) \div (cluster * 128 + FATCount) + 1
      system == RoundUp(32 + FATCount * fat, DataAlignment)
  IN  [fat |-> fat, system |-> system, reserved |-> system - FATCount * fat,
       clusters |-> (total - system) \div cluster]

\* NewMediaPlan and ValidateMediaPlan: what is refused is not a plan.
MediaPlanAccepted(diskSectors) ==
  /\ diskSectors > 2 * PartitionStart
  /\ LET total == diskSectors - 2 * PartitionStart
         cluster == DefaultClusterSectors(total)
         geometry == ExpectedMediaGeometry(total, cluster)
     IN  /\ cluster # 0
         /\ geometry.system < total
         /\ geometry.reserved > 6 /\ geometry.reserved <= 65535
         /\ geometry.clusters >= MinimumClusters /\ geometry.clusters <= MaximumClusters
         /\ geometry.fat * 128 >= geometry.clusters + 2

\* plannedMediaExtents, in bytes, without the zero lengths: where each begins,
\* in the order in which they are written, and where it ends.
PlannedMediaExtents(diskSectors) ==
  LET total == diskSectors - 2 * PartitionStart
      cluster == DefaultClusterSectors(total)
      geometry == ExpectedMediaGeometry(total, cluster)
      clusterBytes == cluster * SectorSize
      commandClusters == ClustersForSize(CommandSize, clusterBytes)
      kernelClusters == ClustersForSize(KernelSize, clusterBytes)
      start == PartitionStart * SectorSize
      fat1 == start + geometry.reserved * SectorSize
      fat2 == fat1 + geometry.fat * SectorSize
      root == start + geometry.system * SectorSize
      command == root + clusterBytes
      kernel == command + commandClusters * clusterBytes
      prefix == 4 * AllocatedEnd(commandClusters, kernelClusters)
      end == start + total * SectorSize
  IN  << [from |-> 0, to |-> SectorSize],                           \* MBR
         [from |-> SectorSize, to |-> start],                       \* pre-partition metadata
         [from |-> start, to |-> start + BootBytes],                \* boot and backup regions
         [from |-> start + BootBytes, to |-> fat1],                 \* remaining reserved sectors
         [from |-> fat1, to |-> fat1 + prefix],                     \* first FAT
         [from |-> fat1 + prefix, to |-> fat2],
         [from |-> fat2, to |-> fat2 + prefix],                     \* second FAT
         [from |-> fat2 + prefix, to |-> fat2 + geometry.fat * SectorSize],
         [from |-> root, to |-> root + clusterBytes],               \* root directory
         [from |-> command, to |-> command + CommandSize],          \* COMMAND.COM
         [from |-> command + CommandSize, to |-> kernel],
         [from |-> kernel, to |-> kernel + KernelSize],             \* KERNEL.SYS
         [from |-> kernel + KernelSize, to |-> kernel + kernelClusters * clusterBytes],
         [from |-> end, to |-> diskSectors * SectorSize] >>         \* backup metadata

\* The checks at its end: no extent overlaps the one before it or leaves the
\* disk, and together they are less than the disk.
ExtentsAccepted(diskSectors) ==
  LET extents == PlannedMediaExtents(diskSectors)
  IN  /\ \A i \in 1..14 : extents[i].from <= extents[i].to
      /\ \A i \in 1..13 : extents[i].to <= extents[i + 1].from
      /\ extents[14].to <= diskSectors * SectorSize
      /\ extents[13].to < extents[14].from
==============================================================================
