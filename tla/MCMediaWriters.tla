---------------------------- MODULE MCMediaWriters ----------------------------
EXTENDS MediaWriters, TLC

\* Disks of one capacity, in sectors: the case that only identity tells apart,
\* and one that FreeDOS can be planned for.
MCSize == [d \in Disks |-> 80000]

\* The disks are interchangeable: no action distinguishes them.
DiskSymmetry == Permutations(Disks)
==============================================================================
