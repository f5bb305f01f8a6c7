------------------------------- MODULE MCCapture -------------------------------
EXTENDS Capture, TLC

\* Disks of one capacity: the case that only identity tells apart.
MCSize == [d \in Disks |-> 8]

\* The disks are interchangeable: no action distinguishes them.
DiskSymmetry == Permutations(Disks)
==============================================================================
