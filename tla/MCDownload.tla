------------------------------ MODULE MCDownload ------------------------------
(* An instance of Download for TLC, with and without overlapping commands. *)
EXTENDS DownloadAlone, TLC

CONSTANTS p1, p2, f1, f2, f3

Symmetry == Permutations(Jobs) \cup Permutations(Files)
==============================================================================
