----------------------------- MODULE MCFormatter ------------------------------
(* Instances of Formatter for TLC.                                         *)
EXTENDS Formatter

CONSTANTS d1, d2, d3, r1, r2

Sizes == [d \in Disks |-> IF d = d3 THEN 2 ELSE 1]
LayoutOf == [r \in Runs |-> IF r = r1 THEN "gpt-fat32" ELSE "mbr-ntfs"]

\* Two runs overlap on one disk, or one run meets swapped disks, a clock that is
\* set back, protected mounts and every option.
VARIABLE overlap

MCInit == Init /\ overlap \in BOOLEAN

MCNext ==
  /\ Next
  /\ UNCHANGED overlap
  /\ IF overlap
       THEN /\ mounts' \subseteq {"media"}
            /\ \A r \in Runs : ~run'[r].clockBack /\ ~run'[r].noUnmount
       ELSE \A r \in Runs : r # r1 => run'[r] = run[r]

MCSpec == MCInit /\ [][MCNext]_<<vars, overlap>>
==============================================================================
