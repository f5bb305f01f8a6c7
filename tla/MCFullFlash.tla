----------------------------- MODULE MCFullFlash -----------------------------
(* Instances of FullFlash for TLC.                                         *)
EXTENDS FullFlash

CONSTANTS d1, d2

\* Images of one or two write descriptors with one or two locations each.
Shapes == LET locations == [anchor : Anchors, block : 0..1]
          IN  [count : 1..2, locations : {<<l>> : l \in locations} \cup (locations \X locations)]

Greatest(S) == CHOOSE m \in S : \A n \in S : n <= m

PlanOf(shapes) ==
  LET writes == [d \in DOMAIN shapes |->
                   [count |-> shapes[d].count, locations |-> shapes[d].locations,
                    payload |-> IF d = 1 THEN 0 ELSE shapes[1].count]]
      total == PayloadEnd(writes[Len(shapes)])
      absent == [index |-> 0, count |-> 0]
      reach(anchor) == Greatest({0} \cup {i.end : i \in Anchored([writes |-> writes], anchor)})
  IN  [writes |-> writes, file |-> total, total |-> total, validations |-> 0,
       beginning |-> reach("begin"), ending |-> reach("end"),
       initial |-> absent, flashOnly |-> absent, final |-> [absent EXCEPT !.count = total]]

Plans == {PlanOf(shapes) : shapes \in {<<s>> : s \in Shapes} \cup (Shapes \X Shapes)}

OperationsOf(plan, blocks) ==
  LET extents == ResolvedWriteExtents(plan, blocks)
  IN  CHOOSE operations \in [1..Cardinality(extents) -> extents] :
        OrdersWrites(operations, plan, blocks)

\* The planners do accept plans, and refuse some on any target; what needs no
\* target settles the overlaps; and what is accepted can be executed.
ASSUME PlannersChecked ==
  /\ \A plan \in Plans : PlansSingleStoreV1(plan)
  /\ {Len(plan.writes) : plan \in {p \in Plans : BindsTarget(p, 4)}} = {1, 2}
  /\ \E plan \in Plans : plan.beginning + plan.ending <= 4 /\ ~BindsTarget(plan, 4)
  /\ \A plan \in Plans, blocks \in 2..6 :
       FitsTarget(plan, blocks) =>
         LET operations == OperationsOf(plan, blocks)
         IN  /\ Planned(operations, plan, blocks)
             /\ Executable(StepsOf(operations, [n \in 0..2 |-> <<"p", "q", "r">>[n + 1]]))

\* One payload block declared at both ends of a disk of three blocks.
ReusedBlock == <<[from |-> "p", to |-> 1], [from |-> "p", to |-> 2]>>

ASSUME ReusedBlockPlanned ==
  LET plan == PlanOf(<<[count |-> 1, locations |-> <<[anchor |-> "begin", block |-> 1],
                                                     [anchor |-> "end", block |-> 0]>>]>>)
  IN  ReusedBlock = StepsOf(OperationsOf(plan, 3), [n \in {0} |-> "p"])

\* Disks are swapped and trust bundles replaced under a command, or other
\* processes write to its source, the kernel writes back and signals arrive
\* while its one disk may be pulled.
VARIABLE swaps

MCInit == Init /\ swaps \in BOOLEAN

MCNext ==
  /\ Next
  /\ UNCHANGED swaps
  /\ IF swaps THEN writer' = "none" /\ ~cancelled' /\ (media' # media => run' # run)
              ELSE trust' = 1 /\ port' \in {None, [disk |-> d1, seq |-> 1]}

MCSpec == MCInit /\ [][MCNext]_<<vars, swaps>> /\ WF_vars(Command)
==============================================================================
