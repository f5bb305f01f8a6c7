---------------------------- MODULE FullFlashPlan ----------------------------
(***************************************************************************)
(* The plans a full-flash restore executes, counted in blocks of the       *)
(* store: the DescriptorPlan read from the image, its destinations         *)
(* resolved on a target of a known size, and the order of the writes.      *)
(* Each planner is given as what it accepts and returns.                   *)
(*                                                                         *)
(* The byte arithmetic is left out: the 32-bit fields are added in 64      *)
(* bits, every sum and product that could overflow is refused, and targets *)
(* that are no whole number of blocks are refused, as are images of an     *)
(* update type or store version other than the one planned here.           *)
(***************************************************************************)
EXTENDS Naturals, Sequences, FiniteSets

Anchors == {"begin", "end"}

\* A write descriptor copies `count' blocks of the payload, from `payload' on,
\* to each of its locations; there is at least one of each.
WriteDescriptor ==
  [count : Nat \ {0}, payload : Nat,
   locations : Seq([anchor : Anchors, block : Nat]) \ {<<>>}]

PayloadTableRange == [index : Nat, count : Nat]

DescriptorPlan ==
  [writes : Seq(WriteDescriptor), file : Nat, total : Nat, beginning : Nat, ending : Nat,
   validations : Nat, initial : PayloadTableRange, flashOnly : PayloadTableRange,
   final : PayloadTableRange]

PayloadEnd(write) == write.payload + write.count

\* The blockIntervals of a plan, one for every location, relative to its anchor.
Intervals(plan) ==
  UNION {{[descriptor |-> d, location |-> l, payload |-> plan.writes[d].payload,
           anchor |-> plan.writes[d].locations[l].anchor,
           start |-> plan.writes[d].locations[l].block,
           end |-> plan.writes[d].locations[l].block + plan.writes[d].count]
             : l \in DOMAIN plan.writes[d].locations} : d \in DOMAIN plan.writes}

Anchored(plan, anchor) == {interval \in Intervals(plan) : interval.anchor = anchor}

\* How far the locations of one anchor reach.
Reaches(extent, intervals) ==
  /\ \A i \in intervals : i.end <= extent
  /\ extent = 0 \/ \E i \in intervals : i.end = extent

\* PlanSingleStoreV1: descriptors take the payload in turn, all of it is in the
\* file, and the GPT table ranges are in it.
PlansSingleStoreV1(plan) ==
  /\ plan \in DescriptorPlan
  /\ \A d \in DOMAIN plan.writes :
       plan.writes[d].payload = IF d = 1 THEN 0 ELSE PayloadEnd(plan.writes[d - 1])
  /\ plan.total = IF plan.writes = <<>> THEN 0 ELSE PayloadEnd(plan.writes[Len(plan.writes)])
  /\ Reaches(plan.beginning, Anchored(plan, "begin"))
  /\ Reaches(plan.ending, Anchored(plan, "end"))
  /\ plan.total <= plan.file
  /\ \A table \in {plan.initial, plan.flashOnly, plan.final} :
       table.count # 0 => table.index + table.count <= plan.total

-----------------------------------------------------------------------------
(* Overlap *)

DeclaredBefore(a, b) ==
  a.descriptor < b.descriptor \/ (a.descriptor = b.descriptor /\ a.location < b.location)

Precedes(a, b) ==
  \/ a.start < b.start
  \/ a.start = b.start /\ a.end < b.end
  \/ a.start = b.start /\ a.end = b.end /\ DeclaredBefore(a, b)

\* sort.Slice: the members of a finite set, each once.
Sorted(s, extents) ==
  /\ s \in Seq(extents)
  /\ \A e \in extents : \E i \in DOMAIN s : s[i] = e
  /\ \A i, j \in DOMAIN s : i < j => Precedes(s[i], s[j])

\* Each is compared with the one before it.
NeighboursApart(s) == \A i \in DOMAIN s \ {1} : s[i - 1].end <= s[i].start

NoOverlap(extents) ==
  \E s \in [1..Cardinality(extents) -> extents] : Sorted(s, extents) /\ NeighboursApart(s)

\* detectSameAnchorOverlaps finds none.  Until it finds the first one the active
\* interval is the previous one of the same anchor.
NoSameAnchorOverlap(plan) == \A anchor \in Anchors : NoOverlap(Anchored(plan, anchor))

-----------------------------------------------------------------------------
(* The destinations on a target of so many blocks *)

\* A location at the end counts from the end of the target.
Resolved(interval, blocks) ==
  IF interval.anchor = "begin" THEN interval
  ELSE [interval EXCEPT !.start = blocks - interval.end, !.end = blocks - interval.start]

ResolvedWriteExtents(plan, blocks) == {Resolved(i, blocks) : i \in Intervals(plan)}

\* resolveRestoreWriteExtents
ResolvesWriteExtents(plan, blocks) ==
  /\ \A i \in Intervals(plan) : i.end <= blocks
  /\ NoOverlap(ResolvedWriteExtents(plan, blocks))

\* BindAuthenticatedSingleStoreV1Target checks first what needs no target.
FitsTarget(plan, blocks) ==
  /\ NoSameAnchorOverlap(plan)
  /\ plan.beginning + plan.ending <= blocks

BindsTarget(plan, blocks) == FitsTarget(plan, blocks) /\ ResolvesWriteExtents(plan, blocks)

-----------------------------------------------------------------------------
(* The order of the writes *)

\* Only the profile without staged GPT tables is accepted.
SinglePhase(plan) ==
  /\ plan.writes # <<>> /\ plan.validations = 0
  /\ plan.initial = [index |-> 0, count |-> 0] /\ plan.flashOnly = plan.initial
  /\ plan.total # 0 /\ plan.final = [index |-> 0, count |-> plan.total]

\* PlanSinglePhaseFullFlashWriteOrder keeps the order of declaration, and takes
\* every resolved extent once.
OrdersWrites(operations, plan, blocks) ==
  LET extents == ResolvedWriteExtents(plan, blocks)
  IN  /\ SinglePhase(plan)
      /\ operations \in Seq(extents)
      /\ \A e \in extents : \E i \in DOMAIN operations : operations[i] = e
      /\ \A i, j \in DOMAIN operations : i < j => DeclaredBefore(operations[i], operations[j])

\* AuthorizeSinglePhaseFullFlashMutation: what the executor is given.
Planned(operations, plan, blocks) ==
  PlansSingleStoreV1(plan) /\ BindsTarget(plan, blocks) /\ OrdersWrites(operations, plan, blocks)

-----------------------------------------------------------------------------
(* What the executor needs *)

\* An operation of the executor: the extent of the payload it copies, which
\* `block' names, and the destination, named by where it begins.
StepsOf(operations, block) ==
  [i \in 1..Len(operations) |->
     [from |-> block[operations[i].payload], to |-> operations[i].start]]

\* There is something to write, nothing is written twice, and what a step copies
\* is payload.
Executable(steps) ==
  /\ Len(steps) > 0
  /\ \A i, j \in 1..Len(steps) : steps[i].to = steps[j].to => i = j
  /\ {steps[i].from : i \in 1..Len(steps)} \cap {"altered", "old", "torn"} = {}
==============================================================================
