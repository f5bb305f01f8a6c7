--------------------------- MODULE FullFlashProofs ---------------------------
(***************************************************************************)
(* Proofs about FullFlashPlan, for any image and any size of the target,   *)
(* and about FullFlash, for any plan, any disks and any number of          *)
(* attachments, source versions and trust bundles.                         *)
(***************************************************************************)
EXTENDS FullFlash, TLAPS, WellFoundedInduction

-----------------------------------------------------------------------------
(* The plans *)

\* A set of numbers has a least one: what stands for induction on descriptors.
LEMMA LeastNatural ==
  ASSUME NEW S \in SUBSET Nat, S # {}
  PROVE  \E n \in S : \A m \in S : n <= m
<1> DEFINE R == {p \in Nat \X Nat : p[1] < p[2]}
<1>1. IsWellFoundedOn(R, Nat)
  BY NatLessThanWellFounded, Zenon DEF OpToRel
<1>2. PICK n \in S : \A m \in S : ~ (<<m, n>> \in R)
  <2> HIDE DEF R
  <2> QED BY <1>1, WFMin, Zenon
<1>3. ASSUME NEW m \in S PROVE ~(m < n)
  BY <1>2, <1>3
<1> QED BY <1>3

\* An extent, of the target or relative to an anchor.
Extent == [descriptor : Nat, location : Nat, payload : Nat, anchor : Anchors,
           start : Nat, end : Nat]
Apart(a, b) == a.end <= b.start \/ b.end <= a.start

\* The interval of location l of descriptor d.
IntervalAt(plan, d, l) ==
  [descriptor |-> d, location |-> l, payload |-> plan.writes[d].payload,
   anchor |-> plan.writes[d].locations[l].anchor,
   start |-> plan.writes[d].locations[l].block,
   end |-> plan.writes[d].locations[l].block + plan.writes[d].count]

\* The fields of a DescriptorPlan.
LEMMA WriteTypes ==
  ASSUME NEW plan, PlansSingleStoreV1(plan)
  PROVE  /\ plan.writes \in Seq(WriteDescriptor)
         /\ DOMAIN plan.writes = 1..Len(plan.writes) /\ Len(plan.writes) \in Nat
         /\ plan.total \in Nat /\ plan.beginning \in Nat /\ plan.ending \in Nat
         /\ \A d \in DOMAIN plan.writes :
              /\ plan.writes[d].count \in Nat \ {0} /\ plan.writes[d].payload \in Nat
              /\ PayloadEnd(plan.writes[d]) \in Nat
              /\ plan.writes[d].locations \in Seq([anchor : Anchors, block : Nat])
              /\ plan.writes[d].locations # <<>>
<1>1. plan \in DescriptorPlan
  BY DEF PlansSingleStoreV1
<1>2. plan.writes \in Seq(WriteDescriptor)
      /\ plan.total \in Nat /\ plan.beginning \in Nat /\ plan.ending \in Nat
  BY <1>1 DEF DescriptorPlan
<1>3. ASSUME NEW d \in DOMAIN plan.writes
      PROVE  /\ plan.writes[d].count \in Nat \ {0} /\ plan.writes[d].payload \in Nat
             /\ PayloadEnd(plan.writes[d]) \in Nat
             /\ plan.writes[d].locations \in Seq([anchor : Anchors, block : Nat])
             /\ plan.writes[d].locations # <<>>
  <2>1. plan.writes[d] \in WriteDescriptor
    BY <1>2, <1>3
  <2>2. /\ plan.writes[d].count \in Nat \ {0} /\ plan.writes[d].payload \in Nat
        /\ plan.writes[d].locations \in Seq([anchor : Anchors, block : Nat])
        /\ plan.writes[d].locations # <<>>
    BY <2>1, Zenon DEF WriteDescriptor
  <2> QED BY <2>2 DEF PayloadEnd
<1>4. DOMAIN plan.writes = 1..Len(plan.writes) /\ Len(plan.writes) \in Nat
  BY <1>2
<1> QED BY <1>2, <1>3, <1>4, Zenon

\* The items of a sequence.
LEMMA SequenceItem ==
  ASSUME NEW S, NEW q \in Seq(S), NEW l \in DOMAIN q
  PROVE  l \in Nat /\ q[l] \in S
OBVIOUS

\* What parseWriteDescriptors records of a location.
LEMMA IntervalOf ==
  ASSUME NEW plan, PlansSingleStoreV1(plan), NEW i \in Intervals(plan)
  PROVE  /\ i \in Extent
         /\ i.descriptor \in DOMAIN plan.writes
         /\ i.location \in DOMAIN plan.writes[i.descriptor].locations
         /\ i = IntervalAt(plan, i.descriptor, i.location)
         /\ i.end = i.start + plan.writes[i.descriptor].count
         /\ i.start < i.end
<1>1. PICK d \in DOMAIN plan.writes : \E l \in DOMAIN plan.writes[d].locations :
        i = IntervalAt(plan, d, l)
  BY DEF Intervals, IntervalAt
<1>2. PICK l \in DOMAIN plan.writes[d].locations : i = IntervalAt(plan, d, l)
  BY <1>1
<1>3. /\ d \in Nat /\ plan.writes[d].count \in Nat \ {0} /\ plan.writes[d].payload \in Nat
      /\ plan.writes[d].locations \in Seq([anchor : Anchors, block : Nat])
  <2>1. DOMAIN plan.writes \subseteq Nat
    BY WriteTypes
  <2> QED BY <1>1, <2>1, WriteTypes, Zenon
<1>4. l \in Nat /\ plan.writes[d].locations[l] \in [anchor : Anchors, block : Nat]
  BY <1>3, SequenceItem, Zenon
<1>5. plan.writes[d].locations[l].anchor \in Anchors /\ plan.writes[d].locations[l].block \in Nat
  BY <1>4
<1>6. /\ i.descriptor = d /\ i.location = l /\ i.payload = plan.writes[d].payload
      /\ i.anchor = plan.writes[d].locations[l].anchor
      /\ i.start = plan.writes[d].locations[l].block
      /\ i.end = plan.writes[d].locations[l].block + plan.writes[d].count
  BY <1>2 DEF IntervalAt
<1>7. i.start < i.end /\ i.end \in Nat
  <2>1. \A block \in Nat, count \in Nat \ {0} : block < block + count /\ block + count \in Nat
    OBVIOUS
  <2> QED BY <1>3, <1>5, <1>6, <2>1, Zenon
<1>8. i \in Extent
  BY <1>2, <1>3, <1>4, <1>5, <1>6, <1>7 DEF IntervalAt, Extent
<1> QED BY <1>1, <1>2, <1>6, <1>7, <1>8

\* What was sorted and compared with its neighbour is pairwise apart.
LEMMA NeighboursSuffice ==
  ASSUME NEW E \in SUBSET Extent, \A e \in E : e.start < e.end, NoOverlap(E),
         NEW a \in E, NEW b \in E, a # b
  PROVE  Apart(a, b)
<1>1. PICK s : Sorted(s, E) /\ NeighboursApart(s)
  BY Zenon DEF NoOverlap
<1>2. s \in Seq(E) /\ DOMAIN s = 1..Len(s) /\ Len(s) \in Nat
  BY <1>1 DEF Sorted
<1>3. ASSUME NEW i \in DOMAIN s, NEW j \in DOMAIN s, i < j
      PROVE  s[i].end <= s[j].start
  <2>1. i + 1 \in DOMAIN s \ {1} /\ (i + 1) - 1 = i
    BY <1>2, <1>3
  <2>2. s[i].end <= s[i + 1].start
    BY <1>1, <2>1 DEF NeighboursApart
  <2>3. s[i] \in E /\ s[j] \in E /\ s[i + 1] \in E
    BY <1>2, <1>3, <2>1
  <2>4. CASE i + 1 = j
    BY <2>2, <2>4
  <2>5. CASE i + 1 # j
    <3>1. i + 1 < j
      BY <1>2, <1>3, <2>5
    <3>2. Precedes(s[i + 1], s[j])
      BY <1>1, <2>1, <3>1 DEF Sorted
    <3>3. s[i + 1].start <= s[j].start
      BY <2>3, <3>2 DEF Precedes, Extent
    <3> QED BY <2>2, <2>3, <3>3 DEF Extent
  <2> QED BY <2>4, <2>5
<1>4. PICK i \in DOMAIN s, j \in DOMAIN s : s[i] = a /\ s[j] = b
  BY <1>1 DEF Sorted
<1>5. i < j \/ j < i
  BY <1>2, <1>4
<1> QED BY <1>3, <1>4, <1>5 DEF Apart

\* Resolving keeps what identifies an extent, its source and its length.
LEMMA ResolvedExtent ==
  ASSUME NEW i \in Extent, i.start < i.end, NEW blocks \in Nat, i.end <= blocks
  PROVE  LET r == Resolved(i, blocks)
         IN  /\ r \in Extent
             /\ r.descriptor = i.descriptor /\ r.location = i.location
             /\ r.payload = i.payload /\ r.anchor = i.anchor
             /\ r.start < r.end /\ r.end <= blocks
             /\ r.end - r.start = i.end - i.start
             /\ i.anchor = "begin" => r = i
             /\ i.anchor = "end" => r.start = blocks - i.end /\ r.end = blocks - i.start
<1>1. CASE i.anchor = "begin"
  BY <1>1 DEF Resolved, Extent
<1>2. CASE i.anchor # "begin"
  <2>1. Resolved(i, blocks) = [i EXCEPT !.start = blocks - i.end, !.end = blocks - i.start]
    BY <1>2 DEF Resolved
  <2>2. blocks - i.end \in Nat /\ blocks - i.start \in Nat /\ i.end \in Nat /\ i.start \in Nat
    BY DEF Extent
  <2>3. Resolved(i, blocks) =
          [descriptor |-> i.descriptor, location |-> i.location, payload |-> i.payload,
           anchor |-> i.anchor, start |-> blocks - i.end, end |-> blocks - i.start]
    BY <2>1, Zenon DEF Extent
  <2> QED BY <1>2, <2>2, <2>3 DEF Extent
<1> QED BY <1>1, <1>2

\* A sequence that is not empty has a first item.
LEMMA NonEmptySequence ==
  ASSUME NEW S, NEW q \in Seq(S), q # <<>>
  PROVE  1 \in DOMAIN q
OBVIOUS

\* On a target that is large enough every location is inside it.
LEMMA IntervalsFit ==
  ASSUME NEW plan, PlansSingleStoreV1(plan), NEW blocks \in Nat, FitsTarget(plan, blocks),
         NEW i \in Intervals(plan)
  PROVE  i.end <= blocks
<1>1. i \in Extent /\ plan.beginning \in Nat /\ plan.ending \in Nat
  BY IntervalOf, WriteTypes
<1>2. i \in Anchored(plan, "begin") \/ i \in Anchored(plan, "end")
  BY <1>1 DEF Extent, Anchors, Anchored
<1>3. i.end <= plan.beginning \/ i.end <= plan.ending
  BY <1>2 DEF PlansSingleStoreV1, Reaches
<1> QED BY <1>1, <1>3 DEF Extent, FitsTarget

\* Resolving tells apart what was declared apart.
LEMMA ResolvedApart ==
  ASSUME NEW plan, PlansSingleStoreV1(plan), NEW blocks \in Nat, FitsTarget(plan, blocks),
         NEW a \in Intervals(plan), NEW b \in Intervals(plan), a # b
  PROVE  Apart(Resolved(a, blocks), Resolved(b, blocks))
<1>1. /\ a \in Extent /\ a.start < a.end /\ b \in Extent /\ b.start < b.end
  BY IntervalOf
<1>2. a.end <= blocks /\ b.end <= blocks
  BY IntervalsFit
<1>3. /\ a.start \in Nat /\ a.end \in Nat /\ b.start \in Nat /\ b.end \in Nat
      /\ a.anchor \in {"begin", "end"} /\ b.anchor \in {"begin", "end"}
  BY <1>1 DEF Extent, Anchors
<1>4. CASE a.anchor = b.anchor
  <2>1. Apart(a, b)
    <3> DEFINE same == Anchored(plan, a.anchor)
    <3>1. same \in SUBSET Extent /\ \A e \in same : e.start < e.end
      BY IntervalOf DEF Anchored
    <3>2. NoOverlap(same)
      BY <1>3 DEF FitsTarget, NoSameAnchorOverlap, Anchors
    <3>3. a \in same /\ b \in same
      BY <1>4 DEF Anchored
    <3> HIDE DEF same
    <3> QED BY <3>1, <3>2, <3>3, NeighboursSuffice
  <2>2. CASE a.anchor = "begin"
    BY <1>1, <1>2, <1>4, <2>1, <2>2, ResolvedExtent
  <2>3. CASE a.anchor = "end"
    <3>1. /\ Resolved(a, blocks).start = blocks - a.end
          /\ Resolved(a, blocks).end = blocks - a.start
          /\ Resolved(b, blocks).start = blocks - b.end
          /\ Resolved(b, blocks).end = blocks - b.start
      <4>1. b.anchor = "end"
        BY <1>4, <2>3
      <4> QED BY <1>1, <1>2, <2>3, <4>1, ResolvedExtent, Zenon
    <3> QED BY <1>2, <1>3, <2>1, <3>1 DEF Apart
  <2> QED BY <1>3, <2>2, <2>3
<1>5. ASSUME NEW x \in Intervals(plan), NEW y \in Intervals(plan),
             x.anchor = "begin", y.anchor = "end"
      PROVE  Resolved(x, blocks).end <= Resolved(y, blocks).start
  <2>1. x \in Anchored(plan, "begin") /\ y \in Anchored(plan, "end")
    BY <1>5 DEF Anchored
  <2>2. x.end <= plan.beginning /\ y.end <= plan.ending
    BY <2>1 DEF PlansSingleStoreV1, Reaches
  <2>3. /\ x.end \in Nat /\ y.end \in Nat /\ plan.beginning \in Nat /\ plan.ending \in Nat
        /\ x \in Extent /\ y \in Extent /\ x.start < x.end /\ y.start < y.end
    BY IntervalOf, WriteTypes DEF Extent
  <2>4. x.end + y.end <= blocks
    BY <2>2, <2>3 DEF FitsTarget
  <2>5. Resolved(x, blocks).end = x.end /\ Resolved(y, blocks).start = blocks - y.end
    BY <1>5, <2>3, IntervalsFit, ResolvedExtent
  <2> QED BY <2>3, <2>4, <2>5
<1> QED BY <1>3, <1>4, <1>5 DEF Apart

\* Once same-anchor overlaps are refused and the target holds MinimumTargetBlocks,
\* resolveRestoreWriteExtents refuses nothing: locations at the beginning cannot
\* meet those at the end, whatever the size of the target.
THEOREM TargetSizeSuffices ==
  ASSUME NEW plan, PlansSingleStoreV1(plan), NEW blocks \in Nat, FitsTarget(plan, blocks)
  PROVE  /\ \A i \in Intervals(plan) : i.end <= blocks
         /\ \A s : Sorted(s, ResolvedWriteExtents(plan, blocks)) => NeighboursApart(s)
<1>1. \A i \in Intervals(plan) : i.end <= blocks
  BY IntervalsFit
<1>2. ASSUME NEW s, Sorted(s, ResolvedWriteExtents(plan, blocks)), NEW i \in DOMAIN s \ {1}
      PROVE  s[i - 1].end <= s[i].start
  <2> DEFINE E == ResolvedWriteExtents(plan, blocks)
  <2>1. s \in Seq(E) /\ \A k, j \in DOMAIN s : k < j => Precedes(s[k], s[j])
    BY <1>2, Zenon DEF Sorted
  <2> HIDE DEF E
  <2>2. i - 1 \in DOMAIN s /\ i - 1 < i /\ s[i - 1] \in E /\ s[i] \in E
    BY <1>2, <2>1
  <2>3. PICK a \in Intervals(plan), b \in Intervals(plan) :
          s[i - 1] = Resolved(a, blocks) /\ s[i] = Resolved(b, blocks)
    BY <2>2 DEF E, ResolvedWriteExtents
  <2>4. Precedes(s[i - 1], s[i])
    BY <1>2, <2>1, <2>2
  <2>5. /\ s[i - 1] \in Extent /\ s[i - 1].start < s[i - 1].end
        /\ s[i] \in Extent /\ s[i].start < s[i].end
    BY <2>3, IntervalOf, IntervalsFit, ResolvedExtent
  <2>6. a # b
    <3>1. ~Precedes(s[i], s[i])
      BY <2>5 DEF Precedes, DeclaredBefore, Extent
    <3> QED BY <2>3, <2>4, <3>1
  <2>7. Apart(s[i - 1], s[i])
    BY <2>3, <2>6, ResolvedApart
  <2>8. s[i - 1].start <= s[i].start
    BY <2>4, <2>5 DEF Precedes, Extent
  <2> QED BY <2>5, <2>7, <2>8 DEF Apart, Extent
<1> QED BY <1>1, <1>2 DEF NeighboursApart

\* A descriptor's payload ends before that of every later one, and in the image.
LEMMA PayloadInTurn ==
  ASSUME NEW plan, PlansSingleStoreV1(plan), NEW d \in DOMAIN plan.writes
  PROVE  /\ \A e \in DOMAIN plan.writes :
              d < e => PayloadEnd(plan.writes[d]) <= plan.writes[e].payload
         /\ PayloadEnd(plan.writes[d]) <= plan.total
<1> DEFINE Payload(e) == plan.writes[e].payload
           End(e) == PayloadEnd(plan.writes[e])
           Last == Len(plan.writes)
<1>1. /\ d \in Nat /\ DOMAIN plan.writes = 1..Last /\ Last \in Nat
      /\ \A e \in 1..Last : Payload(e) \in Nat /\ End(e) \in Nat /\ Payload(e) <= End(e)
  <2>1. DOMAIN plan.writes = 1..Last /\ Last \in Nat
    BY WriteTypes
  <2>2. ASSUME NEW e \in 1..Last
        PROVE  Payload(e) \in Nat /\ End(e) \in Nat /\ Payload(e) <= End(e)
    <3>1. Payload(e) \in Nat /\ plan.writes[e].count \in Nat
      BY <2>1, <2>2, WriteTypes
    <3> QED BY <3>1 DEF PayloadEnd
  <2> QED BY <2>1, <2>2
<1>2. /\ \A e \in 1..Last : e # 1 => Payload(e) = End(e - 1)
      /\ Last # 0 => plan.total = End(Last)
  <2>1. plan.writes = <<>> => Last = 0
    OBVIOUS
  <2> QED BY <1>1, <2>1 DEF PlansSingleStoreV1
<1> HIDE DEF Payload, End, Last
<1>3. ASSUME NEW e \in 1..Last, d < e, ~(End(d) <= Payload(e))
      PROVE  FALSE
  <2> DEFINE Late == {n \in 1..Last : d < n /\ ~(End(d) <= Payload(n))}
  <2>1. PICK n \in Late : \A m \in Late : n <= m
    <3>1. Late \in SUBSET Nat
      BY <1>1
    <3>2. e \in Late
      BY <1>3
    <3> HIDE DEF Late
    <3> QED BY <3>1, <3>2, LeastNatural, Zenon
  <2>2. n - 1 \in 1..Last /\ n # 1 /\ n - 1 >= d
    BY <1>1, <2>1
  <2>3. Payload(n) = End(n - 1)
    BY <1>2, <2>1, <2>2
  <2>4. n - 1 # d
    BY <1>1, <2>1, <2>3
  <2>5. End(d) <= Payload(n - 1)
    BY <1>1, <2>1, <2>2, <2>4
  <2> QED BY <1>1, <2>1, <2>2, <2>3, <2>5
<1>4. End(d) <= plan.total
  <2>1. Last # 0 /\ d <= Last /\ d \in 1..Last /\ Last \in 1..Last
    BY <1>1
  <2>2. CASE d = Last
    BY <1>1, <1>2, <2>1, <2>2
  <2>3. CASE d < Last
    BY <1>1, <1>2, <1>3, <2>1, <2>3
  <2> QED BY <1>1, <2>1, <2>2, <2>3
<1> QED BY <1>1, <1>3, <1>4 DEF Payload, End

\* Operations are resolved extents, each taken once.
LEMMA OperationOf ==
  ASSUME NEW plan, NEW blocks \in Nat, NEW operations, Planned(operations, plan, blocks)
  PROVE  /\ DOMAIN operations = 1..Len(operations) /\ Len(operations) \in Nat \ {0}
         /\ \A i \in 1..Len(operations) : operations[i] \in Extent
         /\ \A i \in 1..Len(operations) :
              \E a \in Intervals(plan) : operations[i] = Resolved(a, blocks)
         /\ \A i, j \in 1..Len(operations) : operations[i] = operations[j] => i = j
<1> DEFINE E == ResolvedWriteExtents(plan, blocks)
<1>1. /\ PlansSingleStoreV1(plan) /\ FitsTarget(plan, blocks) /\ plan.writes # <<>>
      /\ operations \in Seq(E) /\ \A e \in E : \E i \in DOMAIN operations : operations[i] = e
      /\ \A i, j \in DOMAIN operations : i < j => DeclaredBefore(operations[i], operations[j])
  BY Zenon DEF Planned, BindsTarget, OrdersWrites, SinglePhase
<1>2. \A e \in E : \E a \in Intervals(plan) : e = Resolved(a, blocks)
  BY DEF ResolvedWriteExtents
<1>3. E # {}
  <2>1. 1 \in DOMAIN plan.writes
    BY <1>1, WriteTypes
  <2>2. 1 \in DOMAIN plan.writes[1].locations
    <3>1. plan.writes[1].locations \in Seq([anchor : Anchors, block : Nat])
          /\ plan.writes[1].locations # <<>>
      BY <1>1, <2>1, WriteTypes
    <3> QED BY <3>1, NonEmptySequence
  <2>3. IntervalAt(plan, 1, 1) \in Intervals(plan)
    BY <2>1, <2>2 DEF Intervals, IntervalAt
  <2> QED BY <2>3 DEF ResolvedWriteExtents
<1>4. \A e \in E : e \in Extent
  BY <1>1, <1>2, IntervalOf, IntervalsFit, ResolvedExtent
<1> HIDE DEF E
<1>5. DOMAIN operations = 1..Len(operations) /\ Len(operations) \in Nat
      /\ \A i \in 1..Len(operations) : operations[i] \in E
  BY <1>1
<1>6. Len(operations) # 0
  BY <1>1, <1>3, <1>5
<1>7. ASSUME NEW i \in 1..Len(operations), NEW j \in 1..Len(operations),
             operations[i] = operations[j], i # j
      PROVE  FALSE
  <2>1. DeclaredBefore(operations[i], operations[i])
    BY <1>1, <1>5, <1>7
  <2> QED BY <1>4, <1>5, <2>1 DEF DeclaredBefore, Extent
<1> QED BY <1>2, <1>4, <1>5, <1>6, <1>7

\* The operations of PlanSinglePhaseFullFlashWriteOrder stay on the target and in
\* the payload.  Two of them never write the same block; those of one descriptor copy the
\* same payload, and those of two have no payload block in common.
THEOREM OperationsIndependent ==
  ASSUME NEW plan, NEW blocks \in Nat, NEW operations, Planned(operations, plan, blocks)
  PROVE  \A i, j \in 1..Len(operations) :
           /\ operations[i].start < operations[i].end /\ operations[i].end <= blocks
           /\ operations[i].payload + (operations[i].end - operations[i].start) <= plan.file
           /\ i # j => Apart(operations[i], operations[j])
           /\ operations[i].descriptor = operations[j].descriptor =>
                /\ operations[i].payload = operations[j].payload
                /\ operations[i].end - operations[i].start = operations[j].end - operations[j].start
           /\ operations[i].descriptor < operations[j].descriptor =>
                operations[i].payload + (operations[i].end - operations[i].start)
                  <= operations[j].payload
<1>1. PlansSingleStoreV1(plan) /\ FitsTarget(plan, blocks) /\ plan.total <= plan.file
      /\ plan.total \in Nat /\ plan.file \in Nat
  BY DEF Planned, BindsTarget, PlansSingleStoreV1, DescriptorPlan
<1>2. ASSUME NEW a \in Intervals(plan)
      PROVE  LET r == Resolved(a, blocks)
             IN  /\ r.start < r.end /\ r.end <= blocks
                 /\ r.descriptor = a.descriptor /\ r.payload = plan.writes[a.descriptor].payload
                 /\ r.end - r.start = plan.writes[a.descriptor].count
                 /\ a.descriptor \in DOMAIN plan.writes
                 /\ r.payload + (r.end - r.start) = PayloadEnd(plan.writes[a.descriptor])
  <2>1. /\ a \in Extent /\ a.start < a.end /\ a.end <= blocks
        /\ a.descriptor \in DOMAIN plan.writes
        /\ a.payload = plan.writes[a.descriptor].payload
        /\ a.end = a.start + plan.writes[a.descriptor].count
    BY <1>1, IntervalOf, IntervalsFit DEF IntervalAt
  <2>2. a.end - a.start = plan.writes[a.descriptor].count
    BY <1>1, <2>1, WriteTypes DEF Extent
  <2> QED BY <2>1, <2>2, ResolvedExtent DEF PayloadEnd
<1>3. ASSUME NEW i \in 1..Len(operations), NEW j \in 1..Len(operations)
      PROVE  /\ operations[i].start < operations[i].end /\ operations[i].end <= blocks
             /\ operations[i].payload + (operations[i].end - operations[i].start) <= plan.file
             /\ i # j => Apart(operations[i], operations[j])
             /\ operations[i].descriptor = operations[j].descriptor =>
                  /\ operations[i].payload = operations[j].payload
                  /\ operations[i].end - operations[i].start = operations[j].end - operations[j].start
             /\ operations[i].descriptor < operations[j].descriptor =>
                  operations[i].payload + (operations[i].end - operations[i].start)
                    <= operations[j].payload
  <2>1. PICK a \in Intervals(plan), b \in Intervals(plan) :
          operations[i] = Resolved(a, blocks) /\ operations[j] = Resolved(b, blocks)
    <3>1. \A k \in 1..Len(operations) :
            \E a \in Intervals(plan) : operations[k] = Resolved(a, blocks)
      BY ONLY OperationOf, Planned(operations, plan, blocks), blocks \in Nat
    <3> QED BY <1>3, <3>1, Zenon
  <2>2. i # j => a # b
    BY <2>1, OperationOf
  <2>3. i # j => Apart(operations[i], operations[j])
    BY <1>1, <2>1, <2>2, ResolvedApart
  <2>4. operations[i].start < operations[i].end /\ operations[i].end <= blocks
    BY <1>2, <2>1
  <2>5. operations[i].payload + (operations[i].end - operations[i].start) <= plan.file
    <3>1. operations[i].payload + (operations[i].end - operations[i].start)
            = PayloadEnd(plan.writes[a.descriptor]) /\ a.descriptor \in DOMAIN plan.writes
      BY <1>2, <2>1
    <3>2. PayloadEnd(plan.writes[a.descriptor]) <= plan.total
          /\ PayloadEnd(plan.writes[a.descriptor]) \in Nat
      BY <1>1, <3>1, PayloadInTurn, WriteTypes, Zenon
    <3> QED BY <1>1, <3>1, <3>2
  <2>6. operations[i].descriptor = operations[j].descriptor =>
          /\ operations[i].payload = operations[j].payload
          /\ operations[i].end - operations[i].start = operations[j].end - operations[j].start
    BY <1>2, <2>1
  <2>7. ASSUME operations[i].descriptor < operations[j].descriptor
        PROVE  operations[i].payload + (operations[i].end - operations[i].start)
                 <= operations[j].payload
    <3>1. /\ a.descriptor \in DOMAIN plan.writes /\ b.descriptor \in DOMAIN plan.writes
          /\ a.descriptor < b.descriptor
          /\ operations[j].payload = plan.writes[b.descriptor].payload
          /\ operations[i].payload + (operations[i].end - operations[i].start)
               = PayloadEnd(plan.writes[a.descriptor])
      BY <1>2, <2>1, <2>7
    <3> QED BY <1>1, <3>1, PayloadInTurn, Zenon
  <2> QED BY <2>3, <2>4, <2>5, <2>6, <2>7
<1> QED BY <1>3, Zenon

\* What the planners hand to the executor is what FullFlash assumes of Plan, for
\* any image they accept and any target.
THEOREM PlansAreExecutable ==
  ASSUME NEW plan, NEW blocks \in Nat, NEW operations, Planned(operations, plan, blocks),
         NEW block, \A n \in Nat : block[n] \notin {"altered", "old", "torn"}
  PROVE  Executable(StepsOf(operations, block))
<1> DEFINE steps == StepsOf(operations, block)
           Op(i) == [from |-> block[operations[i].payload], to |-> operations[i].start]
<1>1. Len(operations) \in Nat \ {0} /\ \A i \in 1..Len(operations) : operations[i] \in Extent
  BY OperationOf, Zenon
<1>2. Len(steps) = Len(operations) /\ \A i \in 1..Len(steps) : steps[i] = Op(i)
  <2>1. steps = [i \in 1..Len(operations) |-> Op(i)]
    BY Zenon DEF StepsOf
  <2> HIDE DEF steps, Op
  <2> QED BY <1>1, <2>1
<1>3. ASSUME NEW i \in 1..Len(steps), NEW j \in 1..Len(steps), i # j
      PROVE  steps[i].to # steps[j].to
  <2>1. /\ Apart(operations[i], operations[j])
        /\ operations[i].start < operations[i].end /\ operations[j].start < operations[j].end
    BY <1>2, <1>3, OperationsIndependent, Zenon
  <2>2. /\ operations[i].start \in Nat /\ operations[i].end \in Nat
        /\ operations[j].start \in Nat /\ operations[j].end \in Nat
    BY <1>1, <1>2, <1>3 DEF Extent
  <2>3. operations[i].start # operations[j].start
    BY <2>1, <2>2 DEF Apart
  <2>4. steps[i].to = operations[i].start /\ steps[j].to = operations[j].start
    <3>1. Op(i).to = operations[i].start /\ Op(j).to = operations[j].start
      OBVIOUS
    <3> HIDE DEF steps, Op
    <3> QED BY <1>2, <1>3, <3>1, Zenon
  <2> QED BY <2>3, <2>4
<1>4. ASSUME NEW i \in 1..Len(steps)
      PROVE  steps[i].from \notin {"altered", "old", "torn"}
  <2>1. operations[i].payload \in Nat
    BY <1>1, <1>2, <1>4 DEF Extent
  <2>2. steps[i].from = block[operations[i].payload]
    <3>1. Op(i).from = block[operations[i].payload]
      BY Zenon
    <3> HIDE DEF steps, Op
    <3> QED BY <1>2, <1>4, <3>1, Zenon
  <2> QED BY <2>1, <2>2, Zenon
<1> HIDE DEF steps
<1>5. Len(steps) > 0
  BY <1>1, <1>2
<1>6. Executable(steps)
  BY <1>3, <1>4, <1>5 DEF Executable
<1> QED BY <1>6 DEF steps

-----------------------------------------------------------------------------
(* The stages, by what a command has established when it reaches them *)
Verifying == {"post-write", "readback-check", "readback-source", "readback-target"}
Writing == {"write-check", "write-read", "write", "sync"}
Confirmed == {"authorize", "revalidate", "consume"} \cup Writing \cup Verifying
TargetBound == {"confirm"} \cup Confirmed
Opened == {"bind-target"} \cup TargetBound
SourceLeased == {"open-target"} \cup Opened
Bound == {"lease", "authenticate-leased"} \cup SourceLeased
Inspected == {"authenticate", "discover", "bind-review"} \cup Bound
Active == {"inspect"} \cup Inspected

\* A disk that was opened is not mounted while it stays in the port, and once
\* unplugged it never comes back under the same sequence number.
PortInv ==
  /\ port = None => ~mounted
  /\ port # None => port.seq <= attached
  /\ run.fd # None => run.fd.seq <= attached /\ (port = run.fd => ~mounted)

\* What the command holds, and what was reviewed.
StageInv ==
  /\ run.pc \in Active => run.want # None
  /\ run.pc \in Active /\ run.restore => review # None
  /\ run.pc \in Inspected => run.trust >= 1 /\ run.version <= source.version
  /\ run.pc \in {"bind-review"} \cup Bound => run.target # None
  /\ run.pc \in Bound => run.restore /\ review = Binding
  /\ run.pc \in Opened => run.fd # None
  /\ run.pc \in TargetBound => run.fd = run.target
  /\ run.pc \in Confirmed => run.phrase
  /\ run.pc \in Active \ (Writing \cup Verifying) => run.i = 1
  /\ run.pc \in {"write-read", "write", "readback-source", "readback-target"} => run.i \in Steps
  /\ run.pc = "sync" => run.i \notin Steps

\* What the result will say.
ResultInv ==
  /\ run.pc \in Active => run.status = "none" /\ run.touched = run.started
  /\ run.pc \in Active \ Executing => ~run.started
  /\ run.pc \in Active => /\ run.wrote <=> run.pc \in {"sync"} \cup Verifying
                          /\ run.synced <=> run.pc \in Verifying
  /\ run.status \in {"verified", "written-unverified"} =>
       run.target # None /\ media[run.target.disk] = cache[run.target.disk]

\* The source is authentic as long as its identity is the one that was read.
SourceInv ==
  /\ run.pc \in SourceLeased /\ source.version = run.version => Authentic
  /\ run.pc \in {"write", "readback-target"} => run.buf \in SourceData
  /\ run.pc = "readback-target" /\ source.version = run.version => run.buf = Plan[run.i].from

\* The blocks that were written, until the disk is unplugged; then what is
\* durable; then what was read back.
WrittenInv ==
  run.pc \in Writing /\ port = run.fd =>
    \A j \in Steps : j < run.i => cache[run.fd.disk][Plan[j].to] \in SourceData
DurableInv ==
  run.pc \in Verifying =>
    /\ media[run.fd.disk] = cache[run.fd.disk]
    /\ \A j \in Steps : media[run.fd.disk][Plan[j].to] \in SourceData
ReadBackInv ==
  run.pc \in Verifying \ {"post-write"} /\ source.version = run.version =>
    \A j \in Steps : j < run.i => cache[run.fd.disk][Plan[j].to] = Plan[j].from

Core ==
  /\ PortInv /\ StageInv /\ ResultInv
  /\ SourceInv /\ WrittenInv /\ DurableInv /\ ReadBackInv
  /\ StatusHonest

Inv == TypeOK /\ Core

USE NoneIsNoPort DEF At, Goto, Local, kernel, storage

-----------------------------------------------------------------------------
(* The command *)

\* The record of the command has its type.
LEMMA RunType == ASSUME Inv PROVE run \in Runs
BY DEF Inv, TypeOK

\* What a stage implies of the others.
LEMMA StageSets ==
  /\ Verifying \subseteq Executing /\ Writing \subseteq Executing
  /\ Executing \subseteq Active /\ Verifying \cap Writing = {}
  /\ Verifying \cup Writing \subseteq Confirmed /\ Confirmed \subseteq TargetBound
  /\ TargetBound \subseteq Opened /\ Opened \subseteq SourceLeased
  /\ SourceLeased \subseteq Bound /\ Bound \subseteq Inspected /\ Inspected \subseteq Active
  /\ Active \subseteq Stages /\ {"idle", "cleanup"} \cap Active = {}
BY DEF Active, Inspected, Bound, SourceLeased, Opened, TargetBound, Confirmed, Writing,
       Verifying, Executing, Stages

\* What the environment of a command step keeps.
Still == UNCHANGED <<source, port, attached, mounted, cache, media, review>>

\* A step that only moves on to a stage, and what that stage needs more than
\* the one before.
LEMMA GotoKeeps ==
  ASSUME Inv, NEW stage \in Active \ {"post-write", "write", "readback-target"},
         Goto(stage), Still, run.pc \in Active \ {"post-write"},
         stage \in Inspected => run.pc \in Inspected,
         stage \in Bound => run.pc \in Bound \/
           (run.target # None /\ run.restore /\ review = Binding),
         stage = "bind-review" => run.pc = "bind-review",
         stage \in SourceLeased => run.pc \in SourceLeased \/ Authentic,
         stage \in Opened => run.pc \in Opened,
         stage \in TargetBound => run.pc \in TargetBound \/ run.fd = run.target,
         stage \in Confirmed => run.pc \in Confirmed \/ run.phrase,
         stage \in {"write-read", "readback-source"} => run.i \in Steps,
         run.pc \in Executing => stage \in Executing,
         stage \in Writing <=> run.pc \in Writing,
         stage = "sync" <=> run.pc = "sync",
         stage \in Verifying <=> run.pc \in Verifying
  PROVE  run' \in Runs /\ run'.pc # "idle" /\ Core'
<1>1. /\ run'.pc = stage /\ run'.fd = run.fd /\ run'.i = run.i
      /\ run'.restore = run.restore /\ run'.phrase = run.phrase /\ run'.want = run.want
      /\ run'.version = run.version /\ run'.trust = run.trust /\ run'.target = run.target
      /\ run'.started = run.started /\ run'.wrote = run.wrote /\ run'.synced = run.synced
      /\ run'.status = run.status /\ run'.touched = run.touched
  BY RunType DEF Runs
<1>2. run' \in Runs
  <2>1. stage \in Stages
    BY DEF Stages, Active, Inspected, Bound, SourceLeased, Opened, TargetBound, Confirmed,
           Writing, Verifying
  <2> QED BY <2>1, RunType, SMT DEF Runs
<1>3. PortInv'
  BY <1>1 DEF Inv, Core, PortInv, Still
<1>4. StageInv'
  BY <1>1 DEF Inv, Core, StageInv, Still, Binding, Bound, Opened, TargetBound, Confirmed,
              Inspected, Active, SourceLeased
<1>5. ResultInv'
  BY <1>1 DEF Inv, Core, ResultInv, Still
<1>6. SourceInv'
  BY <1>1 DEF Inv, Core, SourceInv, Still, Authentic
<1>7. WrittenInv' /\ DurableInv'
  BY <1>1 DEF Inv, Core, WrittenInv, DurableInv, Still
<1>8. ReadBackInv'
  BY <1>1 DEF Inv, Core, ReadBackInv, Still
<1>9. StatusHonest'
  BY <1>1 DEF Inv, Core, StatusHonest, Still
<1> QED BY <1>1, <1>2, <1>3, <1>4, <1>5, <1>6, <1>7, <1>8, <1>9, StageSets DEF Core

\* A command that ends has nothing left to establish but its result.
LEMMA EndKeeps ==
  ASSUME Inv, run'.pc \in {"idle", "cleanup"}, run'.fd \in {run.fd, None},
         UNCHANGED <<source, port, attached, mounted>>
  PROVE  PortInv' /\ StageInv' /\ SourceInv' /\ WrittenInv' /\ DurableInv' /\ ReadBackInv'
<1>1. PortInv'
  BY DEF Inv, Core, PortInv
<1>2. run'.pc \notin Active /\ run'.pc \notin Inspected /\ run'.pc \notin Bound
      /\ run'.pc \notin SourceLeased /\ run'.pc \notin Opened /\ run'.pc \notin TargetBound
      /\ run'.pc \notin Confirmed /\ run'.pc \notin Writing /\ run'.pc \notin Verifying
  BY DEF Active, Inspected, Bound, SourceLeased, Opened, TargetBound, Confirmed, Writing,
         Verifying
<1> QED
  BY <1>1, <1>2 DEF StageInv, SourceInv, WrittenInv, DurableInv, ReadBackInv

\* The steps that only move on.
LEMMA PassKeeps ==
  ASSUME Inv,
         \/ Authenticate \/ RequireBinding \/ AcquireLease \/ AuthenticateLeased
         \/ BindTarget \/ Confirm \/ Authorize \/ Revalidate \/ WriteCheck \/ ReadbackCheck
  PROVE  run' \in Runs /\ run'.pc # "idle" /\ Core'
<1> USE DEF Active, Inspected, Bound, SourceLeased, Opened, TargetBound, Confirmed, Writing,
            Verifying, Executing
<1>1. CASE Authenticate
  BY <1>1, GotoKeeps DEF Authenticate, Still
<1>2. CASE RequireBinding
  BY <1>2, GotoKeeps DEF RequireBinding, BindingMatches, Still, Inv, Core, StageInv
<1>3. CASE AcquireLease
  BY <1>3, GotoKeeps DEF AcquireLease, Still
<1>4. CASE AuthenticateLeased
  BY <1>4, GotoKeeps DEF AuthenticateLeased, Still
<1>5. CASE BindTarget
  BY <1>5, GotoKeeps DEF BindTarget, SessionHealthy, DescriptorAlive, SameTarget, Still
<1>6. CASE Confirm
  BY <1>6, GotoKeeps DEF Confirm, Still
<1>7. CASE Authorize
  BY <1>7, GotoKeeps DEF Authorize, Still
<1>8. CASE Revalidate
  BY <1>8, GotoKeeps DEF Revalidate, Still
<1>9. CASE WriteCheck
  BY <1>9, GotoKeeps DEF WriteCheck, Still
<1>10. CASE ReadbackCheck
  BY <1>10, GotoKeeps DEF ReadbackCheck, Still
<1> QED BY <1>1, <1>2, <1>3, <1>4, <1>5, <1>6, <1>7, <1>8, <1>9, <1>10

\* The review: the identity of the source, the trust bundle and the target are
\* taken, and the binding is emitted.
LEMMA InspectSourceKeeps ==
  ASSUME Inv, InspectSource
  PROVE  run' \in Runs /\ run'.pc # "idle" /\ Core'
<1>1. /\ run'.pc = "authenticate" /\ run'.version = source.version /\ run'.trust = trust
      /\ run'.restore = run.restore /\ run'.fd = run.fd /\ run'.started = run.started
      /\ run'.wrote = run.wrote /\ run'.synced = run.synced /\ run'.status = run.status
      /\ run'.touched = run.touched /\ run'.target = run.target /\ run'.want = run.want
      /\ run'.i = run.i
  BY RunType DEF InspectSource, Runs
<1>2. /\ source.version \in 0..MaxVersion /\ trust \in 0..MaxTrust /\ trust >= 1
      /\ "authenticate" \in Stages
  BY BoundsAssumption DEF Inv, TypeOK, Stages
<1>3. run' \in Runs
  BY <1>2, RunType, Zenon DEF InspectSource, Runs
<1>4. PortInv' /\ StatusHonest'
  BY <1>1 DEF InspectSource, Inv, Core, PortInv, StatusHonest
<1>5. StageInv'
  BY <1>1, <1>2 DEF InspectSource, Inv, Core, StageInv, Active, Inspected, Bound, SourceLeased,
                    Opened, TargetBound, Confirmed, Writing, Verifying
<1>6. ResultInv'
  BY <1>1 DEF InspectSource, Inv, Core, ResultInv, Active, Inspected, Executing, Verifying
<1>7. SourceInv' /\ WrittenInv' /\ DurableInv' /\ ReadBackInv'
  BY <1>1 DEF SourceInv, WrittenInv, DurableInv, ReadBackInv, SourceLeased, Opened, TargetBound,
              Confirmed, Writing, Verifying
<1> QED BY <1>1, <1>3, <1>4, <1>5, <1>6, <1>7 DEF Core

\* discoverLinuxFFU binds the identity of the disk that is in the port.
LEMMA DiscoverKeeps ==
  ASSUME Inv, Discover
  PROVE  run' \in Runs /\ run'.pc # "idle" /\ Core'
<1>1. /\ run'.pc = "bind-review" /\ run'.version = run.version /\ run'.trust = run.trust
      /\ run'.restore = run.restore /\ run'.fd = run.fd /\ run'.started = run.started
      /\ run'.wrote = run.wrote /\ run'.synced = run.synced /\ run'.status = run.status
      /\ run'.touched = run.touched /\ run'.target = port /\ run'.want = run.want
      /\ run'.i = run.i
  BY RunType DEF Discover, Runs
<1>2. run' \in Runs
  <2>1. port \in Ports \cup {None} /\ mounted \in BOOLEAN /\ "bind-review" \in Stages
    BY DEF Inv, TypeOK, Stages
  <2> QED BY <2>1, RunType, Zenon DEF Discover, Runs
<1>3. run.status = "none" /\ port # None
  BY DEF Discover, Inv, Core, StageInv, ResultInv, Active, Inspected
<1>4. PortInv' /\ StatusHonest'
  BY <1>1, <1>3 DEF Discover, Inv, Core, PortInv, StatusHonest
<1>5. StageInv'
  BY <1>1, <1>3 DEF Discover, Inv, Core, StageInv, Active, Inspected, Bound, SourceLeased,
                    Opened, TargetBound, Confirmed, Writing, Verifying
<1>6. ResultInv'
  BY <1>1, <1>3 DEF Discover, Inv, Core, ResultInv, Active, Inspected, Executing, Verifying
<1>7. SourceInv' /\ WrittenInv' /\ DurableInv' /\ ReadBackInv'
  BY <1>1 DEF SourceInv, WrittenInv, DurableInv, ReadBackInv, SourceLeased, Opened, TargetBound,
              Confirmed, Writing, Verifying
<1> QED BY <1>1, <1>2, <1>4, <1>5, <1>6, <1>7 DEF Core

\* The review is written out with the binding the command has computed, and it ends.
LEMMA EmitReviewKeeps ==
  ASSUME Inv, EmitReview
  PROVE  run' \in Runs /\ run'.pc # "idle" /\ Core'
<1>1. /\ run'.pc = "cleanup" /\ run'.fd = run.fd /\ run'.status = run.status
      /\ run'.touched = run.touched /\ run'.target = run.target
  BY RunType DEF EmitReview, Runs
<1>2. run' \in Runs
  BY RunType, SMT DEF EmitReview, Runs, Stages
<1>3. run.status = "none"
  BY DEF EmitReview, Inv, Core, ResultInv, Active, Inspected
<1>4. ResultInv' /\ StatusHonest'
  BY <1>1, <1>3, StageSets DEF ResultInv, StatusHonest
<1> QED BY <1>1, <1>2, <1>4, EndKeeps DEF EmitReview, Core

-----------------------------------------------------------------------------
\* What is opened is the disk in the port, and it is not mounted.
LEMMA OpenTargetKeeps ==
  ASSUME Inv, OpenTarget
  PROVE  run' \in Runs /\ run'.pc # "idle" /\ Core'
<1>1. /\ run'.pc = "bind-target" /\ run'.fd = port /\ run'.i = run.i
      /\ run'.restore = run.restore /\ run'.want = run.want
      /\ run'.version = run.version /\ run'.trust = run.trust /\ run'.target = run.target
      /\ run'.started = run.started /\ run'.wrote = run.wrote /\ run'.synced = run.synced
      /\ run'.status = run.status /\ run'.touched = run.touched
  BY RunType DEF OpenTarget, Runs
<1>2. run' \in Runs
  <2>1. port \in Ports \cup {None} /\ "bind-target" \in Stages
    BY DEF Inv, TypeOK, Stages
  <2> QED BY <2>1, RunType, Zenon DEF OpenTarget, Runs
<1>3. PortInv' /\ StatusHonest'
  BY <1>1 DEF OpenTarget, Inv, Core, PortInv, StatusHonest
<1>4. StageInv'
  BY <1>1 DEF OpenTarget, Inv, Core, StageInv, Binding, Active, Inspected, Bound, SourceLeased,
              Opened, TargetBound, Confirmed, Writing, Verifying
<1>5. ResultInv'
  BY <1>1 DEF OpenTarget, Inv, Core, ResultInv, Active, Inspected, Bound, SourceLeased, Opened,
              Executing, Verifying
<1>6. SourceInv' /\ WrittenInv' /\ DurableInv' /\ ReadBackInv'
  BY <1>1 DEF OpenTarget, Inv, Core, SourceInv, WrittenInv, DurableInv, ReadBackInv, Authentic,
              SourceLeased, Writing, Verifying
<1> QED BY <1>1, <1>2, <1>3, <1>4, <1>5, <1>6 DEF Core

\* The writes start, at the first operation: nothing has moved the index yet.
LEMMA ConsumeKeeps ==
  ASSUME Inv, Consume
  PROVE  run' \in Runs /\ run'.pc # "idle" /\ Core'
<1>1. /\ run'.pc = "write-check" /\ run'.fd = run.fd /\ run'.i = run.i
      /\ run'.restore = run.restore /\ run'.phrase = run.phrase /\ run'.want = run.want
      /\ run'.version = run.version /\ run'.trust = run.trust /\ run'.target = run.target
      /\ run'.started = run.started /\ run'.wrote = run.wrote /\ run'.synced = run.synced
      /\ run'.status = run.status /\ run'.touched = run.touched
  BY RunType DEF Consume, Runs
<1>2. run' \in Runs
  <2>1. TRUE \in BOOLEAN /\ "write-check" \in Stages
    BY DEF Stages
  <2> QED BY <2>1, RunType, Zenon DEF Consume, Runs
<1>3. PortInv' /\ StatusHonest'
  BY <1>1 DEF Consume, Inv, Core, PortInv, StatusHonest
<1>4. StageInv'
  BY <1>1, StageSets DEF Consume, Inv, Core, StageInv, Binding, Writing, Confirmed
<1>5. ResultInv'
  BY <1>1, StageSets DEF Consume, Inv, Core, ResultInv, Writing, Executing, Verifying
<1>6. SourceInv' /\ DurableInv' /\ ReadBackInv'
  BY <1>1, StageSets DEF Consume, Inv, Core, SourceInv, DurableInv, ReadBackInv, Authentic,
              Confirmed, Writing, Verifying
<1>7. WrittenInv'
  <2>1. run'.i = 1
    BY <1>1, StageSets DEF Consume, Inv, Core, StageInv, Active, Inspected, Bound, SourceLeased,
                          Opened, TargetBound, Confirmed, Writing, Verifying
  <2> QED BY <2>1 DEF WrittenInv, Steps
<1> QED BY <1>1, <1>2, <1>3, <1>4, <1>5, <1>6, <1>7 DEF Core

-----------------------------------------------------------------------------
(* Writing *)

\* An operation names a block of the source and a block of the target.
LEMMA OperationBlocks ==
  ASSUME NEW j \in Steps
  PROVE  Plan[j].from \in SourceBlocks /\ Plan[j].to \in TargetBlocks
BY DEF SourceBlocks, TargetBlocks

\* A chunk of the source comes from the plan, or from whatever replaced the file.
LEMMA ReadChunkKeeps ==
  ASSUME Inv, ReadChunk
  PROVE  run' \in Runs /\ run'.pc # "idle" /\ Core'
<1>1. /\ run'.pc = "write" /\ run'.fd = run.fd /\ run'.i = run.i
      /\ run'.buf = source.data[Plan[run.i].from]
      /\ run'.restore = run.restore /\ run'.phrase = run.phrase /\ run'.want = run.want
      /\ run'.version = run.version /\ run'.trust = run.trust /\ run'.target = run.target
      /\ run'.started = run.started /\ run'.wrote = run.wrote /\ run'.synced = run.synced
      /\ run'.status = run.status /\ run'.touched = run.touched
  BY RunType DEF ReadChunk, Runs
<1>2. run'.buf \in SourceData
  <2>1. run.i \in Steps
    BY DEF ReadChunk, Inv, Core, StageInv
  <2> QED BY <1>1, <2>1, OperationBlocks DEF Inv, TypeOK
<1>3. run' \in Runs
  <2>1. source.data[Plan[run.i].from] \in SourceData \cup {None} /\ "write" \in Stages
    BY <1>1, <1>2 DEF Stages
  <2> QED BY <2>1, RunType, Zenon DEF ReadChunk, Runs
<1>4. PortInv' /\ StatusHonest'
  BY <1>1 DEF ReadChunk, Inv, Core, PortInv, StatusHonest
<1>5. StageInv'
  BY <1>1, StageSets DEF ReadChunk, Inv, Core, StageInv, Binding, Writing
<1>6. ResultInv'
  BY <1>1, StageSets DEF ReadChunk, Inv, Core, ResultInv, Writing, Verifying
<1>7. SourceInv' /\ DurableInv' /\ ReadBackInv'
  BY <1>1, <1>2, StageSets DEF ReadChunk, Inv, Core, SourceInv, DurableInv, ReadBackInv, Authentic,
              Writing, Verifying
<1>8. WrittenInv'
  BY <1>1 DEF ReadChunk, Inv, Core, WrittenInv, Writing
<1> QED BY <1>1, <1>3, <1>4, <1>5, <1>6, <1>7, <1>8 DEF Core

\* A write changes one block of the disk that is open and in the port.
LEMMA WriteOneBlock ==
  ASSUME Inv, At("write"), DescriptorAlive, NEW b \in TargetData,
         cache' = [cache EXCEPT ![run.fd.disk][Plan[run.i].to] = b]
  PROVE  /\ run.fd \in Ports /\ run.fd.disk \in Disks /\ run.i \in Steps
         /\ cache' \in [Disks -> [TargetBlocks -> TargetData]]
         /\ \A d \in Disks : d # run.fd.disk => cache'[d] = cache[d]
         /\ \A t \in TargetBlocks : cache'[run.fd.disk][t] =
              IF t = Plan[run.i].to THEN b ELSE cache[run.fd.disk][t]
<1>1. run.fd \in Ports /\ run.fd.disk \in Disks
  BY RunType DEF DescriptorAlive, Runs, Ports
<1>2. run.i \in Steps
  BY DEF Inv, Core, StageInv
<1>3. Plan[run.i].to \in TargetBlocks /\ cache \in [Disks -> [TargetBlocks -> TargetData]]
  BY <1>2, OperationBlocks DEF Inv, TypeOK
<1> QED BY <1>1, <1>2, <1>3

\* A whole block reaches the page cache of the open disk.
LEMMA WriteChunkKeeps ==
  ASSUME Inv, WriteChunk
  PROVE  run' \in Runs /\ run'.pc # "idle" /\ Core'
<1> DEFINE d == run.fd.disk
<1>1. /\ run'.pc = "write-check" /\ run'.fd = run.fd /\ run'.i = run.i + 1
      /\ run'.restore = run.restore /\ run'.phrase = run.phrase /\ run'.want = run.want
      /\ run'.version = run.version /\ run'.trust = run.trust /\ run'.target = run.target
      /\ run'.started = TRUE /\ run'.wrote = run.wrote /\ run'.synced = run.synced
      /\ run'.status = run.status /\ run'.touched = TRUE
  BY RunType DEF WriteChunk, Runs
<1>2. run.buf \in SourceData /\ run.status = "none" /\ run.pc = "write"
  BY StageSets DEF WriteChunk, Inv, Core, SourceInv, ResultInv, Writing
<1>3. /\ run.fd \in Ports /\ d \in Disks /\ run.i \in Steps
      /\ \A t \in TargetBlocks : cache'[d][t] = IF t = Plan[run.i].to THEN run.buf ELSE cache[d][t]
  BY <1>2, WriteOneBlock DEF WriteChunk, TargetData
<1>4. run' \in Runs
  <2>1. run.i + 1 \in 1..Len(Plan) + 1 /\ "write-check" \in Stages
          /\ None \in SourceData \cup {None}
        /\ TRUE \in BOOLEAN
    BY <1>3, BoundsAssumption DEF Steps, Stages
  <2> QED BY <2>1, RunType, Zenon DEF WriteChunk, Runs
<1>5. PortInv' /\ StatusHonest'
  BY <1>1, <1>2 DEF WriteChunk, Inv, Core, PortInv, StatusHonest
<1>6. StageInv'
  BY <1>1, StageSets DEF WriteChunk, Inv, Core, StageInv, Binding, Writing
<1>7. ResultInv'
  BY <1>1, <1>2, StageSets DEF WriteChunk, Inv, Core, ResultInv, Writing, Verifying
<1>8. SourceInv' /\ DurableInv' /\ ReadBackInv'
  BY <1>1, StageSets DEF WriteChunk, Inv, Core, SourceInv, DurableInv, ReadBackInv, Authentic,
              Writing, Verifying
<1>9. WrittenInv'
  <2> SUFFICES ASSUME NEW j \in Steps, j < run.i + 1
               PROVE  cache'[d][Plan[j].to] \in SourceData
    BY <1>1 DEF WrittenInv
  <2>1. Plan[j].to \in TargetBlocks
    BY OperationBlocks
  <2>2. CASE j = run.i
    BY <1>2, <1>3, <2>1, <2>2
  <2>3. CASE j < run.i
    <3>1. cache[d][Plan[j].to] \in SourceData
      BY <2>3 DEF WriteChunk, DescriptorAlive, Inv, Core, WrittenInv, Writing
    <3> QED BY <1>2, <1>3, <2>1, <3>1
  <2> QED BY <1>3, <2>2, <2>3 DEF Steps
<1> QED BY <1>1, <1>4, <1>5, <1>6, <1>7, <1>8, <1>9 DEF Core

\* A torn block ends the command, and its result says partially-modified.
LEMMA WriteTornKeeps ==
  ASSUME Inv, WriteTorn
  PROVE  run' \in Runs /\ run'.pc # "idle" /\ Core'
<1>1. /\ run'.pc = "cleanup" /\ run'.fd = run.fd /\ run'.status = "partially-modified"
  BY RunType DEF WriteTorn, Runs
<1>2. run' \in Runs
  <2>1. "cleanup" \in Stages /\ "partially-modified" \in Statuses /\ TRUE \in BOOLEAN
    BY DEF Stages, Statuses
  <2> QED BY <2>1, RunType, Zenon DEF WriteTorn, Runs
<1>3. ResultInv' /\ StatusHonest'
  BY <1>1, StageSets DEF ResultInv, StatusHonest
<1> QED BY <1>1, <1>2, <1>3, EndKeeps DEF WriteTorn, Core

\* All operations are written when the index has passed the last.
LEMMA EndWritesKeeps ==
  ASSUME Inv, EndWrites
  PROVE  run' \in Runs /\ run'.pc # "idle" /\ Core'
<1>1. /\ run'.pc = "sync" /\ run'.fd = run.fd /\ run'.i = run.i
      /\ run'.restore = run.restore /\ run'.phrase = run.phrase /\ run'.want = run.want
      /\ run'.version = run.version /\ run'.trust = run.trust /\ run'.target = run.target
      /\ run'.started = run.started /\ run'.wrote = TRUE /\ run'.synced = run.synced
      /\ run'.status = run.status /\ run'.touched = run.touched
  BY RunType DEF EndWrites, Runs
<1>2. run' \in Runs
  <2>1. TRUE \in BOOLEAN /\ "sync" \in Stages
    BY DEF Stages
  <2> QED BY <2>1, RunType, Zenon DEF EndWrites, Runs
<1>3. PortInv' /\ StatusHonest'
  BY <1>1 DEF EndWrites, Inv, Core, PortInv, StatusHonest
<1>4. StageInv'
  BY <1>1, StageSets DEF EndWrites, Inv, Core, StageInv, Binding, Writing
<1>5. ResultInv'
  BY <1>1, StageSets DEF EndWrites, Inv, Core, ResultInv, Writing, Verifying
<1>6. SourceInv' /\ DurableInv' /\ ReadBackInv'
  BY <1>1, StageSets DEF EndWrites, Inv, Core, SourceInv, DurableInv, ReadBackInv, Authentic,
              Writing, Verifying
<1>7. WrittenInv'
  BY <1>1 DEF EndWrites, Inv, Core, WrittenInv, Writing
<1> QED BY <1>1, <1>2, <1>3, <1>4, <1>5, <1>6, <1>7 DEF Core

\* Once the disk is synced, what was written is durable.
LEMMA SyncTargetKeeps ==
  ASSUME Inv, SyncTarget
  PROVE  run' \in Runs /\ run'.pc # "idle" /\ Core'
<1> DEFINE d == run.fd.disk
<1>1. /\ run'.pc = "post-write" /\ run'.fd = run.fd /\ run'.i = run.i
      /\ run'.restore = run.restore /\ run'.phrase = run.phrase /\ run'.want = run.want
      /\ run'.version = run.version /\ run'.trust = run.trust /\ run'.target = run.target
      /\ run'.started = run.started /\ run'.wrote = run.wrote /\ run'.synced = TRUE
      /\ run'.status = run.status /\ run'.touched = run.touched
  BY RunType DEF SyncTarget, Runs
<1>2. run' \in Runs
  <2>1. TRUE \in BOOLEAN /\ "post-write" \in Stages
    BY DEF Stages
  <2> QED BY <2>1, RunType, Zenon DEF SyncTarget, Runs
<1>3. run.status = "none"
  BY StageSets DEF SyncTarget, Inv, Core, ResultInv, Writing
<1>4. PortInv' /\ StatusHonest'
  BY <1>1, <1>3 DEF SyncTarget, Inv, Core, PortInv, StatusHonest
<1>5. StageInv'
  BY <1>1, StageSets DEF SyncTarget, Inv, Core, StageInv, Binding, Writing, Verifying
<1>6. ResultInv'
  BY <1>1, <1>3, StageSets DEF SyncTarget, Inv, Core, ResultInv, Writing, Verifying
<1>7. SourceInv' /\ WrittenInv' /\ ReadBackInv'
  BY <1>1, StageSets DEF SyncTarget, Inv, Core, SourceInv, WrittenInv, ReadBackInv, Authentic,
              Writing, Verifying
<1>8. DurableInv'
  <2>1. d \in Disks /\ media \in [Disks -> [TargetBlocks -> TargetData]]
    BY RunType DEF SyncTarget, DescriptorAlive, Runs, Ports, Inv, TypeOK
  <2>2. media'[d] = cache[d] /\ cache' = cache
    BY <2>1 DEF SyncTarget
  <2>3. ASSUME NEW j \in Steps PROVE cache[d][Plan[j].to] \in SourceData
    <3>1. j < run.i
      BY RunType, BoundsAssumption DEF SyncTarget, Inv, Core, StageInv, Runs, Steps
    <3> QED BY <3>1 DEF SyncTarget, DescriptorAlive, Inv, Core, WrittenInv, Writing
  <2> QED BY <1>1, <2>2, <2>3 DEF DurableInv
<1> QED BY <1>1, <1>2, <1>4, <1>5, <1>6, <1>7, <1>8 DEF Core

-----------------------------------------------------------------------------
(* Reading back *)

\* Source and target are examined again before the readback starts.
LEMMA PostWriteRevalidateKeeps ==
  ASSUME Inv, PostWriteRevalidate
  PROVE  run' \in Runs /\ run'.pc # "idle" /\ Core'
<1>1. /\ run'.pc = "readback-check" /\ run'.fd = run.fd /\ run'.i = 1
      /\ run'.restore = run.restore /\ run'.phrase = run.phrase /\ run'.want = run.want
      /\ run'.version = run.version /\ run'.trust = run.trust /\ run'.target = run.target
      /\ run'.started = run.started /\ run'.wrote = run.wrote /\ run'.synced = run.synced
      /\ run'.status = run.status /\ run'.touched = run.touched
  BY RunType DEF PostWriteRevalidate, Runs
<1>2. run' \in Runs
  <2>1. 1 \in 1..Len(Plan) + 1 /\ "readback-check" \in Stages
    BY BoundsAssumption DEF Stages
  <2> QED BY <2>1, RunType, Zenon DEF PostWriteRevalidate, Runs
<1>3. PortInv' /\ StatusHonest'
  BY <1>1 DEF PostWriteRevalidate, Inv, Core, PortInv, StatusHonest
<1>4. StageInv'
  BY <1>1, StageSets DEF PostWriteRevalidate, Inv, Core, StageInv, Binding, Verifying
<1>5. ResultInv'
  BY <1>1, StageSets DEF PostWriteRevalidate, Inv, Core, ResultInv, Verifying
<1>6. SourceInv' /\ WrittenInv' /\ DurableInv'
  BY <1>1, StageSets DEF PostWriteRevalidate, Inv, Core, SourceInv, WrittenInv, DurableInv,
              Authentic, Writing, Verifying
<1>7. ReadBackInv'
  BY <1>1 DEF ReadBackInv, Steps
<1> QED BY <1>1, <1>2, <1>3, <1>4, <1>5, <1>6, <1>7 DEF Core

\* The bytes to compare with are authentic, unless the source has changed.
LEMMA ReadbackSourceKeeps ==
  ASSUME Inv, ReadbackSource
  PROVE  run' \in Runs /\ run'.pc # "idle" /\ Core'
<1>1. /\ run'.pc = "readback-target" /\ run'.fd = run.fd /\ run'.i = run.i
      /\ run'.buf = source.data[Plan[run.i].from]
      /\ run'.restore = run.restore /\ run'.phrase = run.phrase /\ run'.want = run.want
      /\ run'.version = run.version /\ run'.trust = run.trust /\ run'.target = run.target
      /\ run'.started = run.started /\ run'.wrote = run.wrote /\ run'.synced = run.synced
      /\ run'.status = run.status /\ run'.touched = run.touched
  BY RunType DEF ReadbackSource, Runs
<1>2. run.i \in Steps /\ run'.buf \in SourceData
  <2>1. run.i \in Steps
    BY DEF ReadbackSource, Inv, Core, StageInv
  <2> QED BY <1>1, <2>1, OperationBlocks DEF Inv, TypeOK
<1>3. run' \in Runs
  <2>1. source.data[Plan[run.i].from] \in SourceData \cup {None} /\ "readback-target" \in Stages
    BY <1>1, <1>2 DEF Stages
  <2> QED BY <2>1, RunType, Zenon DEF ReadbackSource, Runs
<1>4. PortInv' /\ StatusHonest'
  BY <1>1 DEF ReadbackSource, Inv, Core, PortInv, StatusHonest
<1>5. StageInv'
  BY <1>1, StageSets DEF ReadbackSource, Inv, Core, StageInv, Binding, Verifying
<1>6. ResultInv'
  BY <1>1, StageSets DEF ReadbackSource, Inv, Core, ResultInv, Verifying
<1>7. SourceInv'
  BY <1>1, <1>2, StageSets, OperationBlocks DEF ReadbackSource, Inv, Core, SourceInv, Authentic,
              Verifying
<1>8. WrittenInv' /\ DurableInv' /\ ReadBackInv'
  BY <1>1, StageSets DEF ReadbackSource, Inv, Core, WrittenInv, DurableInv, ReadBackInv,
              Writing, Verifying
<1> QED BY <1>1, <1>3, <1>4, <1>5, <1>6, <1>7, <1>8 DEF Core

\* A block that reads back as its source does joins the prefix that was read back.
LEMMA ReadbackTargetKeeps ==
  ASSUME Inv, ReadbackTarget
  PROVE  run' \in Runs /\ run'.pc # "idle" /\ Core'
<1>1. /\ run'.pc = "readback-check" /\ run'.fd = run.fd /\ run'.i = run.i + 1
      /\ run'.restore = run.restore /\ run'.phrase = run.phrase /\ run'.want = run.want
      /\ run'.version = run.version /\ run'.trust = run.trust /\ run'.target = run.target
      /\ run'.started = run.started /\ run'.wrote = run.wrote /\ run'.synced = run.synced
      /\ run'.status = run.status /\ run'.touched = run.touched
  BY RunType DEF ReadbackTarget, Runs
<1>2. run.i \in Steps
  BY DEF ReadbackTarget, Inv, Core, StageInv
<1>3. run' \in Runs
  <2>1. run.i + 1 \in 1..Len(Plan) + 1 /\ "readback-check" \in Stages
        /\ None \in SourceData \cup {None}
    BY <1>2, BoundsAssumption DEF Steps, Stages
  <2> QED BY <2>1, RunType, Zenon DEF ReadbackTarget, Runs
<1>4. PortInv' /\ StatusHonest'
  BY <1>1 DEF ReadbackTarget, Inv, Core, PortInv, StatusHonest
<1>5. StageInv'
  BY <1>1, StageSets DEF ReadbackTarget, Inv, Core, StageInv, Binding, Verifying
<1>6. ResultInv'
  BY <1>1, StageSets DEF ReadbackTarget, Inv, Core, ResultInv, Verifying
<1>7. SourceInv' /\ WrittenInv' /\ DurableInv'
  BY <1>1, StageSets DEF ReadbackTarget, Inv, Core, SourceInv, WrittenInv, DurableInv, Authentic,
              Writing, Verifying
<1>8. ReadBackInv'
  <2> SUFFICES ASSUME source.version = run.version, NEW j \in Steps, j < run.i + 1
               PROVE  cache[run.fd.disk][Plan[j].to] = Plan[j].from
    BY <1>1 DEF ReadbackTarget, ReadBackInv
  <2>1. CASE j = run.i
    BY <2>1 DEF ReadbackTarget, Inv, Core, SourceInv
  <2>2. CASE j < run.i
    BY <2>2 DEF ReadbackTarget, Inv, Core, ReadBackInv, Verifying
  <2> QED BY <1>2, <2>1, <2>2 DEF Steps
<1> QED BY <1>1, <1>3, <1>4, <1>5, <1>6, <1>7, <1>8 DEF Core

\* The result says "verified" when every block was read back and the source
\* was the authenticated one throughout.
LEMMA FinalRevalidateKeeps ==
  ASSUME Inv, FinalRevalidate
  PROVE  run' \in Runs /\ run'.pc # "idle" /\ Core'
<1>1. /\ run'.pc = "cleanup" /\ run'.fd = run.fd /\ run'.status = "verified"
      /\ run'.target = run.target
  BY RunType DEF FinalRevalidate, Runs
<1>2. run' \in Runs
  <2>1. "cleanup" \in Stages /\ "verified" \in Statuses
    BY DEF Stages, Statuses
  <2> QED BY <2>1, RunType, Zenon DEF FinalRevalidate, Runs
<1>3. /\ run.fd = run.target /\ run.target # None
      /\ media[run.fd.disk] = cache[run.fd.disk]
  BY StageSets DEF FinalRevalidate, Inv, Core, StageInv, DurableInv, Verifying
<1>4. ResultInv'
  BY <1>1, <1>3, StageSets DEF FinalRevalidate, ResultInv
<1>5. ASSUME NEW j \in Steps PROVE cache[run.fd.disk][Plan[j].to] = Plan[j].from
  <2>1. j < run.i
    BY RunType, BoundsAssumption DEF FinalRevalidate, Runs, Steps
  <2> QED BY <2>1 DEF FinalRevalidate, SessionHealthy, SourceHealthy, SourceUnchanged,
                      Inv, Core, ReadBackInv, Verifying
<1>6. StatusHonest'
  BY <1>1, <1>3, <1>5 DEF FinalRevalidate, StatusHonest
<1> QED BY <1>1, <1>2, <1>4, <1>6, EndKeeps DEF FinalRevalidate, Core

-----------------------------------------------------------------------------
(* The end of a command, and the next one *)

\* finalizeFullFlashExecutionFailure tells what was done from the flags.
LEMMA AbortKeeps ==
  ASSUME Inv, Abort
  PROVE  run' \in Runs /\ run'.pc # "idle" /\ Core'
<1>1. /\ run'.pc = "cleanup" /\ run'.fd = run.fd /\ run'.status = FailureStatus
      /\ run'.target = run.target /\ run'.touched = run.touched
  BY RunType DEF Abort, Runs
<1>2. FailureStatus \in Statuses \ {"verified", "none", "killed"}
  <2>1. run.started \in BOOLEAN /\ run.wrote \in BOOLEAN /\ run.synced \in BOOLEAN
    BY RunType DEF Runs
  <2>2. CASE run.pc \notin Executing
    BY <2>1, <2>2 DEF FailureStatus, Statuses, Abort, Inv, Core, ResultInv, Active, Inspected,
                      Bound, SourceLeased, Opened, TargetBound, Confirmed, Writing, Verifying,
                      Executing, Runs, TypeOK, Stages
  <2>3. CASE run.pc \in Executing
    BY <2>1, <2>3 DEF FailureStatus, Statuses
  <2> QED BY <2>2, <2>3
<1>3. run' \in Runs
  <2>1. "cleanup" \in Stages /\ FailureStatus \in Statuses
    BY <1>2 DEF Stages
  <2> QED BY <2>1, RunType, Zenon DEF Abort, Runs
<1>4. run.pc \in Active
  BY RunType DEF Abort, Runs, Stages, Active, Inspected, Bound, SourceLeased, Opened, TargetBound,
                 Confirmed, Writing, Verifying
<1>5. FailureStatus = "written-unverified" => run.pc \in Verifying
  BY <1>2, <1>4 DEF FailureStatus, Inv, Core, ResultInv
<1>6. FailureStatus \in {"refused", "not-started"} => ~run.touched
  BY <1>2, <1>4, RunType DEF FailureStatus, Inv, Core, ResultInv, Runs
<1>7. run.pc \in Verifying =>
        /\ run.fd = run.target /\ run.target # None
        /\ media[run.fd.disk] = cache[run.fd.disk]
        /\ \A j \in Steps : media[run.fd.disk][Plan[j].to] \in SourceData
  BY StageSets DEF Inv, Core, StageInv, DurableInv
<1>8. ResultInv'
  BY <1>1, <1>2, <1>5, <1>7, StageSets DEF Abort, ResultInv
<1>9. StatusHonest'
  BY <1>1, <1>2, <1>5, <1>6, <1>7 DEF Abort, StatusHonest
<1> QED BY <1>1, <1>3, <1>8, <1>9, EndKeeps DEF Abort, Core

\* The record of no command has its type.
LEMMA IdleRun == Idle \in Runs
<1>1. /\ 1 \in 1..Len(Plan) + 1 /\ 0 \in 0..MaxVersion /\ 0 \in 0..MaxTrust
      /\ "idle" \in Stages /\ "none" \in Statuses /\ None \in Ports \cup {None}
      /\ None \in SourceData \cup {None} /\ FALSE \in BOOLEAN
  BY BoundsAssumption DEF Stages, Statuses
<1> QED BY <1>1, Zenon DEF Idle, Runs

\* The report says what the result says.
LEMMA CleanupKeeps ==
  ASSUME Inv, Cleanup
  PROVE  run' \in Runs /\ Core'
<1>1. /\ run'.pc = "idle" /\ run'.fd = None /\ run'.status = run.status
      /\ run'.target = run.target /\ run'.touched = run.touched
  BY DEF Cleanup, Report, Idle
<1>2. run' \in Runs
  <2>1. run.status \in Statuses /\ run.target \in Ports \cup {None} /\ run.touched \in BOOLEAN
    BY RunType DEF Runs
  <2> QED BY <2>1, IdleRun, Zenon DEF Cleanup, Report, Runs
<1>3. ResultInv'
  BY <1>1, StageSets DEF Cleanup, Inv, Core, ResultInv
<1>4. StatusHonest'
  BY <1>1 DEF Cleanup, Inv, Core, StatusHonest
<1> QED BY <1>1, <1>2, <1>3, <1>4, EndKeeps DEF Cleanup, Core

\* A command that dies reports no result: only what it wrote remains.
LEMMA KillKeeps ==
  ASSUME Inv, Kill
  PROVE  run' \in Runs /\ Core'
<1>1. run'.pc = "idle" /\ run'.fd = None /\ run'.status = "killed"
  BY DEF Kill, Idle
<1>2. run' \in Runs
  <2>1. "killed" \in Statuses
    BY DEF Statuses
  <2> QED BY <2>1, IdleRun, Zenon DEF Kill, Runs
<1>3. ResultInv' /\ StatusHonest'
  BY <1>1, StageSets DEF ResultInv, StatusHonest
<1> QED BY <1>1, <1>2, <1>3, EndKeeps DEF Kill, Core

\* A command begins with nothing held, nothing started and no result.
LEMMA BeginKeeps ==
  ASSUME Inv, NEW restore \in BOOLEAN, NEW phrase \in BOOLEAN, NEW want \in Ports,
         Begin(restore, phrase, want)
  PROVE  run' \in Runs /\ run'.pc # "idle" /\ Core'
<1>1. /\ run'.pc = "inspect" /\ run'.restore = restore /\ run'.want = want /\ run'.fd = None
      /\ run'.i = 1 /\ run'.status = "none" /\ run'.touched = FALSE /\ run'.started = FALSE
      /\ run'.wrote = FALSE /\ run'.synced = FALSE /\ run'.target = None
  BY DEF Begin, Idle
<1>2. run' \in Runs
  <2>1. "inspect" \in Stages /\ want \in Ports \cup {None}
    BY DEF Stages
  <2> QED BY <2>1, IdleRun, Zenon DEF Begin, Runs
<1>3. PortInv' /\ StatusHonest'
  BY <1>1 DEF Begin, Inv, Core, PortInv, StatusHonest
<1>4. StageInv'
  BY <1>1 DEF Begin, StageInv, Inspected, Bound, SourceLeased, Opened, TargetBound, Confirmed,
              Writing, Verifying
<1>5. ResultInv'
  BY <1>1 DEF ResultInv, Executing, Verifying
<1>6. SourceInv' /\ WrittenInv' /\ DurableInv' /\ ReadBackInv'
  BY <1>1 DEF SourceInv, WrittenInv, DurableInv, ReadBackInv, SourceLeased, Opened, TargetBound,
              Confirmed, Writing, Verifying
<1> QED BY <1>1, <1>2, <1>3, <1>4, <1>5, <1>6 DEF Core

-----------------------------------------------------------------------------
(* The others *)

\* A step of another process that changes neither source nor disks.
LEMMA BystanderKeeps ==
  ASSUME Inv, UNCHANGED <<source, port, attached, cache, media, review, run>>,
         mounted' = mounted \/ mounted' = FALSE
  PROVE  Core'
<1>1. PortInv' /\ StageInv'
  BY DEF Inv, Core, PortInv, StageInv, Binding
<1>2. ResultInv' /\ StatusHonest'
  BY DEF Inv, Core, ResultInv, StatusHonest
<1>3. SourceInv' /\ WrittenInv' /\ DurableInv' /\ ReadBackInv'
  BY DEF Inv, Core, SourceInv, WrittenInv, DurableInv, ReadBackInv, Authentic
<1> QED BY <1>1, <1>2, <1>3 DEF Core

\* A source that changes gets another identity.
LEMMA SourceChangeKeeps ==
  ASSUME Inv, TouchSource \/ \E b \in SourceBlocks : WriterAlters(b)
  PROVE  Core'
<1>1. /\ source'.version = source.version + 1 /\ source.version \in Nat
      /\ UNCHANGED <<port, attached, mounted, cache, media, review, run>>
  BY DEF TouchSource, WriterAlters, Inv, TypeOK
<1>2. run.version \in Nat
  BY RunType DEF Runs
<1>3. PortInv' /\ StageInv'
  BY <1>1, <1>2 DEF Inv, Core, PortInv, StageInv, Binding
<1>4. ResultInv' /\ StatusHonest'
  BY <1>1 DEF Inv, Core, ResultInv, StatusHonest
<1>5. run.pc \in Inspected => source'.version # run.version
  BY <1>1, <1>2 DEF Inv, Core, StageInv
<1>6. SourceInv' /\ WrittenInv' /\ DurableInv' /\ ReadBackInv'
  <2>1. run.pc \in SourceLeased \cup Verifying \cup {"readback-target"} =>
          source'.version # run.version
    BY <1>5, StageSets DEF Verifying
  <2>2. SourceInv'
    BY <1>1, <2>1 DEF Inv, Core, SourceInv
  <2>3. WrittenInv' /\ DurableInv'
    BY <1>1 DEF Inv, Core, WrittenInv, DurableInv
  <2>4. ReadBackInv'
    BY <1>1, <2>1 DEF ReadBackInv
  <2> QED BY <2>2, <2>3, <2>4
<1> QED BY <1>3, <1>4, <1>6 DEF Core

\* What is durable outlives an unplugging, and the descriptor does not.
LEMMA UnplugKeeps ==
  ASSUME Inv, Unplug
  PROVE  Core'
<1>1. /\ port \in Ports /\ port.disk \in Disks
      /\ cache' = [cache EXCEPT ![port.disk] = media[port.disk]]
      /\ cache \in [Disks -> [TargetBlocks -> TargetData]]
      /\ port' = None /\ mounted' = FALSE
      /\ UNCHANGED <<source, attached, media, review, run>>
  BY DEF Unplug, Inv, TypeOK, Ports
<1>2. \A d \in Disks : media[d] = cache[d] => cache'[d] = cache[d]
  BY <1>1
<1>3. /\ run.fd # None => run.fd \in Ports /\ run.fd.disk \in Disks
      /\ run.target # None => run.target.disk \in Disks
  BY RunType DEF Runs, Ports
<1>4. PortInv' /\ StageInv'
  BY <1>1 DEF Inv, Core, PortInv, StageInv, Binding
<1>5. ResultInv' /\ StatusHonest'
  BY <1>1, <1>2, <1>3 DEF Inv, Core, ResultInv, StatusHonest
<1>6. run.pc \in Writing \cup Verifying => run.fd # None
  BY StageSets DEF Inv, Core, StageInv
<1>7. SourceInv' /\ WrittenInv'
  BY <1>1, <1>6 DEF Inv, Core, SourceInv, WrittenInv, Authentic
<1>8. DurableInv' /\ ReadBackInv'
  <2>1. run.pc \in Verifying => cache'[run.fd.disk] = cache[run.fd.disk]
    BY <1>2, <1>3, <1>6 DEF Inv, Core, DurableInv
  <2> QED BY <1>1, <2>1 DEF Inv, Core, DurableInv, ReadBackInv
<1> QED BY <1>4, <1>5, <1>7, <1>8 DEF Core

\* A disk that is plugged in has a sequence number that no descriptor has.
LEMMA PlugInKeeps ==
  ASSUME Inv, NEW d \in Disks, PlugIn(d)
  PROVE  Core'
<1>1. /\ port' = [disk |-> d, seq |-> attached + 1] /\ port = None /\ attached' = attached + 1
      /\ attached \in Nat
      /\ UNCHANGED <<source, mounted, cache, media, review, run>>
  BY BoundsAssumption DEF PlugIn, Inv, TypeOK
<1>2. run.fd # None => run.fd.seq \in Nat
  BY RunType DEF Runs, Ports
<1>3. /\ run.fd # None => run.fd # port' /\ run.fd.seq <= attached + 1
      /\ port'.seq = attached + 1 /\ ~mounted
  <2>1. run.fd # None => run.fd.seq <= attached
    BY DEF Inv, Core, PortInv
  <2>2. run.fd # None => run.fd.seq # port'.seq /\ run.fd.seq <= attached + 1
    BY <1>1, <1>2, <2>1
  <2>3. ~mounted
    BY <1>1 DEF Inv, Core, PortInv
  <2> QED BY <1>1, <2>2, <2>3
<1>6. PortInv'
  BY <1>1, <1>3 DEF PortInv
<1>7. run.pc \in Writing => run.fd # None
  BY StageSets DEF Inv, Core, StageInv
<1>4. StageInv' /\ ResultInv' /\ StatusHonest'
  BY <1>1 DEF Inv, Core, StageInv, ResultInv, StatusHonest, Binding
<1>5. SourceInv' /\ WrittenInv' /\ DurableInv' /\ ReadBackInv'
  BY <1>1, <1>3, <1>7 DEF Inv, Core, SourceInv, WrittenInv, DurableInv, ReadBackInv, Authentic
<1> QED BY <1>4, <1>5, <1>6 DEF Core

\* The desktop does not mount the disk that the command holds open.
LEMMA MountKeeps ==
  ASSUME Inv, Mount
  PROVE  Core'
<1>1. UNCHANGED <<source, port, attached, cache, media, review, run>> /\ port # None
      /\ run.fd # port
  BY DEF Mount
<1>2. PortInv'
  BY <1>1 DEF Inv, Core, PortInv
<1>3. StageInv' /\ ResultInv' /\ StatusHonest'
  BY <1>1 DEF Inv, Core, StageInv, ResultInv, StatusHonest, Binding
<1>4. SourceInv' /\ WrittenInv' /\ DurableInv' /\ ReadBackInv'
  BY <1>1 DEF Inv, Core, SourceInv, WrittenInv, DurableInv, ReadBackInv, Authentic
<1> QED BY <1>2, <1>3, <1>4 DEF Core

\* The kernel writes back only what differs: nothing on a disk that is durable.
LEMMA WritebackKeeps ==
  ASSUME Inv, NEW d \in Disks, NEW b \in TargetBlocks, Writeback(d, b)
  PROVE  Core'
<1>1. /\ media \in [Disks -> [TargetBlocks -> TargetData]] /\ media[d][b] # cache[d][b]
      /\ media' = [media EXCEPT ![d][b] = cache[d][b]]
      /\ UNCHANGED <<source, port, attached, mounted, cache, review, run>>
  BY DEF Writeback, Inv, TypeOK
<1>2. \A e \in Disks : media[e] = cache[e] => media'[e] = media[e]
  BY <1>1
<1>3. /\ run.fd # None => run.fd.disk \in Disks
      /\ run.target # None => run.target.disk \in Disks
  BY RunType DEF Runs, Ports
<1>4. PortInv' /\ StageInv'
  BY <1>1 DEF Inv, Core, PortInv, StageInv, Binding
<1>5. ResultInv' /\ StatusHonest'
  BY <1>1, <1>2, <1>3 DEF Inv, Core, ResultInv, StatusHonest
<1>6. run.pc \in Verifying => run.fd # None
  BY StageSets DEF Inv, Core, StageInv
<1>7. SourceInv' /\ WrittenInv' /\ ReadBackInv'
  BY <1>1 DEF Inv, Core, SourceInv, WrittenInv, ReadBackInv, Authentic
<1>8. DurableInv'
  BY <1>1, <1>2, <1>3, <1>6 DEF Inv, Core, DurableInv
<1> QED BY <1>4, <1>5, <1>7, <1>8 DEF Core

-----------------------------------------------------------------------------
(* Types *)

\* Which steps change the source, the port, the storage and the records.
LEMMA Frame ==
  ASSUME [Next]_vars
  PROVE  /\ UNCHANGED source \/ TouchSource \/ \E b \in SourceBlocks : WriterAlters(b)
         /\ UNCHANGED <<port, attached, mounted>> \/ Unplug \/ Mount \/ Unmount
              \/ \E d \in Disks : PlugIn(d)
         /\ UNCHANGED cache \/ WriteChunk \/ WriteTorn \/ Unplug
         /\ UNCHANGED media \/ SyncTarget
              \/ \E d \in Disks, b \in TargetBlocks : Writeback(d, b)
         /\ UNCHANGED review \/ EmitReview
         /\ UNCHANGED trust \/ AdvanceTrust
         /\ UNCHANGED <<writer, lease, signalled, broken, cancelled>> \/ AcquireLease \/ Cleanup
              \/ Kill \/ Watch \/ Cancel \/ WriterOpens \/ BreakByForce \/ WriterProceeds
              \/ WriterCloses
BY DEF Next, vars, Command, InspectSource, Authenticate, Discover, EmitReview, RequireBinding,
       AcquireLease, AuthenticateLeased, OpenTarget, BindTarget, Confirm, Authorize, Revalidate,
       Consume, WriteCheck, ReadChunk, WriteChunk, WriteTorn, EndWrites, SyncTarget,
       PostWriteRevalidate, ReadbackCheck, ReadbackSource, ReadbackTarget, FinalRevalidate,
       Abort, Cleanup, Begin, Watch, Cancel, Kill, WriterOpens, BreakByForce, WriterProceeds,
       WriterCloses, TouchSource, WriterAlters, Unplug, Mount, Unmount, AdvanceTrust, PlugIn,
       Writeback

\* Every step of the command and every step of the others keeps Core; only the
\* end of a command, or its death, makes it idle.
LEMMA CoreKeeps ==
  ASSUME Inv, [Next]_vars
  PROVE  run' \in Runs /\ Core' /\ (run'.pc = "idle" => Cleanup \/ Kill \/ UNCHANGED run)
<1>1. CASE \/ InspectSource \/ Authenticate \/ Discover \/ EmitReview \/ RequireBinding
           \/ AcquireLease \/ AuthenticateLeased \/ OpenTarget \/ BindTarget
           \/ Confirm \/ Authorize \/ Revalidate \/ Consume \/ WriteCheck
  BY <1>1, PassKeeps, InspectSourceKeeps, DiscoverKeeps, EmitReviewKeeps, OpenTargetKeeps,
     ConsumeKeeps
<1>2. CASE \/ ReadChunk \/ WriteChunk \/ WriteTorn \/ EndWrites \/ SyncTarget
           \/ PostWriteRevalidate \/ ReadbackCheck \/ ReadbackSource \/ ReadbackTarget
           \/ FinalRevalidate \/ Abort
  BY <1>2, PassKeeps, ReadChunkKeeps, WriteChunkKeeps, WriteTornKeeps, EndWritesKeeps,
     SyncTargetKeeps, PostWriteRevalidateKeeps, ReadbackSourceKeeps, ReadbackTargetKeeps,
     FinalRevalidateKeeps, AbortKeeps
<1>3. CASE Cleanup \/ Kill
  BY <1>3, CleanupKeeps, KillKeeps
<1>4. CASE \E restore, phrase \in BOOLEAN, want \in Ports : Begin(restore, phrase, want)
  BY <1>4, BeginKeeps
<1>5. CASE \/ Watch \/ Cancel \/ WriterOpens \/ BreakByForce \/ WriterProceeds \/ WriterCloses
           \/ Unmount \/ AdvanceTrust
  <2>1. /\ UNCHANGED <<source, port, attached, cache, media, review, run>>
        /\ mounted' = mounted \/ mounted' = FALSE
    BY <1>5 DEF Watch, Cancel, WriterOpens, BreakByForce, WriterProceeds, WriterCloses, Unmount,
                AdvanceTrust
  <2> QED BY <2>1, BystanderKeeps, RunType
<1>6. CASE TouchSource \/ \E b \in SourceBlocks : WriterAlters(b)
  <2>1. UNCHANGED run
    BY <1>6 DEF TouchSource, WriterAlters
  <2> QED BY <1>6, <2>1, SourceChangeKeeps, RunType
<1>7. CASE \/ Unplug \/ Mount \/ \E d \in Disks : PlugIn(d)
           \/ \E d \in Disks, b \in TargetBlocks : Writeback(d, b)
  <2>1. UNCHANGED run
    BY <1>7 DEF Unplug, Mount, PlugIn, Writeback
  <2> QED BY <1>7, <2>1, UnplugKeeps, MountKeeps, PlugInKeeps, WritebackKeeps, RunType
<1>8. CASE UNCHANGED vars
  BY <1>8, BystanderKeeps, RunType DEF vars
<1> QED BY <1>1, <1>2, <1>3, <1>4, <1>5, <1>6, <1>7, <1>8 DEF Next, Command

\* The parts of TypeOK by the variables they speak of.
SourceType == source \in [data : [SourceBlocks -> SourceData], version : 0..MaxVersion]
PortType == port \in Ports \cup {None} /\ attached \in 0..MaxAttach /\ mounted \in BOOLEAN
StorageType ==
  /\ cache \in [Disks -> [TargetBlocks -> TargetData]]
  /\ media \in [Disks -> [TargetBlocks -> TargetData]]
RecordType ==
  /\ trust \in 1..MaxTrust
  /\ review \in [version : 0..MaxVersion, trust : 1..MaxTrust, target : Ports] \cup {None}
LeaseType ==
  /\ writer \in {"none", "blocked", "open"}
  /\ lease \in {"none", "held", "breaking"}
  /\ signalled \in BOOLEAN /\ broken \in BOOLEAN /\ cancelled \in BOOLEAN
  /\ lease # "none" => writer # "open"
IdleType == run.pc = "idle" => lease = "none" /\ run.fd = None

\* The parts of the type invariant, to be kept one by one.
LEMMA TypeParts ==
  TypeOK <=> SourceType /\ PortType /\ StorageType /\ RecordType /\ LeaseType /\ IdleType
             /\ run \in Runs
BY DEF TypeOK, SourceType, PortType, StorageType, RecordType, LeaseType, IdleType

\* Every step keeps the type of the source.
LEMMA SourceTypeKeeps ==
  ASSUME Inv, [Next]_vars
  PROVE  SourceType'
<1>1. SourceType
  BY TypeParts DEF Inv
<1>2. CASE UNCHANGED source
  BY <1>1, <1>2 DEF SourceType
<1>3. CASE TouchSource
  BY <1>1, <1>3, BoundsAssumption DEF SourceType, TouchSource
<1>4. ASSUME NEW b \in SourceBlocks, WriterAlters(b) PROVE SourceType'
  <2>1. "altered" \in SourceData /\ source.version + 1 \in 0..MaxVersion
    BY <1>1, <1>4, BoundsAssumption DEF SourceType, WriterAlters, SourceData
  <2> QED BY <1>1, <1>4, <2>1 DEF SourceType, WriterAlters
<1> QED BY <1>2, <1>3, <1>4, Frame

\* Every step keeps the type of the port and of the count of attachments.
LEMMA PortTypeKeeps ==
  ASSUME Inv, [Next]_vars
  PROVE  PortType'
<1>1. PortType
  BY TypeParts DEF Inv
<1>2. CASE UNCHANGED <<port, attached, mounted>> \/ Unplug \/ Mount \/ Unmount
  BY <1>1, <1>2, Zenon DEF PortType, Unplug, Mount, Unmount
<1>3. ASSUME NEW d \in Disks, PlugIn(d) PROVE PortType'
  BY <1>1, <1>3, BoundsAssumption DEF PortType, PlugIn, Ports
<1> QED BY <1>2, <1>3, Frame

\* Every step keeps the type of the page cache and of the media.
LEMMA StorageTypeKeeps ==
  ASSUME Inv, [Next]_vars
  PROVE  StorageType'
<1>1. StorageType /\ PortType
  BY TypeParts DEF Inv
<1>2. cache' \in [Disks -> [TargetBlocks -> TargetData]]
  <2>1. CASE UNCHANGED cache
    BY <1>1, <2>1 DEF StorageType
  <2>2. CASE WriteChunk
    <3>1. run.buf \in TargetData
      BY <2>2 DEF WriteChunk, Inv, Core, SourceInv, TargetData
    <3> QED BY <2>2, <3>1, WriteOneBlock DEF WriteChunk
  <2>3. CASE WriteTorn
    BY <2>3, WriteOneBlock DEF WriteTorn, TargetData
  <2>4. CASE Unplug
    BY <1>1, <2>4 DEF Unplug, StorageType, PortType, Ports
  <2> QED BY <2>1, <2>2, <2>3, <2>4, Frame
<1>3. media' \in [Disks -> [TargetBlocks -> TargetData]]
  <2>1. CASE UNCHANGED media
    BY <1>1, <2>1 DEF StorageType
  <2>2. CASE SyncTarget
    BY <1>1, <2>2, RunType DEF SyncTarget, DescriptorAlive, StorageType, Runs, Ports
  <2>3. CASE \E d \in Disks, b \in TargetBlocks : Writeback(d, b)
    BY <1>1, <2>3 DEF Writeback, StorageType
  <2> QED BY <2>1, <2>2, <2>3, Frame
<1> QED BY <1>2, <1>3 DEF StorageType

\* Every step of the command keeps the type of its record, and of the review.
LEMMA RecordTypeKeeps ==
  ASSUME Inv, [Next]_vars
  PROVE  RecordType'
<1>1. RecordType
  BY TypeParts DEF Inv
<1>2. trust' \in 1..MaxTrust
  BY <1>1, Frame, BoundsAssumption DEF RecordType, AdvanceTrust
<1>3. review' \in [version : 0..MaxVersion, trust : 1..MaxTrust, target : Ports] \cup {None}
  <2>1. CASE UNCHANGED review
    BY <1>1, <2>1 DEF RecordType
  <2>2. CASE EmitReview
    <3>1. run.trust \in 1..MaxTrust /\ run.version \in 0..MaxVersion /\ run.target \in Ports
      BY <2>2, RunType, BoundsAssumption DEF EmitReview, Inv, Core, StageInv, Inspected, Runs
    <3> QED BY <2>2, <3>1 DEF EmitReview, Binding
  <2> QED BY <2>1, <2>2, Frame
<1> QED BY <1>2, <1>3 DEF RecordType

\* Every step keeps the type of what the command holds.
LEMMA LeaseTypeKeeps ==
  ASSUME Inv, [Next]_vars
  PROVE  LeaseType'
<1>1. LeaseType
  BY TypeParts DEF Inv
<1>2. CASE UNCHANGED <<writer, lease, signalled, broken, cancelled>>
  BY <1>1, <1>2 DEF LeaseType
<1>3. CASE AcquireLease \/ Cleanup \/ Kill
  BY <1>1, <1>3, Zenon DEF LeaseType, AcquireLease, Cleanup, Kill
<1>4. CASE Watch \/ Cancel
  BY <1>1, <1>4, Zenon DEF LeaseType, Watch, Cancel
<1>5. CASE WriterOpens \/ BreakByForce \/ WriterProceeds \/ WriterCloses
  BY <1>1, <1>5, Zenon DEF LeaseType, WriterOpens, BreakByForce, WriterProceeds, WriterCloses
<1> QED BY <1>2, <1>3, <1>4, <1>5, Frame

\* Every step that ends a command, or begins one, keeps the types.
LEMMA IdleTypeKeeps ==
  ASSUME Inv, [Next]_vars
  PROVE  IdleType'
<1> SUFFICES ASSUME run'.pc = "idle" PROVE lease' = "none" /\ run'.fd = None
  BY DEF IdleType
<1>1. CASE Cleanup \/ Kill
  BY <1>1 DEF Cleanup, Kill, Report, Idle
<1>2. CASE UNCHANGED run
  <2>1. lease = "none" /\ run'.fd = None
    BY <1>2, TypeParts DEF Inv, IdleType
  <2>2. lease' = lease \/ AcquireLease \/ WriterOpens \/ BreakByForce \/ Cleanup \/ Kill
    BY Frame DEF Watch, Cancel, WriterProceeds, WriterCloses
  <2>3. ~AcquireLease
    BY <1>2 DEF AcquireLease
  <2> QED BY <1>1, <2>1, <2>2, <2>3 DEF WriterOpens, BreakByForce
<1> QED BY <1>1, <1>2, CoreKeeps

\* The first state: nothing has run.
LEMMA InitKeeps == Init => Inv
<1> SUFFICES ASSUME Init PROVE Inv
  OBVIOUS
<1>1. run = Idle /\ run.pc = "idle" /\ run.fd = None /\ run.status = "none" /\ port = None
      /\ ~mounted
  BY DEF Init, Idle
<1>2. SourceType
  BY BoundsAssumption DEF Init, SourceType, SourceData
<1>3. PortType /\ RecordType
  <2>1. 0 \in 0..MaxAttach /\ 1 \in 1..MaxTrust
    BY BoundsAssumption
  <2> QED BY <2>1, Zenon DEF Init, PortType, RecordType
<1>4. StorageType
  BY DEF Init, StorageType, TargetData
<1>5. LeaseType /\ IdleType
  BY <1>1 DEF Init, LeaseType, IdleType
<1>6. TypeOK
  BY <1>1, <1>2, <1>3, <1>4, <1>5, TypeParts, IdleRun
<1>7. Core
  BY <1>1, StageSets DEF Core, PortInv, StageInv, ResultInv, SourceInv, WrittenInv, DurableInv,
                         ReadBackInv, StatusHonest, Writing
<1> QED BY <1>6, <1>7 DEF Inv

\* The inductive invariant holds.
LEMMA Invariant == Spec => []Inv
<1>1. Inv /\ [Next]_vars => Inv'
  <2> SUFFICES ASSUME Inv, [Next]_vars PROVE Inv'
    OBVIOUS
  <2>1. TypeOK'
    BY SourceTypeKeeps, PortTypeKeeps, StorageTypeKeeps, RecordTypeKeeps, LeaseTypeKeeps,
       IdleTypeKeeps, CoreKeeps DEF TypeOK, SourceType, PortType, StorageType, RecordType,
       LeaseType, IdleType
  <2> QED BY <2>1, CoreKeeps DEF Inv
<1> QED BY <1>1, InitKeeps, PTL DEF Spec

-----------------------------------------------------------------------------
(* Theorems *)

\* Types, and that a finished command holds neither lease nor descriptor.
THEOREM TypeCorrect == Spec => []TypeOK
<1>1. Inv => TypeOK
  BY DEF Inv
<1> QED BY <1>1, Invariant, PTL

\* The status of a FullFlashExecutionResult is true of the disk, for any plan:
\* "verified" means that every planned block durably holds the authenticated
\* bytes, although a writer may break the lease and the disk may vanish at any
\* moment.
THEOREM HonestStatus == Spec => []StatusHonest
<1>1. Inv => StatusHonest
  BY DEF Inv, Core
<1> QED BY <1>1, Invariant, PTL

\* ExecuteAuthorizedSinglePhaseFullFlash writes to no disk but the very
\* attachment that was reviewed, unmounted and confirmed.
THEOREM WritesReviewed == Spec => OnlyReviewed
<1> DEFINE Allowed(d) ==
             /\ review # None /\ review = Binding
             /\ port = review.target /\ d = port.disk
             /\ run.phrase /\ ~mounted
           Written(d) == cache'[d] # cache[d] /\ cache'[d] # media[d]
<1>1. ASSUME Inv, [Next]_vars, NEW d \in Disks, Written(d)
      PROVE  Allowed(d)
  <2>1. StorageType /\ PortType
    BY <1>1, TypeParts DEF Inv
  <2>2. ~Unplug
    BY <1>1, <2>1 DEF Unplug, StorageType, PortType, Ports
  <2>3. WriteChunk \/ WriteTorn
    BY <1>1, <2>2, Frame
  <2>4. At("write") /\ DescriptorAlive
    BY <2>3 DEF WriteChunk, WriteTorn
  <2>5. d = run.fd.disk
    <3>1. "torn" \in TargetData /\ run.buf \in TargetData
      BY <1>1, <2>4 DEF Inv, Core, SourceInv, TargetData
    <3> QED BY <1>1, <2>3, <2>4, <3>1, WriteOneBlock DEF WriteChunk, WriteTorn
  <2>6. /\ run.restore /\ review # None /\ review = Binding
        /\ run.fd = run.target /\ run.fd # None /\ run.phrase
    BY <1>1, <2>4, StageSets DEF Inv, Core, StageInv, Writing
  <2>7. port = run.fd /\ ~mounted
    BY <1>1, <2>4, <2>6 DEF DescriptorAlive, Inv, Core, PortInv
  <2> QED BY <2>5, <2>6, <2>7 DEF Binding
<1>2. ASSUME Inv, [Next]_vars
      PROVE  [\A d \in Disks : Written(d) => Allowed(d)]_vars
  BY <1>1, <1>2
<1> QED BY <1>2, Invariant, PTL DEF Spec, OnlyReviewed
==============================================================================
