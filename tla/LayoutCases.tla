---------------------------- MODULE LayoutCases ----------------------------
(***************************************************************************)
(* Inputs for Placements: four captures that lie in some way and match as  *)
(* they lie, and areas and movements of two to five captures.              *)
(***************************************************************************)
EXTENDS Placements, NativeWork

Poses == {[turn |-> t, at |-> <<x, y>>] : t \in {0, 1, 2}, x \in {0, 2}, y \in {-3}}

Matches4 == SUBSET {p \in Indices(4) \X Indices(4) : p[1] < p[2]}
LinkTable(S) ==
  [p \in Indices(4) \X Indices(4) |->
     IF p \in S \/ <<p[2], p[1]>> \in S THEN 1 + ((p[1] + p[2]) % 2) ELSE 0]

\* What is seen of the finger in each capture, so far as it fits.
Masks ==
  [i \in Indices(4) |->
     {p \in (CASE i \in {0, 3} -> (0 .. 1) \X (0 .. 3) [] i = 1 -> (0 .. 3) \X (0 .. 1)
               [] i = 2 -> {<<1, 1>>, <<3, 2>>}) : p[1] < MaskWidth /\ p[2] < MaskHeight}]

TakeLayout ==
  /\ Take("layout")
  /\ \E S \in Matches4, a, b \in Poses, ref \in {-1, 2},
        c \in {[turn |-> 0, at |-> <<2, 1>>], [turn |-> -1, at |-> <<-2, 1>>]} :
       /\ Shared(a.turn + b.at[1]) /\ Cardinality(S) \in {1, 3, 4}
       /\ work' = [of |-> "layout", matched |-> S, reference |-> ref,
                   layout |-> [i \in Indices(4) |-> CASE i = 0 -> Unmoved [] i = 1 -> a
                                                      [] i = 2 -> b [] i = 3 -> c]]

TakeMetrics ==
  /\ Take("metrics")
  /\ \E n \in 2 .. 5 : \E areas \in [Indices(n) -> {2, 9}], far \in [Indices(n) -> {-1, 0, 5}] :
       /\ Shared(areas[0] + far[1])
       /\ work' = [of |-> "metrics", n |-> n, areas |-> areas, far |-> far]

Agreed(S, layout) == [p \in S |-> Compose(Opposite(layout[p[1]]), layout[p[2]])]
MovedTo(n, far) ==
  [p \in Indices(n) \X Indices(n) |-> IF p[1] >= p[2] \/ far[p[1]] < 0 THEN -1 ELSE far[p[2]]]

\* Captures lie where their matches put them, and area and movement are those of
\* the captures there: fpc_weighted_group_transform, fpc_compute_enrollment_metrics.
LayoutSound ==
  /\ Is("layout") =>
       PlacementsSound(LinkTable(work.matched), Agreed(work.matched, work.layout), 4,
                       work.reference, work.layout, Masks, [i \in Indices(4) |-> 10 * i])
  /\ Is("metrics") => MetricsSound(work.areas, MovedTo(work.n, work.far), work.n)

LayoutInit == work \in ToTake({"layout", "metrics"})
LayoutNext == TakeLayout \/ TakeMetrics
LayoutSpec == LayoutInit /\ [][LayoutNext]_work
=============================================================================
