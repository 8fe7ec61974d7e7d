----------------------------- MODULE Placements -----------------------------
(***************************************************************************)
(* Where the captures of an enrolment lie relative to each other and what  *)
(* that says of the finger (fpc_recovered.c): a capture that joins a group *)
(* is placed by its matches, the masks of a group are united on a canvas,  *)
(* and areas and movements tell how much of the finger has been seen.      *)
(*                                                                         *)
(* Motions are quarter turns with a shift of whole pixels, and the matches *)
(* of a capture agree on its place. Areas are counted in 200ths of pixels, *)
(* changes in hundredths. Arrays start at 0.                               *)
(***************************************************************************)
EXTENDS CaptureGroups

CONSTANTS
  MaskWidth, MaskHeight,      \* of a capture (112, 88)
  CanvasWidth, CanvasHeight,  \* 500, 500
  Diagonal                    \* what captures that do not match moved: 142

ASSUME PlacementAssumption ==
  /\ {MaskWidth, MaskHeight, CanvasWidth, CanvasHeight} \subseteq Nat \ {0} /\ Diagonal \in Nat
  /\ (CanvasWidth - MaskWidth) % 2 = 0 /\ (CanvasHeight - MaskHeight) % 2 = 0

CanvasPixels == (0 .. CanvasWidth - 1) \X (0 .. CanvasHeight - 1)

-----------------------------------------------------------------------------
(* Motions. *)

Plus(v, w) == <<v[1] + w[1], v[2] + w[2]>>

\* An angle as fpc_transform_to_parameters finds it, in quarters: above a half
\* turn backwards, at most one forwards.
Turn(q) == ((q + 1) % 4) - 1

Rotate(q, v) ==
  CASE q % 4 = 0 -> v
    [] q % 4 = 1 -> <<-v[2], v[1]>>
    [] q % 4 = 2 -> <<-v[1], -v[2]>>
    [] q % 4 = 3 -> <<v[2], -v[1]>>

Unmoved == [turn |-> 0, at |-> <<0, 0>>]
Apply(a, v) == Plus(a.at, Rotate(a.turn, v))

\* fpc_compose_transform3, fpc_inverse_transform3
Compose(a, b) == [turn |-> Turn(a.turn + b.turn), at |-> Apply(a, b.at)]
Opposite(a)   == [turn |-> Turn(-a.turn), at |-> Rotate(-a.turn, <<-a.at[1], -a.at[2]>>)]

\* The mean of motions m[j], weighed by link[<<i, j>>].
Weighed(link, i, m, total) ==
  LET Mean(v) == SumFunction([j \in DOMAIN m |-> link[<<i, j>>] * v[j]]) \div total
  IN  [turn |-> Mean([j \in DOMAIN m |-> m[j].turn]),
       at   |-> <<Mean([j \in DOMAIN m |-> m[j].at[1]]), Mean([j \in DOMAIN m |-> m[j].at[2]])>>]

Matched(link, i, groups) == {j \in Placed(groups) \ {i} : link[<<i, j>>] > 0}

\* fpc_weighted_group_transform: the place of capture i by its matches with placed
\* captures. Variant: forgets which of two captures came first.
WeightedOneWay(link, motion, n, i, groups, place) ==
  Weighed(link, i, [j \in Matched(link, i, groups) |->
                      Compose(place[j], motion[<<Min({i, j}), Max({i, j})>>])],
          Weight(link, n, i, Placed(groups)))

WeightedTransform(link, motion, n, i, groups, place) ==
  Weighed(link, i, [j \in Matched(link, i, groups) |->
                      Compose(place[j], IF j < i THEN motion[<<j, i>>] ELSE Opposite(motion[<<i, j>>]))],
          Weight(link, n, i, Placed(groups)))

\* fpc_rebuild_capture_groups: what it makes of the transforms.
PlaceNext(link, motion, n, s, g, t) ==
  [group  |-> g,
   groups |-> [i \in Indices(n) |-> IF i \in t.join \cup t.root THEN g ELSE s.groups[i]],
   place  |-> [i \in Indices(n) |->
                 IF i \in t.root THEN Unmoved
                 ELSE IF i \in t.join THEN WeightedTransform(link, motion, n, i, s.groups, s.place)
                 ELSE s.place[i]]]

PlaceRound(link, motion, n, s, t) ==
  PlaceNext(link, motion, n, s, s.group + Cardinality(t.root), t)

PlaceCaptures(link, motion, n) ==
  LET round[k \in 0 .. n] ==
        IF k = 0 THEN [group |-> -1, groups |-> [i \in Indices(n) |-> -1],
                       place |-> [i \in Indices(n) |-> Unmoved]]
        ELSE PlaceRound(link, motion, n, round[k - 1], Grow(link, n, round[k - 1].groups))
  IN  round[n].place

-----------------------------------------------------------------------------
(* Masks on the canvas. *)

\* fpc_capture_canvas_transform: from a capture to the canvas, where the root of
\* its group is in the middle.
OnCanvas(place, i, root) ==
  Compose([turn |-> 0, at |-> <<(CanvasWidth - MaskWidth) \div 2, (CanvasHeight - MaskHeight) \div 2>>],
          Compose(place[root], Opposite(place[i])))

\* fpc_clip_affine_warp_bounds: the part of the canvas that is looked at.
Within(X, Y) == CanvasPixels \cap ((Min(X) .. Max(X) + 1) \X (Min(Y) .. Max(Y) + 1))
Bounds(to) ==
  LET corners == {Apply(to, <<x, y>>) : x \in {0, MaskWidth - 1}, y \in {0, MaskHeight - 1}}
  IN  Within({c[1] : c \in corners}, {c[2] : c \in corners})

TopLeft(S) == <<Min({p[1] : p \in S}), Min({p[2] : p \in S})>>

\* fpc_warp_packed_mask: each pixel there asks for its source. The result is a mask
\* of its own, with `corner` at <<0, 0>>.
Warped(mask, to, corner) ==
  {Plus(p, <<-corner[1], -corner[2]>>) : p \in {q \in Bounds(to) : Apply(Opposite(to), q) \in mask}}

\* fpc_union_packed_mask: adds a mask at a place of another.
Put(mask, corner) == {Plus(p, corner) : p \in mask}

\* fpc_build_group_mask_union
OnCanvasOf(mask, to, corner) == Put(Warped(mask, to, corner), corner)
GroupMask(masks, groups, roots, place, g) ==
  UNION {LET to == OnCanvas(place, i, roots[g])
         IN  IF Bounds(to) = {} THEN {} ELSE OnCanvasOf(masks[i], to, TopLeft(Bounds(to))) :
           i \in Members(groups, g)}

\* fpc_count_packed_mask: what fills a row up to whole words does not count.
CountMask(mask) == Cardinality({p \in mask : p[1] < CanvasWidth})

\* fpc_capture_group_bounds: the corners of the captures of a group tell where all
\* of it lies.
GroupBounds(groups, place, g) ==
  LET corners == {Apply(Opposite(place[i]), <<x, y>>) :
                    i \in Members(groups, g), x \in {0, MaskWidth - 1}, y \in {0, MaskHeight - 1}}
      X == {c[1] : c \in corners}
      Y == {c[2] : c \in corners}
  IN  [x |-> Min(X), y |-> Min(Y), width |-> Max(X) - Min(X) + 1, height |-> Max(Y) - Min(Y) + 1]

\* fpc_compute_enrollment_metrics: half of what captures outside all groups cover
\* counts as well.
Area(masks, percent, state, place) ==
  LET aligned == SumFunction([g \in 0 .. state.count - 1 |->
                   CountMask(GroupMask(masks, state.groups, state.roots, place, g))])
      lone    == {i \in DOMAIN state.groups : state.groups[i] < 0}
  IN  200 * aligned + SumFunction([i \in lone |-> percent[i] * MaskWidth * MaskHeight])

-----------------------------------------------------------------------------
(* fpc_update_enrollment_metrics *)

Distance1(a, b) == IF a < b THEN b - a ELSE a - b

\* How much the areas of the last captures differ, over this times the last area.
Change(areas) ==
  LET n == Cardinality(DOMAIN areas)
      Step(k) == Distance1(areas[n - k], areas[n - k - 1])
  IN  CASE n < 2 -> [sum |-> 0, over |-> 1]
        [] n = 2 -> [sum |-> 100 * Step(1), over |-> 100]
        [] n = 3 -> [sum |-> 100 * Step(1) + 67 * Step(2), over |-> 167]
        [] n > 3 -> [sum |-> 100 * Step(1) + 67 * Step(2) + 33 * Step(3), over |-> 200]

\* The mean movement between the last four captures, the later ones counting more:
\* `moved[<<e, l>>]` is the length of a shift, or -1 without a match.
LastPairs(n) == {p \in (-4 .. -2) \X (-3 .. -1) : p[1] < p[2] /\ p[1] >= -n}
Motion(moved, n) ==
  LET Length(p) == LET m == moved[<<n + p[1], n + p[2]>>] IN IF m < 0 THEN Diagonal ELSE m
      Times1(p) == p[1] + p[2] + 8
      divisor   == CASE n = 2 -> 5 [] n = 3 -> 12 [] OTHER -> 18
  IN  SumFunction([p \in LastPairs(n) |-> Times1(p) * Length(p)]) \div divisor

-----------------------------------------------------------------------------
(* What they promise, for given inputs. *)

Everywhere(a) ==
  {Apply(Opposite(a), <<x, y>>) : x \in 0 .. MaskWidth - 1, y \in 0 .. MaskHeight - 1}
BoundsSound(b, all) ==
  /\ {Min({p[1] : p \in all}), Max({p[1] : p \in all})} = {b.x, b.x + b.width - 1}
  /\ {Min({p[2] : p \in all}), Max({p[2] : p \in all})} = {b.y, b.y + b.height - 1}

\* When matches agree with some way to lay out the captures, that layout is found,
\* seen from the first of each group, along whichever matches it was built; and
\* what is seen of the finger is what the captures cover together in it, around the
\* first of the group or the reference. The bounds of a group hold all of it, and no
\* more.
Laid(link, motion, n, state, made, masks, percent, layout, place) ==
  LET lone == {i \in Indices(n) : state.groups[i] = -1}
      lies == [i \in Indices(n) \ lone |->
                 Compose(Opposite(layout[made.roots[state.groups[i]]]), layout[i])]
      Covers(i, to) == {Plus(Apply(to, p), <<(CanvasWidth - MaskWidth) \div 2,
                                             (CanvasHeight - MaskHeight) \div 2>>) : p \in masks[i]}
      Seen(g, root) == UNION {Covers(i, Compose(lies[root], Opposite(lies[i]))) :
                                i \in Members(state.groups, g)}
  IN  /\ \A i \in Indices(n) \ lone : place[i] = lies[i]
      /\ Area(masks, percent, state, place) =
           200 * SumFunction([g \in 0 .. state.count - 1 |->
                                Cardinality(Seen(g, state.roots[g]) \cap CanvasPixels)])
           + SumFunction([i \in lone |-> percent[i] * MaskWidth * MaskHeight])
      /\ \A g \in 0 .. state.count - 1 :
           BoundsSound(GroupBounds(state.groups, place, g),
                       UNION {Everywhere(place[i]) : i \in Members(state.groups, g)})

PlacementsSound(link, motion, n, reference, layout, masks, percent) ==
  LET none == [g \in Indices(n) |-> 0]
  IN  Laid(link, motion, n,
           RebuildGroups(link, n, [selected |-> IF reference < 0 THEN -1 ELSE 0,
                                   reference |-> reference, roots |-> none]),
           Grouping(link, n, none), masks, percent, layout, PlaceCaptures(link, motion, n))

\* Movement is a mean of what the last four captures moved and of nothing else,
\* and so is the change of the area.
MetricsSound(areas, moved, n) ==
  LET recent == {i \in Indices(n) : i >= n - 4}
      lengths == {IF moved[p] < 0 THEN Diagonal ELSE moved[p] :
                    p \in {q \in recent \X recent : q[1] < q[2]}}
      steps == {Distance1(areas[i], areas[i - 1]) : i \in {j \in recent : j > 0 /\ j >= n - 3}}
  IN  n >= 2 => /\ Motion(moved, n) \in Min(lengths) .. Max(lengths)
                /\ \A v \in Min(lengths) .. Max(lengths) : Cardinality(lengths) = 1 => Motion(moved, n) = v
                /\ Change(areas).sum <= Change(areas).over * Max(steps)
                /\ Change(areas).sum >= Change(areas).over * Min(steps)
=============================================================================
