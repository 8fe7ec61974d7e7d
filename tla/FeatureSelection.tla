-------------------------- MODULE FeatureSelection --------------------------
(***************************************************************************)
(* Which points of a prepared image become features (fpc_recovered.c):     *)
(* local maxima of a response, and if there are too many, those with the   *)
(* highest responses of each ninth of the image in turn. Responses,        *)
(* orientations and descriptors are left out.                              *)
(***************************************************************************)
EXTENDS Integers, Sequences, SequencesExt, FiniteSets, FiniteSetsExt, Functions

CONSTANTS
  ImageWidth, ImageHeight,  \* 112, 88
  Border,    \* points closer to the border are none (4)
  Detected,  \* most points that are detected (2048)
  Budget     \* most features that are kept (300)

ASSUME FeatureAssumption ==
  /\ {ImageWidth, ImageHeight, Border, Detected, Budget} \subseteq Nat
  /\ Border >= 1 /\ ImageWidth > 2 * Border /\ ImageHeight > 2 * Border

Point == (0 .. ImageWidth - 1) \X (0 .. ImageHeight - 1)
Before(p, q) == p[2] < q[2] \/ (p[2] = q[2] /\ p[1] < q[1])

\* fpc_select_float_maxima, in scan order.
Maxima(response, mask) ==
  LET Inner(p) == /\ p[1] \in Border .. ImageWidth - Border - 1
                  /\ p[2] \in Border .. ImageHeight - Border - 1
      Neighbours(p) == {p[1] - 1, p[1], p[1] + 1} \X {p[2] - 1, p[2], p[2] + 1} \ {p}
      points == {p \in Point \cap mask : Inner(p) /\ \A q \in Neighbours(p) : response[q] < response[p]}
      all    == SetToSortSeq(points, Before)
  IN  SubSeq(all, 1, IF Len(all) > Detected THEN Detected ELSE Len(all))

-----------------------------------------------------------------------------
(* sort_feature_scores: records [index, score], the highest score first. *)

Swap(s, i, j) == [s EXCEPT ![i] = s[j], ![j] = s[i]]

\* The loop: what is left of `left` is not below the pivot, what is right of
\* `right` not above it.
RECURSIVE Part(_, _, _, _)
Part(s, left, right, pivot) ==
  IF left > right THEN [s |-> s, left |-> left, right |-> right]
  ELSE IF s[left].score > pivot THEN Part(s, left + 1, right, pivot)
  ELSE IF pivot <= s[right].score THEN Part(Swap(s, left, right), left + 1, right - 1, pivot)
  ELSE Part(s, left, right - 1, pivot)

RECURSIVE SortScores(_)
SortScores(s) ==
  IF Len(s) < 2 THEN s
  ELSE LET p == Part(s, 1, Len(s), s[Len(s) \div 2 + 1].score)
       IN  SortScores(SubSeq(p.s, 1, p.right)) \o SubSeq(p.s, p.right + 1, p.left - 1)
           \o SortScores(SubSeq(p.s, p.left, Len(s)))

-----------------------------------------------------------------------------
(* fpc_select_spatial_features *)

Cell(p) == (3 * p[1]) \div ImageWidth + 3 * ((3 * p[2]) \div ImageHeight)

\* From ranked points, `wanted` ones: the cells are visited in turn, and each gives
\* the best it still has. `cells` is the order that the generator shuffles.
SpatialSelection(ranked, wanted, cells) ==
  LET visit[k \in 0 .. 9 * Len(ranked)] ==
        IF k = 0 THEN << >>
        ELSE LET had  == visit[k - 1]
                 cell == cells[(k - 1) % 9]
                 left == {i \in 1 .. Len(ranked) : Cell(ranked[i]) = cell /\ i \notin Range(had)}
             IN  IF Len(had) = wanted \/ left = {} THEN had ELSE Append(had, Min(left))
  IN  visit[9 * Len(ranked)]

\* fpc_limit_feature_budget for the one level that there is.
LimitBudget(points, response, cells) ==
  IF Len(points) <= Budget THEN points
  ELSE LET ranks  == SortScores([i \in 1 .. Len(points) |-> [index |-> i, score |-> response[points[i]]]])
           ranked == [i \in DOMAIN ranks |-> points[ranks[i].index]]
           chosen == SpatialSelection(ranked, Budget, cells)
       IN  [i \in DOMAIN chosen |-> ranked[chosen[i]]]

\* fpc_extract_profile300_prepared
Extract(response, mask, cells) == LimitBudget(Maxima(response, mask), response, cells)

-----------------------------------------------------------------------------
(* What they promise, for given inputs. *)

\* The partition with two indices that may both stop on the pivot loses no record
\* and leaves none out of order, whatever scores are equal.
SortSound(s) ==
  LET t == SortScores(s)
  IN  /\ Len(t) = Len(s) /\ Range(t) = Range(s)
      /\ \A i, j \in DOMAIN t : i < j => t[i].score >= t[j].score

\* A finger whose features are too many keeps as many as it may, with no two
\* ninths of the image favoured over each other, and in each of them the best.
FeaturesSound(response, mask, cells) ==
  LET all  == Range(Maxima(response, mask))
      kept == Extract(response, mask, cells)
      In(S, c) == {p \in S : Cell(p) = c}
      Lost(c) == In(all, c) \ Range(kept)
  IN  /\ Range(kept) \subseteq all /\ IsInjective(kept)
      /\ Len(kept) = IF Cardinality(all) < Budget THEN Cardinality(all) ELSE Budget
      /\ \A c, d \in 0 .. 8 : Lost(c) # {} =>
           Cardinality(In(Range(kept), d)) <= Cardinality(In(Range(kept), c)) + 1
      /\ \A c \in 0 .. 8 : \A p \in In(Range(kept), c), q \in Lost(c) : response[p] >= response[q]
=============================================================================
