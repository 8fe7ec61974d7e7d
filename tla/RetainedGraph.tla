--------------------------- MODULE RetainedGraph ---------------------------
(***************************************************************************)
(* The retained graph of a template (fpc_recovered.c): the captures of a   *)
(* finger sit in slots 0 .. used-1, and a triangular array keeps, for each *)
(* pair of slots, how much the two captures overlap. A third array orders  *)
(* the slots, its first `protected` entries are never given up, a fourth   *)
(* counts the matches since a capture was last of use.                     *)
(*                                                                         *)
(* Arrays start at 0, as in the code.                                      *)
(***************************************************************************)
EXTENDS Integers, FiniteSets, FiniteSetsExt, Functions

Slots(n)    == 0 .. n - 1
Pairs(n)    == (n * (n - 1)) \div 2
Larger(a, b)  == IF a < b THEN b ELSE a
Lesser(a, b)  == IF a < b THEN a ELSE b

\* The place of a pair of slots in the triangular array.
PairIndex(capacity, first, second) ==
  LET low  == Lesser(first, second)
      high == Larger(first, second)
  IN  low * (capacity - 2) - (low * (low - 1)) \div 2 + high - 1

Score(g, i, j) == g.scores[PairIndex(g.capacity, i, j)]

Square(v) == v * v

\* How much slot i overlaps with the other slots in use.
Cost(g, i) == SumFunction([j \in Slots(g.used) \ {i} |-> Square(Score(g, i, j))])

\* fpc_enrollment_initial_order: ascending costs, slots of equal cost as they
\* came; slots that are not in use stay behind them in their places.
InitialOrder(g) ==
  LET Rank(s) == Cardinality({t \in Slots(g.used) :
                   Cost(g, t) < Cost(g, s) \/ (Cost(g, t) = Cost(g, s) /\ t < s)})
  IN  [p \in Slots(g.capacity) |->
         IF p >= g.used THEN p ELSE CHOOSE s \in Slots(g.used) : Rank(s) = p]

\* fpc_retained_graph_create: `row[later][earlier]` are the scores in the
\* order in which an enrolment measured them.
GraphCreate(row, used, retention, protection) ==
  LET capacity == Larger(used, retention)
      PairAt(k) == {p \in Slots(used) \X Slots(used) :
                      p[1] < p[2] /\ PairIndex(capacity, p[1], p[2]) = k}
  IN  [used      |-> used,
       capacity  |-> capacity,
       protected |-> protection,
       threshold |-> 3 * capacity,
       order     |-> [p \in Slots(capacity) |-> p],
       ages      |-> [i \in Slots(capacity) |-> 2 * retention],
       scores    |-> [k \in Slots(Pairs(capacity)) |->
                        IF PairAt(k) = {} THEN 0
                        ELSE LET p == CHOOSE p \in PairAt(k) : TRUE
                             IN  row[p[2]][p[1]]]]

-----------------------------------------------------------------------------
(* fpc_enrollment_select_capture: the slot for a capture that overlaps with  *)
(* the retained ones by `new`, or -1.                                        *)

\* Variant: one match too late.
AgedOutLater(g, i) == g.ages[i] > g.threshold

AgedOut(g, i) == g.ages[i] >= g.threshold

\* The walk over the order from place `from` on. An aged capture is taken
\* whatever it costs; after that only aged ones that cost more are.
Walk(g, new, from) ==
  LET Sum(i) == Square(new[i]) + Cost(g, i)
      walk[p \in 0 .. g.capacity] ==
        IF p <= from
        THEN [best |-> SumFunction([i \in Slots(g.used) |-> Square(new[i])]),
              slot |-> -1, aged |-> FALSE]
        ELSE LET last == walk[p - 1]
                 i    == g.order[p - 1]
                 more == last.best < Sum(i)
                 aged == AgedOut(g, i)
             IN  IF IF last.aged THEN more /\ aged ELSE more \/ aged
                 THEN [best |-> Sum(i), slot |-> i, aged |-> last.aged \/ aged]
                 ELSE last
  IN  walk[g.capacity]

\* Variant: protects nothing.
SelectCaptureAny(g, new) == IF g.used < g.capacity THEN g.used ELSE Walk(g, new, 0).slot

SelectCapture(g, new) ==
  IF g.used < g.capacity THEN g.used ELSE Walk(g, new, g.protected).slot

\* fpc_enrollment_write_capture_scores: the pairs of `slot` with the others.
RowOf(g, slot, k) == {i \in Slots(g.used) \ {slot} : PairIndex(g.capacity, i, slot) = k}

\* Variant: a pair that is scored already keeps its score.
WrittenOnce(g, slot, new) ==
  [k \in DOMAIN g.scores |->
     IF RowOf(g, slot, k) = {} \/ g.scores[k] # 0 THEN g.scores[k]
     ELSE new[CHOOSE i \in RowOf(g, slot, k) : TRUE]]

Written(g, slot, new) ==
  [k \in DOMAIN g.scores |->
     IF RowOf(g, slot, k) = {} THEN g.scores[k]
     ELSE new[CHOOSE i \in RowOf(g, slot, k) : TRUE]]

WriteScores(g, slot, new) ==
  [g EXCEPT !.scores = Written(g, slot, new),
            !.used   = IF slot = g.used THEN g.used + 1 ELSE g.used]

\* fpc_retained_graph_increment_ages: the count saturates (UINT16_MAX).
IncrementAges(g, most) ==
  [g EXCEPT !.ages = [i \in DOMAIN g.ages |->
     IF i < g.used THEN Lesser(g.ages[i] + 1, most) ELSE g.ages[i]]]

\* fpc_retained_graph_reset_age: its boundary lets the slot after the last pass.
ResetAge(g, i) ==
  IF i \in 0 .. g.used /\ i \in DOMAIN g.ages THEN [g EXCEPT !.ages[i] = 0] ELSE g
=============================================================================
