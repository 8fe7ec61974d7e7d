---------------------------- MODULE KeptCaptures ----------------------------
(***************************************************************************)
(* What a template promises while it adapts to its finger: a set of        *)
(* captures whose mutual overlap is known, each with the number of matches *)
(* since it last was of use. Slots, orders and arrays do not appear.       *)
(***************************************************************************)
EXTENDS Integers, FiniteSets, FiniteSetsExt, Functions

CONSTANTS
  Capture,    \* the captures that scans of the finger yield
  Overlap,    \* the spatial scores two captures can have
  Room,       \* how many captures a template keeps
  Threshold,  \* the age from which a capture is given up first
  MaxAge      \* ages stop growing there

VARIABLES
  kept,       \* the captures of the template
  safe,       \* those of them that are never given up
  measured,   \* measured[{a, b}]: how much the kept captures a and b overlap
  age         \* age[c]: matches since the kept capture c was last of use

vars == <<kept, safe, measured, age>>

PairsOf(S) == {p \in SUBSET S : Cardinality(p) = 2}

\* The overlaps after capture c came in with the overlaps `row`.
Extended(c, row) ==
  [p \in PairsOf(kept \cup {c}) |->
     IF c \in p THEN row[CHOOSE k \in p : k # c] ELSE measured[p]]

Redundancy(m, S, c) ==
  SumFunction([k \in S \ {c} |-> m[{c, k}] * m[{c, k}]])

\* Whom the capture c may replace. An aged capture makes room before any other
\* one; a young one does when it overlaps with the rest more than c would.
MostRedundant(S, m, all) ==
  {c \in S : \A k \in S : Redundancy(m, all, k) <= Redundancy(m, all, c)}

Replaceable(c, row, ages) ==
  LET all  == kept \cup {c}
      m    == Extended(c, row)
      free == kept \ safe
      aged == {k \in free : ages[k] >= Threshold}
      over == {k \in free : Redundancy(m, all, k) > Redundancy(m, all, c)}
  IN  IF aged # {} THEN MostRedundant(aged, m, all) ELSE MostRedundant(over, m, all)

Grown(best) ==
  [k \in kept |-> IF k = best THEN 0
                  ELSE IF age[k] < MaxAge THEN age[k] + 1 ELSE MaxAge]

\* A template as an enrolment leaves it.
Init ==
  /\ kept \in {S \in SUBSET Capture : S # {}}
  /\ safe \subseteq kept
  /\ measured \in [PairsOf(kept) -> Overlap]
  /\ age \in [kept -> 0 .. MaxAge]

\* A scan that matched best with the kept capture `best`.
Matched(best) ==
  /\ age' = Grown(best)
  /\ UNCHANGED <<kept, safe, measured>>

\* The capture c of such a scan, which overlaps with the kept ones by `row`,
\* takes the place of those in `out`.
Adopt(c, row, out) ==
  /\ kept' = (kept \ out) \cup {c}
  /\ \A k \in kept \ out : measured'[{c, k}] = row[k]
  /\ measured' = [p \in PairsOf(kept') |-> Extended(c, row)[p]]
  /\ safe \subseteq safe' /\ safe' \subseteq safe \cup {c}

\* There is room for c, or it replaces one that the rule allows.
Retained(best, c, row) ==
  LET ages == Grown(best)
  IN  /\ \/ Cardinality(kept) < Room /\ Adopt(c, row, {})
         \/ /\ Cardinality(kept) = Room
            /\ \E k \in kept \ safe :
                 Adopt(c, row, {k}) /\ safe' = safe /\ k \in Replaceable(c, row, ages)
      /\ age' = [k \in kept' |-> IF k = c THEN 0 ELSE ages[k]]

Next ==
  \E best \in kept :
    \/ Matched(best)
    \/ \E c \in Capture \ kept : \E row \in [kept -> Overlap] : Retained(best, c, row)

Spec == Init /\ [][Next]_vars
=============================================================================
