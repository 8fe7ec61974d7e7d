--------------------------- MODULE CaptureGroups ---------------------------
(***************************************************************************)
(* How the captures of an enrolment are put together                       *)
(* (fpc_rebuild_capture_groups): captures that match, directly or through  *)
(* others, form a group; one group is selected, and a capture of it is the *)
(* reference for the others. Where the captures of a group lie relative to *)
(* each other is left out.                                                 *)
(***************************************************************************)
EXTENDS Integers, FiniteSets, FiniteSetsExt, Functions

CONSTANTS
  MinGroup   \* members from which on a group can be selected (4)

ASSUME MinGroupAssumption == MinGroup \in Nat \ {0}

Indices(n) == 0 .. n - 1

\* `link[<<i, j>>]` is what the match of two captures weighs: its inliers if it
\* succeeded, and 0 otherwise.
Weight(link, n, i, S) == SumFunction([j \in (S \cap Indices(n)) \ {i} |-> link[<<i, j>>]])

\* The first of the heaviest captures of S, as a set: empty when all weigh 0.
Heaviest(S, W) ==
  {i \in S : W[i] > 0 /\ \A j \in S : W[j] < W[i] \/ (W[j] = W[i] /\ i <= j)}

\* The captures that are in a group. Variant: in the first group.
PlacedFirst(groups) == {j \in DOMAIN groups : groups[j] = 0}

Placed(groups) == {j \in DOMAIN groups : groups[j] # -1}

\* One round: the capture that matches those in groups best joins the last group;
\* when none matches any, the heaviest of the rest is the root of a new group.
Grow(link, n, groups) ==
  LET open == {i \in Indices(n) : groups[i] = -1}
      pull == [i \in open |-> Weight(link, n, i, Placed(groups))]
      heft == [i \in open |-> Weight(link, n, i, Indices(n))]
  IN  IF Heaviest(open, pull) # {}
      THEN [join |-> Heaviest(open, pull), root |-> {}]
      ELSE [join |-> {}, root |-> Heaviest(open, heft)]

\* The groups of n captures; entries of `roots` beyond the last group stay.
Grouping(link, n, roots) ==
  LET round[k \in 0 .. n] ==
        IF k = 0 THEN [group |-> -1, groups |-> [i \in Indices(n) |-> -1], roots |-> roots]
        ELSE LET s == round[k - 1]
                 t == Grow(link, n, s.groups)
                 g == s.group + Cardinality(t.root)
             IN  [group  |-> g,
                  groups |-> [i \in Indices(n) |-> IF i \in t.join \cup t.root THEN g
                                                   ELSE s.groups[i]],
                  roots  |-> [h \in DOMAIN roots |->
                                IF h = g /\ t.root # {} THEN CHOOSE i \in t.root : TRUE
                                ELSE s.roots[h]]]
  IN  round[n]

Members(groups, g) == {i \in DOMAIN groups : groups[i] = g}

\* The group of the reference, or -1. Variant: takes group numbers for lasting.
HomeByNumber(made, state) == state.selected

Home(made, state) ==
  IF state.reference \in DOMAIN made.groups THEN made.groups[state.reference] ELSE -1

\* Which group is selected: at first the last that is large enough, later the
\* one that the reference is in.
Select(made, state) ==
  LET large == {g \in 0 .. made.group : Cardinality(Members(made.groups, g)) >= MinGroup}
      home  == Home(made, state)
      To(g, i) == [selected |-> g, reference |-> i, roots |-> [made.roots EXCEPT ![g] = i]]
  IN  IF state.selected # -1
      THEN IF home >= 0 THEN To(home, state.reference) ELSE To(0, made.roots[0])
      ELSE IF large # {} THEN To(Max(large), made.roots[Max(large)])
      ELSE [selected |-> -1, reference |-> state.reference, roots |-> made.roots]

\* fpc_rebuild_capture_groups
RebuildGroups(link, n, state) ==
  LET made == Grouping(link, n, state.roots)
      sel  == Select(made, state)
  IN  [groups |-> made.groups, count |-> made.group + 1, roots |-> sel.roots,
       selected |-> sel.selected, reference |-> sel.reference]

-----------------------------------------------------------------------------
(* The reference: connected components. *)

Connected(link, n, i, j) ==
  \A S \in SUBSET Indices(n) :
    (i \in S /\ \A a \in S, b \in Indices(n) : a # b /\ link[<<a, b>>] > 0 => b \in S) => j \in S

Linked(link, n, i) == \E j \in Indices(n) : j # i /\ link[<<i, j>>] > 0
=============================================================================
