--------------------------- MODULE TemplateUpdate ---------------------------
(***************************************************************************)
(* How a stored template adapts to its finger (fpc_recovered.c,            *)
(* fingerprint.cpp): every scan that is verified against it ages its       *)
(* captures and may leave one of its own behind, in a free slot or in the  *)
(* place of a capture that tells least.                                    *)
(***************************************************************************)
EXTENDS RetainedGraph

CONSTANTS
  Capture,      \* captures that scans of the finger yield
  Overlap,      \* spatial scores of a pair of captures
  Retention,    \* retention capacity of a template (32)
  Protection,   \* captures that are never given up (8)
  AgeMax,       \* UINT16_MAX
  MinEnrolled, MaxEnrolled  \* captures an enrolment completes with (7, 13)

ASSUME AgeMaxAssumption == AgeMax \in Nat \ {0}
ASSUME OverlapAssumption == Overlap \subseteq Nat
ASSUME SizesAssumption ==
  /\ Retention \in Nat /\ Retention >= 2
  /\ Protection \in Nat
  /\ MinEnrolled \in Nat \ {0} /\ MaxEnrolled \in Nat
  /\ MinEnrolled <= MaxEnrolled /\ MaxEnrolled <= Retention
  /\ 3 * Retention <= AgeMax

VARIABLES
  graph,       \* fpc_loaded_template.graph
  collection,  \* fpc_loaded_template.collection: slot -> capture
  measured     \* history: the score each pair of kept captures was found to have

vars == <<graph, collection, measured>>

Used == Slots(graph.used)
Kept == Range(collection)

PairsOf(S) == {{p[1], p[2]} : p \in {q \in S \X S : q[1] # q[2]}}

TypeOK ==
  /\ graph \in [used : 1 .. Retention, capacity : {Retention}, protected : {Protection},
                threshold : {3 * Retention}, order : [Slots(Retention) -> Slots(Retention)],
                ages : [Slots(Retention) -> 0 .. AgeMax],
                scores : [Slots(Pairs(Retention)) -> Overlap \cup {0}]]
  /\ collection \in UNION {[Slots(n) -> Capture] : n \in 1 .. Retention}
  /\ measured \in [PairsOf(Kept) -> Overlap]

\* The template of an enrolment: fpc_native_enrollment_finish.
Enrolled(n, row) ==
  LET g == GraphCreate(row, n, Retention, Protection)
  IN  [g EXCEPT !.order = InitialOrder(g)]

Init ==
  \E n \in MinEnrolled .. MaxEnrolled :
    /\ collection \in {f \in [Slots(n) -> Capture] : IsInjective(f)}
    /\ measured \in [PairsOf(Kept) -> Overlap]
    /\ graph = Enrolled(n, [l \in Slots(n) |-> [e \in Slots(l) |->
                                measured[{collection[e], collection[l]}]]])

-----------------------------------------------------------------------------
\* What a scan that is verified and no new capture does: ages only.
Aged(best) == ResetAge(IncrementAges(graph, AgeMax), best)

\* fpc_loaded_collection_take_capture
TakeCapture(slot, c) ==
  [i \in Slots(graph.used) \cup {slot} |-> IF i = slot THEN c ELSE collection[i]]

\* A verified scan whose quality is too low to learn from, or whose capture
\* finds no slot.
AgeOnly(best) ==
  /\ graph' = Aged(best)
  /\ UNCHANGED <<collection, measured>>

\* Variant: the new capture inherits the age of its slot.
RetainUnreset(best, c, row) ==
  LET g    == Aged(best)
      slot == SelectCapture(g, row)
  IN  /\ slot >= 0
      /\ graph' = WriteScores(g, slot, row)
      /\ collection' = TakeCapture(slot, c)
      /\ measured' = [p \in PairsOf(Range(collection')) |->
           IF c \in p THEN row[CHOOSE i \in Used : collection[i] \in p \ {c}] ELSE measured[p]]

\* fpc_loaded_template_retain_capture within fpc_update_template_after_match;
\* row[i] is the spatial score of the scan with the capture in slot i.
Retain(best, c, row) ==
  LET g    == Aged(best)
      slot == SelectCapture(g, row)
  IN  /\ slot >= 0
      /\ graph' = ResetAge(WriteScores(g, slot, row), slot)
      /\ collection' = TakeCapture(slot, c)
      /\ measured' = [p \in PairsOf(Range(collection')) |->
           IF c \in p THEN row[CHOOSE i \in Used : collection[i] \in p \ {c}] ELSE measured[p]]

\* fpc_update_template_after_match for a scan of good quality
Learn(best, c) ==
  \E row \in [Used -> Overlap] :
    \/ Retain(best, c, row)
    \/ SelectCapture(Aged(best), row) < 0 /\ AgeOnly(best)

\* FingerprintStorage::verify: identification found `best`. A scan whose update
\* or save fails leaves the stored template as it was.
Next == \E best \in Used : AgeOnly(best) \/ \E c \in Capture \ Kept : Learn(best, c)

Spec == Init /\ [][Next]_vars

-----------------------------------------------------------------------------
(* Properties *)

\* The graph and the collection count alike, and no capture is kept twice: the
\* two arrays of a template never fall apart, whatever is taken or replaced.
CountsAgree ==
  /\ DOMAIN collection = Used
  /\ IsInjective(collection)

\* Each stored score is the one its two captures were found to have: replacing a
\* capture leaves no score of its predecessor behind and touches no other pair.
ScoresAgree ==
  \A i, j \in Used : i # j => Score(graph, i, j) = measured[{collection[i], collection[j]}]

\* Graph and collection describe the same captures.
ArraysAgree == CountsAgree /\ ScoresAgree

SafeSlots == {graph.order[p] : p \in Slots(Lesser(Protection, Retention))}
Safe == {collection[i] : i \in Used \cap SafeSlots}

\* A protected capture stays in its slot for ever.
ProtectedStay ==
  [][\A i \in Used \cap SafeSlots : i \in DOMAIN collection' /\ collection'[i] = collection[i]]_vars

\* The slot of a kept capture.
SlotOf(c) == CHOOSE i \in Used : collection[i] = c

AgeOf == [c \in Kept |-> graph.ages[SlotOf(c)]]

\* The template as the captures it keeps.
Abstract == INSTANCE KeptCaptures WITH
  kept      <- Kept,
  safe      <- Safe,
  age       <- AgeOf,
  Room      <- Retention,
  Threshold <- 3 * Retention,
  MaxAge    <- AgeMax

\* A template that adapts implements KeptCaptures: whatever fpc_update_template_after_match
\* does to the four arrays, captures come and go by the rule on captures, and
\* the ages follow their captures and not the slots.
KeepsCaptures == Abstract!Spec

\* Whatever a scan overlaps with, the slot that fpc_enrollment_select_capture
\* finds in its arrays is one that the rule on captures allows, and it finds
\* none only if there is none: an aged capture first, then the one that is most
\* redundant, protected ones never.
EvictsByRule ==
  graph.used = graph.capacity =>
    \A best \in Used, c \in Capture \ Kept : \A row \in [Used -> Overlap] :
      LET g    == Aged(best)
          slot == SelectCapture(g, row)
          out  == Abstract!Replaceable(c, [k \in Kept |-> row[SlotOf(k)]],
                                       [k \in Kept |-> g.ages[SlotOf(k)]])
      IN  IF slot < 0 THEN out = {} ELSE collection[slot] \in out
=============================================================================
