----------------------------- MODULE Enrollment -----------------------------
(***************************************************************************)
(* An enrolment (native/enrollment.c) and what the scan task makes of it   *)
(* (WorkerEnrollVerify::parse_image): scans are rejected or taken in,      *)
(* matched with the earlier ones and grouped, until the finger has been    *)
(* seen often enough or moved enough; then a template is made of them.     *)
(*                                                                         *)
(* Arrays start at 0. Areas and motions only decide whether a capture      *)
(* leaves the picture of the finger settled, which is an input here.       *)
(***************************************************************************)
EXTENDS RetainedGraph, CaptureGroups, Sequences

CONSTANTS
  Target,      \* captures that complete an enrolment (13)
  Minimum,     \* captures from which on a settled one completes (7)
  Early,       \* captures from which on it can be settled (3)
  MaxStreak,   \* rejections in a row that end it (10)
  Retention, Protection,  \* of the template (32, 8)
  Outcome      \* what a match of two captures gives: success, inliers, spatial

ASSUME SizesAssumption ==
  /\ Early \in Nat /\ Minimum \in Nat /\ Target \in Nat \ {0} /\ MaxStreak \in Nat \ {0}
  /\ Early <= Minimum /\ Minimum <= Target /\ Target <= Retention
  /\ Retention \in Nat /\ 2 <= Retention

\* The code counts inliers, and hands spatial ones on as uint16_t.
ASSUME OutcomeAssumption == Outcome \subseteq [success : BOOLEAN, inliers : Nat, spatial : Nat]

VARIABLES
  count,     \* captures taken in
  matches,   \* matches with earlier captures, in the order they were made
  grouping,  \* groups, roots, their count, the selected one and its reference
  settled,   \* the last capture, the Early-th at least, left area and motion settled
  latched,   \* quality.early_complete_latched
  streak,    \* quality.rejection_streak
  progress,  \* quality.progress
  joined,    \* bit 0 of report.group_change
  failed,    \* s.failed
  status,    \* the last result that the client was told
  template,  \* the graph of the finished template, or NoTemplate
  found      \* history: what the match of each pair gave

vars == <<count, matches, grouping, settled, latched, streak, progress, joined,
          failed, status, template, found>>

NoTemplate == [used |-> 0]
Ended == status \in {"failed", "error", "completed"}

Slot == Indices(Target)

TypeOK ==
  /\ count \in 0 .. Target
  /\ matches \in Seq(Outcome)
  /\ grouping.selected \in -1 .. Target - 1 /\ grouping.reference \in -1 .. Target - 1
  /\ settled \in BOOLEAN /\ latched \in BOOLEAN /\ joined \in BOOLEAN /\ failed \in BOOLEAN
  /\ streak \in 0 .. MaxStreak
  /\ progress \in [percent : 0 .. 100, complete : BOOLEAN]
  /\ status \in {"none", "retry", "stage", "failed", "error", "completed"}

\* fpc_native_enrollment_create
Init ==
  /\ count = 0 /\ matches = <<>>
  /\ grouping = [groups |-> <<>>, roots |-> [g \in Slot |-> 0], count |-> 0,
                 selected |-> -1, reference |-> -1]
  /\ settled = FALSE /\ latched = FALSE /\ streak = 0
  /\ progress = [percent |-> 0, complete |-> FALSE]
  /\ joined = FALSE /\ failed = FALSE
  /\ status = "none" /\ template = NoTemplate
  /\ found = <<>>

\* The place of a pair of captures, e before l, in `matches` and in the scores.
AppendIndex(e, l) == Pairs(l) + e

\* The match record of a pair, as the grouping sees it.
Link(ms, n) ==
  [p \in Indices(n) \X Indices(n) |->
     IF p[1] = p[2] THEN 0
     ELSE LET m == ms[1 + AppendIndex(Lesser(p[1], p[2]), Larger(p[1], p[2]))]
          IN  IF m.success THEN m.inliers ELSE 0]

\* fpc_enrollment_progress_profile300. Variant: forgets the minimum.
LatchOf(n, s) == latched \/ (n >= Early /\ s)

ProgressEarly(n, s) ==
  LET percent == IF LatchOf(n, s) THEN 100 ELSE (n * 100) \div Target
  IN  [percent |-> percent, complete |-> percent >= 100]

Progress(n, s) ==
  LET percent == IF n >= Minimum /\ LatchOf(n, s) THEN 100 ELSE (n * 100) \div Target
  IN  [percent |-> percent, complete |-> percent >= 100]

Unassigned(groups) == Cardinality({i \in DOMAIN groups : groups[i] < 0})

\* Has the new capture joined the selected group, and nothing else changed?
JoinedSelected(old, new) ==
  /\ new.count = old.count
  /\ Unassigned(new.groups) <= Unassigned(old.groups)
  /\ new.selected >= 0 /\ new.groups[count] = new.selected

-----------------------------------------------------------------------------
\* A scan of too little quality. Variant: counts from the capture to come.
RejectAhead ==
  /\ ~Ended /\ count < Target
  /\ latched' = LatchOf(count + 1, settled)
  /\ progress' = Progress(count + 1, settled)
  /\ streak' = streak + 1
  /\ status' = IF streak' >= MaxStreak THEN "failed" ELSE "retry"
  /\ UNCHANGED <<count, matches, grouping, settled, joined, failed, template, found>>

Reject ==
  /\ ~Ended /\ count < Target
  /\ latched' = LatchOf(count, settled)
  /\ progress' = Progress(count, settled)
  /\ streak' = streak + 1
  /\ status' = IF streak' >= MaxStreak THEN "failed" ELSE "retry"
  /\ UNCHANGED <<count, matches, grouping, settled, joined, failed, template, found>>

\* The scores of the template. Variant: as if `matches` were stored by rows.
SpatialRowMajor(ms, n) ==
  [l \in Indices(n) |-> [e \in Indices(l) |-> ms[1 + PairIndex(n, e, l)].spatial]]

Spatial(ms, n) ==
  [l \in Indices(n) |-> [e \in Indices(l) |-> ms[1 + AppendIndex(e, l)].spatial]]

\* fpc_native_enrollment_finish
Finish(ms, n) ==
  LET g == GraphCreate(Spatial(ms, n), n, Retention, Protection)
  IN  [g EXCEPT !.order = InitialOrder(g)]

\* fpc_native_enrollment_add of a good scan: `row` are its matches with the
\* earlier captures, s says whether it settles the picture.
TakeIn(row, s) ==
  /\ ~Ended /\ count < Target
  /\ matches' = matches \o [i \in 1 .. count |-> row[i - 1]]
  /\ grouping' = RebuildGroups(Link(matches', count + 1), count + 1, grouping)
  /\ joined' = JoinedSelected(grouping, grouping')
  /\ count' = count + 1
  /\ settled' = s
  /\ latched' = LatchOf(count + 1, s)
  /\ progress' = Progress(count + 1, s)
  /\ streak' = 0
  /\ found' = [p \in DOMAIN found \cup {{e, count} : e \in Indices(count)} |->
                 IF count \in p THEN row[Min(p)] ELSE found[p]]
  /\ \/ ~progress'.complete /\ status' = "stage" /\ UNCHANGED template
     \/ /\ progress'.complete
        /\ \/ status' = "completed" /\ template' = Finish(matches', count + 1)
           \/ status' \in {"error", "failed"} /\ UNCHANGED template
  /\ UNCHANGED failed

\* One that cannot be matched, grouped or measured: what it had added by then
\* stays, and the session is of no more use.
Break ==
  /\ ~Ended /\ count < Target
  /\ failed' = TRUE /\ status' = "error" /\ streak' = 0
  /\ \/ \E k \in 0 .. count : \E row \in [1 .. k -> Outcome] :
          matches' = matches \o row /\ UNCHANGED <<count, grouping>>
     \/ /\ \E row \in [1 .. count -> Outcome] : matches' = matches \o row
        /\ count' = count + 1
        /\ grouping' = RebuildGroups(Link(matches', count + 1), count + 1, grouping)
  /\ UNCHANGED <<settled, latched, progress, joined, template, found>>

\* Two captures never cover the area that a settled picture needs, whatever their
\* motion: 2 * 112 * 88 < 25000.
Next ==
  \/ Reject
  \/ \E row \in [Indices(count) -> Outcome], s \in {FALSE, count + 1 >= Early} : TakeIn(row, s)
  \/ Break

Spec == Init /\ [][Next]_vars

-----------------------------------------------------------------------------
(* Properties *)

\* Each match is where the grouping, the metrics and the template look for it.
MatchesInPlace ==
  failed \/ /\ Len(matches) = Pairs(count)
            /\ \A l \in Indices(count) : \A e \in Indices(l) :
                 matches[1 + AppendIndex(e, l)] = found[{e, l}]

\* An enrolment that goes on has room for another capture (its arrays hold Target
\* captures), and one completes only with enough of them.
EndsInTime ==
  /\ ~Ended => count < Target /\ ~failed /\ ~progress.complete
  /\ status = "completed" => count = Target \/ (count >= Minimum /\ latched)
  /\ latched => count >= Early

EnrollmentSound == MatchesInPlace /\ EndsInTime

\* Groups are what the matches connect, each has its root among its members, and
\* the selected one is large enough and holds the reference, which is its root.
GroupsSound ==
  ~failed =>
    LET link == Link(matches, count)
        G    == grouping.groups
    IN  /\ \A i, j \in Indices(count) : i # j =>
             ((G[i] = G[j] /\ G[i] # -1) <=> Connected(link, count, i, j))
        /\ \A i \in Indices(count) : G[i] = -1 <=> ~Linked(link, count, i)
        /\ \A g \in 0 .. grouping.count - 1 : G[grouping.roots[g]] = g
        /\ grouping.selected # -1 =>
             /\ G[grouping.reference] = grouping.selected
             /\ grouping.roots[grouping.selected] = grouping.reference
             /\ Cardinality(Members(G, grouping.selected)) >= MinGroup

\* Once an enrolment has its reference it keeps it, however groups are renumbered
\* or merged; and a capture is reported as joining the selected group just when it
\* matches captures of that one group only.
ReferenceStays ==
  [][~failed' =>
       /\ grouping.selected # -1 => grouping'.reference = grouping.reference
       /\ count' > count =>
            LET near == {grouping.groups[i] : i \in
                          {j \in Indices(count) : Link(matches', count')[<<j, count>>] > 0}} \ {-1}
            IN  joined' <=> /\ grouping'.selected # -1
                           /\ grouping'.groups[count] = grouping'.groups[grouping'.reference]
                           /\ Cardinality(near) = 1]_vars

\* A rejected scan leaves everything that was reached as it was: progress that is
\* computed anew from the last good scan comes out the same.
RejectionKeepsProgress ==
  [][status' = "retry" => UNCHANGED <<count, matches, grouping, latched, progress>>]_vars

\* The template of a completed enrolment scores each pair of captures as they were
\* found to match, and orders them so that those it protects overlap least.
FinishedTemplate ==
  status = "completed" =>
    LET Tells(i) == SumFunction([j \in Indices(count) \ {i} |-> Square(found[{i, j}].spatial)])
    IN  /\ template.used = count
        /\ \A l \in Indices(count) : \A e \in Indices(l) :
             Score(template, e, l) = found[{e, l}].spatial
        /\ {template.order[p] : p \in Indices(count)} = Indices(count)
        /\ \A p, q \in Indices(count) :
             p < q => Tells(template.order[p]) <= Tells(template.order[q])
=============================================================================
