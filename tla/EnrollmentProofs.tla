-------------------------- MODULE EnrollmentProofs --------------------------
(***************************************************************************)
(* An enrolment keeps its matches in place, ends neither early nor beyond  *)
(* its arrays, does not notice a rejected scan, groups exactly what is     *)
(* linked, keeps its reference while the groups stay, and finishes a       *)
(* template that fits, whatever its limits and what its captures match.    *)
(* Captures are placed as their matches say, and area and movement are     *)
(* those of the captures there. Matching pairs what is nearest, finds the  *)
(* best of the motions it tries, and identifies the first template that    *)
(* matches well enough, whatever it is given. Images are prepared as they  *)
(* should be: the better frame, the corrected pixels, the brightness, the  *)
(* mask and the stripes.                                                   *)
(***************************************************************************)
EXTENDS Enrollment, LayoutCases, MatchingCases, ImageCases, RetainedGraphProofs

-----------------------------------------------------------------------------
(* The inductive invariant. *)

\* The matches of the first n captures, each in its place.
InPlace(ms, f, n) ==
  /\ Len(ms) = Pairs(n)
  /\ \A l \in Indices(n) : \A e \in Indices(l) : ms[1 + AppendIndex(e, l)] = f[{e, l}]

\* History knows a match for each pair of captures.
PairsFound == \A l \in Indices(count) : \A e \in Indices(l) : {e, l} \in DOMAIN found

\* Quality and progress are what they would be if they were computed anew.
ProgressCurrent ==
  /\ latched = LatchOf(count, settled)
  /\ progress = Progress(count, settled)

GoingOn == ~failed /\ count < Target /\ ~progress.complete /\ ProgressCurrent

IInv ==
  /\ count \in 0 .. Target
  /\ settled \in BOOLEAN /\ latched \in BOOLEAN
  /\ matches \in Seq(Outcome)
  /\ ~failed => InPlace(matches, found, count) /\ PairsFound
  /\ ~Ended => GoingOn
  /\ status = "completed" => count = Target \/ (count >= Minimum /\ latched)
  /\ latched => count >= Early

-----------------------------------------------------------------------------
(* Arithmetic. *)

\* Half of it is whole.
LEMMA PairsNext == \A n \in Nat : Pairs(n) \in Nat /\ Pairs(n + 1) = Pairs(n) + n
  <1> SUFFICES ASSUME NEW n \in Nat PROVE Pairs(n) \in Nat /\ Pairs(n + 1) = Pairs(n) + n
    OBVIOUS
  <1>1. Pairs(n) \in Nat /\ 2 * Pairs(n) = n * (n - 1)
    BY PairsHalf
  <1>2. Pairs(n + 1) \in Nat /\ 2 * Pairs(n + 1) = (n + 1) * n
    <2>1. n + 1 \in Nat /\ (n + 1) - 1 = n
      OBVIOUS
    <2>2. QED
      BY <2>1, PairsHalf
  <1>3. (n + 1) * n = n * (n - 1) + 2 * n
    OBVIOUS
  <1>4. QED
    BY <1>1, <1>2, <1>3

\* A pair of earlier captures comes before all pairs of a later one.
LEMMA PairsGrow ==
  ASSUME NEW m \in Nat, NEW n \in Nat, m < n
  PROVE  Pairs(m) + m <= Pairs(n)
  <1>1. m * (m + 1) <= n * (n - 1)
    <2>1. m <= n - 1 /\ m + 1 <= n
      OBVIOUS
    <2>2. m * (m + 1) <= (n - 1) * (m + 1)
      BY <2>1
    <2>3. (n - 1) * (m + 1) <= (n - 1) * n
      BY <2>1
    <2>4. QED
      BY <2>2, <2>3
  <1>2. Pairs(m + 1) <= Pairs(n)
    BY <1>1 DEF Pairs
  <1>3. QED
    BY <1>2, PairsNext

\* A share of all is all just for all.
LEMMA ShareOfAll ==
  ASSUME NEW n \in Nat, NEW t \in Nat \ {0}, n <= t
  PROVE  (n * 100) \div t >= 100 <=> n = t
  <1>1. CASE n = t
    <2>1. (t * 100) \div t = 100
      OBVIOUS
    <2>2. QED
      BY <1>1, <2>1
  <1>2. CASE n < t
    <2>1. n * 100 < t * 100
      BY <1>2
    <2>2. (n * 100) \div t < 100
      BY <2>1
    <2>3. QED
      BY <1>2, <2>2
  <1>3. QED
    BY <1>1, <1>2

\* An enrolment that is not complete has room (fpc_enrollment_progress_profile300).
LEMMA ProgressMeans ==
  ASSUME NEW n \in 0 .. Target, NEW s \in BOOLEAN, latched \in BOOLEAN
  PROVE  Progress(n, s).complete <=> (n = Target \/ (n >= Minimum /\ LatchOf(n, s)))
  <1>1. CASE n >= Minimum /\ LatchOf(n, s)
    <2>1. Progress(n, s).complete <=> 100 >= 100
      BY <1>1 DEF Progress
    <2>2. QED
      BY <1>1, <2>1
  <1>2. CASE ~(n >= Minimum /\ LatchOf(n, s))
    <2>1. Progress(n, s).complete <=> (n * 100) \div Target >= 100
      BY <1>2 DEF Progress
    <2>2. n \in Nat /\ Target \in Nat \ {0} /\ n <= Target
      BY SizesAssumption
    <2>3. (n * 100) \div Target >= 100 <=> n = Target
      BY <2>2, ShareOfAll
    <2>4. QED
      BY <1>2, <2>1, <2>3
  <1>3. QED
    BY <1>1, <1>2

-----------------------------------------------------------------------------
(* Steps. *)

\* The first state (fpc_native_enrollment_create).
LEMMA InitInv == Init => IInv
  <1> SUFFICES ASSUME Init PROVE IInv
    OBVIOUS
  <1>0. /\ count = 0 /\ matches = <<>> /\ found = <<>> /\ settled = FALSE /\ latched = FALSE
        /\ ~failed /\ status = "none" /\ progress = [percent |-> 0, complete |-> FALSE]
    <2>1. count = 0 /\ matches = <<>> /\ found = <<>> /\ status = "none"
      BY DEF Init
    <2>2. settled = FALSE /\ latched = FALSE /\ ~failed
      BY Zenon DEF Init
    <2>3. progress = [percent |-> 0, complete |-> FALSE]
      BY DEF Init
    <2>4. QED
      BY <2>1, <2>2, <2>3
  <1>1. ~latched
    BY <1>0
  <1>2. Indices(0) = {}
    BY DEF Indices
  <1>3. Pairs(0) = 0
    BY DEF Pairs
  <1>4. InPlace(matches, found, count) /\ PairsFound
    <2>1. InPlace(matches, found, count)
      BY <1>0, <1>2, <1>3 DEF InPlace
    <2>2. PairsFound
      BY <1>0, <1>2 DEF PairsFound
    <2>3. QED
      BY <2>1, <2>2
  <1>5. LatchOf(0, FALSE) = FALSE
    BY <1>1 DEF LatchOf
  <1>6. Progress(0, FALSE) = [percent |-> 0, complete |-> FALSE]
    <2>1. (0 * 100) \div Target = 0
      BY SizesAssumption
    <2>2. ~(0 >= Minimum /\ LatchOf(0, FALSE))
      BY <1>5
    <2>3. Progress(0, FALSE) = [percent |-> 0, complete |-> 0 >= 100]
      BY <2>1, <2>2 DEF Progress
    <2>4. (0 >= 100) = FALSE
      OBVIOUS
    <2>5. QED
      BY <2>3, <2>4, Zenon
  <1>7. ProgressCurrent
    BY <1>0, <1>5, <1>6 DEF ProgressCurrent
  <1>8. GoingOn
    BY <1>0, <1>7, SizesAssumption DEF GoingOn
  <1>9. matches \in Seq(Outcome)
    BY <1>0
  <1>10. count \in 0 .. Target /\ settled \in BOOLEAN /\ latched \in BOOLEAN
    <2>1. count \in 0 .. Target
      BY <1>0, SizesAssumption
    <2>2. settled \in BOOLEAN /\ latched \in BOOLEAN
      BY <1>0, Zenon
    <2>3. QED
      BY <2>1, <2>2
  <1>11. QED
    BY <1>0, <1>1, <1>4, <1>8, <1>9, <1>10 DEF IInv

\* What is computed anew after a rejected scan is what was there
\* (fpc_enrollment_quality_profile300).
LEMMA RejectUnseen ==
  ASSUME IInv, Reject
  PROVE  UNCHANGED <<count, matches, grouping, settled, latched, progress, failed, found, template>>
         /\ status' \in {"retry", "failed"}
  BY DEF IInv, Reject, GoingOn, ProgressCurrent

\* A rejected scan leaves the matches, the progress and the room as they were
\* (fpc_enrollment_quality_profile300).
LEMMA RejectInv ==
  ASSUME IInv, Reject
  PROVE  IInv'
  <1>1. UNCHANGED <<count, matches, settled, latched, progress, failed, found>>
        /\ status' \in {"retry", "failed"} /\ ~Ended
    BY RejectUnseen DEF Reject
  <1>2. GoingOn'
    BY <1>1 DEF IInv, GoingOn, ProgressCurrent, LatchOf, Progress
  <1>3. ~failed' => (InPlace(matches, found, count) /\ PairsFound)'
    BY <1>1 DEF IInv, InPlace, PairsFound
  <1>4. QED
    BY <1>1, <1>2, <1>3 DEF IInv

\* An add that fails on the way (the error paths of fpc_native_enrollment_add).
LEMMA BreakInv ==
  ASSUME IInv, Break
  PROVE  IInv'
  <1>1. failed' /\ Ended'
    BY DEF Break, Ended
  <1>2. matches' \in Seq(Outcome)
    <2>1. CASE \E k \in 0 .. count : \E row \in [1 .. k -> Outcome] : matches' = matches \o row
      <3>1. PICK k \in 0 .. count : \E row \in [1 .. k -> Outcome] : matches' = matches \o row
        BY <2>1
      <3>2. PICK row \in [1 .. k -> Outcome] : matches' = matches \o row
        BY <3>1
      <3>3. k \in Nat
        BY DEF IInv
      <3>4. row \in Seq(Outcome)
        BY <3>3
      <3>5. QED
        BY <3>2, <3>4 DEF IInv
    <2>2. CASE \E row \in [1 .. count -> Outcome] : matches' = matches \o row
      <3>1. PICK row \in [1 .. count -> Outcome] : matches' = matches \o row
        BY <2>2
      <3>2. count \in Nat
        BY DEF IInv
      <3>3. row \in Seq(Outcome)
        BY <3>2
      <3>4. QED
        BY <3>1, <3>3 DEF IInv
    <2>3. QED
      BY <2>1, <2>2 DEF Break
  <1>3. count' \in 0 .. Target /\ count' >= count
    BY SizesAssumption DEF Break, IInv
  <1>4. UNCHANGED <<settled, latched>> /\ status' = "error"
    BY DEF Break
  <1>5. latched' => count' >= Early
    BY <1>3, <1>4, SizesAssumption DEF IInv
  <1>6. QED
    BY <1>1, <1>2, <1>3, <1>4, <1>5 DEF IInv

\* Two sequences, one after the other.
LEMMA Joined ==
  ASSUME NEW S, NEW a \in Seq(S), NEW b \in Seq(S)
  PROVE  a \o b \in Seq(S) /\ Len(a \o b) = Len(a) + Len(b)
  OBVIOUS

\* Each is where it was, or behind the others.
LEMMA JoinedParts ==
  ASSUME NEW S, NEW a \in Seq(S), NEW b \in Seq(S)
  PROVE  /\ \A k \in 1 .. Len(a) : (a \o b)[k] = a[k]
         /\ \A k \in 1 .. Len(b) : (a \o b)[Len(a) + k] = b[k]
  OBVIOUS

\* Adding the matches of a capture leaves those of earlier ones where they were
\* and puts each new one where it is looked for (fpc_native_enrollment_add).
LEMMA TakeInPlace ==
  ASSUME IInv, ~failed, NEW row \in [Indices(count) -> Outcome],
         matches' = matches \o [i \in 1 .. count |-> row[i - 1]],
         count' = count + 1,
         found' = [p \in DOMAIN found \cup {{e, count} : e \in Indices(count)} |->
                     IF count \in p THEN row[Min(p)] ELSE found[p]]
  PROVE  matches' \in Seq(Outcome) /\ InPlace(matches', found', count') /\ PairsFound'
  <1> DEFINE new   == [i \in 1 .. count |-> row[i - 1]]
  <1>1. count \in Nat /\ matches \in Seq(Outcome) /\ InPlace(matches, found, count) /\ PairsFound
    BY DEF IInv
  <1>2. new \in Seq(Outcome) /\ Len(new) = count /\ \A i \in 1 .. count : new[i] = row[i - 1]
    <2>1. \A i \in 1 .. count : row[i - 1] \in Outcome
      BY <1>1 DEF Indices
    <2>2. new \in [1 .. count -> Outcome]
      BY <2>1
    <2>3. QED
      BY <1>1, <2>2
  <1>3. Len(matches) = Pairs(count) /\ Pairs(count) \in Nat /\ Pairs(count + 1) = Pairs(count) + count
    BY <1>1, PairsNext DEF InPlace
  <1>4. matches' \in Seq(Outcome) /\ Len(matches') = Pairs(count')
    <2>1. matches' = matches \o new /\ count' = count + 1
      OBVIOUS
    <2> HIDE DEF new
    <2>2. matches' \in Seq(Outcome) /\ Len(matches') = Len(matches) + Len(new)
      BY <1>1, <1>2, <2>1, Joined
    <2>3. Len(new) = count
      BY <1>2
    <2>4. Pairs(count') = Pairs(count) + count
      BY <1>3, <2>1
    <2>5. Len(matches') = Pairs(count')
      BY ONLY <1>3, <2>2, <2>3, <2>4
    <2>6. QED
      BY <2>2, <2>5
  <1>5. /\ \A k \in 1 .. Pairs(count) : matches'[k] = matches[k]
        /\ \A k \in 1 .. count : matches'[Pairs(count) + k] = new[k]
    <2>1. matches' = matches \o new
      OBVIOUS
    <2>2. matches \in Seq(Outcome) /\ new \in Seq(Outcome) /\ Len(new) = count
      BY <1>1, <1>2
    <2> HIDE DEF new
    <2>3. /\ \A k \in 1 .. Len(matches) : (matches \o new)[k] = matches[k]
          /\ \A k \in 1 .. Len(new) : (matches \o new)[Len(matches) + k] = new[k]
      BY ONLY <2>2, JoinedParts
    <2>4. QED
      BY <1>3, <2>1, <2>2, <2>3
  <1>6. /\ DOMAIN found' = DOMAIN found \cup {{e, count} : e \in Indices(count)}
        /\ \A p \in DOMAIN found' : found'[p] = IF count \in p THEN row[Min(p)] ELSE found[p]
    OBVIOUS
  <1>7. ASSUME NEW l \in Indices(count'), NEW e \in Indices(l)
        PROVE  matches'[1 + AppendIndex(e, l)] = found'[{e, l}] /\ {e, l} \in DOMAIN found'
    <2>1. l \in Nat /\ e \in Nat /\ e < l /\ l <= count
      BY <1>1 DEF Indices
    <2>2. CASE l = count
      <3>1. {e, l} \in DOMAIN found' /\ count \in {e, l}
        BY <1>6, <2>2
      <3>2. Min({e, l}) = e
        <4>1. \A y \in {e, l} : e <= y
          BY <2>1
        <4>2. \A x \in {e, l} : (\A y \in {e, l} : x <= y) => x = e
          BY <2>1
        <4>3. QED
          BY <4>1, <4>2 DEF Min
      <3>3. found'[{e, l}] = row[e]
        BY <1>6, <3>1, <3>2
      <3>4. e + 1 \in 1 .. count /\ (e + 1) - 1 = e
        BY <2>1, <2>2
      <3>5. new[e + 1] = row[e]
        BY <1>2, <3>4
      <3>6. 1 + AppendIndex(e, l) = Pairs(count) + (e + 1)
        BY <1>3, <2>1, <2>2 DEF AppendIndex
      <3>7. QED
        BY <1>5, <1>6, <3>1, <3>3, <3>4, <3>5, <3>6
    <2>3. CASE l < count
      <3>1. l \in Indices(count)
        BY <1>1, <2>1, <2>3 DEF Indices
      <3>2. count \notin {e, l}
        BY <2>1, <2>3, <1>1
      <3>3. {e, l} \in DOMAIN found
        BY <1>1, <3>1 DEF PairsFound
      <3>4. found'[{e, l}] = found[{e, l}]
        BY <1>6, <3>2, <3>3
      <3>5. 1 + AppendIndex(e, l) \in 1 .. Pairs(count)
        <4>1. Pairs(l) \in Nat /\ Pairs(l) + l <= Pairs(count)
          BY <1>1, <2>1, <2>3, PairsNext, PairsGrow
        <4>2. QED
          BY <1>3, <2>1, <4>1 DEF AppendIndex
      <3>6. matches[1 + AppendIndex(e, l)] = found[{e, l}]
        BY <1>1, <3>1 DEF InPlace
      <3>7. matches'[1 + AppendIndex(e, l)] = matches[1 + AppendIndex(e, l)]
        BY <1>5, <3>5
      <3>8. matches'[1 + AppendIndex(e, l)] = found'[{e, l}]
        BY <3>4, <3>6, <3>7, Zenon
      <3>9. {e, l} \in DOMAIN found'
        BY <1>6, <3>3
      <3>10. QED
        BY <3>8, <3>9
    <2>4. l = count \/ l < count
      BY <1>1, <2>1
    <2>5. QED
      BY <2>2, <2>3, <2>4, Zenon
  <1>8. InPlace(matches', found', count')
    BY <1>4, <1>7 DEF InPlace
  <1>9. PairsFound'
    BY <1>7 DEF PairsFound
  <1>10. QED
    BY <1>4, <1>8, <1>9

\* An enrolment that goes on after a good scan has room, and one that completes
\* has enough (fpc_native_enrollment_add).
LEMMA TakeInInv ==
  ASSUME IInv, NEW row \in [Indices(count) -> Outcome],
         NEW s \in {FALSE, count + 1 >= Early}, TakeIn(row, s)
  PROVE  IInv'
  <1> DEFINE n == count + 1
             u == LatchOf(n, s)
  <1>1. ~failed /\ count < Target /\ count \in Nat /\ n \in 0 .. Target /\ n \in Nat
    BY SizesAssumption DEF IInv, GoingOn, TakeIn
  <1>2. s \in BOOLEAN /\ latched \in BOOLEAN
    <2>1. (n >= Early) \in BOOLEAN
      OBVIOUS
    <2>2. s \in BOOLEAN
      BY <2>1, Zenon
    <2>3. QED
      BY <2>2 DEF IInv
  <1>3. count' = n /\ ~failed' /\ settled' = s /\ latched' = u /\ progress' = Progress(n, s)
    BY <1>1 DEF TakeIn
  <1>4. matches' \in Seq(Outcome) /\ InPlace(matches', found', count') /\ PairsFound'
    BY <1>1, TakeInPlace DEF TakeIn
  <1>5. u \in BOOLEAN
    BY <1>2 DEF LatchOf
  <1>6. u => n >= Early
    BY <1>1, <1>2, SizesAssumption DEF LatchOf, IInv
  <1>7. progress'.complete <=> (n = Target \/ (n >= Minimum /\ u))
    BY <1>1, <1>2, <1>3, ProgressMeans
  <1>8. ProgressCurrent'
    <2>1. LatchOf(count, settled)' = u
      BY <1>3, <1>5 DEF LatchOf
    <2>2. Progress(count, settled)' = Progress(n, s)
      BY <1>3, <2>1 DEF Progress
    <2>3. QED
      BY <1>3, <2>1, <2>2 DEF ProgressCurrent
  <1>9. ~Ended' => GoingOn'
    <2>1. ~Ended' => ~progress'.complete
      BY DEF TakeIn, Ended
    <2>2. ~progress'.complete => n < Target
      <3>1. ~progress'.complete => n # Target
        BY <1>7, Zenon
      <3>2. n # Target => n < Target
        BY <1>1, SizesAssumption
      <3>3. QED
        BY <3>1, <3>2, Zenon
    <2>3. QED
      BY <1>3, <1>8, <2>1, <2>2 DEF GoingOn
  <1>10. status' = "completed" => progress'.complete
    BY DEF TakeIn
  <1>11. status' = "completed" => count' = Target \/ (count' >= Minimum /\ latched')
    BY <1>3, <1>7, <1>10
  <1>12. count' \in 0 .. Target /\ settled' \in BOOLEAN /\ latched' \in BOOLEAN
    BY <1>1, <1>2, <1>3, <1>5
  <1>13. latched' => count' >= Early
    BY <1>3, <1>6
  <1>14. QED
    BY <1>3, <1>4, <1>9, <1>11, <1>12, <1>13 DEF IInv, InPlace

\* Every step keeps IInv: a good scan, a rejected one, and an add that fails
\* (fpc_native_enrollment_add).
LEMMA NextInv ==
  ASSUME IInv, [Next]_vars
  PROVE  IInv'
  <1>1. CASE Reject
    BY <1>1, RejectInv
  <1>2. ASSUME NEW row \in [Indices(count) -> Outcome], NEW s \in {FALSE, count + 1 >= Early},
               TakeIn(row, s)
        PROVE  IInv'
    BY <1>2, TakeInInv
  <1>3. CASE Break
    BY <1>3, BreakInv
  <1>4. CASE UNCHANGED vars
    BY <1>4 DEF vars, IInv, InPlace, PairsFound, GoingOn, ProgressCurrent, Ended, LatchOf, Progress
  <1>5. QED
    BY <1>1, <1>2, <1>3, <1>4 DEF Next

-----------------------------------------------------------------------------
\* IInv holds in every reachable state (native/enrollment.c).
LEMMA Invariant == Spec => []IInv
  BY InitInv, NextInv, PTL DEF Spec

\* Each match is where the grouping, the metrics and the template look for it, and
\* the enrolment ends in time: not before it has enough captures, not after its
\* arrays are full (fpc_native_enrollment_add).
THEOREM EnrollmentSoundHolds == Spec => []EnrollmentSound
  <1>1. IInv => MatchesInPlace
    BY DEF IInv, InPlace, MatchesInPlace
  <1>2. IInv => EndsInTime
    BY DEF IInv, GoingOn, EndsInTime
  <1>3. QED
    BY <1>1, <1>2, Invariant, PTL DEF EnrollmentSound

\* A rejected scan changes nothing but the streak
\* (fpc_enrollment_quality_profile300).
THEOREM RejectionKeepsProgressHolds == Spec => RejectionKeepsProgress
  <1>1. ASSUME IInv, [Next]_vars, status' = "retry"
        PROVE  UNCHANGED <<count, matches, grouping, latched, progress>>
    <2>1. CASE Reject
      BY <1>1, <2>1, RejectUnseen
    <2>2. CASE \E row \in [Indices(count) -> Outcome], s \in {FALSE, count + 1 >= Early} : TakeIn(row, s)
      BY <1>1, <2>2 DEF TakeIn
    <2>3. CASE Break
      BY <1>1, <2>3 DEF Break
    <2>4. CASE UNCHANGED vars
      BY <2>4 DEF vars
    <2>5. QED
      BY <1>1, <2>1, <2>2, <2>3, <2>4 DEF Next
  <1>2. IInv /\ [Next]_vars =>
          [status' = "retry" => UNCHANGED <<count, matches, grouping, latched, progress>>]_vars
    BY <1>1
  <1>3. QED
    BY <1>2, Invariant, PTL DEF Spec, RejectionKeepsProgress

-----------------------------------------------------------------------------
(* The finished template. *)

\* What FinishedTemplate says of a template g of n captures that match as in f.
OverlapTold(f, n, i) == SumFunction([j \in Indices(n) \ {i} |-> Square(f[{i, j}].spatial)])

Tells(g, f, n) ==
  /\ g.used = n
  /\ \A l \in Indices(n) : \A e \in Indices(l) : Score(g, e, l) = f[{e, l}].spatial
  /\ {g.order[p] : p \in Indices(n)} = Indices(n)
  /\ \A p, q \in Indices(n) : p < q => OverlapTold(f, n, g.order[p]) <= OverlapTold(f, n, g.order[q])

\* The spatial inliers of matches that are in place.
LEMMA SpatialInPlace ==
  ASSUME NEW n \in 0 .. Target, NEW ms \in Seq(Outcome), NEW f, InPlace(ms, f, n),
         NEW l \in Slots(n), NEW e \in Slots(l)
  PROVE  Spatial(ms, n)[l][e] = f[{e, l}].spatial /\ f[{e, l}].spatial \in Nat
  <1>1. l \in Indices(n) /\ e \in Indices(l)
    BY DEF Indices, Slots
  <1>2. ms[1 + AppendIndex(e, l)] = f[{e, l}]
    BY <1>1 DEF InPlace
  <1>3. Spatial(ms, n)[l][e] = ms[1 + AppendIndex(e, l)].spatial
    BY <1>1 DEF Spatial
  <1>4. 1 + AppendIndex(e, l) \in 1 .. Len(ms)
    <2>1. l \in Nat /\ n \in Nat /\ l < n /\ e \in Nat /\ e < l
      BY <1>1, SizesAssumption DEF Indices
    <2>2. Pairs(l) \in Nat /\ Pairs(n) \in Nat /\ Pairs(l) + l <= Pairs(n) /\ Len(ms) = Pairs(n)
      BY <2>1, PairsNext, PairsGrow DEF InPlace
    <2>3. QED
      BY <2>1, <2>2 DEF AppendIndex
  <1>5. ms[1 + AppendIndex(e, l)] \in Outcome
    BY <1>4
  <1>6. ms[1 + AppendIndex(e, l)].spatial \in Nat
    BY <1>5, OutcomeAssumption
  <1>7. QED
    BY <1>2, <1>3, <1>6

\* A template made of matches that are in place tells what was found
\* (fpc_native_enrollment_finish).
LEMMA FinishTells ==
  ASSUME NEW n \in 0 .. Target, NEW ms \in Seq(Outcome), NEW f, InPlace(ms, f, n)
  PROVE  Tells(Finish(ms, n), f, n)
  <1> DEFINE R   == Retention
             row == Spatial(ms, n)
  <1>1. R \in Nat /\ R >= 2 /\ n \in 0 .. R /\ n \in Nat
    BY SizesAssumption
  <1>2. \A l \in Slots(n) : \A e \in Slots(l) : row[l][e] = f[{e, l}].spatial /\ row[l][e] \in Nat
    <2>1. \A l \in Slots(n) : \A e \in Slots(l) : row[l][e] = f[{e, l}].spatial /\ f[{e, l}].spatial \in Nat
      BY SpatialInPlace
    <2> HIDE DEF row
    <2>2. QED
      BY <2>1
  <1> HIDE DEF row, R
  <1>3. PICK scores \in [Slots(Pairs(R)) -> Nat \cup {0}] :
          GraphCreate(row, n, R, Protection) = NewGraph(n, R, Protection, scores) /\ ScoredBy(scores, row, n, R)
    BY <1>1, <1>2, CreatedGraph
  <1> DEFINE G == NewGraph(n, R, Protection, scores)
             T == Finish(ms, n)
  <1>4. T = [G EXCEPT !.order = InitialOrder(G)]
    BY <1>3 DEF Finish, row, R
  <1>5. G.used = n /\ G.capacity = R /\ G.scores = scores
    BY DEF NewGraph
  <1>6. T.used = n /\ T.capacity = R /\ T.scores = scores /\ T.order = InitialOrder(G)
    <2>1. \A o : LET S == [G EXCEPT !.order = o]
                 IN  S.used = n /\ S.capacity = R /\ S.scores = scores /\ S.order = o
      BY DEF NewGraph
    <2> HIDE DEF G, T
    <2>2. QED
      BY <1>4, <2>1
  <1> HIDE DEF G, T
  <1>7. ASSUME NEW i \in Slots(R), NEW j \in Slots(R), i # j
        PROVE  Score(G, i, j) = scores[PairIndex(R, i, j)] /\ Score(G, i, j) \in Nat
    <2>1. PairIndex(R, i, j) \in Slots(Pairs(R))
      BY <1>1, <1>7, PlaceInArray
    <2>2. scores[PairIndex(R, i, j)] \in Nat
      BY <2>1
    <2>3. QED
      BY <1>5, <2>2 DEF Score
  <1>8. ASSUME NEW i \in Slots(n), NEW j \in Slots(n), i # j
        PROVE  scores[PairIndex(R, i, j)] = f[{i, j}].spatial
    <2>1. \A l \in Slots(n) : \A e \in Slots(l) :
             scores[PairIndex(R, e, l)] = f[{e, l}].spatial /\ scores[PairIndex(R, l, e)] = f[{e, l}].spatial
      BY <1>2, <1>3 DEF ScoredBy
    <2>2. (i \in Slots(j) \/ j \in Slots(i)) /\ {i, j} = {j, i}
      BY <1>1, <1>8 DEF Slots
    <2>3. CASE i \in Slots(j)
      BY <2>1, <2>3
    <2>4. CASE j \in Slots(i)
      BY <2>1, <2>2, <2>4
    <2>5. QED
      BY <2>2, <2>3, <2>4
  <1>9. Slots(n) \subseteq Slots(R) /\ Slots(n) = Indices(n)
    BY <1>1 DEF Slots, Indices
  <1>10. ASSUME NEW i \in Slots(R)
         PROVE  Cost(G, i) \in Int
    <2> DEFINE S    == Slots(n) \ {i}
               part == [j \in S |-> Square(Score(G, i, j))]
    <2>1. Cost(G, i) = SumFunctionOnSet(part, S)
      <3>1. DOMAIN part = S
        OBVIOUS
      <3>2. QED
        BY <1>5, <3>1 DEF Cost, SumFunction
    <2>2. IsFiniteSet(S)
      BY <1>1, SlotsFinite
    <2>3. \A j \in S : part[j] \in Int
      <3>1. \A j \in S : Score(G, i, j) \in Nat
        BY <1>7, <1>9
      <3>2. \A j \in S : Square(Score(G, i, j)) \in Int
        BY <3>1 DEF Square
      <3>3. QED
        BY <3>2
    <2> HIDE DEF S, part
    <2>4. QED
      BY <2>1, <2>2, <2>3, SumSplits
  <1>11. Costed(G, R)
    BY <1>1, <1>5, <1>10 DEF Costed
  <1>12. ASSUME NEW i \in Slots(n)
         PROVE  Cost(G, i) = OverlapTold(f, n, i)
    <2>1. \A j \in Slots(n) \ {i} : Score(G, i, j) = f[{i, j}].spatial
      BY <1>7, <1>8, <1>9
    <2>2. [j \in Slots(n) \ {i} |-> Square(Score(G, i, j))] = [j \in Indices(n) \ {i} |-> Square(f[{i, j}].spatial)]
      BY <1>9, <2>1
    <2>3. QED
      BY <1>5, <2>2 DEF Cost, OverlapTold
  <1>13. \A l \in Indices(n) : \A e \in Indices(l) : Score(T, e, l) = f[{e, l}].spatial
    <2>1. ASSUME NEW l \in Indices(n), NEW e \in Indices(l)
          PROVE  Score(T, e, l) = f[{e, l}].spatial
      <3>1. l \in Slots(n) /\ e \in Slots(n) /\ e # l
        BY <1>1 DEF Slots, Indices
      <3>2. Score(T, e, l) = scores[PairIndex(R, e, l)]
        BY <1>6 DEF Score
      <3>3. QED
        BY <1>8, <3>1, <3>2
    <2>2. QED
      BY <2>1
  <1>14. /\ {T.order[p] : p \in Slots(n)} = Slots(n)
         /\ \A p, q \in Slots(n) : p < q => Cost(G, T.order[p]) <= Cost(G, T.order[q])
    <2>1. /\ {InitialOrder(G)[p] : p \in Slots(G.used)} = Slots(G.used)
          /\ \A p, q \in Slots(G.used) : p < q => Cost(G, InitialOrder(G)[p]) <= Cost(G, InitialOrder(G)[q])
      BY ONLY <1>11, OrderSorts
    <2>2. QED
      BY ONLY <1>5, <1>6, <2>1
  <1>15. \A p \in Slots(n) : T.order[p] \in Slots(n)
    BY <1>14
  <1>16. \A p, q \in Slots(n) : p < q => OverlapTold(f, n, T.order[p]) <= OverlapTold(f, n, T.order[q])
    BY <1>12, <1>14, <1>15
  <1>17. QED
    BY <1>6, <1>9, <1>13, <1>14, <1>16 DEF Tells, T

\* The template of a completed enrolment is what finish makes of its matches.
TemplateMade == status = "completed" => ~failed /\ template = Finish(matches, count)

\* It is made when the enrolment completes, and nothing happens after that
\* (fpc_native_enrollment_add, WorkerEnrollVerify::parse_image).
LEMMA TemplateMadeNext ==
  ASSUME IInv, TemplateMade, [Next]_vars
  PROVE  TemplateMade'
  <1>1. CASE Reject
    BY <1>1, RejectUnseen DEF TemplateMade
  <1>2. ASSUME NEW row \in [Indices(count) -> Outcome], NEW s \in {FALSE, count + 1 >= Early}, TakeIn(row, s)
        PROVE  TemplateMade'
    <2>1. ~failed' /\ count' = count + 1
      BY <1>2 DEF TakeIn, IInv, GoingOn
    <2>2. status' = "completed" => template' = Finish(matches', count + 1)
      BY <1>2 DEF TakeIn
    <2>3. Finish(matches, count)' = Finish(matches', count')
      BY DEF Finish, Spatial
    <2>4. QED
      BY <2>1, <2>2, <2>3 DEF TemplateMade
  <1>3. CASE Break
    BY <1>3 DEF Break, TemplateMade
  <1>4. CASE UNCHANGED vars
    BY <1>4 DEF vars, TemplateMade, Finish, Spatial
  <1>5. QED
    BY <1>1, <1>2, <1>3, <1>4 DEF Next

\* The template of a completed enrolment scores each pair of captures as they were
\* found to match, and its order lists them by how much they overlap
\* (fpc_native_enrollment_finish).
THEOREM FinishedTemplateHolds == Spec => []FinishedTemplate
  <1>1. Init => TemplateMade
    BY DEF Init, TemplateMade
  <1>2. Spec => [](IInv /\ TemplateMade)
    BY <1>1, InitInv, NextInv, TemplateMadeNext, PTL DEF Spec
  <1>3. ASSUME IInv, TemplateMade
        PROVE  FinishedTemplate
    <2>1. ASSUME status = "completed"
          PROVE  Tells(template, found, count)
      <3>1. count \in 0 .. Target /\ matches \in Seq(Outcome) /\ InPlace(matches, found, count)
        BY <1>3, <2>1 DEF IInv, TemplateMade
      <3>2. QED
        BY <1>3, <2>1, <3>1, FinishTells DEF TemplateMade
    <2>2. QED
      BY <2>1 DEF FinishedTemplate, Tells, OverlapTold
  <1>4. QED
    BY <1>2, <1>3, PTL

-----------------------------------------------------------------------------
(* How captures are put together. *)

\* The heaviest captures are one, or none when nothing weighs anything.
LEMMA HeaviestIsOne ==
  ASSUME NEW S \in SUBSET Int, IsFiniteSet(S), NEW W, \A i \in S : W[i] \in Nat
  PROVE  /\ Heaviest(S, W) = {} => \A i \in S : W[i] = 0
         /\ Heaviest(S, W) # {} => \E i \in S : Heaviest(S, W) = {i} /\ W[i] > 0
  <1>1. CASE S = {}
    BY <1>1 DEF Heaviest
  <1>2. CASE S # {}
    <2>1. PICK i \in S : \A j \in S : W[j] < W[i] \/ (W[j] = W[i] /\ i <= j)
      BY <1>2, BestExists
    <2>2. \A k \in Heaviest(S, W) : k = i
      BY <2>1 DEF Heaviest
    <2>3. CASE W[i] = 0
      <3>1. \A j \in S : W[j] = 0
        BY <2>1, <2>3
      <3>2. \A j \in S : ~(W[j] > 0)
        BY <3>1
      <3>3. Heaviest(S, W) = {}
        BY <3>2, Zenon DEF Heaviest
      <3>4. QED
        BY <3>1, <3>3
    <2>4. CASE W[i] > 0
      <3>1. i \in Heaviest(S, W)
        BY <2>1, <2>4 DEF Heaviest
      <3>2. QED
        BY <2>2, <2>4, <3>1
    <2>5. QED
      BY <2>3, <2>4
  <1>3. QED
    BY <1>1, <1>2

-----------------------------------------------------------------------------
\* What is known of the links of n captures.
Links(link, n) ==
  /\ n \in Nat
  /\ \A i, j \in Indices(n) : link[<<i, j>>] \in Nat /\ link[<<i, j>>] = link[<<j, i>>]

\* What weighs something is linked to one of those it is weighed against.
LEMMA WeightMeans ==
  ASSUME NEW n, NEW link, Links(link, n), NEW i \in Indices(n), NEW S
  PROVE  /\ Weight(link, n, i, S) \in Nat
         /\ Weight(link, n, i, S) > 0 <=> \E j \in Indices(n) : j \in S /\ j # i /\ link[<<i, j>>] > 0
  <1> DEFINE T   == (S \cap Indices(n)) \ {i}
             fun == [j \in T |-> link[<<i, j>>]]
  <1>1. Weight(link, n, i, S) = SumFunctionOnSet(fun, T)
    <2>1. DOMAIN fun = T
      OBVIOUS
    <2>2. QED
      BY <2>1 DEF Weight, SumFunction
  <1>2. IsFiniteSet(T)
    <2>1. Indices(n) = Slots(n)
      BY DEF Indices, Slots
    <2>2. QED
      BY <2>1, SlotsFinite DEF Links
  <1>3. \A j \in T : fun[j] = link[<<i, j>>] /\ fun[j] \in Nat
    BY DEF Links
  <1> HIDE DEF fun
  <1>4. /\ SumFunctionOnSet(fun, T) \in Nat
        /\ SumFunctionOnSet(fun, T) > 0 <=> \E x \in T : fun[x] > 0
    <2> HIDE DEF T
    <2>1. QED
      BY <1>2, <1>3, SumPositive
  <1>5. QED
    BY <1>1, <1>3, <1>4

\* One round of putting captures together: what joins the last group is linked to
\* one that is in a group, what starts a new one is linked while no capture that
\* is left is linked to one in a group, and nothing happens only if none that is
\* left is linked at all (fpc_rebuild_capture_groups).
LEMMA GrowMeans ==
  ASSUME NEW n, NEW link, Links(link, n), NEW G \in [Indices(n) -> Int]
  PROVE  LET open == {i \in Indices(n) : G[i] = -1}
             t    == Grow(link, n, G)
         IN  \/ /\ t.root = {}
                /\ \E i \in open : /\ t.join = {i}
                                   /\ \E j \in Indices(n) : G[j] # -1 /\ j # i /\ link[<<i, j>>] > 0
             \/ /\ t.join = {}
                /\ \A i \in open : \A j \in Indices(n) : G[j] # -1 => ~(link[<<i, j>>] > 0)
                /\ \/ \E i \in open : t.root = {i} /\ Linked(link, n, i)
                   \/ t.root = {} /\ \A i \in open : ~Linked(link, n, i)
  <1> DEFINE open == {i \in Indices(n) : G[i] = -1}
             pull == [i \in open |-> Weight(link, n, i, Placed(G))]
             heft == [i \in open |-> Weight(link, n, i, Indices(n))]
             t    == Grow(link, n, G)
  <1>1. open \in SUBSET Int /\ IsFiniteSet(open)
    <2>1. Indices(n) = Slots(n) /\ \A i \in Indices(n) : i \in Int
      BY DEF Indices, Slots, Links
    <2>2. QED
      BY <2>1, SlotsFinite DEF Links
  <1>2. ASSUME NEW i \in open
        PROVE  /\ pull[i] \in Nat
               /\ pull[i] > 0 <=> \E j \in Indices(n) : G[j] # -1 /\ j # i /\ link[<<i, j>>] > 0
    <2>1. \A j : j \in Placed(G) <=> j \in Indices(n) /\ G[j] # -1
      BY DEF Placed
    <2>2. i \in Indices(n) /\ pull[i] = Weight(link, n, i, Placed(G))
      OBVIOUS
    <2> HIDE DEF pull, open
    <2>3. QED
      BY <2>1, <2>2, WeightMeans
  <1>3. ASSUME NEW i \in open
        PROVE  heft[i] \in Nat /\ (heft[i] > 0 <=> Linked(link, n, i))
    <2>1. i \in Indices(n) /\ heft[i] = Weight(link, n, i, Indices(n))
      OBVIOUS
    <2> HIDE DEF heft, open
    <2>2. QED
      BY <2>1, WeightMeans DEF Linked
  <1>4. t = IF Heaviest(open, pull) # {}
            THEN [join |-> Heaviest(open, pull), root |-> {}]
            ELSE [join |-> {}, root |-> Heaviest(open, heft)]
    BY DEF Grow
  <1>5. \A i \in open : \A j \in Indices(n) : G[j] # -1 => j # i
    OBVIOUS
  <1> DEFINE Pulled(i) == \E j \in Indices(n) : G[j] # -1 /\ j # i /\ link[<<i, j>>] > 0
  <1> HIDE DEF pull, heft, open, t, Pulled
  <1>6. CASE Heaviest(open, pull) # {}
    <2>1. t.root = {} /\ t.join = Heaviest(open, pull)
      BY <1>4, <1>6
    <2>2. \E i \in open : Heaviest(open, pull) = {i} /\ pull[i] > 0
      BY <1>1, <1>2, <1>6, HeaviestIsOne
    <2>3. \E i \in open : t.join = {i} /\ Pulled(i)
      BY <1>2, <2>1, <2>2 DEF Pulled
    <2>4. QED
      BY <2>1, <2>3 DEF open, t, Pulled
  <1>7. CASE Heaviest(open, pull) = {}
    <2>1. t.join = {} /\ t.root = Heaviest(open, heft)
      BY <1>4, <1>7
    <2>2. \A i \in open : ~(pull[i] > 0)
      <3>1. \A i \in open : pull[i] = 0
        BY <1>1, <1>2, <1>7, HeaviestIsOne
      <3>2. QED
        BY <3>1
    <2>3. \A i \in open : \A j \in Indices(n) : G[j] # -1 => ~(link[<<i, j>>] > 0)
      BY <1>2, <1>5, <2>2, Zenon
    <2>4. CASE t.root = {}
      <3>1. \A i \in open : heft[i] \in Nat
        BY <1>3
      <3>2. Heaviest(open, heft) = {}
        BY <2>1, <2>4
      <3>3. \A i \in open : heft[i] = 0
        BY <1>1, <3>1, <3>2, HeaviestIsOne
      <3>4. \A i \in open : ~(heft[i] > 0)
        BY <3>3
      <3>5. \A i \in open : ~Linked(link, n, i)
        BY <1>3, <3>4, Zenon
      <3>6. QED
        BY <2>1, <2>3, <2>4, <3>5 DEF open, t
    <2>5. CASE t.root # {}
      <3>1. \A i \in open : heft[i] \in Nat
        BY <1>3
      <3>2. Heaviest(open, heft) # {}
        BY <2>1, <2>5
      <3>3. \E i \in open : Heaviest(open, heft) = {i} /\ heft[i] > 0
        BY <1>1, <3>1, <3>2, HeaviestIsOne
      <3>4. \E i \in open : t.root = {i} /\ heft[i] > 0
        BY <2>1, <3>3
      <3>5. \E i \in open : t.root = {i} /\ Linked(link, n, i)
        BY <1>3, <3>4
      <3>6. QED
        BY <2>1, <2>3, <3>5 DEF open, t
    <2>6. QED
      BY <2>4, <2>5
  <1>8. QED
    BY <1>6, <1>7

\* One round of Grouping, after rounds that led to s.
Round(link, n, roots, k, s) ==
  IF k = 0 THEN [group |-> -1, groups |-> [i \in Indices(n) |-> -1], roots |-> roots]
  ELSE LET t == Grow(link, n, s.groups)
           g == s.group + Cardinality(t.root)
       IN  [group  |-> g,
            groups |-> [i \in Indices(n) |-> IF i \in t.join \cup t.root THEN g ELSE s.groups[i]],
            roots  |-> [h \in DOMAIN roots |->
                          IF h = g /\ t.root # {} THEN CHOOSE i \in t.root : TRUE ELSE s.roots[h]]]

\* What rounds for n captures lead to.
States(n, D) == [group : Int, groups : [Indices(n) -> Int], roots : [D -> Int]]

Open(n, s) == {i \in Indices(n) : s.groups[i] = -1}

\* Capture i joins the last group, or is the root of a new one.
Joins(n, D, s, i) ==
  [group |-> s.group, groups |-> [j \in Indices(n) |-> IF j = i THEN s.group ELSE s.groups[j]], roots |-> s.roots]

Starts(n, D, s, i) ==
  [group  |-> s.group + 1,
   groups |-> [j \in Indices(n) |-> IF j = i THEN s.group + 1 ELSE s.groups[j]],
   roots  |-> [h \in D |-> IF h = s.group + 1 THEN i ELSE s.roots[h]]]

\* What a round can lead to.
RoundJoins(link, n, D, s, r) ==
  \E i \in Open(n, s) : /\ r = Joins(n, D, s, i)
                        /\ \E j \in Indices(n) : s.groups[j] # -1 /\ j # i /\ link[<<i, j>>] > 0

NonePulled(link, n, s) ==
  \A i \in Open(n, s) : \A j \in Indices(n) : s.groups[j] # -1 => ~(link[<<i, j>>] > 0)

RoundStarts(link, n, D, s, r) ==
  /\ NonePulled(link, n, s)
  /\ \E i \in Open(n, s) : r = Starts(n, D, s, i) /\ Linked(link, n, i)

RoundEnds(link, n, s, r) == r = s /\ \A i \in Open(n, s) : ~Linked(link, n, i)

\* One of these it is.
LEMMA RoundMeans ==
  ASSUME NEW n, NEW link, Links(link, n), NEW D, NEW roots \in [D -> Int],
         NEW s \in States(n, D), NEW k \in Nat, k # 0
  PROVE  LET r == Round(link, n, roots, k, s)
         IN  RoundJoins(link, n, D, s, r) \/ RoundStarts(link, n, D, s, r) \/ RoundEnds(link, n, s, r)
  <1> DEFINE t == Grow(link, n, s.groups)
             r == Round(link, n, roots, k, s)
             g == s.group + Cardinality(t.root)
  <1>1. s.group \in Int /\ s.groups \in [Indices(n) -> Int] /\ s.roots \in [D -> Int]
        /\ s = [group |-> s.group, groups |-> s.groups, roots |-> s.roots]
    BY DEF States
  <1>2. r = [group  |-> g,
             groups |-> [i \in Indices(n) |-> IF i \in t.join \cup t.root THEN g ELSE s.groups[i]],
             roots  |-> [h \in D |-> IF h = g /\ t.root # {} THEN CHOOSE i \in t.root : TRUE ELSE s.roots[h]]]
    BY DEF Round
  <1>3. \/ /\ t.root = {}
           /\ \E i \in Open(n, s) : /\ t.join = {i}
                                    /\ \E j \in Indices(n) : s.groups[j] # -1 /\ j # i /\ link[<<i, j>>] > 0
        \/ /\ t.join = {}
           /\ NonePulled(link, n, s)
           /\ \/ \E i \in Open(n, s) : t.root = {i} /\ Linked(link, n, i)
              \/ t.root = {} /\ \A i \in Open(n, s) : ~Linked(link, n, i)
    BY <1>1, GrowMeans DEF Open, NonePulled
  <1> HIDE DEF t, r
  <1>4. ASSUME t.root = {}
        PROVE  g = s.group /\ (\A join : t.join = join =>
                 r = [group |-> s.group,
                      groups |-> [i \in Indices(n) |-> IF i \in join THEN s.group ELSE s.groups[i]],
                      roots |-> s.roots])
    <2>1. g = s.group
      BY <1>1, <1>4, FS_EmptySet
    <2> HIDE DEF g
    <2>2. s.roots = [h \in D |-> s.roots[h]]
      BY <1>1
    <2>3. QED
      BY <1>2, <1>4, <2>1, <2>2
  <1>5. ASSUME NEW i \in Open(n, s), t.join = {i}, t.root = {},
               \E j \in Indices(n) : s.groups[j] # -1 /\ j # i /\ link[<<i, j>>] > 0
        PROVE  RoundJoins(link, n, D, s, r)
    <2>1. r = Joins(n, D, s, i)
      BY <1>4, <1>5 DEF Joins
    <2>2. QED
      BY <1>5, <2>1 DEF RoundJoins
  <1>6. ASSUME NEW i \in Open(n, s), t.root = {i}, t.join = {}, Linked(link, n, i), NonePulled(link, n, s)
        PROVE  RoundStarts(link, n, D, s, r)
    <2>1. g = s.group + 1 /\ (CHOOSE x \in t.root : TRUE) = i
      <3>1. Cardinality({i}) = 1
        BY FS_Singleton
      <3>2. QED
        BY <1>6, <3>1
    <2> HIDE DEF g
    <2>2. r = Starts(n, D, s, i)
      BY <1>2, <1>6, <2>1 DEF Starts
    <2>3. QED
      BY <1>6, <2>2 DEF RoundStarts
  <1>7. ASSUME t.join = {}, t.root = {}, \A i \in Open(n, s) : ~Linked(link, n, i)
        PROVE  RoundEnds(link, n, s, r)
    <2>1. s.groups = [i \in Indices(n) |-> s.groups[i]]
      BY <1>1
    <2>2. r = s
      BY <1>1, <1>4, <1>7, <2>1
    <2>3. QED
      BY <1>7, <2>2 DEF RoundEnds
  <1>8. QED
    BY <1>3, <1>5, <1>6, <1>7 DEF r

\* The rounds, one after the other.
Rounds(w, link, n, roots) == w = [k \in 0 .. n |-> Round(link, n, roots, k, w[k - 1])]

\* There are such rounds, and the groups are what the last one leads to
\* (fpc_rebuild_capture_groups).
LEMMA GroupingIsLast ==
  ASSUME NEW n, NEW link, Links(link, n), NEW D, NEW roots \in [D -> Int]
  PROVE  \E w : Rounds(w, link, n, roots) /\ Grouping(link, n, roots) = w[n]
  <1> DEFINE S == 0 .. n
             V == States(n, D)
             v == [group |-> -1, groups |-> [i \in Indices(n) |-> -1], roots |-> roots]
             step == [a \in S \X V |-> Round(link, n, roots, a[1], a[2])]
  <1>0. n \in Nat
    BY DEF Links
  <1>1. v \in V
    BY DEF States
  <1>2. ASSUME NEW k \in S, NEW s \in V
        PROVE  Round(link, n, roots, k, s) \in V
    <2> DEFINE r == Round(link, n, roots, k, s)
    <2>1. CASE k = 0
      BY <1>1, <2>1 DEF Round
    <2>2. CASE k # 0
      <3>1. RoundJoins(link, n, D, s, r) \/ RoundStarts(link, n, D, s, r) \/ RoundEnds(link, n, s, r)
        BY <1>0, <2>2, RoundMeans
      <3>2. \A i \in Open(n, s) : i \in Int
        BY <1>0 DEF Open, Indices
      <3>3. s.group \in Int /\ s.group + 1 \in Int /\ s.groups \in [Indices(n) -> Int] /\ s.roots \in [D -> Int]
        BY DEF States
      <3> HIDE DEF r
      <3>4. ASSUME RoundJoins(link, n, D, s, r)
            PROVE  r \in V
        <4>1. PICK i \in Open(n, s) : r = Joins(n, D, s, i)
          BY <3>4 DEF RoundJoins
        <4>2. Joins(n, D, s, i) \in V
          BY <3>3 DEF Joins, States
        <4>3. QED
          BY <4>1, <4>2
      <3>5. ASSUME RoundStarts(link, n, D, s, r)
            PROVE  r \in V
        <4>1. PICK i \in Open(n, s) : r = Starts(n, D, s, i)
          BY <3>5 DEF RoundStarts
        <4>2. i \in Int
          BY <3>2
        <4>3. Starts(n, D, s, i) \in V
          BY <3>3, <4>2 DEF Starts, States
        <4>4. QED
          BY <4>1, <4>3
      <3>6. QED
        BY <3>1, <3>4, <3>5 DEF RoundEnds, r
    <2>3. QED
      BY <2>1, <2>2
  <1>3. step \in [S \X V -> V]
    <2> HIDE DEF V, S
    <2>1. QED
      BY <1>2
  <1>4. PICK f : IsWalk(f, n, V, v, step)
    <2> HIDE DEF step, V, v
    <2>1. Stepping(n, V, v, step)
      BY <1>0, <1>1, <1>3 DEF Stepping
    <2>2. QED
      BY <2>1, WalkExists
  <1>5. f \in [S -> V]
    BY <1>4 DEF IsWalk
  <1>6. ASSUME NEW k \in S
        PROVE  f[k] = Round(link, n, roots, k, f[k - 1])
    <2> DEFINE last == IF k = 0 THEN v ELSE f[k - 1]
    <2>1. last \in V
      <3>1. k # 0 => k - 1 \in S
        BY <1>0
      <3> HIDE DEF S, V, v
      <3>2. QED
        BY <1>1, <1>5, <3>1
    <2>2. f[k] = Round(link, n, roots, k, last)
      <3> HIDE DEF last, V, v, S
      <3>1. step[<<k, last>>] = Round(link, n, roots, k, last)
        BY <2>1
      <3> HIDE DEF step
      <3>2. QED
        BY <1>4, <3>1 DEF last, IsWalk, S
    <2>3. k = 0 => Round(link, n, roots, k, last) = Round(link, n, roots, k, f[k - 1])
      BY DEF Round
    <2> HIDE DEF v
    <2>4. QED
      BY <2>2, <2>3
  <1>7. Rounds(f, link, n, roots)
    <2> HIDE DEF V
    <2>1. QED
      BY <1>5, <1>6 DEF Rounds
  <1> DEFINE w == CHOOSE u : Rounds(u, link, n, roots)
  <1>8. Grouping(link, n, roots) = w[n]
    BY DEF Grouping, Rounds, Round
  <1>9. Rounds(w, link, n, roots)
    BY <1>7
  <1> HIDE DEF w
  <1>10. QED
    BY <1>8, <1>9

\* A set of captures that no link leaves.
Shut(link, n, S) == \A a \in S, b \in Indices(n) : a # b /\ link[<<a, b>>] > 0 => b \in S

\* Being connected, link by link.
LEMMA ConnectedLinks ==
  ASSUME NEW n, NEW link, Links(link, n)
  PROVE  /\ \A a \in Indices(n) : Connected(link, n, a, a)
         /\ \A a, b, c \in Indices(n) :
              b # c /\ link[<<b, c>>] > 0 => /\ Connected(link, n, a, b) => Connected(link, n, a, c)
                                             /\ Connected(link, n, c, a) => Connected(link, n, b, a)
  <1>1. \A a, b : Connected(link, n, a, b) <=> \A S \in SUBSET Indices(n) : a \in S /\ Shut(link, n, S) => b \in S
    BY DEF Connected, Shut
  <1>2. ASSUME NEW b \in Indices(n), NEW c \in Indices(n), b # c, link[<<b, c>>] > 0, NEW S \in SUBSET Indices(n),
               Shut(link, n, S)
        PROVE  b \in S <=> c \in S
    <2>1. link[<<c, b>>] > 0
      BY <1>2 DEF Links
    <2>2. QED
      BY <1>2, <2>1 DEF Shut
  <1>3. QED
    BY <1>1, <1>2

\* What holds after k rounds: groups are numbered in the order they were started,
\* no link leaves one that is complete, each holds together and has its root, who
\* is in one is linked, and until none that is left is, each round places one more.
Numbered(n, D, s, k) ==
  s \in States(n, D) /\ s.group \in -1 .. k - 1 /\ \A a \in Indices(n) : s.groups[a] \in -1 .. s.group
Complete(link, n, s) ==
  \A a, b \in Indices(n) : a # b /\ link[<<a, b>>] > 0 /\ s.groups[a] # -1 /\ s.groups[a] # s.group
                           => s.groups[b] = s.groups[a]
Together(link, n, s) ==
  \A a, b \in Indices(n) : s.groups[a] = s.groups[b] /\ s.groups[a] # -1 => Connected(link, n, a, b)
Tied(link, n, s)     == \A a \in Indices(n) : s.groups[a] # -1 => Linked(link, n, a)
Rooted(n, s)         == \A h \in 0 .. s.group : s.roots[h] \in Indices(n) /\ s.groups[s.roots[h]] = h
Advanced(link, n, s, k) ==
  Cardinality(Placed(s.groups)) = k \/ \A i \in Indices(n) : s.groups[i] = -1 => ~Linked(link, n, i)

Grown(link, n, D, s, k) ==
  /\ Numbered(n, D, s, k) /\ Complete(link, n, s) /\ Together(link, n, s) /\ Tied(link, n, s)
  /\ Rooted(n, s) /\ Advanced(link, n, s, k)

\* A capture more is placed.
LEMMA OneMorePlaced ==
  ASSUME NEW n, n \in Nat, NEW G \in [Indices(n) -> Int], NEW H \in [Indices(n) -> Int],
         NEW i \in Indices(n), G[i] = -1, H[i] # -1, \A j \in Indices(n) : j # i => H[j] = G[j]
  PROVE  Cardinality(Placed(H)) = Cardinality(Placed(G)) + 1
  <1>1. Placed(H) = Placed(G) \cup {i} /\ i \notin Placed(G)
    BY DEF Placed
  <1>2. IsFiniteSet(Placed(G))
    <2>1. Placed(G) \subseteq Slots(n)
      BY DEF Placed, Indices, Slots
    <2>2. QED
      BY <2>1, SlotsFinite
  <1>3. QED
    BY <1>1, <1>2, FS_AddElement

\* A capture that joins the last group.
LEMMA GrownJoins ==
  ASSUME NEW n, NEW link, Links(link, n), NEW D, NEW s, NEW k \in 0 .. n, Grown(link, n, D, s, k),
         NEW r, RoundJoins(link, n, D, s, r)
  PROVE  Grown(link, n, D, r, k + 1)
  <1>1. PICK i \in Open(n, s) :
          r = Joins(n, D, s, i) /\ \E j \in Indices(n) : s.groups[j] # -1 /\ j # i /\ link[<<i, j>>] > 0
    BY DEF RoundJoins
  <1>2. PICK j \in Indices(n) : s.groups[j] # -1 /\ j # i /\ link[<<i, j>>] > 0
    BY <1>1
  <1>3. i \in Indices(n) /\ s.groups[i] = -1 /\ link[<<j, i>>] > 0
    BY <1>2 DEF Open, Links
  <1>4. n \in Nat /\ s.group \in Int /\ s.groups \in [Indices(n) -> Int] /\ s.roots \in [D -> Int]
        /\ s.group <= k - 1 /\ \A a \in Indices(n) : s.groups[a] \in -1 .. s.group
    BY DEF Grown, Numbered, States, Links
  <1>5. s.group >= 0 /\ s.groups[j] = s.group
    <2>1. s.group >= 0
      BY <1>2, <1>4
    <2>2. s.groups[j] = s.group
      BY <1>2, <1>3, <2>1 DEF Grown, Complete
    <2>3. QED
      BY <2>1, <2>2
  <1>6. /\ r.group = s.group /\ r.roots = s.roots /\ r.groups \in [Indices(n) -> Int] /\ r \in States(n, D)
        /\ r.groups[i] = s.group /\ \A a \in Indices(n) : a # i => r.groups[a] = s.groups[a]
    BY <1>1, <1>3, <1>4 DEF Joins, States
  <1>7. Numbered(n, D, r, k + 1)
    <2>1. \A a \in Indices(n) : r.groups[a] \in -1 .. r.group
      BY <1>4, <1>5, <1>6
    <2>2. r.group \in -1 .. (k + 1) - 1
      BY <1>4, <1>5, <1>6
    <2>3. QED
      BY <1>6, <2>1, <2>2 DEF Numbered
  <1>8. Complete(link, n, r)
    <2>1. ASSUME NEW a \in Indices(n), NEW b \in Indices(n), a # b, link[<<a, b>>] > 0,
                 r.groups[a] # -1, r.groups[a] # r.group
          PROVE  r.groups[b] = r.groups[a]
      <3>1. a # i /\ r.groups[a] = s.groups[a]
        BY <1>6, <2>1
      <3>2. s.groups[b] = s.groups[a]
        BY <1>6, <2>1, <3>1 DEF Grown, Complete
      <3>3. b # i
        BY <1>3, <2>1, <3>1, <3>2
      <3>4. QED
        BY <1>6, <3>1, <3>2, <3>3
    <2>2. QED
      BY <2>1 DEF Complete
  <1>9. Together(link, n, r)
    <2>1. ASSUME NEW b \in Indices(n), r.groups[b] = s.group
          PROVE  Connected(link, n, i, b) /\ Connected(link, n, b, i)
      <3>1. CASE b = i
        BY <3>1, ConnectedLinks
      <3>2. CASE b # i
        <4>1. s.groups[b] = s.groups[j] /\ s.groups[b] # -1
          BY <1>2, <1>5, <1>6, <2>1, <3>2
        <4>2. Connected(link, n, b, j) /\ Connected(link, n, j, b)
          BY <4>1 DEF Grown, Together
        <4>3. QED
          BY <1>2, <1>3, <4>2, ConnectedLinks
      <3>3. QED
        BY <3>1, <3>2
    <2>2. ASSUME NEW a \in Indices(n), NEW b \in Indices(n), r.groups[a] = r.groups[b], r.groups[a] # -1
          PROVE  Connected(link, n, a, b)
      <3>1. CASE a = i \/ b = i
        BY <1>6, <2>1, <2>2, <3>1
      <3>2. CASE a # i /\ b # i
        BY <1>6, <2>2, <3>2 DEF Grown, Together
      <3>3. QED
        BY <3>1, <3>2
    <2>3. QED
      BY <2>2 DEF Together
  <1>10. Tied(link, n, r)
    <2>1. Linked(link, n, i)
      BY <1>2 DEF Linked
    <2>2. QED
      BY <1>6, <2>1 DEF Grown, Tied
  <1>11. Rooted(n, r)
    <2>1. ASSUME NEW h \in 0 .. s.group
          PROVE  s.roots[h] \in Indices(n) /\ r.groups[s.roots[h]] = h
      <3>1. s.roots[h] \in Indices(n) /\ s.groups[s.roots[h]] = h
        BY DEF Grown, Rooted
      <3>2. s.roots[h] # i
        BY <1>3, <3>1
      <3>3. QED
        BY <1>6, <3>1, <3>2
    <2>2. QED
      BY <1>6, <2>1 DEF Rooted
  <1>12. Advanced(link, n, r, k + 1)
    <2>1. CASE Cardinality(Placed(s.groups)) = k
      <3>1. r.groups[i] # -1
        BY <1>5, <1>6
      <3>2. Cardinality(Placed(r.groups)) = k + 1
        BY <1>3, <1>4, <1>6, <2>1, <3>1, OneMorePlaced
      <3>3. QED
        BY <3>2 DEF Advanced
    <2>2. CASE \A a \in Indices(n) : s.groups[a] = -1 => ~Linked(link, n, a)
      <3>1. \A a \in Indices(n) : r.groups[a] = -1 => s.groups[a] = -1
        BY <1>3, <1>6
      <3>2. QED
        BY <2>2, <3>1 DEF Advanced
    <2>3. QED
      BY <2>1, <2>2 DEF Grown, Advanced
  <1>13. QED
    BY <1>7, <1>8, <1>9, <1>10, <1>11, <1>12 DEF Grown

\* A capture that starts a group.
LEMMA GrownStarts ==
  ASSUME NEW n, NEW link, Links(link, n), NEW D, Indices(n) \subseteq D, NEW s, NEW k \in 0 .. n - 1,
         Grown(link, n, D, s, k), NEW r, RoundStarts(link, n, D, s, r)
  PROVE  Grown(link, n, D, r, k + 1)
  <1>1. PICK i \in Open(n, s) : r = Starts(n, D, s, i) /\ Linked(link, n, i)
    BY DEF RoundStarts
  <1>2. i \in Indices(n) /\ s.groups[i] = -1
    BY DEF Open
  <1>3. n \in Nat /\ s.group \in Int /\ s.groups \in [Indices(n) -> Int] /\ s.roots \in [D -> Int]
        /\ -1 <= s.group /\ s.group <= k - 1 /\ \A a \in Indices(n) : s.groups[a] \in -1 .. s.group
    BY DEF Grown, Numbered, States, Links
  <1>4. i \in Int
    BY <1>2 DEF Indices
  <1>5. /\ r.group = s.group + 1 /\ r.groups \in [Indices(n) -> Int] /\ r \in States(n, D)
        /\ r.groups[i] = s.group + 1 /\ \A a \in Indices(n) : a # i => r.groups[a] = s.groups[a]
        /\ \A h \in D : r.roots[h] = IF h = s.group + 1 THEN i ELSE s.roots[h]
    BY <1>1, <1>2, <1>3, <1>4 DEF Starts, States
  <1>6. Numbered(n, D, r, k + 1)
    <2>1. \A a \in Indices(n) : r.groups[a] \in -1 .. r.group
      BY <1>3, <1>5
    <2>2. r.group \in -1 .. (k + 1) - 1
      BY <1>3, <1>5
    <2>3. QED
      BY <1>5, <2>1, <2>2 DEF Numbered
  <1>7. ASSUME NEW a \in Indices(n), r.groups[a] = s.group + 1
        PROVE  a = i
    BY <1>3, <1>5, <1>7
  <1>8. Complete(link, n, r)
    <2>1. ASSUME NEW a \in Indices(n), NEW b \in Indices(n), a # b, link[<<a, b>>] > 0,
                 r.groups[a] # -1, r.groups[a] # r.group
          PROVE  r.groups[b] = r.groups[a]
      <3>1. a # i /\ r.groups[a] = s.groups[a] /\ s.groups[a] # -1
        BY <1>5, <2>1
      <3>2. link[<<b, a>>] > 0
        BY <2>1 DEF Links
      <3>3. s.groups[b] # -1
        BY <2>1, <3>1, <3>2 DEF RoundStarts, NonePulled, Open
      <3>4. s.groups[b] = s.groups[a]
        BY <2>1, <3>1, <3>2, <3>3 DEF Grown, Complete
      <3>5. b # i
        BY <1>2, <3>3
      <3>6. QED
        BY <1>5, <3>1, <3>4, <3>5
    <2>2. QED
      BY <2>1 DEF Complete
  <1>9. Together(link, n, r)
    <2>1. ASSUME NEW a \in Indices(n), NEW b \in Indices(n), r.groups[a] = r.groups[b], r.groups[a] # -1
          PROVE  Connected(link, n, a, b)
      <3>1. CASE r.groups[a] = s.group + 1
        <4>1. a = i /\ b = i
          BY <1>7, <2>1, <3>1
        <4>2. QED
          BY <4>1, ConnectedLinks
      <3>2. CASE r.groups[a] # s.group + 1
        BY <1>5, <2>1, <3>2 DEF Grown, Together
      <3>3. QED
        BY <3>1, <3>2
    <2>2. QED
      BY <2>1 DEF Together
  <1>10. Tied(link, n, r)
    BY <1>1, <1>5 DEF Grown, Tied
  <1>11. Rooted(n, r)
    <2>1. ASSUME NEW h \in 0 .. s.group + 1
          PROVE  r.roots[h] \in Indices(n) /\ r.groups[r.roots[h]] = h
      <3>1. h \in D
        <4>1. h \in Indices(n)
          BY <1>3 DEF Indices
        <4>2. QED
          BY <4>1
      <3>2. CASE h = s.group + 1
        BY <1>2, <1>5, <3>1, <3>2
      <3>3. CASE h # s.group + 1
        <4>1. h \in 0 .. s.group
          BY <1>3, <3>3
        <4>2. s.roots[h] \in Indices(n) /\ s.groups[s.roots[h]] = h /\ h # -1
          BY <4>1 DEF Grown, Rooted
        <4>3. s.roots[h] # i
          BY <1>2, <4>2
        <4>4. QED
          BY <1>5, <3>1, <3>3, <4>2, <4>3
      <3>4. QED
        BY <3>2, <3>3
    <2>2. QED
      BY <1>5, <2>1 DEF Rooted
  <1>12. Advanced(link, n, r, k + 1)
    <2>1. CASE Cardinality(Placed(s.groups)) = k
      <3>1. r.groups[i] # -1
        BY <1>3, <1>5
      <3>2. Cardinality(Placed(r.groups)) = k + 1
        BY <1>2, <1>3, <1>5, <2>1, <3>1, OneMorePlaced
      <3>3. QED
        BY <3>2 DEF Advanced
    <2>2. CASE \A a \in Indices(n) : s.groups[a] = -1 => ~Linked(link, n, a)
      BY <1>1, <1>2, <2>2
    <2>3. QED
      BY <2>1, <2>2 DEF Grown, Advanced
  <1>13. QED
    BY <1>6, <1>8, <1>9, <1>10, <1>11, <1>12 DEF Grown

\* Grouping has no capture left over that is linked, and no link leaves a group.
Grouped(link, n, G, last, roots) ==
  /\ last \in -1 .. n - 1 /\ G \in [Indices(n) -> -1 .. last]
  /\ \A i, j \in Indices(n) : i # j => ((G[i] = G[j] /\ G[i] # -1) <=> Connected(link, n, i, j))
  /\ \A i \in Indices(n) : G[i] = -1 <=> ~Linked(link, n, i)
  /\ \A h \in 0 .. last : roots[h] \in Indices(n) /\ G[roots[h]] = h

\* After as many rounds as there are captures groups are what links connect
\* (fpc_rebuild_capture_groups).
LEMMA GrownIsGrouped ==
  ASSUME NEW n, NEW link, Links(link, n), NEW D, NEW s, Grown(link, n, D, s, n)
  PROVE  Grouped(link, n, s.groups, s.group, s.roots) /\ s.roots \in [D -> Int]
  <1> DEFINE G == s.groups
  <1>1. n \in Nat /\ s.group \in -1 .. n - 1 /\ G \in [Indices(n) -> Int] /\ s.roots \in [D -> Int]
        /\ \A a \in Indices(n) : G[a] \in -1 .. s.group
    BY DEF Grown, Numbered, States, Links
  <1>2. \A i \in Indices(n) : G[i] = -1 => ~Linked(link, n, i)
    <2>1. CASE Cardinality(Placed(G)) = n
      <3>1. IsFiniteSet(Indices(n)) /\ Cardinality(Indices(n)) = n
        <4>1. Indices(n) = Slots(n)
          BY DEF Indices, Slots
        <4>2. QED
          BY <1>1, <4>1, SlotsFinite
      <3>2. Placed(G) \subseteq Indices(n)
        BY <1>1 DEF Placed
      <3>3. Placed(G) = Indices(n)
        BY <2>1, <3>1, <3>2, FS_Subset
      <3>4. QED
        BY <3>3 DEF Placed
    <2>2. CASE Cardinality(Placed(G)) # n
      BY <2>2 DEF Grown, Advanced
    <2>3. QED
      BY <2>1, <2>2
  <1>3. \A i \in Indices(n) : G[i] = -1 <=> ~Linked(link, n, i)
    BY <1>2 DEF Grown, Tied
  <1>4. ASSUME NEW a \in Indices(n), NEW b \in Indices(n), a # b, link[<<a, b>>] > 0, G[a] # -1
        PROVE  G[b] = G[a]
    <2>1. link[<<b, a>>] > 0
      BY <1>4 DEF Links
    <2>2. G[b] # -1
      BY <1>2, <1>4, <2>1 DEF Linked
    <2>3. QED
      BY <1>4, <2>1, <2>2 DEF Grown, Complete
  <1>5. ASSUME NEW i \in Indices(n), NEW j \in Indices(n), i # j, Connected(link, n, i, j)
        PROVE  G[i] = G[j] /\ G[i] # -1
    <2>1. G[i] # -1
      <3> SUFFICES ASSUME G[i] = -1 PROVE FALSE
        OBVIOUS
      <3>1. \A b \in Indices(n) : i # b => ~(link[<<i, b>>] > 0)
        BY <1>2 DEF Linked
      <3>2. {i} \in SUBSET Indices(n) /\ i \in {i} /\ j \notin {i}
        BY <1>5
      <3>3. QED
        BY <1>5, <3>1, <3>2 DEF Connected
    <2> DEFINE S == {x \in Indices(n) : G[x] = G[i]}
    <2>2. S \in SUBSET Indices(n) /\ i \in S
      OBVIOUS
    <2>3. \A a \in S, b \in Indices(n) : a # b /\ link[<<a, b>>] > 0 => b \in S
      BY <1>4, <2>1
    <2>4. j \in S
      <3> HIDE DEF S
      <3>1. QED
        BY <1>5, <2>2, <2>3 DEF Connected
    <2>5. QED
      BY <2>1, <2>4
  <1>6. \A i, j \in Indices(n) : G[i] = G[j] /\ G[i] # -1 => Connected(link, n, i, j)
    BY DEF Grown, Together
  <1>7. G \in [Indices(n) -> -1 .. s.group]
    BY <1>1
  <1>8. \A h \in 0 .. s.group : s.roots[h] \in Indices(n) /\ G[s.roots[h]] = h
    BY DEF Grown, Rooted
  <1> HIDE DEF G
  <1>9. QED
    BY <1>1, <1>3, <1>5, <1>6, <1>7, <1>8 DEF Grouped, G

\* Each of the rounds keeps the groups in order (fpc_rebuild_capture_groups).
LEMMA RoundsGrow ==
  ASSUME NEW n, NEW link, Links(link, n), NEW D, Indices(n) \subseteq D, NEW roots \in [D -> Int],
         NEW w, Rounds(w, link, n, roots)
  PROVE  \A k \in 0 .. n : w[k] = Round(link, n, roots, k, w[k - 1]) /\ Grown(link, n, D, w[k], k)
  <1>2. n \in Nat /\ \A k \in 0 .. n : w[k] = Round(link, n, roots, k, w[k - 1])
    BY DEF Rounds, Links
  <1> DEFINE P == {k \in 0 .. n : Grown(link, n, D, w[k], k)}
  <1>3. 0 \in P
    <2> DEFINE s == w[0]
    <2>1. s = [group |-> -1, groups |-> [i \in Indices(n) |-> -1], roots |-> roots]
      <3>1. 0 \in 0 .. n
        BY <1>2
      <3>2. w[0] = Round(link, n, roots, 0, w[0 - 1])
        BY <1>2, <3>1, Zenon
      <3>3. \A x : Round(link, n, roots, 0, x) = [group |-> -1, groups |-> [i \in Indices(n) |-> -1], roots |-> roots]
        BY DEF Round
      <3>4. QED
        BY <3>2, <3>3
    <2>2. s.group = -1 /\ s.roots = roots /\ s.groups \in [Indices(n) -> Int] /\ s \in States(n, D)
          /\ \A i \in Indices(n) : s.groups[i] = -1
      BY <2>1 DEF States
    <2> HIDE DEF s
    <2>3. Numbered(n, D, s, 0)
      BY <2>2 DEF Numbered
    <2>4. Complete(link, n, s) /\ Together(link, n, s) /\ Tied(link, n, s)
      BY <2>2 DEF Complete, Together, Tied
    <2>5. Rooted(n, s)
      BY <2>2 DEF Rooted
    <2>6. Advanced(link, n, s, 0)
      <3>1. Placed(s.groups) = {}
        BY <2>2 DEF Placed
      <3>2. QED
        BY <3>1, FS_EmptySet DEF Advanced
    <2>7. QED
      BY <1>2, <2>3, <2>4, <2>5, <2>6 DEF Grown, s
  <1>4. ASSUME NEW k \in P, 0 <= k, k < n
        PROVE  k + 1 \in P
    <2> DEFINE s == w[k]
               r == w[k + 1]
    <2>1. k \in 0 .. n /\ k + 1 \in 0 .. n /\ k + 1 \in Nat /\ k + 1 # 0 /\ (k + 1) - 1 = k /\ k \in 0 .. n - 1
      BY <1>2, <1>4
    <2>2. r = Round(link, n, roots, k + 1, s)
      BY <1>2, <2>1
    <2>3. Grown(link, n, D, s, k)
      OBVIOUS
    <2> HIDE DEF s, r, P
    <2>4. s \in States(n, D)
      BY <2>3 DEF Grown, Numbered
    <2>5. RoundJoins(link, n, D, s, r) \/ RoundStarts(link, n, D, s, r) \/ RoundEnds(link, n, s, r)
      BY <2>1, <2>2, <2>4, RoundMeans
    <2>6. ASSUME RoundEnds(link, n, s, r)
          PROVE  Grown(link, n, D, r, k + 1)
      <3>1. r = s /\ \A i \in Indices(n) : s.groups[i] = -1 => ~Linked(link, n, i)
        BY <2>6 DEF RoundEnds, Open
      <3>2. Numbered(n, D, s, k + 1)
        BY <1>2, <2>1, <2>3 DEF Grown, Numbered
      <3>3. Advanced(link, n, s, k + 1)
        BY <3>1 DEF Advanced
      <3>4. QED
        BY <2>3, <3>1, <3>2, <3>3 DEF Grown
    <2>7. Grown(link, n, D, r, k + 1)
      BY <2>1, <2>3, <2>5, <2>6, GrownJoins, GrownStarts
    <2>8. QED
      BY <2>1, <2>7 DEF P, r
  <1>5. 0 .. n \subseteq P
    <2> HIDE DEF P
    <2>1. QED
      BY <1>2, <1>3, <1>4, IntervalInduction
  <1>6. QED
    BY <1>2, <1>5

\* The groups that are made of n captures are what their links connect: captures are
\* in the same group just if a chain of matches leads from one to the other, those
\* that match none are in none, and each group has one of its members for its root
\* (fpc_rebuild_capture_groups).
THEOREM GroupsAreComponents ==
  ASSUME NEW n, NEW link, Links(link, n), NEW D, Indices(n) \subseteq D, NEW roots \in [D -> Int]
  PROVE  LET made == Grouping(link, n, roots)
         IN  Grouped(link, n, made.groups, made.group, made.roots) /\ made.roots \in [D -> Int]
  <1>1. PICK w : Rounds(w, link, n, roots) /\ Grouping(link, n, roots) = w[n]
    BY GroupingIsLast
  <1>2. n \in 0 .. n
    BY DEF Links
  <1>3. Grown(link, n, D, w[n], n)
    BY <1>1, <1>2, RoundsGrow
  <1>4. QED
    BY <1>1, <1>3, GrownIsGrouped

-----------------------------------------------------------------------------
(* A capture more. *)

\* Links that stay what they are when a capture comes to n others.
Grows(link, more, n) ==
  /\ Links(link, n) /\ Links(more, n + 1)
  /\ \A i, j \in Indices(n) : more[<<i, j>>] = link[<<i, j>>]

\* What was connected or linked stays so.
LEMMA ConnectedStays ==
  ASSUME NEW n, NEW link, NEW more, Grows(link, more, n), NEW i \in Indices(n)
  PROVE  /\ Linked(link, n, i) => Linked(more, n + 1, i)
         /\ \A j \in Indices(n) : Connected(link, n, i, j) => Connected(more, n + 1, i, j)
  <1>1. Indices(n) \subseteq Indices(n + 1)
    BY DEF Grows, Links, Indices
  <1>2. Linked(link, n, i) => Linked(more, n + 1, i)
    BY <1>1 DEF Linked, Grows
  <1>3. ASSUME NEW j \in Indices(n), Connected(link, n, i, j), NEW S \in SUBSET Indices(n + 1), i \in S,
               \A a \in S, b \in Indices(n + 1) : a # b /\ more[<<a, b>>] > 0 => b \in S
        PROVE  j \in S
    <2> DEFINE T == S \cap Indices(n)
    <2>1. T \in SUBSET Indices(n) /\ i \in T
      BY <1>3
    <2>2. \A a \in T, b \in Indices(n) : a # b /\ link[<<a, b>>] > 0 => b \in T
      BY <1>1, <1>3 DEF Grows
    <2>3. j \in T
      <3> HIDE DEF T
      <3>1. QED
        BY <1>3, <2>1, <2>2 DEF Connected
    <2>4. QED
      BY <2>3
  <1>4. QED
    BY <1>2, <1>3 DEF Connected

\* Captures that are together stay together.
LEMMA StayTogether ==
  ASSUME NEW n, NEW link, NEW more, Grows(link, more, n),
         NEW G, NEW p, NEW roots, Grouped(link, n, G, p, roots),
         NEW H, NEW q, NEW new, Grouped(more, n + 1, H, q, new),
         NEW i \in Indices(n), G[i] # -1
  PROVE  H[i] # -1 /\ \A j \in Indices(n) : G[j] = G[i] => H[j] = H[i]
  <1>1. Indices(n) \subseteq Indices(n + 1)
    BY DEF Grows, Links, Indices
  <1>2. Linked(link, n, i)
    BY DEF Grouped
  <1>3. H[i] # -1
    BY <1>1, <1>2, ConnectedStays DEF Grouped
  <1>4. ASSUME NEW j \in Indices(n), G[j] = G[i], j # i
        PROVE  H[j] = H[i]
    <2>1. Connected(link, n, i, j)
      BY <1>4 DEF Grouped
    <2>2. Connected(more, n + 1, i, j)
      BY <2>1, ConnectedStays
    <2>3. QED
      BY <1>1, <1>4, <2>2 DEF Grouped
  <1>5. QED
    BY <1>3, <1>4

\* The selected group and its reference.
Chosen(n, st) ==
  st.selected # -1 =>
    /\ st.selected \in 0 .. st.count - 1 /\ st.reference \in Indices(n)
    /\ st.groups[st.reference] = st.selected /\ st.roots[st.selected] = st.reference
    /\ Cardinality(Members(st.groups, st.selected)) >= MinGroup

\* What an enrolment knows of the groups of its captures.
Sorted(link, n, D, st) ==
  /\ Grouped(link, n, st.groups, st.count - 1, st.roots)
  /\ st.roots \in [D -> Int] /\ st.count \in Int
  /\ Chosen(n, st)

\* Groups with a root replaced by another member.
Reroot(roots, g, i) == [roots EXCEPT ![g] = i]

\* Rerooting a sample's group keeps every group's sample set: only the name of its root changes.
LEMMA RootReplaced ==
  ASSUME NEW n, n \in Nat, NEW link, NEW G, NEW last, NEW D, Indices(n) \subseteq D, NEW roots,
         roots \in [D -> Int], Grouped(link, n, G, last, roots), NEW i \in Indices(n), G[i] # -1
  PROVE  /\ Grouped(link, n, G, last, Reroot(roots, G[i], i)) /\ Reroot(roots, G[i], i) \in [D -> Int]
         /\ Reroot(roots, G[i], i)[G[i]] = i /\ G[i] \in 0 .. last
  <1> DEFINE g   == G[i]
             new == Reroot(roots, g, i)
  <1>1. last \in Int /\ last <= n - 1 /\ G \in [Indices(n) -> -1 .. last]
    BY DEF Grouped
  <1>2. g \in 0 .. last /\ i \in Int
    BY <1>1 DEF Indices
  <1>3. 0 .. last \subseteq D
    BY <1>1 DEF Indices
  <1>4. new \in [D -> Int] /\ new[g] = i /\ \A h \in D : h # g => new[h] = roots[h]
    BY <1>2, <1>3 DEF Reroot
  <1> HIDE DEF new
  <1>5. \A h \in 0 .. last : new[h] \in Indices(n) /\ G[new[h]] = h
    BY <1>3, <1>4 DEF Grouped
  <1>6. Grouped(link, n, G, last, new)
    BY <1>5 DEF Grouped
  <1>7. QED
    BY <1>2, <1>4, <1>6 DEF new

\* The last of the groups that are large enough.
LEMMA LargeMax ==
  ASSUME NEW S \in SUBSET Int, IsFiniteSet(S), S # {}
  PROVE  Max(S) \in S
  <1> DEFINE W == [i \in S |-> i]
  <1>1. \A i \in S : W[i] = i /\ W[i] \in Int
    OBVIOUS
  <1> HIDE DEF W
  <1>2. PICK i \in S : \A j \in S : W[j] < W[i] \/ (W[j] = W[i] /\ i <= j)
    BY <1>1, BestExists
  <1>3. \A j \in S : i >= j
    BY <1>1, <1>2
  <1>4. QED
    BY <1>3 DEF Max

\* Groups that are made anew with a capture more connect what the links connect;
\* once a reference is there it stays, and stays in the group that is selected
\* (fpc_rebuild_capture_groups).
LEMMA RebuildSorts ==
  ASSUME NEW n, NEW link, NEW more, Grows(link, more, n), NEW D, Indices(n + 1) \subseteq D,
         NEW st, Sorted(link, n, D, st)
  PROVE  LET new == RebuildGroups(more, n + 1, st)
         IN  /\ Sorted(more, n + 1, D, new)
             /\ st.selected # -1 => new.reference = st.reference
             /\ new.reference \in Indices(n + 1) \cup {st.reference}
  <1> DEFINE made == Grouping(more, n + 1, st.roots)
             sel  == Select(made, st)
             new  == RebuildGroups(more, n + 1, st)
             H    == made.groups
  <1>1. n \in Nat /\ n + 1 \in Nat /\ Indices(n) \subseteq Indices(n + 1)
    BY DEF Grows, Links, Indices
  <1>2. Grouped(more, n + 1, H, made.group, made.roots) /\ made.roots \in [D -> Int]
    BY GroupsAreComponents DEF Grows, Sorted
  <1>3. made.group \in -1 .. n /\ H \in [Indices(n + 1) -> -1 .. made.group]
        /\ \A h \in 0 .. made.group : made.roots[h] \in Indices(n + 1) /\ H[made.roots[h]] = h
    BY <1>1, <1>2 DEF Grouped
  <1>4. /\ new.groups = H /\ new.count = made.group + 1 /\ new.roots = sel.roots
        /\ new.selected = sel.selected /\ new.reference = sel.reference
    BY DEF RebuildGroups
  <1>5. IsFiniteSet(Indices(n + 1))
    <2>1. Indices(n + 1) = Slots(n + 1)
      BY DEF Indices, Slots
    <2>2. QED
      BY <1>1, <2>1, SlotsFinite
  <1> DEFINE To(g, i) == [selected |-> g, reference |-> i, roots |-> [made.roots EXCEPT ![g] = i]]
             large    == {g \in 0 .. made.group : Cardinality(Members(H, g)) >= MinGroup}
  <1>6. sel = IF st.selected # -1
              THEN IF Home(made, st) >= 0 THEN To(Home(made, st), st.reference) ELSE To(0, made.roots[0])
              ELSE IF large # {} THEN To(Max(large), made.roots[Max(large)])
              ELSE [selected |-> -1, reference |-> st.reference, roots |-> made.roots]
    BY DEF Select
  <1> HIDE DEF made, sel, new
  <1>7. ASSUME NEW i \in Indices(n + 1), NEW g, g = H[i], g # -1, sel = To(g, i),
               Cardinality(Members(H, g)) >= MinGroup
        PROVE  Sorted(more, n + 1, D, new) /\ new.reference = i
    <2>1. sel.selected = g /\ sel.reference = i /\ sel.roots = [made.roots EXCEPT ![g] = i]
      BY <1>7
    <2>2. Grouped(more, n + 1, H, made.group, sel.roots) /\ sel.roots \in [D -> Int] /\ sel.roots[g] = i
          /\ g \in 0 .. made.group
      <3>1. sel.roots = Reroot(made.roots, H[i], i)
        BY <1>7, <2>1 DEF Reroot
      <3> HIDE DEF H
      <3>2. /\ Grouped(more, n + 1, H, made.group, Reroot(made.roots, H[i], i))
            /\ Reroot(made.roots, H[i], i) \in [D -> Int]
            /\ Reroot(made.roots, H[i], i)[H[i]] = i /\ H[i] \in 0 .. made.group
        <4> DEFINE last  == made.group
                   roots == made.roots
                   m     == n + 1
        <4>1. m \in Nat /\ i \in Indices(m) /\ Indices(m) \subseteq D /\ H[i] # -1
          BY <1>1, <1>7
        <4>2. roots \in [D -> Int] /\ Grouped(more, m, H, last, roots)
          BY <1>2
        <4> HIDE DEF last, roots, m
        <4>3. /\ Grouped(more, m, H, last, Reroot(roots, H[i], i)) /\ Reroot(roots, H[i], i) \in [D -> Int]
              /\ Reroot(roots, H[i], i)[H[i]] = i /\ H[i] \in 0 .. last
          BY <4>1, <4>2, RootReplaced
        <4>4. QED
          BY <4>3 DEF last, roots, m
      <3>3. QED
        BY <1>7, <3>1, <3>2
    <2>3. new.count - 1 = made.group /\ new.count \in Int
      BY <1>3, <1>4
    <2>4. Chosen(n + 1, new)
      BY <1>4, <1>7, <2>1, <2>2, <2>3 DEF Chosen
    <2>5. QED
      BY <1>4, <2>1, <2>2, <2>3, <2>4 DEF Sorted
  <1>8. ASSUME st.selected # -1
        PROVE  /\ Sorted(more, n + 1, D, new)
               /\ st.selected # -1 => new.reference = st.reference
               /\ new.reference \in Indices(n + 1) \cup {st.reference}
    <2> DEFINE i == st.reference
               G == st.groups
    <2>1. /\ i \in Indices(n) /\ G[i] = st.selected /\ G[i] # -1
          /\ Cardinality(Members(G, st.selected)) >= MinGroup
          /\ Grouped(link, n, G, st.count - 1, st.roots)
      BY <1>8 DEF Sorted, Chosen
    <2>2. H[i] # -1 /\ \A j \in Indices(n) : G[j] = G[i] => H[j] = H[i]
      BY <1>2, <2>1, StayTogether
    <2>3. Home(made, st) = H[i] /\ i \in Indices(n + 1) /\ H[i] >= 0
      BY <1>1, <1>3, <2>1, <2>2 DEF Home
    <2>4. sel = To(H[i], i)
      BY <1>6, <1>8, <2>3
    <2>5. Cardinality(Members(H, H[i])) >= MinGroup
      <3>1. G \in [Indices(n) -> -1 .. st.count - 1]
        BY <2>1 DEF Grouped
      <3>2. Members(G, G[i]) \subseteq Members(H, H[i])
        BY <1>1, <1>3, <2>2, <3>1 DEF Members
      <3>3. Members(H, H[i]) \subseteq Indices(n + 1)
        BY <1>3 DEF Members
      <3>4. IsFiniteSet(Members(H, H[i]))
        BY <1>5, <3>3, FS_Subset
      <3>5. Cardinality(Members(G, G[i])) <= Cardinality(Members(H, H[i]))
            /\ Cardinality(Members(G, G[i])) \in Nat /\ Cardinality(Members(H, H[i])) \in Nat
        BY <3>2, <3>4, FS_Subset, FS_CardinalityType
      <3>6. QED
        BY <2>1, <3>5, MinGroupAssumption
    <2>6. QED
      BY <1>7, <2>2, <2>3, <2>4, <2>5
  <1>9. ASSUME st.selected = -1 /\ large # {}
        PROVE  /\ Sorted(more, n + 1, D, new)
               /\ st.selected # -1 => new.reference = st.reference
               /\ new.reference \in Indices(n + 1) \cup {st.reference}
    <2> DEFINE g == Max(large)
    <2>1. large \in SUBSET Int /\ IsFiniteSet(large)
      <3>1. large \subseteq Indices(n + 1) /\ Indices(n + 1) \subseteq Int
        BY <1>1, <1>3 DEF Indices
      <3> HIDE DEF large
      <3>2. QED
        BY <1>5, <3>1, FS_Subset
    <2>2. g \in large
      <3> HIDE DEF large
      <3>1. QED
        BY <1>9, <2>1, LargeMax
    <2>3. g \in 0 .. made.group /\ Cardinality(Members(H, g)) >= MinGroup
      BY <2>2
    <2>4. made.roots[g] \in Indices(n + 1) /\ g = H[made.roots[g]] /\ g # -1
      <3> HIDE DEF g
      <3>1. QED
        BY <1>3, <2>3
    <2>5. sel = To(g, made.roots[g])
      BY <1>6, <1>9
    <2> HIDE DEF g, large
    <2>6. QED
      BY <1>7, <1>9, <2>3, <2>4, <2>5
  <1>10. ASSUME st.selected = -1 /\ large = {}
        PROVE  /\ Sorted(more, n + 1, D, new)
               /\ st.selected # -1 => new.reference = st.reference
               /\ new.reference \in Indices(n + 1) \cup {st.reference}
    <2>1. sel = [selected |-> -1, reference |-> st.reference, roots |-> made.roots]
      BY <1>6, <1>10
    <2>2. new.selected = -1 /\ new.roots = made.roots /\ new.count - 1 = made.group /\ new.count \in Int
      BY <1>3, <1>4, <2>1
    <2>3. Sorted(more, n + 1, D, new)
      BY <1>2, <1>4, <2>2 DEF Sorted, Chosen
    <2>4. new.reference = st.reference
      BY <1>4, <2>1
    <2>5. QED
      BY <2>3, <2>4
  <1>11. QED
    BY <1>8, <1>9, <1>10 DEF new

-----------------------------------------------------------------------------
(* The groups of an enrolment. *)

\* The link of two captures, e before l, and where it comes from.
LEMMA LinkOfPair ==
  ASSUME NEW n \in Nat, NEW ms \in Seq(Outcome), Len(ms) = Pairs(n), NEW l \in Indices(n), NEW e \in Indices(l)
  PROVE  /\ 1 + AppendIndex(e, l) \in 1 .. Len(ms)
         /\ LET m == ms[1 + AppendIndex(e, l)]
            IN  /\ Link(ms, n)[<<e, l>>] = IF m.success THEN m.inliers ELSE 0
                /\ Link(ms, n)[<<l, e>>] = IF m.success THEN m.inliers ELSE 0
                /\ m.inliers \in Nat
  <1> DEFINE m == ms[1 + AppendIndex(e, l)]
  <1>1. l \in Nat /\ e \in Nat /\ e < l /\ l < n /\ e \in Indices(n)
    BY DEF Indices
  <1>2. 1 + AppendIndex(e, l) \in 1 .. Len(ms)
    <2>1. Pairs(l) \in Nat /\ Pairs(n) \in Nat /\ Pairs(l) + l <= Pairs(n)
      BY <1>1, PairsNext, PairsGrow
    <2>2. QED
      BY <1>1, <2>1 DEF AppendIndex
  <1>3. m \in Outcome
    BY <1>2
  <1>4. m.inliers \in Nat
    <2> HIDE DEF m
    <2>1. QED
      BY <1>3, OutcomeAssumption
  <1>5. Lesser(e, l) = e /\ Larger(e, l) = l /\ Lesser(l, e) = e /\ Larger(l, e) = l
    BY <1>1 DEF Lesser, Larger
  <1>6. ASSUME NEW a \in Indices(n), NEW b \in Indices(n), a # b, Lesser(a, b) = e, Larger(a, b) = l
        PROVE  Link(ms, n)[<<a, b>>] = IF m.success THEN m.inliers ELSE 0
    <2> DEFINE p == <<a, b>>
    <2>1. p \in Indices(n) \X Indices(n) /\ p[1] = a /\ p[2] = b
      OBVIOUS
    <2> HIDE DEF p
    <2>2. Link(ms, n)[p] = IF m.success THEN m.inliers ELSE 0
      BY <1>6, <2>1 DEF Link
    <2>3. QED
      BY <2>2 DEF p
  <1>7. e # l
    BY <1>1
  <1> HIDE DEF m
  <1>8. QED
    BY <1>1, <1>2, <1>4, <1>5, <1>6, <1>7 DEF m

\* The links that the groups are made from are those of the matches.
LEMMA LinkIsLinks ==
  ASSUME NEW n \in Nat, NEW ms \in Seq(Outcome), Len(ms) = Pairs(n)
  PROVE  Links(Link(ms, n), n) /\ \A i \in Indices(n) : Link(ms, n)[<<i, i>>] = 0
  <1>1. ASSUME NEW l \in Indices(n), NEW e \in Indices(l)
        PROVE  Link(ms, n)[<<e, l>>] = Link(ms, n)[<<l, e>>] /\ Link(ms, n)[<<l, e>>] \in Nat
    BY LinkOfPair
  <1>2. ASSUME NEW i \in Indices(n)
        PROVE  Link(ms, n)[<<i, i>>] = 0
    <2> DEFINE p == <<i, i>>
    <2>1. p \in Indices(n) \X Indices(n) /\ p[1] = i /\ p[2] = i
      OBVIOUS
    <2> HIDE DEF p
    <2>2. Link(ms, n)[p] = 0
      BY <2>1 DEF Link
    <2>3. QED
      BY <2>2 DEF p
  <1>3. \A i, j \in Indices(n) : i = j \/ i \in Indices(j) \/ j \in Indices(i)
    BY DEF Indices
  <1>4. ASSUME NEW i \in Indices(n), NEW j \in Indices(n)
        PROVE  Link(ms, n)[<<i, j>>] \in Nat /\ Link(ms, n)[<<i, j>>] = Link(ms, n)[<<j, i>>]
    <2>1. CASE i = j
      BY <1>2, <2>1
    <2>2. CASE i \in Indices(j)
      BY <1>1, <2>2
    <2>3. CASE j \in Indices(i)
      BY <1>1, <2>3
    <2>4. QED
      BY <1>3, <2>1, <2>2, <2>3
  <1>5. QED
    BY <1>2, <1>4 DEF Links

\* They stay when the matches of a capture more come after them.
LEMMA LinkGrows ==
  ASSUME NEW n \in Nat, NEW ms \in Seq(Outcome), Len(ms) = Pairs(n), NEW row \in Seq(Outcome), Len(row) = n
  PROVE  Grows(Link(ms, n), Link(ms \o row, n + 1), n)
  <1> DEFINE ns == ms \o row
  <1>1. ns \in Seq(Outcome) /\ Len(ns) = Pairs(n + 1)
    <2>1. ns \in Seq(Outcome) /\ Len(ns) = Len(ms) + Len(row)
      BY Joined
    <2> HIDE DEF ns
    <2>2. QED
      BY <2>1, PairsNext
  <1>2. \A k \in 1 .. Len(ms) : ns[k] = ms[k]
    OBVIOUS
  <1> HIDE DEF ns
  <1>3. Links(Link(ms, n), n) /\ Links(Link(ns, n + 1), n + 1)
    BY <1>1, LinkIsLinks
  <1>4. \A i \in Indices(n) : i \in Indices(n + 1)
    BY DEF Indices
  <1>5. ASSUME NEW l \in Indices(n), NEW e \in Indices(l)
        PROVE  /\ Link(ns, n + 1)[<<e, l>>] = Link(ms, n)[<<e, l>>]
               /\ Link(ns, n + 1)[<<l, e>>] = Link(ms, n)[<<l, e>>]
    <2> DEFINE k == 1 + AppendIndex(e, l)
               T(m) == IF m.success THEN m.inliers ELSE 0
    <2>1. k \in 1 .. Len(ms) /\ Link(ms, n)[<<e, l>>] = T(ms[k]) /\ Link(ms, n)[<<l, e>>] = T(ms[k])
      BY LinkOfPair
    <2>2. Link(ns, n + 1)[<<e, l>>] = T(ns[k]) /\ Link(ns, n + 1)[<<l, e>>] = T(ns[k])
      BY <1>1, <1>4, LinkOfPair
    <2>3. QED
      BY <1>2, <2>1, <2>2
  <1>6. \A i \in Indices(n) : Link(ns, n + 1)[<<i, i>>] = 0 /\ Link(ms, n)[<<i, i>>] = 0
    <2>1. n + 1 \in Nat
      OBVIOUS
    <2>2. QED
      BY <1>1, <1>4, <2>1, LinkIsLinks
  <1>7. \A i, j \in Indices(n) : i = j \/ i \in Indices(j) \/ j \in Indices(i)
    BY DEF Indices
  <1>8. \A i, j \in Indices(n) : Link(ns, n + 1)[<<i, j>>] = Link(ms, n)[<<i, j>>]
    <2>1. ASSUME NEW i \in Indices(n), NEW j \in Indices(n)
          PROVE  Link(ns, n + 1)[<<i, j>>] = Link(ms, n)[<<i, j>>]
      <3>1. CASE i = j
        BY <1>6, <3>1
      <3>2. CASE i \in Indices(j)
        BY <1>5, <3>2
      <3>3. CASE j \in Indices(i)
        BY <1>5, <3>3
      <3>4. QED
        BY <1>7, <3>1, <3>2, <3>3
    <2>2. QED
      BY <2>1
  <1>9. QED
    BY <1>3, <1>8 DEF Grows, ns

-----------------------------------------------------------------------------
\* The groups are those of the matches until a capture fails.
SortedInv == ~failed => Sorted(Link(matches, count), count, Slot, grouping)

\* No capture, no group (fpc_native_enrollment_create).
LEMMA SortedInit == Init => SortedInv
  <1> SUFFICES ASSUME Init PROVE Sorted(Link(matches, count), count, Slot, grouping)
    BY DEF SortedInv
  <1>1. count = 0 /\ grouping = [groups |-> <<>>, roots |-> [g \in Slot |-> 0], count |-> 0,
                                 selected |-> -1, reference |-> -1]
    BY DEF Init
  <1>2. Indices(0) = {} /\ <<>> \in [{} -> -1 .. -1]
    BY DEF Indices
  <1>3. grouping.groups = <<>> /\ grouping.count = 0 /\ grouping.selected = -1 /\ grouping.roots \in [Slot -> Int]
    BY <1>1
  <1>4. Grouped(Link(matches, count), 0, <<>>, -1, grouping.roots)
    BY <1>2 DEF Grouped
  <1>5. grouping.count - 1 = -1
    BY <1>3
  <1>6. QED
    BY <1>1, <1>3, <1>4, <1>5 DEF Sorted, Chosen

\* What the groups become when the matches of a capture are added
\* (fpc_rebuild_capture_groups).
LEMMA SortedMore ==
  ASSUME IInv, SortedInv, ~failed, count < Target, NEW row \in Seq(Outcome), Len(row) = count
  PROVE  LET link == Link(matches, count)
             more == Link(matches \o row, count + 1)
             new  == RebuildGroups(more, count + 1, grouping)
         IN  /\ Grows(link, more, count) /\ Sorted(link, count, Slot, grouping)
             /\ Sorted(more, count + 1, Slot, new)
             /\ grouping.selected # -1 => new.reference = grouping.reference
             /\ new.reference \in Indices(count + 1) \cup {grouping.reference}
  <1>1. count \in Nat /\ matches \in Seq(Outcome) /\ Len(matches) = Pairs(count)
    BY SizesAssumption DEF IInv, InPlace
  <1>2. Grows(Link(matches, count), Link(matches \o row, count + 1), count)
    BY <1>1, LinkGrows
  <1>3. Indices(count + 1) \subseteq Slot
    BY <1>1, SizesAssumption DEF Indices, Slot
  <1>4. Sorted(Link(matches, count), count, Slot, grouping)
    BY DEF SortedInv
  <1>5. QED
    BY <1>2, <1>3, <1>4, RebuildSorts

\* The matches of a good scan as a sequence.
LEMMA RowIsSequence ==
  ASSUME NEW n \in Nat, NEW row \in [Indices(n) -> Outcome]
  PROVE  [i \in 1 .. n |-> row[i - 1]] \in Seq(Outcome) /\ Len([i \in 1 .. n |-> row[i - 1]]) = n
  <1>1. \A i \in 1 .. n : row[i - 1] \in Outcome
    BY DEF Indices
  <1>2. [i \in 1 .. n |-> row[i - 1]] \in [1 .. n -> Outcome]
    BY <1>1
  <1>3. QED
    BY <1>2

\* A good scan, and what it does to the groups (fpc_native_enrollment_add).
LEMMA TakeInSorts ==
  ASSUME IInv, SortedInv, NEW row \in [Indices(count) -> Outcome], NEW s, TakeIn(row, s)
  PROVE  /\ ~failed' /\ ~failed /\ count' = count + 1 /\ count < Target /\ count \in Nat
         /\ Grows(Link(matches, count), Link(matches, count)', count)
         /\ Sorted(Link(matches, count), count, Slot, grouping)
         /\ Sorted(Link(matches, count)', count + 1, Slot, grouping')
         /\ grouping.selected # -1 => grouping'.reference = grouping.reference
         /\ grouping'.reference \in Indices(count + 1) \cup {grouping.reference}
  <1> DEFINE new == [i \in 1 .. count |-> row[i - 1]]
  <1>1. ~failed /\ ~failed' /\ count' = count + 1 /\ count < Target /\ count \in Nat
        /\ matches' = matches \o new
        /\ grouping' = RebuildGroups(Link(matches', count + 1), count + 1, grouping)
    <2>1. ~failed /\ count \in Nat
      BY DEF TakeIn, IInv, GoingOn
    <2>2. QED
      BY <2>1 DEF TakeIn
  <1>2. new \in Seq(Outcome) /\ Len(new) = count
    BY <1>1, RowIsSequence
  <1>3. Link(matches, count)' = Link(matches \o new, count + 1)
    BY <1>1 DEF Link
  <1> HIDE DEF new
  <1>4. /\ Grows(Link(matches, count), Link(matches \o new, count + 1), count)
        /\ Sorted(Link(matches, count), count, Slot, grouping)
        /\ Sorted(Link(matches \o new, count + 1), count + 1, Slot, grouping')
        /\ grouping.selected # -1 => grouping'.reference = grouping.reference
        /\ grouping'.reference \in Indices(count + 1) \cup {grouping.reference}
    BY <1>1, <1>2, SortedMore
  <1>5. QED
    BY <1>1, <1>3, <1>4

\* Every step keeps the groups in order (fpc_native_enrollment_add).
LEMMA SortedNext ==
  ASSUME IInv, SortedInv, [Next]_vars
  PROVE  SortedInv'
  <1>1. CASE Reject
    BY <1>1, RejectUnseen DEF SortedInv, Link
  <1>2. ASSUME NEW row \in [Indices(count) -> Outcome], NEW s \in {FALSE, count + 1 >= Early}, TakeIn(row, s)
        PROVE  SortedInv'
    BY <1>2, TakeInSorts DEF SortedInv, Slot
  <1>3. CASE Break
    BY <1>3 DEF Break, SortedInv
  <1>4. CASE UNCHANGED vars
    BY <1>4 DEF vars, SortedInv, Link
  <1>5. QED
    BY <1>1, <1>2, <1>3, <1>4 DEF Next

\* The groups of an enrolment are in order in every reachable state.
LEMMA SortedAlways == Spec => [](IInv /\ SortedInv)
  BY InitInv, NextInv, SortedInit, SortedNext, PTL DEF Spec

\* Groups are what the matches connect, each has its root among its members, and
\* the selected one is large enough and holds the reference, which is its root
\* (fpc_rebuild_capture_groups).
THEOREM GroupsSoundHolds == Spec => []GroupsSound
  <1>1. ASSUME SortedInv
        PROVE  GroupsSound
    <2> DEFINE link == Link(matches, count)
    <2>1. ASSUME ~failed
          PROVE  Sorted(link, count, Slot, grouping)
      BY <1>1, <2>1 DEF SortedInv
    <2> HIDE DEF link
    <2>2. QED
      BY <2>1 DEF GroupsSound, Sorted, Grouped, Chosen, link
  <1>2. QED
    BY <1>1, SortedAlways, PTL

-----------------------------------------------------------------------------
(* Types. *)

GroupingType == grouping.selected \in -1 .. Target - 1 /\ grouping.reference \in -1 .. Target - 1

\* An enrolment that goes on may see one more rejection.
StreakGoesOn == streak \in 0 .. MaxStreak /\ (~Ended => streak < MaxStreak)

TypeInv == TypeOK /\ StreakGoesOn

\* A share is a percentage (fpc_enrollment_progress_profile300).
LEMMA ProgressType ==
  ASSUME NEW n \in 0 .. Target, NEW s \in BOOLEAN, latched \in BOOLEAN
  PROVE  Progress(n, s) \in [percent : 0 .. 100, complete : BOOLEAN]
  <1> DEFINE share == (n * 100) \div Target
             percent == IF n >= Minimum /\ LatchOf(n, s) THEN 100 ELSE share
  <1>1. share \in 0 .. 100
    <2>1. n * 100 <= Target * 100 /\ n * 100 \in Nat /\ Target \in Nat /\ Target > 0
      BY SizesAssumption
    <2>2. QED
      BY <2>1
  <1> HIDE DEF share
  <1>2. percent \in 0 .. 100
    BY <1>1
  <1>3. Progress(n, s) = [percent |-> percent, complete |-> percent >= 100]
    BY DEF Progress, share
  <1> HIDE DEF percent
  <1>4. (percent >= 100) \in BOOLEAN
    BY <1>2
  <1>5. QED
    BY <1>2, <1>3, <1>4

\* Groups that are made anew are numbered by captures.
LEMMA GroupingTyped ==
  ASSUME NEW n \in 0 .. Target, NEW link, NEW st, Sorted(link, n, Slot, st),
         NEW r \in -1 .. Target - 1, st.reference \in Indices(n) \cup {r}
  PROVE  st.selected \in -1 .. Target - 1 /\ st.reference \in -1 .. Target - 1
  <1>1. st.count - 1 \in -1 .. n - 1 /\ st.count \in Int
    BY DEF Sorted, Grouped
  <1>2. st.selected # -1 => st.selected \in 0 .. st.count - 1
    BY DEF Sorted, Chosen
  <1>3. QED
    BY <1>1, <1>2, SizesAssumption DEF Indices

\* The first state (fpc_native_enrollment_create).
LEMMA InitTypes == Init => TypeInv
  <1> SUFFICES ASSUME Init PROVE TypeInv
    OBVIOUS
  <1>1. count \in 0 .. Target /\ matches \in Seq(Outcome) /\ GroupingType
    BY SizesAssumption DEF Init, GroupingType
  <1>2. settled \in BOOLEAN /\ latched \in BOOLEAN /\ joined \in BOOLEAN /\ failed \in BOOLEAN
    BY Zenon DEF Init
  <1>3. progress \in [percent : 0 .. 100, complete : BOOLEAN] /\ status = "none"
    BY DEF Init
  <1>4. streak \in 0 .. MaxStreak /\ streak < MaxStreak
    BY SizesAssumption DEF Init
  <1>5. QED
    BY <1>1, <1>2, <1>3, <1>4 DEF TypeInv, TypeOK, GroupingType, StreakGoesOn

\* A rejected scan (fpc_enrollment_quality_profile300).
LEMMA RejectTypes ==
  ASSUME IInv, TypeInv, Reject
  PROVE  TypeInv'
  <1>1. UNCHANGED <<count, matches, grouping, settled, latched, progress, failed>> /\ UNCHANGED joined
        /\ status' \in {"retry", "failed"}
    BY RejectUnseen DEF Reject
  <1>2. StreakGoesOn'
    BY SizesAssumption DEF Reject, TypeInv, StreakGoesOn, Ended
  <1>3. QED
    BY <1>1, <1>2 DEF TypeInv, TypeOK, StreakGoesOn

\* A good scan (fpc_native_enrollment_add).
LEMMA TakeInTypes ==
  ASSUME IInv, SortedInv, TypeInv, NEW row \in [Indices(count) -> Outcome],
         NEW s \in {FALSE, count + 1 >= Early}, TakeIn(row, s)
  PROVE  TypeInv'
  <1>1. IInv'
    BY TakeInInv
  <1>2. /\ count' = count + 1 /\ count \in Nat /\ count < Target /\ ~failed'
        /\ Sorted(Link(matches, count)', count + 1, Slot, grouping')
        /\ grouping'.reference \in Indices(count + 1) \cup {grouping.reference}
    BY TakeInSorts
  <1>3. GroupingType'
    <2>1. count + 1 \in 0 .. Target /\ grouping.reference \in -1 .. Target - 1
      BY <1>2, SizesAssumption DEF TypeInv, TypeOK
    <2>2. QED
      BY <1>2, <2>1, GroupingTyped DEF GroupingType
  <1>4. settled' \in BOOLEAN /\ latched' \in BOOLEAN /\ count' \in 0 .. Target /\ matches' \in Seq(Outcome)
    BY <1>1 DEF IInv
  <1>5. progress' \in [percent : 0 .. 100, complete : BOOLEAN]
    <2>1. progress' = Progress(count + 1, s) /\ s = settled'
      BY DEF TakeIn
    <2>2. count + 1 \in 0 .. Target /\ s \in BOOLEAN /\ latched \in BOOLEAN
      BY <1>2, <1>4, <2>1 DEF IInv
    <2>3. QED
      BY <2>1, <2>2, ProgressType
  <1>6. joined' \in BOOLEAN /\ failed' \in BOOLEAN
    <2>1. joined' = JoinedSelected(grouping, grouping')
      BY DEF TakeIn
    <2>2. JoinedSelected(grouping, grouping') \in BOOLEAN
      BY Zenon DEF JoinedSelected
    <2>3. failed' = failed
      BY DEF TakeIn
    <2>4. failed \in BOOLEAN
      BY DEF TypeInv, TypeOK
    <2>5. QED
      BY <2>1, <2>2, <2>3, <2>4, Zenon
  <1>7. streak' = 0 /\ status' \in {"stage", "completed", "error", "failed"}
    BY DEF TakeIn
  <1>8. StreakGoesOn'
    BY <1>7, SizesAssumption DEF StreakGoesOn
  <1>9. QED
    BY <1>3, <1>4, <1>5, <1>6, <1>7, <1>8 DEF TypeInv, TypeOK, StreakGoesOn, GroupingType

\* An add that fails on the way (the error paths of fpc_native_enrollment_add).
LEMMA BreakTypes ==
  ASSUME IInv, SortedInv, TypeInv, Break
  PROVE  TypeInv'
  <1>1. IInv'
    BY BreakInv
  <1>2. ~failed /\ count < Target /\ count \in Nat
    BY DEF Break, IInv, GoingOn
  <1>3. GroupingType'
    <2>1. CASE UNCHANGED grouping
      BY <2>1 DEF GroupingType, TypeInv, TypeOK
    <2>2. ASSUME NEW row \in [1 .. count -> Outcome], matches' = matches \o row,
                 grouping' = RebuildGroups(Link(matches', count + 1), count + 1, grouping)
          PROVE  GroupingType'
      <3>1. row \in Seq(Outcome) /\ Len(row) = count
        BY <1>2
      <3>2. /\ Sorted(Link(matches', count + 1), count + 1, Slot, grouping')
            /\ grouping'.reference \in Indices(count + 1) \cup {grouping.reference}
        BY <1>2, <2>2, <3>1, SortedMore
      <3>3. count + 1 \in 0 .. Target /\ grouping.reference \in -1 .. Target - 1
        BY <1>2, SizesAssumption DEF TypeInv, TypeOK
      <3>4. QED
        BY <3>2, <3>3, GroupingTyped DEF GroupingType
    <2>3. QED
      BY <2>1, <2>2 DEF Break
  <1>4. settled' \in BOOLEAN /\ latched' \in BOOLEAN /\ count' \in 0 .. Target /\ matches' \in Seq(Outcome)
    BY <1>1 DEF IInv
  <1>5. UNCHANGED <<progress, joined>> /\ failed' = TRUE /\ status' = "error" /\ streak' = 0
    BY DEF Break
  <1>6. joined' \in BOOLEAN /\ failed' \in BOOLEAN
    BY <1>5, Zenon DEF TypeInv, TypeOK
  <1>7. QED
    BY <1>3, <1>4, <1>5, <1>6, SizesAssumption DEF TypeInv, TypeOK, StreakGoesOn, GroupingType

\* Every variable keeps its type: groups and reference are numbered by captures,
\* progress is a percentage, and an enrolment ends by the time its rejections in a
\* row are too many (native/enrollment.c, WorkerEnrollVerify::parse_image).
THEOREM EnrollmentTypeCorrect == Spec => []TypeOK
  <1>1. ASSUME IInv, SortedInv, TypeInv, [Next]_vars
        PROVE  TypeInv'
    <2>1. CASE Reject
      BY <1>1, <2>1, RejectTypes
    <2>2. ASSUME NEW row \in [Indices(count) -> Outcome], NEW s \in {FALSE, count + 1 >= Early}, TakeIn(row, s)
          PROVE  TypeInv'
      BY <1>1, <2>2, TakeInTypes
    <2>3. CASE Break
      BY <1>1, <2>3, BreakTypes
    <2>4. CASE UNCHANGED vars
      BY <1>1, <2>4 DEF vars, TypeInv, TypeOK, StreakGoesOn, Ended
    <2>5. QED
      BY <1>1, <2>1, <2>2, <2>3, <2>4 DEF Next
  <1>2. TypeInv => TypeOK
    BY DEF TypeInv
  <1>3. QED
    BY <1>1, <1>2, InitTypes, SortedAlways, PTL DEF Spec

-----------------------------------------------------------------------------
(* What a capture does to the groups. *)

\* The groups that capture c = n of n + 1 is linked to.
Met(G, more, n) == {G[i] : i \in {j \in Indices(n) : more[<<j, n>>] > 0}} \ {-1}

\* The groups of n captures and those of n + 1.
Regrouped(link, n, G, p, roots, more, H, q, new) ==
  /\ Grows(link, more, n)
  /\ Grouped(link, n, G, p, roots) /\ Grouped(more, n + 1, H, q, new)

\* Those of the groups that the capture is linked to become its group.
LEMMA MetJoin ==
  ASSUME NEW n, NEW link, NEW G, NEW p, NEW roots, NEW more, NEW H, NEW q, NEW new,
         Regrouped(link, n, G, p, roots, more, H, q, new), NEW i \in Indices(n), G[i] \in Met(G, more, n)
  PROVE  H[i] = H[n] /\ H[n] # -1
  <1>1. PICK j \in Indices(n) : more[<<j, n>>] > 0 /\ G[j] = G[i] /\ G[i] # -1
    BY DEF Met
  <1>2. H[j] = H[i]
    BY <1>1, StayTogether DEF Regrouped
  <1>3. n \in Indices(n + 1) /\ j \in Indices(n + 1) /\ j # n
    BY DEF Regrouped, Grows, Links, Indices
  <1>4. Connected(more, n + 1, j, n)
    BY <1>1, <1>3, ConnectedLinks DEF Regrouped, Grows
  <1>5. QED
    BY <1>2, <1>3, <1>4 DEF Regrouped, Grouped

\* The others stay as they are.
LEMMA OthersStay ==
  ASSUME NEW n, NEW link, NEW G, NEW p, NEW roots, NEW more, NEW H, NEW q, NEW new,
         Regrouped(link, n, G, p, roots, more, H, q, new),
         NEW i \in Indices(n), G[i] # -1, G[i] \notin Met(G, more, n)
  PROVE  H[i] # H[n] /\ H[i] # -1 /\ \A j \in Indices(n) : H[j] = H[i] <=> G[j] = G[i]
  <1> DEFINE S == {x \in Indices(n) : G[x] = G[i]}
  <1>1. n \in Nat /\ \A x \in Indices(n + 1) : x = n \/ x \in Indices(n)
    BY DEF Regrouped, Grows, Links, Indices
  <1>2. n \in Indices(n + 1) /\ n \notin Indices(n) /\ Indices(n) \subseteq Indices(n + 1)
    BY <1>1 DEF Indices
  <1>3. H[i] # -1 /\ \A j \in Indices(n) : G[j] = G[i] => H[j] = H[i]
    BY StayTogether DEF Regrouped
  <1>4. ASSUME NEW a \in S, NEW b \in Indices(n + 1), a # b, more[<<a, b>>] > 0
        PROVE  b \in S
    <2>1. b # n
      BY <1>4 DEF Met
    <2>2. b \in Indices(n) /\ link[<<a, b>>] > 0
      BY <1>1, <1>4, <2>1 DEF Regrouped, Grows
    <2>3. Connected(link, n, a, b)
      BY <1>4, <2>2, ConnectedLinks DEF Regrouped, Grows
    <2>4. G[a] = G[b]
      BY <1>4, <2>2, <2>3 DEF Regrouped, Grouped
    <2>5. QED
      BY <1>4, <2>2, <2>4
  <1>5. S \in SUBSET Indices(n + 1) /\ i \in S
    BY <1>2
  <1>6. ASSUME NEW b \in Indices(n + 1), b \notin S
        PROVE  H[b] # H[i]
    <2>1. ~Connected(more, n + 1, i, b)
      <3> HIDE DEF S
      <3>1. QED
        BY <1>4, <1>5, <1>6 DEF Connected
    <2>2. i # b /\ i \in Indices(n + 1)
      BY <1>5, <1>6
    <2>3. QED
      BY <1>3, <2>1, <2>2 DEF Regrouped, Grouped
  <1>7. QED
    BY <1>2, <1>3, <1>6

\* A group that the capture is not in was there before.
LEMMA OthersWere ==
  ASSUME NEW n, NEW link, NEW G, NEW p, NEW roots, NEW more, NEW H, NEW q, NEW new,
         Regrouped(link, n, G, p, roots, more, H, q, new), NEW h \in 0 .. q, h # H[n], H[n] # -1
  PROVE  \E i \in Indices(n) : H[i] = h /\ G[i] # -1 /\ G[i] \notin Met(G, more, n)
  <1> DEFINE i == new[h]
  <1>1. i \in Indices(n + 1) /\ H[i] = h /\ h # -1 /\ i # n
    BY DEF Regrouped, Grouped
  <1>2. \A x \in Indices(n + 1) : x = n \/ x \in Indices(n)
    BY DEF Regrouped, Grows, Links, Indices
  <1>3. n \in Indices(n + 1) /\ Indices(n) \subseteq Indices(n + 1)
    BY DEF Regrouped, Grows, Links, Indices
  <1>4. i \in Indices(n)
    BY <1>1, <1>2
  <1> HIDE DEF i
  <1>5. Linked(more, n + 1, i)
    BY <1>1 DEF Regrouped, Grouped
  <1>6. PICK j \in Indices(n + 1) : j # i /\ more[<<i, j>>] > 0
    BY <1>5 DEF Linked
  <1>7. H[j] = H[i]
    <2>1. Connected(more, n + 1, i, j)
      BY <1>1, <1>6, ConnectedLinks DEF Regrouped, Grows
    <2>2. QED
      BY <1>1, <1>6, <2>1 DEF Regrouped, Grouped
  <1>8. j \in Indices(n) /\ link[<<i, j>>] > 0
    BY <1>1, <1>2, <1>4, <1>6, <1>7 DEF Regrouped, Grows
  <1>9. G[i] # -1
    BY <1>4, <1>6, <1>8 DEF Regrouped, Grouped, Linked
  <1>10. G[i] \notin Met(G, more, n)
    BY <1>1, <1>4, MetJoin
  <1>11. QED
    BY <1>1, <1>4, <1>9, <1>10

\* A capture in a group turns the groups it is linked to, and no others, into one
\* (fpc_rebuild_capture_groups).
LEMMA GroupsCounted ==
  ASSUME NEW n, NEW link, NEW G, NEW p, NEW roots, NEW more, NEW H, NEW q, NEW new,
         Regrouped(link, n, G, p, roots, more, H, q, new), H[n] # -1
  PROVE  /\ IsFiniteSet(Met(G, more, n)) /\ Cardinality(Met(G, more, n)) \in Nat
         /\ q = p - Cardinality(Met(G, more, n)) + 1
  <1> DEFINE M   == Met(G, more, n)
             Old == (0 .. p) \ M
             New == (0 .. q) \ {H[n]}
             f   == [g \in Old |-> H[roots[g]]]
  <1>1. n \in Nat /\ p \in -1 .. n - 1 /\ q \in -1 .. n
    BY DEF Regrouped, Grows, Links, Grouped
  <1>2. G \in [Indices(n) -> -1 .. p] /\ H \in [Indices(n + 1) -> -1 .. q]
        /\ n \in Indices(n + 1) /\ Indices(n) \subseteq Indices(n + 1)
    BY DEF Regrouped, Grows, Links, Grouped, Indices
  <1>3. \A g \in 0 .. p : roots[g] \in Indices(n) /\ G[roots[g]] = g /\ g # -1
    BY DEF Regrouped, Grouped
  <1>4. M \subseteq 0 .. p
    <2>1. \A i \in Indices(n) : G[i] # -1 => G[i] \in 0 .. p
      BY <1>1, <1>2
    <2>2. QED
      BY <2>1 DEF Met
  <1>5. IsFiniteSet(0 .. p) /\ Cardinality(0 .. p) = p + 1 /\ IsFiniteSet(0 .. q) /\ Cardinality(0 .. q) = q + 1
    <2>1. 0 .. p = Slots(p + 1) /\ 0 .. q = Slots(q + 1) /\ p + 1 \in Nat /\ q + 1 \in Nat
      BY <1>1 DEF Slots
    <2>2. QED
      BY <2>1, SlotsFinite
  <1>6. H[n] \in 0 .. q
    BY <1>1, <1>2
  <1> HIDE DEF M
  <1>7. IsFiniteSet(M) /\ Cardinality(M) \in Nat /\ IsFiniteSet(Old) /\ Cardinality(Old) = p + 1 - Cardinality(M)
    <2>1. IsFiniteSet(M) /\ Cardinality(M) \in Nat
      BY <1>4, <1>5, FS_Subset, FS_CardinalityType
    <2>2. IsFiniteSet((0 .. p) \ M) /\ Cardinality((0 .. p) \ M) = Cardinality(0 .. p) - Cardinality((0 .. p) \cap M)
      BY <1>5, FS_Difference
    <2>3. (0 .. p) \cap M = M
      BY <1>4
    <2>4. Cardinality((0 .. p) \ M) = p + 1 - Cardinality(M)
      <3>1. Cardinality((0 .. p) \cap M) = Cardinality(M)
        BY <2>3, Zenon
      <3>2. QED
        BY <1>1, <1>5, <2>1, <2>2, <3>1
    <2>5. QED
      BY <2>1, <2>2, <2>4
  <1>8. IsFiniteSet(New) /\ Cardinality(New) = q
    <2>1. IsFiniteSet((0 .. q) \ {H[n]}) /\ Cardinality((0 .. q) \ {H[n]}) = Cardinality(0 .. q) - 1
      BY <1>5, <1>6, FS_RemoveElement
    <2>2. QED
      BY <1>1, <1>5, <2>1
  <1>9. ASSUME NEW g \in Old
        PROVE  /\ f[g] = H[roots[g]] /\ f[g] \in New
               /\ \A j \in Indices(n) : H[j] = f[g] <=> G[j] = g
    <2>1. roots[g] \in Indices(n) /\ G[roots[g]] = g /\ g # -1 /\ g \notin Met(G, more, n)
      BY <1>3 DEF M
    <2>2. H[roots[g]] # H[n] /\ H[roots[g]] # -1 /\ \A j \in Indices(n) : H[j] = H[roots[g]] <=> G[j] = g
      BY <2>1, OthersStay
    <2>3. H[roots[g]] \in 0 .. q
      BY <1>1, <1>2, <2>1, <2>2
    <2>4. QED
      BY <2>2, <2>3
  <1>10. \A g, h \in Old : f[g] = f[h] => g = h
    <2>1. ASSUME NEW g \in Old, NEW h \in Old, f[g] = f[h]
          PROVE  g = h
      <3>1. roots[g] \in Indices(n) /\ G[roots[g]] = g /\ H[roots[g]] = f[g]
        BY <1>3
      <3> HIDE DEF f, Old
      <3>2. QED
        BY <1>9, <2>1, <3>1
    <2>2. QED
      BY <2>1
  <1>11. ASSUME NEW h \in New
         PROVE  \E g \in Old : f[g] = h
    <2>1. PICK i \in Indices(n) : H[i] = h /\ G[i] # -1 /\ G[i] \notin Met(G, more, n)
      BY OthersWere
    <2>2. G[i] \in Old
      BY <1>1, <1>2, <2>1 DEF M
    <2> HIDE DEF f, Old
    <2>3. QED
      BY <1>9, <2>1, <2>2
  <1>12. f \in Bijection(Old, New)
    <2>1. f \in [Old -> New]
      BY <1>9
    <2> HIDE DEF f, Old, New
    <2>2. QED
      BY <1>10, <1>11, <2>1 DEF Bijection, Injection, Surjection, IsInjective
  <1>13. Cardinality(Old) = Cardinality(New)
    <2> HIDE DEF f, Old, New
    <2>1. QED
      BY <1>7, <1>12, FS_Bijection DEF ExistsBijection
  <1> HIDE DEF Old, New
  <1>14. QED
    BY <1>1, <1>7, <1>8, <1>13 DEF M

\* A capture in a group leaves no more captures without one than there were.
LEMMA FewerUnassigned ==
  ASSUME NEW n, NEW link, NEW G, NEW p, NEW roots, NEW more, NEW H, NEW q, NEW new,
         Regrouped(link, n, G, p, roots, more, H, q, new), H[n] # -1
  PROVE  Unassigned(H) <= Unassigned(G)
  <1> DEFINE Before1 == {i \in DOMAIN G : G[i] < 0}
             After   == {i \in DOMAIN H : H[i] < 0}
  <1>1. n \in Nat /\ p \in -1 .. n - 1 /\ q \in -1 .. n
        /\ G \in [Indices(n) -> -1 .. p] /\ H \in [Indices(n + 1) -> -1 .. q]
        /\ \A x \in Indices(n + 1) : x = n \/ x \in Indices(n)
    BY DEF Regrouped, Grows, Links, Grouped, Indices
  <1>2. After \subseteq Before1
    <2>1. ASSUME NEW i \in Indices(n + 1), H[i] < 0
          PROVE  i \in Indices(n) /\ G[i] < 0
      <3>1. H[i] = -1
        BY <1>1, <2>1
      <3>2. i \in Indices(n)
        BY <1>1, <3>1
      <3>3. G[i] = -1
        BY <3>1, <3>2, StayTogether DEF Regrouped
      <3>4. QED
        BY <3>2, <3>3
    <2>2. QED
      BY <1>1, <2>1
  <1>3. IsFiniteSet(Before1)
    <2>1. Before1 \subseteq Slots(n)
      BY <1>1 DEF Indices, Slots
    <2>2. QED
      BY <1>1, <2>1, SlotsFinite
  <1>4. Cardinality(After) <= Cardinality(Before1)
    <2> HIDE DEF After, Before1
    <2>1. QED
      BY <1>2, <1>3, FS_Subset
  <1>5. QED
    BY <1>4 DEF Unassigned

\* A capture is reported as joining the selected group just when it matches
\* captures of that one group only (report.group_change, fpc_native_enrollment_add).
LEMMA JoinedMeans ==
  ASSUME NEW link, NEW more, NEW D, NEW old, NEW new, Grows(link, more, count),
         Sorted(link, count, D, old), Sorted(more, count + 1, D, new)
  PROVE  JoinedSelected(old, new) <=>
           /\ new.selected # -1 /\ new.groups[count] = new.groups[new.reference]
           /\ Cardinality(Met(old.groups, more, count)) = 1
  <1> DEFINE n == count
             M == Met(old.groups, more, count)
  <1>1. Regrouped(link, n, old.groups, old.count - 1, old.roots,
                  more, new.groups, new.count - 1, new.roots)
    BY DEF Regrouped, Sorted
  <1>2. old.count \in Int /\ new.count \in Int
    BY DEF Sorted
  <1>3. CASE new.selected = -1
    BY <1>3 DEF JoinedSelected
  <1>4. CASE new.selected # -1
    <2>1. new.groups[new.reference] = new.selected /\ new.selected >= 0
      BY <1>4 DEF Sorted, Chosen
    <2>2. CASE new.groups[n] # new.selected
      BY <2>1, <2>2 DEF JoinedSelected
    <2>3. CASE new.groups[n] = new.selected
      <3>1. new.groups[n] # -1
        BY <1>4, <2>3
      <3>2. Cardinality(M) \in Nat /\ new.count - 1 = (old.count - 1) - Cardinality(M) + 1
        BY <1>1, <3>1, GroupsCounted
      <3>3. Unassigned(new.groups) <= Unassigned(old.groups)
        BY <1>1, <3>1, FewerUnassigned
      <3>4. new.count = old.count <=> Cardinality(M) = 1
        BY <1>2, <3>2
      <3>5. QED
        BY <1>4, <2>1, <2>3, <3>3, <3>4 DEF JoinedSelected
    <2>4. QED
      BY <2>2, <2>3
  <1>5. QED
    BY <1>3, <1>4

\* Once an enrolment has its reference it keeps it, however groups are renumbered
\* or merged; and a capture is reported as joining the selected group just when it
\* matches captures of that one group only (fpc_native_enrollment_add).
THEOREM ReferenceStaysHolds == Spec => ReferenceStays
  <1> DEFINE near == {grouping.groups[i] : i \in
                       {j \in Indices(count) : Link(matches', count')[<<j, count>>] > 0}} \ {-1}
             Joins1 == joined' <=> /\ grouping'.selected # -1
                                   /\ grouping'.groups[count] = grouping'.groups[grouping'.reference]
                                   /\ Cardinality(near) = 1
             Keeps == grouping.selected # -1 => grouping'.reference = grouping.reference
  <1>1. ASSUME IInv, SortedInv, [Next]_vars, ~failed'
        PROVE  Keeps /\ (count' > count => Joins1)
    <2>0. count \in Nat
      BY <1>1, SizesAssumption DEF IInv
    <2>1. CASE Reject
      BY <1>1, <2>0, <2>1, RejectUnseen DEF Reject
    <2>2. ASSUME NEW row \in [Indices(count) -> Outcome], NEW s \in {FALSE, count + 1 >= Early}, TakeIn(row, s)
          PROVE  Keeps /\ Joins1
      <3> DEFINE more == Link(matches, count)'
      <3>1. /\ Grows(Link(matches, count), more, count)
            /\ Sorted(Link(matches, count), count, Slot, grouping)
            /\ Sorted(more, count + 1, Slot, grouping')
            /\ Keeps
        BY <1>1, <2>2, TakeInSorts
      <3>2. joined' = JoinedSelected(grouping, grouping')
        BY <2>2 DEF TakeIn
      <3>3. Met(grouping.groups, more, count) = near
        <4>1. more = Link(matches', count')
          BY DEF Link
        <4>2. QED
          BY <4>1, Zenon DEF Met
      <3> HIDE DEF more, near
      <3>4. JoinedSelected(grouping, grouping') <=>
              /\ grouping'.selected # -1 /\ grouping'.groups[count] = grouping'.groups[grouping'.reference]
              /\ Cardinality(Met(grouping.groups, more, count)) = 1
        BY <3>1, JoinedMeans
      <3>5. Cardinality(Met(grouping.groups, more, count)) = Cardinality(near)
        BY <3>3, Zenon
      <3>6. Joins1
        BY <3>2, <3>4, <3>5, Zenon
      <3>7. QED
        BY <3>1, <3>6
    <2>3. CASE Break
      BY <1>1, <2>3 DEF Break
    <2>4. CASE UNCHANGED vars
      BY <2>0, <2>4 DEF vars
    <2>5. QED
      BY <1>1, <2>1, <2>2, <2>3, <2>4 DEF Next
  <1>2. IInv /\ SortedInv /\ [Next]_vars =>
          [~failed' => Keeps /\ (count' > count => Joins1)]_vars
    BY <1>1
  <1>3. IInv /\ SortedInv /\ [Next]_vars =>
          [~failed' =>
             /\ grouping.selected # -1 => grouping'.reference = grouping.reference
             /\ count' > count =>
                  LET nr == {grouping.groups[i] : i \in
                              {j \in Indices(count) : Link(matches', count')[<<j, count>>] > 0}} \ {-1}
                  IN  joined' <=> /\ grouping'.selected # -1
                                  /\ grouping'.groups[count] = grouping'.groups[grouping'.reference]
                                  /\ Cardinality(nr) = 1]_vars
    BY <1>2
  <1>4. QED
    BY <1>3, SortedAlways, PTL DEF Spec, ReferenceStays

-----------------------------------------------------------------------------
(* Motions form a group. *)

Spot == Int \X Int
Pose == [turn : -1 .. 2, at : Spot]

\* The sum of two spots, coordinate by coordinate.
LEMMA PlusMeans ==
  ASSUME NEW v \in Spot, NEW w \in Spot
  PROVE  /\ Plus(v, w) \in Spot
         /\ Plus(v, w)[1] = v[1] + w[1] /\ Plus(v, w)[2] = v[2] + w[2]
  BY DEF Plus, Spot

\* An angle is the same quarter.
LEMMA TurnMeans ==
  ASSUME NEW q \in Int
  PROVE  Turn(q) \in -1 .. 2 /\ Turn(q) % 4 = q % 4
  BY DEF Turn

\* What the four quarters make of a spot.
LEMMA RotateMeans ==
  ASSUME NEW q \in Int, NEW v \in Spot
  PROVE  /\ q % 4 \in {0, 1, 2, 3}
         /\ q % 4 = 0 => Rotate(q, v) = v
         /\ q % 4 = 1 => Rotate(q, v) = <<-v[2], v[1]>>
         /\ q % 4 = 2 => Rotate(q, v) = <<-v[1], -v[2]>>
         /\ q % 4 = 3 => Rotate(q, v) = <<v[2], -v[1]>>
         /\ Rotate(q, v) \in Spot
  <1>1. q % 4 \in {0, 1, 2, 3}
    OBVIOUS
  <1>2. q % 4 = 0 => Rotate(q, v) = v
    BY DEF Rotate
  <1>3. q % 4 = 1 => Rotate(q, v) = <<-v[2], v[1]>>
    BY DEF Rotate
  <1>4. q % 4 = 2 => Rotate(q, v) = <<-v[1], -v[2]>>
    BY DEF Rotate
  <1>5. q % 4 = 3 => Rotate(q, v) = <<v[2], -v[1]>>
    BY DEF Rotate
  <1>6. v \in Spot /\ <<-v[2], v[1]>> \in Spot /\ <<-v[1], -v[2]>> \in Spot /\ <<v[2], -v[1]>> \in Spot
    BY DEF Spot
  <1>7. QED
    BY <1>1, <1>2, <1>3, <1>4, <1>5, <1>6

\* A rotation depends on the quarter alone, and rotations add up.
LEMMA RotateAlike ==
  ASSUME NEW p \in Int, NEW q \in Int, p % 4 = q % 4, NEW v \in Spot
  PROVE  Rotate(p, v) = Rotate(q, v)
  BY DEF Rotate

\* Quarter turns add, and cancel, modulo four.
LEMMA QuartersAdd ==
  ASSUME NEW p \in Int, NEW q \in Int
  PROVE  /\ (p + q) % 4 = ((p % 4) + (q % 4)) % 4
         /\ (-q) % 4 = (4 - (q % 4)) % 4
  OBVIOUS

\* Turning twice is turning once by the sum of the turns.
LEMMA RotateTwice ==
  ASSUME NEW p \in Int, NEW q \in Int, NEW v \in Spot
  PROVE  Rotate(p, Rotate(q, v)) = Rotate(p + q, v)
  <1> DEFINE w == Rotate(q, v)
  <1>1. w \in Spot
    BY RotateMeans
  <1>2. (p + q) % 4 = ((p % 4) + (q % 4)) % 4 /\ p + q \in Int
    BY QuartersAdd
  <1>3. v = <<v[1], v[2]>> /\ v[1] \in Int /\ v[2] \in Int
    BY DEF Spot
  <1>4. p % 4 \in {0, 1, 2, 3} /\ q % 4 \in {0, 1, 2, 3}
    BY RotateMeans
  <1>5. /\ q % 4 = 0 => w = <<v[1], v[2]>>
        /\ q % 4 = 1 => w = <<-v[2], v[1]>>
        /\ q % 4 = 2 => w = <<-v[1], -v[2]>>
        /\ q % 4 = 3 => w = <<v[2], -v[1]>>
    BY <1>3, RotateMeans
  <1>6. /\ p % 4 = 0 => Rotate(p, w) = w
        /\ p % 4 = 1 => Rotate(p, w) = <<-w[2], w[1]>>
        /\ p % 4 = 2 => Rotate(p, w) = <<-w[1], -w[2]>>
        /\ p % 4 = 3 => Rotate(p, w) = <<w[2], -w[1]>>
    BY <1>1, RotateMeans
  <1>7. /\ (p + q) % 4 = 0 => Rotate(p + q, v) = v
        /\ (p + q) % 4 = 1 => Rotate(p + q, v) = <<-v[2], v[1]>>
        /\ (p + q) % 4 = 2 => Rotate(p + q, v) = <<-v[1], -v[2]>>
        /\ (p + q) % 4 = 3 => Rotate(p + q, v) = <<v[2], -v[1]>>
    BY <1>2, RotateMeans
  <1>8. CASE p % 4 = 0
    <2>1. p + q \in Int /\ (p + q) % 4 = q % 4
      BY <1>2, <1>4, <1>8
    <2>2. Rotate(p + q, v) = w
      BY <2>1, RotateAlike
    <2>3. QED
      BY <1>6, <1>8, <2>2
  <1>9. CASE p % 4 = 1
    BY <1>2, <1>3, <1>4, <1>5, <1>6, <1>7, <1>9
  <1>10. CASE p % 4 = 2
    BY <1>2, <1>3, <1>4, <1>5, <1>6, <1>7, <1>10
  <1>11. CASE p % 4 = 3
    BY <1>2, <1>3, <1>4, <1>5, <1>6, <1>7, <1>11
  <1>12. QED
    BY <1>4, <1>8, <1>9, <1>10, <1>11

\* Rotations keep sums.
LEMMA RotateSum ==
  ASSUME NEW q \in Int, NEW v \in Spot, NEW w \in Spot
  PROVE  Rotate(q, Plus(v, w)) = Plus(Rotate(q, v), Rotate(q, w))
  <1>1. q % 4 \in {0, 1, 2, 3} /\ Plus(v, w) \in Spot
    BY RotateMeans, PlusMeans
  <1>2. CASE q % 4 = 0
    BY <1>1, <1>2, RotateMeans
  <1>3. CASE q % 4 = 1
    BY <1>1, <1>3, RotateMeans, PlusMeans DEF Plus, Spot
  <1>4. CASE q % 4 = 2
    BY <1>1, <1>4, RotateMeans, PlusMeans DEF Plus, Spot
  <1>5. CASE q % 4 = 3
    BY <1>1, <1>5, RotateMeans, PlusMeans DEF Plus, Spot
  <1>6. QED
    BY <1>1, <1>2, <1>3, <1>4, <1>5

\* Displacements may be added in any order of brackets.
LEMMA PlusAssociates ==
  ASSUME NEW u \in Spot, NEW v \in Spot, NEW w \in Spot
  PROVE  Plus(Plus(u, v), w) = Plus(u, Plus(v, w))
  BY DEF Plus, Spot

Negative(v) == <<-v[1], -v[2]>>
Origin == <<0, 0>>

\* The origin is the neutral displacement and every displacement has an opposite.
LEMMA PlusFacts ==
  ASSUME NEW v \in Spot
  PROVE  /\ Plus(Origin, v) = v /\ Plus(v, Origin) = v
         /\ Negative(v) \in Spot /\ Origin \in Spot
         /\ Plus(v, Negative(v)) = Origin /\ Plus(Negative(v), v) = Origin
  BY DEF Plus, Spot, Negative, Origin

\* A pose is its turn and its displacement, and nothing else.
LEMMA PoseMeans ==
  ASSUME NEW a \in Pose
  PROVE  a.turn \in -1 .. 2 /\ a.turn \in Int /\ a.at \in Spot /\ a = [turn |-> a.turn, at |-> a.at]
  BY DEF Pose

\* Applying, composing and inverting motions stays within spots and poses.
LEMMA MotionsTyped ==
  ASSUME NEW a \in Pose, NEW b \in Pose, NEW v \in Spot
  PROVE  /\ Apply(a, v) \in Spot /\ Compose(a, b) \in Pose /\ Opposite(a) \in Pose /\ Unmoved \in Pose
  <1>1. a.turn \in Int /\ a.at \in Spot /\ b.turn \in Int /\ b.at \in Spot /\ <<0, 0>> \in Spot
    BY PoseMeans DEF Spot
  <1>2. \A w \in Spot : Apply(a, w) \in Spot
    BY <1>1, RotateMeans, PlusMeans DEF Apply
  <1>3. Compose(a, b) \in Pose
    <2>1. Turn(a.turn + b.turn) \in -1 .. 2
      BY <1>1, TurnMeans
    <2>2. QED
      BY <1>1, <1>2, <2>1 DEF Compose, Pose
  <1>4. Opposite(a) \in Pose
    <2>1. Turn(-a.turn) \in -1 .. 2
      BY <1>1, TurnMeans
    <2>2. Rotate(-a.turn, <<-a.at[1], -a.at[2]>>) \in Spot
      BY <1>1, PlusFacts, RotateMeans DEF Negative
    <2>3. QED
      BY <2>1, <2>2 DEF Opposite, Pose
  <1>5. Unmoved \in Pose
    BY <1>1 DEF Unmoved, Pose
  <1>6. QED
    BY <1>2, <1>3, <1>4, <1>5

\* One motion after the other (fpc_compose_transform3).
LEMMA ApplyComposed ==
  ASSUME NEW a \in Pose, NEW b \in Pose, NEW v \in Spot
  PROVE  Apply(Compose(a, b), v) = Apply(a, Apply(b, v))
  <1>1. a.turn \in Int /\ a.at \in Spot /\ b.turn \in Int /\ b.at \in Spot /\ a.turn + b.turn \in Int
    BY PoseMeans
  <1> DEFINE t == Turn(a.turn + b.turn)
             w == Rotate(b.turn, v)
  <1>2. t \in Int /\ t % 4 = (a.turn + b.turn) % 4
    BY <1>1, TurnMeans
  <1>3. w \in Spot /\ Rotate(a.turn, b.at) \in Spot /\ Rotate(a.turn, w) \in Spot
    <2>1. w \in Spot
      BY <1>1, RotateMeans
    <2>2. QED
      BY <1>1, <2>1, RotateMeans
  <1>4. Rotate(t, v) = Rotate(a.turn, w)
    <2>1. Rotate(t, v) = Rotate(a.turn + b.turn, v)
      BY <1>1, <1>2, RotateAlike
    <2>2. Rotate(a.turn, w) = Rotate(a.turn + b.turn, v)
      BY <1>1, RotateTwice
    <2>3. QED
      BY <2>1, <2>2
  <1>5. Apply(Compose(a, b), v) = Plus(Plus(a.at, Rotate(a.turn, b.at)), Rotate(t, v))
    BY DEF Apply, Compose
  <1>6. Apply(a, Apply(b, v)) = Plus(a.at, Rotate(a.turn, Plus(b.at, w)))
    BY DEF Apply
  <1>7. Rotate(a.turn, Plus(b.at, w)) = Plus(Rotate(a.turn, b.at), Rotate(a.turn, w))
    BY <1>1, <1>3, RotateSum
  <1>8. QED
    BY <1>1, <1>3, <1>4, <1>5, <1>6, <1>7, PlusAssociates

\* The opposite undoes a motion (fpc_inverse_transform3).
LEMMA OppositeUndoes ==
  ASSUME NEW a \in Pose, NEW v \in Spot
  PROVE  Apply(Opposite(a), Apply(a, v)) = v /\ Apply(a, Apply(Opposite(a), v)) = v
  <1> DEFINE q == a.turn
             m == Negative(a.at)
  <1>1. q \in Int /\ -q \in Int /\ a.at \in Spot /\ m \in Spot
    BY PoseMeans, PlusFacts
  <1>2. Plus(m, a.at) = Origin /\ Plus(a.at, m) = Origin
    BY <1>1, PlusFacts
  <1> HIDE DEF m, q
  <1>3. Turn(-q) \in Int /\ Turn(-q) % 4 = (-q) % 4
    BY <1>1, TurnMeans
  <1>4. \A w \in Spot : Apply(Opposite(a), w) = Rotate(-q, Plus(m, w))
    <2> TAKE w \in Spot
    <2>1. Apply(Opposite(a), w) = Plus(Rotate(-q, m), Rotate(Turn(-q), w))
      BY DEF Apply, Opposite, Negative, q, m
    <2>2. Rotate(Turn(-q), w) = Rotate(-q, w)
      BY <1>1, <1>3, RotateAlike
    <2>3. QED
      BY <1>1, <2>1, <2>2, RotateSum
  <1>5. \A w \in Spot : Rotate(q, Rotate(-q, w)) = w /\ Rotate(-q, Rotate(q, w)) = w
    <2> TAKE w \in Spot
    <2>1. q + (-q) = 0 /\ (-q) + q = 0 /\ 0 % 4 = 0 /\ 0 \in Int
      BY <1>1
    <2>2. Rotate(0, w) = w
      BY <2>1, RotateMeans
    <2>3. Rotate(q, Rotate(-q, w)) = Rotate(q + (-q), w) /\ Rotate(-q, Rotate(q, w)) = Rotate((-q) + q, w)
      BY <1>1, RotateTwice
    <2>4. QED
      BY <2>1, <2>2, <2>3
  <1>6. Apply(Opposite(a), Apply(a, v)) = v
    <2>1. Apply(a, v) = Plus(a.at, Rotate(q, v)) /\ Rotate(q, v) \in Spot
      BY <1>1, RotateMeans DEF Apply, q
    <2>2. Apply(a, v) \in Spot
      BY MotionsTyped
    <2>3. Plus(m, Apply(a, v)) = Rotate(q, v)
      <3>1. Plus(m, Plus(a.at, Rotate(q, v))) = Plus(Plus(m, a.at), Rotate(q, v))
        BY <1>1, <2>1, PlusAssociates
      <3>2. QED
        BY <1>2, <2>1, <3>1, PlusFacts
    <2>4. QED
      BY <1>4, <1>5, <2>2, <2>3
  <1>7. Apply(a, Apply(Opposite(a), v)) = v
    <2>1. Plus(m, v) \in Spot
      BY <1>1, PlusMeans
    <2>2. Apply(a, Apply(Opposite(a), v)) = Plus(a.at, Plus(m, v))
      BY <1>4, <1>5, <2>1 DEF Apply, q
    <2>3. Plus(a.at, Plus(m, v)) = Plus(Plus(a.at, m), v)
      BY <1>1, PlusAssociates
    <2>4. QED
      BY <1>2, <2>2, <2>3, PlusFacts
  <1>8. QED
    BY <1>6, <1>7

\* Motions that agree on a quarter and on where they carry the origin are the same.
LEMMA SamePose ==
  ASSUME NEW a \in Pose, NEW b \in Pose, a.turn % 4 = b.turn % 4, a.at = b.at
  PROVE  a = b
  <1>1. a.turn = b.turn
    BY PoseMeans
  <1>2. QED
    BY <1>1, PoseMeans

\* A motion takes the origin to its displacement.
LEMMA AtOrigin ==
  ASSUME NEW a \in Pose
  PROVE  Apply(a, Origin) = a.at
  <1>1. a.turn \in Int /\ a.at \in Spot /\ Origin \in Spot
    BY PoseMeans, PlusFacts
  <1>2. Rotate(a.turn, Origin) = Origin
    BY <1>1, RotateMeans DEF Origin
  <1>3. QED
    BY <1>1, <1>2, PlusFacts DEF Apply

\* What the composed and the inverted motion turn by, and where the composed one leads.
LEMMA ComposeTurns ==
  ASSUME NEW a \in Pose, NEW b \in Pose
  PROVE  /\ Compose(a, b).turn % 4 = (a.turn + b.turn) % 4
         /\ Compose(a, b).at = Apply(a, b.at)
         /\ Opposite(a).turn % 4 = (-a.turn) % 4
  <1>1. a.turn \in Int /\ b.turn \in Int
    BY PoseMeans
  <1>2. Turn(a.turn + b.turn) % 4 = (a.turn + b.turn) % 4 /\ Turn(-a.turn) % 4 = (-a.turn) % 4
    BY <1>1, TurnMeans
  <1>3. QED
    BY <1>2 DEF Compose, Opposite

\* The motions form a group: composition associates, has a neutral motion and inverses.
LEMMA ComposeFacts ==
  ASSUME NEW a \in Pose, NEW b \in Pose, NEW c \in Pose
  PROVE  /\ Compose(Compose(a, b), c) = Compose(a, Compose(b, c))
         /\ Compose(Opposite(a), a) = Unmoved
         /\ Compose(a, Opposite(a)) = Unmoved
         /\ Compose(Unmoved, a) = a /\ Compose(a, Unmoved) = a
         /\ Opposite(Compose(Opposite(a), b)) = Compose(Opposite(b), a)
  <1>0. Origin \in Spot /\ Unmoved.turn = 0 /\ Unmoved.at = Origin /\ Unmoved \in Pose
    BY MotionsTyped DEF Spot, Unmoved, Origin
  <1>1. \A x, y \in Pose : /\ Compose(x, y) \in Pose /\ Opposite(x) \in Pose
                           /\ x.turn \in Int /\ x.at \in Spot
                           /\ Compose(x, y).turn % 4 = ((x.turn % 4) + (y.turn % 4)) % 4
                           /\ Opposite(x).turn % 4 = (4 - (x.turn % 4)) % 4
                           /\ Compose(x, y).at = Apply(x, y.at)
    <2> TAKE x, y \in Pose
    <2>0. x.turn \in Int /\ y.turn \in Int /\ x.at \in Spot
      BY PoseMeans
    <2>1. Compose(x, y) \in Pose /\ Opposite(x) \in Pose
      BY <2>0, MotionsTyped
    <2>2. (x.turn + y.turn) % 4 = ((x.turn % 4) + (y.turn % 4)) % 4 /\ (-x.turn) % 4 = (4 - (x.turn % 4)) % 4
      BY <2>0, QuartersAdd
    <2>3. QED
      BY <2>0, <2>1, <2>2, ComposeTurns
  <1>2. \A x, y \in Pose : Compose(x, y).at = Apply(x, y.at) /\ Apply(x, Origin) = x.at
    BY <1>1, AtOrigin
  <1>3. \A x \in Pose : x.turn % 4 \in {0, 1, 2, 3} /\ 0 % 4 = 0
    <2> TAKE x \in Pose
    <2>1. x.turn \in Int
      BY <1>1
    <2>2. QED
      BY <2>1
  <1>4. \A x, y, z \in {0, 1, 2, 3} : /\ (((x + y) % 4) + z) % 4 = (x + ((y + z) % 4)) % 4
                                       /\ (((4 - x) % 4) + x) % 4 = 0 /\ (x + ((4 - x) % 4)) % 4 = 0
                                       /\ (0 + x) % 4 = x /\ (x + 0) % 4 = x
                                       /\ (4 - ((((4 - x) % 4) + y) % 4)) % 4 = (((4 - y) % 4) + x) % 4
    OBVIOUS
  <1>5. Compose(Compose(a, b), c) = Compose(a, Compose(b, c))
    <2>1. Compose(Compose(a, b), c).at = Compose(a, Compose(b, c)).at
      <3>1. Compose(a, b) \in Pose /\ Compose(b, c) \in Pose /\ c.at \in Spot
        BY <1>1
      <3>2. Compose(Compose(a, b), c).at = Apply(Compose(a, b), c.at)
        BY <1>1, <3>1
      <3>3. Compose(a, Compose(b, c)).at = Apply(a, Apply(b, c.at))
        BY <1>1, <3>1
      <3>4. QED
        BY <3>1, <3>2, <3>3, ApplyComposed
    <2>2. Compose(Compose(a, b), c).turn % 4 = Compose(a, Compose(b, c)).turn % 4
      <3> DEFINE p == a.turn % 4
                 q == b.turn % 4
                 r == c.turn % 4
      <3>1. Compose(Compose(a, b), c).turn % 4 = (((p + q) % 4) + r) % 4
        BY <1>1
      <3>2. Compose(a, Compose(b, c)).turn % 4 = (p + ((q + r) % 4)) % 4
        BY <1>1
      <3>3. p \in {0, 1, 2, 3} /\ q \in {0, 1, 2, 3} /\ r \in {0, 1, 2, 3}
        BY <1>3
      <3> HIDE DEF p, q, r
      <3>4. QED
        BY <1>4, <3>1, <3>2, <3>3
    <2>3. QED
      BY <1>1, <2>1, <2>2, SamePose
  <1>6. Compose(Opposite(a), a) = Unmoved /\ Compose(a, Opposite(a)) = Unmoved
    <2>1. Apply(Opposite(a), a.at) = Origin
      BY <1>0, <1>2, OppositeUndoes
    <2>2. Apply(a, Opposite(a).at) = Origin
      <3>1. Opposite(a).at = Apply(Opposite(a), Origin)
        BY <1>1, <1>2
      <3>2. QED
        BY <1>0, <3>1, OppositeUndoes
    <2>3. Compose(Opposite(a), a).at = Unmoved.at /\ Compose(a, Opposite(a)).at = Unmoved.at
      BY <1>0, <1>1, <2>1, <2>2
    <2>4. Compose(Opposite(a), a).turn % 4 = Unmoved.turn % 4 /\ Compose(a, Opposite(a)).turn % 4 = Unmoved.turn % 4
      <3> DEFINE p == a.turn % 4
      <3>1. /\ Compose(Opposite(a), a).turn % 4 = (((4 - p) % 4) + p) % 4
            /\ Compose(a, Opposite(a)).turn % 4 = (p + ((4 - p) % 4)) % 4
        <4>1. Opposite(a) \in Pose /\ Opposite(a).turn % 4 = (4 - p) % 4
          BY <1>1
        <4>2. /\ Compose(Opposite(a), a).turn % 4 = ((Opposite(a).turn % 4) + p) % 4
              /\ Compose(a, Opposite(a)).turn % 4 = (p + (Opposite(a).turn % 4)) % 4
          BY <1>1, <4>1
        <4>3. QED
          BY <4>1, <4>2
      <3>2. p \in {0, 1, 2, 3} /\ Unmoved.turn % 4 = 0
        BY <1>0, <1>3
      <3> HIDE DEF p
      <3>3. QED
        BY <1>4, <3>1, <3>2
    <2>5. QED
      BY <1>0, <1>1, <2>3, <2>4, SamePose
  <1>7. Compose(Unmoved, a) = a /\ Compose(a, Unmoved) = a
    <2>1. Apply(Unmoved, a.at) = a.at
      <3>1. Rotate(0, a.at) = a.at
        BY <1>1, <1>3, RotateMeans
      <3>2. QED
        BY <1>0, <1>1, <3>1, PlusFacts DEF Apply
    <2>2. Compose(Unmoved, a).at = a.at /\ Compose(a, Unmoved).at = a.at
      <3>1. Compose(Unmoved, a).at = Apply(Unmoved, a.at)
        BY <1>0, <1>1
      <3>2. Compose(a, Unmoved).at = Apply(a, Origin)
        BY <1>0, <1>1
      <3>3. QED
        BY <1>2, <2>1, <3>1, <3>2
    <2>3. Compose(Unmoved, a).turn % 4 = a.turn % 4 /\ Compose(a, Unmoved).turn % 4 = a.turn % 4
      <3> DEFINE p == a.turn % 4
                 o == Unmoved.turn % 4
      <3>1. Compose(Unmoved, a).turn % 4 = (o + p) % 4 /\ Compose(a, Unmoved).turn % 4 = (p + o) % 4
        BY <1>0, <1>1
      <3>2. p \in {0, 1, 2, 3} /\ o = 0
        BY <1>0, <1>3
      <3> HIDE DEF p, o
      <3>3. (o + p) % 4 = p /\ (p + o) % 4 = p
        BY <1>4, <3>2
      <3>4. QED
        BY <3>1, <3>3 DEF p
    <2>4. QED
      BY <1>0, <1>1, <2>2, <2>3, SamePose
  <1>8. Opposite(Compose(Opposite(a), b)) = Compose(Opposite(b), a)
    <2> DEFINE x == Compose(Opposite(a), b)
               y == Compose(Opposite(b), a)
    <2>1. x \in Pose /\ y \in Pose /\ Opposite(x) \in Pose /\ Opposite(a) \in Pose /\ Opposite(b) \in Pose
      BY <1>1
    <2>2. Apply(x, y.at) = Origin
      <3>1. Apply(x, y.at) = Apply(Opposite(a), Apply(b, y.at)) /\ y.at \in Spot
        <4>1. y.at \in Spot
          BY <1>1, <2>1
        <4> HIDE DEF y
        <4>2. Apply(Compose(Opposite(a), b), y.at) = Apply(Opposite(a), Apply(b, y.at))
          BY <2>1, <4>1, ApplyComposed
        <4>3. QED
          BY <4>1, <4>2
      <3>2. y.at = Apply(Opposite(b), a.at) /\ a.at \in Spot
        BY <1>1, <2>1
      <3>3. Apply(b, y.at) = a.at
        BY <3>2, OppositeUndoes
      <3>4. Apply(Opposite(a), a.at) = Origin
        BY <1>0, <1>2, OppositeUndoes
      <3>5. QED
        BY <3>1, <3>3, <3>4
    <2>3. Opposite(x).at = y.at
      <3>1. y.at \in Spot
        BY <1>1, <2>1
      <3>2. Apply(Opposite(x), Apply(x, y.at)) = y.at
        BY <2>1, <3>1, OppositeUndoes
      <3>3. QED
        BY <1>2, <2>1, <2>2, <3>2
    <2>4. Opposite(x).turn % 4 = y.turn % 4
      <3>1. /\ Opposite(x).turn % 4 = (4 - (x.turn % 4)) % 4
            /\ x.turn % 4 = ((Opposite(a).turn % 4) + (b.turn % 4)) % 4
            /\ y.turn % 4 = ((Opposite(b).turn % 4) + (a.turn % 4)) % 4
            /\ Opposite(a).turn % 4 = (4 - (a.turn % 4)) % 4
            /\ Opposite(b).turn % 4 = (4 - (b.turn % 4)) % 4
        BY <1>1, <2>1
      <3> HIDE DEF x, y
      <3>2. QED
        BY <1>3, <1>4, <3>1
    <2>5. QED
      BY <2>1, <2>3, <2>4, SamePose
  <1>9. QED
    BY <1>5, <1>6, <1>7, <1>8

-----------------------------------------------------------------------------
(* Captures lie where their matches put them. *)

\* The matches agree on how the captures lie.
Agreeing(link, motion, n, layout) ==
  /\ Links(link, n) /\ layout \in [Indices(n) -> Pose]
  /\ \A i, j \in Indices(n) : i < j /\ link[<<i, j>>] > 0 =>
       motion[<<i, j>>] = Compose(Opposite(layout[i]), layout[j])

\* Seen from a capture.
SeenFrom(layout, r, i) == Compose(Opposite(layout[r]), layout[i])

\* The mean of motions that are all the same.
LEMMA MeanOfSame ==
  ASSUME NEW n, NEW link, Links(link, n), NEW i \in Indices(n), NEW S \in SUBSET Indices(n), i \notin S,
         NEW M \in SUBSET S, \A j \in S : j \in M <=> link[<<i, j>>] > 0, M # {}, NEW c \in Int,
         NEW scaled, DOMAIN scaled = M, \A j \in M : scaled[j] = link[<<i, j>>] * c
  PROVE  SumFunction(scaled) \div Weight(link, n, i, S) = c
  <1> DEFINE fun == [j \in S |-> link[<<i, j>>]]
             total == SumFunctionOnSet(fun, S)
  <1>1. Weight(link, n, i, S) = total
    <2>1. (S \cap Indices(n)) \ {i} = S
      OBVIOUS
    <2>2. DOMAIN fun = S
      OBVIOUS
    <2>3. QED
      BY <2>1, <2>2 DEF Weight, SumFunction
  <1>2. IsFiniteSet(S) /\ M \in SUBSET S /\ IsFiniteSet(M)
    <2>1. Indices(n) = Slots(n)
      BY DEF Indices, Slots
    <2>2. IsFiniteSet(S)
      BY <2>1, SlotsFinite DEF Links
    <2>3. QED
      BY <2>2, FS_Subset
  <1>3. \A j \in S : fun[j] = link[<<i, j>>] /\ fun[j] \in Nat
    BY DEF Links
  <1>4. \A j \in S \ M : fun[j] = 0
    BY <1>3
  <1>5. \A j \in M : scaled[j] = fun[j] * c
    BY <1>2
  <1>6. SumFunction(scaled) = SumFunctionOnSet(scaled, M)
    BY DEF SumFunction
  <1>7. \E j \in S : fun[j] > 0
    BY <1>3
  <1> HIDE DEF fun
  <1>8. \A j \in S : fun[j] \in Int
    <2> TAKE j \in S
    <2>1. fun[j] \in Nat
      BY <1>3
    <2>2. QED
      BY <2>1
  <1>9. total = SumFunctionOnSet(fun, M)
    BY <1>2, <1>4, <1>8, SumSupport
  <1>10. SumFunctionOnSet(scaled, M) = total * c
    <2>1. \A j \in M : fun[j] \in Int
      BY <1>2, <1>8
    <2>2. SumFunctionOnSet(scaled, M) = SumFunctionOnSet(fun, M) * c
      BY <1>2, <1>5, <2>1, SumScaled
    <2>3. QED
      BY <1>9, <2>2
  <1>11. total \in Nat /\ total > 0
    BY <1>2, <1>3, <1>7, SumPositive
  <1> HIDE DEF total
  <1>12. (total * c) \div total = c
    BY <1>11, QuotientExact
  <1>13. SumFunction(scaled) \div Weight(link, n, i, S) = c
    <2>1. SumFunction(scaled) = total * c
      BY <1>6, <1>10
    <2>2. Weight(link, n, i, S) = total
      BY <1>1 DEF total
    <2>3. QED
      BY <1>12, <2>1, <2>2
  <1>14. QED
    BY <1>13

\* A capture that is matched with captures which lie as the layout says, seen from
\* r, is placed as the layout says (fpc_weighted_group_transform).
LEMMA PlacedByMatches ==
  ASSUME NEW n, NEW link, NEW motion, NEW layout, Agreeing(link, motion, n, layout),
         NEW i \in Indices(n), NEW r \in Indices(n), NEW groups \in [Indices(n) -> Int], groups[i] = -1,
         NEW place, \A j \in Matched(link, i, groups) : place[j] = SeenFrom(layout, r, j),
         Matched(link, i, groups) # {}
  PROVE  WeightedTransform(link, motion, n, i, groups, place) = SeenFrom(layout, r, i)
  <1> DEFINE M == Matched(link, i, groups)
             S == Placed(groups)
             c == SeenFrom(layout, r, i)
             m == [j \in M |-> Compose(place[j], IF j < i THEN motion[<<j, i>>] ELSE Opposite(motion[<<i, j>>]))]
             total == Weight(link, n, i, S)
  <1>1. n \in Nat /\ i \in Int /\ Links(link, n)
    BY DEF Agreeing, Links, Indices
  <1>2. S \in SUBSET Indices(n) /\ i \notin S /\ M = {j \in S : link[<<i, j>>] > 0}
    BY DEF Placed, Matched
  <1>3. \A k \in Indices(n) : layout[k] \in Pose
    BY DEF Agreeing
  <1>4. ASSUME NEW j \in M
        PROVE  m[j] = c
    <2>1. j \in Indices(n) /\ j # i /\ link[<<i, j>>] > 0 /\ j \in Int
      BY <1>1, <1>2 DEF Indices
    <2>2. m[j] = Compose(SeenFrom(layout, r, j), IF j < i THEN motion[<<j, i>>] ELSE Opposite(motion[<<i, j>>]))
      OBVIOUS
    <2>3. (IF j < i THEN motion[<<j, i>>] ELSE Opposite(motion[<<i, j>>])) = SeenFrom(layout, j, i)
      <3>1. CASE j < i
        <4>1. link[<<j, i>>] > 0
          BY <1>1, <2>1 DEF Links
        <4>2. QED
          BY <2>1, <3>1, <4>1 DEF Agreeing, SeenFrom
      <3>2. CASE ~(j < i)
        <4>1. i < j
          BY <1>1, <2>1, <3>2
        <4>2. motion[<<i, j>>] = Compose(Opposite(layout[i]), layout[j])
          BY <2>1, <4>1 DEF Agreeing
        <4>3. Opposite(Compose(Opposite(layout[i]), layout[j])) = Compose(Opposite(layout[j]), layout[i])
          BY <1>3, <2>1, ComposeFacts
        <4>4. QED
          BY <3>2, <4>2, <4>3 DEF SeenFrom
      <3>3. QED
        BY <3>1, <3>2
    <2>4. Compose(SeenFrom(layout, r, j), SeenFrom(layout, j, i)) = SeenFrom(layout, r, i)
      <3> DEFINE R == Opposite(layout[r])
                 x == layout[j]
                 y == layout[i]
      <3>1. R \in Pose /\ x \in Pose /\ y \in Pose /\ Opposite(x) \in Pose /\ Compose(Opposite(x), y) \in Pose
        <4>1. x \in Pose /\ y \in Pose /\ layout[r] \in Pose
          BY <1>3, <2>1
        <4>2. \A a, b \in Pose : Opposite(a) \in Pose /\ Compose(a, b) \in Pose
          <5>1. Origin \in Spot
            BY DEF Spot, Origin
          <5>2. QED
            BY <5>1, MotionsTyped
        <4>3. QED
          BY <4>1, <4>2
      <3> HIDE DEF R, x, y
      <3>2. Compose(Compose(R, x), Compose(Opposite(x), y)) = Compose(R, Compose(x, Compose(Opposite(x), y)))
        BY <3>1, ComposeFacts
      <3>3. Compose(x, Compose(Opposite(x), y)) = Compose(Compose(x, Opposite(x)), y)
        BY <3>1, ComposeFacts
      <3>4. Compose(x, Opposite(x)) = Unmoved /\ Compose(Unmoved, y) = y
        BY <3>1, ComposeFacts
      <3>5. QED
        BY <3>2, <3>3, <3>4 DEF SeenFrom, R, x, y
    <2>5. QED
      BY <2>2, <2>3, <2>4
  <1>5. c \in Pose
    <2>1. layout[r] \in Pose /\ layout[i] \in Pose /\ Origin \in Spot
      BY <1>3 DEF Spot, Origin
    <2>2. Opposite(layout[r]) \in Pose
      BY <2>1, MotionsTyped
    <2>3. QED
      BY <2>1, <2>2, MotionsTyped DEF SeenFrom
  <1>6. DOMAIN m = M
    OBVIOUS
  <1>7. WeightedTransform(link, motion, n, i, groups, place) = Weighed(link, i, m, total)
    BY DEF WeightedTransform
  <1> HIDE DEF m, c, M, S
  <1> DEFINE Averaged(v) == SumFunction([j \in M |-> link[<<i, j>>] * v[j]]) \div total
  <1>8. \A v : \A d \in Int : (\A j \in M : v[j] = d) => Averaged(v) = d
    <2> SUFFICES ASSUME NEW v, NEW d \in Int, \A j \in M : v[j] = d PROVE Averaged(v) = d
      OBVIOUS
    <2> DEFINE scaled == [j \in M |-> link[<<i, j>>] * v[j]]
    <2>0. M \in SUBSET S /\ \A j \in S : j \in M <=> link[<<i, j>>] > 0
      BY <1>2
    <2>1. DOMAIN scaled = M /\ \A j \in M : scaled[j] = link[<<i, j>>] * d
      OBVIOUS
    <2>2. M # {}
      BY DEF M
    <2>3. SumFunction(scaled) \div total = d
      <3> HIDE DEF scaled, Averaged
      <3>1. Links(link, n) /\ i \in Indices(n) /\ S \in SUBSET Indices(n) /\ i \notin S /\ d \in Int
        BY <1>1, <1>2
      <3>2. SumFunction(scaled) \div Weight(link, n, i, S) = d
        BY ONLY <3>1, <2>0, <2>1, <2>2, MeanOfSame
      <3>3. QED
        BY <3>2 DEF total
    <2>4. QED
      BY <2>3
  <1>9. Weighed(link, i, m, total)
          = [turn |-> Averaged([j \in M |-> m[j].turn]),
             at   |-> <<Averaged([j \in M |-> m[j].at[1]]), Averaged([j \in M |-> m[j].at[2]])>>]
    BY <1>6 DEF Weighed
  <1> HIDE DEF Averaged
  <1>10. c.turn \in Int /\ c.at[1] \in Int /\ c.at[2] \in Int /\ c = [turn |-> c.turn, at |-> <<c.at[1], c.at[2]>>]
    <2>1. c.turn \in Int /\ c.at \in Spot /\ c = [turn |-> c.turn, at |-> c.at]
      BY <1>5, PoseMeans
    <2>2. QED
      BY <2>1 DEF Spot
  <1>11. Averaged([j \in M |-> m[j].turn]) = c.turn
    <2>1. \A j \in M : [k \in M |-> m[k].turn][j] = c.turn
      BY <1>4
    <2>2. QED
      BY <1>8, <1>10, <2>1
  <1>12. Averaged([j \in M |-> m[j].at[1]]) = c.at[1]
    <2>1. \A j \in M : [k \in M |-> m[k].at[1]][j] = c.at[1]
      BY <1>4
    <2>2. QED
      BY <1>8, <1>10, <2>1
  <1>13. Averaged([j \in M |-> m[j].at[2]]) = c.at[2]
    <2>1. \A j \in M : [k \in M |-> m[k].at[2]][j] = c.at[2]
      BY <1>4
    <2>2. QED
      BY <1>8, <1>10, <2>1
  <1>14. QED
    BY <1>7, <1>9, <1>10, <1>11, <1>12, <1>13 DEF c

\* Where captures lie when groups are as in s, each seen from the root of its group.
LyingIn(layout, n, s) ==
  [i \in Indices(n) |-> IF s.groups[i] = -1 THEN Unmoved ELSE SeenFrom(layout, s.roots[s.groups[i]], i)]

Lying(layout, n, s) == [group |-> s.group, groups |-> s.groups, place |-> LyingIn(layout, n, s)]

\* A round of placing takes the samples' poses after some rounds to those after one more.
LEMMA PlaceNextMeans ==
  ASSUME NEW n, NEW link, NEW motion, NEW s, NEW t, NEW r, NEW layout,
         r.groups = [i \in Indices(n) |-> IF i \in t.join \cup t.root THEN r.group ELSE s.groups[i]],
         r.group = s.group + Cardinality(t.root),
         \A i \in Indices(n) :
           LyingIn(layout, n, r)[i] = IF i \in t.root THEN Unmoved
                                      ELSE IF i \in t.join
                                      THEN WeightedTransform(link, motion, n, i, s.groups, LyingIn(layout, n, s))
                                      ELSE LyingIn(layout, n, s)[i]
  PROVE  PlaceRound(link, motion, n, Lying(layout, n, s), t) = Lying(layout, n, r)
  <1> DEFINE old == LyingIn(layout, n, s)
             new == LyingIn(layout, n, r)
             u   == Lying(layout, n, s)
  <1>1. u.group = s.group /\ u.groups = s.groups /\ u.place = old
    BY DEF Lying
  <1>2. new = [i \in Indices(n) |-> new[i]]
    BY DEF LyingIn
  <1> HIDE DEF old, new, u
  <1>3. new = [i \in Indices(n) |-> IF i \in t.root THEN Unmoved
                                    ELSE IF i \in t.join
                                    THEN WeightedTransform(link, motion, n, i, u.groups, u.place)
                                    ELSE u.place[i]]
    BY <1>1, <1>2 DEF old, new
  <1>4. r.group = u.group + Cardinality(t.root)
    BY <1>1
  <1>5. r.groups = [i \in Indices(n) |-> IF i \in t.join \cup t.root THEN r.group ELSE u.groups[i]]
    BY <1>1
  <1>6. PlaceRound(link, motion, n, u, t) = [group |-> r.group, groups |-> r.groups, place |-> new]
    BY <1>3, <1>4, <1>5 DEF PlaceRound, PlaceNext
  <1>7. QED
    BY <1>6 DEF u, new, Lying

\* Seen from itself, a sample has not moved.
LEMMA FromItself ==
  ASSUME NEW n, NEW layout \in [Indices(n) -> Pose], NEW i \in Indices(n)
  PROVE  SeenFrom(layout, i, i) = Unmoved
  <1>1. layout[i] \in Pose
    OBVIOUS
  <1>2. QED
    BY <1>1, ComposeFacts DEF SeenFrom

\* A round places captures where the layout says, if the rounds before it did
\* (fpc_rebuild_capture_groups).
LEMMA RoundPlaces ==
  ASSUME NEW n, NEW link, NEW motion, NEW layout, Agreeing(link, motion, n, layout),
         NEW D, Indices(n) \subseteq D, NEW roots \in [D -> Int],
         NEW s, NEW k \in 1 .. n, Grown(link, n, D, s, k - 1)
  PROVE  PlaceRound(link, motion, n, Lying(layout, n, s), Grow(link, n, s.groups))
           = Lying(layout, n, Round(link, n, roots, k, s))
  <1> DEFINE t == Grow(link, n, s.groups)
             r == Round(link, n, roots, k, s)
             old == LyingIn(layout, n, s)
             new == LyingIn(layout, n, r)
  <1>1. Links(link, n) /\ n \in Nat /\ layout \in [Indices(n) -> Pose]
    BY DEF Agreeing, Links
  <1>2. /\ s.group \in -1 .. k - 2 /\ s.group \in Int /\ s.groups \in [Indices(n) -> Int] /\ s.roots \in [D -> Int]
        /\ \A a \in Indices(n) : s.groups[a] \in -1 .. s.group
    BY <1>1 DEF Grown, Numbered, States
  <1>3. k # 0
    OBVIOUS
  <1>4. /\ r.group = s.group + Cardinality(t.root)
        /\ r.groups = [i \in Indices(n) |-> IF i \in t.join \cup t.root THEN r.group ELSE s.groups[i]]
        /\ r.roots = [h \in D |-> IF h = r.group /\ t.root # {} THEN CHOOSE i \in t.root : TRUE ELSE s.roots[h]]
    BY <1>3 DEF Round
  <1>5. \/ /\ t.root = {}
           /\ \E i \in Open(n, s) : /\ t.join = {i}
                                    /\ \E j \in Indices(n) : s.groups[j] # -1 /\ j # i /\ link[<<i, j>>] > 0
        \/ /\ t.join = {}
           /\ \/ \E i \in Open(n, s) : t.root = {i}
              \/ t.root = {}
    BY <1>1, <1>2, GrowMeans DEF Open
  <1>6. \A i \in Indices(n) : /\ new[i] = IF r.groups[i] = -1 THEN Unmoved ELSE SeenFrom(layout, r.roots[r.groups[i]], i)
                              /\ old[i] = IF s.groups[i] = -1 THEN Unmoved ELSE SeenFrom(layout, s.roots[s.groups[i]], i)
    BY DEF LyingIn
  <1> HIDE DEF t, r, old, new
  <1>7. ASSUME t.root = {}
        PROVE  r.group = s.group /\ r.roots = s.roots
    <2>1. r.group = s.group
      BY <1>2, <1>4, <1>7, FS_EmptySet
    <2>2. s.roots = [h \in D |-> s.roots[h]]
      BY <1>2
    <2>3. QED
      BY <1>4, <1>7, <2>1, <2>2
  <1> DEFINE Fits(i) == new[i] = IF i \in t.root THEN Unmoved
                                 ELSE IF i \in t.join
                                 THEN WeightedTransform(link, motion, n, i, s.groups, old)
                                 ELSE old[i]
  <1>8. ASSUME t.join = {}, t.root = {}, NEW i \in Indices(n)
        PROVE  Fits(i)
    <2>1. r.groups[i] = s.groups[i]
      BY <1>4, <1>8
    <2>2. QED
      BY <1>6, <1>7, <1>8, <2>1
  <1>9. ASSUME NEW i \in Open(n, s), t.root = {i}, t.join = {}, NEW a \in Indices(n)
        PROVE  Fits(a)
    <2>1. r.group = s.group + 1 /\ i \in Indices(n) /\ s.groups[i] = -1
      BY <1>2, <1>4, <1>9, FS_Singleton DEF Open
    <2>2. \A h \in D : r.roots[h] = IF h = s.group + 1 THEN i ELSE s.roots[h]
      <3>1. (CHOOSE x \in t.root : TRUE) = i /\ t.root # {}
        BY <1>9
      <3>2. QED
        BY <1>4, <2>1, <3>1
    <2>3. s.group + 1 \in D /\ \A h \in 0 .. s.group : h \in D
      <3>1. 0 .. s.group + 1 \subseteq Indices(n)
        <4>1. s.group \in -1 .. k - 2 /\ k \in 1 .. n /\ n \in Nat
          BY <1>1, <1>2
        <4>2. QED
          BY ONLY <4>1 DEF Indices
      <3>2. s.group + 1 \in 0 .. s.group + 1 /\ 0 .. s.group \subseteq 0 .. s.group + 1
        BY <1>2
      <3>3. QED
        BY <3>1, <3>2
    <2>4. CASE a = i
      <3>1. r.groups[a] = s.group + 1 /\ r.groups[a] # -1
        BY <1>2, <1>4, <1>9, <2>1, <2>4
      <3>2. new[a] = SeenFrom(layout, i, i)
        BY <1>6, <2>2, <2>3, <2>4, <3>1
      <3>3. QED
        BY <1>1, <1>9, <2>1, <2>4, <3>2, FromItself
    <2>5. CASE a # i
      <3>1. r.groups[a] = s.groups[a]
        BY <1>4, <1>9, <2>5
      <3>2. s.groups[a] # -1 => s.groups[a] \in 0 .. s.group
        BY <1>2
      <3>3. s.groups[a] # -1 => r.roots[s.groups[a]] = s.roots[s.groups[a]]
        <4> HAVE s.groups[a] # -1
        <4>1. s.groups[a] \in D /\ s.groups[a] # s.group + 1
          BY <1>2, <2>3, <3>2
        <4>2. QED
          BY <2>2, <4>1
      <3>4. QED
        BY <1>6, <1>9, <2>5, <3>1, <3>3
    <2>6. QED
      BY <2>4, <2>5
  <1>10. ASSUME NEW i \in Open(n, s), t.root = {}, t.join = {i},
                \E j \in Indices(n) : s.groups[j] # -1 /\ j # i /\ link[<<i, j>>] > 0, NEW a \in Indices(n)
         PROVE  Fits(a)
    <2>1. r.group = s.group /\ r.roots = s.roots /\ i \in Indices(n) /\ s.groups[i] = -1
      BY <1>7, <1>10 DEF Open
    <2>2. CASE a # i
      <3>1. r.groups[a] = s.groups[a]
        BY <1>4, <1>10, <2>2
      <3>2. QED
        BY <1>6, <1>10, <2>1, <2>2, <3>1
    <2>3. CASE a = i
      <3>1. r.groups[i] = s.group
        BY <1>4, <1>10, <2>1
      <3>2. s.group >= 0
        BY <1>2, <1>10
      <3>3. s.roots[s.group] \in Indices(n)
        BY <1>2, <3>2 DEF Grown, Rooted
      <3>4. new[i] = SeenFrom(layout, s.roots[s.group], i)
        BY <1>2, <1>6, <2>1, <3>1, <3>2
      <3>5. ASSUME NEW j \in Matched(link, i, s.groups)
            PROVE  old[j] = SeenFrom(layout, s.roots[s.group], j)
        <4>1. j \in Indices(n) /\ s.groups[j] # -1 /\ j # i /\ link[<<i, j>>] > 0
          BY <1>2 DEF Matched, Placed
        <4>2. link[<<j, i>>] > 0
          BY <1>1, <2>1, <4>1 DEF Links
        <4>3. s.groups[j] = s.group
          BY <2>1, <4>1, <4>2 DEF Grown, Complete
        <4>4. QED
          BY <1>6, <4>1, <4>3
      <3>6. Matched(link, i, s.groups) # {}
        BY <1>2, <1>10 DEF Matched, Placed
      <3>7. WeightedTransform(link, motion, n, i, s.groups, old) = SeenFrom(layout, s.roots[s.group], i)
        BY <1>2, <2>1, <3>3, <3>5, <3>6, PlacedByMatches
      <3>8. QED
        BY <1>10, <2>3, <3>4, <3>7
    <2>4. QED
      BY <2>2, <2>3
  <1>11. \A i \in Indices(n) : Fits(i)
    <2> HIDE DEF Fits
    <2>1. QED
      BY <1>5, <1>8, <1>9, <1>10
  <1>12. PlaceRound(link, motion, n, Lying(layout, n, s), t) = Lying(layout, n, r)
    BY <1>4, <1>11, PlaceNextMeans DEF old, new
  <1>13. QED
    BY <1>12 DEF t, r

\* Each capture of a group lies where the layout says, seen from the first of its
\* group, along whichever matches it was placed (fpc_rebuild_capture_groups).
THEOREM PlacedAsLaid ==
  ASSUME NEW n, NEW link, NEW motion, NEW layout, Agreeing(link, motion, n, layout),
         NEW roots \in [Indices(n) -> Int]
  PROVE  PlaceCaptures(link, motion, n) = LyingIn(layout, n, Grouping(link, n, roots))
  <1>1. Links(link, n) /\ n \in Nat
    BY DEF Agreeing, Links
  <1>2. PICK w : Rounds(w, link, n, roots) /\ Grouping(link, n, roots) = w[n]
    BY <1>1, GroupingIsLast
  <1>3. \A k \in 0 .. n : w[k] = Round(link, n, roots, k, w[k - 1]) /\ Grown(link, n, Indices(n), w[k], k)
    BY <1>1, <1>2, RoundsGrow
  <1> DEFINE AtFirst == [group |-> -1, groups |-> [i \in Indices(n) |-> -1], place |-> [i \in Indices(n) |-> Unmoved]]
             Next1(u) == PlaceRound(link, motion, n, u, Grow(link, n, u.groups))
             Goes(u) == u = [k \in 0 .. n |-> IF k = 0 THEN AtFirst ELSE Next1(u[k - 1])]
             v == [k \in 0 .. n |-> Lying(layout, n, w[k])]
  <1>4. Lying(layout, n, w[0]) = AtFirst
    <2>1. w[0].group = -1 /\ w[0].groups = [i \in Indices(n) |-> -1]
      <3>1. w[0] = Round(link, n, roots, 0, w[0 - 1])
        <4>1. 0 \in 0 .. n
          BY <1>1
        <4>2. QED
          BY <1>3, <4>1, Zenon
      <3>2. \A x : Round(link, n, roots, 0, x) = [group |-> -1, groups |-> [i \in Indices(n) |-> -1], roots |-> roots]
        BY DEF Round
      <3>3. QED
        BY <3>1, <3>2
    <2>2. QED
      BY <2>1 DEF Lying, LyingIn
  <1>5. ASSUME NEW k \in 1 .. n
        PROVE  Lying(layout, n, w[k]) = Next1(Lying(layout, n, w[k - 1]))
    <2>1. k \in 0 .. n /\ k - 1 \in 0 .. n
      BY <1>1
    <2>2. w[k] = Round(link, n, roots, k, w[k - 1]) /\ Grown(link, n, Indices(n), w[k - 1], k - 1)
      BY <1>3, <2>1
    <2>3. Lying(layout, n, w[k - 1]).groups = w[k - 1].groups
      BY DEF Lying
    <2>4. QED
      BY <2>2, <2>3, RoundPlaces
  <1> HIDE DEF AtFirst, Next1
  <1>6. Goes(v)
    <2>1. \A k \in 0 .. n : v[k] = IF k = 0 THEN AtFirst ELSE Next1(v[k - 1])
      <3> TAKE k \in 0 .. n
      <3>1. CASE k = 0
        BY <1>4, <3>1
      <3>2. CASE k # 0
        <4>1. k \in 1 .. n /\ k - 1 \in 0 .. n
          BY <1>1, <3>2
        <4>2. QED
          BY <1>5, <3>2, <4>1
      <3>3. QED
        BY <3>1, <3>2
    <2>2. v = [k \in 0 .. n |-> v[k]]
      OBVIOUS
    <2> HIDE DEF v
    <2>3. [k \in 0 .. n |-> v[k]] = [k \in 0 .. n |-> IF k = 0 THEN AtFirst ELSE Next1(v[k - 1])]
      BY <2>1
    <2>4. QED
      BY <2>2, <2>3
  <1> DEFINE u == CHOOSE x : Goes(x)
  <1>7. Goes(u)
    <2> HIDE DEF Goes, v
    <2>1. QED
      BY <1>6
  <1>8. PlaceCaptures(link, motion, n) = u[n].place
    BY DEF PlaceCaptures, AtFirst, Next1
  <1> HIDE DEF u
  <1>9. 0 .. n \subseteq {k \in 0 .. n : u[k] = v[k]}
    <2> DEFINE P == {k \in 0 .. n : u[k] = v[k]}
    <2>1. 0 \in P
      <3>1. 0 \in 0 .. n
        BY <1>1
      <3> HIDE DEF v
      <3>2. v[0] = AtFirst /\ u[0] = AtFirst
        BY <1>6, <1>7, <3>1
      <3>3. QED
        BY <3>1, <3>2
    <2>2. ASSUME NEW k \in P, 0 <= k, k < n
          PROVE  k + 1 \in P
      <3>1. k + 1 \in 0 .. n /\ k + 1 # 0 /\ (k + 1) - 1 = k /\ u[k] = v[k]
        BY <1>1, <2>2
      <3>2. u[k + 1] = Next1(u[k]) /\ v[k + 1] = Next1(v[k])
        <4> HIDE DEF v
        <4>1. QED
          BY <1>6, <1>7, <3>1
      <3> HIDE DEF v
      <3>3. QED
        BY <3>1, <3>2
    <2> HIDE DEF P
    <2>3. QED
      <3>1. 0 .. n \subseteq P
        BY <1>1, <2>1, <2>2, IntervalInduction
      <3>2. QED
        BY <3>1 DEF P
  <1>10. n \in 0 .. n
    BY <1>1
  <1>11. u[n] = Lying(layout, n, w[n])
    BY <1>9, <1>10
  <1>12. QED
    BY <1>2, <1>8, <1>11 DEF Lying

-----------------------------------------------------------------------------
(* How far a set reaches. *)

\* A set that reaches as far as a part of it.
LEMMA SameEnds ==
  ASSUME NEW S \in SUBSET Int, IsFiniteSet(S), S # {}, NEW T \in SUBSET Int, S \subseteq T,
         \A t \in T : \E a, b \in S : a <= t /\ t <= b
  PROVE  Min(T) = Min(S) /\ Max(T) = Max(S) /\ Min(S) \in Int /\ Max(S) \in Int
  <1>1. Min(S) \in S /\ Max(S) \in S /\ \A x \in S : Min(S) <= x /\ Max(S) >= x
    BY MinMaxExist
  <1>2. Min(S) \in T /\ Max(S) \in T
    BY <1>1
  <1>3. ASSUME NEW t \in T
        PROVE  Min(S) <= t /\ Max(S) >= t
    <2>1. PICK a, b \in S : a <= t /\ t <= b
      OBVIOUS
    <2>2. a \in Int /\ b \in Int /\ t \in Int /\ Min(S) <= a /\ Max(S) >= b /\ Min(S) \in Int /\ Max(S) \in Int
      BY <1>1
    <2>3. QED
      BY <2>1, <2>2
  <1>4. QED
    BY <1>1, <1>2, <1>3, MinIs, MaxIs

-----------------------------------------------------------------------------
(* The corners of a capture tell where all of it lies. *)

Frame   == (0 .. MaskWidth - 1) \X (0 .. MaskHeight - 1)
Corners == {0, MaskWidth - 1} \X {0, MaskHeight - 1}

\* The mask's frame is not empty and its corners lie in it.
LEMMA FrameFacts ==
  /\ MaskWidth \in Nat /\ MaskWidth > 0 /\ MaskHeight \in Nat /\ MaskHeight > 0
  /\ Corners \subseteq Frame /\ Frame \subseteq Spot /\ Corners # {} /\ IsFiniteSet(Corners)
  <1>1. MaskWidth \in Nat /\ MaskWidth > 0 /\ MaskHeight \in Nat /\ MaskHeight > 0
    BY PlacementAssumption
  <1>2. Corners \subseteq Frame /\ Frame \subseteq Spot /\ Corners # {}
    <2>1. {0, MaskWidth - 1} \subseteq 0 .. MaskWidth - 1 /\ {0, MaskHeight - 1} \subseteq 0 .. MaskHeight - 1
      BY <1>1
    <2>2. Corners \subseteq Frame
      BY <2>1 DEF Corners, Frame
    <2>3. Frame \subseteq Spot
      BY <1>1 DEF Frame, Spot
    <2>4. <<0, 0>> \in Corners
      BY DEF Corners
    <2>5. QED
      BY <2>2, <2>3, <2>4
  <1>3. IsFiniteSet(Corners)
    <2>1. \A a, b : IsFiniteSet({a, b})
      <3> TAKE a, b
      <3>1. IsFiniteSet({a} \cup {b})
        BY FS_Singleton, FS_Union
      <3>2. {a, b} = {a} \cup {b}
        OBVIOUS
      <3>3. QED
        BY <3>1, <3>2
    <2>2. QED
      BY <2>1, FS_Product DEF Corners
  <1>4. QED
    BY <1>1, <1>2, <1>3

\* A motion written out for each of the four quarter turns.
LEMMA ApplyMeans ==
  ASSUME NEW a \in Pose, NEW v \in Spot
  PROVE  /\ Apply(a, v) \in Spot /\ a.turn % 4 \in {0, 1, 2, 3} /\ a.at[1] \in Int /\ a.at[2] \in Int
         /\ a.turn % 4 = 0 => Apply(a, v)[1] = a.at[1] + v[1] /\ Apply(a, v)[2] = a.at[2] + v[2]
         /\ a.turn % 4 = 1 => Apply(a, v)[1] = a.at[1] - v[2] /\ Apply(a, v)[2] = a.at[2] + v[1]
         /\ a.turn % 4 = 2 => Apply(a, v)[1] = a.at[1] - v[1] /\ Apply(a, v)[2] = a.at[2] - v[2]
         /\ a.turn % 4 = 3 => Apply(a, v)[1] = a.at[1] + v[2] /\ Apply(a, v)[2] = a.at[2] - v[1]
  <1> DEFINE w == Rotate(a.turn, v)
  <1>1. a.turn \in Int /\ a.at \in Spot
    BY PoseMeans
  <1>2. a.at[1] \in Int /\ a.at[2] \in Int /\ v[1] \in Int /\ v[2] \in Int
    BY <1>1 DEF Spot
  <1>3. /\ a.turn % 4 \in {0, 1, 2, 3} /\ w \in Spot
        /\ a.turn % 4 = 0 => w = v
        /\ a.turn % 4 = 1 => w = <<-v[2], v[1]>>
        /\ a.turn % 4 = 2 => w = <<-v[1], -v[2]>>
        /\ a.turn % 4 = 3 => w = <<v[2], -v[1]>>
    BY <1>1, RotateMeans
  <1>4. Apply(a, v) = Plus(a.at, w)
    BY DEF Apply
  <1> HIDE DEF w
  <1>5. Apply(a, v) \in Spot /\ Apply(a, v)[1] = a.at[1] + w[1] /\ Apply(a, v)[2] = a.at[2] + w[2]
    BY <1>1, <1>3, <1>4, PlusMeans
  <1>6. QED
    BY <1>2, <1>3, <1>5

\* No pixel of a moved frame lies beyond the outermost of its moved corners, on any side.
LEMMA CornersReach ==
  ASSUME NEW a \in Pose, NEW p \in Frame
  PROVE  \E l, r, t, b \in Corners :
           /\ Apply(a, l)[1] <= Apply(a, p)[1] /\ Apply(a, p)[1] <= Apply(a, r)[1]
           /\ Apply(a, t)[2] <= Apply(a, p)[2] /\ Apply(a, p)[2] <= Apply(a, b)[2]
  <1> DEFINE w == MaskWidth - 1
             h == MaskHeight - 1
  <1>1. w \in Nat /\ h \in Nat /\ p[1] \in 0 .. w /\ p[2] \in 0 .. h /\ p \in Spot
    BY FrameFacts DEF Frame
  <1>2. /\ <<0, 0>> \in Corners /\ <<w, 0>> \in Corners /\ <<0, h>> \in Corners /\ <<w, h>> \in Corners
        /\ <<0, 0>> \in Spot /\ <<w, 0>> \in Spot /\ <<0, h>> \in Spot /\ <<w, h>> \in Spot
    BY <1>1 DEF Corners, Spot
  <1> HIDE DEF w, h
  <1>3. a.turn % 4 \in {0, 1, 2, 3} /\ a.at[1] \in Int /\ a.at[2] \in Int
    BY <1>1, ApplyMeans
  <1>4. CASE a.turn % 4 = 0
    <2>1. /\ Apply(a, <<0, 0>>)[1] <= Apply(a, p)[1] /\ Apply(a, p)[1] <= Apply(a, <<w, h>>)[1]
          /\ Apply(a, <<0, 0>>)[2] <= Apply(a, p)[2] /\ Apply(a, p)[2] <= Apply(a, <<w, h>>)[2]
      BY <1>1, <1>2, <1>3, <1>4, ApplyMeans
    <2>2. QED
      BY <1>2, <2>1
  <1>5. CASE a.turn % 4 = 1
    <2>1. /\ Apply(a, <<0, h>>)[1] <= Apply(a, p)[1] /\ Apply(a, p)[1] <= Apply(a, <<w, 0>>)[1]
          /\ Apply(a, <<0, h>>)[2] <= Apply(a, p)[2] /\ Apply(a, p)[2] <= Apply(a, <<w, 0>>)[2]
      BY <1>1, <1>2, <1>3, <1>5, ApplyMeans
    <2>2. QED
      BY <1>2, <2>1
  <1>6. CASE a.turn % 4 = 2
    <2>1. /\ Apply(a, <<w, h>>)[1] <= Apply(a, p)[1] /\ Apply(a, p)[1] <= Apply(a, <<0, 0>>)[1]
          /\ Apply(a, <<w, h>>)[2] <= Apply(a, p)[2] /\ Apply(a, p)[2] <= Apply(a, <<0, 0>>)[2]
      BY <1>1, <1>2, <1>3, <1>6, ApplyMeans
    <2>2. QED
      BY <1>2, <2>1
  <1>7. CASE a.turn % 4 = 3
    <2>1. /\ Apply(a, <<w, 0>>)[1] <= Apply(a, p)[1] /\ Apply(a, p)[1] <= Apply(a, <<0, h>>)[1]
          /\ Apply(a, <<w, 0>>)[2] <= Apply(a, p)[2] /\ Apply(a, p)[2] <= Apply(a, <<0, h>>)[2]
      BY <1>1, <1>2, <1>3, <1>7, ApplyMeans
    <2>2. QED
      BY <1>2, <2>1
  <1>8. QED
    BY <1>3, <1>4, <1>5, <1>6, <1>7

-----------------------------------------------------------------------------
(* Masks on the canvas. *)

\* The coordinates of a capture's corners.
Reaches(a, k) == {Apply(a, v)[k] : v \in Corners}

\* The moved corners' coordinates: a finite set of integers that is not empty.
LEMMA CornerSets ==
  ASSUME NEW a \in Pose, NEW k \in {1, 2}
  PROVE  /\ \A v \in Corners : Apply(a, v)[k] \in Reaches(a, k)
         /\ Reaches(a, k) \in SUBSET Int /\ IsFiniteSet(Reaches(a, k)) /\ Reaches(a, k) # {}
  <1> DEFINE f == [v \in Corners |-> Apply(a, v)[k]]
             X == Reaches(a, k)
  <1>1. X = {f[v] : v \in Corners}
    BY DEF Reaches
  <1>2. \A v \in Corners : f[v] = Apply(a, v)[k] /\ f[v] \in Int
    <2> TAKE v \in Corners
    <2>1. v \in Spot
      BY FrameFacts
    <2>2. Apply(a, v) \in Spot
      BY <2>1, ApplyMeans
    <2>3. QED
      BY <2>2 DEF Spot
  <1>3. DOMAIN f = Corners /\ f = [v \in Corners |-> f[v]]
    OBVIOUS
  <1> HIDE DEF f, X
  <1>4. IsFiniteSet(X)
    BY <1>1, <1>3, FrameFacts, FiniteImage
  <1>5. QED
    BY <1>1, <1>2, <1>4, FrameFacts DEF X

\* What a capture covers of the canvas is inside the part that is looked at
\* (fpc_clip_affine_warp_bounds).
LEMMA BoundsHold ==
  ASSUME NEW a \in Pose, NEW p \in Frame, Apply(a, p) \in CanvasPixels
  PROVE  Apply(a, p) \in Bounds(a)
  <1> DEFINE corners == {Apply(a, <<x, y>>) : x \in {0, MaskWidth - 1}, y \in {0, MaskHeight - 1}}
             X == {c[1] : c \in corners}
             Y == {c[2] : c \in corners}
             q == Apply(a, p)
  <1>1. PICK l, r, t, b \in Corners : /\ Apply(a, l)[1] <= q[1] /\ q[1] <= Apply(a, r)[1]
                                      /\ Apply(a, t)[2] <= q[2] /\ q[2] <= Apply(a, b)[2]
    BY CornersReach
  <1>2. X = Reaches(a, 1) /\ Y = Reaches(a, 2)
    <2>1. corners = {Apply(a, v) : v \in Corners}
      BY DEF Corners
    <2> HIDE DEF corners
    <2>2. QED
      BY <2>1 DEF Reaches
  <1>3. /\ Apply(a, l)[1] \in X /\ Apply(a, r)[1] \in X /\ X \in SUBSET Int /\ IsFiniteSet(X) /\ X # {}
        /\ Apply(a, t)[2] \in Y /\ Apply(a, b)[2] \in Y /\ Y \in SUBSET Int /\ IsFiniteSet(Y) /\ Y # {}
    <2> HIDE DEF X, Y
    <2>1. QED
      BY <1>2, CornerSets
  <1>4. q \in Spot /\ q[1] \in Int /\ q[2] \in Int /\ q = <<q[1], q[2]>>
    <2>1. q \in Spot
      BY FrameFacts, ApplyMeans
    <2>2. QED
      BY <2>1 DEF Spot
  <1>5. Bounds(a) = CanvasPixels \cap ((Min(X) .. Max(X) + 1) \X (Min(Y) .. Max(Y) + 1))
    BY DEF Bounds, Within
  <1> HIDE DEF X, Y, q
  <1>6. q[1] \in Min(X) .. Max(X) + 1
    <2>1. Min(X) \in Int /\ Max(X) \in Int /\ Min(X) <= Apply(a, l)[1] /\ Max(X) >= Apply(a, r)[1]
      BY <1>3, MinMaxExist
    <2>2. Apply(a, l)[1] \in Int /\ Apply(a, r)[1] \in Int
      BY <1>3
    <2>3. QED
      BY <1>1, <1>4, <2>1, <2>2
  <1>7. q[2] \in Min(Y) .. Max(Y) + 1
    <2>1. Min(Y) \in Int /\ Max(Y) \in Int /\ Min(Y) <= Apply(a, t)[2] /\ Max(Y) >= Apply(a, b)[2]
      BY <1>3, MinMaxExist
    <2>2. Apply(a, t)[2] \in Int /\ Apply(a, b)[2] \in Int
      BY <1>3
    <2>3. QED
      BY <1>1, <1>4, <2>1, <2>2
  <1>8. q \in CanvasPixels
    BY DEF q
  <1>9. QED
    BY <1>4, <1>5, <1>6, <1>7, <1>8 DEF q

\* The canvas is a finite set of spots with coordinates that are not negative.
LEMMA CanvasFacts ==
  /\ CanvasWidth \in Nat /\ CanvasHeight \in Nat
  /\ CanvasPixels \subseteq Spot /\ IsFiniteSet(CanvasPixels)
  /\ \A p \in CanvasPixels : p[1] < CanvasWidth /\ p[1] \in Nat /\ p[2] \in Nat
  <1>1. CanvasWidth \in Nat /\ CanvasHeight \in Nat
    BY PlacementAssumption
  <1>2. CanvasPixels \subseteq Spot /\ \A p \in CanvasPixels : p[1] < CanvasWidth /\ p[1] \in Nat /\ p[2] \in Nat
    BY <1>1 DEF CanvasPixels, Spot
  <1>3. IsFiniteSet(CanvasPixels)
    <2>1. IsFiniteSet(0 .. CanvasWidth - 1) /\ IsFiniteSet(0 .. CanvasHeight - 1)
      BY <1>1, FS_Interval
    <2>2. QED
      BY <2>1, FS_Product DEF CanvasPixels
  <1>4. QED
    BY <1>1, <1>2, <1>3

\* A warped mask, put where it was cut out, is what the pixels of the mask cover of
\* the canvas (fpc_warp_packed_mask, fpc_union_packed_mask).
LEMMA Warps ==
  ASSUME NEW a \in Pose, NEW mask \in SUBSET Frame
  PROVE  (IF Bounds(a) = {} THEN {} ELSE OnCanvasOf(mask, a, TopLeft(Bounds(a))))
           = {Apply(a, p) : p \in mask} \cap CanvasPixels
  <1> DEFINE B == Bounds(a)
             corner == TopLeft(B)
             asked == {q \in B : Apply(Opposite(a), q) \in mask}
             covered == {Apply(a, p) : p \in mask} \cap CanvasPixels
  <1>1. B \subseteq CanvasPixels /\ B \subseteq Spot
    BY CanvasFacts DEF Bounds, Within
  <1>2. asked = covered
    <2>1. ASSUME NEW q \in asked
          PROVE  q \in covered
      <3>1. q \in Spot /\ q \in CanvasPixels /\ Apply(Opposite(a), q) \in mask
        BY <1>1
      <3>2. Apply(a, Apply(Opposite(a), q)) = q
        BY <3>1, OppositeUndoes
      <3>3. QED
        BY <3>1, <3>2
    <2>2. ASSUME NEW q \in covered
          PROVE  q \in asked
      <3>1. PICK p \in mask : q = Apply(a, p) /\ q \in CanvasPixels
        OBVIOUS
      <3>2. p \in Frame /\ p \in Spot
        BY FrameFacts
      <3>3. q \in B
        BY <3>1, <3>2, BoundsHold
      <3>4. Apply(Opposite(a), q) = p
        BY <3>1, <3>2, OppositeUndoes
      <3>5. QED
        BY <3>1, <3>3, <3>4
    <2>3. QED
      BY <2>1, <2>2
  <1>3. CASE B = {}
    <2>1. asked = {}
      BY <1>3
    <2>2. QED
      BY <1>2, <1>3, <2>1
  <1>4. CASE B # {}
    <2>1. corner \in Spot
      <3> DEFINE X == {p[1] : p \in B}
                 Y == {p[2] : p \in B}
                 f == [p \in B |-> p[1]]
                 g == [p \in B |-> p[2]]
      <3>1. IsFiniteSet(B)
        BY <1>1, CanvasFacts, FS_Subset
      <3>2. X \in SUBSET Int /\ Y \in SUBSET Int /\ X # {} /\ Y # {}
        BY <1>1, <1>4 DEF Spot
      <3>3. IsFiniteSet(X) /\ IsFiniteSet(Y)
        <4>1. DOMAIN f = B /\ f = [p \in B |-> f[p]] /\ X = {f[p] : p \in B}
          OBVIOUS
        <4>2. DOMAIN g = B /\ g = [p \in B |-> g[p]] /\ Y = {g[p] : p \in B}
          OBVIOUS
        <4> HIDE DEF f, g, X, Y, B
        <4>3. IsFiniteSet(X)
          BY <3>1, <4>1, FiniteImage
        <4>4. IsFiniteSet(Y)
          BY <3>1, <4>2, FiniteImage
        <4>5. QED
          BY <4>3, <4>4
      <3>4. corner = <<Min(X), Min(Y)>>
        BY DEF TopLeft
      <3> HIDE DEF X, Y, B
      <3>5. Min(X) \in X /\ Min(Y) \in Y
        BY <3>2, <3>3, MinMaxExist
      <3>6. Min(X) \in Int /\ Min(Y) \in Int
        BY <3>2, <3>5
      <3> HIDE DEF corner
      <3>7. QED
        BY <3>4, <3>6 DEF Spot
    <2> HIDE DEF corner, B
    <2>2. OnCanvasOf(mask, a, corner) = {Plus(p, corner) : p \in {Plus(q, <<-corner[1], -corner[2]>>) : q \in asked}}
      BY DEF OnCanvasOf, Put, Warped, B
    <2>3. \A q \in asked : Plus(Plus(q, <<-corner[1], -corner[2]>>), corner) = q
      <3> TAKE q \in asked
      <3>1. q \in Spot
        BY <1>1
      <3>2. QED
        BY <2>1, <3>1 DEF Plus, Spot
    <2> HIDE DEF asked
    <2>4. OnCanvasOf(mask, a, corner) = {Plus(Plus(q, <<-corner[1], -corner[2]>>), corner) : q \in asked}
      BY <2>2
    <2>5. OnCanvasOf(mask, a, corner) = asked
      BY <2>3, <2>4
    <2>6. QED
      BY <1>2, <1>4, <2>5 DEF corner, B
  <1>5. QED
    BY <1>3, <1>4

Middle == <<(CanvasWidth - MaskWidth) \div 2, (CanvasHeight - MaskHeight) \div 2>>

\* A capture on the canvas, where the root of its group is in the middle
\* (fpc_capture_canvas_transform).
LEMMA CanvasMeans ==
  ASSUME NEW place, NEW i, NEW root, place[i] \in Pose, place[root] \in Pose
  PROVE  /\ OnCanvas(place, i, root) \in Pose
         /\ \A p \in Spot : Apply(OnCanvas(place, i, root), p)
                              = Plus(Apply(Compose(place[root], Opposite(place[i])), p), Middle)
  <1> DEFINE mid == [turn |-> 0, at |-> Middle]
             inner == Compose(place[root], Opposite(place[i]))
  <1>1. Middle \in Spot
    BY FrameFacts, CanvasFacts DEF Middle, Spot
  <1>2. mid \in Pose /\ inner \in Pose
    <2>1. mid \in Pose
      BY <1>1 DEF Pose
    <2>2. Opposite(place[i]) \in Pose
      BY <1>1, MotionsTyped
    <2>3. QED
      BY <1>1, <2>1, <2>2, MotionsTyped
  <1>3. OnCanvas(place, i, root) = Compose(mid, inner)
    BY DEF OnCanvas, Middle
  <1>4. OnCanvas(place, i, root) \in Pose
    BY <1>1, <1>2, <1>3, MotionsTyped
  <1>5. \A v \in Spot : Apply(mid, v) = Plus(v, Middle)
    <2> TAKE v \in Spot
    <2>1. Rotate(0, v) = v
      BY RotateMeans
    <2>2. Apply(mid, v) = Plus(Middle, v)
      BY <2>1 DEF Apply
    <2>3. QED
      BY <1>1, <2>2 DEF Plus, Spot
  <1> HIDE DEF mid, inner
  <1>6. ASSUME NEW p \in Spot
        PROVE  Apply(OnCanvas(place, i, root), p) = Plus(Apply(inner, p), Middle)
    <2>1. Apply(Compose(mid, inner), p) = Apply(mid, Apply(inner, p))
      BY <1>2, ApplyComposed
    <2>2. Apply(inner, p) \in Spot
      BY <1>2, MotionsTyped
    <2>3. QED
      BY <1>3, <1>5, <2>1, <2>2
  <1>7. QED
    BY <1>4, <1>6 DEF inner

-----------------------------------------------------------------------------
(* Bounds and areas of groups. *)

\* The coordinates that the pixels S of captures M are at.
Coordinates(place, M, S, k) == {Apply(Opposite(place[z[1]]), z[2])[k] : z \in M \X S}

\* Over a group, the extremes of the corners are the extremes of the whole frames.
LEMMA CornersEnd ==
  ASSUME NEW place, NEW M, IsFiniteSet(M), M # {}, \A i \in M : place[i] \in Pose, NEW k \in {1, 2}
  PROVE  LET X == Coordinates(place, M, Corners, k)
             all == Coordinates(place, M, Frame, k)
         IN  Min(all) = Min(X) /\ Max(all) = Max(X) /\ Min(X) \in Int /\ Max(X) \in Int
  <1> DEFINE X == Coordinates(place, M, Corners, k)
             all == Coordinates(place, M, Frame, k)
             f == [z \in M \X Corners |-> Apply(Opposite(place[z[1]]), z[2])[k]]
  <1>1. ASSUME NEW i \in M
        PROVE  Opposite(place[i]) \in Pose
    <2>1. Origin \in Spot /\ place[i] \in Pose
      BY DEF Origin, Spot
    <2>2. QED
      BY <2>1, MotionsTyped
  <1>2. \A i \in M : \A v \in Frame : Apply(Opposite(place[i]), v)[k] \in Int
    <2> TAKE i \in M
    <2> TAKE v \in Frame
    <2>1. v \in Spot /\ Opposite(place[i]) \in Pose
      BY <1>1, FrameFacts
    <2>2. Apply(Opposite(place[i]), v) \in Spot
      BY <2>1, ApplyMeans
    <2>3. QED
      BY <2>2 DEF Spot
  <1>3. X = {f[z] : z \in M \X Corners}
    BY DEF Coordinates
  <1>4. DOMAIN f = M \X Corners /\ f = [z \in M \X Corners |-> f[z]]
    OBVIOUS
  <1>5. IsFiniteSet(X)
    <2>1. IsFiniteSet(M \X Corners)
      BY FrameFacts, FS_Product
    <2> HIDE DEF f, X
    <2>2. QED
      BY <1>3, <1>4, <2>1, FiniteImage
  <1>6. X \in SUBSET Int /\ all \in SUBSET Int /\ X \subseteq all /\ X # {}
    <2>1. ASSUME NEW z \in M \X Frame
          PROVE  Apply(Opposite(place[z[1]]), z[2])[k] \in Int
      <3>1. z[1] \in M /\ z[2] \in Frame
        OBVIOUS
      <3>2. QED
        BY <1>2, <3>1
    <2>2. all \in SUBSET Int
      BY <2>1 DEF Coordinates
    <2>3. M \X Corners \subseteq M \X Frame /\ M \X Corners # {}
      <3>1. Corners \subseteq Frame
        BY FrameFacts
      <3>2. PICK i \in M, v \in Corners : TRUE
        BY FrameFacts
      <3>3. <<i, v>> \in M \X Corners
        OBVIOUS
      <3>4. QED
        BY <3>1, <3>3
    <2>4. X \subseteq all /\ X # {}
      BY <2>3 DEF Coordinates
    <2>5. QED
      BY <2>2, <2>4
  <1>7. ASSUME NEW t \in all
        PROVE  \E a, b \in X : a <= t /\ t <= b
    <2>1. PICK i \in M, p \in Frame : t = Apply(Opposite(place[i]), p)[k]
      <3>1. PICK z \in M \X Frame : t = Apply(Opposite(place[z[1]]), z[2])[k]
        BY Zenon DEF Coordinates
      <3>2. z[1] \in M /\ z[2] \in Frame
        OBVIOUS
      <3>3. QED
        BY <3>1, <3>2
    <2> DEFINE o == Opposite(place[i])
    <2>2. o \in Pose /\ \A v \in Corners : Apply(o, v)[k] \in X
      <3>1. ASSUME NEW v \in Corners
            PROVE  Apply(o, v)[k] \in X
        <4>1. <<i, v>> \in M \X Corners
          OBVIOUS
        <4>2. Apply(Opposite(place[<<i, v>>[1]]), <<i, v>>[2])[k] \in X
          BY <4>1, Zenon DEF Coordinates
        <4>3. <<i, v>>[1] = i /\ <<i, v>>[2] = v
          OBVIOUS
        <4> HIDE DEF X
        <4>4. QED
          BY <4>2, <4>3, Zenon
      <3>2. QED
        BY <1>1, <3>1
    <2> HIDE DEF o, X, all
    <2>3. \E l, r, u, b \in Corners :
            /\ Apply(o, l)[1] <= Apply(o, p)[1] /\ Apply(o, p)[1] <= Apply(o, r)[1]
            /\ Apply(o, u)[2] <= Apply(o, p)[2] /\ Apply(o, p)[2] <= Apply(o, b)[2]
      BY <2>2, CornersReach
    <2>4. CASE k = 1
      BY <2>1, <2>2, <2>3, <2>4 DEF o
    <2>5. CASE k = 2
      BY <2>1, <2>2, <2>3, <2>5 DEF o
    <2>6. QED
      BY <2>4, <2>5
  <1> HIDE DEF X, all
  <1>8. Min(all) = Min(X) /\ Max(all) = Max(X) /\ Min(X) \in Int /\ Max(X) \in Int
    BY <1>5, <1>6, <1>7, SameEnds
  <1>9. QED
    BY <1>8 DEF X, all

\* The bounds of a group hold all of it, and no more (fpc_capture_group_bounds).
LEMMA GroupBoundsHold ==
  ASSUME NEW groups, NEW g, NEW place, IsFiniteSet(Members(groups, g)), Members(groups, g) # {},
         \A i \in Members(groups, g) : place[i] \in Pose
  PROVE  BoundsSound(GroupBounds(groups, place, g), UNION {Everywhere(place[i]) : i \in Members(groups, g)})
  <1> DEFINE M == Members(groups, g)
             corners == {Apply(Opposite(place[i]), <<x, y>>) :
                           i \in M, x \in {0, MaskWidth - 1}, y \in {0, MaskHeight - 1}}
             X(k) == Coordinates(place, M, Corners, k)
             all == UNION {Everywhere(place[i]) : i \in M}
             b == GroupBounds(groups, place, g)
  <1>1. corners = {Apply(Opposite(place[z[1]]), z[2]) : z \in M \X Corners}
    <2>1. ASSUME NEW q \in corners
          PROVE  \E z \in M \X Corners : q = Apply(Opposite(place[z[1]]), z[2])
      <3>1. PICK i \in M, x \in {0, MaskWidth - 1}, y \in {0, MaskHeight - 1} : q = Apply(Opposite(place[i]), <<x, y>>)
        OBVIOUS
      <3>2. <<i, <<x, y>> >> \in M \X Corners
        BY DEF Corners
      <3>3. QED
        BY <3>1, <3>2
    <2>2. ASSUME NEW z \in M \X Corners
          PROVE  Apply(Opposite(place[z[1]]), z[2]) \in corners
      <3>1. z[1] \in M /\ z[2] = <<z[2][1], z[2][2]>> /\ z[2][1] \in {0, MaskWidth - 1} /\ z[2][2] \in {0, MaskHeight - 1}
        BY DEF Corners
      <3>2. QED
        BY <3>1
    <2> HIDE DEF corners, M
    <2>3. QED
      BY <2>1, <2>2
  <1>2. {c[1] : c \in corners} = X(1) /\ {c[2] : c \in corners} = X(2)
    <2> HIDE DEF corners, M
    <2>1. QED
      BY <1>1 DEF Coordinates
  <1>3. all = {Apply(Opposite(place[z[1]]), z[2]) : z \in M \X Frame}
    <2>1. ASSUME NEW q \in all
          PROVE  \E z \in M \X Frame : q = Apply(Opposite(place[z[1]]), z[2])
      <3>1. PICK i \in M : q \in Everywhere(place[i])
        OBVIOUS
      <3>2. PICK x \in 0 .. MaskWidth - 1, y \in 0 .. MaskHeight - 1 : q = Apply(Opposite(place[i]), <<x, y>>)
        BY <3>1 DEF Everywhere
      <3>3. <<i, <<x, y>> >> \in M \X Frame
        BY DEF Frame
      <3>4. QED
        BY <3>2, <3>3
    <2>2. ASSUME NEW z \in M \X Frame
          PROVE  Apply(Opposite(place[z[1]]), z[2]) \in all
      <3>1. z[1] \in M /\ z[2][1] \in 0 .. MaskWidth - 1 /\ z[2][2] \in 0 .. MaskHeight - 1 /\ z[2] = <<z[2][1], z[2][2]>>
        BY DEF Frame
      <3>2. Apply(Opposite(place[z[1]]), z[2]) \in Everywhere(place[z[1]])
        BY <3>1 DEF Everywhere
      <3>3. QED
        BY <3>1, <3>2
    <2> HIDE DEF all, M
    <2>3. QED
      BY <2>1, <2>2
  <1>4. {p[1] : p \in all} = Coordinates(place, M, Frame, 1) /\ {p[2] : p \in all} = Coordinates(place, M, Frame, 2)
    <2> HIDE DEF all, M
    <2>1. QED
      BY <1>3 DEF Coordinates
  <1>5. b = [x |-> Min({c[1] : c \in corners}), y |-> Min({c[2] : c \in corners}),
             width |-> Max({c[1] : c \in corners}) - Min({c[1] : c \in corners}) + 1,
             height |-> Max({c[2] : c \in corners}) - Min({c[2] : c \in corners}) + 1]
    BY DEF GroupBounds
  <1>6. \A k \in {1, 2} : /\ Min(Coordinates(place, M, Frame, k)) = Min(X(k))
                          /\ Max(Coordinates(place, M, Frame, k)) = Max(X(k))
                          /\ Min(X(k)) \in Int /\ Max(X(k)) \in Int
    BY CornersEnd
  <1> HIDE DEF corners, X, M, all, b
  <1>7. b = [x |-> Min(X(1)), y |-> Min(X(2)),
             width |-> Max(X(1)) - Min(X(1)) + 1, height |-> Max(X(2)) - Min(X(2)) + 1]
    BY <1>2, <1>5
  <1>8. b.x = Min(X(1)) /\ b.x + b.width - 1 = Max(X(1)) /\ b.y = Min(X(2)) /\ b.y + b.height - 1 = Max(X(2))
    BY <1>6, <1>7
  <1>9. BoundsSound(b, all)
    BY <1>4, <1>6, <1>8 DEF BoundsSound
  <1>10. QED
    BY <1>9 DEF b, all, M

\* What a group covers of the canvas, for captures that lie at their places
\* (fpc_build_group_mask_union).
LEMMA GroupMaskMeans ==
  ASSUME NEW masks, NEW groups, NEW roots, NEW place, NEW g, place[roots[g]] \in Pose,
         \A i \in Members(groups, g) : place[i] \in Pose /\ masks[i] \subseteq Frame
  PROVE  GroupMask(masks, groups, roots, place, g)
           = (UNION {{Plus(Apply(Compose(place[roots[g]], Opposite(place[i])), p), Middle) : p \in masks[i]} :
                       i \in Members(groups, g)}) \cap CanvasPixels
  <1> DEFINE M == Members(groups, g)
             r == roots[g]
             Part(i) == LET to == OnCanvas(place, i, r)
                        IN  IF Bounds(to) = {} THEN {} ELSE OnCanvasOf(masks[i], to, TopLeft(Bounds(to)))
             Cover(i) == {Plus(Apply(Compose(place[r], Opposite(place[i])), p), Middle) : p \in masks[i]}
  <1>1. GroupMask(masks, groups, roots, place, g) = UNION {Part(i) : i \in M}
    BY DEF GroupMask
  <1>2. ASSUME NEW i \in M
        PROVE  Part(i) = Cover(i) \cap CanvasPixels
    <2> DEFINE to == OnCanvas(place, i, r)
    <2>1. place[i] \in Pose /\ place[r] \in Pose /\ masks[i] \in SUBSET Frame
      OBVIOUS
    <2>2. to \in Pose /\ \A p \in Spot : Apply(to, p) = Plus(Apply(Compose(place[r], Opposite(place[i])), p), Middle)
      BY <2>1, CanvasMeans
    <2>3. Part(i) = {Apply(to, p) : p \in masks[i]} \cap CanvasPixels
      <3> HIDE DEF to
      <3>1. (IF Bounds(to) = {} THEN {} ELSE OnCanvasOf(masks[i], to, TopLeft(Bounds(to))))
              = {Apply(to, p) : p \in masks[i]} \cap CanvasPixels
        BY <2>1, <2>2, Warps
      <3>2. QED
        BY <3>1 DEF to
    <2>4. \A p \in masks[i] : Apply(to, p) = Plus(Apply(Compose(place[r], Opposite(place[i])), p), Middle)
      BY <2>1, <2>2, FrameFacts
    <2> HIDE DEF to
    <2>5. {Apply(to, p) : p \in masks[i]} = Cover(i)
      BY <2>4
    <2>6. QED
      BY <2>3, <2>5
  <1> HIDE DEF Part, Cover, M
  <1>3. UNION {Part(i) : i \in M} = (UNION {Cover(i) : i \in M}) \cap CanvasPixels
    BY <1>2
  <1>4. QED
    BY <1>1, <1>3 DEF M, Cover, r

\* Counting a mask on the canvas row by row gives the number of its pixels.
LEMMA CountOnCanvas ==
  ASSUME NEW mask \in SUBSET CanvasPixels
  PROVE  CountMask(mask) = Cardinality(mask)
  <1>1. {p \in mask : p[1] < CanvasWidth} = mask
    BY CanvasFacts
  <1>2. QED
    BY <1>1 DEF CountMask

\* Which root a group has depends on the reference; it is one of the group
\* (fpc_rebuild_capture_groups).
LEMMA RebuiltRoots ==
  ASSUME NEW n, NEW link, Links(link, n), NEW D, Indices(n) \subseteq D, NEW st, st.roots \in [D -> Int]
  PROVE  LET made == Grouping(link, n, st.roots)
             new  == RebuildGroups(link, n, st)
         IN  /\ new.groups = made.groups /\ new.count = made.group + 1 /\ made.group \in Int
             /\ made.groups \in [Indices(n) -> -1 .. made.group]
             /\ \A h \in 0 .. made.group : /\ made.roots[h] \in Indices(n) /\ made.groups[made.roots[h]] = h
                                           /\ new.roots[h] \in Indices(n) /\ made.groups[new.roots[h]] = h
  <1> DEFINE made == Grouping(link, n, st.roots)
             sel  == Select(made, st)
             new  == RebuildGroups(link, n, st)
             To(g, i) == [selected |-> g, reference |-> i, roots |-> [made.roots EXCEPT ![g] = i]]
             large    == {g \in 0 .. made.group : Cardinality(Members(made.groups, g)) >= MinGroup}
             home == Home(made, st)
  <1>1. Grouped(link, n, made.groups, made.group, made.roots) /\ made.roots \in [D -> Int]
    BY GroupsAreComponents
  <1>2. /\ new.groups = made.groups /\ new.count = made.group + 1 /\ new.roots = sel.roots
    BY DEF RebuildGroups
  <1>3. sel = IF st.selected # -1
              THEN IF home >= 0 THEN To(home, st.reference) ELSE To(0, made.roots[0])
              ELSE IF large # {} THEN To(Max(large), made.roots[Max(large)])
              ELSE [selected |-> -1, reference |-> st.reference, roots |-> made.roots]
    BY DEF Select
  <1>4. home = IF st.reference \in DOMAIN made.groups THEN made.groups[st.reference] ELSE -1
    BY DEF Home
  <1> HIDE DEF made, sel, new, home
  <1>5. /\ made.group \in -1 .. n - 1 /\ n \in Nat /\ made.groups \in [Indices(n) -> -1 .. made.group]
        /\ \A h \in 0 .. made.group : made.roots[h] \in Indices(n) /\ made.groups[made.roots[h]] = h
    BY <1>1 DEF Grouped, Links
  <1>6. 0 .. made.group \subseteq D
    <2>1. 0 .. made.group \subseteq Indices(n)
      BY <1>5 DEF Indices
    <2>2. QED
      BY <2>1
  <1>7. ASSUME NEW g, NEW i, sel = To(g, i), g \in 0 .. made.group => i \in Indices(n) /\ made.groups[i] = g,
               NEW h \in 0 .. made.group
        PROVE  sel.roots[h] \in Indices(n) /\ made.groups[sel.roots[h]] = h
    <2>1. sel.roots = [made.roots EXCEPT ![g] = i] /\ h \in D
      BY <1>6, <1>7
    <2>2. CASE h = g
      <3>1. sel.roots[h] = i
        BY <1>1, <2>1, <2>2
      <3>2. QED
        BY <1>7, <2>2, <3>1
    <2>3. CASE h # g
      <3>1. sel.roots[h] = made.roots[h]
        BY <1>1, <2>1, <2>3
      <3>2. QED
        BY <1>5, <3>1
    <2>4. QED
      BY <2>2, <2>3
  <1> HIDE DEF large
  <1>8. ASSUME NEW h \in 0 .. made.group
        PROVE  sel.roots[h] \in Indices(n) /\ made.groups[sel.roots[h]] = h
    <2>1. CASE st.selected # -1 /\ home >= 0
      <3>1. st.reference \in Indices(n) /\ made.groups[st.reference] = home
        BY <1>4, <1>5, <2>1
      <3>2. QED
        BY <1>3, <1>7, <2>1, <3>1
    <2>2. CASE st.selected # -1 /\ ~(home >= 0)
      <3>1. sel = To(0, made.roots[0])
        BY <1>3, <2>2
      <3>2. 0 \in 0 .. made.group => made.roots[0] \in Indices(n) /\ made.groups[made.roots[0]] = 0
        BY <1>5
      <3>3. QED
        BY <1>7, <3>1, <3>2
    <2>3. CASE st.selected = -1 /\ large # {}
      <3>1. sel = To(Max(large), made.roots[Max(large)])
        BY <1>3, <2>3
      <3>2. Max(large) \in 0 .. made.group =>
              made.roots[Max(large)] \in Indices(n) /\ made.groups[made.roots[Max(large)]] = Max(large)
        BY <1>5
      <3>3. QED
        BY <1>7, <3>1, <3>2
    <2>4. CASE st.selected = -1 /\ large = {}
      BY <1>3, <1>5, <2>4
    <2>5. QED
      BY <2>1, <2>2, <2>3, <2>4
  <1>9. QED
    BY <1>2, <1>5, <1>8 DEF made, new

\* What fpc_rebuild_capture_groups, fpc_weighted_group_transform,
\* fpc_build_group_mask_union, fpc_capture_group_bounds and
\* fpc_compute_enrollment_metrics promise, for every number of captures, every
\* layout, all matches that agree with it, all masks and every size of the canvas.
THEOREM PlacementsAreSound ==
  ASSUME NEW n, NEW link, NEW motion, NEW layout, Agreeing(link, motion, n, layout),
         NEW reference, NEW masks, \A i \in Indices(n) : masks[i] \subseteq Frame, NEW percent
  PROVE  PlacementsSound(link, motion, n, reference, layout, masks, percent)
  <1> DEFINE none  == [g \in Indices(n) |-> 0]
             st    == [selected |-> IF reference < 0 THEN -1 ELSE 0, reference |-> reference, roots |-> none]
             state == RebuildGroups(link, n, st)
             made  == Grouping(link, n, none)
             place == PlaceCaptures(link, motion, n)
             lone  == {i \in Indices(n) : state.groups[i] = -1}
             lies  == [i \in Indices(n) \ lone |->
                         Compose(Opposite(layout[made.roots[state.groups[i]]]), layout[i])]
             Covers(i, to) == {Plus(Apply(to, p), <<(CanvasWidth - MaskWidth) \div 2,
                                                    (CanvasHeight - MaskHeight) \div 2>>) : p \in masks[i]}
             Seen(g, root) == UNION {Covers(i, Compose(lies[root], Opposite(lies[i]))) :
                                       i \in Members(state.groups, g)}
             Group == 0 .. state.count - 1
  <1>1. none \in [Indices(n) -> Int] /\ Links(link, n) /\ n \in Nat /\ st.roots = none
    BY DEF Agreeing, Links
  <1>2. \A i \in Indices(n) : layout[i] \in Pose
    BY DEF Agreeing
  <1> HIDE DEF none
  <1>3. /\ state.groups = made.groups /\ state.count = made.group + 1 /\ made.group \in Int
        /\ made.groups \in [Indices(n) -> -1 .. made.group]
        /\ \A h \in 0 .. made.group : /\ made.roots[h] \in Indices(n) /\ made.groups[made.roots[h]] = h
                                      /\ state.roots[h] \in Indices(n) /\ made.groups[state.roots[h]] = h
    <2> HIDE DEF st
    <2>1. st.roots \in [Indices(n) -> Int] /\ Indices(n) \subseteq Indices(n)
      BY <1>1
    <2>2. QED
      BY <1>1, <2>1, RebuiltRoots
  <1>4. place = LyingIn(layout, n, made)
    BY <1>1, PlacedAsLaid
  <1> HIDE DEF state, made, place, st
  <1>5. ASSUME NEW i \in Indices(n) \ lone
        PROVE  place[i] = lies[i] /\ place[i] \in Pose
    <2>1. made.groups[i] \in 0 .. made.group /\ i \in Indices(n)
      BY <1>3
    <2>2. place[i] = SeenFrom(layout, made.roots[made.groups[i]], i)
      BY <1>3, <1>4, <2>1 DEF LyingIn
    <2>3. place[i] = lies[i]
      BY <1>3, <2>2 DEF SeenFrom
    <2>4. layout[made.roots[made.groups[i]]] \in Pose /\ layout[i] \in Pose
      BY <1>2, <1>3, <2>1
    <2>5. SeenFrom(layout, made.roots[made.groups[i]], i) \in Pose
      <3>1. Origin \in Spot
        BY DEF Origin, Spot
      <3>2. Opposite(layout[made.roots[made.groups[i]]]) \in Pose
        BY <2>4, <3>1, MotionsTyped
      <3>3. QED
        BY <2>4, <3>1, <3>2, MotionsTyped DEF SeenFrom
    <2>6. QED
      BY <2>2, <2>3, <2>5
  <1> HIDE DEF lies
  <1>6. ASSUME NEW g \in Group
        PROVE  /\ Members(state.groups, g) \subseteq Indices(n) \ lone
               /\ state.roots[g] \in Indices(n) \ lone /\ state.roots[g] \in Members(state.groups, g)
    <2>1. g \in 0 .. made.group
      BY <1>3
    <2>2. state.roots[g] \in Indices(n) /\ state.groups[state.roots[g]] = g
      BY <1>3, <2>1
    <2>3. g # -1
      BY <2>1
    <2>4. QED
      BY <1>3, <2>2, <2>3 DEF Members
  <1> HIDE DEF Group, lone
  <1>7. ASSUME NEW g \in Group
        PROVE  GroupMask(masks, state.groups, state.roots, place, g) = Seen(g, state.roots[g]) \cap CanvasPixels
    <2> DEFINE M == Members(state.groups, g)
               r == state.roots[g]
    <2>1. r \in Indices(n) \ lone /\ M \subseteq Indices(n) \ lone
      BY <1>6
    <2>2. place[r] \in Pose /\ place[r] = lies[r]
          /\ \A i \in M : place[i] \in Pose /\ place[i] = lies[i] /\ masks[i] \subseteq Frame
      BY <1>5, <2>1
    <2>3. GroupMask(masks, state.groups, state.roots, place, g)
            = (UNION {{Plus(Apply(Compose(place[r], Opposite(place[i])), p), Middle) : p \in masks[i]} : i \in M})
                \cap CanvasPixels
      BY <2>2, GroupMaskMeans
    <2>4. \A i \in M : {Plus(Apply(Compose(place[r], Opposite(place[i])), p), Middle) : p \in masks[i]}
                         = Covers(i, Compose(lies[r], Opposite(lies[i])))
      BY <2>2 DEF Middle
    <2> HIDE DEF M, r, Covers
    <2>5. {{Plus(Apply(Compose(place[r], Opposite(place[i])), p), Middle) : p \in masks[i]} : i \in M}
            = {Covers(i, Compose(lies[r], Opposite(lies[i]))) : i \in M}
      BY <2>4
    <2>6. Seen(g, r) = UNION {Covers(i, Compose(lies[r], Opposite(lies[i]))) : i \in M}
      BY DEF M
    <2>7. QED
      BY <2>3, <2>5, <2>6 DEF r
  <1> HIDE DEF Seen
  <1>8. [g \in Group |-> CountMask(GroupMask(masks, state.groups, state.roots, place, g))]
          = [g \in Group |-> Cardinality(Seen(g, state.roots[g]) \cap CanvasPixels)]
    <2>1. \A g \in Group : CountMask(GroupMask(masks, state.groups, state.roots, place, g))
                             = Cardinality(Seen(g, state.roots[g]) \cap CanvasPixels)
      <3> TAKE g \in Group
      <3> DEFINE m == Seen(g, state.roots[g]) \cap CanvasPixels
      <3>1. m \in SUBSET CanvasPixels
        OBVIOUS
      <3> HIDE DEF m
      <3>2. CountMask(m) = Cardinality(m)
        BY <3>1, CountOnCanvas
      <3>3. QED
        BY <1>7, <3>2 DEF m
    <2>2. QED
      BY <2>1
  <1>9. {i \in DOMAIN state.groups : state.groups[i] < 0} = lone
    <2>1. DOMAIN state.groups = Indices(n) /\ \A i \in Indices(n) : state.groups[i] < 0 <=> state.groups[i] = -1
      BY <1>3
    <2>2. QED
      BY <2>1 DEF lone
  <1>10. Area(masks, percent, state, place) =
           200 * SumFunction([g \in Group |-> Cardinality(Seen(g, state.roots[g]) \cap CanvasPixels)])
           + SumFunction([i \in lone |-> percent[i] * MaskWidth * MaskHeight])
    BY <1>8, <1>9, Zenon DEF Area, Group
  <1>11. ASSUME NEW g \in Group
         PROVE  BoundsSound(GroupBounds(state.groups, place, g),
                            UNION {Everywhere(place[i]) : i \in Members(state.groups, g)})
    <2>1. Members(state.groups, g) \subseteq Indices(n) /\ Members(state.groups, g) # {}
          /\ \A i \in Members(state.groups, g) : place[i] \in Pose
      BY <1>5, <1>6
    <2>2. IsFiniteSet(Indices(n))
      BY <1>1, FS_Interval DEF Indices
    <2>3. IsFiniteSet(Members(state.groups, g))
      BY <2>1, <2>2, FS_Subset
    <2>4. QED
      BY <2>1, <2>3, GroupBoundsHold
  <1>12. Laid(link, motion, n, state, made, masks, percent, layout, place)
    BY <1>5, <1>10, <1>11, Zenon DEF Laid, lone, lies, Seen, Group
  <1>13. QED
    BY <1>12, Zenon DEF PlacementsSound, state, made, place, st, none

-----------------------------------------------------------------------------
(* Movement and change are means. *)

\* The pairs of the last four captures, the last one at -1.
Weights(n) == [p \in LastPairs(n) |-> p[1] + p[2] + 8]

\* The pairs of last samples that a group of two, of three and of more is measured on.
LEMMA LastPairsAre ==
  ASSUME NEW n \in Nat, n >= 2
  PROVE  /\ n = 2 => LastPairs(n) = {<< -2, -1>>}
         /\ n = 3 => LastPairs(n) = {<< -2, -1>>, << -3, -1>>, << -3, -2>>}
         /\ n > 3 => LastPairs(n) = {<< -2, -1>>, << -3, -1>>, << -3, -2>>, << -4, -1>>, << -4, -2>>, << -4, -3>>}
  <1>1. \A p : p \in LastPairs(n) <=>
          \/ p = << -2, -1>>
          \/ n >= 3 /\ p \in {<< -3, -1>>, << -3, -2>>}
          \/ n >= 4 /\ p \in {<< -4, -1>>, << -4, -2>>, << -4, -3>>}
    <2>1. (-4) .. -2 = {-4, -3, -2} /\ (-3) .. -1 = {-3, -2, -1}
      OBVIOUS
    <2>2. \A p \in LastPairs(n) : p = <<p[1], p[2]>> /\ p[1] \in {-4, -3, -2} /\ p[2] \in {-3, -2, -1} /\ p[1] < p[2] /\ p[1] >= -n
      BY <2>1 DEF LastPairs
    <2>3. \A a \in {-4, -3, -2} : \A b \in {-3, -2, -1} : a < b /\ a >= -n => <<a, b>> \in LastPairs(n)
      BY <2>1 DEF LastPairs
    <2>4. QED
      BY <2>2, <2>3
  <1>2. CASE n = 2
    BY <1>1, <1>2
  <1>3. CASE n = 3
    BY <1>1, <1>3
  <1>4. CASE n > 3
    <2>1. n >= 3 /\ n >= 4
      BY <1>4
    <2>2. QED
      BY <1>1, <1>4, <2>1
  <1>5. QED
    BY <1>2, <1>3, <1>4

Divisor(n) == CASE n = 2 -> 5 [] n = 3 -> 12 [] OTHER -> 18

\* The weights of those pairs add up to the divisor that the code divides by.
LEMMA WeightsSum ==
  ASSUME NEW n \in Nat, n >= 2
  PROVE  /\ SumFunctionOnSet(Weights(n), LastPairs(n)) = Divisor(n) /\ IsFiniteSet(LastPairs(n)) /\ LastPairs(n) # {}
         /\ \A p \in LastPairs(n) : /\ p[1] \in Int /\ p[2] \in Int /\ p[1] < p[2] /\ p[2] <= -1 /\ p[1] >= -4
                                    /\ p[1] >= -n /\ p[1] + p[2] + 8 \in Nat /\ Weights(n)[p] = p[1] + p[2] + 8
  <1> DEFINE w == Weights(n)
             a == << -2, -1>>
             b == << -3, -1>>
             c == << -3, -2>>
             d == << -4, -1>>
             e == << -4, -2>>
             f == << -4, -3>>
             Sum(S) == SumFunctionOnSet(w, S)
  <1>1. /\ n = 2 => LastPairs(n) = {a}
        /\ n = 3 => LastPairs(n) = {a, b, c}
        /\ n > 3 => LastPairs(n) = {a, b, c, d, e, f}
    BY LastPairsAre
  <1>2. n = 2 \/ n = 3 \/ n > 3
    OBVIOUS
  <1>3. \A p \in LastPairs(n) : /\ p[1] \in Int /\ p[2] \in Int /\ p[1] < p[2] /\ p[2] <= -1 /\ p[1] >= -4
                                /\ p[1] >= -n /\ p[1] + p[2] + 8 \in Nat /\ w[p] = p[1] + p[2] + 8
    <2>1. \A p \in LastPairs(n) : /\ p[1] \in -4 .. -2 /\ p[2] \in -3 .. -1 /\ p[1] < p[2] /\ p[1] >= -n
                                  /\ w[p] = p[1] + p[2] + 8
      BY DEF LastPairs, Weights
    <2> HIDE DEF w
    <2>2. QED
      BY <2>1
  <1>4. a[1] + a[2] + 8 = 5 /\ b[1] + b[2] + 8 = 4 /\ c[1] + c[2] + 8 = 3
        /\ d[1] + d[2] + 8 = 3 /\ e[1] + e[2] + 8 = 2 /\ f[1] + f[2] + 8 = 1
    OBVIOUS
  <1>5. /\ a # b /\ a # c /\ a # d /\ a # e /\ a # f /\ b # c /\ b # d /\ b # e /\ b # f
        /\ c # d /\ c # e /\ c # f /\ d # e /\ d # f /\ e # f
    OBVIOUS
  <1> HIDE DEF w, a, b, c, d, e, f
  <1>6. Sum({}) = 0 /\ IsFiniteSet({})
    BY FS_EmptySet, SumSplits
  <1>7. ASSUME NEW S, IsFiniteSet(S), NEW x, x \notin S, \A y \in S \cup {x} : w[y] \in Int
        PROVE  Sum(S \cup {x}) = w[x] + Sum(S) /\ Sum(S) \in Int /\ IsFiniteSet(S \cup {x})
    BY <1>7, SumMore
  <1>8. CASE n = 2
    <2>1. w[a] = 5
      BY <1>1, <1>3, <1>4, <1>8
    <2>2. {} \cup {a} = {a} /\ a \notin {} /\ \A y \in {} \cup {a} : w[y] \in Int
      BY <2>1
    <2>3. Sum({a}) = 5 /\ IsFiniteSet({a})
      BY <1>6, <1>7, <2>1, <2>2
    <2>4. QED
      BY <1>1, <1>3, <1>8, <2>3 DEF Divisor, w
  <1>9. CASE n # 2
    <2>1. {a, b, c} \subseteq LastPairs(n)
      BY <1>1, <1>2, <1>9
    <2>2. w[a] = 5 /\ w[b] = 4 /\ w[c] = 3
      BY <1>3, <1>4, <2>1
    <2>3. Sum({a}) = 5 /\ IsFiniteSet({a})
      <3>1. {} \cup {a} = {a} /\ a \notin {} /\ \A y \in {} \cup {a} : w[y] \in Int
        BY <2>2
      <3>2. QED
        BY <1>6, <1>7, <2>2, <3>1
    <2>4. Sum({a, b}) = 9 /\ IsFiniteSet({a, b})
      <3>1. {a} \cup {b} = {a, b} /\ b \notin {a} /\ \A y \in {a} \cup {b} : w[y] \in Int
        BY <1>5, <2>2
      <3>2. Sum({a} \cup {b}) = w[b] + Sum({a}) /\ IsFiniteSet({a} \cup {b})
        BY <1>7, <2>2, <2>3, <3>1
      <3>3. QED
        BY <2>2, <2>3, <3>1, <3>2
    <2>5. Sum({a, b, c}) = 12 /\ IsFiniteSet({a, b, c})
      <3>1. {a, b} \cup {c} = {a, b, c} /\ c \notin {a, b} /\ \A y \in {a, b} \cup {c} : w[y] \in Int
        BY <1>5, <2>2
      <3>2. Sum({a, b} \cup {c}) = w[c] + Sum({a, b}) /\ IsFiniteSet({a, b} \cup {c})
        BY <1>7, <2>2, <2>4, <3>1
      <3>3. QED
        BY <2>2, <2>4, <3>1, <3>2
    <2>6. CASE n = 3
      BY <1>1, <1>3, <2>5, <2>6 DEF Divisor, w
    <2>7. CASE n > 3
      <3>1. LastPairs(n) = {a, b, c, d, e, f}
        BY <1>1, <2>7
      <3>2. w[d] = 3 /\ w[e] = 2 /\ w[f] = 1
        BY <1>3, <1>4, <3>1
      <3>3. Sum({a, b, c, d}) = 15 /\ IsFiniteSet({a, b, c, d})
        <4>1. {a, b, c} \cup {d} = {a, b, c, d} /\ d \notin {a, b, c} /\ \A y \in {a, b, c} \cup {d} : w[y] \in Int
          BY <1>5, <2>2, <3>2
        <4>2. Sum({a, b, c} \cup {d}) = w[d] + Sum({a, b, c}) /\ IsFiniteSet({a, b, c} \cup {d})
          BY <1>7, <2>5, <3>2, <4>1
        <4>3. QED
          BY <2>5, <3>2, <4>1, <4>2
      <3>4. Sum({a, b, c, d, e}) = 17 /\ IsFiniteSet({a, b, c, d, e})
        <4>1. {a, b, c, d} \cup {e} = {a, b, c, d, e} /\ e \notin {a, b, c, d}
              /\ \A y \in {a, b, c, d} \cup {e} : w[y] \in Int
          BY <1>5, <2>2, <3>2
        <4>2. Sum({a, b, c, d} \cup {e}) = w[e] + Sum({a, b, c, d}) /\ IsFiniteSet({a, b, c, d} \cup {e})
          BY <1>7, <3>2, <3>3, <4>1
        <4>3. QED
          BY <3>2, <3>3, <4>1, <4>2
      <3>5. Sum({a, b, c, d, e, f}) = 18 /\ IsFiniteSet({a, b, c, d, e, f})
        <4>1. {a, b, c, d, e} \cup {f} = {a, b, c, d, e, f} /\ f \notin {a, b, c, d, e}
              /\ \A y \in {a, b, c, d, e} \cup {f} : w[y] \in Int
          BY <1>5, <2>2, <3>2
        <4>2. Sum({a, b, c, d, e} \cup {f}) = w[f] + Sum({a, b, c, d, e}) /\ IsFiniteSet({a, b, c, d, e} \cup {f})
          BY <1>7, <3>2, <3>4, <4>1
        <4>3. QED
          BY <3>2, <3>4, <4>1, <4>2
      <3>6. Divisor(n) = 18
        BY <2>7 DEF Divisor
      <3>7. QED
        BY <1>3, <3>1, <3>5, <3>6 DEF w
    <2>8. QED
      BY <1>2, <1>9, <2>6, <2>7
  <1>10. QED
    BY <1>8, <1>9

\* Movement is between the least and the greatest length (fpc_update_enrollment_metrics).
LEMMA MotionBetween ==
  ASSUME NEW n \in Nat, n >= 2, NEW moved, NEW lo \in Int, NEW hi \in Int,
         NEW Length, \A p \in LastPairs(n) : /\ Length[p] \in Int /\ lo <= Length[p] /\ Length[p] <= hi
                                             /\ Length[p] = IF moved[<<n + p[1], n + p[2]>>] < 0 THEN Diagonal
                                                            ELSE moved[<<n + p[1], n + p[2]>>]
  PROVE  Motion(moved, n) \in lo .. hi
  <1> DEFINE S == LastPairs(n)
             w == Weights(n)
             Len1(p) == LET m == moved[<<n + p[1], n + p[2]>>] IN IF m < 0 THEN Diagonal ELSE m
             g == [p \in S |-> (p[1] + p[2] + 8) * Len1(p)]
             d == Divisor(n)
  <1>1. SumFunctionOnSet(w, S) = d /\ IsFiniteSet(S)
        /\ \A p \in S : p[1] + p[2] + 8 \in Nat /\ w[p] = p[1] + p[2] + 8
    BY WeightsSum
  <1>2. \A p \in S : w[p] \in Nat /\ g[p] = w[p] * Length[p]
    BY <1>1
  <1>3. Motion(moved, n) = SumFunction(g) \div d
    BY DEF Motion, Divisor
  <1>4. SumFunction(g) = SumFunctionOnSet(g, S)
    BY DEF SumFunction
  <1> HIDE DEF S, w, g
  <1>5. SumFunctionOnSet(g, S) \in Int /\ lo * d <= SumFunctionOnSet(g, S) /\ SumFunctionOnSet(g, S) <= hi * d
    <2>1. IsFiniteSet(S) /\ lo \in Int /\ hi \in Int /\ \A p \in S : w[p] \in Nat
      BY <1>1, <1>2
    <2>2. \A p \in S : Length[p] \in Int /\ lo <= Length[p] /\ Length[p] <= hi
      BY DEF S
    <2>3. \A p \in S : g[p] = w[p] * Length[p]
      BY <1>2
    <2>4. /\ SumFunctionOnSet(g, S) \in Int
          /\ lo * SumFunctionOnSet(w, S) <= SumFunctionOnSet(g, S)
          /\ SumFunctionOnSet(g, S) <= hi * SumFunctionOnSet(w, S)
      BY ONLY <2>1, <2>2, <2>3, SumBetween
    <2>5. QED
      BY <1>1, <2>4
  <1>6. d \in Nat /\ d > 0
    BY DEF Divisor
  <1> HIDE DEF d
  <1>7. SumFunctionOnSet(g, S) \div d \in lo .. hi
    BY <1>5, <1>6, QuotientBetween
  <1>8. QED
    BY <1>3, <1>4, <1>7

\* A mean of changes is between the least and the greatest of them.
LEMMA ChangeBetween ==
  ASSUME NEW n \in Nat, n >= 2, NEW areas \in [Indices(n) -> Int], NEW lo \in Int, NEW hi \in Int,
         \A i \in Indices(n) : i > 0 /\ i >= n - 3 =>
           lo <= Distance1(areas[i], areas[i - 1]) /\ Distance1(areas[i], areas[i - 1]) <= hi
  PROVE  Change(areas).sum <= Change(areas).over * hi /\ Change(areas).sum >= Change(areas).over * lo
  <1> DEFINE Step(k) == Distance1(areas[n - k], areas[n - k - 1])
  <1>1. Cardinality(DOMAIN areas) = n
    <2>1. DOMAIN areas = 0 .. n - 1 /\ ~(0 > n - 1) /\ (n - 1) - 0 + 1 = n /\ n - 1 \in Int
      BY DEF Indices
    <2>2. QED
      BY <2>1, FS_Interval
  <1>2. Change(areas) = CASE n < 2 -> [sum |-> 0, over |-> 1]
                          [] n = 2 -> [sum |-> 100 * Step(1), over |-> 100]
                          [] n = 3 -> [sum |-> 100 * Step(1) + 67 * Step(2), over |-> 167]
                          [] n > 3 -> [sum |-> 100 * Step(1) + 67 * Step(2) + 33 * Step(3), over |-> 200]
    BY <1>1 DEF Change
  <1>3. ASSUME NEW k \in 1 .. 3, k < n
        PROVE  Step(k) \in Int /\ lo <= Step(k) /\ Step(k) <= hi
    <2>1. n - k \in Indices(n) /\ n - k - 1 \in Indices(n) /\ n - k > 0 /\ n - k >= n - 3
      BY <1>3 DEF Indices
    <2>2. areas[n - k] \in Int /\ areas[n - k - 1] \in Int
      BY <2>1
    <2>3. lo <= Distance1(areas[n - k], areas[n - k - 1]) /\ Distance1(areas[n - k], areas[n - k - 1]) <= hi
      BY <2>1
    <2>4. Step(k) \in Int
      BY <2>2 DEF Distance1
    <2>5. QED
      BY <2>3, <2>4
  <1> HIDE DEF Step
  <1>4. CASE n = 2
    <2>1. Change(areas).sum = 100 * Step(1) /\ Change(areas).over = 100
      BY <1>2, <1>4
    <2>2. Step(1) \in Int /\ lo <= Step(1) /\ Step(1) <= hi
      BY <1>3, <1>4
    <2>3. QED
      BY <2>1, <2>2
  <1>5. CASE n = 3
    <2>1. Change(areas).sum = 100 * Step(1) + 67 * Step(2) /\ Change(areas).over = 167
      BY <1>2, <1>5
    <2>2. Step(1) \in Int /\ lo <= Step(1) /\ Step(1) <= hi /\ Step(2) \in Int /\ lo <= Step(2) /\ Step(2) <= hi
      BY <1>3, <1>5
    <2>3. QED
      BY <2>1, <2>2
  <1>6. CASE n > 3
    <2>1. Change(areas).sum = 100 * Step(1) + 67 * Step(2) + 33 * Step(3) /\ Change(areas).over = 200
      BY <1>2, <1>6
    <2>2. /\ Step(1) \in Int /\ lo <= Step(1) /\ Step(1) <= hi /\ Step(2) \in Int /\ lo <= Step(2) /\ Step(2) <= hi
          /\ Step(3) \in Int /\ lo <= Step(3) /\ Step(3) <= hi
      BY <1>3, <1>6
    <2>3. QED
      BY <2>1, <2>2
  <1>7. QED
    BY <1>4, <1>5, <1>6

\* fpc_update_enrollment_metrics, for every number of captures, all areas and all
\* movements.
THEOREM MetricsAreSound ==
  ASSUME NEW n \in Nat, NEW areas \in [Indices(n) -> Int],
         NEW moved, \A p \in Indices(n) \X Indices(n) : moved[p] \in Int
  PROVE  MetricsSound(areas, moved, n)
  <1> DEFINE recent == {i \in Indices(n) : i >= n - 4}
             Pairs2 == {q \in recent \X recent : q[1] < q[2]}
             Far(p) == IF moved[p] < 0 THEN Diagonal ELSE moved[p]
             lengths == {Far(p) : p \in Pairs2}
             Late   == {j \in recent : j > 0 /\ j >= n - 3}
             Step(i) == Distance1(areas[i], areas[i - 1])
             steps == {Step(i) : i \in Late}
  <1> SUFFICES ASSUME n >= 2
               PROVE  /\ Motion(moved, n) \in Min(lengths) .. Max(lengths)
                      /\ \A v \in Min(lengths) .. Max(lengths) : Cardinality(lengths) = 1 => Motion(moved, n) = v
                      /\ Change(areas).sum <= Change(areas).over * Max(steps)
                      /\ Change(areas).sum >= Change(areas).over * Min(steps)
    BY DEF MetricsSound
  <1>1. Indices(n) \subseteq Int /\ IsFiniteSet(Indices(n)) /\ n - 1 \in Indices(n) /\ n - 2 \in Indices(n)
    <2>1. Indices(n) \subseteq Int /\ n - 1 \in Indices(n) /\ n - 2 \in Indices(n)
      BY DEF Indices
    <2>2. IsFiniteSet(Indices(n))
      BY FS_Interval DEF Indices
    <2>3. QED
      BY <2>1, <2>2
  <1>2. recent \subseteq Indices(n) /\ IsFiniteSet(recent) /\ n - 1 \in recent /\ n - 2 \in recent
    <2>1. n - 1 \in recent /\ n - 2 \in recent
      BY <1>1
    <2>2. recent \subseteq Indices(n)
      OBVIOUS
    <2>3. QED
      BY <1>1, <2>1, <2>2, FS_Subset
  <1>3. Pairs2 \subseteq Indices(n) \X Indices(n) /\ IsFiniteSet(Pairs2) /\ <<n - 2, n - 1>> \in Pairs2
    <2> HIDE DEF recent
    <2>1. IsFiniteSet(recent \X recent)
      BY <1>2, FS_Product
    <2>2. Pairs2 \subseteq recent \X recent /\ <<n - 2, n - 1>> \in Pairs2
      BY <1>2
    <2>3. QED
      BY <1>2, <2>1, <2>2, FS_Subset
  <1>4. \A p \in Indices(n) \X Indices(n) : Far(p) \in Int
    BY PlacementAssumption
  <1>5. lengths \in SUBSET Int /\ IsFiniteSet(lengths) /\ lengths # {}
    <2> DEFINE f == [p \in Pairs2 |-> Far(p)]
    <2>1. DOMAIN f = Pairs2 /\ f = [p \in Pairs2 |-> f[p]] /\ lengths = {f[p] : p \in Pairs2}
      OBVIOUS
    <2>2. lengths \in SUBSET Int /\ lengths # {}
      BY <1>3, <1>4
    <2> HIDE DEF f, lengths, Pairs2
    <2>3. IsFiniteSet(lengths)
      BY <1>3, <2>1, FiniteImage
    <2>4. QED
      BY <2>2, <2>3
  <1>6. /\ Min(lengths) \in lengths /\ \A x \in lengths : Min(lengths) <= x
        /\ Max(lengths) \in lengths /\ \A x \in lengths : Max(lengths) >= x
        /\ Min(lengths) \in Int /\ Max(lengths) \in Int
    <2> HIDE DEF lengths
    <2>1. QED
      BY <1>5, MinMaxExist
  <1>7. Motion(moved, n) \in Min(lengths) .. Max(lengths)
    <2> DEFINE Length == [p \in LastPairs(n) |-> Far(<<n + p[1], n + p[2]>>)]
               lo == Min(lengths)
               hi == Max(lengths)
    <2>1. ASSUME NEW p \in LastPairs(n)
          PROVE  Far(<<n + p[1], n + p[2]>>) \in lengths
      <3>1. p[1] \in Int /\ p[2] \in Int /\ p[1] < p[2] /\ p[2] <= -1 /\ p[1] >= -4 /\ p[1] >= -n
        BY WeightsSum
      <3>2. n + p[1] \in recent /\ n + p[2] \in recent /\ n + p[1] < n + p[2]
        <4>1. n \in Nat
          OBVIOUS
        <4>2. /\ n + p[1] \in 0 .. n - 1 /\ n + p[1] >= n - 4
              /\ n + p[2] \in 0 .. n - 1 /\ n + p[2] >= n - 4 /\ n + p[1] < n + p[2]
          BY ONLY <3>1, <4>1
        <4>3. QED
          BY <4>2 DEF Indices
      <3>3. <<n + p[1], n + p[2]>> \in Pairs2
        <4> HIDE DEF recent
        <4>1. QED
          BY <3>2
      <3>4. QED
        BY <3>3
    <2> HIDE DEF lengths
    <2>2. \A p \in LastPairs(n) : /\ Length[p] \in Int /\ lo <= Length[p] /\ Length[p] <= hi
                                  /\ Length[p] = IF moved[<<n + p[1], n + p[2]>>] < 0 THEN Diagonal
                                                 ELSE moved[<<n + p[1], n + p[2]>>]
      BY <1>5, <1>6, <2>1
    <2>3. lo \in Int /\ hi \in Int /\ n \in Nat /\ n >= 2
      BY <1>6
    <2> HIDE DEF Length, lo, hi
    <2>4. Motion(moved, n) \in lo .. hi
      BY ONLY <2>2, <2>3, MotionBetween
    <2>5. QED
      BY <2>4 DEF lo, hi
  <1>8. ASSUME NEW v \in Min(lengths) .. Max(lengths), Cardinality(lengths) = 1
        PROVE  Motion(moved, n) = v
    <2> HIDE DEF lengths
    <2>1. PICK m : lengths = {m}
      BY <1>5, <1>8, FS_Singleton
    <2>2. Min(lengths) = Max(lengths)
      BY <1>6, <2>1
    <2>3. QED
      BY <1>6, <1>7, <1>8, <2>2
  <1>9. steps \in SUBSET Int /\ IsFiniteSet(steps) /\ steps # {}
    <2> DEFINE f == [i \in Late |-> Step(i)]
    <2>1. DOMAIN f = Late /\ f = [i \in Late |-> f[i]] /\ steps = {f[i] : i \in Late}
      OBVIOUS
    <2>2. IsFiniteSet(Late)
      <3> HIDE DEF recent
      <3>1. Late \subseteq recent
        OBVIOUS
      <3>2. QED
        BY <1>2, <3>1, FS_Subset
    <2>3. n - 1 \in Late
      BY <1>1, <1>2
    <2>4. ASSUME NEW i \in Late
          PROVE  Step(i) \in Int
      <3>1. i \in Indices(n) /\ i - 1 \in Indices(n)
        BY DEF Indices
      <3>2. areas[i] \in Int /\ areas[i - 1] \in Int
        BY <3>1
      <3>3. QED
        BY <3>2 DEF Distance1
    <2> HIDE DEF Late, Step
    <2>5. steps \in SUBSET Int /\ steps # {}
      BY <2>3, <2>4
    <2> HIDE DEF f, steps
    <2>6. IsFiniteSet(steps)
      BY <2>1, <2>2, FiniteImage
    <2>7. QED
      BY <2>5, <2>6
  <1>10. Change(areas).sum <= Change(areas).over * Max(steps) /\ Change(areas).sum >= Change(areas).over * Min(steps)
    <2>1. ASSUME NEW i \in Indices(n), i > 0, i >= n - 3
          PROVE  Step(i) \in steps
      <3>1. i \in Late
        BY <2>1, <1>1
      <3>2. QED
        BY <3>1
    <2> HIDE DEF steps
    <2>2. Min(steps) \in Int /\ Max(steps) \in Int /\ \A x \in steps : Min(steps) <= x /\ x <= Max(steps)
      <3>1. /\ Min(steps) \in steps /\ \A x \in steps : Min(steps) <= x
            /\ Max(steps) \in steps /\ \A x \in steps : Max(steps) >= x
        BY <1>9, MinMaxExist
      <3>2. QED
        BY <1>9, <3>1
    <2>3. \A i \in Indices(n) : i > 0 /\ i >= n - 3 =>
             Min(steps) <= Distance1(areas[i], areas[i - 1]) /\ Distance1(areas[i], areas[i - 1]) <= Max(steps)
      BY <2>1, <2>2
    <2> DEFINE lo == Min(steps)
               hi == Max(steps)
    <2>4. lo \in Int /\ hi \in Int /\ n \in Nat /\ n >= 2 /\ areas \in [Indices(n) -> Int]
      BY <2>2
    <2>5. \A i \in Indices(n) : i > 0 /\ i >= n - 3 =>
             lo <= Distance1(areas[i], areas[i - 1]) /\ Distance1(areas[i], areas[i - 1]) <= hi
      BY <2>3
    <2> HIDE DEF lo, hi
    <2>6. Change(areas).sum <= Change(areas).over * hi /\ Change(areas).sum >= Change(areas).over * lo
      BY ONLY <2>4, <2>5, ChangeBetween
    <2>7. QED
      BY <2>6 DEF lo, hi
  <1>11. QED
    BY <1>7, <1>8, <1>10

\* The matches taken from a layout agree with it, as the placement's theorem requires.
LEMMA LayoutsAgree ==
  ASSUME NEW S \in Matches4, NEW layout \in [Indices(4) -> Pose]
  PROVE  /\ Agreeing(LinkTable(S), Agreed(S, layout), 4, layout)
         /\ \A i \in Indices(4) : Masks[i] \subseteq Frame
  <1> DEFINE link == LinkTable(S)
  <1>1. \A i \in Indices(4) : i \in Int /\ i \in {0, 1, 2, 3}
    BY DEF Indices
  <1>2. ASSUME NEW i \in Indices(4), NEW j \in Indices(4)
        PROVE  /\ link[<<i, j>>] \in Nat /\ link[<<i, j>>] = link[<<j, i>>]
               /\ i < j /\ link[<<i, j>>] > 0 => <<i, j>> \in S
    <2>1. link[<<i, j>>] = IF <<i, j>> \in S \/ <<j, i>> \in S THEN 1 + ((i + j) % 2) ELSE 0
      BY DEF LinkTable
    <2>2. link[<<j, i>>] = IF <<j, i>> \in S \/ <<i, j>> \in S THEN 1 + ((j + i) % 2) ELSE 0
      BY DEF LinkTable
    <2>3. i + j = j + i /\ 1 + ((i + j) % 2) \in Nat
      BY <1>1
    <2>4. i < j => <<j, i>> \notin S
      BY <1>1 DEF Matches4
    <2> HIDE DEF link
    <2>5. QED
      BY <2>1, <2>2, <2>3, <2>4
  <1>3. Links(link, 4)
    <2> HIDE DEF link
    <2>1. QED
      BY <1>2 DEF Links
  <1>4. ASSUME NEW i \in Indices(4), NEW j \in Indices(4), i < j, link[<<i, j>>] > 0
        PROVE  Agreed(S, layout)[<<i, j>>] = Compose(Opposite(layout[i]), layout[j])
    BY <1>2, <1>4 DEF Agreed
  <1>5. ASSUME NEW i \in Indices(4)
        PROVE  Masks[i] \subseteq Frame
    <2> DEFINE all == CASE i \in {0, 3} -> (0 .. 1) \X (0 .. 3) [] i = 1 -> (0 .. 3) \X (0 .. 1)
                        [] i = 2 -> {<<1, 1>>, <<3, 2>>}
    <2>1. \A p \in all : p = <<p[1], p[2]>> /\ p[1] \in Nat /\ p[2] \in Nat
      BY <1>1
    <2>2. Masks[i] = {p \in all : p[1] < MaskWidth /\ p[2] < MaskHeight}
      BY DEF Masks
    <2> HIDE DEF all
    <2>3. QED
      BY <2>1, <2>2, FrameFacts DEF Frame
  <1>6. QED
    BY <1>3, <1>4, <1>5 DEF Agreeing

\* Captures lie where their matches put them, and area and movement are those of
\* the captures there, for masks and a canvas of every size
\* (fpc_compute_enrollment_metrics, fpc_update_enrollment_metrics).
THEOREM LayoutSoundHolds == LayoutSpec => []LayoutSound
  <1>1. LayoutInit => LayoutSound
    BY DEF LayoutInit, ToTake, LayoutSound, Is
  <1>2. ASSUME LayoutSound, [LayoutNext]_work
        PROVE  LayoutSound'
    <2>1. CASE UNCHANGED work
      BY <1>2, <2>1 DEF LayoutSound, Is
    <2>2. CASE TakeLayout
      <3>1. PICK S \in Matches4, a \in Poses, b \in Poses, ref \in {-1, 2},
                 c \in {[turn |-> 0, at |-> <<2, 1>>], [turn |-> -1, at |-> <<-2, 1>>]} :
              work' = [of |-> "layout", matched |-> S, reference |-> ref,
                       layout |-> [i \in Indices(4) |-> CASE i = 0 -> Unmoved [] i = 1 -> a
                                                          [] i = 2 -> b [] i = 3 -> c]]
        BY <2>2 DEF TakeLayout
      <3> DEFINE layout == [i \in Indices(4) |-> CASE i = 0 -> Unmoved [] i = 1 -> a [] i = 2 -> b [] i = 3 -> c]
      <3>2. a \in Pose /\ b \in Pose /\ c \in Pose /\ Unmoved \in Pose
        BY DEF Poses, Pose, Spot, Unmoved
      <3>3. layout \in [Indices(4) -> Pose]
        BY <3>2 DEF Indices
      <3>4. work'.of = "layout" /\ work'.matched = S /\ work'.reference = ref /\ work'.layout = layout
        BY <3>1
      <3> HIDE DEF layout
      <3>5. PlacementsSound(LinkTable(S), Agreed(S, layout), 4, ref, layout, Masks, [i \in Indices(4) |-> 10 * i])
        BY <3>3, LayoutsAgree, PlacementsAreSound
      <3>6. QED
        BY <3>4, <3>5 DEF LayoutSound, Is
    <2>3. CASE TakeMetrics
      <3>0. PICK n \in 2 .. 5 : \E areas \in [Indices(n) -> {2, 9}], far \in [Indices(n) -> {-1, 0, 5}] :
              work' = [of |-> "metrics", n |-> n, areas |-> areas, far |-> far]
        BY <2>3 DEF TakeMetrics
      <3>1. PICK areas \in [Indices(n) -> {2, 9}], far \in [Indices(n) -> {-1, 0, 5}] :
              work' = [of |-> "metrics", n |-> n, areas |-> areas, far |-> far]
        BY <3>0
      <3>2. n \in Nat /\ areas \in [Indices(n) -> Int]
        OBVIOUS
      <3>3. \A p \in Indices(n) \X Indices(n) : MovedTo(n, far)[p] \in Int
        BY DEF MovedTo
      <3>4. MetricsSound(areas, MovedTo(n, far), n)
        BY <3>2, <3>3, MetricsAreSound
      <3>5. work'.of = "metrics" /\ work'.n = n /\ work'.areas = areas /\ work'.far = far
        BY <3>1
      <3>6. QED
        BY <3>4, <3>5 DEF LayoutSound, Is
    <2>4. QED
      BY <1>2, <2>1, <2>2, <2>3 DEF LayoutNext
  <1>3. QED
    BY <1>1, <1>2, PTL DEF LayoutSpec

-----------------------------------------------------------------------------
(* Pairs of features. *)

\* Features with a place and two half descriptors.
Described(f) ==
  /\ IsFiniteSet(DOMAIN f) /\ DOMAIN f \subseteq Nat
  /\ \A i \in DOMAIN f : /\ f[i] = [at |-> f[i].at, low |-> f[i].low, high |-> f[i].high]
                         /\ f[i].at \in Spot
                         /\ IsFiniteSet(f[i].low) /\ IsFiniteSet(f[i].high)

Halves(a) == IsFiniteSet(a.low) /\ IsFiniteSet(a.high)

\* Half descriptors differ in a number of bits.
LEMMA BitsCount ==
  ASSUME NEW a, NEW b, IsFiniteSet(a), IsFiniteSet(b)
  PROVE  Bits(a, b) \in Nat
  <1>1. IsFiniteSet(a \ b) /\ IsFiniteSet(b \ a)
    BY FS_Difference
  <1>2. IsFiniteSet((a \ b) \cup (b \ a))
    BY <1>1, FS_Union
  <1>3. QED
    BY <1>2, FS_CardinalityType DEF Bits

\* So do descriptors, and it does not matter which half of one comes first
\* (fpc_descriptor_distance128).
LEMMA DistanceCounts ==
  ASSUME NEW a, NEW b, Halves(a), Halves(b)
  PROVE  /\ Distance(a, b) \in Nat
         /\ \A c : c.low = b.high /\ c.high = b.low => Distance(a, c) = Distance(a, b)
  <1>1. /\ Bits(a.low, b.low) \in Nat /\ Bits(a.high, b.high) \in Nat
        /\ Bits(a.low, b.high) \in Nat /\ Bits(a.high, b.low) \in Nat
    BY BitsCount DEF Halves
  <1>2. QED
    BY <1>1 DEF Distance

\* The first of the nearest is one of them (fpc_mutual_candidates).
LEMMA NearestIs ==
  ASSUME NEW of \in SUBSET Nat, of # {}, NEW gap, \A k \in of : gap[k] \in Nat
  PROVE  Nearest(of, gap) \in of /\ \A l \in of : gap[Nearest(of, gap)] <= gap[l]
  <1> DEFINE T == {gap[k] : k \in of}
             M == {k \in of : \A l \in of : gap[k] <= gap[l]}
  <1>1. PICK v \in T : \A w \in T : v <= w
    <2>1. T \in SUBSET Nat /\ T # {}
      OBVIOUS
    <2> HIDE DEF T
    <2>2. QED
      BY <2>1, LeastElement
  <1>2. M # {} /\ M \in SUBSET Nat
    <2>1. PICK k \in of : v = gap[k]
      BY <1>1
    <2>2. \A l \in of : gap[k] <= gap[l]
      BY <1>1, <2>1
    <2>3. k \in M
      BY <2>2
    <2>4. QED
      BY <2>3
  <1>3. PICK i \in M : \A j \in M : i <= j
    <2> HIDE DEF M
    <2>1. QED
      BY <1>2, LeastElement
  <1>4. First(M) = {i}
    <2>1. \A k \in First(M) : k = i
      BY <1>2, <1>3 DEF First
    <2>2. i \in First(M)
      BY <1>3 DEF First
    <2>3. QED
      BY <2>1, <2>2
  <1>5. i \in of /\ First(M) = {i}
    BY <1>3, <1>4
  <1>6. Nearest(of, gap) \in of /\ First(M) = {Nearest(of, gap)}
    BY <1>5 DEF Nearest
  <1>7. Nearest(of, gap) \in M
    BY <1>6 DEF First
  <1>8. QED
    BY <1>7

\* What fpc_mutual_candidates promises, for all features.
THEOREM CandidatesAreSound ==
  ASSUME NEW f, NEW g, Described(f), Described(g)
  PROVE  CandidatesSound(f, g)
  <1> DEFINE C == Candidates(f, g)
             D == DOMAIN f
             E == DOMAIN g
             Away(p) == [j \in E |-> Distance(f[p[1]], g[j])]
             To(p)   == [i \in D |-> Distance(f[i], g[p[2]])]
             Swapped == [j \in E |-> [g[j] EXCEPT !.low = g[j].high, !.high = g[j].low]]
  <1>1. \A i \in D, j \in E : Halves(f[i]) /\ Halves(g[j])
    BY DEF Described, Halves
  <1>2. \A i \in D, j \in E : Distance(f[i], g[j]) \in Nat
    BY <1>1, DistanceCounts
  <1>3. ASSUME NEW p \in C
        PROVE  /\ p[1] \in D /\ p[2] \in E
               /\ p[2] = Nearest(E, Away(p)) /\ p[1] = Nearest(D, To(p))
    BY DEF Candidates
  <1>4. ASSUME NEW p \in C, NEW q \in C
        PROVE  p[1] = q[1] <=> p[2] = q[2]
    <2>1. p[1] = q[1] => Away(p) = Away(q)
      OBVIOUS
    <2>2. p[2] = q[2] => To(p) = To(q)
      OBVIOUS
    <2> HIDE DEF Away, To, C, D, E
    <2>3. QED
      BY <1>3, <2>1, <2>2
  <1>5. ASSUME NEW p \in C, NEW i \in D, NEW j \in E
        PROVE  /\ Distance(f[p[1]], g[p[2]]) <= Distance(f[i], g[p[2]])
               /\ Distance(f[p[1]], g[p[2]]) <= Distance(f[p[1]], g[j])
    <2>1. D \in SUBSET Nat /\ E \in SUBSET Nat
      BY DEF Described
    <2>2. p[1] \in D /\ p[2] \in E /\ p[2] = Nearest(E, Away(p)) /\ p[1] = Nearest(D, To(p))
      <3> HIDE DEF Away, To, C, D, E
      <3>1. QED
        BY <1>3
    <2>3. (\A k \in E : Away(p)[k] \in Nat) /\ (\A k \in D : To(p)[k] \in Nat)
      BY <1>2, <2>2
    <2>4. \A l \in E : Away(p)[Nearest(E, Away(p))] <= Away(p)[l]
      <3> HIDE DEF Away, E
      <3>1. QED
        BY <2>1, <2>2, <2>3, NearestIs
    <2>5. \A l \in D : To(p)[Nearest(D, To(p))] <= To(p)[l]
      <3> HIDE DEF To, D
      <3>1. QED
        BY <2>1, <2>2, <2>3, NearestIs
    <2>6. Away(p)[p[2]] <= Away(p)[j] /\ To(p)[p[1]] <= To(p)[i]
      <3> HIDE DEF Away, To, D, E
      <3>1. QED
        BY <2>2, <2>4, <2>5
    <2>7. QED
      BY <2>2, <2>6
  <1>6. Candidates(f, Swapped) = C
    <2>1. DOMAIN Swapped = E
      OBVIOUS
    <2>2. ASSUME NEW i \in D, NEW j \in E
          PROVE  Distance(f[i], Swapped[j]) = Distance(f[i], g[j])
      <3>1. g[j] = [at |-> g[j].at, low |-> g[j].low, high |-> g[j].high]
        BY DEF Described
      <3>2. Swapped[j] = [g[j] EXCEPT !.low = g[j].high, !.high = g[j].low]
        OBVIOUS
      <3> HIDE DEF Swapped
      <3>3. Swapped[j].low = g[j].high /\ Swapped[j].high = g[j].low
        BY <3>1, <3>2
      <3>4. QED
        BY <1>1, <3>3, DistanceCounts
    <2> HIDE DEF Swapped
    <2>3. ASSUME NEW p \in D \X E
          PROVE  /\ Distance(f[p[1]], Swapped[p[2]]) = Distance(f[p[1]], g[p[2]])
                 /\ [j \in E |-> Distance(f[p[1]], Swapped[j])] = Away(p)
                 /\ [i \in D |-> Distance(f[i], Swapped[p[2]])] = To(p)
      BY <2>2
    <2> HIDE DEF D, E
    <2>4. \A p \in D \X E : p \in Candidates(f, Swapped) <=> p \in C
      BY <2>1, <2>3 DEF Candidates, D, E
    <2>5. Candidates(f, Swapped) \subseteq D \X E /\ C \subseteq D \X E
      BY <2>1 DEF Candidates, D, E
    <2>6. QED
      BY <2>4, <2>5
  <1>7. QED
    BY <1>4, <1>5, <1>6 DEF CandidatesSound

-----------------------------------------------------------------------------
(* The search for a motion. *)

\* The iterations, one after the other.
IsSearch(w, points, sample) ==
  w = [i \in 0 .. MostIterations |->
         IF i = 0 THEN Started ELSE Iterate(points, sample, w[i - 1], i - 1)]

\* The samples among the first n that were valid were tried, and the best of their
\* motions is known.
Tested(points, sample, n, s) ==
  /\ s.best > 0 => s.best = Cardinality(Carried(points, s.motion))
  /\ \A i \in 0 .. n - 1 :
       Valid(One(points, sample, i), Other(points, sample, i)) =>
         Cardinality(Carried(points, Fit(One(points, sample, i), Other(points, sample, i)))) <= s.best

\* There are as many iterations as a limit may allow.
LEMMA EnoughIterations ==
  /\ MostIterations \in Nat /\ FirstLimit \in 0 .. MostIterations
  /\ \A b \in DOMAIN Quota : Quota[b] \in 0 .. MostIterations
  <1> DEFINE S == Range(Quota) \cup {FirstLimit}
  <1>1. FirstLimit \in Nat
    BY MatchingAssumption
  <1>2. Range(Quota) = {Quota[b] : b \in DOMAIN Quota} /\ IsFiniteSet(DOMAIN Quota)
    BY MatchingAssumption DEF Range
  <1>3. IsFiniteSet(Range(Quota))
    <2> DEFINE F == [b \in DOMAIN Quota |-> Quota[b]]
    <2>1. Range(Quota) = {F[b] : b \in DOMAIN Quota}
      BY <1>2
    <2>2. DOMAIN F = DOMAIN Quota /\ F = [b \in DOMAIN Quota |-> F[b]]
      OBVIOUS
    <2> HIDE DEF F
    <2>3. QED
      BY <1>2, <2>1, <2>2, FiniteImage
  <1>4. IsFiniteSet(S)
    BY <1>3, FS_Singleton, FS_Union
  <1>5. \A v \in S : v \in Nat
    BY <1>1, <1>2, MatchingAssumption
  <1>6. S # {} /\ S \in SUBSET Int
    BY <1>5
  <1>7. Max(S) \in S /\ \A x \in S : Max(S) >= x
    <2> HIDE DEF S
    <2>1. QED
      BY <1>4, <1>6, MinMaxExist
  <1>8. MostIterations = Max(S)
    BY DEF MostIterations
  <1> HIDE DEF S
  <1>9. MostIterations \in Nat /\ \A x \in S : x \in 0 .. MostIterations
    BY <1>5, <1>7, <1>8
  <1>10. QED
    BY <1>2, <1>9 DEF S

\* A bucket has a quota.
LEMMA BucketHasQuota ==
  ASSUME NEW k, NEW n
  PROVE  Bucket(k, n) \in DOMAIN Quota
  <1>1. IsFiniteSet(DOMAIN Quota) /\ DOMAIN Quota # {} /\ DOMAIN Quota \in SUBSET Int
    BY MatchingAssumption
  <1>2. Max(DOMAIN Quota) \in DOMAIN Quota
    BY <1>1, MinMaxExist
  <1>3. QED
    BY <1>2 DEF Bucket

\* What an iteration may leave.
Searching(points, sample) ==
  [best : Nat,
   motion : {NoMotion} \cup {Fit(One(points, sample, i), Other(points, sample, i)) : i \in 0 .. MostIterations},
   limit : 0 .. MostIterations, accepted : Int, progress : Int]

\* What a motion carries along can be counted.
LEMMA CarriedCounted ==
  ASSUME NEW points, IsFiniteSet(DOMAIN points), NEW t
  PROVE  /\ Carried(points, t) \subseteq DOMAIN points /\ IsFiniteSet(Carried(points, t))
         /\ Cardinality(Carried(points, t)) \in Nat
         /\ Cardinality(Carried(points, t)) <= Cardinality(DOMAIN points)
  <1>1. Carried(points, t) \subseteq DOMAIN points
    BY DEF Carried
  <1>2. QED
    BY <1>1, FS_Subset, FS_CardinalityType

\* An iteration keeps the types of what the search knows.
LEMMA IterateStays ==
  ASSUME NEW points, IsFiniteSet(DOMAIN points), NEW sample, NEW i \in 0 .. MostIterations - 1,
         NEW s \in Searching(points, sample)
  PROVE  Iterate(points, sample, s, i) \in Searching(points, sample)
  <1> DEFINE a == One(points, sample, i)
             b == Other(points, sample, i)
             m == Fit(a, b)
             k == Cardinality(Carried(points, m))
             paid == [s EXCEPT !.progress = @ + Pace]
             more == [paid EXCEPT !.accepted = @ + Unit]
             q == Quota[Bucket(k, Cardinality(DOMAIN points))]
  <1>1. MostIterations \in Nat /\ i \in 0 .. MostIterations /\ Unit \in Int /\ Pace \in Int
    <2>1. Unit \in Int /\ Pace \in Int
      BY MatchingAssumption
    <2>2. QED
      BY <2>1, EnoughIterations
  <1>2. paid \in Searching(points, sample)
    BY <1>1 DEF Searching
  <1>3. more \in Searching(points, sample)
    <2> HIDE DEF paid
    <2>1. QED
      BY <1>1, <1>2 DEF Searching
  <1>4. k \in Nat /\ q \in 0 .. MostIterations
    BY CarriedCounted, BucketHasQuota, EnoughIterations
  <1>5. m \in {NoMotion} \cup {Fit(One(points, sample, j), Other(points, sample, j)) : j \in 0 .. MostIterations}
    BY <1>1
  <1>6. Iterate(points, sample, s, i) =
          IF i >= s.limit THEN s
          ELSE IF ~Valid(a, b) THEN paid
          ELSE IF i > FirstLimit /\ more.accepted < s.progress THEN [more EXCEPT !.limit = i]
          ELSE IF k > more.best THEN [more EXCEPT !.best = k, !.motion = m, !.limit = q] ELSE more
    BY DEF Iterate, Try
  <1> HIDE DEF paid, more, m, k, q
  <1>7. [more EXCEPT !.limit = i] \in Searching(points, sample)
    BY <1>1, <1>3 DEF Searching
  <1>8. [more EXCEPT !.best = k, !.motion = m, !.limit = q] \in Searching(points, sample)
    BY <1>3, <1>4, <1>5 DEF Searching
  <1>9. QED
    BY <1>2, <1>3, <1>6, <1>7, <1>8

\* An iteration below the limit tries a valid sample, unless the budget is used up
\* (fpc_verify_geometry_profile300).
LEMMA IterateMeans ==
  ASSUME NEW points, IsFiniteSet(DOMAIN points), NEW sample, NEW i \in 0 .. MostIterations - 1,
         NEW s \in Searching(points, sample), Tested(points, sample, Lesser(i, s.limit), s)
  PROVE  LET t == Iterate(points, sample, s, i)
         IN  t \in Searching(points, sample) /\ Tested(points, sample, Lesser(i + 1, t.limit), t)
  <1> DEFINE a == One(points, sample, i)
             b == Other(points, sample, i)
             m == Fit(a, b)
             k == Cardinality(Carried(points, m))
             paid == [s EXCEPT !.progress = @ + Pace]
             more == [paid EXCEPT !.accepted = @ + Unit]
             q == Quota[Bucket(k, Cardinality(DOMAIN points))]
             V == Searching(points, sample)
             t == Iterate(points, sample, s, i)
             W(n, v) == \A j \in 0 .. n - 1 :
                          Valid(One(points, sample, j), Other(points, sample, j)) =>
                            Cardinality(Carried(points, Fit(One(points, sample, j), Other(points, sample, j)))) <= v
  <1>1. /\ MostIterations \in Nat /\ i \in Nat /\ i + 1 \in 0 .. MostIterations
        /\ Unit \in Int /\ Pace \in Int
    BY EnoughIterations, MatchingAssumption
  <1>2. /\ s.best \in Nat /\ s.limit \in Nat /\ s.limit \in 0 .. MostIterations
        /\ s.accepted \in Int /\ s.progress \in Int
    BY <1>1 DEF Searching
  <1>3. paid \in V /\ paid.best = s.best /\ paid.motion = s.motion /\ paid.limit = s.limit
    BY <1>1 DEF Searching
  <1>4. more \in V /\ more.best = s.best /\ more.motion = s.motion /\ more.limit = s.limit
    <2> HIDE DEF paid
    <2>1. QED
      BY <1>1, <1>3 DEF Searching
  <1>5. k \in Nat
    BY CarriedCounted
  <1>6. q \in 0 .. MostIterations /\ q \in Nat
    BY <1>1, BucketHasQuota, EnoughIterations
  <1>7. W(Lesser(i, s.limit), s.best) /\ (s.best > 0 => s.best = Cardinality(Carried(points, s.motion)))
    BY DEF Tested
  <1>8. t = IF i >= s.limit THEN s
            ELSE IF ~Valid(a, b) THEN paid
            ELSE IF i > FirstLimit /\ more.accepted < s.progress THEN [more EXCEPT !.limit = i]
            ELSE IF k > more.best THEN [more EXCEPT !.best = k, !.motion = m, !.limit = q] ELSE more
    BY DEF Iterate, Try
  <1>9. ASSUME NEW r \in V, t = r, r.best = s.best, r.motion = s.motion,
               NEW n \in Nat, W(n, s.best), Lesser(i + 1, r.limit) = n
        PROVE  t \in V /\ Tested(points, sample, Lesser(i + 1, t.limit), t)
    <2> HIDE DEF t, V
    <2>1. QED
      BY <1>7, <1>9 DEF Tested
  <1> HIDE DEF paid, more, k, q, t
  <1>10. CASE i >= s.limit
    <2>1. t = s /\ Lesser(i + 1, s.limit) = s.limit /\ Lesser(i, s.limit) = s.limit
      BY <1>1, <1>2, <1>8, <1>10 DEF Lesser
    <2>2. W(s.limit, s.best)
      BY <1>7, <2>1
    <2> HIDE DEF W
    <2>3. QED
      BY <1>2, <1>9, <2>1, <2>2 DEF t
  <1>11. CASE ~ (i >= s.limit) /\ ~Valid(a, b)
    <2>1. t = paid /\ Lesser(i + 1, paid.limit) = i + 1 /\ Lesser(i, s.limit) = i
      BY <1>1, <1>2, <1>3, <1>8, <1>11 DEF Lesser
    <2>2. W(i + 1, s.best)
      <3>1. \A j \in 0 .. (i + 1) - 1 : j \in 0 .. i - 1 \/ j = i
        BY <1>1
      <3>2. W(i, s.best)
        BY <1>7, <2>1
      <3>3. QED
        BY <1>11, <3>1, <3>2
    <2> HIDE DEF W
    <2>3. QED
      BY <1>1, <1>3, <1>9, <2>1, <2>2 DEF t
  <1>12. CASE /\ ~ (i >= s.limit) /\ Valid(a, b)
              /\ i > FirstLimit /\ more.accepted < s.progress
    <2> DEFINE r == [more EXCEPT !.limit = i]
    <2>1. t = r
      BY <1>8, <1>12
    <2>2. r \in V /\ r.best = s.best /\ r.motion = s.motion /\ r.limit = i
      BY <1>1, <1>4 DEF Searching
    <2> HIDE DEF r
    <2>3. Lesser(i + 1, r.limit) = i /\ Lesser(i, s.limit) = i
      BY <1>1, <1>2, <1>12, <2>2 DEF Lesser
    <2>4. W(i, s.best)
      BY <1>7, <2>3
    <2> HIDE DEF W
    <2>5. QED
      BY <1>1, <1>9, <2>1, <2>2, <2>3, <2>4 DEF t
  <1>13. CASE /\ ~ (i >= s.limit) /\ Valid(a, b)
              /\ ~ (i > FirstLimit /\ more.accepted < s.progress)
    <2>1. Lesser(i, s.limit) = i
      BY <1>1, <1>2, <1>13 DEF Lesser
    <2>2. W(i, s.best)
      BY <1>7, <2>1
    <2>3. \A j \in 0 .. (i + 1) - 1 : j \in 0 .. i - 1 \/ j = i
      BY <1>1
    <2>4. ASSUME NEW v \in Nat, s.best <= v, k <= v
          PROVE  W(i + 1, v)
      <3> SUFFICES ASSUME NEW j \in 0 .. (i + 1) - 1, Valid(One(points, sample, j), Other(points, sample, j))
                   PROVE  Cardinality(Carried(points, Fit(One(points, sample, j), Other(points, sample, j)))) <= v
        OBVIOUS
      <3>1. CASE j = i
        BY <2>4, <3>1 DEF k
      <3>2. CASE j \in 0 .. i - 1
        <4>1. Cardinality(Carried(points, Fit(One(points, sample, j), Other(points, sample, j)))) <= s.best
          BY <2>2, <3>2
        <4>2. Cardinality(Carried(points, Fit(One(points, sample, j), Other(points, sample, j)))) \in Nat
          BY CarriedCounted
        <4>3. QED
          BY <1>2, <2>4, <4>1, <4>2
      <3>3. QED
        BY <2>3, <3>1, <3>2
    <2>5. CASE ~ (k > more.best)
      <3>1. t = more /\ Lesser(i + 1, more.limit) = i + 1
        BY <1>1, <1>2, <1>4, <1>8, <1>13, <2>5 DEF Lesser
      <3>2. W(i + 1, s.best)
        BY <1>2, <1>4, <1>5, <2>4, <2>5
      <3> HIDE DEF W
      <3>3. QED
        BY <1>1, <1>4, <1>9, <3>1, <3>2 DEF t
    <2>6. CASE k > more.best
      <3> DEFINE r == [more EXCEPT !.best = k, !.motion = m, !.limit = q]
      <3>1. t = r
        BY <1>8, <1>13, <2>6
      <3>2. m \in {NoMotion} \cup {Fit(One(points, sample, j), Other(points, sample, j)) : j \in 0 .. MostIterations}
        BY <1>1
      <3>3. r \in V /\ r.best = k /\ r.motion = m /\ r.limit = q
        <4> HIDE DEF m
        <4>1. QED
          BY <1>4, <1>5, <1>6, <3>2 DEF Searching
      <3> HIDE DEF r
      <3>4. W(i + 1, k)
        BY <1>2, <1>4, <1>5, <2>4, <2>6
      <3>5. Lesser(i + 1, q) \in Nat /\ Lesser(i + 1, q) <= i + 1
        BY <1>1, <1>6 DEF Lesser
      <3>6. W(Lesser(i + 1, q), k)
        <4>1. \A j \in 0 .. Lesser(i + 1, q) - 1 : j \in 0 .. (i + 1) - 1
          BY <1>1, <3>5
        <4>2. QED
          BY <3>4, <4>1
      <3>7. k = Cardinality(Carried(points, m))
        BY DEF k
      <3>8. Tested(points, sample, Lesser(i + 1, t.limit), t)
        <4> HIDE DEF m
        <4>1. QED
          BY <3>1, <3>3, <3>6, <3>7 DEF Tested
      <3>9. QED
        BY <3>1, <3>3, <3>8 DEF t
    <2>7. QED
      BY <2>5, <2>6
  <1>14. QED
    BY <1>10, <1>11, <1>12, <1>13

\* The search is made of its iterations (fpc_verify_geometry_profile300).
LEMMA SearchIs ==
  ASSUME NEW points, IsFiniteSet(DOMAIN points), NEW sample
  PROVE  \E w : IsSearch(w, points, sample) /\ Search(points, sample) = w[MostIterations]
  <1> DEFINE N == MostIterations
             V == Searching(points, sample)
             D == (0 .. N) \X V
             Next1(k, s) == IF k = 0 THEN Started ELSE Iterate(points, sample, s, k - 1)
             step == [a \in D |-> Next1(a[1], a[2])]
  <1>1. N \in Nat /\ Started \in V
    BY EnoughIterations DEF Started, Searching
  <1>2. ASSUME NEW k \in 0 .. N, NEW s \in V
        PROVE  Next1(k, s) \in V
    <2>1. CASE k = 0
      BY <1>1, <2>1
    <2>2. CASE k # 0
      <3>1. k - 1 \in 0 .. N - 1
        BY <1>1, <2>2
      <3>2. Iterate(points, sample, s, k - 1) \in V
        <4>1. QED
          BY <3>1, IterateStays
      <3>3. QED
        BY <2>2, <3>2
    <2>3. QED
      BY <2>1, <2>2
  <1> HIDE DEF Next1, V, N
  <1>3. \A k \in 0 .. N, s \in V : step[<<k, s>>] = Next1(k, s)
    OBVIOUS
  <1>4. step \in [D -> V]
    <2>1. \A a \in D : a[1] \in 0 .. N /\ a[2] \in V /\ Next1(a[1], a[2]) \in V
      BY <1>2
    <2>2. QED
      BY <2>1
  <1> HIDE DEF step
  <1>5. PICK f : IsWalk(f, N, V, Started, step)
    BY <1>1, <1>4, WalkExists DEF Stepping
  <1>6. f = [k \in 0 .. N |-> IF k = 0 THEN Started ELSE Iterate(points, sample, f[k - 1], k - 1)]
    <2>1. f \in [0 .. N -> V] /\ \A k \in 0 .. N : f[k] = step[<<k, IF k = 0 THEN Started ELSE f[k - 1]>>]
      BY <1>5 DEF IsWalk
    <2>2. ASSUME NEW k \in 0 .. N
          PROVE  f[k] = IF k = 0 THEN Started ELSE Iterate(points, sample, f[k - 1], k - 1)
      <3>1. CASE k = 0
        <4>1. f[k] = Next1(k, Started)
          BY <1>1, <1>3, <2>1, <3>1
        <4>2. QED
          BY <3>1, <4>1 DEF Next1
      <3>2. CASE k # 0
        <4>1. k - 1 \in 0 .. N
          BY <1>1, <3>2
        <4>2. f[k] = Next1(k, f[k - 1])
          BY <1>3, <2>1, <3>2, <4>1
        <4>3. QED
          BY <3>2, <4>2 DEF Next1
      <3>3. QED
        BY <3>1, <3>2
    <2>3. QED
      BY <2>1, <2>2
  <1>7. IsSearch(f, points, sample)
    BY <1>6 DEF IsSearch, N
  <1> DEFINE w == CHOOSE u : IsSearch(u, points, sample)
  <1>8. Search(points, sample) = w[N]
    BY DEF Search, IsSearch, N
  <1>9. IsSearch(w, points, sample)
    BY <1>7
  <1>10. QED
    BY <1>8, <1>9 DEF N

\* The search ends with the best motion of those it may still try.
LEMMA SearchTests ==
  ASSUME NEW points, IsFiniteSet(DOMAIN points), NEW sample
  PROVE  LET s == Search(points, sample)
         IN  s \in Searching(points, sample) /\ Tested(points, sample, s.limit, s)
  <1> DEFINE N == MostIterations
             V == Searching(points, sample)
  <1>1. PICK w : IsSearch(w, points, sample) /\ Search(points, sample) = w[N]
    BY SearchIs
  <1> DEFINE P == {k \in 0 .. N : w[k] \in V /\ Tested(points, sample, Lesser(k, w[k].limit), w[k])}
  <1>2. N \in Nat
    BY EnoughIterations
  <1>3. 0 \in P
    <2>1. w[0] = Started
      BY <1>1, <1>2 DEF IsSearch
    <2>2. Started \in V /\ Lesser(0, Started.limit) = 0 /\ Started.best = 0
      BY EnoughIterations DEF Started, Searching, Lesser
    <2>3. Tested(points, sample, 0, Started)
      BY <2>2 DEF Tested
    <2> HIDE DEF V
    <2>4. QED
      BY <1>2, <2>1, <2>2, <2>3
  <1>4. ASSUME NEW k \in P, 0 <= k, k < N
        PROVE  k + 1 \in P
    <2>1. k \in 0 .. N - 1 /\ k + 1 \in 0 .. N /\ k + 1 # 0 /\ (k + 1) - 1 = k
      BY <1>2, <1>4
    <2>2. w[k + 1] = Iterate(points, sample, w[k], k)
      BY <1>1, <2>1 DEF IsSearch
    <2>3. w[k] \in V /\ Tested(points, sample, Lesser(k, w[k].limit), w[k])
      BY <1>4
    <2> HIDE DEF V
    <2>4. QED
      BY <2>1, <2>2, <2>3, IterateMeans DEF V
  <1>5. N \in P
    <2>1. 0 .. N \subseteq P
      <3>1. 0 \in Int /\ N \in Int /\ (0 <= N => 0 \in P) /\ \A k \in P : 0 <= k /\ k < N => k + 1 \in P
        BY <1>2, <1>3, <1>4
      <3> HIDE DEF P, N
      <3>2. QED
        BY <3>1, IntervalInduction
    <2>2. QED
      BY <1>2, <2>1
  <1>6. w[N] \in V /\ Tested(points, sample, Lesser(N, w[N].limit), w[N])
    BY <1>5
  <1>7. w[N].limit \in 0 .. N
    BY <1>6 DEF Searching
  <1>8. Lesser(N, w[N].limit) = w[N].limit
    BY <1>2, <1>7 DEF Lesser
  <1>9. QED
    BY <1>1, <1>6, <1>8

-----------------------------------------------------------------------------
(* What of it counts. *)

\* A point counts if no close one that comes before it does.
Keeps(keep, points, S) ==
  \A i \in DOMAIN points :
    keep[i] <=> /\ i \in S
                /\ \A j \in DOMAIN points :
                     j < i /\ keep[j] => Norm(Minus(points[j].from, points[i].from)) >= Spread

\* Thinning is what its recursion says (fpc_verify_geometry_profile300).
LEMMA ThinnedIs ==
  ASSUME NEW points, DOMAIN points \subseteq Nat, NEW S
  PROVE  \E keep : Keeps(keep, points, S) /\ Thinned(points, S) = {i \in S : keep[i]}
  <1> DEFINE D == DOMAIN points
             R == OpToRel(<, Nat)
             Kept(i, keep) == /\ i \in S
                              /\ \A j \in D : j < i /\ keep[j] =>
                                   Norm(Minus(points[j].from, points[i].from)) >= Spread
             whole == [a \in D \X [D -> BOOLEAN] |-> Kept(a[1], a[2])]
  <1>1. \A x, y \in D : <<x, y>> \in R <=> x < y
    BY DEF OpToRel
  <1>2. IsWellFoundedOn(R, D)
    <2> HIDE DEF D
    <2>1. D \in SUBSET Nat
      BY DEF D
    <2>2. QED
      BY <2>1, NatLessThanWellFounded, IsWellFoundedOnSubset
  <1>3. IsTransitivelyClosedOn(R, D)
    <2> HIDE DEF R
    <2>1. QED
      BY <1>1 DEF IsTransitivelyClosedOn
  <1>4. ASSUME NEW i \in D, NEW keep \in [D -> BOOLEAN]
        PROVE  whole[<<i, keep>>] = Kept(i, keep)
    <2> HIDE DEF Kept, D
    <2>1. QED
      OBVIOUS
  <1>5. whole \in [D \X [D -> BOOLEAN] -> BOOLEAN]
    <2>1. \A i, keep : Kept(i, keep) \in BOOLEAN
      OBVIOUS
    <2> HIDE DEF Kept, D
    <2>2. QED
      BY <2>1
  <1>6. ASSUME NEW x \in D, NEW f \in [D -> BOOLEAN], NEW g \in [D -> BOOLEAN],
               \A y \in D : <<y, x>> \in R => f[y] = g[y]
        PROVE  whole[<<x, f>>] = whole[<<x, g>>]
    <2>1. \A j \in D : j < x => f[j] = g[j]
      BY <1>1, <1>6
    <2>2. Kept(x, f) = Kept(x, g)
      BY <2>1
    <2> HIDE DEF Kept, whole
    <2>3. QED
      BY <1>4, <2>2
  <1>7. PICK f : Solution(f, D, BOOLEAN, whole)
    <2> HIDE DEF whole, D, R
    <2>1. Recursion(R, D, BOOLEAN, whole)
      BY <1>2, <1>3, <1>5, <1>6 DEF Recursion
    <2>2. QED
      BY <2>1, RecursionExists
  <1>8. f = [i \in D |-> Kept(i, f)]
    <2> HIDE DEF Kept, whole, D
    <2>1. QED
      BY <1>4, <1>7 DEF Solution
  <1> DEFINE keep == CHOOSE u : u = [i \in D |-> Kept(i, u)]
  <1>9. Thinned(points, S) = {i \in S : keep[i]}
    BY DEF Thinned
  <1>10. keep = [i \in D |-> Kept(i, keep)]
    <2> HIDE DEF Kept, D
    <2>1. QED
      BY <1>8
  <1> HIDE DEF keep
  <1>11. \A i \in D : keep[i] = Kept(i, keep)
    <2> HIDE DEF Kept, D
    <2>1. QED
      BY <1>10
  <1>12. Keeps(keep, points, S)
    BY <1>11 DEF Keeps
  <1>13. QED
    BY <1>9, <1>12

\* What counts is spread: nothing counts next to what counts already.
LEMMA ThinnedSpaced ==
  ASSUME NEW points, DOMAIN points \subseteq Nat, \A i \in DOMAIN points : points[i].from \in Spot,
         NEW S \in SUBSET (DOMAIN points)
  PROVE  Spaced(points, S, Thinned(points, S))
  <1> DEFINE D == DOMAIN points
             Far(i, j) == Norm(Minus(points[i].from, points[j].from)) >= Spread
  <1>1. PICK keep : Keeps(keep, points, S) /\ Thinned(points, S) = {i \in S : keep[i]}
    BY ThinnedIs
  <1>2. ASSUME NEW i \in D, NEW j \in D
        PROVE  Far(i, j) = Far(j, i)
    <2>1. points[i].from \in Int \X Int /\ points[j].from \in Int \X Int
      BY DEF Spot
    <2> DEFINE a == Minus(points[i].from, points[j].from)
               b == Minus(points[j].from, points[i].from)
    <2>2. a[1] * a[1] + a[2] * a[2] = b[1] * b[1] + b[2] * b[2]
      <3>1. a[1] \in Int /\ a[2] \in Int /\ b[1] = -a[1] /\ b[2] = -a[2]
        BY <2>1 DEF Minus
      <3> HIDE DEF a, b
      <3>2. QED
        BY <3>1
    <2> HIDE DEF a, b
    <2>3. Norm(a) = Norm(b)
      BY <2>2 DEF Norm
    <2>4. QED
      BY <2>3 DEF a, b
  <1>3. \A i \in D : keep[i] <=> i \in S /\ \A j \in D : j < i /\ keep[j] => Far(j, i)
    BY <1>1 DEF Keeps
  <1> DEFINE T == {i \in S : keep[i]}
  <1>4. \A j \in D : keep[j] <=> j \in T
    BY <1>3
  <1> HIDE DEF Far
  <1>5. ASSUME NEW i \in S
        PROVE  i \notin T <=> \E j \in T : j < i /\ ~Far(i, j)
    <2>1. i \in D /\ S \subseteq D /\ T \subseteq D
      OBVIOUS
    <2> HIDE DEF D, T
    <2>2. i \in T <=> \A j \in D : j < i /\ j \in T => Far(j, i)
      BY <1>3, <1>4, <2>1
    <2>3. QED
      BY <1>2, <2>1, <2>2
  <1>6. T \subseteq S
    OBVIOUS
  <1>7. QED
    BY <1>1, <1>5, <1>6 DEF Spaced, Far

\* Points have places.
Located(points) ==
  /\ IsFiniteSet(DOMAIN points) /\ DOMAIN points \subseteq Nat
  /\ \A i \in DOMAIN points : points[i].from \in Spot

\* What the search of fpc_verify_geometry_profile300 promises, for all points and
\* whatever the generator samples.
THEOREM SearchIsSound ==
  ASSUME NEW points, Located(points), NEW sample
  PROVE  SearchSound(points, sample)
  <1> DEFINE s == Search(points, sample)
             S == Carried(points, s.motion)
  <1>1. IsFiniteSet(DOMAIN points)
    BY DEF Located
  <1>2. s.limit \in Int /\ Tested(points, sample, s.limit, s)
    BY <1>1, SearchTests, EnoughIterations DEF Searching
  <1>3. S \in SUBSET (DOMAIN points)
    BY <1>1, CarriedCounted
  <1>4. Spaced(points, S, Thinned(points, S))
    <2> HIDE DEF S
    <2>1. QED
      BY <1>3, ThinnedSpaced DEF Located
  <1> HIDE DEF s
  <1>5. QED
    BY <1>2, <1>4 DEF SearchSound, SearchFinds, Tested, Tried, s

-----------------------------------------------------------------------------
(* Pairs in the order of the first capture's features. *)

\* Pairs that can be listed: finitely many, each of a number of its own.
OneToOne(C) ==
  /\ IsFiniteSet(C)
  /\ \A p \in C : p[1] \in Nat
  /\ \A p, q \in C : p[1] = q[1] => p = q

\* The list has each pair once.
LEMMA ListedOnce ==
  ASSUME NEW C, OneToOne(C)
  PROVE  LET L == Listed(C)
         IN  /\ DOMAIN L = 0 .. Cardinality(C) - 1 /\ IsFiniteSet(DOMAIN L)
             /\ Cardinality(C) \in Nat /\ Cardinality(DOMAIN L) = Cardinality(C)
             /\ \A k \in DOMAIN L : L[k] \in C
             /\ \A k, l \in DOMAIN L : L[k] = L[l] => k = l
  <1> DEFINE n == Cardinality(C)
             L == Listed(C)
             Smaller(p) == {q \in C : q[1] < p[1]}
             rank == [p \in C |-> Cardinality(Smaller(p))]
             U == 0 .. n - 1
  <1>1. IsFiniteSet(C) /\ n \in Nat
    BY FS_CardinalityType DEF OneToOne
  <1>2. IsFiniteSet(U) /\ Cardinality(U) = n
    BY <1>1, SlotsFinite DEF Slots
  <1>3. ASSUME NEW p \in C
        PROVE  /\ Smaller(p) \in SUBSET C /\ p \notin Smaller(p) /\ IsFiniteSet(Smaller(p))
               /\ Cardinality(Smaller(p)) \in U
    <2>1. Smaller(p) \in SUBSET C /\ p \notin Smaller(p)
      BY DEF OneToOne
    <2> HIDE DEF Smaller
    <2>2. /\ IsFiniteSet(Smaller(p)) /\ Cardinality(Smaller(p)) \in Nat
          /\ Cardinality(Smaller(p)) <= n /\ Cardinality(Smaller(p)) # n
      BY <1>1, <2>1, FS_Subset, FS_CardinalityType
    <2>3. QED
      BY <1>1, <2>1, <2>2
  <1>4. ASSUME NEW p \in C, NEW q \in C, p[1] < q[1]
        PROVE  Cardinality(Smaller(p)) # Cardinality(Smaller(q))
    <2>1. Smaller(p) \subseteq Smaller(q) /\ p \in Smaller(q)
      BY <1>4 DEF OneToOne
    <2>2. p \notin Smaller(p) /\ IsFiniteSet(Smaller(q))
      BY <1>3
    <2> HIDE DEF Smaller
    <2>3. QED
      BY <2>1, <2>2, FS_Subset
  <1>5. ASSUME NEW p \in C, NEW q \in C, Cardinality(Smaller(p)) = Cardinality(Smaller(q))
        PROVE  p = q
    <2>1. p[1] \in Nat /\ q[1] \in Nat /\ ~ (p[1] < q[1]) /\ ~ (q[1] < p[1])
      BY <1>4, <1>5 DEF OneToOne
    <2>2. QED
      BY <2>1 DEF OneToOne
  <1> HIDE DEF Smaller
  <1>6. rank \in Injection(C, U)
    BY <1>3, <1>5 DEF Injection, IsInjective
  <1>7. rank \in Surjection(C, U)
    <2> HIDE DEF rank, U
    <2>1. QED
      BY <1>1, <1>2, <1>6, FS_Injection
  <1>8. \A k \in U : \E p \in C : Cardinality(Smaller(p)) = k
    BY <1>7 DEF Surjection
  <1>9. L = [k \in U |-> CHOOSE p \in C : Cardinality(Smaller(p)) = k]
    BY DEF Listed, Smaller
  <1>10. ASSUME NEW k \in U
         PROVE  L[k] \in C /\ Cardinality(Smaller(L[k])) = k
    <2> HIDE DEF L, U
    <2>1. L[k] = CHOOSE p \in C : Cardinality(Smaller(p)) = k
      BY <1>9
    <2>2. QED
      BY <1>8, <2>1
  <1>11. DOMAIN L = U
    BY <1>9
  <1> HIDE DEF L
  <1>12. \A k, l \in U : L[k] = L[l] => k = l
    BY <1>10
  <1>13. QED
    BY <1>1, <1>2, <1>10, <1>11, <1>12 DEF L

-----------------------------------------------------------------------------
(* Two captures. *)

\* What is counted of pairs: of all or none of the thinned ones.
LEMMA CountedHolds ==
  ASSUME NEW C, OneToOne(C), NEW source, NEW s, NEW points, DOMAIN points = DOMAIN Listed(C),
         NEW S \in SUBSET (DOMAIN points), s.best = Cardinality(S),
         NEW thin \in SUBSET S, NEW rest, rest = thin \/ rest = {}, NEW first, first.member = source
  PROVE  LET m == Counted(points, Listed(C), source, s, thin, rest)
         IN  GeometryHolds(first, C, m) /\ m.inliers \in Nat
  <1> DEFINE L == Listed(C)
             n == Cardinality(DOMAIN L)
             M == {i \in rest : L[i][1] \in source}
             members == Cardinality(M)
             m == Counted(points, L, source, s, thin, rest)
             P == {p \in C : p[1] \in source}
  <1>1. /\ IsFiniteSet(DOMAIN L) /\ \A k \in DOMAIN L : L[k] \in C
        /\ \A k, l \in DOMAIN L : L[k] = L[l] => k = l
    BY ListedOnce
  <1>2. /\ m.inliers = IF members < MinMembers THEN members ELSE Cardinality(rest)
        /\ m.spatial = Cardinality(thin) /\ m.best = Cardinality(S) /\ m.pairs = n
        /\ rest = thin => ~m.low
        /\ m.grant = Grant(points, L, rest, source)
    BY DEF Counted
  <1> HIDE DEF L
  <1>3. M \subseteq rest /\ rest \subseteq thin /\ thin \subseteq S /\ S \subseteq DOMAIN L
    BY DEF L
  <1>4. IsFiniteSet(S) /\ IsFiniteSet(thin) /\ IsFiniteSet(rest) /\ IsFiniteSet(M)
    BY <1>1, <1>3, FS_Subset
  <1>5. /\ members <= Cardinality(rest) /\ Cardinality(rest) <= Cardinality(thin)
        /\ Cardinality(thin) <= Cardinality(S) /\ Cardinality(S) <= n
    BY <1>1, <1>3, <1>4, FS_Subset
  <1>6. /\ members \in Nat /\ Cardinality(rest) \in Nat /\ Cardinality(thin) \in Nat
        /\ Cardinality(S) \in Nat /\ n \in Nat /\ MinMembers \in Nat /\ MinMembers > 0
    BY <1>1, <1>4, FS_CardinalityType, MatchingAssumption
  <1>7. /\ m.grant \subseteq {L[i][2] : i \in rest}
        /\ m.grant # {} => ~ (members < MinMembers)
    BY <1>2 DEF Grant
  <1>8. m.grant \subseteq {p[2] : p \in C}
    BY <1>1, <1>3, <1>7
  <1>9. rest = {} => members = 0 /\ Cardinality(rest) = 0
    BY <1>3, FS_EmptySet
  <1>10. members <= Cardinality(P)
    <2> DEFINE f == [i \in M |-> L[i]]
    <2>1. f \in Injection(M, P)
      <3>1. \A i \in M : i \in DOMAIN L /\ L[i] \in P
        BY <1>1, <1>3
      <3>2. QED
        BY <1>1, <3>1 DEF Injection, IsInjective
    <2>2. P \subseteq C /\ IsFiniteSet(C)
      BY DEF OneToOne
    <2>3. IsFiniteSet(P)
      BY <2>2, FS_Subset
    <2> HIDE DEF f, M, P
    <2>4. QED
      BY <2>1, <2>3, FS_Injection
  <1>11. Cardinality(P) \in Nat
    <2>1. P \subseteq C /\ IsFiniteSet(C)
      BY DEF OneToOne
    <2> HIDE DEF P
    <2>2. QED
      BY <2>1, FS_Subset, FS_CardinalityType
  <1> HIDE DEF members, n, m, M
  <1>12. m.inliers <= m.spatial /\ m.spatial <= m.best /\ m.best <= m.pairs
    BY <1>2, <1>5, <1>6
  <1>13. m.inliers >= MinMembers => rest = thin
    BY <1>2, <1>6, <1>9
  <1>14. ASSUME m.grant # {}
         PROVE  m.inliers >= MinMembers /\ Cardinality(P) >= MinMembers
    <2>1. ~ (members < MinMembers)
      BY <1>7, <1>14
    <2>2. m.inliers = Cardinality(rest)
      BY <1>2, <2>1
    <2>3. QED
      BY <1>5, <1>6, <1>10, <1>11, <2>1, <2>2
  <1>15. m.inliers >= MinMembers => ~m.low
    <2>1. rest = thin => ~m.low
      BY <1>2
    <2>2. QED
      BY ONLY <1>13, <2>1, Zenon
  <1>16. m.inliers \in Nat
    BY <1>2, <1>6
  <1>17. QED
    BY <1>8, <1>12, <1>14, <1>15, <1>16 DEF GeometryHolds, m, L

\* Candidates can be listed.
LEMMA CandidatesOneToOne ==
  ASSUME NEW f, NEW g, Described(f), Described(g)
  PROVE  OneToOne(Candidates(f, g))
  <1> DEFINE C == Candidates(f, g)
  <1>1. C \subseteq (DOMAIN f) \X (DOMAIN g)
    BY DEF Candidates
  <1>2. IsFiniteSet((DOMAIN f) \X (DOMAIN g))
    BY FS_Product DEF Described
  <1>3. IsFiniteSet(C)
    BY <1>1, <1>2, FS_Subset
  <1>4. \A p, q \in C : p[1] = q[1] => p = q
    <2>1. \A p, q \in C : p[1] = q[1] <=> p[2] = q[2]
      <3>1. CandidatesSound(f, g)
        BY CandidatesAreSound
      <3>2. QED
        BY <3>1 DEF CandidatesSound
    <2>2. \A p \in C : p = <<p[1], p[2]>>
      BY <1>1
    <2> HIDE DEF C
    <2>3. QED
      BY <2>1, <2>2
  <1>5. QED
    BY <1>1, <1>3, <1>4 DEF OneToOne, Described

\* The points of listed pairs have places.
LEMMA PointsLocated ==
  ASSUME NEW first, NEW second, Described(first.features), Described(second.features)
  PROVE  LET L == Listed(Candidates(first.features, second.features))
         IN  /\ Located(PointsOf(first, second, L)) /\ DOMAIN PointsOf(first, second, L) = DOMAIN L
             /\ DOMAIN L \subseteq Nat
  <1> DEFINE C == Candidates(first.features, second.features)
             L == Listed(C)
             points == PointsOf(first, second, L)
  <1>1. OneToOne(C)
    BY CandidatesOneToOne
  <1>2. /\ DOMAIN L = 0 .. Cardinality(C) - 1 /\ IsFiniteSet(DOMAIN L) /\ Cardinality(C) \in Nat
        /\ \A k \in DOMAIN L : L[k] \in C
    <2> HIDE DEF C
    <2>1. QED
      BY <1>1, ListedOnce
  <1>3. \A p \in C : p[1] \in DOMAIN first.features
    BY DEF Candidates
  <1> HIDE DEF C, L
  <1>4. DOMAIN points = DOMAIN L /\ \A k \in DOMAIN L : points[k].from = first.features[L[k][1]].at
    BY DEF PointsOf
  <1> HIDE DEF points
  <1>5. QED
    <2>1. \A i \in DOMAIN first.features : first.features[i].at \in Spot
      BY DEF Described
    <2>2. \A k \in DOMAIN L : points[k].from \in Spot
      BY <1>2, <1>3, <1>4, <2>1
    <2>3. DOMAIN L \subseteq Nat
      BY <1>2
    <2>4. Located(points)
      BY <1>2, <1>4, <2>2, <2>3 DEF Located
    <2>5. QED
      BY <1>4, <2>3, <2>4 DEF points, L, C

\* A match of two captures is one in which nothing matches, or what was counted.
LEMMA MatchMeans ==
  ASSUME NEW first, NEW second, Described(first.features), Described(second.features), NEW sample
  PROVE  GeometrySound(first, second, sample) /\ MatchCaptures(first, second, sample).inliers \in Nat
  <1> DEFINE C == Candidates(first.features, second.features)
             L == Listed(C)
             points == PointsOf(first, second, L)
             n == Cardinality(DOMAIN L)
             s == Search(points, sample[n])
             S == Carried(points, s.motion)
             thin == Thinned(points, S)
             rest == IF Still(points, thin) THEN {} ELSE thin
             m == MatchCaptures(first, second, sample)
  <1>1. Located(points) /\ DOMAIN points = DOMAIN L /\ OneToOne(C)
    BY PointsLocated, CandidatesOneToOne
  <1>2. m = IF Cardinality(DOMAIN points) < MinPairs THEN NoMatch(L)
            ELSE IF s.best = 0 THEN NoMatch(L)
            ELSE Counted(points, L, first.member, s, thin, rest)
    BY DEF MatchCaptures, MatchPairs, VerifyGeometry, Verified, Thin
  <1>3. SearchSound(points, sample[n])
    BY <1>1, SearchIsSound
  <1>4. S \in SUBSET (DOMAIN points) /\ s.best \in Nat /\ thin \in SUBSET S
    <2>1. S \in SUBSET (DOMAIN points)
      BY <1>1, CarriedCounted DEF Located
    <2>2. s.best \in Nat
      BY <1>1, SearchTests DEF Located, Searching
    <2>3. thin \subseteq S
      BY DEF Thinned
    <2>4. QED
      BY <2>1, <2>2, <2>3
  <1>5. s.best # 0 => s.best = Cardinality(S)
    BY <1>3, <1>4 DEF SearchSound, SearchFinds
  <1> HIDE DEF s
  <1>6. CASE m = NoMatch(L)
    <2>1. n \in Nat
      BY <1>1, FS_CardinalityType DEF Located
    <2>2. /\ m.inliers = 0 /\ m.spatial = 0 /\ m.best = 0 /\ m.pairs = n /\ m.grant = {} /\ m.low = FALSE
      BY <1>6 DEF NoMatch
    <2>3. MinMembers \in Nat /\ MinMembers > 0
      BY MatchingAssumption
    <2> HIDE DEF m, n, C
    <2>4. GeometryHolds(first, C, m)
      BY <2>1, <2>2, <2>3 DEF GeometryHolds
    <2>5. m.inliers \in Nat
      BY <2>2
    <2>6. QED
      BY <2>4, <2>5 DEF GeometrySound, m, C
  <1>7. CASE s.best # 0 /\ m = Counted(points, L, first.member, s, thin, rest)
    <2>1. rest = thin \/ rest = {}
      OBVIOUS
    <2>2. s.best = Cardinality(S)
      BY <1>5, <1>7
    <2> HIDE DEF S, thin, rest, points, C, m
    <2>3. GeometryHolds(first, C, m) /\ m.inliers \in Nat
      BY <1>1, <1>4, <1>7, <2>1, <2>2, CountedHolds
    <2>4. QED
      BY <2>3 DEF GeometrySound, m, C
  <1> HIDE DEF m, points, C, thin, rest, S
  <1>8. QED
    BY <1>2, <1>6, <1>7

\* What fpc_match_profile300_captures promises of two captures, for all features
\* and whatever the generator samples.
THEOREM GeometryIsSound ==
  ASSUME NEW first, NEW second, Described(first.features), Described(second.features), NEW sample
  PROVE  GeometrySound(first, second, sample)
  BY MatchMeans

-----------------------------------------------------------------------------
(* Templates. *)

MatchesOf(c, query, sample) == [i \in DOMAIN c |-> MatchCaptures(c[i], query, sample)]

Collection(c) ==
  /\ IsFiniteSet(DOMAIN c)
  /\ \A i \in DOMAIN c : Described(c[i].features)

\* What a match grants.
Granted(c, query, sample) == UNION {MatchesOf(c, query, sample)[i].grant : i \in DOMAIN c}

\* The matches of a collection look at the features of the scan alone.
LEMMA MatchesAlike ==
  ASSUME NEW c, NEW q, NEW r, q.features = r.features, NEW sample
  PROVE  MatchesOf(c, q, sample) = MatchesOf(c, r, sample)
  <1>1. \A i \in DOMAIN c : MatchCaptures(c[i], q, sample) = MatchCaptures(c[i], r, sample)
    BY DEF MatchCaptures, MatchPairs, PointsOf
  <1>2. QED
    BY <1>1 DEF MatchesOf

\* What the match of a collection reports (fpc_match_profile300_collection).
LEMMA CollectionMeans ==
  ASSUME NEW c, Collection(c), NEW q, Described(q.features), NEW sample
  PROVE  LET m == MatchCollection(c, q, sample)
         IN  /\ m.score \in Nat
             /\ m.query = [q EXCEPT !.member = @ \cup Granted(c, q, sample)]
             /\ Granted(c, q, sample) \subseteq DOMAIN q.features
             /\ Granted(c, q, sample) # {} => m.score >= MinMembers
  <1> DEFINE match == MatchesOf(c, q, sample)
             inliers == [i \in DOMAIN c |-> match[i].inliers]
             I == {inliers[i] : i \in DOMAIN c}
             m == MatchCollection(c, q, sample)
             G == Granted(c, q, sample)
  <1>1. ASSUME NEW i \in DOMAIN c
        PROVE  /\ match[i].inliers \in Nat
               /\ match[i].grant \subseteq DOMAIN q.features
               /\ match[i].grant # {} => match[i].inliers >= MinMembers
    <2>1. match[i] = MatchCaptures(c[i], q, sample)
      BY DEF MatchesOf
    <2>2. GeometrySound(c[i], q, sample) /\ MatchCaptures(c[i], q, sample).inliers \in Nat
      BY MatchMeans DEF Collection
    <2>3. GeometryHolds(c[i], Candidates(c[i].features, q.features), match[i])
      BY <2>1, <2>2 DEF GeometrySound
    <2>4. \A p \in Candidates(c[i].features, q.features) : p[2] \in DOMAIN q.features
      BY DEF Candidates
    <2> HIDE DEF match
    <2>5. match[i].grant \subseteq DOMAIN q.features
      BY <2>3, <2>4 DEF GeometryHolds
    <2>6. match[i].grant # {} => match[i].inliers >= MinMembers
      BY <2>3 DEF GeometryHolds
    <2>7. QED
      BY <2>1, <2>2, <2>5, <2>6
  <1>2. DOMAIN match = DOMAIN c
    BY DEF MatchesOf
  <1>3. /\ m.score = Max({match[i].inliers : i \in DOMAIN match} \cup {0})
        /\ m.query = [q EXCEPT !.member = @ \cup UNION {match[i].grant : i \in DOMAIN match}]
    BY DEF MatchCollection, Scored, Collected, MatchesOf
  <1>4. {match[i].inliers : i \in DOMAIN match} = I
    BY <1>2
  <1>5. G = UNION {match[i].grant : i \in DOMAIN match}
    BY <1>2 DEF Granted
  <1> HIDE DEF match, G
  <1>6. IsFiniteSet(I)
    <2>1. IsFiniteSet(DOMAIN c) /\ DOMAIN inliers = DOMAIN c /\ inliers = [i \in DOMAIN c |-> inliers[i]]
      BY DEF Collection
    <2> HIDE DEF inliers
    <2>2. QED
      BY <2>1, FiniteImage
  <1>7. I \subseteq Nat
    BY <1>1
  <1>8. IsFiniteSet(I \cup {0}) /\ I \cup {0} # {} /\ I \cup {0} \in SUBSET Int
    <2> HIDE DEF I
    <2>1. IsFiniteSet({0})
      BY FS_Singleton
    <2>2. IsFiniteSet(I \cup {0})
      BY <1>6, <2>1, FS_Union
    <2>3. QED
      BY <1>7, <2>2
  <1>9. m.score \in I \cup {0} /\ \A x \in I \cup {0} : m.score >= x
    <2> HIDE DEF m
    <2>1. m.score = Max(I \cup {0})
      BY <1>3, <1>4
    <2> HIDE DEF I
    <2>2. QED
      BY <1>8, <2>1, MinMaxExist
  <1> HIDE DEF m
  <1>10. m.score \in Nat
    BY <1>7, <1>9
  <1>11. G \subseteq DOMAIN q.features
    BY <1>1, <1>2, <1>5
  <1>12. ASSUME G # {} PROVE m.score >= MinMembers
    <2>1. PICK i \in DOMAIN c : match[i].grant # {}
      BY <1>2, <1>5, <1>12
    <2>2. match[i].inliers >= MinMembers /\ match[i].inliers \in Nat
      BY <1>1, <2>1
    <2>3. match[i].inliers \in I
      OBVIOUS
    <2>4. m.score >= match[i].inliers
      <3> HIDE DEF I
      <3>1. QED
        BY <1>9, <2>3
    <2>5. MinMembers \in Nat
      BY MatchingAssumption
    <2>6. QED
      BY <1>10, <2>2, <2>4, <2>5
  <1>13. QED
    BY <1>3, <1>5, <1>10, <1>11, <1>12 DEF m, G

\* Marks on the scan change neither score nor what is selected.
LEMMA CollectionAlike ==
  ASSUME NEW c, NEW q, NEW r, q.features = r.features, NEW sample
  PROVE  LET m == MatchCollection(c, q, sample)
             k == MatchCollection(c, r, sample)
         IN  m.score = k.score /\ m.selected = k.selected /\ m.spatials = k.spatials
  <1>1. MatchesOf(c, q, sample) = MatchesOf(c, r, sample)
    BY MatchesAlike
  <1>2. \A u : MatchCollection(c, u, sample) = Scored(MatchesOf(c, u, sample), u)
    BY DEF MatchCollection, MatchesOf
  <1>3. ASSUME NEW match
        PROVE  /\ Scored(match, q).score = Scored(match, r).score
               /\ Scored(match, q).selected = Scored(match, r).selected
               /\ Scored(match, q).spatials = Scored(match, r).spatials
    BY DEF Scored, Collected
  <1>4. QED
    BY <1>1, <1>2, <1>3

\* Templates 0 .. n-1 and a scan.
Database(templates, n, query) ==
  /\ n \in Nat /\ DOMAIN templates = 0 .. n - 1
  /\ \A t \in 0 .. n - 1 : Collection(templates[t])
  /\ Described(query.features)
  /\ query = [features |-> query.features, member |-> query.member]

Nobody(query) == [score |-> 0, capture |-> -1, template |-> -1, query |-> query, evaluated |-> 0]

\* A further template is compared unless one was found.
Compare(templates, sample, r, t) ==
  IF r.template # -1 THEN r ELSE Compared(t, r, MatchCollection(templates[t], r.query, sample))

IsIdentifying(w, templates, n, query, sample) ==
  w = [t \in 0 .. n |-> IF t = 0 THEN Nobody(query) ELSE Compare(templates, sample, w[t - 1], t - 1)]

Fresh(templates, query, sample, t) == MatchCollection(templates[t], query, sample)

\* What is known when templates 0 .. n-1 could be compared.
Results(templates, n, query, sample) ==
  [score : Nat,
   capture : {-1} \cup {Fresh(templates, query, sample, t).selected : t \in 0 .. n - 1},
   template : -1 .. n - 1,
   query : [features : {query.features}, member : SUBSET (query.member \cup DOMAIN query.features)],
   evaluated : Nat]

\* A result is one of the first t templates: none reached the threshold, or one
\* did before which none had.
Known(templates, query, sample, t, r) ==
  LET Fair(u) == Fresh(templates, query, sample, u)
  IN  /\ query.member \subseteq r.query.member
      /\ r.evaluated \in 0 .. t
      /\ r.template = -1 => /\ r.evaluated = t /\ r.score < Threshold
                            /\ \A u \in 0 .. t - 1 : Fair(u).score < Threshold
      /\ r.template # -1 => /\ r.template \in 0 .. t - 1 /\ r.evaluated = r.template + 1
                            /\ Fair(r.template).score >= Threshold
                            /\ \A u \in 0 .. r.template - 1 : Fair(u).score < Threshold
                            /\ r.score = Fair(r.template).score
                            /\ r.capture = Fair(r.template).selected
      /\ r.query.member # query.member =>
           \E u \in 0 .. r.evaluated - 1 : Fair(u).score >= MinMembers

\* Comparing with a template (fpc_identify_profile300).
LEMMA CompareMeans ==
  ASSUME NEW templates, NEW n, NEW query, Database(templates, n, query), NEW sample,
         NEW t \in 0 .. n - 1, NEW r \in Results(templates, n, query, sample)
  PROVE  LET s == Compare(templates, sample, r, t)
         IN  /\ s \in Results(templates, n, query, sample)
             /\ Known(templates, query, sample, t, r) => Known(templates, query, sample, t + 1, s)
  <1> DEFINE V == Results(templates, n, query, sample)
             s == Compare(templates, sample, r, t)
             m == MatchCollection(templates[t], r.query, sample)
             Fair(u) == Fresh(templates, query, sample, u)
             G == Granted(templates[t], r.query, sample)
  <1>1. n \in Nat /\ t \in Nat /\ t <= n - 1 /\ t # -1
    BY DEF Database
  <1>2. /\ r.score \in Nat /\ r.template \in -1 .. n - 1 /\ r.evaluated \in Nat
        /\ r.query.features = query.features
        /\ r.query.member \subseteq query.member \cup DOMAIN query.features
        /\ r.query = [features |-> r.query.features, member |-> r.query.member]
        /\ r.capture \in {-1} \cup {Fair(u).selected : u \in 0 .. n - 1}
    BY DEF Results
  <1>3. Threshold \in Nat /\ MinMembers \in Nat
    BY MatchingAssumption
  <1>4. CASE r.template # -1
    <2>1. s = r
      BY <1>4 DEF Compare
    <2>2. 0 .. t - 1 \subseteq 0 .. (t + 1) - 1 /\ 0 .. t \subseteq 0 .. t + 1
      BY <1>1
    <2> HIDE DEF s
    <2>3. ASSUME Known(templates, query, sample, t, r)
          PROVE  Known(templates, query, sample, t + 1, r)
      BY <1>4, <2>2, <2>3 DEF Known
    <2>4. QED
      BY <2>1, <2>3 DEF s
  <1>5. CASE r.template = -1
    <2>1. s = [score     |-> IF m.score > r.score THEN m.score ELSE r.score,
               capture   |-> IF m.score > r.score THEN m.selected ELSE r.capture,
               template  |-> IF m.score > r.score /\ m.score >= Threshold THEN t ELSE -1,
               query     |-> m.query,
               evaluated |-> r.evaluated + 1]
      BY <1>5 DEF Compare, Compared
    <2>2. m.score = Fair(t).score /\ m.selected = Fair(t).selected
      <3>1. QED
        BY <1>2, CollectionAlike DEF Fresh
    <2>3. /\ m.score \in Nat /\ m.query = [r.query EXCEPT !.member = @ \cup G]
          /\ G \subseteq DOMAIN query.features
          /\ G # {} => m.score >= MinMembers
      <3>1. Collection(templates[t]) /\ Described(r.query.features)
        BY <1>2 DEF Database
      <3> HIDE DEF G, m
      <3>2. QED
        BY <1>2, <3>1, CollectionMeans DEF G, m
    <2> HIDE DEF m, G, s
    <2>4. m.query.features = query.features /\ m.query.member = r.query.member \cup G
          /\ m.query = [features |-> query.features, member |-> r.query.member \cup G]
      BY <1>2, <2>3
    <2>5. m.selected \in {-1} \cup {Fair(u).selected : u \in 0 .. n - 1}
      <3> HIDE DEF Fair
      <3>1. QED
        BY <2>2
    <2>6. m.query \in [features : {query.features}, member : SUBSET (query.member \cup DOMAIN query.features)]
      BY <1>2, <2>3, <2>4
    <2>7. s \in V
      <3>1. t \in -1 .. n - 1 /\ -1 \in -1 .. n - 1
        BY <1>1
      <3> HIDE DEF Fair
      <3>2. QED
        BY <1>2, <2>1, <2>3, <2>5, <2>6, <3>1 DEF Results, Fair
    <2>8. ASSUME Known(templates, query, sample, t, r)
          PROVE  Known(templates, query, sample, t + 1, s)
      <3>1. /\ query.member \subseteq r.query.member /\ r.evaluated = t /\ r.score < Threshold
            /\ \A u \in 0 .. t - 1 : Fair(u).score < Threshold
            /\ r.query.member # query.member => \E u \in 0 .. t - 1 : Fair(u).score >= MinMembers
        BY <1>5, <2>8 DEF Known
      <3>2. s.query.member = r.query.member \cup G /\ s.evaluated = t + 1
        BY <2>1, <2>4, <3>1
      <3>3. s.template = -1 => s.score < Threshold /\ m.score < Threshold
        BY <1>1, <1>3, <1>2, <2>1, <2>3, <3>1
      <3>4. s.template # -1 => /\ s.template = t /\ m.score >= Threshold /\ s.score = m.score
                               /\ s.capture = m.selected
        BY <2>1
      <3> HIDE DEF Fair
      <3>5. s.template = -1 => \A u \in 0 .. (t + 1) - 1 : Fair(u).score < Threshold
        <4>1. \A u \in 0 .. (t + 1) - 1 : u \in 0 .. t - 1 \/ u = t
          BY <1>1
        <4>2. QED
          BY <2>2, <3>1, <3>3, <4>1
      <3>6. s.query.member # query.member => \E u \in 0 .. s.evaluated - 1 : Fair(u).score >= MinMembers
        <4>1. t \in 0 .. s.evaluated - 1 /\ 0 .. t - 1 \subseteq 0 .. s.evaluated - 1
          BY <1>1, <3>2
        <4>2. CASE G # {}
          BY <2>2, <2>3, <4>1, <4>2
        <4>3. CASE G = {}
          BY <3>1, <3>2, <4>1, <4>3
        <4>4. QED
          BY <4>2, <4>3
      <3>7. s.evaluated \in 0 .. t + 1 /\ t \in 0 .. (t + 1) - 1
        BY <1>1, <3>2
      <3>8. query.member \subseteq s.query.member
        BY <3>1, <3>2
      <3>9. s.template # -1 => /\ s.template \in 0 .. (t + 1) - 1 /\ s.evaluated = s.template + 1
                               /\ Fair(s.template).score >= Threshold
                               /\ \A u \in 0 .. s.template - 1 : Fair(u).score < Threshold
                               /\ s.score = Fair(s.template).score
                               /\ s.capture = Fair(s.template).selected
        BY <2>2, <3>1, <3>2, <3>4, <3>7
      <3>10. QED
        BY <3>2, <3>3, <3>5, <3>6, <3>7, <3>8, <3>9 DEF Known, Fair
    <2>9. QED
      BY <2>7, <2>8 DEF s
  <1>6. QED
    BY <1>4, <1>5

\* Identification is made of its comparisons (fpc_identify_profile300).
LEMMA IdentifyIs ==
  ASSUME NEW templates, NEW n, NEW query, Database(templates, n, query), NEW sample
  PROVE  \E w : IsIdentifying(w, templates, n, query, sample) /\ Identify(templates, query, sample) = w[n]
  <1> DEFINE V == Results(templates, n, query, sample)
             D == (0 .. n) \X V
             Next1(k, s) == IF k = 0 THEN Nobody(query) ELSE Compare(templates, sample, s, k - 1)
             step == [a \in D |-> Next1(a[1], a[2])]
  <1>1. n \in Nat /\ Nobody(query) \in V
    BY DEF Nobody, Results, Database
  <1>2. ASSUME NEW k \in 0 .. n, NEW s \in V
        PROVE  Next1(k, s) \in V
    <2>1. CASE k = 0
      BY <1>1, <2>1
    <2>2. CASE k # 0
      <3>1. k - 1 \in 0 .. n - 1
        BY <1>1, <2>2
      <3>2. Compare(templates, sample, s, k - 1) \in V
        BY <3>1, CompareMeans
      <3>3. QED
        BY <2>2, <3>2
    <2>3. QED
      BY <2>1, <2>2
  <1> HIDE DEF Next1, V
  <1>3. \A k \in 0 .. n, s \in V : step[<<k, s>>] = Next1(k, s)
    OBVIOUS
  <1>4. step \in [D -> V]
    <2>1. \A a \in D : a[1] \in 0 .. n /\ a[2] \in V /\ Next1(a[1], a[2]) \in V
      BY <1>2
    <2>2. QED
      BY <2>1
  <1> HIDE DEF step
  <1>5. PICK f : IsWalk(f, n, V, Nobody(query), step)
    BY <1>1, <1>4, WalkExists DEF Stepping
  <1>6. f = [k \in 0 .. n |-> IF k = 0 THEN Nobody(query) ELSE Compare(templates, sample, f[k - 1], k - 1)]
    <2>1. f \in [0 .. n -> V] /\ \A k \in 0 .. n : f[k] = step[<<k, IF k = 0 THEN Nobody(query) ELSE f[k - 1]>>]
      BY <1>5 DEF IsWalk
    <2>2. ASSUME NEW k \in 0 .. n
          PROVE  f[k] = IF k = 0 THEN Nobody(query) ELSE Compare(templates, sample, f[k - 1], k - 1)
      <3>1. CASE k = 0
        <4>1. f[k] = Next1(k, Nobody(query))
          BY <1>1, <1>3, <2>1, <3>1
        <4>2. QED
          BY <3>1, <4>1 DEF Next1
      <3>2. CASE k # 0
        <4>1. k - 1 \in 0 .. n
          BY <1>1, <3>2
        <4>2. f[k] = Next1(k, f[k - 1])
          BY <1>3, <2>1, <3>2, <4>1
        <4>3. QED
          BY <3>2, <4>2 DEF Next1
      <3>3. QED
        BY <3>1, <3>2
    <2>3. QED
      BY <2>1, <2>2
  <1>7. IsIdentifying(f, templates, n, query, sample)
    BY <1>6 DEF IsIdentifying
  <1> DEFINE w == CHOOSE u : IsIdentifying(u, templates, n, query, sample)
  <1>8. Cardinality(DOMAIN templates) = n
    BY <1>1, SlotsFinite DEF Database, Slots
  <1>9. Identify(templates, query, sample) = w[n]
    BY <1>8 DEF Identify, IsIdentifying, Nobody, Compare
  <1>10. IsIdentifying(w, templates, n, query, sample)
    BY <1>7
  <1>11. QED
    BY <1>9, <1>10

\* What fpc_identify_profile300 promises, for any number of templates and captures,
\* all features and whatever the generator samples.
THEOREM IdentificationIsSound ==
  ASSUME NEW templates, NEW n, NEW query, Database(templates, n, query), NEW sample
  PROVE  IdentifySound(templates, query, sample)
  <1> DEFINE V == Results(templates, n, query, sample)
             Fair(u) == Fresh(templates, query, sample, u)
             fresh == [t \in DOMAIN templates |-> MatchCollection(templates[t], query, sample)]
             r == Identify(templates, query, sample)
             good == {t \in DOMAIN templates : fresh[t].score >= Threshold}
  <1>1. PICK w : IsIdentifying(w, templates, n, query, sample) /\ r = w[n]
    BY IdentifyIs
  <1> HIDE DEF r
  <1>2. n \in Nat
    BY DEF Database
  <1> DEFINE P == {k \in 0 .. n : w[k] \in V /\ Known(templates, query, sample, k, w[k])}
  <1>3. 0 \in P
    <2>1. w[0] = Nobody(query)
      BY <1>1, <1>2 DEF IsIdentifying
    <2>2. Nobody(query) \in V
      BY DEF Nobody, Results, Database
    <2>3. Known(templates, query, sample, 0, Nobody(query))
      BY MatchingAssumption DEF Nobody, Known
    <2> HIDE DEF V
    <2>4. QED
      BY <1>2, <2>1, <2>2, <2>3
  <1>4. ASSUME NEW k \in P, 0 <= k, k < n
        PROVE  k + 1 \in P
    <2>1. k \in 0 .. n - 1 /\ k + 1 \in 0 .. n /\ k + 1 # 0 /\ (k + 1) - 1 = k
      BY <1>2, <1>4
    <2>2. w[k + 1] = Compare(templates, sample, w[k], k)
      BY <1>1, <2>1 DEF IsIdentifying
    <2>3. w[k] \in V /\ Known(templates, query, sample, k, w[k])
      BY <1>4
    <2> HIDE DEF V
    <2>4. QED
      BY <2>1, <2>2, <2>3, CompareMeans DEF V
  <1>5. n \in P
    <2>1. 0 .. n \subseteq P
      <3>1. 0 \in Int /\ n \in Int /\ (0 <= n => 0 \in P) /\ \A k \in P : 0 <= k /\ k < n => k + 1 \in P
        BY <1>2, <1>3, <1>4
      <3> HIDE DEF P
      <3>2. QED
        BY <3>1, IntervalInduction
    <2>2. QED
      BY <1>2, <2>1
  <1>6. r \in V /\ Known(templates, query, sample, n, r)
    BY <1>1, <1>5
  <1> HIDE DEF P, V
  <1>7. DOMAIN templates = 0 .. n - 1
    BY DEF Database
  <1>8. \A t \in 0 .. n - 1 : fresh[t] = Fair(t)
    BY <1>7 DEF Fresh
  <1>9. \A t \in 0 .. n - 1 : Fair(t).score \in Nat
    <2>1. ASSUME NEW t \in 0 .. n - 1 PROVE Fair(t).score \in Nat
      <3>1. Collection(templates[t]) /\ Described(query.features)
        BY DEF Database
      <3>2. QED
        BY <3>1, CollectionMeans DEF Fresh
    <2>2. QED
      BY <2>1
  <1> HIDE DEF Fair, fresh
  <1>10. good = {t \in 0 .. n - 1 : Fair(t).score >= Threshold}
    BY <1>7, <1>8
  <1>11. r.template \in -1 .. n - 1 /\ r.evaluated \in Nat /\ r.query.features = query.features
    BY <1>6 DEF Results, V
  <1>12. Threshold \in Nat
    BY MatchingAssumption
  <1>13. IF good = {} THEN r.template = -1 ELSE r.template = Min(good)
    <2>1. CASE r.template = -1
      <3>1. \A t \in 0 .. n - 1 : Fair(t).score < Threshold
        BY <1>6, <2>1 DEF Known, Fair
      <3>2. good = {}
        BY <1>9, <1>10, <1>12, <3>1
      <3>3. QED
        BY <2>1, <3>2
    <2>2. CASE r.template # -1
      <3>1. /\ r.template \in 0 .. n - 1 /\ Fair(r.template).score >= Threshold
            /\ \A u \in 0 .. r.template - 1 : Fair(u).score < Threshold
        BY <1>6, <2>2 DEF Known, Fair
      <3>2. r.template \in good /\ good \in SUBSET Int
        BY <1>2, <1>10, <3>1
      <3>3. \A t \in good : r.template <= t
        <4> SUFFICES ASSUME NEW t \in good, t < r.template PROVE FALSE
          BY <1>2, <1>10, <1>11
        <4>1. t \in 0 .. n - 1 /\ Fair(t).score >= Threshold
          BY <1>10
        <4>2. t \in 0 .. r.template - 1
          BY <1>2, <1>11, <4>1
        <4>3. QED
          BY <1>9, <1>12, <3>1, <4>1, <4>2
      <3> HIDE DEF good
      <3>4. QED
        BY <3>2, <3>3, MinIs
    <2>3. QED
      BY <2>1, <2>2
  <1>14. r.template # -1 => r.evaluated = r.template + 1
    BY <1>6 DEF Known
  <1>15. query.member \subseteq r.query.member
    BY <1>6 DEF Known
  <1>16. r.query.member # query.member => \E t \in 0 .. r.evaluated - 1 : fresh[t].score >= MinMembers
    <2>1. r.query.member # query.member => \E u \in 0 .. r.evaluated - 1 : Fair(u).score >= MinMembers
      BY <1>6 DEF Known, Fair
    <2>2. r.evaluated \in 0 .. n
      BY <1>6 DEF Known
    <2>3. 0 .. r.evaluated - 1 \subseteq 0 .. n - 1
      BY <1>2, <2>2
    <2>4. QED
      BY <1>8, <2>1, <2>3
  <1>17. ASSUME r.template # -1
         PROVE  FoundAgain(fresh[r.template], r, MatchCollection(templates[r.template], r.query, sample))
    <2>1. /\ r.template \in 0 .. n - 1 /\ r.score = Fair(r.template).score
          /\ r.capture = Fair(r.template).selected
      BY <1>6, <1>17 DEF Known, Fair
    <2> DEFINE k == MatchCollection(templates[r.template], r.query, sample)
    <2>2. k.score = Fair(r.template).score /\ k.selected = Fair(r.template).selected
          /\ k.spatials = Fair(r.template).spatials
      BY <1>11, CollectionAlike DEF Fair, Fresh
    <2> HIDE DEF k
    <2>3. fresh[r.template] = Fair(r.template)
      BY <1>8, <2>1
    <2>4. FoundAgain(fresh[r.template], r, k)
      BY <2>1, <2>2, <2>3 DEF FoundAgain
    <2>5. QED
      BY <2>4 DEF k
  <1>18. Identified(query, fresh, r, good)
    <2> HIDE DEF good
    <2>1. QED
      BY <1>13, <1>14, <1>15, <1>16 DEF Identified
  <1>19. Identification(templates, query, sample, fresh, r)
    BY <1>17, <1>18 DEF Identification
  <1>20. QED
    BY <1>19 DEF IdentifySound, fresh, r

-----------------------------------------------------------------------------
(* The inputs of the run. *)

\* The captures there have described features.
LEMMA TakenDescribed ==
  ASSUME NEW m \in {"rest", "shift", "slide", "quarter", "half"}, NEW out, NEW d \in 0 .. 3, NEW member
  PROVE  LET c == Taken(m, out, d, member)
         IN  c = [features |-> c.features, member |-> c.member] /\ Described(c.features)
  <1> DEFINE c == Taken(m, out, d, member)
             Mark(k) == FingerMark[IF k = 3 THEN d + 1 ELSE k + 1]
             At(k) == Carry(IF k \in out THEN "away" ELSE m, FingerPlace[k + 1])
  <1>1. c = [features |-> [k \in 0 .. 4 |-> [at |-> At(k), low |-> Mark(k).low, high |-> Mark(k).high]],
             member |-> member]
    BY DEF Taken
  <1>2. ASSUME NEW k \in 0 .. 4
        PROVE  At(k) \in Spot
    <2>1. FingerPlace[k + 1] \in Spot
      BY DEF FingerPlace, Spot
    <2>2. ASSUME NEW p \in Spot, NEW a \in {"rest", "shift", "slide", "quarter", "half", "away"}
          PROVE  Carry(a, p) \in Spot
      BY DEF Carry, Spot
    <2>3. QED
      BY <2>1, <2>2
  <1>3. ASSUME NEW k \in 0 .. 4
        PROVE  IsFiniteSet(Mark(k).low) /\ IsFiniteSet(Mark(k).high)
    <2>1. \A S \in {{}, {1}, {3}, {1, 2}, {1, 2, 3}} : IsFiniteSet(S)
      <3>1. IsFiniteSet(1 .. 3)
        <4>1. 1 \in Int /\ 3 \in Int
          OBVIOUS
        <4>2. QED
          BY ONLY <4>1, IntervalFinite, Zenon
      <3>2. \A S \in {{}, {1}, {3}, {1, 2}, {1, 2, 3}} : S \subseteq 1 .. 3
        OBVIOUS
      <3>3. QED
        BY <3>1, <3>2, FS_Subset
    <2>2. \A i \in 1 .. 5 : /\ FingerMark[i].low \in {{}, {1}, {3}, {1, 2}, {1, 2, 3}}
                            /\ FingerMark[i].high \in {{}, {1}, {3}, {1, 2}, {1, 2, 3}}
      BY DEF FingerMark
    <2>3. (IF k = 3 THEN d + 1 ELSE k + 1) \in 1 .. 5
      OBVIOUS
    <2>4. QED
      BY <2>1, <2>2, <2>3
  <1>4. IsFiniteSet(0 .. 4)
    <2>1. 0 \in Int /\ 4 \in Int
      OBVIOUS
    <2>2. QED
      BY ONLY <2>1, IntervalFinite, Zenon
  <1> HIDE DEF Mark, At, c
  <1>5. /\ c = [features |-> c.features, member |-> c.member] /\ DOMAIN c.features = 0 .. 4
        /\ \A k \in 0 .. 4 : c.features[k] = [at |-> At(k), low |-> Mark(k).low, high |-> Mark(k).high]
    BY <1>1
  <1>6. Described(c.features)
    BY <1>2, <1>3, <1>4, <1>5 DEF Described
  <1>7. QED
    BY <1>5, <1>6 DEF c

\* Matching a scan finds the finger, for any numbers in it (distances, widths of
\* words and fractions, quotas, budgets, thresholds): fpc_match_profile300_captures
\* for two captures, fpc_identify_profile300 for two templates.
THEOREM MatchingSoundHolds == MatchingSpec => []MatchingSound
  <1>1. MatchingInit => MatchingSound
    BY DEF MatchingInit, ToTake, MatchingSound, Is
  <1>2. ASSUME MatchingSound, [MatchingNext]_work
        PROVE  MatchingSound'
    <2>1. CASE UNCHANGED work
      BY <1>2, <2>1 DEF MatchingSound, Is
    <2>2. CASE TakePair
      <3>1. PICK out \in {{}, {2}}, d \in {0, 3}, member \in {{}, {1, 2, 3}, 0 .. 4},
                 turn \in {t \in 1 .. 5 : Shared(t)}, off \in {{}, {1}, {3, 4}}, e \in {0, 3}, s \in {0, 1, 5} :
              work' = [of |-> "pair", first |-> Taken("rest", out, d, member),
                       second |-> Taken(Turns[turn], off, e, {}), sample |-> s]
        BY <2>2 DEF TakePair
      <3> DEFINE first  == Taken("rest", out, d, member)
                 second == Taken(Turns[turn], off, e, {})
                 L == Listed(Candidates(first.features, second.features))
      <3>2. Described(first.features)
        BY TakenDescribed
      <3>3. Described(second.features)
        <4>1. Turns[turn] \in {"rest", "shift", "slide", "quarter", "half"}
          BY DEF Turns
        <4>2. QED
          BY <4>1, TakenDescribed
      <3>4. work'.of = "pair" /\ work'.first = first /\ work'.second = second /\ work'.sample = s
        BY <3>1
      <3> HIDE DEF first, second
      <3>5. CandidatesSound(first.features, second.features)
        BY <3>2, <3>3, CandidatesAreSound
      <3>6. SearchSound(PointsOf(first, second, L), Sampled(s)[Cardinality(DOMAIN L)])
        BY <3>2, <3>3, PointsLocated, SearchIsSound
      <3>7. GeometrySound(first, second, Sampled(s))
        BY <3>2, <3>3, GeometryIsSound
      <3>8. QED
        BY <3>4, <3>5, <3>6, <3>7 DEF MatchingSound, Is
    <2>3. CASE TakeTemplates
      <3>1. PICK a \in Stored, one \in BOOLEAN, c \in Stored, s \in {0, 1} :
              work' = [of |-> "templates", sample |-> s, query |-> Taken("rest", {}, 3, {}),
                       list |-> [t \in 0 .. 1 |->
                                   IF t = 1 THEN [k \in 0 .. 0 |-> c]
                                   ELSE IF one THEN [k \in 0 .. 0 |-> a]
                                   ELSE [k \in 0 .. 1 |-> IF k = 0 THEN Misplaced ELSE a]]]
        BY <2>3 DEF TakeTemplates
      <3> DEFINE query == Taken("rest", {}, 3, {})
                 list == [t \in 0 .. 1 |->
                            IF t = 1 THEN [k \in 0 .. 0 |-> c]
                            ELSE IF one THEN [k \in 0 .. 0 |-> a]
                            ELSE [k \in 0 .. 1 |-> IF k = 0 THEN Misplaced ELSE a]]
      <3>2. \A x \in Stored : Described(x.features)
        BY TakenDescribed DEF Stored
      <3>3. Described(Misplaced.features)
        BY TakenDescribed DEF Misplaced
      <3>4. \A i \in 0 .. 1 : Collection(list[i])
        <4>1. IsFiniteSet(0 .. 0) /\ IsFiniteSet(0 .. 1)
          <5>1. 0 \in Int /\ 1 \in Int
            OBVIOUS
          <5>2. QED
            BY ONLY <5>1, IntervalFinite, Zenon
        <4>2. Collection([k \in 0 .. 0 |-> c]) /\ Collection([k \in 0 .. 0 |-> a])
          BY <3>2, <4>1 DEF Collection
        <4>3. Collection([k \in 0 .. 1 |-> IF k = 0 THEN Misplaced ELSE a])
          BY <3>2, <3>3, <4>1 DEF Collection
        <4>4. QED
          BY <4>2, <4>3
      <3>5. Database(list, 2, query)
        <4>1. Described(query.features) /\ query = [features |-> query.features, member |-> query.member]
          BY TakenDescribed
        <4>2. DOMAIN list = 0 .. 2 - 1 /\ 0 .. 2 - 1 = 0 .. 1
          OBVIOUS
        <4> HIDE DEF list, query
        <4>3. QED
          BY <3>4, <4>1, <4>2 DEF Database
      <3>6. work'.of = "templates" /\ work'.sample = s /\ work'.query = query /\ work'.list = list
        BY <3>1
      <3> HIDE DEF list, query
      <3>7. IdentifySound(list, query, Sampled(s))
        BY <3>5, IdentificationIsSound
      <3>8. QED
        BY <3>6, <3>7 DEF MatchingSound, Is
    <2>4. QED
      BY <1>2, <2>1, <2>2, <2>3 DEF MatchingNext
  <1>3. QED
    BY <1>1, <1>2, PTL DEF MatchingSpec

-----------------------------------------------------------------------------
(* Corrections of defective pixels. *)

\* The visits of the entries, one after the other.
Uncorrected(list) == [image |-> [p \in Pixel |-> {p}], done |-> {}, excluded |-> Range(list)]
IsVisiting(w, list) ==
  w = [k \in 0 .. 4 * Len(list) |-> IF k = 0 THEN Uncorrected(list) ELSE Visit(list, w[k - 1], k)]

\* The pixels that a pass takes for p if those in E are listed, and whether it takes them.
Neighbours(E, p, j) == Around(p, Passes[j].r) \ E
Works(E, p, j) ==
  /\ Passes[j].all \/ OnEdge(p)
  /\ ~ (Cardinality(Neighbours(E, p, j)) < Passes[j].enough)
\* The first pass that does.
FirstPass(E, p) == CHOOSE j \in 1 .. 4 : Works(E, p, j) /\ \A l \in 1 .. j - 1 : ~Works(E, p, l)

\* After k visits each entry has what the first pass that worked for it took.
Visited(list, k, s) ==
  LET n == Len(list)
      E == Range(list)
  IN  /\ s.excluded = E
      /\ s.done = {i \in 1 .. n : \E j \in 1 .. 4 : (j - 1) * n + i <= k /\ Works(E, list[i], j)}
      /\ s.image = [p \in Pixel |-> IF \E i \in s.done : list[i] = p
                                    THEN Neighbours(E, p, FirstPass(E, p)) ELSE {p}]

\* What the visits may leave.
Correcting(list) ==
  [image : [Pixel -> SUBSET Pixel], done : SUBSET (1 .. Len(list)), excluded : {Range(list)}]

\* What the passes are.
LEMMA PassesAre ==
  /\ Passes[1] = [r |-> 1, enough |-> 1, all |-> TRUE] /\ Passes[2] = [r |-> 2, enough |-> 6, all |-> TRUE]
  /\ Passes[3] = [r |-> 2, enough |-> 1, all |-> FALSE] /\ Passes[4] = [r |-> 3, enough |-> 1, all |-> FALSE]
  BY DEF Passes

\* A visit is that of some entry in some pass.
LEMMA VisitOf ==
  ASSUME NEW n \in Nat, NEW k \in 1 .. 4 * n
  PROVE  LET j == 1 + ((k - 1) \div n)
             i == 1 + ((k - 1) % n)
         IN  j \in 1 .. 4 /\ i \in 1 .. n /\ (j - 1) * n + i = k
  <1> DEFINE d == (k - 1) \div n
             m == (k - 1) % n
  <1>1. n > 0 /\ k - 1 \in Nat
    OBVIOUS
  <1>2. d \in Int /\ m \in 0 .. n - 1 /\ k - 1 = n * d + m
    BY <1>1
  <1> HIDE DEF d, m
  <1>3. d * n = n * d
    BY <1>1, <1>2
  <1>4. d >= 0
    <2> SUFFICES ASSUME d <= -1 PROVE FALSE
      BY <1>2
    <2>1. n * d <= n * (-1)
      BY <1>1, <1>2
    <2>2. QED
      BY <1>1, <1>2, <2>1
  <1>5. d <= 3
    <2> SUFFICES ASSUME d >= 4 PROVE FALSE
      BY <1>2
    <2>1. n * d >= n * 4
      BY <1>1, <1>2
    <2>2. QED
      BY <1>1, <1>2, <2>1
  <1>6. QED
    BY <1>1, <1>2, <1>3, <1>4, <1>5 DEF d, m

\* A window lies in the image.
LEMMA AroundIn ==
  ASSUME NEW p, NEW r
  PROVE  Around(p, r) \subseteq Pixel
  BY DEF Around

\* Correcting an entry leaves a set of pixels for each pixel.
LEMMA VisitStays ==
  ASSUME NEW list \in Seq(Pixel), NEW k \in 1 .. 4 * Len(list), NEW s \in Correcting(list)
  PROVE  Visit(list, s, k) \in Correcting(list)
  <1> DEFINE n    == Len(list)
             pass == Passes[1 + ((k - 1) \div n)]
             i    == 1 + ((k - 1) % n)
             near == Around(list[i], pass.r) \ s.excluded
             new  == [image |-> [s.image EXCEPT ![list[i]] = UNION {s.image[q] : q \in near}],
                      done |-> s.done \cup {i}, excluded |-> s.excluded]
  <1>1. n \in Nat /\ i \in 1 .. n
    <2>1. n \in Nat
      OBVIOUS
    <2>2. QED
      BY <2>1, VisitOf
  <1>2. Visit(list, s, k) = s \/ Visit(list, s, k) = new
    BY DEF Visit, Correct
  <1>3. near \subseteq Pixel
    BY AroundIn
  <1>4. s.image \in [Pixel -> SUBSET Pixel] /\ s.done \in SUBSET (1 .. n) /\ s.excluded = Range(list)
    BY DEF Correcting
  <1> HIDE DEF near, i, n
  <1>5. UNION {s.image[q] : q \in near} \in SUBSET Pixel
    BY <1>3, <1>4
  <1>6. new \in Correcting(list)
    <2>1. new.image \in [Pixel -> SUBSET Pixel]
      BY <1>4, <1>5
    <2>2. QED
      BY <1>1, <1>4, <2>1 DEF Correcting, n
  <1>7. QED
    BY <1>2, <1>6

\* The entries' corrections are made of visits (correct_defective_pixels_mode).
LEMMA VisitingIs ==
  ASSUME NEW list \in Seq(Pixel)
  PROVE  \E w : /\ IsVisiting(w, list)
                /\ CorrectDefects(list) =
                     IF Len(list) > MaxDefects \/ w[4 * Len(list)].done # 1 .. Len(list) THEN [status |-> 1001]
                     ELSE [status |-> 0, image |-> w[4 * Len(list)].image]
  <1> DEFINE N == 4 * Len(list)
             V == Correcting(list)
             D == (0 .. N) \X V
             Next1(k, s) == IF k = 0 THEN Uncorrected(list) ELSE Visit(list, s, k)
             step == [a \in D |-> Next1(a[1], a[2])]
  <1>1. N \in Nat /\ Uncorrected(list) \in V
    <2>1. [p \in Pixel |-> {p}] \in [Pixel -> SUBSET Pixel]
      OBVIOUS
    <2>2. Uncorrected(list) \in V
      BY <2>1 DEF Uncorrected, Correcting
    <2>3. QED
      BY <2>2
  <1>2. ASSUME NEW k \in 0 .. N, NEW s \in V
        PROVE  Next1(k, s) \in V
    <2>1. CASE k = 0
      BY <1>1, <2>1
    <2>2. CASE k # 0
      <3>1. k \in 1 .. 4 * Len(list)
        BY <1>1, <2>2
      <3>2. Visit(list, s, k) \in V
        BY <3>1, VisitStays
      <3>3. QED
        BY <2>2, <3>2
    <2>3. QED
      BY <2>1, <2>2
  <1> HIDE DEF Next1, V, N
  <1>3. \A k \in 0 .. N, s \in V : step[<<k, s>>] = Next1(k, s)
    OBVIOUS
  <1>4. step \in [D -> V]
    <2>1. \A a \in D : a[1] \in 0 .. N /\ a[2] \in V /\ Next1(a[1], a[2]) \in V
      BY <1>2
    <2>2. QED
      BY <2>1
  <1> HIDE DEF step
  <1>5. PICK f : IsWalk(f, N, V, Uncorrected(list), step)
    BY <1>1, <1>4, WalkExists DEF Stepping
  <1>6. f = [k \in 0 .. N |-> IF k = 0 THEN Uncorrected(list) ELSE Visit(list, f[k - 1], k)]
    <2>1. f \in [0 .. N -> V] /\ \A k \in 0 .. N : f[k] = step[<<k, IF k = 0 THEN Uncorrected(list) ELSE f[k - 1]>>]
      BY <1>5 DEF IsWalk
    <2>2. ASSUME NEW k \in 0 .. N
          PROVE  f[k] = IF k = 0 THEN Uncorrected(list) ELSE Visit(list, f[k - 1], k)
      <3>1. CASE k = 0
        <4>1. f[k] = Next1(k, Uncorrected(list))
          BY <1>1, <1>3, <2>1, <3>1
        <4>2. QED
          BY <3>1, <4>1 DEF Next1
      <3>2. CASE k # 0
        <4>1. k - 1 \in 0 .. N
          BY <1>1, <3>2
        <4>2. f[k] = Next1(k, f[k - 1])
          BY <1>3, <2>1, <3>2, <4>1
        <4>3. QED
          BY <3>2, <4>2 DEF Next1
      <3>3. QED
        BY <3>1, <3>2
    <2>3. QED
      BY <2>1, <2>2
  <1>7. IsVisiting(f, list)
    BY <1>6 DEF IsVisiting, N
  <1> DEFINE w == CHOOSE u : IsVisiting(u, list)
  <1>8. CorrectDefects(list) =
          IF Len(list) > MaxDefects \/ w[N].done # 1 .. Len(list) THEN [status |-> 1001]
          ELSE [status |-> 0, image |-> w[N].image]
    BY DEF CorrectDefects, IsVisiting, Uncorrected, N
  <1>9. IsVisiting(w, list)
    BY <1>7
  <1>10. QED
    BY <1>8, <1>9 DEF N

\* The first pass that works for p, if one does.
LEMMA FirstPassIs ==
  ASSUME NEW E, NEW p, NEW j \in 1 .. 4, Works(E, p, j), \A l \in 1 .. j - 1 : ~Works(E, p, l)
  PROVE  FirstPass(E, p) = j
  <1> DEFINE W(x) == Works(E, p, x)
  <1> HIDE DEF W
  <1>1. \A x \in 1 .. 4 : W(x) /\ (\A l \in 1 .. x - 1 : ~W(l)) => x = j
    <2>1. W(j) /\ \A l \in 1 .. j - 1 : ~W(l)
      BY DEF W
    <2>2. QED
      BY <2>1
  <1>2. QED
    BY <1>1 DEF FirstPass, W

\* A visit keeps entries at what the first pass that worked took
\* (correct_defective_pixels_mode).
LEMMA VisitMeans ==
  ASSUME NEW list \in Seq(Pixel), NEW k \in 1 .. 4 * Len(list), NEW s \in Correcting(list), Visited(list, k - 1, s)
  PROVE  Visited(list, k, Visit(list, s, k))
  <1> DEFINE n    == Len(list)
             E    == Range(list)
             j    == 1 + ((k - 1) \div n)
             i    == 1 + ((k - 1) % n)
             p    == list[i]
             near == Neighbours(E, p, j)
             new  == [image |-> [s.image EXCEPT ![p] = UNION {s.image[q] : q \in near}],
                      done |-> s.done \cup {i}, excluded |-> s.excluded]
             t    == Visit(list, s, k)
  <1>1. n \in Nat /\ DOMAIN list = 1 .. n /\ \A x \in 1 .. n : list[x] \in Pixel /\ list[x] \in E
    BY DEF Range
  <1>2. j \in 1 .. 4 /\ i \in 1 .. n /\ (j - 1) * n + i = k
    BY <1>1, VisitOf
  <1>3. /\ s.excluded = E
        /\ s.done = {x \in 1 .. n : \E l \in 1 .. 4 : (l - 1) * n + x <= k - 1 /\ Works(E, list[x], l)}
        /\ s.image = [q \in Pixel |-> IF \E x \in s.done : list[x] = q
                                      THEN Neighbours(E, q, FirstPass(E, q)) ELSE {q}]
    BY DEF Visited
  <1>4. t = IF i \notin s.done /\ Works(E, p, j) THEN new ELSE s
    BY <1>3 DEF Visit, Correct, Works, Neighbours
  <1> HIDE DEF i, j, n, E, t
  \* The entries that some pass has worked for by then.
  <1>5. \A x \in 1 .. n, l \in 1 .. 4 :
          (l - 1) * n + x <= k <=> ((l - 1) * n + x <= k - 1 \/ (l = j /\ x = i))
    <2>1. ASSUME NEW x \in 1 .. n, NEW l \in 1 .. 4, (l - 1) * n + x = (j - 1) * n + i
          PROVE  l = j /\ x = i
      <3>1. CASE l < j
        <4>1. j - l \in 1 .. 3 /\ j = l + (j - l)
          BY <1>2, <3>1
        <4>2. PICK d \in 1 .. 3 : j = l + d
          BY <4>1
        <4>3. (l + d - 1) * n = (l - 1) * n + d * n /\ d * n >= n /\ (l - 1) * n \in Int
          BY <1>1, <4>2
        <4>4. QED
          BY <1>1, <1>2, <2>1, <4>2, <4>3
      <3>2. CASE l > j
        <4>1. l - j \in 1 .. 3 /\ l = j + (l - j)
          BY <1>2, <3>2
        <4>2. PICK d \in 1 .. 3 : l = j + d
          BY <4>1
        <4>3. (j + d - 1) * n = (j - 1) * n + d * n /\ d * n >= n /\ (j - 1) * n \in Int
          BY <1>1, <1>2, <4>2
        <4>4. QED
          BY <1>1, <1>2, <2>1, <4>2, <4>3
      <3>3. CASE l = j
        BY <1>1, <1>2, <2>1, <3>3
      <3>4. QED
        BY <1>2, <3>1, <3>2, <3>3
    <2>2. ASSUME NEW x \in 1 .. n, NEW l \in 1 .. 4
          PROVE  (l - 1) * n + x <= k <=> ((l - 1) * n + x <= k - 1 \/ (l = j /\ x = i))
      <3>1. k \in Int /\ (l - 1) * n + x \in Int
        BY <1>1
      <3>2. (l - 1) * n + x = k <=> (l = j /\ x = i)
        BY <1>2, <2>1
      <3>3. QED
        BY <3>1, <3>2
    <2>3. QED
      BY <2>2
  <1> DEFINE after == {x \in 1 .. n : \E l \in 1 .. 4 : (l - 1) * n + x <= k /\ Works(E, list[x], l)}
  <1>6. \A x \in 1 .. n : x \in after <=> (x \in s.done \/ (x = i /\ Works(E, p, j)))
    <2> SUFFICES ASSUME NEW x \in 1 .. n
                 PROVE  x \in after <=> (x \in s.done \/ (x = i /\ Works(E, p, j)))
      OBVIOUS
    <2>1. x \in s.done <=> \E l \in 1 .. 4 : (l - 1) * n + x <= k - 1 /\ Works(E, list[x], l)
      BY <1>3
    <2>2. x \in after <=> \E l \in 1 .. 4 : ((l - 1) * n + x <= k - 1 \/ (l = j /\ x = i)) /\ Works(E, list[x], l)
      BY <1>5
    <2>3. QED
      BY <1>2, <2>1, <2>2, Zenon
  <1>7. CASE ~ (i \notin s.done /\ Works(E, p, j))
    <2>1. after = s.done
      BY <1>2, <1>3, <1>6, <1>7
    <2>2. t = s
      BY <1>4, <1>7
    <2>3. QED
      BY <1>3, <2>1, <2>2 DEF Visited, n, E, t
  <1>8. CASE i \notin s.done /\ Works(E, p, j)
    <2>1. after = s.done \cup {i}
      BY <1>2, <1>3, <1>6, <1>8
    <2>2. t.done = after /\ t.excluded = E /\ t.image = [s.image EXCEPT ![p] = UNION {s.image[q] : q \in near}]
      BY <1>3, <1>4, <1>8, <2>1
    <2>3. near \subseteq Pixel /\ near \cap E = {}
      BY AroundIn DEF Neighbours
    <2>4. \A q \in near : s.image[q] = {q}
      <3> SUFFICES ASSUME NEW q \in near PROVE s.image[q] = {q}
        OBVIOUS
      <3>1. q \in Pixel /\ ~ \E x \in s.done : list[x] = q
        BY <1>1, <1>3, <2>3
      <3>2. QED
        BY <1>3, <3>1
    <2>5. UNION {s.image[q] : q \in near} = near
      BY <2>4
    <2>6. FirstPass(E, p) = j
      <3>1. \A l \in 1 .. j - 1 : ~Works(E, p, l)
        <4> SUFFICES ASSUME NEW l \in 1 .. j - 1, Works(E, p, l) PROVE FALSE
          OBVIOUS
        <4>1. l \in 1 .. 4 /\ l < j
          BY <1>2
        <4>2. (l - 1) * n + i <= k
          <5>1. j - l \in 1 .. 3 /\ j = l + (j - l)
            BY <1>2, <4>1
          <5>2. PICK d \in 1 .. 3 : j = l + d
            BY <5>1
          <5>3. (l + d - 1) * n = (l - 1) * n + d * n
            BY <1>1, <5>2
          <5>4. d * n >= n /\ (l - 1) * n \in Int
            BY <1>1, <5>2
          <5>5. QED
            BY <1>1, <1>2, <5>2, <5>3, <5>4
        <4>3. (l - 1) * n + i <= k - 1
          BY <1>2, <1>5, <4>1, <4>2
        <4>4. i \in s.done
          BY <1>2, <1>3, <4>1, <4>3
        <4>5. QED
          BY <1>8, <4>4
      <3>2. QED
        BY <1>2, <1>8, <3>1, FirstPassIs
    <2>7. \A q \in Pixel : t.image[q] = IF \E x \in after : list[x] = q
                                       THEN Neighbours(E, q, FirstPass(E, q)) ELSE {q}
      <3> HIDE DEF after, near
      <3> SUFFICES ASSUME NEW q \in Pixel
                   PROVE  t.image[q] = IF \E x \in after : list[x] = q
                                       THEN Neighbours(E, q, FirstPass(E, q)) ELSE {q}
        OBVIOUS
      <3>1. CASE q = p
        <4>1. t.image[q] = near
          BY <1>3, <2>2, <2>5, <3>1
        <4>2. near = Neighbours(E, q, FirstPass(E, q))
          BY <2>6, <3>1 DEF near
        <4>3. QED
          BY <2>1, <3>1, <4>1, <4>2
      <3>2. CASE q # p
        <4>1. t.image[q] = s.image[q]
          BY <1>3, <2>2, <3>2
        <4>2. (\E x \in after : list[x] = q) <=> \E x \in s.done : list[x] = q
          BY <2>1, <3>2
        <4>3. QED
          BY <1>3, <4>1, <4>2
      <3>3. QED
        BY <3>1, <3>2
    <2>8. t.image = [q \in Pixel |-> IF \E x \in after : list[x] = q
                                     THEN Neighbours(E, q, FirstPass(E, q)) ELSE {q}]
      <3> HIDE DEF after, near, new
      <3>1. t.image = [q \in Pixel |-> t.image[q]]
        BY <1>3, <2>2
      <3>2. QED
        BY <2>7, <3>1
    <2>9. t.image = [q \in Pixel |-> IF \E x \in t.done : list[x] = q
                                     THEN Neighbours(E, q, FirstPass(E, q)) ELSE {q}]
      <3> HIDE DEF after, near, new
      <3>1. QED
        BY <2>2, <2>8
    <2>10. t.done = {x \in 1 .. n : \E l \in 1 .. 4 : (l - 1) * n + x <= k /\ Works(E, list[x], l)} /\ t.excluded = E
      BY <2>2
    <2>11. QED
      BY ONLY <2>9, <2>10 DEF Visited, n, E, t
  <1>9. QED
    BY <1>7, <1>8

\* What correcting makes of a list depends on which pixels it has, if it has room:
\* each of them has what the first pass that works for it takes, unless none does
\* for one of them (correct_defective_pixels_mode).
LEMMA DefectsAre ==
  ASSUME NEW list \in Seq(Pixel)
  PROVE  LET E == Range(list)
         IN  CorrectDefects(list) =
               IF Len(list) > MaxDefects \/ \E p \in E : \A j \in 1 .. 4 : ~Works(E, p, j)
               THEN [status |-> 1001]
               ELSE [status |-> 0,
                     image |-> [p \in Pixel |-> IF p \in E THEN Neighbours(E, p, FirstPass(E, p)) ELSE {p}]]
  <1> DEFINE n == Len(list)
             N == 4 * n
             E == Range(list)
  <1>1. PICK w : /\ IsVisiting(w, list)
                 /\ CorrectDefects(list) = IF n > MaxDefects \/ w[N].done # 1 .. n THEN [status |-> 1001]
                                           ELSE [status |-> 0, image |-> w[N].image]
    BY VisitingIs
  <1>2. n \in Nat /\ N \in Nat /\ DOMAIN list = 1 .. n /\ E = {list[i] : i \in 1 .. n}
    BY DEF Range
  <1>3. w = [k \in 0 .. N |-> IF k = 0 THEN Uncorrected(list) ELSE Visit(list, w[k - 1], k)]
    BY <1>1 DEF IsVisiting
  <1> DEFINE P == {k \in 0 .. N : w[k] \in Correcting(list) /\ Visited(list, k, w[k])}
  <1>4. 0 \in P
    <2>1. w[0] = Uncorrected(list)
      BY <1>2, <1>3
    <2>2. Uncorrected(list) \in Correcting(list)
      <3>1. [p \in Pixel |-> {p}] \in [Pixel -> SUBSET Pixel]
        OBVIOUS
      <3>2. QED
        BY <3>1 DEF Uncorrected, Correcting
    <2>3. Visited(list, 0, Uncorrected(list))
      <3>1. \A i \in 1 .. n, j \in 1 .. 4 : ~ ((j - 1) * n + i <= 0)
        <4> SUFFICES ASSUME NEW i \in 1 .. n, NEW j \in 1 .. 4 PROVE ~ ((j - 1) * n + i <= 0)
          OBVIOUS
        <4>1. (j - 1) * n \in Nat
          BY <1>2
        <4>2. QED
          BY <1>2, <4>1
      <3>2. QED
        BY <1>2, <3>1 DEF Visited, Uncorrected
    <2>4. QED
      BY <1>2, <2>1, <2>2, <2>3
  <1>5. \A k \in P : 0 <= k /\ k < N => k + 1 \in P
    <2> SUFFICES ASSUME NEW k \in P, k < N PROVE k + 1 \in P
      OBVIOUS
    <2>1. k + 1 \in 1 .. N /\ (k + 1) - 1 = k /\ k + 1 # 0 /\ k + 1 \in 0 .. N
      BY <1>2
    <2>2. w[k + 1] = Visit(list, w[k], k + 1)
      BY <1>3, <2>1
    <2>3. QED
      BY <2>1, <2>2, VisitStays, VisitMeans
  <1>6. N \in P
    <2> HIDE DEF P, N
    <2>1. 0 .. N \subseteq P
      BY <1>2, <1>4, <1>5, IntervalInduction
    <2>2. QED
      BY <1>2, <2>1
  <1>7. /\ w[N].done = {i \in 1 .. n : \E j \in 1 .. 4 : Works(E, list[i], j)}
        /\ w[N].image = [p \in Pixel |-> IF \E i \in w[N].done : list[i] = p
                                         THEN Neighbours(E, p, FirstPass(E, p)) ELSE {p}]
    <2>1. \A i \in 1 .. n, j \in 1 .. 4 : (j - 1) * n + i <= N
      BY <1>2
    <2>2. /\ w[N].done = {i \in 1 .. n : \E j \in 1 .. 4 : (j - 1) * n + i <= N /\ Works(E, list[i], j)}
          /\ w[N].image = [p \in Pixel |-> IF \E i \in w[N].done : list[i] = p
                                           THEN Neighbours(E, p, FirstPass(E, p)) ELSE {p}]
      BY <1>6 DEF Visited
    <2> HIDE DEF N, n, E
    <2>3. QED
      BY <2>1, <2>2
  <1>8. w[N].done # 1 .. n <=> \E p \in E : \A j \in 1 .. 4 : ~Works(E, p, j)
    <2> HIDE DEF N, n, E
    <2>1. w[N].done = 1 .. n <=> \A i \in 1 .. n : \E j \in 1 .. 4 : Works(E, list[i], j)
      BY <1>7
    <2>2. (\E p \in E : \A j \in 1 .. 4 : ~Works(E, p, j)) <=> \E i \in 1 .. n : \A j \in 1 .. 4 : ~Works(E, list[i], j)
      BY <1>2
    <2>3. QED
      BY <2>1, <2>2
  <1>9. CASE n > MaxDefects \/ w[N].done # 1 .. n
    BY <1>1, <1>8, <1>9
  <1>10. CASE ~ (n > MaxDefects \/ w[N].done # 1 .. n)
    <2>1. \A p \in Pixel : (\E i \in w[N].done : list[i] = p) <=> p \in E
      BY <1>2, <1>10
    <2>2. w[N].image = [p \in Pixel |-> IF p \in E THEN Neighbours(E, p, FirstPass(E, p)) ELSE {p}]
      <3> HIDE DEF E
      <3>1. QED
        BY <1>7, <2>1
    <2>3. QED
      BY <1>1, <1>8, <1>10, <2>2
  <1>11. QED
    BY <1>9, <1>10

\* A pass that works for a pixel takes some that are not listed.
LEMMA WorksTakes ==
  ASSUME NEW E, NEW p, NEW j \in 1 .. 4, Works(E, p, j)
  PROVE  /\ FirstPass(E, p) \in 1 .. 4 /\ Works(E, p, FirstPass(E, p))
         /\ Neighbours(E, p, FirstPass(E, p)) # {}
  <1> DEFINE T == {l \in 1 .. 4 : Works(E, p, l)}
             f == FirstPass(E, p)
  <1>1. T \in SUBSET Nat /\ T # {}
    OBVIOUS
  <1>2. PICK m \in T : \A l \in T : m <= l
    BY <1>1, LeastElement
  <1>3. \A l \in 1 .. m - 1 : ~Works(E, p, l)
    BY <1>2
  <1>4. f = m
    BY <1>2, <1>3, FirstPassIs
  <1>5. Neighbours(E, p, f) # {}
    <2>1. \A l \in 1 .. 4 : Passes[l].enough \in {1, 6}
      BY PassesAre
    <2>2. Cardinality({}) = 0
      BY FS_EmptySet
    <2>3. ~ (Cardinality(Neighbours(E, p, m)) < Passes[m].enough)
      BY <1>2 DEF Works
    <2>4. QED
      BY <1>2, <1>4, <2>1, <2>2, <2>3
  <1>6. QED
    BY <1>2, <1>4, <1>5

\* What correct_defective_pixels_mode promises, for all lists of pixels.
THEOREM DefectsAreSound ==
  ASSUME NEW list \in Seq(Pixel)
  PROVE  DefectsSound(list)
  <1> DEFINE n    == Len(list)
             E    == Range(list)
             r    == CorrectDefects(list)
             Back == [i \in DOMAIN list |-> list[n + 1 - i]]
             Lost == \E p \in E : \A j \in 1 .. 4 : ~Works(E, p, j)
             made == [p \in Pixel |-> IF p \in E THEN Neighbours(E, p, FirstPass(E, p)) ELSE {p}]
  <1>1. r = IF n > MaxDefects \/ Lost THEN [status |-> 1001] ELSE [status |-> 0, image |-> made]
    BY DefectsAre
  <1>2. n \in Nat /\ DOMAIN list = 1 .. n /\ E = {list[i] : i \in 1 .. n} /\ MaxDefects \in Nat
    <2>1. MaxDefects \in Nat
      BY ImageAssumption
    <2>2. QED
      BY <2>1 DEF Range
  <1>3. Back \in Seq(Pixel) /\ Len(Back) = n /\ Range(Back) = E
    <2>1. \A i \in 1 .. n : n + 1 - i \in 1 .. n /\ n + 1 - (n + 1 - i) = i
      BY <1>2
    <2>2. Back = [i \in 1 .. n |-> list[n + 1 - i]]
      BY <1>2
    <2>3. Back \in [1 .. n -> Pixel]
      BY <2>1, <2>2
    <2>4. Back \in Seq(Pixel) /\ Len(Back) = n
      BY <1>2, <2>3
    <2>5. Range(Back) = {Back[i] : i \in 1 .. n}
      BY <2>2 DEF Range
    <2>6. \A i \in 1 .. n : Back[i] = list[n + 1 - i] /\ Back[n + 1 - i] = list[i]
      BY <2>1, <2>2
    <2>7. Range(Back) \subseteq E
      <3> HIDE DEF Back, E
      <3>1. QED
        BY <1>2, <2>1, <2>5, <2>6
    <2>8. E \subseteq Range(Back)
      <3> HIDE DEF Back, E
      <3>1. QED
        BY <1>2, <2>1, <2>5, <2>6
    <2>9. QED
      BY <2>4, <2>7, <2>8
  <1>4. CorrectDefects(Back) = r
    <2> HIDE DEF Back
    <2>1. QED
      BY <1>1, <1>3, DefectsAre
  <1>5. ASSUME 2 * n <= MaxDefects
        PROVE  CorrectDefects(list \o Back) = r
    <2> DEFINE both == list \o Back
    <2> HIDE DEF Back
    <2>1. both \in Seq(Pixel) /\ Len(both) = n + n
      BY <1>3
    <2>2. Range(both) = E
      <3>1. \A i \in 1 .. n + n : both[i] = IF i <= n THEN list[i] ELSE Back[i - n]
        BY <1>2, <1>3
      <3>2. DOMAIN both = 1 .. n + n /\ DOMAIN Back = 1 .. n
        BY <2>1, <1>3
      <3>3. \A i \in 1 .. n : i \in 1 .. n + n /\ both[i] = list[i]
        BY <1>2, <3>1
      <3>4. \A i \in 1 .. n + n : both[i] \in E
        <4>1. \A i \in 1 .. n : Back[i] \in E
          BY <1>3, <3>2 DEF Range
        <4>2. \A i \in 1 .. n + n : i \in 1 .. n \/ i - n \in 1 .. n
          BY <1>2
        <4>3. QED
          <5> SUFFICES ASSUME NEW i \in 1 .. n + n PROVE both[i] \in E
            OBVIOUS
          <5>1. CASE i \in 1 .. n
            BY <1>2, <3>3, <5>1
          <5>2. CASE i - n \in 1 .. n
            <6>1. both[i] = Back[i - n]
              <7>1. ~ (i <= n)
                BY <1>2, <5>2
              <7> HIDE DEF both
              <7>2. QED
                BY <3>1, <7>1
            <6>2. QED
              BY <4>1, <5>2, <6>1
          <5>3. QED
            BY <4>2, <5>1, <5>2
      <3>5. Range(both) = {both[i] : i \in 1 .. n + n}
        BY <3>2 DEF Range
      <3> HIDE DEF both, E
      <3>6. Range(both) \subseteq E
        BY <3>4, <3>5
      <3>7. E \subseteq Range(both)
        BY <1>2, <3>3, <3>5
      <3>8. QED
        BY <3>6, <3>7
    <2>3. ~ (n + n > MaxDefects) /\ ~ (n > MaxDefects)
      BY <1>2, <1>5
    <2> HIDE DEF both
    <2>4. CorrectDefects(both) = IF n + n > MaxDefects \/ Lost THEN [status |-> 1001] ELSE [status |-> 0, image |-> made]
      <3>1. LET F == Range(both)
            IN  CorrectDefects(both) =
                  IF Len(both) > MaxDefects \/ \E p \in F : \A j \in 1 .. 4 : ~Works(F, p, j)
                  THEN [status |-> 1001]
                  ELSE [status |-> 0,
                        image |-> [p \in Pixel |-> IF p \in F THEN Neighbours(F, p, FirstPass(F, p)) ELSE {p}]]
        BY <2>1, DefectsAre
      <3> HIDE DEF E
      <3>2. QED
        BY ONLY <2>1, <2>2, <3>1
    <2>5. CorrectDefects(both) = r
      <3> HIDE DEF made, Lost, r
      <3>1. QED
        BY ONLY <1>1, <2>3, <2>4
    <2>6. QED
      BY <2>5 DEF both
  <1>6. ASSUME r.status = 0
        PROVE  /\ \A p \in Pixel : r.image[p] # {} /\ r.image[p] \cap E = {}
               /\ \A p \in Pixel \ E : r.image[p] = {p}
    <2>1. ~Lost /\ r.image = made
      BY <1>1, <1>6
    <2>2. ASSUME NEW p \in Pixel
          PROVE  /\ made[p] # {} /\ made[p] \cap E = {}
                 /\ p \notin E => made[p] = {p}
      <3>1. CASE p \notin E
        BY <3>1
      <3>2. CASE p \in E
        <4>1. PICK j \in 1 .. 4 : Works(E, p, j)
          BY <2>1, <3>2
        <4>2. Neighbours(E, p, FirstPass(E, p)) # {}
          BY <4>1, WorksTakes
        <4>3. Neighbours(E, p, FirstPass(E, p)) \cap E = {}
          BY DEF Neighbours
        <4>4. made[p] = Neighbours(E, p, FirstPass(E, p))
          BY <3>2
        <4>5. QED
          BY <3>2, <4>2, <4>3, <4>4
      <3>3. QED
        BY <3>1, <3>2
    <2> HIDE DEF made
    <2>3. QED
      BY <2>1, <2>2
  <1>7. QED
    <2> HIDE DEF r
    <2>1. /\ r.status = 0 => /\ \A p \in Pixel : r.image[p] # {} /\ r.image[p] \cap E = {}
                             /\ \A p \in Pixel \ E : r.image[p] = {p}
          /\ CorrectDefects(Back) = r
          /\ 2 * n <= MaxDefects => CorrectDefects(list \o Back) = r
      BY <1>4, <1>5, <1>6
    <2>2. QED
      BY <2>1 DEF DefectsSound, r

-----------------------------------------------------------------------------
(* The mask. *)

\* Points at most so many rows and columns apart, and the points of the grid that
\* close to a set.
NoFarther(p, q, r) == Size(q[1] - p[1]) <= r /\ Size(q[2] - p[2]) <= r
Reached(S, r)   == {p \in Grid : \E q \in S : NoFarther(p, q, r)}

\* The grid is made of pairs.
LEMMA GridFacts ==
  /\ Width \in Nat /\ Height \in Nat /\ Margin \in Nat /\ Closing \in Nat /\ Eroding \in Nat
  /\ \A p \in Grid : p = <<p[1], p[2]>> /\ p[1] \in 0 .. Width + 2 * Margin - 1 /\ p[2] \in 0 .. Height + 2 * Margin - 1
  /\ \A x \in 0 .. Width + 2 * Margin - 1, y \in 0 .. Height + 2 * Margin - 1 : <<x, y>> \in Grid
  <1>1. {Margin, Closing, Eroding} \subseteq Nat /\ Width \in Nat /\ Height \in Nat
    BY ImageAssumption
  <1>2. QED
    BY <1>1 DEF Grid

\* A point and its neighbours on either side.
LEMMA BesideIs ==
  ASSUME NEW x \in Int, NEW y \in Int
  PROVE  /\ Beside(<<x, y>>, 1) = {<<x + d, y>> : d \in {-1, 0, 1}}
         /\ Beside(<<x, y>>, 2) = {<<x, y + d>> : d \in {-1, 0, 1}}
  <1>1. ASSUME NEW d \in {-1, 0, 1}
        PROVE  /\ [<<x, y>> EXCEPT ![1] = @ + d] = <<x + d, y>>
               /\ [<<x, y>> EXCEPT ![2] = @ + d] = <<x, y + d>>
    OBVIOUS
  <1>2. QED
    BY <1>1 DEF Beside

\* Dilating adds what is next to a set, diagonally too (morph).
LEMMA DilateIs ==
  ASSUME NEW S \in SUBSET Grid
  PROVE  Dilate(S) = Reached(S, 1)
  <1> DEFINE A == DilateAcross(S, 1)
  <1>1. ASSUME NEW p \in Dilate(S)
        PROVE  p \in Reached(S, 1)
    <2>1. p \in Grid /\ Beside(p, 2) \cap A # {}
      BY DEF Dilate, DilateAcross
    <2>2. PICK m \in A : m \in Beside(p, 2)
      BY <2>1
    <2>3. m \in Grid /\ Beside(m, 1) \cap S # {}
      BY <2>2 DEF DilateAcross
    <2>4. PICK q \in S : q \in Beside(m, 1)
      BY <2>3
    <2>5. /\ p = <<p[1], p[2]>> /\ p[1] \in Int /\ p[2] \in Int
          /\ m = <<m[1], m[2]>> /\ m[1] \in Int /\ m[2] \in Int
          /\ q = <<q[1], q[2]>> /\ q[1] \in Int /\ q[2] \in Int
      BY <2>1, <2>3, <2>4, GridFacts
    <2>6. PICK d \in {-1, 0, 1} : m = <<p[1], p[2] + d>>
      BY <2>2, <2>5, BesideIs
    <2>7. PICK e \in {-1, 0, 1} : q = <<m[1] + e, m[2]>>
      BY <2>4, <2>5, BesideIs
    <2>8. q[1] - p[1] = e /\ q[2] - p[2] = d
      BY <2>5, <2>6, <2>7
    <2>9. NoFarther(p, q, 1)
      BY <2>8 DEF NoFarther, Size
    <2>10. QED
      BY <2>1, <2>4, <2>9 DEF Reached
  <1>2. ASSUME NEW p \in Reached(S, 1)
        PROVE  p \in Dilate(S)
    <2>1. p \in Grid
      BY DEF Reached
    <2>2. PICK q \in S : NoFarther(p, q, 1)
      BY DEF Reached
    <2>3. /\ p = <<p[1], p[2]>> /\ p[1] \in Int /\ p[2] \in Int
          /\ q = <<q[1], q[2]>> /\ q[1] \in Int /\ q[2] \in Int /\ q \in Grid
      BY <2>1, GridFacts
    <2> DEFINE m == <<p[1], q[2]>>
    <2>4. m \in Grid /\ m[1] = p[1] /\ m[2] = q[2]
      BY <2>1, <2>3, GridFacts
    <2>5. q[1] - p[1] \in {-1, 0, 1} /\ q[2] - p[2] \in {-1, 0, 1}
      BY <2>2, <2>3 DEF NoFarther, Size
    <2>6. q \in Beside(m, 1)
      <3>1. q = <<p[1] + (q[1] - p[1]), q[2]>>
        BY <2>3
      <3>2. QED
        BY <2>3, <2>5, <3>1, BesideIs
    <2>7. m \in Beside(p, 2)
      <3>1. m = <<p[1], p[2] + (q[2] - p[2])>>
        BY <2>3
      <3>2. m \in Beside(<<p[1], p[2]>>, 2)
        BY <2>3, <2>5, <3>1, BesideIs
      <3>3. QED
        BY <2>3, <3>2
    <2> HIDE DEF m
    <2>8. m \in A
      BY <2>4, <2>6 DEF DilateAcross
    <2>9. QED
      BY <2>1, <2>7, <2>8 DEF Dilate, DilateAcross
  <1>3. QED
    BY <1>1, <1>2

\* A step from what is within reach reaches one further.
LEMMA DilateFurther ==
  ASSUME NEW S \in SUBSET Grid, NEW r \in Nat
  PROVE  Dilate(Reached(S, r)) = Reached(S, r + 1) /\ Reached(S, 0) = S
  <1> DEFINE R == Reached(S, r)
  <1>1. R \in SUBSET Grid
    BY DEF Reached
  <1>2. Dilate(R) = Reached(R, 1)
    BY <1>1, DilateIs
  <1>3. ASSUME NEW p \in Grid, NEW m \in Grid, NEW q \in Grid, NoFarther(p, m, 1), NoFarther(m, q, r)
        PROVE  NoFarther(p, q, r + 1)
    <2>1. /\ p[1] \in Int /\ p[2] \in Int /\ m[1] \in Int /\ m[2] \in Int /\ q[1] \in Int /\ q[2] \in Int
      BY GridFacts
    <2>2. QED
      BY <1>3, <2>1 DEF NoFarther, Size
  <1>4. ASSUME NEW p \in Grid, NEW q \in Grid, NoFarther(p, q, r + 1)
        PROVE  \E m \in Grid : NoFarther(p, m, 1) /\ NoFarther(m, q, r)
    <2> DEFINE Step(a, b) == IF a < b THEN a + 1 ELSE IF b < a THEN a - 1 ELSE a
               m == <<Step(p[1], q[1]), Step(p[2], q[2])>>
    <2>1. /\ p[1] \in Int /\ p[2] \in Int /\ q[1] \in Int /\ q[2] \in Int
          /\ p[1] \in 0 .. Width + 2 * Margin - 1 /\ p[2] \in 0 .. Height + 2 * Margin - 1
          /\ q[1] \in 0 .. Width + 2 * Margin - 1 /\ q[2] \in 0 .. Height + 2 * Margin - 1
      BY GridFacts
    <2>2. Step(p[1], q[1]) \in 0 .. Width + 2 * Margin - 1 /\ Step(p[2], q[2]) \in 0 .. Height + 2 * Margin - 1
      BY <2>1, GridFacts
    <2>3. m \in Grid /\ m[1] = Step(p[1], q[1]) /\ m[2] = Step(p[2], q[2])
      BY <2>2, GridFacts
    <2>4. ASSUME NEW a \in Int, NEW b \in Int, Size(b - a) <= r + 1
          PROVE  Size(Step(a, b) - a) <= 1 /\ Size(b - Step(a, b)) <= r
      BY <2>4 DEF Size
    <2>5. /\ Size(Step(p[1], q[1]) - p[1]) <= 1 /\ Size(q[1] - Step(p[1], q[1])) <= r
          /\ Size(Step(p[2], q[2]) - p[2]) <= 1 /\ Size(q[2] - Step(p[2], q[2])) <= r
      <3>1. Size(q[1] - p[1]) <= r + 1 /\ Size(q[2] - p[2]) <= r + 1
        BY <1>4 DEF NoFarther
      <3> HIDE DEF Step
      <3>2. QED
        BY <2>1, <2>4, <3>1
    <2> HIDE DEF m, Step
    <2>6. NoFarther(p, m, 1) /\ NoFarther(m, q, r)
      BY <2>3, <2>5 DEF NoFarther
    <2>7. QED
      BY <2>3, <2>6
  <1>5. Reached(R, 1) = Reached(S, r + 1)
    <2>1. \A p \in Grid : (\E m \in R : NoFarther(p, m, 1)) <=> \E q \in S : NoFarther(p, q, r + 1)
      <3> SUFFICES ASSUME NEW p \in Grid
                   PROVE  (\E m \in R : NoFarther(p, m, 1)) <=> \E q \in S : NoFarther(p, q, r + 1)
        OBVIOUS
      <3>1. ASSUME NEW m \in R, NoFarther(p, m, 1)
            PROVE  \E q \in S : NoFarther(p, q, r + 1)
        <4>1. m \in Grid /\ \E q \in S : NoFarther(m, q, r)
          BY DEF Reached
        <4>2. QED
          BY <1>3, <3>1, <4>1
      <3>2. ASSUME NEW q \in S, NoFarther(p, q, r + 1)
            PROVE  \E m \in R : NoFarther(p, m, 1)
        <4>1. PICK m \in Grid : NoFarther(p, m, 1) /\ NoFarther(m, q, r)
          BY <1>4, <3>2
        <4>2. m \in R
          BY <4>1 DEF Reached
        <4>3. QED
          BY <4>1, <4>2
      <3>3. QED
        BY <3>1, <3>2
    <2> HIDE DEF R
    <2>2. QED
      BY <2>1 DEF Reached
  <1>6. Reached(S, 0) = S
    <2>1. ASSUME NEW p \in Grid, NEW q \in Grid
          PROVE  NoFarther(p, q, 0) <=> p = q
      <3>1. /\ p = <<p[1], p[2]>> /\ p[1] \in Int /\ p[2] \in Int
            /\ q = <<q[1], q[2]>> /\ q[1] \in Int /\ q[2] \in Int
        BY GridFacts
      <3>2. NoFarther(p, q, 0) <=> p[1] = q[1] /\ p[2] = q[2]
        BY <3>1 DEF NoFarther, Size
      <3>3. QED
        BY <3>1, <3>2
    <2>2. QED
      BY <2>1 DEF Reached
  <1>7. QED
    BY <1>2, <1>5, <1>6

\* Eroding is dilating what is outside (morph).
LEMMA ErodeIs ==
  ASSUME NEW S \in SUBSET Grid
  PROVE  Erode(Grid \ S) = Grid \ Dilate(S)
  <1>1. ASSUME NEW T \in SUBSET Grid, NEW axis
        PROVE  ErodeAcross(Grid \ T, axis) = Grid \ DilateAcross(T, axis) /\ DilateAcross(T, axis) \in SUBSET Grid
    BY DEF ErodeAcross, DilateAcross
  <1>2. QED
    BY <1>1 DEF Erode, Dilate

\* A number of dilations reaches as far.
LEMMA DilateTimes ==
  ASSUME NEW S \in SUBSET Grid, NEW n \in Nat
  PROVE  Times(Dilate, n, S) = Reached(S, n)
  <1> DEFINE Goes(w) == w = [k \in 0 .. n |-> IF k = 0 THEN S ELSE Dilate(w[k - 1])]
             w == CHOOSE u : Goes(u)
             v == [k \in 0 .. n |-> Reached(S, k)]
  <1>1. Times(Dilate, n, S) = w[n]
    BY DEF Times
  <1>2. Goes(v)
    <2>1. \A k \in 0 .. n : v[k] = IF k = 0 THEN S ELSE Dilate(v[k - 1])
      <3> SUFFICES ASSUME NEW k \in 0 .. n PROVE v[k] = IF k = 0 THEN S ELSE Dilate(v[k - 1])
        OBVIOUS
      <3>1. CASE k = 0
        BY <3>1, DilateFurther
      <3>2. CASE k # 0
        <4>1. k - 1 \in 0 .. n /\ k - 1 \in Nat /\ (k - 1) + 1 = k
          BY <3>2
        <4>2. v[k - 1] = Reached(S, k - 1) /\ v[k] = Reached(S, k)
          BY <4>1
        <4>3. Dilate(Reached(S, k - 1)) = Reached(S, k)
          BY <4>1, DilateFurther
        <4>4. QED
          BY <3>2, <4>2, <4>3
      <3>3. QED
        BY <3>1, <3>2
    <2>2. QED
      BY <2>1
  <1>3. Goes(w)
    BY <1>2
  <1> HIDE DEF w, v
  <1> DEFINE P == {k \in 0 .. n : w[k] = Reached(S, k)}
  <1>4. 0 \in P
    BY <1>3, DilateFurther
  <1>5. \A k \in P : 0 <= k /\ k < n => k + 1 \in P
    <2> SUFFICES ASSUME NEW k \in P, k < n PROVE k + 1 \in P
      OBVIOUS
    <2>1. k + 1 \in 0 .. n /\ k + 1 # 0 /\ (k + 1) - 1 = k /\ k \in Nat
      OBVIOUS
    <2>2. w[k + 1] = Dilate(w[k])
      BY <1>3, <2>1
    <2>3. QED
      BY <2>1, <2>2, DilateFurther
  <1>6. n \in P
    <2> HIDE DEF P
    <2>1. 0 .. n \subseteq P
      BY <1>4, <1>5, IntervalInduction
    <2>2. QED
      BY <2>1
  <1>7. QED
    BY <1>1, <1>6

\* A number of erosions leaves what has nothing outside that close.
LEMMA ErodeTimes ==
  ASSUME NEW S \in SUBSET Grid, NEW n \in Nat
  PROVE  Times(Erode, n, S) = Grid \ Reached(Grid \ S, n)
  <1> DEFINE T == Grid \ S
             Goes(w) == w = [k \in 0 .. n |-> IF k = 0 THEN S ELSE Erode(w[k - 1])]
             w == CHOOSE u : Goes(u)
             v == [k \in 0 .. n |-> Grid \ Reached(T, k)]
  <1>0. T \in SUBSET Grid /\ Grid \ T = S /\ \A k \in Nat : Reached(T, k) \in SUBSET Grid
    BY DEF Reached
  <1> HIDE DEF T
  <1>1. Times(Erode, n, S) = w[n]
    BY DEF Times
  <1>9. ASSUME NEW k \in Nat
        PROVE  Erode(Grid \ Reached(T, k)) = Grid \ Reached(T, k + 1)
    <2>1. Erode(Grid \ Reached(T, k)) = Grid \ Dilate(Reached(T, k))
      BY <1>0, ErodeIs
    <2>2. QED
      BY <1>0, <2>1, DilateFurther
  <1>10. Grid \ Reached(T, 0) = S
    BY <1>0, DilateFurther
  <1>2. Goes(v)
    <2>1. \A k \in 0 .. n : v[k] = IF k = 0 THEN S ELSE Erode(v[k - 1])
      <3> SUFFICES ASSUME NEW k \in 0 .. n PROVE v[k] = IF k = 0 THEN S ELSE Erode(v[k - 1])
        OBVIOUS
      <3>1. CASE k = 0
        BY <1>10, <3>1
      <3>2. CASE k # 0
        <4>1. k - 1 \in 0 .. n /\ k - 1 \in Nat /\ (k - 1) + 1 = k
          BY <3>2
        <4>2. v[k - 1] = Grid \ Reached(T, k - 1) /\ v[k] = Grid \ Reached(T, k)
          BY <4>1
        <4>3. Erode(Grid \ Reached(T, k - 1)) = Grid \ Reached(T, k)
          BY <1>9, <4>1
        <4>4. QED
          BY <3>2, <4>2, <4>3
      <3>3. QED
        BY <3>1, <3>2
    <2>2. QED
      BY <2>1
  <1>3. Goes(w)
    BY <1>2
  <1> HIDE DEF w, v
  <1> DEFINE P == {k \in 0 .. n : w[k] = Grid \ Reached(T, k)}
  <1>4. 0 \in P
    BY <1>3, <1>10
  <1>5. \A k \in P : 0 <= k /\ k < n => k + 1 \in P
    <2> SUFFICES ASSUME NEW k \in P, k < n PROVE k + 1 \in P
      OBVIOUS
    <2>1. k + 1 \in 0 .. n /\ k + 1 # 0 /\ (k + 1) - 1 = k /\ k \in Nat
      OBVIOUS
    <2>2. w[k + 1] = Erode(w[k])
      BY <1>3, <2>1
    <2>3. QED
      BY <1>9, <2>1, <2>2
  <1>6. n \in P
    <2> HIDE DEF P
    <2>1. 0 .. n \subseteq P
      BY <1>4, <1>5, IntervalInduction
    <2>2. QED
      BY <2>1
  <1>7. QED
    BY <1>1, <1>6 DEF T

\* The spans of a set's lines reach from a point of it to another
\* (capture_mask).
LEMMA SpansAre ==
  ASSUME NEW S \in SUBSET Grid, NEW axis \in {1, 2}
  PROVE  Spans(S, axis) =
           {p \in Grid : \E a, b \in S : /\ a[3 - axis] = p[3 - axis] /\ b[3 - axis] = p[3 - axis]
                                         /\ a[axis] <= p[axis] /\ p[axis] <= b[axis]}
  <1> DEFINE o       == 3 - axis
             Line(v) == {p[axis] : p \in {q \in S : q[o] = v}}
             Ends(l) == [from |-> Min(l), to |-> Max(l)]
             span    == [v \in {p[o] : p \in S} |-> Ends(Line(v))]
             Lies(p)  == \E a, b \in S : /\ a[o] = p[o] /\ b[o] = p[o] /\ a[axis] <= p[axis] /\ p[axis] <= b[axis]
  <1>1. Spans(S, axis) = {p \in Grid : p[o] \in DOMAIN span /\ p[axis] \in span[p[o]].from .. span[p[o]].to}
    BY DEF Spans
  <1>2. \A p \in Grid : p[axis] \in Int /\ p[axis] \in 0 .. Width + 2 * Margin - 1 + (Height + 2 * Margin)
    BY GridFacts
  <1> HIDE DEF o
  <1>3. ASSUME NEW v \in {p[o] : p \in S}
        PROVE  /\ Line(v) # {} /\ \A x \in Line(v) : Min(Line(v)) <= x /\ x <= Max(Line(v))
               /\ Min(Line(v)) \in Line(v) /\ Max(Line(v)) \in Line(v) /\ Line(v) \in SUBSET Int
    <2> DEFINE L == Line(v)
               M == Width + 2 * Margin - 1 + (Height + 2 * Margin)
    <2>1. L \subseteq 0 .. M
      BY <1>2
    <2>2. 0 \in Int /\ M \in Int
      BY GridFacts
    <2>3. IsFiniteSet(0 .. M)
      BY ONLY <2>2, IntervalFinite, Zenon
    <2> HIDE DEF M
    <2>4. IsFiniteSet(L)
      BY <2>1, <2>3, FS_Subset
    <2>5. L # {} /\ L \in SUBSET Int
      BY <1>2
    <2> HIDE DEF L
    <2>6. Min(L) \in L /\ Max(L) \in L /\ \A x \in L : Min(L) <= x /\ Max(L) >= x
      BY <2>4, <2>5, MinMaxExist
    <2>7. \A x \in L : Min(L) <= x /\ x <= Max(L)
      BY <2>5, <2>6
    <2>8. QED
      BY <2>5, <2>6, <2>7 DEF L
  <1>4. ASSUME NEW p \in Grid
        PROVE  (p[o] \in DOMAIN span /\ p[axis] \in span[p[o]].from .. span[p[o]].to) <=> Lies(p)
    <2>1. DOMAIN span = {q[o] : q \in S}
      OBVIOUS
    <2>2. ASSUME p[o] \in DOMAIN span
          PROVE  span[p[o]].from = Min(Line(p[o])) /\ span[p[o]].to = Max(Line(p[o]))
      <3>1. span[p[o]] = Ends(Line(p[o]))
        BY <2>1, <2>2
      <3> HIDE DEF span, Line
      <3>2. QED
        BY <3>1
    <2>3. ASSUME p[o] \in DOMAIN span, p[axis] \in span[p[o]].from .. span[p[o]].to
          PROVE  Lies(p)
      <3> DEFINE L == Line(p[o])
      <3>1. /\ Min(L) \in L /\ Max(L) \in L /\ L \in SUBSET Int
        BY <1>3, <2>1, <2>3
      <3>2. Min(L) <= p[axis] /\ p[axis] <= Max(L)
        <4> HIDE DEF L, span
        <4>1. p[axis] \in Min(L) .. Max(L)
          BY <2>2, <2>3 DEF L
        <4>2. Min(L) \in Int /\ Max(L) \in Int
          BY <3>1
        <4>3. QED
          BY <4>1, <4>2
      <3>3. PICK a \in {q \in S : q[o] = p[o]} : a[axis] = Min(L)
        <4> HIDE DEF span
        <4>1. QED
          BY <3>1
      <3>4. PICK b \in {q \in S : q[o] = p[o]} : b[axis] = Max(L)
        <4> HIDE DEF span
        <4>1. QED
          BY <3>1
      <3> HIDE DEF L, span
      <3>5. QED
        BY <3>2, <3>3, <3>4
    <2>4. ASSUME NEW a \in S, NEW b \in S, a[o] = p[o], b[o] = p[o], a[axis] <= p[axis], p[axis] <= b[axis]
          PROVE  p[o] \in DOMAIN span /\ p[axis] \in span[p[o]].from .. span[p[o]].to
      <3> DEFINE L == Line(p[o])
      <3>1. p[o] \in {q[o] : q \in S}
        BY <2>4
      <3>2. a[axis] \in L /\ b[axis] \in L
        BY <2>4
      <3>3. p[o] \in DOMAIN span
        BY <2>1, <3>1
      <3>4. (\A x \in L : Min(L) <= x /\ x <= Max(L)) /\ Min(L) \in Int /\ Max(L) \in Int
        <4>1. /\ L # {} /\ \A x \in L : Min(L) <= x /\ x <= Max(L)
              /\ Min(L) \in L /\ Max(L) \in L /\ L \in SUBSET Int
          BY <1>3, <3>1
        <4> HIDE DEF L
        <4>2. QED
          BY <4>1
      <3>5. p[axis] \in Int /\ a[axis] \in Int /\ b[axis] \in Int
        BY <1>2
      <3>6. Min(L) <= p[axis] /\ p[axis] <= Max(L)
        <4> HIDE DEF L
        <4>1. QED
          BY <2>4, <3>2, <3>4, <3>5
      <3>7. p[axis] \in Min(L) .. Max(L)
        <4> HIDE DEF L
        <4>1. QED
          BY <3>4, <3>5, <3>6
      <3>8. span[p[o]].from = Min(L) /\ span[p[o]].to = Max(L)
        BY <2>2, <3>3
      <3> HIDE DEF L, span
      <3>9. QED
        BY <3>3, <3>7, <3>8
    <2>5. QED
      <3> HIDE DEF span
      <3>1. QED
        BY <2>3, <2>4
  <1>5. Spans(S, axis) = {p \in Grid : Lies(p)}
    <2> HIDE DEF span, Lies
    <2>1. QED
      BY <1>1, <1>4
  <1>6. QED
    BY <1>5 DEF o

\* The steps of capture_mask: where the image is put, without gaps, with its lines
\* filled, and the pixels that are missing then.
PutAt(S) == {<<p[1] + Margin, p[2] + Margin>> : p \in S}
Closed(S)  == Grid \ Reached(Grid \ Reached(PutAt(S), Closing), Closing)
Filled(S)  == Spans(Spans(Closed(S), 2), 1)
Gaps(S)    == {<<p[1] - Margin, p[2] - Margin>> : p \in {q \in Grid : Inside(q)} \ Filled(S)}

\* Pixels are pairs, and where they are put is inside the grid's margin.
LEMMA PixelFacts ==
  /\ \A p \in Pixel : p = <<p[1], p[2]>> /\ p[1] \in 0 .. Width - 1 /\ p[2] \in 0 .. Height - 1
  /\ \A x \in 0 .. Width - 1, y \in 0 .. Height - 1 : <<x, y>> \in Pixel
  /\ \A p \in Pixel : <<p[1] + Margin, p[2] + Margin>> \in Grid /\ Inside(<<p[1] + Margin, p[2] + Margin>>)
  /\ \A q \in Grid : Inside(q) => /\ <<q[1] - Margin, q[2] - Margin>> \in Pixel
                                  /\ q = <<(q[1] - Margin) + Margin, (q[2] - Margin) + Margin>>
  <1>1. /\ \A p \in Pixel : p = <<p[1], p[2]>> /\ p[1] \in 0 .. Width - 1 /\ p[2] \in 0 .. Height - 1
        /\ \A x \in 0 .. Width - 1, y \in 0 .. Height - 1 : <<x, y>> \in Pixel
    BY DEF Pixel, Columns, Rows
  <1>2. ASSUME NEW p \in Pixel
        PROVE  <<p[1] + Margin, p[2] + Margin>> \in Grid /\ Inside(<<p[1] + Margin, p[2] + Margin>>)
    <2>1. p[1] \in 0 .. Width - 1 /\ p[2] \in 0 .. Height - 1 /\ Margin \in Nat /\ Width \in Nat /\ Height \in Nat
      BY <1>1, GridFacts
    <2>2. p[1] + Margin \in 0 .. Width + 2 * Margin - 1 /\ p[2] + Margin \in 0 .. Height + 2 * Margin - 1
      BY <2>1
    <2>3. p[1] + Margin \in Margin .. Margin + Width - 1 /\ p[2] + Margin \in Margin .. Margin + Height - 1
      BY <2>1
    <2>4. QED
      BY <2>2, <2>3, GridFacts DEF Inside
  <1>3. ASSUME NEW q \in Grid, Inside(q)
        PROVE  <<q[1] - Margin, q[2] - Margin>> \in Pixel /\ q = <<(q[1] - Margin) + Margin, (q[2] - Margin) + Margin>>
    <2>1. /\ q = <<q[1], q[2]>> /\ q[1] \in Int /\ q[2] \in Int /\ Margin \in Nat /\ Width \in Nat /\ Height \in Nat
      BY GridFacts
    <2>2. q[1] \in Margin .. Margin + Width - 1 /\ q[2] \in Margin .. Margin + Height - 1
      BY <1>3 DEF Inside
    <2>3. q[1] - Margin \in 0 .. Width - 1 /\ q[2] - Margin \in 0 .. Height - 1
      BY <2>1, <2>2
    <2>4. (q[1] - Margin) + Margin = q[1] /\ (q[2] - Margin) + Margin = q[2]
      BY <2>1
    <2>5. QED
      BY <1>1, <2>1, <2>3, <2>4
  <1>4. QED
    BY <1>1, <1>2, <1>3

\* What is put and filled lies in the grid.
LEMMA FilledInGrid ==
  ASSUME NEW S \in SUBSET Pixel
  PROVE  /\ PutAt(S) \in SUBSET Grid /\ Closed(S) \in SUBSET Grid
         /\ Spans(Closed(S), 2) \in SUBSET Grid /\ Filled(S) \in SUBSET Grid
  <1>1. PutAt(S) \in SUBSET Grid
    BY PixelFacts DEF PutAt
  <1>2. \A T, axis : Spans(T, axis) \in SUBSET Grid
    BY DEF Spans
  <1>3. QED
    BY <1>1, <1>2 DEF Closed, Filled

\* The mask is what has no gap close by (capture_mask).
LEMMA MaskIs ==
  ASSUME NEW S \in SUBSET Pixel
  PROVE  CaptureMask(S) = {p \in Pixel : Around(p, Eroding) \cap Gaps(S) = {}}
  <1> DEFINE closed == Times(Erode, Closing, Times(Dilate, Closing, PutAt(S)))
             framed == Filled(S) \cup {p \in Grid : ~Inside(p)}
             At(p)  == <<p[1] + Margin, p[2] + Margin>>
  <1>0. Closing \in Nat /\ Eroding \in Nat /\ Margin \in Nat
    BY GridFacts
  <1>1. closed = Closed(S)
    <2>1. Times(Dilate, Closing, PutAt(S)) = Reached(PutAt(S), Closing)
      BY <1>0, FilledInGrid, DilateTimes
    <2>2. Reached(PutAt(S), Closing) \in SUBSET Grid
      BY DEF Reached
    <2>3. QED
      BY <1>0, <2>1, <2>2, ErodeTimes DEF Closed
  <1>2. CaptureMask(S) = {p \in Pixel : At(p) \in Times(Erode, Eroding, framed)}
    BY <1>1 DEF CaptureMask, Filled, PutAt
  <1>3. framed \in SUBSET Grid /\ Filled(S) \in SUBSET Grid
    BY FilledInGrid
  <1>4. Times(Erode, Eroding, framed) = Grid \ Reached(Grid \ framed, Eroding)
    <2> HIDE DEF framed
    <2>1. QED
      BY <1>0, <1>3, ErodeTimes
  <1>5. Grid \ framed = {q \in Grid : Inside(q)} \ Filled(S)
    OBVIOUS
  <1>6. ASSUME NEW p \in Pixel
        PROVE  At(p) \in Reached(Grid \ framed, Eroding) <=> Around(p, Eroding) \cap Gaps(S) # {}
    <2> HIDE DEF framed
    <2>1. /\ At(p) \in Grid /\ At(p)[1] = p[1] + Margin /\ At(p)[2] = p[2] + Margin
          /\ p[1] \in Int /\ p[2] \in Int
      BY PixelFacts
    <2>2. ASSUME NEW q \in Grid \ framed, NoFarther(At(p), q, Eroding)
          PROVE  Around(p, Eroding) \cap Gaps(S) # {}
      <3> DEFINE g == <<q[1] - Margin, q[2] - Margin>>
      <3>1. q \in Grid /\ Inside(q) /\ q[1] \in Int /\ q[2] \in Int
        BY <1>5, <2>2, GridFacts
      <3>2. g \in Pixel /\ g[1] = q[1] - Margin /\ g[2] = q[2] - Margin
        BY <3>1, PixelFacts
      <3>3. g \in Gaps(S)
        BY <1>5, <2>2 DEF Gaps
      <3>4. g[1] - p[1] = q[1] - At(p)[1] /\ g[2] - p[2] = q[2] - At(p)[2]
        <4> HIDE DEF g, At
        <4>1. QED
          BY <1>0, <2>1, <3>1, <3>2
      <3>5. Size(g[1] - p[1]) <= Eroding /\ Size(g[2] - p[2]) <= Eroding
        <4> HIDE DEF g, At
        <4>1. QED
          BY <2>2, <3>4 DEF NoFarther
      <3> HIDE DEF g
      <3>6. g \in Around(p, Eroding)
        BY <3>2, <3>5 DEF Around
      <3>7. QED
        BY <3>3, <3>6
    <2>3. ASSUME NEW g \in Around(p, Eroding), g \in Gaps(S)
          PROVE  At(p) \in Reached(Grid \ framed, Eroding)
      <3>1. PICK q \in Grid \ framed : g = <<q[1] - Margin, q[2] - Margin>>
        BY <1>5, <2>3 DEF Gaps
      <3>2. q[1] \in Int /\ q[2] \in Int
        BY GridFacts
      <3>3. g[1] - p[1] = q[1] - At(p)[1] /\ g[2] - p[2] = q[2] - At(p)[2]
        <4>1. g[1] = q[1] - Margin /\ g[2] = q[2] - Margin
          BY <3>1
        <4> HIDE DEF At
        <4>2. QED
          BY <1>0, <2>1, <3>2, <4>1
      <3>4. NoFarther(At(p), q, Eroding)
        <4>1. Size(g[1] - p[1]) <= Eroding /\ Size(g[2] - p[2]) <= Eroding
          BY <2>3 DEF Around
        <4> HIDE DEF At
        <4>2. QED
          BY <3>3, <4>1 DEF NoFarther
      <3> HIDE DEF At
      <3>5. QED
        BY <2>1, <3>4 DEF Reached
    <2>4. At(p) \in Reached(Grid \ framed, Eroding) <=> \E q \in Grid \ framed : NoFarther(At(p), q, Eroding)
      <3> HIDE DEF At
      <3>1. QED
        BY <2>1 DEF Reached
    <2> HIDE DEF At
    <2>5. QED
      BY <2>2, <2>3, <2>4
  <1>7. \A p \in Pixel : At(p) \in Grid
    BY PixelFacts
  <1> HIDE DEF At, framed
  <1>8. QED
    BY <1>2, <1>4, <1>6, <1>7

\* A set that is larger is nowhere filled less.
LEMMA FillsMore ==
  ASSUME NEW S \in SUBSET Pixel, NEW T \in SUBSET Pixel, S \subseteq T
  PROVE  Filled(S) \subseteq Filled(T)
  <1>1. PutAt(S) \subseteq PutAt(T)
    BY DEF PutAt
  <1>2. \A A, B, r : A \subseteq B => Reached(A, r) \subseteq Reached(B, r)
    BY DEF Reached
  <1>3. Closed(S) \subseteq Closed(T)
    <2>1. Reached(PutAt(S), Closing) \subseteq Reached(PutAt(T), Closing)
      BY <1>1, <1>2
    <2>2. Reached(Grid \ Reached(PutAt(T), Closing), Closing) \subseteq Reached(Grid \ Reached(PutAt(S), Closing), Closing)
      BY <1>2, <2>1
    <2>3. QED
      BY <2>2 DEF Closed
  <1>4. ASSUME NEW A \in SUBSET Grid, NEW B \in SUBSET Grid, A \subseteq B, NEW axis \in {1, 2}
        PROVE  Spans(A, axis) \subseteq Spans(B, axis)
    <2> DEFINE Lies(C, p) == \E a, b \in C : /\ a[3 - axis] = p[3 - axis] /\ b[3 - axis] = p[3 - axis]
                                            /\ a[axis] <= p[axis] /\ p[axis] <= b[axis]
    <2>1. Spans(A, axis) = {p \in Grid : Lies(A, p)} /\ Spans(B, axis) = {p \in Grid : Lies(B, p)}
      BY SpansAre
    <2>2. \A p : Lies(A, p) => Lies(B, p)
      BY <1>4
    <2> HIDE DEF Lies
    <2>3. QED
      BY <2>1, <2>2
  <1>5. Spans(Closed(S), 2) \subseteq Spans(Closed(T), 2)
    BY <1>3, <1>4, FilledInGrid
  <1>6. QED
    BY <1>4, <1>5, FilledInGrid DEF Filled

\* Closing takes nothing away, and neither does filling lines.
LEMMA FillsAll ==
  ASSUME NEW S \in SUBSET Pixel
  PROVE  PutAt(S) \subseteq Closed(S) /\ Closed(S) \subseteq Spans(Closed(S), 2) /\ Spans(Closed(S), 2) \subseteq Filled(S)
  <1>1. ASSUME NEW p \in Grid, NEW q \in Grid
        PROVE  NoFarther(p, q, Closing) <=> NoFarther(q, p, Closing)
    <2>1. p[1] \in Int /\ p[2] \in Int /\ q[1] \in Int /\ q[2] \in Int
      BY GridFacts
    <2>2. Size(q[1] - p[1]) = Size(p[1] - q[1]) /\ Size(q[2] - p[2]) = Size(p[2] - q[2])
      BY <2>1 DEF Size
    <2>3. QED
      BY <2>2 DEF NoFarther
  <1>2. PutAt(S) \subseteq Closed(S)
    <2> SUFFICES ASSUME NEW p \in PutAt(S), p \in Reached(Grid \ Reached(PutAt(S), Closing), Closing)
                 PROVE  FALSE
      BY FilledInGrid DEF Closed
    <2>1. p \in Grid
      BY FilledInGrid
    <2>2. PICK q \in Grid \ Reached(PutAt(S), Closing) : NoFarther(p, q, Closing)
      BY DEF Reached
    <2>3. NoFarther(q, p, Closing)
      BY <1>1, <2>1, <2>2
    <2>4. q \in Reached(PutAt(S), Closing)
      BY <2>3 DEF Reached
    <2>5. QED
      BY <2>2, <2>4
  <1>3. ASSUME NEW A \in SUBSET Grid, NEW axis \in {1, 2}
        PROVE  A \subseteq Spans(A, axis)
    <2> SUFFICES ASSUME NEW p \in A PROVE p \in Spans(A, axis)
      OBVIOUS
    <2>1. p[axis] \in Int
      BY GridFacts
    <2>2. p[axis] <= p[axis]
      BY <2>1
    <2>3. \E a, b \in A : a[3 - axis] = p[3 - axis] /\ b[3 - axis] = p[3 - axis] /\ a[axis] <= p[axis] /\ p[axis] <= b[axis]
      BY <2>2
    <2>4. QED
      BY <2>3, SpansAre
  <1>4. QED
    BY <1>2, <1>3, FilledInGrid DEF Filled

\* What the border surrounds is filled.
LEMMA BorderFills ==
  ASSUME NEW S \in SUBSET Pixel, {p \in Pixel : OnEdge(p)} \subseteq S
  PROVE  Gaps(S) = {}
  <1> SUFFICES ASSUME NEW q \in Grid, Inside(q), q \notin Filled(S) PROVE FALSE
    BY DEF Gaps
  <1> DEFINE p == <<q[1] - Margin, q[2] - Margin>>
             a == <<p[1], 0>>
             b == <<p[1], Height - 1>>
             A == <<p[1] + Margin, 0 + Margin>>
             B == <<p[1] + Margin, Height - 1 + Margin>>
  <1>1. /\ p \in Pixel /\ q = <<p[1] + Margin, p[2] + Margin>>
        /\ p[1] \in 0 .. Width - 1 /\ p[2] \in 0 .. Height - 1
        /\ Width \in Nat /\ Height \in Nat /\ Margin \in Nat
    BY PixelFacts, GridFacts
  <1> HIDE DEF p
  <1>2. a \in Pixel /\ b \in Pixel
    <2>1. 0 \in 0 .. Height - 1 /\ Height - 1 \in 0 .. Height - 1
      BY <1>1
    <2>2. QED
      BY <1>1, <2>1, PixelFacts
  <1>3. OnEdge(a) /\ OnEdge(b)
    <2>1. a[2] <= 1 /\ b[2] + 2 >= Height
      BY <1>1
    <2>2. QED
      BY <2>1 DEF OnEdge
  <1>4. A \in PutAt(S) /\ B \in PutAt(S)
    <2>1. a \in S /\ b \in S /\ a[1] = p[1] /\ a[2] = 0 /\ b[1] = p[1] /\ b[2] = Height - 1
      BY <1>2, <1>3
    <2> HIDE DEF a, b
    <2>2. A = <<a[1] + Margin, a[2] + Margin>> /\ B = <<b[1] + Margin, b[2] + Margin>>
      BY <2>1
    <2> HIDE DEF A, B
    <2>3. QED
      BY <2>1, <2>2 DEF PutAt
  <1>5. A \in Closed(S) /\ B \in Closed(S) /\ Closed(S) \in SUBSET Grid
    BY <1>4, FillsAll, FilledInGrid
  <1>6. A[1] = q[1] /\ B[1] = q[1] /\ A[2] <= q[2] /\ q[2] <= B[2]
    BY <1>1
  <1> HIDE DEF A, B
  <1>7. q \in Spans(Closed(S), 2)
    <2>1. \E x, y \in Closed(S) : x[1] = q[1] /\ y[1] = q[1] /\ x[2] <= q[2] /\ q[2] <= y[2]
      BY <1>5, <1>6
    <2>2. Spans(Closed(S), 2) =
            {r \in Grid : \E x, y \in Closed(S) : x[3 - 2] = r[3 - 2] /\ y[3 - 2] = r[3 - 2] /\ x[2] <= r[2] /\ r[2] <= y[2]}
      BY <1>5, SpansAre
    <2>3. 3 - 2 = 1
      OBVIOUS
    <2>4. QED
      BY <2>1, <2>2, <2>3
  <1>8. QED
    BY <1>7, FillsAll

\* What capture_mask promises, for all images.
THEOREM MaskIsSound ==
  ASSUME NEW S \in SUBSET Pixel, NEW more \in SUBSET Pixel
  PROVE  MaskSound(S, more)
  <1> DEFINE Ball(p, r) == {q \in Grid : Size(q[1] - p[1]) <= r /\ Size(q[2] - p[2]) <= r}
             wide == {q \in Grid : Ball(q, Closing) \cap PutAt(S) # {}}
             closed == {p \in Grid : Ball(p, Closing) \subseteq wide}
  <1>1. {p \in Pixel : OnEdge(p)} \subseteq S => CaptureMask(S) = Pixel
    BY MaskIs, BorderFills
  <1>2. CaptureMask(S) \subseteq CaptureMask(S \cup more)
    <2>1. Gaps(S \cup more) \subseteq Gaps(S)
      <3>1. Filled(S) \subseteq Filled(S \cup more)
        BY FillsMore
      <3>2. QED
        BY <3>1 DEF Gaps
    <2>2. CaptureMask(S \cup more) = {p \in Pixel : Around(p, Eroding) \cap Gaps(S \cup more) = {}}
      BY MaskIs
    <2>3. QED
      BY <2>1, <2>2, MaskIs
  <1>3. wide = Reached(PutAt(S), Closing)
    BY FilledInGrid DEF Reached, NoFarther
  <1>4. closed = Closed(S)
    <2>1. \A p : Ball(p, Closing) = {q \in Grid : NoFarther(p, q, Closing)}
      BY DEF NoFarther
    <2> HIDE DEF wide, Ball
    <2>2. QED
      BY <1>3, <2>1 DEF Closed, Reached
  <1> HIDE DEF closed
  <1>5. CaptureMask(S) =
          {p \in Pixel : Around(p, Eroding) \cap
             {<<x[1] - Margin, x[2] - Margin>> : x \in {q \in Grid : Inside(q)} \ Spans(Spans(closed, 2), 1)} = {}}
    BY <1>4, MaskIs DEF Gaps, Filled
  <1>6. QED
    BY <1>1, <1>2, <1>5 DEF MaskSound, closed, PutAt

-----------------------------------------------------------------------------
(* The choice of a frame. *)

\* The rounded mean is a number.
LEMMA MeanTyped ==
  ASSUME NEW s \in Int
  PROVE  Mean(s) \in Int
  <1>1. 2 * Radius + 1 \in Nat /\ 2 * Radius + 1 > 0
    BY ImageAssumption
  <1>2. 65536 \div (2 * Radius + 1) \in Int
    BY <1>1
  <1> DEFINE d == 65536 \div (2 * Radius + 1)
  <1> HIDE DEF d
  <1>3. s * d + 32768 \in Int
    BY <1>2 DEF d
  <1>4. QED
    BY <1>3 DEF Mean, d

\* A line is filtered with the means of its windows (box15).
Smoothed(n, f) ==
  [x \in 0 .. n - 1 |-> Mean(SumFunctionOnSet(f, Clamp(x, Radius, n - 1 - Radius) - Radius
                                                 .. Clamp(x, Radius, n - 1 - Radius) + Radius))]

\* The filter of a line gives the means, however they are summed up.
LEMMA BoxLineIs ==
  ASSUME NEW n \in Nat, 2 * Radius < n, NEW f, DOMAIN f = 0 .. n - 1, \A i \in 0 .. n - 1 : f[i] \in Int
  PROVE  /\ BoxLine(f) = Smoothed(n, f) /\ \A x \in 0 .. n - 1 : Smoothed(n, f)[x] \in Int
         /\ [i \in DOMAIN f |->
               LET c == Clamp(i, Radius, Cardinality(DOMAIN f) - 1 - Radius)
               IN  Mean(SumFunction([j \in c - Radius .. c + Radius |-> f[j]]))] = Smoothed(n, f)
  <1> DEFINE m    == Cardinality(DOMAIN f)
             D    == DOMAIN f
             w    == CHOOSE u : Running(u, m, Radius, f)
             C(x) == Clamp(x, Radius, m - 1 - Radius)
  <1>1. Radius \in Nat
    BY ImageAssumption
  <1>2. m = n
    BY SlotsFinite DEF Slots
  <1>3. BoxLine(f) = [x \in D |-> Mean(w[C(x)])]
    BY DEF BoxLine, Running
  <1>4. [i \in DOMAIN f |->
               LET c == Clamp(i, Radius, Cardinality(DOMAIN f) - 1 - Radius)
               IN  Mean(SumFunction([j \in c - Radius .. c + Radius |-> f[j]]))]
          = [x \in D |-> Mean(SumFunction([j \in C(x) - Radius .. C(x) + Radius |-> f[j]]))]
    OBVIOUS
  <1>5. Smoothed(m, f) = [x \in 0 .. m - 1 |-> Mean(SumFunctionOnSet(f, C(x) - Radius .. C(x) + Radius))]
    BY DEF Smoothed
  <1> HIDE DEF m
  <1>6. m \in Nat /\ 2 * Radius < m /\ D = 0 .. m - 1 /\ \A i \in 0 .. m - 1 : f[i] \in Int
    BY <1>2
  <1>7. \A x \in Radius .. m - 1 - Radius : w[x] = SumFunctionOnSet(f, x - Radius .. x + Radius) /\ w[x] \in Int
    BY <1>1, <1>6, RunningIs
  <1>8. ASSUME NEW x \in 0 .. m - 1
        PROVE  /\ C(x) \in Radius .. m - 1 - Radius /\ C(x) - Radius \in Int /\ C(x) + Radius \in Int
               /\ C(x) - Radius .. C(x) + Radius \subseteq 0 .. m - 1
    <2>1. C(x) \in Radius .. m - 1 - Radius
      BY <1>1, <1>6 DEF Clamp
    <2> HIDE DEF C
    <2>2. QED
      BY <1>1, <1>6, <2>1
  <1> HIDE DEF w, C, D
  <1>9. \A x \in 0 .. m - 1 : w[C(x)] = SumFunctionOnSet(f, C(x) - Radius .. C(x) + Radius) /\ w[C(x)] \in Int
    BY <1>7, <1>8
  <1>10. BoxLine(f) = Smoothed(m, f)
    BY <1>3, <1>5, <1>6, <1>9
  <1>11. \A x \in 0 .. m - 1 : Smoothed(m, f)[x] \in Int
    BY <1>5, <1>9, MeanTyped
  <1>12. ASSUME NEW x \in 0 .. m - 1
         PROVE  SumFunction([j \in C(x) - Radius .. C(x) + Radius |-> f[j]])
                  = SumFunctionOnSet(f, C(x) - Radius .. C(x) + Radius)
    <2> DEFINE W == C(x) - Radius .. C(x) + Radius
               g == [j \in W |-> f[j]]
    <2>1. IsFiniteSet(W)
      BY <1>8, WindowFinite
    <2>2. \A j \in W : f[j] \in Int
      BY <1>6, <1>8
    <2> HIDE DEF W
    <2>3. DOMAIN g = W /\ \A j \in W : g[j] = f[j]
      OBVIOUS
    <2> HIDE DEF g
    <2>4. SumFunction(g) = SumFunctionOnSet(f, W)
      BY <2>1, <2>2, <2>3, WindowSum
    <2>5. QED
      BY <2>4 DEF W, g
  <1>13. [x \in D |-> Mean(SumFunction([j \in C(x) - Radius .. C(x) + Radius |-> f[j]]))] = Smoothed(m, f)
    BY <1>5, <1>6, <1>12
  <1>14. QED
    BY <1>2, <1>4, <1>10, <1>11, <1>13

\* There are finitely many pixels, and some.
LEMMA PixelFinite ==
  /\ IsFiniteSet(Pixel) /\ Cardinality(Pixel) = Width * Height
  /\ Width \in Nat \ {0} /\ Height \in Nat \ {0} /\ Width * Height \in Nat \ {0}
  /\ \A S \in SUBSET Pixel : IsFiniteSet(S) /\ Cardinality(S) \in Nat /\ Cardinality(S) <= Width * Height
  <1>1. Width \in Nat \ {0} /\ Height \in Nat \ {0}
    BY ImageAssumption
  <1>2. Width * Height \in Nat \ {0}
    BY <1>1
  <1>3. IsFiniteSet(Columns) /\ IsFiniteSet(Rows) /\ Cardinality(Columns) = Width /\ Cardinality(Rows) = Height
    BY <1>1, SlotsFinite DEF Columns, Rows, Slots
  <1>4. IsFiniteSet(Pixel) /\ Cardinality(Pixel) = Width * Height
    BY <1>3, FS_Product DEF Pixel
  <1>5. ASSUME NEW S \in SUBSET Pixel
        PROVE  IsFiniteSet(S) /\ Cardinality(S) \in Nat /\ Cardinality(S) <= Width * Height
    <2>1. IsFiniteSet(S) /\ Cardinality(S) <= Cardinality(Pixel)
      BY <1>4, FS_Subset
    <2>2. Cardinality(S) \in Nat
      BY <2>1, FS_CardinalityType
    <2>3. QED
      BY <1>4, <2>1, <2>2
  <1>6. QED
    BY <1>1, <1>2, <1>4, <1>5

\* The filter of a line and of an image as it is meant: means of windows.
LineOf(f) ==
  [i \in DOMAIN f |->
     LET c == Clamp(i, Radius, Cardinality(DOMAIN f) - 1 - Radius)
     IN  Mean(SumFunction([j \in c - Radius .. c + Radius |-> f[j]]))]
AcrossOf(f) == [y \in Rows |-> LineOf([x \in Columns |-> f[<<x, y>>]])]
DownOf(f)   == LET a == AcrossOf(f) IN [x \in Columns |-> LineOf([y \in Rows |-> a[y][x]])]

\* The filter of a line, as it is meant.
LEMMA LineIs ==
  ASSUME NEW n \in Nat, 2 * Radius < n, NEW f, DOMAIN f = 0 .. n - 1, \A i \in 0 .. n - 1 : f[i] \in Int
  PROVE  BoxLine(f) = LineOf(f) /\ \A x \in 0 .. n - 1 : LineOf(f)[x] \in Int
  <1>1. BoxLine(f) = Smoothed(n, f) /\ (\A x \in 0 .. n - 1 : Smoothed(n, f)[x] \in Int) /\ LineOf(f) = Smoothed(n, f)
    BY BoxLineIs DEF LineOf
  <1>2. QED
    BY <1>1

\* The running sums filter an image with the means of windows, rows and then columns.
LEMMA BoxIs ==
  ASSUME NEW f, \A p \in Pixel : f[p] \in Int
  PROVE  Box(f) = [p \in Pixel |-> DownOf(f)[p[1]][p[2]]] /\ \A p \in Pixel : Box(f)[p] \in Int
  <1>1. /\ Width \in Nat /\ 2 * Radius < Width /\ Height \in Nat /\ 2 * Radius < Height
        /\ Columns = 0 .. Width - 1 /\ Rows = 0 .. Height - 1
    BY ImageAssumption DEF Columns, Rows
  <1>2. \A x \in Columns, y \in Rows : <<x, y>> \in Pixel
    BY DEF Pixel
  <1> DEFINE Row(y) == [x \in Columns |-> f[<<x, y>>]]
             a      == [y \in Rows |-> LineOf(Row(y))]
             Col(x) == [y \in Rows |-> a[y][x]]
             b      == [y \in Rows |-> BoxLine(Row(y))]
             d      == [x \in Columns |-> BoxLine([y \in Rows |-> b[y][x]])]
             e      == [x \in Columns |-> LineOf(Col(x))]
  <1>3. ASSUME NEW y \in Rows
        PROVE  BoxLine(Row(y)) = LineOf(Row(y)) /\ \A x \in Columns : LineOf(Row(y))[x] \in Int
    <2>1. DOMAIN Row(y) = 0 .. Width - 1 /\ \A i \in 0 .. Width - 1 : Row(y)[i] \in Int
      BY <1>1, <1>2
    <2> HIDE DEF Row
    <2>2. QED
      BY <1>1, <2>1, LineIs
  <1>4. a = b /\ \A y \in Rows, x \in Columns : a[y][x] \in Int
    BY <1>3
  <1>5. Box(f) = [p \in Pixel |-> d[p[1]][p[2]]]
    BY DEF Box
  <1>6. DownOf(f) = e
    BY DEF DownOf, AcrossOf
  <1> HIDE DEF a, b
  <1>7. ASSUME NEW x \in Columns
        PROVE  BoxLine(Col(x)) = LineOf(Col(x)) /\ \A y \in Rows : LineOf(Col(x))[y] \in Int
    <2>1. DOMAIN Col(x) = 0 .. Height - 1 /\ \A i \in 0 .. Height - 1 : Col(x)[i] \in Int
      BY <1>1, <1>4
    <2> HIDE DEF Col
    <2>2. QED
      BY <1>1, <2>1, LineIs
  <1>8. d = e
    BY <1>4, <1>7
  <1>9. \A x \in Columns, y \in Rows : e[x][y] \in Int
    BY <1>7
  <1> HIDE DEF d, e
  <1>10. \A p \in Pixel : p[1] \in Columns /\ p[2] \in Rows
    BY DEF Pixel
  <1>11. QED
    BY <1>5, <1>6, <1>8, <1>9, <1>10

\* The score of a frame is a number.
LEMMA FrameScoreTyped ==
  ASSUME NEW frame \in [Pixel -> Int]
  PROVE  FrameScore(frame) \in Int
  <1> DEFINE image    == [p \in Pixel |-> frame[p] * 16]
             smooth   == Box(image)
             rough    == Box([p \in Pixel |-> Size(smooth[p] - image[p])])
             A        == {p \in Pixel : rough[p] > ContrastLevel}
             B        == {p \in Pixel : frame[p] \in {0, 255}}
             Share(S) == (Cardinality(S) * 1000) \div (Width * Height)
  <1>1. ASSUME NEW S \in SUBSET Pixel
        PROVE  Share(S) \in Int
    <2>1. Cardinality(S) \in Nat /\ Width * Height \in Nat \ {0}
      BY PixelFinite
    <2> DEFINE c == Cardinality(S) * 1000
               w == Width * Height
    <2>2. c \in Int /\ w \in Nat \ {0}
      BY <2>1
    <2> HIDE DEF c, w
    <2>3. c \div w \in Int
      BY <2>2
    <2>4. QED
      BY <2>3 DEF c, w
  <1> HIDE DEF rough, Share
  <1>2. Share(A) \in Int /\ Share(B) \in Int
    BY <1>1
  <1> HIDE DEF A, B
  <1>3. FrameScore(frame) = (3072 * (1000 - Share(B)) + 1024 * Share(A) + 2048) \div 4096
    BY DEF FrameScore, rough, Share, A, B
  <1>4. QED
    BY <1>2, <1>3

\* Frames 0 .. i, best first, and the first of equal ones first.
Better(score, a, b) == score[a] > score[b] \/ (score[a] = score[b] /\ a < b)
Ranked(score, i, o) ==
  /\ o \in [0 .. i -> 0 .. i]
  /\ \A x \in 0 .. i : \E a \in 0 .. i : o[a] = x
  /\ \A a, b \in 0 .. i : a < b => Better(score, o[a], o[b])

\* What a frame is put into stays a list, longer by one.
LEMMA InsertTyped ==
  ASSUME NEW n \in Nat, NEW score, NEW i \in 1 .. n, NEW V, NEW o \in [0 .. i - 1 -> V], i \in V
  PROVE  Insert(score, o, i) \in [0 .. i -> V]
  <1> DEFINE T == {j \in 0 .. i - 1 : score[o[j]] >= score[i]}
             at == Cardinality(T)
  <1>1. IsFiniteSet(0 .. i - 1) /\ Cardinality(0 .. i - 1) = i
    BY SlotsFinite DEF Slots
  <1>2. IsFiniteSet(T) /\ at <= i
    BY <1>1, FS_Subset
  <1>3. at \in 0 .. i
    BY <1>2, FS_CardinalityType
  <1>4. Insert(score, o, i) = [j \in 0 .. i |-> IF j < at THEN o[j] ELSE IF j = at THEN i ELSE o[j - 1]]
    BY DEF Insert
  <1> HIDE DEF at
  <1>5. QED
    BY <1>3, <1>4

\* A frame that is put behind those as good leaves the ranking one.
LEMMA InsertRanks ==
  ASSUME NEW n \in Nat, NEW score \in [0 .. n -> Int], NEW i \in 1 .. n, NEW o, Ranked(score, i - 1, o)
  PROVE  Ranked(score, i, Insert(score, o, i))
  <1> DEFINE T == {j \in 0 .. i - 1 : score[o[j]] >= score[i]}
             at == Cardinality(T)
             new == Insert(score, o, i)
  <1>0. i \in Int /\ i \in 0 .. n /\ 0 .. i - 1 \subseteq 0 .. n /\ \A a \in 0 .. n : score[a] \in Int
    OBVIOUS
  <1>1. /\ o \in [0 .. i - 1 -> 0 .. i - 1] /\ (\A x \in 0 .. i - 1 : \E a \in 0 .. i - 1 : o[a] = x)
        /\ \A a, b \in 0 .. i - 1 : a < b => Better(score, o[a], o[b])
    BY DEF Ranked
  <1>2. \A j \in T : \A l \in 0 .. j : l \in T
    <2> SUFFICES ASSUME NEW j \in T, NEW l \in 0 .. j PROVE l \in T
      OBVIOUS
    <2>0. j \in 0 .. i - 1 /\ score[o[j]] >= score[i] /\ l \in 0 .. i - 1 /\ (l = j \/ l < j)
      OBVIOUS
    <2>1. l = j \/ Better(score, o[l], o[j])
      BY <1>1, <2>0
    <2>2. score[o[l]] \in Int /\ score[o[j]] \in Int /\ score[i] \in Int
      BY <1>0, <1>1, <2>0
    <2>3. score[o[l]] >= score[i]
      BY <2>0, <2>1, <2>2 DEF Better
    <2>4. QED
      BY <2>0, <2>3
  <1>3. at \in 0 .. i /\ T = 0 .. at - 1
    <2>1. T \in SUBSET (0 .. i - 1) /\ i \in Nat
      OBVIOUS
    <2> HIDE DEF T
    <2>2. QED
      BY <1>2, <2>1, PrefixIs
  <1>4. new = [j \in 0 .. i |-> IF j < at THEN o[j] ELSE IF j = at THEN i ELSE o[j - 1]]
    BY DEF Insert
  <1> HIDE DEF at, new
  <1>5. \A j \in 0 .. i - 1 : o[j] \in 0 .. i - 1 /\ score[o[j]] \in Int /\ (j < at <=> score[o[j]] >= score[i])
    <2> SUFFICES ASSUME NEW j \in 0 .. i - 1
                 PROVE  o[j] \in 0 .. i - 1 /\ score[o[j]] \in Int /\ (j < at <=> score[o[j]] >= score[i])
      OBVIOUS
    <2>1. o[j] \in 0 .. i - 1
      BY <1>1
    <2>2. score[o[j]] \in Int
      BY <1>0, <2>1
    <2>3. j \in T <=> score[o[j]] >= score[i]
      OBVIOUS
    <2> HIDE DEF T
    <2>4. j \in T <=> j < at
      BY <1>0, <1>3
    <2>5. QED
      BY <2>1, <2>2, <2>3, <2>4
  <1>6. new \in [0 .. i -> 0 .. i]
    BY <1>3, <1>4, <1>5
  <1>7. ASSUME NEW x \in 0 .. i
        PROVE  \E a \in 0 .. i : new[a] = x
    <2>1. CASE x = i
      <3>1. at \in 0 .. i /\ new[at] = i
        BY <1>3, <1>4
      <3>2. QED
        BY <2>1, <3>1
    <2>2. CASE x # i
      <3>1. PICK a \in 0 .. i - 1 : o[a] = x
        BY <1>1, <2>2
      <3>2. CASE a < at
        BY <1>4, <3>1, <3>2
      <3>3. CASE ~(a < at)
        <4>1. a + 1 \in 0 .. i /\ ~(a + 1 < at) /\ a + 1 # at /\ (a + 1) - 1 = a
          BY <1>3, <3>3
        <4>2. new[a + 1] = o[a]
          BY <1>4, <4>1
        <4>3. QED
          BY <3>1, <4>1, <4>2
      <3>4. QED
        BY <3>2, <3>3
    <2>3. QED
      BY <2>1, <2>2
  <1>8. ASSUME NEW a \in 0 .. i, NEW b \in 0 .. i, a < b
        PROVE  Better(score, new[a], new[b])
    <2>1. score[i] \in Int
      OBVIOUS
    <2>2. CASE b < at
      <3>1. a \in 0 .. i - 1 /\ b \in 0 .. i - 1 /\ new[a] = o[a] /\ new[b] = o[b]
        BY <1>3, <1>4, <1>8, <2>2
      <3>2. QED
        BY <1>1, <1>8, <3>1
    <2>3. CASE b = at
      <3>1. a \in 0 .. i - 1 /\ new[a] = o[a] /\ new[b] = i /\ a < at
        BY <1>3, <1>4, <1>8, <2>3
      <3>2. QED
        BY <1>5, <2>1, <3>1 DEF Better
    <2>4. CASE b > at /\ a = at
      <3>1. b - 1 \in 0 .. i - 1 /\ new[a] = i /\ new[b] = o[b - 1] /\ ~(b - 1 < at)
        BY <1>3, <1>4, <1>8, <2>4
      <3>2. QED
        BY <1>5, <2>1, <3>1 DEF Better
    <2>5. CASE b > at /\ a < at
      <3>1. a \in 0 .. i - 1 /\ b - 1 \in 0 .. i - 1 /\ new[a] = o[a] /\ new[b] = o[b - 1] /\ a < b - 1
        BY <1>3, <1>4, <1>8, <2>5
      <3>2. QED
        BY <1>1, <3>1
    <2>6. CASE b > at /\ a > at
      <3>1. a - 1 \in 0 .. i - 1 /\ b - 1 \in 0 .. i - 1 /\ new[a] = o[a - 1] /\ new[b] = o[b - 1] /\ a - 1 < b - 1
        BY <1>3, <1>4, <1>8, <2>6
      <3>2. QED
        BY <1>1, <3>1
    <2>7. QED
      BY <1>3, <2>2, <2>3, <2>4, <2>5, <2>6
  <1>9. QED
    BY <1>6, <1>7, <1>8 DEF Ranked, new

\* The sorting of frames goes through them one by one.
Ranking(w, score, n) ==
  w = [i \in 0 .. n - 1 |-> IF i = 0 THEN [j \in {0} |-> 0] ELSE Insert(score, w[i - 1], i)]

\* It can be made.
LEMMA RankingExists ==
  ASSUME NEW n \in Nat \ {0}, NEW score
  PROVE  \E w : Ranking(w, score, n)
  <1> DEFINE N == 0 .. n - 1
             V == UNION {[0 .. i -> N] : i \in N}
             v == [j \in 0 .. 0 |-> 0]
             Step(p, u) == IF p = 0 THEN v ELSE IF u \in [0 .. p - 1 -> N] THEN Insert(score, u, p) ELSE u
             step == [a \in (0 .. n - 1) \X V |-> Step(a[1], a[2])]
  <1>1. v \in V /\ n - 1 \in Nat /\ v \in [0 .. 0 -> N]
    <2>1. 0 \in N /\ v \in [0 .. 0 -> N]
      OBVIOUS
    <2>2. QED
      BY <2>1
  <1>2. ASSUME NEW p \in N, NEW u \in V
        PROVE  Step(p, u) \in V
    <2>1. CASE p # 0 /\ u \in [0 .. p - 1 -> N]
      <3>1. p \in 1 .. n
        BY <2>1
      <3>2. Insert(score, u, p) \in [0 .. p -> N]
        BY <2>1, <3>1, InsertTyped
      <3>3. Step(p, u) = Insert(score, u, p)
        BY <2>1
      <3>4. QED
        BY <3>2, <3>3
    <2>2. CASE ~(p # 0 /\ u \in [0 .. p - 1 -> N])
      BY <1>1, <2>2
    <2>3. QED
      BY <2>1, <2>2
  <1>3. Stepping(n - 1, V, v, step)
    <2> HIDE DEF V, v, Step
    <2>1. step \in [(0 .. n - 1) \X V -> V]
      BY <1>2
    <2> HIDE DEF step
    <2>2. QED
      BY <1>1, <2>1 DEF Stepping
  <1>4. PICK w : IsWalk(w, n - 1, V, v, step)
    <2> HIDE DEF V, v, step
    <2>1. QED
      BY <1>3, WalkExists
  <1>5. w \in [N -> V] /\ \A p \in N : w[p] = step[<<p, IF p = 0 THEN v ELSE w[p - 1]>>]
    BY <1>4 DEF IsWalk
  <1>6. \A p \in N : w[p] = Step(p, IF p = 0 THEN v ELSE w[p - 1])
    <2> SUFFICES ASSUME NEW p \in N PROVE w[p] = Step(p, IF p = 0 THEN v ELSE w[p - 1])
      OBVIOUS
    <2> DEFINE u == IF p = 0 THEN v ELSE w[p - 1]
    <2> HIDE DEF V, v, Step
    <2>1. u \in V
      <3>1. p # 0 => p - 1 \in N
        OBVIOUS
      <3>2. QED
        BY <1>1, <1>5, <3>1
    <2>2. w[p] = step[<<p, u>>]
      BY <1>5
    <2> HIDE DEF u
    <2>3. <<p, u>> \in N \X V
      BY <2>1
    <2>4. step[<<p, u>>] = Step(p, u)
      BY <2>3
    <2>5. QED
      BY <2>2, <2>4 DEF u
  <1> DEFINE P == {i \in N : w[i] \in [0 .. i -> N]}
  <1>7. 0 \in P
    <2>1. w[0] = v
      BY <1>6
    <2>2. QED
      BY <1>1, <2>1
  <1>8. ASSUME NEW i \in P, i < n - 1
        PROVE  i + 1 \in P
    <2> DEFINE p == i + 1
    <2>1. p \in N /\ p # 0 /\ p - 1 = i /\ p \in 1 .. n /\ w[i] \in [0 .. p - 1 -> N]
      BY <1>8
    <2> HIDE DEF p
    <2>2. w[p] = Insert(score, w[i], p)
      <3>1. w[p] = Step(p, w[i])
        BY <1>6, <2>1
      <3>2. QED
        BY <2>1, <3>1
    <2>3. Insert(score, w[i], p) \in [0 .. p -> N]
      BY <2>1, InsertTyped
    <2>4. p \in P
      BY <2>1, <2>2, <2>3
    <2>5. QED
      BY <2>4 DEF p
  <1>9. 0 .. n - 1 \subseteq P
    <2>1. 0 \in Int /\ n - 1 \in Int
      OBVIOUS
    <2> HIDE DEF P
    <2>2. QED
      BY <1>7, <1>8, <2>1, IntervalInduction
  <1>10. ASSUME NEW i \in N
         PROVE  w[i] = IF i = 0 THEN [j \in {0} |-> 0] ELSE Insert(score, w[i - 1], i)
    <2>1. CASE i = 0
      <3>1. w[i] = v /\ 0 .. 0 = {0}
        BY <1>6, <2>1
      <3>2. QED
        BY <2>1, <3>1
    <2>2. CASE i # 0
      <3>1. i - 1 \in N /\ w[i - 1] \in [0 .. i - 1 -> N]
        BY <1>9, <2>2
      <3>2. w[i] = Step(i, w[i - 1])
        BY <1>6, <2>2
      <3>3. QED
        BY <2>2, <3>1, <3>2
    <2>3. QED
      BY <2>1, <2>2
  <1>11. Ranking(w, score, n)
    <2>1. w = [i \in N |-> w[i]]
      BY <1>5
    <2>2. QED
      BY <1>10, <2>1 DEF Ranking
  <1>12. QED
    BY <1>11

\* The frames are ranked.
LEMMA RankIs ==
  ASSUME NEW n \in Nat \ {0}, NEW score \in [0 .. n - 1 -> Int]
  PROVE  Ranked(score, n - 1, RankFrames(score))
  <1> DEFINE N == 0 .. n - 1
             w == CHOOSE u : Ranking(u, score, n)
             m == Cardinality(DOMAIN score)
  <1>1. m = n
    BY SlotsFinite DEF Slots
  <1>2. RankFrames(score) = w[n - 1]
    <2>1. RankFrames(score) = (CHOOSE u : Ranking(u, score, m))[m - 1]
      BY DEF RankFrames, Ranking
    <2> HIDE DEF m
    <2>2. QED
      BY <1>1, <2>1
  <1>3. Ranking(w, score, n)
    BY RankingExists
  <1> HIDE DEF w
  <1>4. \A i \in N : w[i] = IF i = 0 THEN [j \in {0} |-> 0] ELSE Insert(score, w[i - 1], i)
    BY <1>3 DEF Ranking
  <1> DEFINE P == {i \in N : Ranked(score, i, w[i])}
  <1>5. 0 \in P
    <2>0. 0 \in N /\ 0 .. 0 = {0}
      OBVIOUS
    <2>1. w[0] = [j \in {0} |-> 0] /\ 0 .. 0 = {0}
      <3> HIDE DEF N
      <3>1. w[0] = IF 0 = 0 THEN [j \in {0} |-> 0] ELSE Insert(score, w[0 - 1], 0)
        BY <1>4, <2>0
      <3>2. QED
        BY <2>0, <3>1
    <2>2. w[0] \in [0 .. 0 -> 0 .. 0] /\ w[0][0] = 0
      BY <2>1
    <2>3. \A x \in 0 .. 0 : \E a \in 0 .. 0 : w[0][a] = x
      BY <2>2
    <2>4. \A a, b \in 0 .. 0 : ~(a < b)
      OBVIOUS
    <2>5. Ranked(score, 0, w[0])
      BY <2>2, <2>3, <2>4 DEF Ranked
    <2>6. QED
      BY <2>0, <2>5
  <1>6. ASSUME NEW i \in P, i < n - 1
        PROVE  i + 1 \in P
    <2> DEFINE p == i + 1
               k == n - 1
    <2>1. k \in Nat /\ p \in N /\ p # 0 /\ p - 1 = i /\ p \in 1 .. k /\ score \in [0 .. k -> Int]
      BY <1>6
    <2> HIDE DEF k
    <2>2. p \in Int /\ Ranked(score, p - 1, w[p - 1])
      BY <2>1
    <2> HIDE DEF p
    <2>3. w[p] = Insert(score, w[p - 1], p)
      BY <1>4, <2>1
    <2> DEFINE o == w[p - 1]
    <2>4. Ranked(score, p - 1, o) /\ w[p] = Insert(score, o, p)
      BY <2>2, <2>3
    <2> HIDE DEF o
    <2>5. Ranked(score, p, Insert(score, o, p))
      BY <2>1, <2>4, InsertRanks
    <2>6. p \in P
      BY <2>1, <2>4, <2>5
    <2>7. QED
      BY <2>6 DEF p
  <1>7. 0 .. n - 1 \subseteq P
    <2>1. 0 \in Int /\ n - 1 \in Int
      OBVIOUS
    <2> HIDE DEF P
    <2>2. QED
      BY <1>5, <1>6, <2>1, IntervalInduction
  <1>8. n - 1 \in P
    BY <1>7
  <1>9. QED
    BY <1>2, <1>8

\* Images are filtered with the means of windows, and the frame that is used is
\* the first of those that no other beats (box15, fpc_profile300_rank_frames), for
\* every list of frames.
THEOREM FramesAreSound ==
  ASSUME NEW n \in Nat \ {0}, NEW frames \in [0 .. n - 1 -> [Pixel -> Int]]
  PROVE  FramesSound(frames)
  <1> DEFINE score == [i \in DOMAIN frames |-> FrameScore(frames[i])]
             order == RankFrames(score)
  <1>1. ASSUME NEW f \in Range(frames)
        PROVE  LET down == DownOf(f) IN Box(f) = [p \in Pixel |-> down[p[1]][p[2]]]
    <2>1. f \in [Pixel -> Int]
      BY DEF Range
    <2>2. QED
      BY <2>1, BoxIs
  <1>2. score \in [0 .. n - 1 -> Int]
    BY FrameScoreTyped
  <1>3. Ranked(score, n - 1, order)
    <2> HIDE DEF score
    <2>1. QED
      BY <1>2, RankIs
  <1>4. /\ order \in [0 .. n - 1 -> 0 .. n - 1] /\ (\A x \in 0 .. n - 1 : \E a \in 0 .. n - 1 : order[a] = x)
        /\ \A a, b \in 0 .. n - 1 : a < b => Better(score, order[a], order[b])
    BY <1>3 DEF Ranked
  <1> HIDE DEF order, score
  <1>5. Range(order) = DOMAIN frames
    <2>1. DOMAIN order = 0 .. n - 1 /\ DOMAIN frames = 0 .. n - 1
      BY <1>4
    <2>2. \A x \in Range(order) : x \in 0 .. n - 1
      BY <1>4, <2>1 DEF Range
    <2>3. \A x \in 0 .. n - 1 : x \in Range(order)
      BY <1>4, <2>1 DEF Range
    <2>4. QED
      BY <2>1, <2>2, <2>3
  <1>6. ASSUME NEW i \in DOMAIN frames
        PROVE  score[i] <= score[order[0]] /\ (i < order[0] => score[i] < score[order[0]])
    <2>1. PICK a \in 0 .. n - 1 : order[a] = i
      BY <1>4
    <2>2. 0 \in 0 .. n - 1 /\ order[0] \in 0 .. n - 1 /\ i \in 0 .. n - 1 /\ (a = 0 \/ 0 < a)
      BY <1>4
    <2>3. score[i] \in Int /\ score[order[0]] \in Int
      BY <1>2, <2>2
    <2>4. a = 0 \/ Better(score, order[0], i)
      BY <1>4, <2>1, <2>2
    <2>5. QED
      BY <2>1, <2>2, <2>3, <2>4 DEF Better
  <1>7. QED
    BY <1>1, <1>5, <1>6 DEF FramesSound, DownOf, AcrossOf, LineOf, score, order

-----------------------------------------------------------------------------
(* Brightness. *)

\* A word holds the values between half of its range below and above zero.
LEMMA SignedIs ==
  ASSUME NEW v \in Int
  PROVE  Signed(v) \in Int /\ (v \in -HalfWord .. HalfWord - 1 => Signed(v) = v)
  <1> DEFINE m == 2 * HalfWord
             u == v % m
             x == v \div m
  <1>1. HalfWord \in Nat /\ HalfWord > 0 /\ m \in Nat /\ m > 0
    BY ImageAssumption
  <1>2. Signed(v) = IF u < HalfWord THEN u ELSE u - m
    BY DEF Signed
  <1>3. m = HalfWord + HalfWord
    BY <1>1
  <1> HIDE DEF m
  <1>4. u \in 0 .. m - 1 /\ x \in Int /\ v = m * x + u
    BY <1>1
  <1> HIDE DEF u, x
  <1>5. ASSUME v \in -HalfWord .. HalfWord - 1
        PROVE  x \in -1 .. 0
    <2>1. ASSUME x >= 1
          PROVE  FALSE
      <3>1. m * x >= m
        BY <1>1, <1>4, <2>1
      <3>2. QED
        BY <1>1, <1>3, <1>4, <1>5, <3>1
    <2>2. ASSUME x <= -2
          PROVE  FALSE
      <3>1. m * x <= -m - m
        <4>1. m * (x + 2) <= 0
          BY <1>1, <1>4, <2>2
        <4>2. m * (x + 2) = m * x + m + m
          BY <1>1, <1>4
        <4>3. m * x \in Int
          BY <1>1, <1>4
        <4>4. QED
          BY <1>1, <4>1, <4>2, <4>3
      <3>2. m * x \in Int
        BY <1>1, <1>4
      <3>3. QED
        BY <1>1, <1>3, <1>4, <1>5, <3>1, <3>2
    <2>3. QED
      BY <1>4, <2>1, <2>2
  <1>6. ASSUME v \in -HalfWord .. HalfWord - 1
        PROVE  Signed(v) = v
    <2>1. x = 0 \/ x = -1
      BY <1>5, <1>6
    <2>2. CASE x = 0
      <3>1. m * x = 0
        BY <1>1, <2>2
      <3>2. v = u
        BY <1>4, <3>1
      <3>3. QED
        BY <1>1, <1>2, <1>4, <1>6, <3>2
    <2>3. CASE x = -1
      <3>1. m * x = -m
        BY <1>1, <2>3
      <3>2. v = u - m
        BY <1>1, <1>4, <3>1
      <3>3. ~(u < HalfWord)
        BY <1>1, <1>3, <1>4, <1>6, <3>2
      <3>4. QED
        BY <1>2, <3>2, <3>3
    <2>4. QED
      BY <2>1, <2>2, <2>3
  <1>7. QED
    BY <1>1, <1>2, <1>4, <1>6

\* The parts of a range of which some pixels are left out.
LEMMA PercentilesTyped ==
  ASSUME NEW image \in [Pixel -> Int], NEW valid \in SUBSET Pixel, valid # {},
         NEW low \in Int, NEW high \in Int, low <= high
  PROVE  LET r == Percentiles(image, valid, low, high) IN r.low \in Int /\ r.high \in Int
  <1> DEFINE scale  == IF low = high THEN 1024 ELSE (Bins * 65536) \div (high - low)
             Bin(p) == Clamp((scale * (image[p] - low) + 32768) \div 65536, 0, Bins)
             n      == Cardinality(valid)
             A      == {b \in 0 .. Bins : Cardinality({p \in valid : Bin(p) <= b}) > n \div LowPart}
             B      == {b \in 0 .. Bins : Cardinality({p \in valid : Bin(p) >= b}) > (n - 1) \div HighPart}
             Value(b) == low + (b * (high - low)) \div Bins
  <1>1. Bins \in Nat /\ Bins > 0 /\ Top \in Nat /\ LowPart \in Nat /\ LowPart > 1 /\ HighPart \in Nat /\ HighPart > 0
    BY ImageAssumption
  <1>2. scale \in Int
    <2>1. CASE low = high
      BY <2>1
    <2>2. CASE low # high
      <3> DEFINE d == high - low
                 e == Bins * 65536
      <3>1. d \in Nat /\ d > 0 /\ e \in Int
        BY <1>1, <2>2
      <3> HIDE DEF d, e
      <3>2. e \div d \in Int
        BY <3>1
      <3>3. QED
        BY <2>2, <3>2 DEF d, e
    <2>3. QED
      BY <2>1, <2>2
  <1> HIDE DEF scale
  <1>3. ASSUME NEW p \in valid
        PROVE  Bin(p) \in 0 .. Bins
    <2>1. image[p] - low \in Int
      OBVIOUS
    <2> DEFINE d == image[p] - low
    <2> HIDE DEF d
    <2>2. scale * d + 32768 \in Int
      BY <1>2, <2>1 DEF d
    <2> DEFINE e == scale * d + 32768
    <2> HIDE DEF e
    <2> DEFINE f == e \div 65536
    <2>3. f \in Int
      BY <2>2 DEF e
    <2> HIDE DEF f
    <2>4. Clamp(f, 0, Bins) \in 0 .. Bins
      BY <1>1, <2>3 DEF Clamp
    <2>5. QED
      BY <2>4 DEF d, e, f
  <1>4. n \in Nat /\ n > 0
    <2>1. IsFiniteSet(valid)
      BY PixelFinite
    <2>2. n \in Nat /\ n # 0
      BY <2>1, FS_CardinalityType, FS_EmptySet
    <2>3. QED
      BY <2>2
  <1> HIDE DEF Bin
  <1>5. Bins \in A
    <2>1. {p \in valid : Bin(p) <= Bins} = valid
      BY <1>1, <1>3
    <2>2. n > n \div LowPart
      <3> HIDE DEF n
      <3>1. QED
        BY <1>1, <1>4, DivisionLess
    <2>3. QED
      BY <1>1, <2>1, <2>2
  <1>6. 0 \in B
    <2>1. {p \in valid : Bin(p) >= 0} = valid
      BY <1>1, <1>3
    <2>2. n > (n - 1) \div HighPart
      <3> DEFINE k == n - 1
      <3> HIDE DEF n
      <3>1. k \in Nat /\ k < n
        BY <1>4
      <3> HIDE DEF k
      <3>2. k \div HighPart \in Nat /\ k \div HighPart <= k
        BY <1>1, <3>1, DivisionLess
      <3>3. QED
        BY <1>4, <3>1, <3>2 DEF k
    <2>3. QED
      BY <1>1, <2>1, <2>2
  <1>7. A \in SUBSET Int /\ B \in SUBSET Int /\ IsFiniteSet(A) /\ IsFiniteSet(B)
    <2>1. IsFiniteSet(0 .. Bins)
      <3>1. 0 \in Int /\ Bins \in Int
        BY <1>1
      <3>2. QED
        BY ONLY <3>1, IntervalFinite, Zenon
    <2>2. A \subseteq 0 .. Bins /\ B \subseteq 0 .. Bins
      OBVIOUS
    <2> HIDE DEF A, B
    <2>3. IsFiniteSet(A) /\ IsFiniteSet(B)
      BY <2>1, <2>2, FS_Subset
    <2>4. QED
      BY <1>1, <2>2, <2>3
  <1>8. Percentiles(image, valid, low, high) =
          [low |-> Clamp(Value(Min(A)), 0, Value(Min(A))), high |-> Clamp(Value(Max(B)), Value(Max(B)), Top)]
    BY DEF Percentiles, scale, Bin
  <1> HIDE DEF A, B
  <1>9. Min(A) \in Int /\ Max(B) \in Int
    BY <1>5, <1>6, <1>7, MinMaxExist
  <1>10. ASSUME NEW b \in Int
         PROVE  Value(b) \in Int
    <2> DEFINE d == b * (high - low)
    <2>1. d \in Int
      OBVIOUS
    <2> HIDE DEF d
    <2>2. d \div Bins \in Int
      BY <1>1, <2>1
    <2>3. QED
      BY <2>2 DEF d
  <1> HIDE DEF Value
  <1>11. QED
    BY <1>1, <1>8, <1>9, <1>10 DEF Clamp

\* A normalized image is in range, and as dark and as bright in places as before
\* wherever the products fit their word (normalize), for every image.
THEOREM NormalizationIsSound ==
  ASSUME NEW image \in [Pixel -> Int], NEW flags, NEW percentile \in BOOLEAN
  PROVE  NormalizeSound(image, flags, percentile)
  <1> DEFINE valid == {p \in Pixel : flags[p] \in {"good", "defective"}}
             low   == Min({image[p] : p \in valid})
             high  == Max({image[p] : p \in valid})
             range == IF percentile THEN Percentiles(image, valid, low, high) ELSE [low |-> low, high |-> high]
             gain  == (Top * Fine) \div (range.high - range.low)
             new   == Normalize(image, flags, percentile)
             Fits(p) == (image[p] - range.low) * gain \in -HalfWord .. HalfWord - 1
  <1> SUFFICES ASSUME valid # {}, range.low < range.high
               PROVE  /\ \A p \in Pixel : new[p] \in 0 .. Top
                      /\ \A p, q \in Pixel : image[p] <= image[q] /\ Fits(p) /\ Fits(q) => new[p] <= new[q]
                      /\ ~percentile => \A p \in Pixel : image[p] <= low /\ Fits(p) => new[p] = 0
    BY DEF NormalizeSound
  <1>1. Top \in Nat /\ Fine \in Nat /\ Fine > 0
    BY ImageAssumption
  <1>2. low \in Int /\ high \in Int /\ low <= high
    <2> DEFINE V == {image[p] : p \in valid}
    <2>1. V \in SUBSET Int /\ V # {}
      OBVIOUS
    <2>2. IsFiniteSet(V)
      <3>1. valid \subseteq Pixel /\ IsFiniteSet(valid)
        BY PixelFinite
      <3> DEFINE f == [p \in valid |-> image[p]]
      <3> HIDE DEF valid
      <3>2. DOMAIN f = valid /\ f = [p \in valid |-> f[p]] /\ V = {f[p] : p \in valid}
        OBVIOUS
      <3> HIDE DEF f, V
      <3>3. QED
        BY <3>1, <3>2, FiniteImage
    <2> HIDE DEF V
    <2>3. Min(V) \in V /\ Max(V) \in V /\ Min(V) <= Max(V)
      BY <2>1, <2>2, MinMaxExist
    <2>4. QED
      BY <2>1, <2>3 DEF V
  <1>3. range.low \in Int /\ range.high \in Int
    <2>1. CASE percentile
      <3>1. valid \in SUBSET Pixel /\ valid # {}
        OBVIOUS
      <3> HIDE DEF valid, low, high
      <3>2. QED
        BY <1>2, <2>1, <3>1, PercentilesTyped
    <2>2. CASE ~percentile
      <3> HIDE DEF low, high
      <3>1. QED
        BY <1>2, <2>2
    <2>3. QED
      BY <2>1, <2>2
  <1>4. new = [p \in Pixel |-> Clamp(Signed((image[p] - range.low) * gain) \div Fine, 0, Top)]
    <2>1. ~(valid = {} \/ range.high <= range.low)
      BY <1>3
    <2>2. new = IF valid = {} \/ range.high <= range.low THEN image
                ELSE [p \in Pixel |-> Clamp(Signed((image[p] - range.low) * gain) \div Fine, 0, Top)]
      BY DEF Normalize
    <2>3. QED
      BY <2>1, <2>2
  <1>5. ~percentile => range.low = low
    OBVIOUS
  <1> DEFINE a == range.low
             b == range.high
  <1>6. a \in Int /\ b \in Int /\ a < b
    BY <1>3
  <1>7. gain = (Top * Fine) \div (b - a)
    OBVIOUS
  <1> HIDE DEF range, new, low, high, valid, gain
  <1>8. /\ \A p \in Pixel : new[p] = Clamp(Signed((image[p] - a) * gain) \div Fine, 0, Top)
        /\ \A p \in Pixel : Fits(p) <=> (image[p] - a) * gain \in -HalfWord .. HalfWord - 1
        /\ ~percentile => a = low
    BY <1>4, <1>5
  <1> HIDE DEF a, b, Fits
  <1>9. gain \in Nat
    <2> DEFINE d == b - a
               e == Top * Fine
    <2>1. d \in Nat /\ d > 0 /\ e \in Nat
      BY <1>1, <1>6
    <2> HIDE DEF d, e
    <2>2. e \div d \in Nat
      BY <2>1, DivisionLess
    <2>3. QED
      BY <1>7, <2>2 DEF d, e
  <1> DEFINE X(p) == (image[p] - a) * gain
             Y(p) == Signed(X(p)) \div Fine
  <1>10. ASSUME NEW p \in Pixel
         PROVE  /\ X(p) \in Int /\ Y(p) \in Int /\ new[p] = Clamp(Y(p), 0, Top)
                /\ Fits(p) => Signed(X(p)) = X(p)
    <2> DEFINE x == X(p)
    <2>1. image[p] - a \in Int
      BY <1>6
    <2>2. x \in Int
      BY <1>9, <2>1
    <2>3. (Fits(p) => x \in -HalfWord .. HalfWord - 1) /\ new[p] = Clamp(Signed(x) \div Fine, 0, Top)
      BY <1>8
    <2> HIDE DEF x
    <2>4. Signed(x) \in Int /\ (Fits(p) => Signed(x) = x)
      BY <2>2, <2>3, SignedIs
    <2>5. Signed(x) \div Fine \in Int
      BY <1>1, <2>4
    <2>6. QED
      BY <2>2, <2>3, <2>4, <2>5 DEF x
  <1>11. ASSUME NEW p \in Pixel
         PROVE  new[p] \in 0 .. Top
    <2> DEFINE y == Y(p)
    <2>1. y \in Int /\ new[p] = Clamp(y, 0, Top)
      BY <1>10
    <2> HIDE DEF y
    <2>2. QED
      BY <1>1, <2>1 DEF Clamp
  <1>12. ASSUME NEW p \in Pixel, NEW q \in Pixel, image[p] <= image[q], Fits(p), Fits(q)
         PROVE  new[p] <= new[q]
    <2>1. X(p) <= X(q)
      <3> DEFINE s == image[p] - a
                 t == image[q] - a
      <3>1. s \in Int /\ t \in Int /\ s <= t
        BY <1>6, <1>12
      <3> HIDE DEF s, t
      <3>2. s * gain <= t * gain
        BY <1>9, <3>1
      <3>3. QED
        BY <3>2 DEF s, t
    <2> HIDE DEF X
    <2>2. Y(p) <= Y(q)
      BY <1>1, <1>10, <1>12, <2>1, DivisionOrdered
    <2> DEFINE y == Y(p)
               z == Y(q)
    <2>3. y \in Int /\ z \in Int /\ new[p] = Clamp(y, 0, Top) /\ new[q] = Clamp(z, 0, Top) /\ y <= z
      BY <1>10, <2>2
    <2> HIDE DEF y, z
    <2>4. QED
      BY <1>1, <2>3 DEF Clamp
  <1>13. ASSUME NEW p \in Pixel, ~percentile, image[p] <= low, Fits(p)
         PROVE  new[p] = 0
    <2>1. X(p) <= 0
      <3> DEFINE s == image[p] - a
      <3>1. s \in Int /\ s <= 0
        BY <1>2, <1>6, <1>8, <1>13
      <3> HIDE DEF s
      <3>2. s * gain <= 0
        BY <1>9, <3>1
      <3>3. QED
        BY <3>2 DEF s
    <2> HIDE DEF X
    <2>2. Y(p) <= 0
      <3>1. 0 \div Fine = 0
        BY <1>1
      <3>2. Y(p) <= 0 \div Fine
        BY <1>1, <1>10, <1>13, <2>1, DivisionOrdered
      <3> HIDE DEF Y
      <3>3. QED
        BY <1>10, <3>1, <3>2
    <2> HIDE DEF Y
    <2>3. QED
      BY <1>1, <1>10, <2>2 DEF Clamp
  <1>14. QED
    BY <1>11, <1>12, <1>13

-----------------------------------------------------------------------------
(* Stripes. *)

\* Rows and columns, and the rows in between.
LEMMA SizeFacts ==
  /\ Width \in Nat /\ Height \in Nat /\ Height > 0 /\ Width > 0 /\ Side \in Nat /\ Reach \in Nat /\ 2 * Reach < Height
  /\ Stripe \in Nat /\ Stripe > 0 /\ Doubt \in Nat
  /\ Inner \subseteq Columns /\ Inner # {} /\ Columns # {} /\ Rows # {}
  /\ IsFiniteSet(Columns) /\ IsFiniteSet(Rows) /\ Cardinality(Rows) = Height /\ Rows = 0 .. Height - 1
  /\ \A X \in SUBSET Columns : IsFiniteSet(X) /\ Cardinality(X) \in Nat /\ (X # {} => Cardinality(X) > 0)
  /\ \A x \in Columns, y \in Rows : <<x, y>> \in Pixel
  /\ \A p \in Pixel : p = <<p[1], p[2]>> /\ p[1] \in Columns /\ p[2] \in Rows
  <1>1. /\ Width \in Nat /\ Height \in Nat /\ Height > 0 /\ Width > 0 /\ Side \in Nat /\ Reach \in Nat /\ 2 * Reach < Height
        /\ Stripe \in Nat /\ Stripe > 0 /\ Doubt \in Nat /\ 2 * Side < Width
    BY ImageAssumption
  <1>2. Inner \subseteq Columns
    BY <1>1 DEF Inner, Columns
  <1>3. Inner # {}
    <2>1. Side \in Inner
      BY <1>1 DEF Inner
    <2>2. QED
      BY <2>1
  <1>4. Columns # {} /\ Rows # {}
    <2>1. 0 \in Columns /\ 0 \in Rows
      BY <1>1 DEF Columns, Rows
    <2>2. QED
      BY <2>1
  <1>5. IsFiniteSet(Columns) /\ IsFiniteSet(Rows) /\ Cardinality(Rows) = Height /\ Rows = 0 .. Height - 1
    BY <1>1, SlotsFinite DEF Columns, Rows, Slots
  <1>6. ASSUME NEW X \in SUBSET Columns
        PROVE  IsFiniteSet(X) /\ Cardinality(X) \in Nat /\ (X # {} => Cardinality(X) > 0)
    <2>1. IsFiniteSet(X)
      BY <1>5, FS_Subset
    <2>2. Cardinality(X) \in Nat /\ (X # {} => Cardinality(X) # 0)
      BY <2>1, FS_CardinalityType, FS_EmptySet
    <2>3. QED
      BY <2>1, <2>2
  <1>7. \A x \in Columns, y \in Rows : <<x, y>> \in Pixel
    BY DEF Pixel
  <1>8. \A p \in Pixel : p = <<p[1], p[2]>> /\ p[1] \in Columns /\ p[2] \in Rows
    BY DEF Pixel
  <1>9. QED
    BY <1>1, <1>2, <1>3, <1>4, <1>5, <1>6, <1>7, <1>8

\* An image has stripes when the rows of some window together score too much.
LEMMA StripedIs ==
  ASSUME NEW score, \A y \in Rows : score[y] \in Int
  PROVE  /\ Striped(score) <=> \E y \in Reach .. Height - 1 - Reach :
                                 SumFunctionOnSet(score, y - Reach .. y + Reach) > Doubt * (2 * Reach + 1)
         /\ \A y \in Reach .. Height - 1 - Reach : SumFunctionOnSet(score, y - Reach .. y + Reach) \in Int
  <1> DEFINE w == CHOOSE u : Running(u, Height, Reach, score)
  <1>1. Height \in Nat /\ Reach \in Nat /\ 2 * Reach < Height /\ \A i \in 0 .. Height - 1 : score[i] \in Int
    BY SizeFacts
  <1>2. \A x \in Reach .. Height - 1 - Reach : w[x] = SumFunctionOnSet(score, x - Reach .. x + Reach) /\ w[x] \in Int
    BY <1>1, RunningIs
  <1>3. Striped(score) <=> \E y \in Reach .. Height - 1 - Reach : w[y] > Doubt * (2 * Reach + 1)
    BY DEF Striped, Running
  <1> HIDE DEF w
  <1>4. QED
    BY <1>2, <1>3

\* Such a window is any set of rows next to each other that is long enough.
LEMMA TogetherIs ==
  ASSUME NEW Y
  PROVE  (Y \in SUBSET Rows /\ Cardinality(Y) = 2 * Reach + 1 /\ Y = Min(Y) .. Max(Y))
           <=> \E y \in Reach .. Height - 1 - Reach : Y = y - Reach .. y + Reach
  <1>1. Height \in Nat /\ Reach \in Nat /\ 2 * Reach < Height /\ Rows = 0 .. Height - 1 /\ IsFiniteSet(Rows)
    BY SizeFacts
  <1>2. ASSUME Y \in SUBSET Rows, Cardinality(Y) = 2 * Reach + 1, Y = Min(Y) .. Max(Y)
        PROVE  \E y \in Reach .. Height - 1 - Reach : Y = y - Reach .. y + Reach
    <2>1. IsFiniteSet(Y) /\ Y # {} /\ Y \in SUBSET Int
      <3>1. IsFiniteSet(Y)
        BY <1>1, <1>2, FS_Subset
      <3>2. Y # {}
        BY <1>1, <1>2, FS_EmptySet
      <3>3. QED
        BY <1>1, <1>2, <3>1, <3>2
    <2>2. PICK a, b : a = Min(Y) /\ b = Max(Y)
      OBVIOUS
    <2>3. a \in Y /\ b \in Y /\ a <= b /\ a \in 0 .. Height - 1 /\ b \in 0 .. Height - 1
      BY <1>1, <1>2, <2>1, <2>2, MinMaxExist
    <2>4. Y = a .. b
      BY <1>2, <2>2
    <2>5. Cardinality(a .. b) = b - a + 1
      <3>1. a \in Int /\ b \in Int /\ a <= b
        BY <1>1, <2>3
      <3>2. QED
        BY <3>1, WindowLength
    <2>6. b = a + 2 * Reach
      BY <1>1, <1>2, <2>3, <2>4, <2>5
    <2> DEFINE y == a + Reach
    <2>7. y \in Reach .. Height - 1 - Reach /\ y - Reach = a /\ y + Reach = b
      BY <1>1, <2>3, <2>6
    <2>8. QED
      BY <2>4, <2>7
  <1>3. ASSUME NEW y \in Reach .. Height - 1 - Reach, Y = y - Reach .. y + Reach
        PROVE  Y \in SUBSET Rows /\ Cardinality(Y) = 2 * Reach + 1 /\ Y = Min(Y) .. Max(Y)
    <2> DEFINE a == y - Reach
               b == y + Reach
    <2>1. a \in Int /\ b \in Int /\ a <= b /\ b - a + 1 = 2 * Reach + 1 /\ a \in 0 .. Height - 1 /\ b \in 0 .. Height - 1
      BY <1>1
    <2>2. Y = a .. b
      BY <1>3
    <2> HIDE DEF a, b
    <2>3. Cardinality(Y) = 2 * Reach + 1
      BY <2>1, <2>2, WindowLength
    <2>4. a \in Y /\ b \in Y /\ Y \in SUBSET Int /\ (\A x \in Y : a <= x) /\ (\A x \in Y : b >= x)
      BY <2>1, <2>2
    <2>5. Min(Y) = a /\ Max(Y) = b
      BY <2>4, MinIs, MaxIs
    <2>6. Y \subseteq Rows
      BY <1>1, <2>1, <2>2
    <2>7. QED
      BY <2>2, <2>3, <2>5, <2>6
  <1>4. QED
    BY <1>2, <1>3

\* An image that is brighter, and one that is upside down.
Brighter(f, c)  == [p \in Pixel |-> f[p] + c]
UpsideDown(f)   == [p \in Pixel |-> f[<<p[1], Height - 1 - p[2]>>]]

\* The mean of an image that is brighter is as much higher.
LEMMA MeanIs ==
  ASSUME NEW image \in [Pixel -> Int], NEW X \in SUBSET Columns, X # {}
  PROVE  /\ MeanOf(image, X) \in Int
         /\ \A c \in Int : MeanOf(Brighter(image, c), X) = MeanOf(image, X) + c
         /\ MeanOf(UpsideDown(image), X) = MeanOf(image, X)
  <1> DEFINE S    == X \X Rows
             d    == Cardinality(X) * Height
             f    == [p \in S |-> image[p]]
             s    == SumFunctionOnSet(f, S)
  <1>1. S \subseteq Pixel /\ IsFiniteSet(S) /\ Cardinality(S) = d /\ d \in Nat /\ d > 0
    <2>1. IsFiniteSet(X) /\ IsFiniteSet(Rows) /\ Cardinality(Rows) = Height /\ Height \in Nat /\ Height > 0
          /\ Cardinality(X) \in Nat /\ Cardinality(X) > 0
      BY SizeFacts
    <2>2. IsFiniteSet(S) /\ Cardinality(S) = d
      BY <2>1, FS_Product
    <2>3. \A a, b \in Nat : a > 0 /\ b > 0 => a * b \in Nat /\ a * b > 0
      OBVIOUS
    <2>4. d \in Nat /\ d > 0
      BY <2>1, <2>3
    <2>5. S \subseteq Pixel
      BY DEF Pixel
    <2>6. QED
      BY <2>2, <2>4, <2>5
  <1>2. \A p \in S : f[p] \in Int /\ f[p] = image[p]
    BY <1>1
  <1>3. s \in Int
    <2> HIDE DEF S, f
    <2>1. QED
      BY <1>1, <1>2, SumSplits
  <1>4. ASSUME NEW g
        PROVE  MeanOf(g, X) = SumFunctionOnSet([p \in S |-> g[p]], S) \div d
    BY DEF MeanOf, SumFunction
  <1>5. MeanOf(image, X) = s \div d
    BY <1>4
  <1>6. ASSUME NEW c \in Int
        PROVE  MeanOf(Brighter(image, c), X) = MeanOf(image, X) + c
    <2> DEFINE g == Brighter(image, c)
               h == [p \in S |-> g[p]]
    <2>1. \A p \in S : h[p] = f[p] + c
      BY <1>1 DEF Brighter
    <2>2. MeanOf(g, X) = SumFunctionOnSet(h, S) \div d
      BY <1>4
    <2> HIDE DEF g, h, f, S
    <2>3. SumFunctionOnSet(h, S) = s + d * c
      BY <1>1, <1>2, <2>1, SumShifted
    <2> HIDE DEF s, d
    <2>4. (s + d * c) \div d = s \div d + c
      BY <1>1, <1>3, QuotientShifted
    <2>5. QED
      BY <1>5, <2>2, <2>3, <2>4 DEF g
  <1>7. MeanOf(UpsideDown(image), X) = MeanOf(image, X)
    <2> DEFINE Down(p) == <<p[1], Height - 1 - p[2]>>
               g == UpsideDown(image)
               h == [p \in S |-> g[p]]
               b == [p \in S |-> Down(p)]
    <2>1. \A p \in S : Down(p) \in S /\ Down(Down(p)) = p /\ p[2] \in 0 .. Height - 1 /\ p = <<p[1], p[2]>>
      BY SizeFacts
    <2>2. \A p, q \in S : b[p] = b[q] => p = q
      BY <2>1
    <2>3. \A p \in S : h[b[p]] = f[p]
      BY <1>1, <2>1 DEF UpsideDown
    <2>4. {b[p] : p \in S} = S
      BY <2>1
    <2>5. MeanOf(g, X) = SumFunctionOnSet(h, S) \div d
      BY <1>4
    <2> HIDE DEF g, h, f, b, S
    <2>6. SumFunctionOnSet(f, S) = SumFunctionOnSet(h, {b[p] : p \in S})
      BY <1>1, <1>2, <2>2, <2>3, SumRenamed
    <2> HIDE DEF s, d
    <2>7. QED
      BY <1>5, <2>4, <2>5, <2>6 DEF g, s
  <1>8. MeanOf(image, X) \in Int
    <2> HIDE DEF s, d
    <2>1. QED
      BY <1>1, <1>3, <1>5, QuotientShifted
  <1>9. QED
    BY <1>6, <1>7, <1>8

\* What a row is made of is a number.
LEMMA ProjectionTyped ==
  ASSUME NEW X, IsFiniteSet(X), NEW strip \in [X -> Int], NEW weight, \A x \in X : weight[x] \in Int
  PROVE  Projection(strip, weight) \in Int
  <1> DEFINE f == [x \in X |-> strip[x] * weight[x]]
  <1>1. \A x \in X : f[x] \in Int
    OBVIOUS
  <1>2. Projection(strip, weight) = SumFunctionOnSet(f, X)
    BY DEF Projection, SumFunction
  <1> HIDE DEF f
  <1>3. QED
    BY <1>1, <1>2, SumSplits

\* What a row scores is a number.
LEMMA RowScoreTyped ==
  ASSUME NEW X, IsFiniteSet(X), NEW strip \in [X -> Int], NEW quality, \A x, i \in X : quality[x][i] \in Int
  PROVE  RowScore(strip, quality) \in Int
  <1> DEFINE f == [x \in X |-> Projection(strip, quality[x]) * strip[x]]
  <1>1. ASSUME NEW x \in X
        PROVE  f[x] \in Int
    <2> DEFINE w == quality[x]
    <2>1. \A i \in X : w[i] \in Int
      OBVIOUS
    <2> HIDE DEF w
    <2>2. Projection(strip, w) \in Int
      BY <2>1, ProjectionTyped
    <2>3. f[x] = Projection(strip, w) * strip[x] /\ strip[x] \in Int
      BY DEF w
    <2>4. QED
      BY <2>2, <2>3
  <1>2. RowScore(strip, quality) = SumFunctionOnSet(f, X)
    BY DEF RowScore, SumFunction
  <1> HIDE DEF f
  <1>3. QED
    BY <1>1, <1>2, SumSplits

\* A row less the mean is the same of a brighter image.
LEMMA LessIs ==
  ASSUME NEW image \in [Pixel -> Int], NEW X \in SUBSET Columns, NEW y \in Rows, NEW mean \in Int
  PROVE  /\ Less(image, mean, X, y) \in [X -> Int]
         /\ \A c \in Int : Less(Brighter(image, c), mean + c, X, y) = Less(image, mean, X, y)
         /\ Less(UpsideDown(image), mean, X, y)
              = Less(image, mean, X, Height - 1 - y)
  <1>1. \A x \in X : <<x, y>> \in Pixel /\ image[<<x, y>>] \in Int
    BY SizeFacts
  <1>2. Less(image, mean, X, y) \in [X -> Int]
    BY <1>1 DEF Less
  <1>3. ASSUME NEW c \in Int
        PROVE  Less(Brighter(image, c), mean + c, X, y) = Less(image, mean, X, y)
    <2>1. \A x \in X : Brighter(image, c)[<<x, y>>] - (mean + c) = image[<<x, y>>] - mean
      BY <1>1 DEF Brighter
    <2>2. QED
      BY <2>1 DEF Less
  <1>4. Less(UpsideDown(image), mean, X, y) = Less(image, mean, X, Height - 1 - y)
    <2>1. \A x \in X : UpsideDown(image)[<<x, y>>] = image[<<x, Height - 1 - y>>]
      BY <1>1 DEF UpsideDown
    <2>2. QED
      BY <2>1 DEF Less
  <1>5. QED
    BY <1>2, <1>3, <1>4

\* A pixel of an image that is upside down is one of the image.
LEMMA UpsideDownIs ==
  ASSUME NEW p \in Pixel
  PROVE  /\ <<p[1], Height - 1 - p[2]>> \in Pixel /\ Height - 1 - p[2] \in Rows
         /\ Height - 1 - (Height - 1 - p[2]) = p[2]
  <1>1. Height \in Nat /\ Rows = 0 .. Height - 1 /\ p[1] \in Columns /\ p[2] \in Rows
    BY SizeFacts
  <1>2. Height - 1 - p[2] \in Rows /\ Height - 1 - (Height - 1 - p[2]) = p[2]
    BY <1>1
  <1>3. QED
    BY <1>1, <1>2, SizeFacts

\* Both are images.
LEMMA ShownTyped ==
  ASSUME NEW f \in [Pixel -> Int]
  PROVE  (\A c \in Int : Brighter(f, c) \in [Pixel -> Int]) /\ UpsideDown(f) \in [Pixel -> Int]
  BY UpsideDownIs DEF Brighter, UpsideDown

\* The scores of the rows do not depend on how bright an image is, and are
\* upside down with it.
LEMMA ScoresAre ==
  ASSUME NEW image \in [Pixel -> Int], NEW quality \in [Inner -> [Inner -> Int]], NEW mean \in Int
  PROVE  /\ RowScores(image, mean, quality) \in [Rows -> Int]
         /\ \A c \in Int : RowScores(Brighter(image, c), mean + c, quality) = RowScores(image, mean, quality)
         /\ \A y \in Rows : RowScores(UpsideDown(image), mean, quality)[y]
                              = RowScores(image, mean, quality)[Height - 1 - y]
  <1>1. Inner \in SUBSET Columns /\ IsFiniteSet(Inner) /\ \A y \in Rows : Height - 1 - y \in Rows
    BY SizeFacts
  <1>2. ASSUME NEW y \in Rows
        PROVE  /\ RowScore(Less(image, mean, Inner, y), quality) \in Int
               /\ \A c \in Int : Less(Brighter(image, c), mean + c, Inner, y) = Less(image, mean, Inner, y)
               /\ Less(UpsideDown(image), mean, Inner, y) = Less(image, mean, Inner, Height - 1 - y)
    <2> DEFINE strip == Less(image, mean, Inner, y)
    <2>1. strip \in [Inner -> Int]
      BY <1>1, LessIs
    <2>2. \A x, i \in Inner : quality[x][i] \in Int
      OBVIOUS
    <2>3. RowScore(strip, quality) \in Int
      <3> HIDE DEF strip
      <3>1. QED
        BY <1>1, <2>1, <2>2, RowScoreTyped
    <2>4. \A c \in Int : Less(Brighter(image, c), mean + c, Inner, y) = Less(image, mean, Inner, y)
      BY <1>1, LessIs
    <2>5. Less(UpsideDown(image), mean, Inner, y) = Less(image, mean, Inner, Height - 1 - y)
      BY <1>1, LessIs
    <2>6. QED
      BY <2>3, <2>4, <2>5
  <1>3. ASSUME NEW g, NEW m
        PROVE  RowScores(g, m, quality) = [y \in Rows |-> RowScore(Less(g, m, Inner, y), quality)]
    BY DEF RowScores
  <1>4. RowScores(image, mean, quality) \in [Rows -> Int]
    BY <1>2, <1>3
  <1>5. ASSUME NEW c \in Int
        PROVE  RowScores(Brighter(image, c), mean + c, quality) = RowScores(image, mean, quality)
    BY <1>2, <1>3
  <1>6. ASSUME NEW y \in Rows
        PROVE  RowScores(UpsideDown(image), mean, quality)[y] = RowScores(image, mean, quality)[Height - 1 - y]
    BY <1>1, <1>2, <1>3
  <1>7. QED
    BY <1>4, <1>5, <1>6

\* Stripes stay when the rows are turned around.
LEMMA StripedTurns ==
  ASSUME NEW f, \A y \in Rows : f[y] \in Int, NEW g, \A y \in Rows : g[y] = f[Height - 1 - y]
  PROVE  Striped(g) = Striped(f)
  <1> DEFINE R == Reach .. Height - 1 - Reach
             Window(y) == y - Reach .. y + Reach
  <1>1. Height \in Nat /\ Reach \in Nat /\ 2 * Reach < Height /\ Rows = 0 .. Height - 1
    BY SizeFacts
  <1>2. ASSUME NEW y \in R
        PROVE  /\ Height - 1 - y \in R /\ Height - 1 - (Height - 1 - y) = y
               /\ SumFunctionOnSet(f, Window(y)) = SumFunctionOnSet(g, Window(Height - 1 - y))
    <2> DEFINE S == Window(y)
               T == Window(Height - 1 - y)
               b == [x \in S |-> Height - 1 - x]
    <2>1. S \subseteq Rows /\ (\A x \in S : x \in Int) /\ \A x \in S : Height - 1 - x \in Rows /\ Height - 1 - (Height - 1 - x) = x
      BY <1>1
    <2>2. IsFiniteSet(S)
      BY <2>1, SizeFacts, FS_Subset
    <2>3. {b[x] : x \in S} = T
      <3>1. \A x \in S : b[x] \in T
        BY <1>1
      <3>2. ASSUME NEW x \in T
            PROVE  \E u \in S : b[u] = x
        <4>1. Height - 1 - x \in S /\ Height - 1 - (Height - 1 - x) = x
          BY <1>1
        <4>2. b[Height - 1 - x] = x
          BY <4>1
        <4>3. QED
          BY <4>1, <4>2
      <3>3. QED
        BY <3>1, <3>2
    <2>4. Height - 1 - y \in R /\ Height - 1 - (Height - 1 - y) = y
      BY <1>1
    <2>5. \A x \in S : f[x] \in Int
      BY <2>1
    <2>6. \A x, u \in S : b[x] = b[u] => x = u
      BY <1>1, <2>1
    <2>7. \A x \in S : g[b[x]] = f[x]
      BY <2>1
    <2> HIDE DEF S, T, b
    <2>8. SumFunctionOnSet(f, S) = SumFunctionOnSet(g, T)
      BY <2>2, <2>3, <2>5, <2>6, <2>7, SumRenamed
    <2>9. QED
      BY <2>4, <2>8 DEF S, T
  <1>3. \A y \in Rows : g[y] \in Int
    BY <1>1
  <1>4. /\ Striped(f) <=> \E y \in R : SumFunctionOnSet(f, Window(y)) > Doubt * (2 * Reach + 1)
        /\ Striped(g) <=> \E y \in R : SumFunctionOnSet(g, Window(y)) > Doubt * (2 * Reach + 1)
    BY <1>3, StripedIs
  <1>5. Striped(f) <=> Striped(g)
    <2> HIDE DEF R, Window
    <2>1. QED
      BY <1>2, <1>4
  <1>6. Striped(f) \in BOOLEAN /\ Striped(g) \in BOOLEAN
    BY DEF Striped
  <1>7. QED
    BY <1>5, <1>6

\* What is left of an image without its stripes, before it is smoothed.
LEMMA StraightIs ==
  ASSUME NEW image \in [Pixel -> Int], NEW stripes, \A b \in 0 .. Width \div Stripe : stripes[b] \in [Columns -> Int],
         NEW mean \in Int
  PROVE  /\ Straight(image, mean, stripes) \in [Pixel -> Int]
         /\ \A c \in Int : Straight(Brighter(image, c), mean + c, stripes) = Brighter(Straight(image, mean, stripes), c)
         /\ Straight(UpsideDown(image), mean, stripes) = UpsideDown(Straight(image, mean, stripes))
  <1> DEFINE Cut(y, x) == Projection(Less(image, mean, Columns, y), stripes[x \div Stripe])
             s == Straight(image, mean, stripes)
  <1>1. /\ Columns \in SUBSET Columns /\ IsFiniteSet(Columns) /\ Stripe \in Nat /\ Stripe > 0 /\ Width \in Nat
        /\ Columns = 0 .. Width - 1 /\ \A p \in Pixel : p[1] \in Columns /\ p[2] \in Rows
    BY SizeFacts DEF Columns
  <1>2. ASSUME NEW x \in Columns, NEW y \in Rows
        PROVE  Cut(y, x) \in Int
    <2> DEFINE k == x \div Stripe
               strip == Less(image, mean, Columns, y)
               weight == stripes[k]
    <2>1. k \in 0 .. Width \div Stripe
      <3>1. x \in Nat /\ x <= Width
        BY <1>1
      <3>2. x \div Stripe \in Nat
        BY <1>1, <3>1, DivisionLess
      <3>2a. x \in Int /\ Width \in Int /\ x <= Width /\ Stripe \in Nat /\ Stripe > 0
        BY <1>1, <3>1
      <3>3. x \div Stripe <= Width \div Stripe /\ Width \div Stripe \in Int
        BY ONLY <3>2a, DivisionOrdered
      <3>4. QED
        BY <3>2, <3>3
    <2>2. strip \in [Columns -> Int]
      BY <1>1, LessIs
    <2>3. \A i \in Columns : weight[i] \in Int
      <3> HIDE DEF k
      <3>1. stripes[k] \in [Columns -> Int]
        BY <2>1
      <3>2. QED
        BY <3>1
    <2> HIDE DEF strip, weight
    <2>4. Projection(strip, weight) \in Int
      BY <1>1, <2>2, <2>3, ProjectionTyped
    <2>5. QED
      BY <2>4 DEF strip, weight
  <1>3. s = [p \in Pixel |-> image[p] - Cut(p[2], p[1])]
    BY DEF Straight
  <1>4. s \in [Pixel -> Int]
    <2> HIDE DEF Cut
    <2>1. QED
      BY <1>1, <1>2, <1>3
  <1>5. ASSUME NEW c \in Int
        PROVE  Straight(Brighter(image, c), mean + c, stripes) = Brighter(s, c)
    <2>1. \A y \in Rows : Less(Brighter(image, c), mean + c, Columns, y) = Less(image, mean, Columns, y)
      <3> SUFFICES ASSUME NEW y \in Rows
                   PROVE  Less(Brighter(image, c), mean + c, Columns, y) = Less(image, mean, Columns, y)
        OBVIOUS
      <3>1. Columns \in SUBSET Columns
        OBVIOUS
      <3>2. \A e \in Int : Less(Brighter(image, e), mean + e, Columns, y) = Less(image, mean, Columns, y)
        BY <3>1, LessIs
      <3>3. QED
        BY <3>2
    <2>2. Straight(Brighter(image, c), mean + c, stripes)
            = [p \in Pixel |-> Brighter(image, c)[p]
                 - Projection(Less(Brighter(image, c), mean + c, Columns, p[2]), stripes[p[1] \div Stripe])]
      BY DEF Straight
    <2>3. \A p \in Pixel : Projection(Less(Brighter(image, c), mean + c, Columns, p[2]), stripes[p[1] \div Stripe])
                             = Cut(p[2], p[1])
      BY <1>1, <2>1
    <2>4. \A p \in Pixel : Brighter(image, c)[p] = image[p] + c /\ image[p] \in Int /\ Cut(p[2], p[1]) \in Int
      <3> HIDE DEF Cut
      <3>1. QED
        BY <1>1, <1>2 DEF Brighter
    <2> HIDE DEF Cut, s
    <2>5. \A p \in Pixel : Brighter(image, c)[p] - Cut(p[2], p[1]) = s[p] + c
      BY <1>3, <2>4
    <2>6. QED
      BY <2>2, <2>3, <2>5 DEF Brighter
  <1>6. Straight(UpsideDown(image), mean, stripes) = UpsideDown(s)
    <2>1. \A y \in Rows : Less(UpsideDown(image), mean, Columns, y) = Less(image, mean, Columns, Height - 1 - y)
      BY <1>1, LessIs
    <2>2. Straight(UpsideDown(image), mean, stripes)
            = [p \in Pixel |-> UpsideDown(image)[p]
                 - Projection(Less(UpsideDown(image), mean, Columns, p[2]), stripes[p[1] \div Stripe])]
      BY DEF Straight
    <2>3. \A p \in Pixel : Projection(Less(UpsideDown(image), mean, Columns, p[2]), stripes[p[1] \div Stripe])
                             = Cut(Height - 1 - p[2], p[1])
      BY <1>1, <2>1
    <2>4. \A p \in Pixel : UpsideDown(image)[p] = image[<<p[1], Height - 1 - p[2]>>]
      BY DEF UpsideDown
    <2> HIDE DEF Cut, s
    <2>5. ASSUME NEW p \in Pixel
          PROVE  UpsideDown(image)[p] - Cut(Height - 1 - p[2], p[1]) = UpsideDown(s)[p]
      <3> DEFINE q == <<p[1], Height - 1 - p[2]>>
      <3>1. q \in Pixel /\ q[1] = p[1] /\ q[2] = Height - 1 - p[2]
        BY UpsideDownIs
      <3>2. s[q] = image[q] - Cut(q[2], q[1])
        BY <1>3, <3>1
      <3>3. UpsideDown(s)[p] = s[q]
        BY DEF UpsideDown
      <3>4. QED
        BY <2>4, <3>1, <3>2, <3>3
    <2>6. UpsideDown(s) = [p \in Pixel |-> UpsideDown(s)[p]]
      BY DEF UpsideDown
    <2>7. QED
      BY <2>2, <2>3, <2>5, <2>6
  <1>7. QED
    BY <1>4, <1>5, <1>6

\* The neighbours of a pixel along an axis.
Lower(p, axis, last) == [p EXCEPT ![axis] = Clamp(@ - 1, 0, last)]
Upper(p, axis, last) == [p EXCEPT ![axis] = Clamp(@ + 1, 0, last)]
Mirror(p) == <<p[1], Height - 1 - p[2]>>

\* They are pixels, and those of an image upside down are the other ones along a
\* column.
LEMMA NeighboursAre ==
  ASSUME NEW p \in Pixel, NEW axis \in {1, 2}
  PROVE  LET last == IF axis = 1 THEN Width - 1 ELSE Height - 1
         IN  /\ Lower(p, axis, last) \in Pixel /\ Upper(p, axis, last) \in Pixel
             /\ axis = 1 => /\ Lower(Mirror(p), axis, last) = Mirror(Lower(p, axis, last))
                            /\ Upper(Mirror(p), axis, last) = Mirror(Upper(p, axis, last))
             /\ axis = 2 => /\ Lower(Mirror(p), axis, last) = Mirror(Upper(p, axis, last))
                            /\ Upper(Mirror(p), axis, last) = Mirror(Lower(p, axis, last))
  <1>1. /\ Width \in Nat /\ Width > 0 /\ Height \in Nat /\ Height > 0 /\ p[1] \in 0 .. Width - 1 /\ p[2] \in 0 .. Height - 1
        /\ p = <<p[1], p[2]>>
    BY SizeFacts DEF Columns
  <1>2. ASSUME NEW x \in Int, NEW y \in Int, NEW l \in Int
        PROVE  /\ Lower(<<x, y>>, 1, l) = <<Clamp(x - 1, 0, l), y>> /\ Upper(<<x, y>>, 1, l) = <<Clamp(x + 1, 0, l), y>>
               /\ Lower(<<x, y>>, 2, l) = <<x, Clamp(y - 1, 0, l)>> /\ Upper(<<x, y>>, 2, l) = <<x, Clamp(y + 1, 0, l)>>
    BY DEF Lower, Upper
  <1>3. \A x \in 0 .. Width - 1, y \in 0 .. Height - 1 : <<x, y>> \in Pixel
    BY SizeFacts DEF Columns
  <1> DEFINE x == p[1]
             y == p[2]
             z == Height - 1 - y
  <1>4. /\ Clamp(x - 1, 0, Width - 1) \in 0 .. Width - 1 /\ Clamp(x + 1, 0, Width - 1) \in 0 .. Width - 1
        /\ Clamp(y - 1, 0, Height - 1) \in 0 .. Height - 1 /\ Clamp(y + 1, 0, Height - 1) \in 0 .. Height - 1
        /\ Clamp(z - 1, 0, Height - 1) = Height - 1 - Clamp(y + 1, 0, Height - 1)
        /\ Clamp(z + 1, 0, Height - 1) = Height - 1 - Clamp(y - 1, 0, Height - 1)
    BY <1>1 DEF Clamp
  <1>5. p = <<x, y>> /\ Mirror(p) = <<x, z>> /\ x \in Int /\ y \in Int /\ z \in Int /\ Width - 1 \in Int /\ Height - 1 \in Int
        /\ x \in 0 .. Width - 1 /\ y \in 0 .. Height - 1
    BY <1>1 DEF Mirror
  <1>6. \A u, v : Mirror(<<u, v>>) = <<u, Height - 1 - v>>
    BY DEF Mirror
  <1> HIDE DEF x, y, z
  <1>7. CASE axis = 1
    <2>1. /\ Lower(p, 1, Width - 1) = <<Clamp(x - 1, 0, Width - 1), y>> /\ Upper(p, 1, Width - 1) = <<Clamp(x + 1, 0, Width - 1), y>>
          /\ Lower(Mirror(p), 1, Width - 1) = <<Clamp(x - 1, 0, Width - 1), z>>
          /\ Upper(Mirror(p), 1, Width - 1) = <<Clamp(x + 1, 0, Width - 1), z>>
      BY <1>2, <1>5
    <2>2. Lower(p, 1, Width - 1) \in Pixel /\ Upper(p, 1, Width - 1) \in Pixel
      BY <1>3, <1>4, <1>5, <2>1
    <2>3. /\ Lower(Mirror(p), 1, Width - 1) = Mirror(Lower(p, 1, Width - 1))
          /\ Upper(Mirror(p), 1, Width - 1) = Mirror(Upper(p, 1, Width - 1))
      <3> DEFINE a == Clamp(x - 1, 0, Width - 1)
                 b == Clamp(x + 1, 0, Width - 1)
      <3>1. Mirror(<<a, y>>) = <<a, z>> /\ Mirror(<<b, y>>) = <<b, z>>
        BY <1>6 DEF z
      <3> HIDE DEF a, b
      <3>2. QED
        BY <2>1, <3>1 DEF a, b
    <2>4. QED
      BY <1>7, <2>2, <2>3
  <1>8. CASE axis = 2
    <2>1. /\ Lower(p, 2, Height - 1) = <<x, Clamp(y - 1, 0, Height - 1)>> /\ Upper(p, 2, Height - 1) = <<x, Clamp(y + 1, 0, Height - 1)>>
          /\ Lower(Mirror(p), 2, Height - 1) = <<x, Clamp(z - 1, 0, Height - 1)>>
          /\ Upper(Mirror(p), 2, Height - 1) = <<x, Clamp(z + 1, 0, Height - 1)>>
      BY <1>2, <1>5
    <2>2. QED
      BY <1>3, <1>4, <1>5, <1>6, <1>8, <2>1
  <1>9. QED
    BY <1>7, <1>8

\* Pixels together with their neighbours.
LEMMA ThreeIs ==
  ASSUME NEW f \in [Pixel -> Int], NEW axis \in {1, 2}
  PROVE  LET last == IF axis = 1 THEN Width - 1 ELSE Height - 1
         IN  /\ ThreeOf(f, axis, last) \in [Pixel -> Int]
             /\ \A c \in Int : ThreeOf(Brighter(f, c), axis, last) = Brighter(ThreeOf(f, axis, last), 3 * c)
             /\ ThreeOf(UpsideDown(f), axis, last) = UpsideDown(ThreeOf(f, axis, last))
  <1> DEFINE last == IF axis = 1 THEN Width - 1 ELSE Height - 1
             L(p) == Lower(p, axis, last)
             U(p) == Upper(p, axis, last)
  <1>1. ASSUME NEW g
        PROVE  ThreeOf(g, axis, last) = [p \in Pixel |-> g[p] + g[L(p)] + g[U(p)]]
    BY DEF ThreeOf, Lower, Upper
  <1>2. ASSUME NEW p \in Pixel
        PROVE  /\ L(p) \in Pixel /\ U(p) \in Pixel /\ Mirror(p) \in Pixel
               /\ \/ L(Mirror(p)) = Mirror(L(p)) /\ U(Mirror(p)) = Mirror(U(p))
                  \/ L(Mirror(p)) = Mirror(U(p)) /\ U(Mirror(p)) = Mirror(L(p))
    <2>1. Mirror(p) \in Pixel
      BY UpsideDownIs DEF Mirror
    <2>2. QED
      BY <2>1, NeighboursAre
  <1> HIDE DEF last, L, U
  <1>3. ThreeOf(f, axis, last) \in [Pixel -> Int]
    BY <1>1, <1>2
  <1>4. ASSUME NEW c \in Int
        PROVE  ThreeOf(Brighter(f, c), axis, last) = Brighter(ThreeOf(f, axis, last), 3 * c)
    <2>1. \A p \in Pixel : /\ Brighter(f, c)[p] = f[p] + c /\ Brighter(f, c)[L(p)] = f[L(p)] + c
                           /\ Brighter(f, c)[U(p)] = f[U(p)] + c
                           /\ f[p] \in Int /\ f[L(p)] \in Int /\ f[U(p)] \in Int
      BY <1>2 DEF Brighter
    <2>2. \A p \in Pixel : ThreeOf(f, axis, last)[p] = f[p] + f[L(p)] + f[U(p)]
      BY <1>1
    <2>3. \A p \in Pixel : Brighter(f, c)[p] + Brighter(f, c)[L(p)] + Brighter(f, c)[U(p)]
                             = ThreeOf(f, axis, last)[p] + 3 * c
      BY <2>1, <2>2
    <2>4. QED
      BY <1>1, <2>3 DEF Brighter
  <1>5. ThreeOf(UpsideDown(f), axis, last) = UpsideDown(ThreeOf(f, axis, last))
    <2>1. \A p \in Pixel : UpsideDown(f)[p] = f[Mirror(p)]
      BY DEF UpsideDown, Mirror
    <2>2. \A p \in Pixel : /\ UpsideDown(f)[L(p)] = f[Mirror(L(p))] /\ UpsideDown(f)[U(p)] = f[Mirror(U(p))]
      BY <1>2, <2>1
    <2>3. ASSUME NEW p \in Pixel
          PROVE  UpsideDown(f)[p] + UpsideDown(f)[L(p)] + UpsideDown(f)[U(p)] = ThreeOf(f, axis, last)[Mirror(p)]
      <3> DEFINE q == Mirror(p)
      <3>1. q \in Pixel /\ L(q) \in Pixel /\ U(q) \in Pixel
        BY <1>2
      <3>2. ThreeOf(f, axis, last)[q] = f[q] + f[L(q)] + f[U(q)]
        BY <1>1, <3>1
      <3>3. f[q] \in Int /\ f[L(q)] \in Int /\ f[U(q)] \in Int
        BY <3>1
      <3>4. \/ f[L(q)] = f[Mirror(L(p))] /\ f[U(q)] = f[Mirror(U(p))]
            \/ f[L(q)] = f[Mirror(U(p))] /\ f[U(q)] = f[Mirror(L(p))]
        BY <1>2
      <3>5. QED
        BY <2>1, <2>2, <3>2, <3>3, <3>4
    <2>4. UpsideDown(ThreeOf(f, axis, last)) = [p \in Pixel |-> ThreeOf(f, axis, last)[Mirror(p)]]
      BY DEF UpsideDown, Mirror
    <2>5. QED
      BY <1>1, <2>3, <2>4
  <1>6. QED
    BY <1>3, <1>4, <1>5 DEF last

\* A ninth of what is nine times brighter is as much brighter.
LEMMA NinthIs ==
  ASSUME NEW f \in [Pixel -> Int]
  PROVE  /\ Ninth(f) \in [Pixel -> Int]
         /\ \A c \in Int : Ninth(Brighter(f, 3 * (3 * c))) = Brighter(Ninth(f), c)
         /\ Ninth(UpsideDown(f)) = UpsideDown(Ninth(f))
  <1>1. Ninth(f) \in [Pixel -> Int]
    BY DEF Ninth
  <1>2. ASSUME NEW c \in Int
        PROVE  Ninth(Brighter(f, 3 * (3 * c))) = Brighter(Ninth(f), c)
    <2>1. \A v \in Int : (v + 3 * (3 * c)) \div 9 = v \div 9 + c
      OBVIOUS
    <2>2. QED
      BY <2>1 DEF Ninth, Brighter
  <1>3. Ninth(UpsideDown(f)) = UpsideDown(Ninth(f))
    <2>1. \A p \in Pixel : Mirror(p) \in Pixel /\ UpsideDown(f)[p] = f[Mirror(p)] /\ Ninth(f)[Mirror(p)] = f[Mirror(p)] \div 9
      BY UpsideDownIs DEF UpsideDown, Mirror, Ninth
    <2>2. Ninth(UpsideDown(f)) = [p \in Pixel |-> UpsideDown(f)[p] \div 9]
      BY DEF Ninth
    <2>3. UpsideDown(Ninth(f)) = [p \in Pixel |-> Ninth(f)[Mirror(p)]]
      BY DEF UpsideDown, Mirror
    <2>4. QED
      BY <2>1, <2>2, <2>3
  <1>4. QED
    BY <1>1, <1>2, <1>3

\* An image without its stripes.
Smooth(image, stripes) ==
  Ninth(ThreeOf(ThreeOf(Straight(image, MeanOf(image, Columns), stripes), 1, Width - 1), 2, Height - 1))

\* It does not matter for it how bright the image is, or which end is up.
LEMMA SmoothIs ==
  ASSUME NEW image \in [Pixel -> Int], NEW stripes, \A b \in 0 .. Width \div Stripe : stripes[b] \in [Columns -> Int]
  PROVE  /\ Smooth(image, stripes) \in [Pixel -> Int]
         /\ \A c \in Int : Smooth(Brighter(image, c), stripes) = Brighter(Smooth(image, stripes), c)
         /\ Smooth(UpsideDown(image), stripes) = UpsideDown(Smooth(image, stripes))
  <1> DEFINE m == MeanOf(image, Columns)
             s == Straight(image, m, stripes)
             t == ThreeOf(s, 1, Width - 1)
             u == ThreeOf(t, 2, Height - 1)
  <1>1. /\ m \in Int /\ (\A c \in Int : MeanOf(Brighter(image, c), Columns) = m + c)
        /\ MeanOf(UpsideDown(image), Columns) = m
    <2>1. Columns \in SUBSET Columns /\ Columns # {}
      BY SizeFacts
    <2>2. QED
      BY <2>1, MeanIs
  <1> HIDE DEF m
  <1>2. /\ s \in [Pixel -> Int] /\ (\A c \in Int : Straight(Brighter(image, c), m + c, stripes) = Brighter(s, c))
        /\ Straight(UpsideDown(image), m, stripes) = UpsideDown(s)
    BY <1>1, StraightIs
  <1> HIDE DEF s
  <1>3. /\ t \in [Pixel -> Int] /\ (\A c \in Int : ThreeOf(Brighter(s, c), 1, Width - 1) = Brighter(t, 3 * c))
        /\ ThreeOf(UpsideDown(s), 1, Width - 1) = UpsideDown(t)
    <2>1. 1 \in {1, 2}
      OBVIOUS
    <2>2. QED
      BY <1>2, <2>1, ThreeIs
  <1> HIDE DEF t
  <1>4. /\ u \in [Pixel -> Int] /\ (\A c \in Int : ThreeOf(Brighter(t, c), 2, Height - 1) = Brighter(u, 3 * c))
        /\ ThreeOf(UpsideDown(t), 2, Height - 1) = UpsideDown(u)
    <2>1. 2 \in {1, 2} /\ 2 # 1
      OBVIOUS
    <2>2. QED
      BY <1>3, <2>1, ThreeIs
  <1> HIDE DEF u
  <1>5. ASSUME NEW c \in Int
        PROVE  Smooth(Brighter(image, c), stripes) = Brighter(Ninth(u), c)
    <2>1. 3 * c \in Int
      OBVIOUS
    <2>2. Straight(Brighter(image, c), MeanOf(Brighter(image, c), Columns), stripes) = Brighter(s, c)
      BY <1>1, <1>2
    <2>3. ThreeOf(Brighter(s, c), 1, Width - 1) = Brighter(t, 3 * c)
      BY <1>3
    <2> DEFINE k == 3 * c
    <2> HIDE DEF k
    <2>4. ThreeOf(Brighter(t, k), 2, Height - 1) = Brighter(u, 3 * k)
      BY <1>4, <2>1 DEF k
    <2>5. Ninth(Brighter(u, 3 * (3 * c))) = Brighter(Ninth(u), c)
      BY <1>4, NinthIs
    <2>6. QED
      BY <2>2, <2>3, <2>4, <2>5 DEF Smooth, k
  <1>6. Smooth(image, stripes) = Ninth(u)
    BY DEF Smooth, m, s, t, u
  <1>7. Smooth(UpsideDown(image), stripes) = UpsideDown(Ninth(u))
    <2>1. Ninth(UpsideDown(u)) = UpsideDown(Ninth(u))
      BY <1>4, NinthIs
    <2>2. QED
      BY <1>1, <1>2, <1>3, <1>4, <2>1 DEF Smooth
  <1>8. Ninth(u) \in [Pixel -> Int]
    BY <1>4, NinthIs
  <1>9. QED
    BY <1>5, <1>6, <1>7, <1>8

\* Whether an image has stripes, and what is left without them, depends neither on
\* how bright it is nor on which end is up, and every window of rows can have them
\* (correct_projection), for every image and all weights.
THEOREM ProjectionIsSound ==
  ASSUME NEW image \in [Pixel -> Int], NEW quality \in [Inner -> [Inner -> Int]], NEW stripes,
         \A b \in 0 .. Width \div Stripe : stripes[b] \in [Columns -> Int], NEW brighter \in Int
  PROVE  ProjectionSound(image, quality, stripes, brighter)
  <1> DEFINE m == MeanOf(image, Inner)
             score == RowScores(image, m, quality)
             light == Brighter(image, brighter)
             other == UpsideDown(image)
  <1>1. Inner \in SUBSET Columns /\ Inner # {}
    BY SizeFacts
  <1>2. m \in Int /\ MeanOf(light, Inner) = m + brighter /\ MeanOf(other, Inner) = m
    BY <1>1, MeanIs
  <1> HIDE DEF m
  <1>3. /\ score \in [Rows -> Int] /\ RowScores(light, m + brighter, quality) = score
        /\ \A y \in Rows : RowScores(other, m, quality)[y] = score[Height - 1 - y]
    BY <1>2, ScoresAre
  <1> DEFINE turned == RowScores(other, m, quality)
  <1>4. Striped(turned) = Striped(score)
    <2>1. (\A y \in Rows : score[y] \in Int) /\ \A y \in Rows : turned[y] = score[Height - 1 - y]
      BY <1>3
    <2> HIDE DEF score, turned
    <2>2. QED
      BY <2>1, StripedTurns
  <1>5. ASSUME NEW g
        PROVE  CorrectProjection(g, quality, stripes) =
                 IF Striped(RowScores(g, MeanOf(g, Inner), quality))
                 THEN [reason |-> 100, image |-> Smooth(g, stripes)] ELSE [reason |-> 0, image |-> g]
    BY DEF CorrectProjection, Smooth
  <1> DEFINE r == CorrectProjection(image, quality, stripes)
             rl == CorrectProjection(light, quality, stripes)
             ro == CorrectProjection(other, quality, stripes)
  <1>6. /\ r  = IF Striped(score) THEN [reason |-> 100, image |-> Smooth(image, stripes)] ELSE [reason |-> 0, image |-> image]
        /\ rl = IF Striped(score) THEN [reason |-> 100, image |-> Smooth(light, stripes)] ELSE [reason |-> 0, image |-> light]
        /\ ro = IF Striped(score) THEN [reason |-> 100, image |-> Smooth(other, stripes)] ELSE [reason |-> 0, image |-> other]
    BY <1>2, <1>3, <1>4, <1>5 DEF m
  <1>7. Smooth(light, stripes) = Brighter(Smooth(image, stripes), brighter) /\ Smooth(other, stripes) = UpsideDown(Smooth(image, stripes))
    BY SmoothIs
  <1> HIDE DEF r, rl, ro, score, turned
  <1>8. rl.reason = r.reason /\ rl.image = Brighter(r.image, brighter) /\ ro.reason = r.reason /\ ro.image = UpsideDown(r.image)
    BY <1>6, <1>7
  <1>9. r.reason = 100 <=> Striped(score)
    BY <1>6
  <1>10. r.reason = 100 <=> \E Y \in {Y \in SUBSET Rows : Cardinality(Y) = 2 * Reach + 1 /\ Y = Min(Y) .. Max(Y)} :
                               SumFunction([y \in Y |-> score[y]]) > Doubt * (2 * Reach + 1)
    <2> DEFINE T == {Y \in SUBSET Rows : Cardinality(Y) = 2 * Reach + 1 /\ Y = Min(Y) .. Max(Y)}
               R == Reach .. Height - 1 - Reach
               Window(y) == y - Reach .. y + Reach
    <2>1. \A Y : Y \in T <=> \E y \in R : Y = Window(y)
      BY TogetherIs
    <2>2. Striped(score) <=> \E y \in R : SumFunctionOnSet(score, Window(y)) > Doubt * (2 * Reach + 1)
      BY <1>3, StripedIs
    <2>3. ASSUME NEW Y \in T
          PROVE  SumFunction([y \in Y |-> score[y]]) = SumFunctionOnSet(score, Y)
      <3> DEFINE g == [y \in Y |-> score[y]]
      <3>1. IsFiniteSet(Y) /\ Y \subseteq Rows
        BY SizeFacts, FS_Subset
      <3>2. (\A y \in Y : score[y] \in Int) /\ DOMAIN g = Y /\ \A y \in Y : g[y] = score[y]
        BY <1>3, <3>1
      <3> HIDE DEF g
      <3>3. QED
        BY <3>1, <3>2, WindowSum DEF g
    <2> DEFINE K == Doubt * (2 * Reach + 1)
    <2> HIDE DEF T, R, Window, K
    <2>4. (\E y \in R : SumFunctionOnSet(score, Window(y)) > K) <=> \E Y \in T : SumFunctionOnSet(score, Y) > K
      BY <2>1
    <2>5. (\E Y \in T : SumFunctionOnSet(score, Y) > K) <=> \E Y \in T : SumFunction([y \in Y |-> score[y]]) > K
      BY <2>3
    <2>6. r.reason = 100 <=> \E Y \in T : SumFunction([y \in Y |-> score[y]]) > K
      BY <1>9, <2>2, <2>4, <2>5 DEF K
    <2>7. QED
      BY <2>6 DEF T, K
  <1>11. QED
    BY <1>8, <1>10 DEF ProjectionSound, Brighter, UpsideDown, r, rl, ro, score, m

-----------------------------------------------------------------------------
(* Preparing an image. *)

\* What the sensor says of the pixels that it gets wrong makes no difference
\* (fpc_profile300_prepare), for every frame and list.
THEOREM PreparationIsSound ==
  ASSUME NEW frame, NEW other, NEW list \in Seq(Pixel), NEW quality, NEW stripes
  PROVE  PrepareSound(frame, other, list, quality, stripes)
  <1> DEFINE r == CorrectDefects(list)
  <1> SUFFICES ASSUME \A p \in Pixel \ Range(list) : frame[p] = other[p]
               PROVE  Prepare(frame, list, r, quality, stripes) = Prepare(other, list, r, quality, stripes)
    BY DEF PrepareSound
  <1>1. r.status = 0 => \A p \in Pixel : r.image[p] \subseteq Pixel \ Range(list)
    <2> SUFFICES ASSUME r.status = 0, NEW p \in Pixel
                 PROVE  r.image[p] \subseteq Pixel \ Range(list)
      OBVIOUS
    <2> DEFINE E == Range(list)
    <2>1. r = [status |-> 0, image |-> [q \in Pixel |-> IF q \in E THEN Neighbours(E, q, FirstPass(E, q)) ELSE {q}]]
      BY DefectsAre
    <2>2. r.image[p] = IF p \in E THEN Neighbours(E, p, FirstPass(E, p)) ELSE {p}
      BY <2>1
    <2>3. Neighbours(E, p, FirstPass(E, p)) \subseteq Pixel \ E
      BY AroundIn DEF Neighbours
    <2> HIDE DEF E, r
    <2>4. QED
      BY <2>2, <2>3 DEF E
  <1> HIDE DEF r
  <1>2. Classified(frame, list) = Classified(other, list)
    BY DEF Classified
  <1>3. ASSUME r.status = 0
        PROVE  Corrected(frame, r.image) = Corrected(other, r.image)
    <2>1. ASSUME NEW p \in Pixel
          PROVE  From(frame, r.image[p]) = From(other, r.image[p])
      <3> DEFINE S == r.image[p]
      <3>1. \A q \in S : frame[q] = other[q]
        BY <1>1, <1>3
      <3> HIDE DEF S
      <3>2. [q \in S |-> frame[q]] = [q \in S |-> other[q]]
        BY <3>1
      <3>3. QED
        BY <3>2 DEF From, S
    <2>2. QED
      BY <2>1 DEF Corrected
  <1>4. CASE r.status = 0
    BY <1>2, <1>3, <1>4 DEF Prepare
  <1>5. CASE r.status # 0
    BY <1>5 DEF Prepare
  <1>6. QED
    BY <1>4, <1>5

\* The inputs are frames, lists of pixels, images and weights.
LEMMA ShadeTyped ==
  ASSUME NEW a \in Int, NEW b \in Int, NEW c \in Int
  PROVE  Shade(a, b, c) \in [Pixel -> Int]
  <1>1. ASSUME NEW p \in Pixel
        PROVE  (p[1] * a + p[2] * b + (IF p = <<2, 1>> THEN c ELSE 0)) % 256 \in Int
    <2>1. p[1] \in Int /\ p[2] \in Int
      BY SizeFacts DEF Columns
    <2> DEFINE v == p[1] * a + p[2] * b + (IF p = <<2, 1>> THEN c ELSE 0)
    <2>2. v \in Int
      BY <2>1
    <2> HIDE DEF v
    <2>3. v % 256 \in Int
      BY <2>2
    <2>4. QED
      BY <2>3 DEF v
  <1>2. QED
    BY <1>1 DEF Shade

\* One, two or three pixels are a list.
LEMMA ShortLists ==
  ASSUME NEW p \in Pixel, NEW q \in Pixel, NEW r \in Pixel
  PROVE  <<p>> \in Seq(Pixel) /\ <<p, q>> \in Seq(Pixel) /\ <<p, q, r>> \in Seq(Pixel)
  OBVIOUS

\* The lists of pixels among the inputs.
LEMMA ListsTyped ==
  /\ Corner \in Seq(Pixel) /\ << >> \in Seq(Pixel)
  /\ \A bad \in Single \cup Couple : bad \in Seq(Pixel) /\ Range(bad) \subseteq Pixel
  /\ {<<2, 1>>, <<0, 3>>, <<4, 4>>, <<3, 1>>, <<3, 2>>, <<0, 0>>} \subseteq Pixel
  <1>1. \A x \in 0 .. 4, y \in 0 .. 4 : <<x, y>> \in Pixel
    <2> SUFFICES ASSUME NEW x \in 0 .. 4, NEW y \in 0 .. 4 PROVE <<x, y>> \in Pixel
      OBVIOUS
    <2>1. Width \in Nat /\ Height \in Nat /\ 5 <= Width /\ 5 <= Height
      BY InputsFit, SizeFacts
    <2>2. x \in Columns /\ y \in Rows
      BY <2>1 DEF Columns, Rows
    <2>3. QED
      BY <2>2 DEF Pixel
  <1>2. Corner \in Seq(Pixel)
    <2>1. \A i \in 1 .. 16 : (i - 1) % 4 \in 0 .. 4 /\ (i - 1) \div 4 \in 0 .. 4
      OBVIOUS
    <2>2. \A i \in 1 .. 16 : <<(i - 1) % 4, (i - 1) \div 4>> \in Pixel
      BY <1>1, <2>1
    <2> DEFINE At(i) == <<(i - 1) % 4, (i - 1) \div 4>>
    <2>3. Corner = [i \in 1 .. 16 |-> At(i)]
      BY DEF Corner
    <2>4. \A i \in 1 .. 16 : At(i) \in Pixel
      BY <2>2
    <2> HIDE DEF At
    <2>5. QED
      BY <2>3, <2>4
  <1>3. << >> \in Seq(Pixel)
    OBVIOUS
  <1>4. ASSUME NEW bad \in Single \cup Couple
        PROVE  bad \in Seq(Pixel) /\ Range(bad) \subseteq Pixel
    <2>1. bad \in Seq(Pixel)
      <3>1. CASE bad = << >>
        BY <3>1
      <3>2. CASE bad \in {<<p>> : p \in Pixel}
        <4>1. PICK p \in Pixel : bad = <<p>>
          BY <3>2
        <4>2. QED
          BY <4>1, ShortLists
      <3>3. CASE bad \in Couple
        <4>1. PICK p \in Pixel, q \in Pixel : bad = <<p, q>>
          BY <3>3 DEF Couple
        <4>2. QED
          BY <4>1, ShortLists
      <3>4. QED
        BY <3>1, <3>2, <3>3 DEF Single
    <2>2. QED
      BY <2>1 DEF Range
  <1>5. QED
    BY <1>1, <1>2, <1>3, <1>4

\* The weights among the inputs.
LEMMA WeightsTyped ==
  ASSUME NEW q \in Int
  PROVE  /\ Quality(q) \in [Inner -> [Inner -> Int]]
         /\ \A b \in 0 .. Width \div Stripe : Stripes(q)[b] \in [Columns -> Int]
  <1>1. \A k, v \in Int : Wave(v, k) \in Int
    BY DEF Wave
  <1>2. \A x \in Inner : x \in Int
    BY SizeFacts DEF Inner
  <1>3. \A x \in Columns : x \in Int
    BY SizeFacts DEF Columns
  <1>4. Quality(q) \in [Inner -> [Inner -> Int]]
    BY <1>1, <1>2 DEF Quality
  <1>5. ASSUME NEW b \in 0 .. Width \div Stripe
        PROVE  Stripes(q)[b] \in [Columns -> Int]
    <2>1. Stripes(q)[b] = [x \in Columns |-> Wave(q + b, x)]
      BY DEF Stripes
    <2>2. q + b \in Int
      OBVIOUS
    <2>3. QED
      BY <1>1, <1>3, <2>1, <2>2
  <1>6. QED
    BY <1>4, <1>5

\* Every image that is taken is prepared as it should be (fpc_profile300_prepare and
\* what it calls): frames, lists of defective pixels, brightness, mask, stripes and
\* all of it together, in every reachable state.
THEOREM ImagesSoundHolds == ImagesSpec => []ImagesSound
  <1>1. ImagesInit => ImagesSound
    BY DEF ImagesInit, ToTake, ImagesSound, Is
  <1>2. ASSUME ImagesSound, [ImagesNext]_work
        PROVE  ImagesSound'
    <2>1. CASE UNCHANGED work
      BY <1>2, <2>1 DEF ImagesSound, Is
    <2>2. CASE TakeFrames
      <3>1. PICK a, d \in {0, 3, 90}, b, e \in {0, 7, 60}, c, f \in {0, 255} :
              /\ Shared(a + b) /\ e # 60
              /\ work' = [of |-> "frames",
                          frames |-> [i \in 0 .. 1 |-> IF i = 0 THEN Shade(a, b, c) ELSE Shade(d, e, f)]]
        BY <2>2 DEF TakeFrames
      <3> DEFINE frames == [i \in 0 .. 1 |-> IF i = 0 THEN Shade(a, b, c) ELSE Shade(d, e, f)]
      <3>2. Shade(a, b, c) \in [Pixel -> Int] /\ Shade(d, e, f) \in [Pixel -> Int]
        BY ShadeTyped
      <3>3. frames \in [0 .. 2 - 1 -> [Pixel -> Int]] /\ 2 \in Nat \ {0}
        BY <3>2
      <3>4. work'.of = "frames" /\ work'.frames = frames
        BY <3>1
      <3> HIDE DEF frames
      <3>5. FramesSound(frames)
        <4> DEFINE n == 2
        <4>1. n \in Nat \ {0} /\ frames \in [0 .. n - 1 -> [Pixel -> Int]]
          BY <3>3
        <4> HIDE DEF n
        <4>2. QED
          BY <4>1, FramesAreSound
      <3>6. QED
        BY <3>4, <3>5 DEF ImagesSound, Is
    <2>3. CASE TakeDefects
      <3>1. PICK bad \in Single \cup Couple, beside \in {<< >>, Corner} : work' = [of |-> "defects", list |-> beside \o bad]
        BY <2>3 DEF TakeDefects
      <3> DEFINE list == beside \o bad
      <3>2. beside \in Seq(Pixel) /\ bad \in Seq(Pixel)
        BY ListsTyped
      <3>3. list \in Seq(Pixel)
        BY <3>2
      <3>4. work'.of = "defects" /\ work'.list = list
        BY <3>1
      <3> HIDE DEF list
      <3>5. DefectsSound(list)
        BY <3>3, DefectsAreSound
      <3>6. QED
        BY <3>4, <3>5 DEF ImagesSound, Is
    <2>4. CASE TakeImage
      <3>1. PICK a \in {0, 3, 90}, b \in {0, 7, 60}, c \in {0, 100, 255}, list \in Single, percentile \in BOOLEAN :
              work' = [of |-> "image", image |-> Shade(a, b, c), list |-> list, percentile |-> percentile]
        BY <2>4 DEF TakeImage
      <3> DEFINE image == Shade(a, b, c)
      <3>2. image \in [Pixel -> Int]
        BY ShadeTyped
      <3>3. work'.of = "image" /\ work'.image = image /\ work'.list = list /\ work'.percentile = percentile
        BY <3>1
      <3> HIDE DEF image
      <3>4. NormalizeSound(image, Classified(image, list), percentile)
        BY <3>2, NormalizationIsSound
      <3>5. QED
        BY <3>3, <3>4 DEF ImagesSound, Is
    <2>5. CASE TakeMask
      <3>1. PICK bad \in Single \cup Couple, most \in BOOLEAN :
              work' = [of |-> "mask", shown |-> IF most THEN Pixel \ Range(bad) ELSE Range(bad),
                       more |-> {<<3, 2>>, <<0, 0>>}]
        BY <2>5 DEF TakeMask
      <3> DEFINE shown == IF most THEN Pixel \ Range(bad) ELSE Range(bad)
                 more == {<<3, 2>>, <<0, 0>>}
      <3>2. shown \in SUBSET Pixel /\ more \in SUBSET Pixel
        BY ListsTyped
      <3>3. work'.of = "mask" /\ work'.shown = shown /\ work'.more = more
        BY <3>1
      <3> HIDE DEF shown, more
      <3>4. MaskSound(shown, more)
        BY <3>2, MaskIsSound
      <3>5. QED
        BY <3>3, <3>4 DEF ImagesSound, Is
    <2>6. CASE TakeStripes
      <3>1. PICK a \in {3, 40, 90}, b \in {7, 25}, c \in {7 * i : i \in 0 .. 8}, d \in {1, 50}, q \in 0 .. 2 :
              /\ Shared(a + q)
              /\ work' = [of |-> "stripes", brighter |-> d, weights |-> q,
                          image |-> [p \in Pixel |-> (p[1] * a + p[2] * b + p[1] * p[2] * c) % 97]]
        BY <2>6 DEF TakeStripes
      <3> DEFINE image == [p \in Pixel |-> (p[1] * a + p[2] * b + p[1] * p[2] * c) % 97]
      <3>2. image \in [Pixel -> Int]
        <4>1. ASSUME NEW p \in Pixel
              PROVE  (p[1] * a + p[2] * b + p[1] * p[2] * c) % 97 \in Int
          <5>0. p[1] \in Int /\ p[2] \in Int
            BY SizeFacts DEF Columns
          <5>1. p[1] \in Int /\ p[2] \in Int /\ a \in Int /\ b \in Int /\ c \in Int
            BY <5>0
          <5> DEFINE v == p[1] * a + p[2] * b + p[1] * p[2] * c
          <5>2. v \in Int
            BY <5>1
          <5> HIDE DEF v
          <5>3. v % 97 \in Int
            BY <5>2
          <5>4. QED
            BY <5>3 DEF v
        <4>2. QED
          BY <4>1
      <3>3. work'.of = "stripes" /\ work'.brighter = d /\ work'.weights = q /\ work'.image = image
        BY <3>1
      <3> HIDE DEF image
      <3>4. Quality(q) \in [Inner -> [Inner -> Int]] /\ \A k \in 0 .. Width \div Stripe : Stripes(q)[k] \in [Columns -> Int]
        BY WeightsTyped
      <3> DEFINE weights == Stripes(q)
      <3>5. \A k \in 0 .. Width \div Stripe : weights[k] \in [Columns -> Int]
        BY <3>4
      <3> HIDE DEF weights
      <3>6. ProjectionSound(image, Quality(q), weights, d)
        <4>1. d \in Int
          OBVIOUS
        <4>2. QED
          BY <3>2, <3>4, <3>5, <4>1, ProjectionIsSound
      <3>7. QED
        BY <3>3, <3>6 DEF ImagesSound, Is, weights
    <2>7. CASE TakeCapture
      <3>1. PICK a \in {3, 40}, b \in {7, 60}, c \in {0, 100, 255}, else \in {0, 255},
                 bad \in {<<<<2, 1>>>>, <<<<2, 1>>, <<0, 3>>>>, <<<<4, 4>>, <<2, 1>>, <<3, 1>>>>} :
              /\ Shared(a + b)
              /\ LET frame == Shade(a, b, c)
                 IN  work' = [of |-> "capture", frame |-> frame, list |-> bad,
                              other |-> [p \in Pixel |-> IF p \in Range(bad) THEN else ELSE frame[p]]]
        BY <2>7 DEF TakeCapture
      <3> DEFINE frame == Shade(a, b, c)
                 other == [p \in Pixel |-> IF p \in Range(bad) THEN else ELSE frame[p]]
      <3>2. bad \in Seq(Pixel)
        <4>1. <<2, 1>> \in Pixel /\ <<0, 3>> \in Pixel /\ <<4, 4>> \in Pixel /\ <<3, 1>> \in Pixel
          BY ListsTyped
        <4>2. <<<<2, 1>>>> \in Seq(Pixel) /\ <<<<2, 1>>, <<0, 3>>>> \in Seq(Pixel)
              /\ <<<<4, 4>>, <<2, 1>>, <<3, 1>>>> \in Seq(Pixel)
          <5> DEFINE p == <<2, 1>>
                     q == <<0, 3>>
                     r == <<4, 4>>
                     t == <<3, 1>>
          <5>1. p \in Pixel /\ q \in Pixel /\ r \in Pixel /\ t \in Pixel
            BY <4>1
          <5> HIDE DEF p, q, r, t
          <5>2. <<p>> \in Seq(Pixel) /\ <<p, q>> \in Seq(Pixel) /\ <<r, p, t>> \in Seq(Pixel)
            BY <5>1, ShortLists
          <5>3. QED
            BY <5>2, Zenon DEF p, q, r, t
        <4>3. \/ bad = <<<<2, 1>>>> \/ bad = <<<<2, 1>>, <<0, 3>>>> \/ bad = <<<<4, 4>>, <<2, 1>>, <<3, 1>>>>
          BY Zenon
        <4>4. QED
          BY <4>2, <4>3, Zenon
      <3>3. work'.of = "capture" /\ work'.frame = frame /\ work'.list = bad /\ work'.other = other
        BY <3>1
      <3> HIDE DEF frame, other
      <3>4. PrepareSound(frame, other, bad, Quality(1), Stripes(2))
        BY <3>2, PreparationIsSound
      <3>5. QED
        BY <3>3, <3>4 DEF ImagesSound, Is
    <2>8. QED
      BY <1>2, <2>1, <2>2, <2>3, <2>4, <2>5, <2>6, <2>7 DEF ImagesNext
  <1>3. QED
    BY <1>1, <1>2, PTL DEF ImagesSpec
=============================================================================
