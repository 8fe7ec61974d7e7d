--------------------------- MODULE MatchingCases ---------------------------
(***************************************************************************)
(* Inputs for FeatureMatching: captures of a finger with five features,    *)
(* and motions of it.                                                      *)
(***************************************************************************)
EXTENDS FeatureMatching, NativeWork

FingerPlace == << <<0, 0>>, <<12, 0>>, <<0, 9>>, <<1, 1>>, <<10, 10>> >>
FingerMark == << [low |-> {}, high |-> {}], [low |-> {1, 2}, high |-> {}],
                 [low |-> {1, 2}, high |-> {1, 2}], [low |-> {1, 2, 3}, high |-> {3}],
                 [low |-> {1}, high |-> {3}] >>

Carry(m, p) ==
  CASE m = "rest"    -> p
    [] m = "shift"   -> <<p[1] + 4, p[2] + 3>>
    [] m = "slide"   -> <<p[1] + 4, p[2]>>
    [] m = "quarter" -> <<20 - p[2], p[1] + 5>>
    [] m = "half"    -> <<20 - p[1], 20 - p[2]>>
    [] m = "away"    -> <<p[1] + 9, p[2] - 6>>

\* After a motion m of all features but `out`, with feature 3 looking like feature d.
Taken(m, out, d, member) ==
  [features |-> [k \in 0 .. 4 |->
     LET mark == FingerMark[IF k = 3 THEN d + 1 ELSE k + 1]
     IN  [at |-> Carry(IF k \in out THEN "away" ELSE m, FingerPlace[k + 1]),
          low |-> mark.low, high |-> mark.high]],
   member |-> member]

Draws == << <<0, 1>>, <<3, 4>>, <<1, 2>>, <<2, 0>>, <<0, 3>>, <<1, 4>>, <<4, 2>> >>
Sampled(start) ==
  [n \in 0 .. 5 |-> [i \in 0 .. 20 |->
     LET r == Draws[1 + ((i + start) % 7)] IN IF n = 0 THEN r ELSE <<r[1] % n, r[2] % n>>]]

Turns == <<"rest", "shift", "slide", "quarter", "half">>
Stored == {Taken(m, out, 3, {1, 2, 4}) : m \in {"shift", "half"}, out \in {{}, {3, 4}}}
          \cup {Taken("slide", {}, 3, 0 .. 4), Taken("rest", {}, 3, {})}
Misplaced == Taken("quarter", {}, 3, 0 .. 4)

TakePair ==
  /\ Take("pair")
  /\ \E out \in {{}, {2}}, d \in {0, 3}, member \in {{}, {1, 2, 3}, 0 .. 4},
        turn \in {t \in 1 .. 5 : Shared(t)}, off \in {{}, {1}, {3, 4}}, e \in {0, 3}, s \in {0, 1, 5} :
       work' = [of |-> "pair", first |-> Taken("rest", out, d, member),
                second |-> Taken(Turns[turn], off, e, {}), sample |-> s]

\* A template of one capture or two, and another one.
TakeTemplates ==
  /\ Take("templates")
  /\ \E a \in Stored, one \in BOOLEAN, c \in Stored, s \in {0, 1} :
       /\ Shared(SumFunction([k \in 0 .. 4 |-> a.features[k].at[1] + c.features[k].at[2]]))
       /\ work' = [of |-> "templates", sample |-> s, query |-> Taken("rest", {}, 3, {}),
                   list |-> [t \in 0 .. 1 |->
                               IF t = 1 THEN [k \in 0 .. 0 |-> c]
                               ELSE IF one THEN [k \in 0 .. 0 |-> a]
                               ELSE [k \in 0 .. 1 |-> IF k = 0 THEN Misplaced ELSE a]]]

\* Matching a scan finds the finger: fpc_match_profile300_captures and what it
\* calls for two captures, fpc_identify_profile300 for two templates.
MatchingSound ==
  /\ Is("pair") =>
       LET sample == Sampled(work.sample)
           C == Listed(Candidates(work.first.features, work.second.features))
       IN  /\ CandidatesSound(work.first.features, work.second.features)
           /\ DOMAIN C # {} =>
                SearchSound(PointsOf(work.first, work.second, C), sample[Cardinality(DOMAIN C)])
           /\ GeometrySound(work.first, work.second, sample)
  /\ Is("templates") => IdentifySound(work.list, work.query, Sampled(work.sample))

MatchingInit == work \in ToTake({"pair", "templates"})
MatchingNext == TakePair \/ TakeTemplates
MatchingSpec == MatchingInit /\ [][MatchingNext]_work
=============================================================================
