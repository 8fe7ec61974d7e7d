------------------------------ MODULE MCNative ------------------------------
(***************************************************************************)
(* A small instance of Enrollment, and the algorithms of the native code   *)
(* on bounded inputs: a step takes one input, and the invariants say what  *)
(* the algorithm makes of it.                                              *)
(***************************************************************************)
EXTENDS Enrollment, ImageCases, MatchingCases, LayoutCases, CosineTransform,
        FeatureSelection, FeatureDescription, TemplateFormat

QuotaOf == [b \in 0 .. 7 |-> CASE b = 4 -> 8 [] b = 6 -> 9 [] b = 7 -> 2 [] OTHER -> 6]

\* Two captures that match, and two that do not.
Outcomes == {[success |-> FALSE, inliers |-> 0, spatial |-> 1],
             [success |-> TRUE,  inliers |-> 1, spatial |-> 2]}

Enrol == work.of = "enrolment" /\ Next /\ UNCHANGED work

-----------------------------------------------------------------------------
(* Images. *)

\* Instead of the frequency filter: a pixel against those beside it.
Contrast(image) == LET three == ThreeOf(image, 1, Width - 1) IN [p \in Pixel |-> 5 * image[p] - three[p]]
Plain(pixels)   == [p \in Pixel |-> 16 * pixels[p]]

TakeTransform ==
  /\ Take("transform")
  /\ \E n \in {8, 16, 32, 64}, slope \in {1, 7} :
       Shared(n \div 8 + slope) /\ work' = [of |-> "transform", n |-> n, slope |-> slope]

TakeFilter ==
  /\ Take("filter")
  /\ \E a \in 0 .. 2, b \in {0, 5}, axis \in {1, 2} :
       Shared(a) /\ work' = [of |-> "filter", across |-> a, down |-> b, axis |-> axis]

-----------------------------------------------------------------------------
(* Features. *)

TakeScores ==
  /\ Take("scores")
  /\ \E n \in 0 .. 5 : \E f \in [1 .. n -> 0 .. 3] :
       /\ Shared(n)
       /\ work' = [of |-> "scores", records |-> [i \in 1 .. n |-> [index |-> i, score |-> f[i]]]]

TakeResponse ==
  /\ Take("response")
  /\ \E a, b \in 1 .. 5, c \in {0, 1, 3}, m \in {7, 11}, k \in {0, 3}, step \in {1, 4}, start \in {0, 7} :
       /\ Shared(a + b)
       /\ work' = [of |-> "response", mask |-> {p \in Point : p[1] # k},
                   response |-> [p \in Point |-> (p[1] * a + p[2] * b + p[1] * p[2] * c) % m],
                   cells |-> [i \in 0 .. 8 |-> (step * i + start) % 9]]

TakeAngles ==
  /\ Take("angles")
  /\ \E from \in {3 * i : i \in 0 .. 85}, turn \in {1, 64, 100, 127, 128, 200, 255},
        at \in {<<64, 90>>, <<80, 0>>, <<96, 0>>, <<127, 90>>} :
       Shared(from) /\ work' = [of |-> "angles", from |-> from, turn |-> turn, at |-> at]

TakeRidges ==
  /\ Take("ridges")
  /\ \E a \in {1, 3}, b \in {-2, 0, 1}, gain \in {7, 42} :
       Shared(a) /\ work' = [of |-> "ridges", across |-> a, down |-> b, gain |-> gain]

TakePatch ==
  /\ Take("patch")
  /\ \E x \in {4, 11, 19}, y \in {4, 15}, m \in {<<32768, 0>>, <<23170, 23170>>, <<-23170, 23170>>,
                                                <<19661, -26214>>, <<-30274, -12540>>} :
       Shared(x) /\ work' = [of |-> "patch", at |-> <<x, y>>, turn |-> m]

TakeLine ==
  /\ Take("line")
  /\ \E n \in {15, 17, 20}, f \in 1 .. 4, g \in 0 .. 2 :
       Shared(f) /\ work' = [of |-> "line", length |-> n, slope |-> f, kernel |-> g]

Ridges(a, b) ==
  [p \in (0 .. 23) \X (0 .. 23) |->
     LET v == (a * p[1] + b * p[2]) % 12 IN IF v < 6 THEN v ELSE 12 - v]

\* The frequency filter is the cosine transform it stands for, and features are the
\* best there are, are described alike however the finger lies and are carried along
\* when it moves, for all that fixed point makes of motions: profile300.c,
\* fpc_extract_profile300_prepared and what it calls, fpc_fit_similarity_pair.
FeaturesFound ==
  /\ Is("transform") =>
       TransformSound([i \in 0 .. work.n - 1 |-> (work.slope * i * i + 3 * i + i \div 5) % Prime], work.n)
  /\ Is("filter")  =>
       EnhanceSound([p \in (0 .. PlaneWidth - 1) \X (0 .. PlaneHeight - 1) |->
                       p[1] * work.across + p[2] * p[2] * work.down + p[1] * p[2] * 3 + 9], work.axis)
  /\ Is("pair") =>
       LET C == Listed(Candidates(work.first.features, work.second.features))
       IN  DOMAIN C # {} => FixedPointSound(PointsOf(work.first, work.second, C),
                                            Sampled(work.sample)[Cardinality(DOMAIN C)])
  /\ Is("scores")   => SortSound(work.records)
  /\ Is("response") => FeaturesSound(work.response, work.mask, work.cells)
  /\ Is("angles")   => InterpolationSound(work.from, work.turn, work.at[1], work.at[2])
  /\ Is("ridges")   => FieldSound(Ridges(work.across, work.down), work.gain)
  /\ Is("patch")    =>
       PatchSound([p \in (0 .. 23) \X (0 .. 19) |-> (p[1] * p[1] * 7 + p[2] * 31) % 256], 24, 20, 4, 3,
                  work.at, work.turn[1], work.turn[2],
                  [i \in 0 .. 35 |-> [k \in 0 .. 5 |-> ((i * (k + 3) + i \div 7) % 13) - 6]])
  /\ Is("line")     =>
       ConvolveSound([x \in 0 .. work.length - 1 |-> (x * x * work.slope * 97) % 16320],
                     [k \in 0 .. 14 |-> CASE work.kernel = 0 -> (k - 7) * 300
                                          [] work.kernel > 0 /\ k % 2 = 1 -> 4000 * work.kernel
                                          [] OTHER -> -1000])

-----------------------------------------------------------------------------
(* Templates. *)

\* A template whose captures have ns[1], ns[2], ... features.
TemplateOf(ns) ==
  [metadata |-> 5, capacity |-> 3,
   captures |-> [i \in 1 .. Len(ns) |->
     FromPrepared([k \in 1 .. ns[i] |-> [at |-> <<k, i>>, descriptor |-> 7 * k]], i = 1).value],
   graph    |-> [used |-> Len(ns), capacity |-> 3, protected |-> 1, limit |-> 8, threshold |-> 9,
                 order |-> <<2, 0, 1>>, scores |-> <<4, 0, 6>>, ages |-> <<6, 1, 0>>]]

TakeTemplate ==
  /\ Take("template")
  /\ \E ns \in {<<0>>, <<2>>, <<1, 1>>, <<3, 0>>, <<2, 1, 2>>},
        damage \in {[how |-> "none"]}
          \cup [how : {"changed"}, at : {i \in 1 .. 91 : Shared(i)}, by : {1, 2, 6, 128}]
          \cup [how : {"cut"}, at : {i \in 0 .. 91 : Shared(i)}]
          \cup [how : {"swapped"}, at : 1 .. 5] :
       /\ damage.how = "swapped" => damage.at < 4 + Len(ns)
       /\ work' = [of |-> "template", ns |-> ns, damage |-> damage]

\* A stored template is read as it was written or refused:
\* fpc_template_serialize_default, fpc_template_load_default.
StoredSound == Is("template") => FormatSound(TemplateOf(work.ns), 3, work.damage)

-----------------------------------------------------------------------------
Kinds == {"pair", "templates", "frames", "defects", "image", "mask",
          "transform", "filter", "stripes", "capture", "scores", "response",
          "angles", "ridges", "patch", "line", "layout", "metrics", "template"}

NativeInit == Init /\ work \in [of : {"enrolment"}] \cup ToTake(Kinds)

NativeNext ==
  \/ Enrol
  \/ UNCHANGED vars /\ TakePair
  \/ UNCHANGED vars /\ TakeTemplates
  \/ UNCHANGED vars /\ TakeFrames
  \/ UNCHANGED vars /\ TakeDefects
  \/ UNCHANGED vars /\ TakeImage
  \/ UNCHANGED vars /\ TakeMask
  \/ UNCHANGED vars /\ TakeTransform
  \/ UNCHANGED vars /\ TakeFilter
  \/ UNCHANGED vars /\ TakeStripes
  \/ UNCHANGED vars /\ TakeCapture
  \/ UNCHANGED vars /\ TakeScores
  \/ UNCHANGED vars /\ TakeResponse
  \/ UNCHANGED vars /\ TakeAngles
  \/ UNCHANGED vars /\ TakeRidges
  \/ UNCHANGED vars /\ TakePatch
  \/ UNCHANGED vars /\ TakeLine
  \/ UNCHANGED vars /\ TakeLayout
  \/ UNCHANGED vars /\ TakeMetrics
  \/ UNCHANGED vars /\ TakeTemplate

NativeSpec == NativeInit /\ [][NativeNext]_<<vars, work>>
=============================================================================
