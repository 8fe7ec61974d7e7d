-------------------------- MODULE ImagePreparation --------------------------
(***************************************************************************)
(* What is done to an image before features are looked for (profile300.c,  *)
(* fpc_recovered.c): the better of the frames is chosen, pixels that the   *)
(* sensor gets wrong are replaced by what is around them, brightness is    *)
(* normalized, and the part that shows the finger is masked.               *)
(*                                                                         *)
(* The frequency filter (CosineTransform models it) and the orientations   *)
(* are constants here. Of a defective pixel that is corrected only the     *)
(* pixels its value comes from are kept until the image is put together;   *)
(* fractions of a value are dropped where the code rounds a float.         *)
(***************************************************************************)
EXTENDS Integers, Sequences, FiniteSets, FiniteSetsExt, Functions

CONSTANTS
  Width, Height,      \* of an image (112, 88)
  Radius,             \* of the box filter (7)
  ContrastLevel,      \* filtered difference above which a pixel has contrast (208)
  MaxDefects,         \* entries that a defect list may have (560)
  Bins, Top, Fine,    \* normalization: 511, 16320, 256
  HalfWord,           \* of the values of a word there (2^31)
  LowPart, HighPart,  \* one in so many pixels is too dark, too bright (1000, 100)
  Margin, Closing, Eroding, \* of the mask (6, 5, 10)
  Side,               \* columns left and right that do not decide on stripes (16)
  Stripe,              \* columns that share a correction (8)
  Reach,              \* rows above and below that decide with a row (7)
  Doubt,              \* mean of their scores that means stripes (10000 in squares of a
                      \* pixel's values, so 64 * 64 times that in the parts counted here)
  Depth,              \* parts in which a pixel is counted in between (64)
  Filter(_),          \* the frequency filter of an image
  Confidence(_)       \* how sure the orientation is at each of its pixels

ASSUME ImageAssumption ==
  /\ Width \in Nat /\ Height \in Nat /\ Radius \in Nat
  /\ 2 * Radius < Width /\ 2 * Radius < Height
  /\ {MaxDefects, Top, Margin, Closing, Eroding, Side, Reach, Doubt} \subseteq Nat
  /\ {Bins, Fine, HalfWord, LowPart, HighPart, Stripe, Depth} \subseteq Nat \ {0} /\ LowPart > 1
  /\ 2 * Side < Width /\ 2 * Reach < Height

Columns == 0 .. Width - 1
Rows    == 0 .. Height - 1
Pixel   == Columns \X Rows

Size(v) == IF v < 0 THEN -v ELSE v
Clamp(v, low, high) == IF v < low THEN low ELSE IF v > high THEN high ELSE v
Around(p, r) == {q \in Pixel : Size(q[1] - p[1]) <= r /\ Size(q[2] - p[2]) <= r}

-----------------------------------------------------------------------------
(* The choice of a frame. *)

\* The rounded mean of a window with that sum.
Mean(sum) == (sum * (65536 \div (2 * Radius + 1)) + 32768) \div 65536

\* box15, one line of it: a running sum, and the ends repeat what is next to
\* them.
BoxLine(line) ==
  LET n == Cardinality(DOMAIN line)
      sum[x \in Radius .. n - 1 - Radius] ==
        IF x = Radius THEN SumFunction([i \in 0 .. 2 * Radius |-> line[i]])
        ELSE sum[x - 1] - line[x - 1 - Radius] + line[x + Radius]
  IN  [x \in DOMAIN line |-> Mean(sum[Clamp(x, Radius, n - 1 - Radius)])]

\* box15: rows first, then columns.
Box(image) ==
  LET across == [y \in Rows |-> BoxLine([x \in Columns |-> image[<<x, y>>]])]
      down   == [x \in Columns |-> BoxLine([y \in Rows |-> across[y][x]])]
  IN  [p \in Pixel |-> down[p[1]][p[2]]]

\* fpc_profile300_frame_score and fpc_saturation_quality
FrameScore(frame) ==
  LET image    == [p \in Pixel |-> frame[p] * 16]
      smooth   == Box(image)
      rough    == Box([p \in Pixel |-> Size(smooth[p] - image[p])])
      Share(S) == (Cardinality(S) * 1000) \div (Width * Height)
      contrast == Share({p \in Pixel : rough[p] > ContrastLevel})
      quality  == 1000 - Share({p \in Pixel : frame[p] \in {0, 255}})
  IN  (3072 * quality + 1024 * contrast + 2048) \div 4096

\* Frame i put behind those before it that are as good.
Insert(score, order, i) ==
  LET at == Cardinality({j \in 0 .. i - 1 : score[order[j]] >= score[i]})
  IN  [j \in 0 .. i |-> IF j < at THEN order[j] ELSE IF j = at THEN i ELSE order[j - 1]]

\* fpc_profile300_rank_frames: an insertion sort, best first.
RankFrames(score) ==
  LET n == Cardinality(DOMAIN score)
      order[i \in 0 .. n - 1] == IF i = 0 THEN [j \in {0} |-> 0] ELSE Insert(score, order[i - 1], i)
  IN  order[n - 1]

-----------------------------------------------------------------------------
(* Defective pixels. *)

\* fpc_classify_raw_pixels
Classified(frame, list) ==
  [p \in Pixel |-> IF p \in Range(list) THEN "defective"
                   ELSE IF frame[p] = 0 THEN "dark" ELSE IF frame[p] = 255 THEN "bright" ELSE "good"]

OnEdge(p) == p[1] <= 1 \/ p[1] + 2 >= Width \/ p[2] <= 1 \/ p[2] + 2 >= Height

\* One entry of the list: it gets the mean of what is around it, if that is enough.
\* Variant: it is a source for the entries after it.
CorrectReusing(s, p, i, r, enough) ==
  LET near == Around(p, r) \ s.excluded
  IN  IF i \in s.done \/ Cardinality(near) < enough THEN s
      ELSE [image |-> [s.image EXCEPT ![p] = UNION {s.image[q] : q \in near}],
            done |-> s.done \cup {i}, excluded |-> s.excluded \ {p}]

Correct(s, p, i, r, enough) ==
  LET near == Around(p, r) \ s.excluded
  IN  IF i \in s.done \/ Cardinality(near) < enough THEN s
      ELSE [image |-> [s.image EXCEPT ![p] = UNION {s.image[q] : q \in near}],
            done |-> s.done \cup {i}, excluded |-> s.excluded]

\* The passes over the list: windows of 3 and 5 for all its entries, of 5 and 7
\* for those on the edge.
Passes == << [r |-> 1, enough |-> 1, all |-> TRUE],  [r |-> 2, enough |-> 6, all |-> TRUE],
             [r |-> 2, enough |-> 1, all |-> FALSE], [r |-> 3, enough |-> 1, all |-> FALSE] >>

\* The k-th visit of an entry, each pass visiting all of them.
Visit(list, s, k) ==
  LET pass == Passes[1 + ((k - 1) \div Len(list))]
      i    == 1 + ((k - 1) % Len(list))
  IN  IF pass.all \/ OnEdge(list[i]) THEN Correct(s, list[i], i, pass.r, pass.enough) ELSE s

\* correct_defective_pixels_mode with mode 0 and require_all: an image in which
\* each pixel is the set of pixels that its value comes from, or a refusal.
CorrectDefects(list) ==
  LET n == Len(list)
      state[k \in 0 .. 4 * n] ==
        IF k = 0
        THEN [image |-> [p \in Pixel |-> {p}], done |-> {}, excluded |-> Range(list)]
        ELSE Visit(list, state[k - 1], k)
  IN  IF n > MaxDefects \/ state[4 * n].done # 1 .. n THEN [status |-> 1001]
      ELSE [status |-> 0, image |-> state[4 * n].image]

-----------------------------------------------------------------------------
(* correct_projection: stripes in the columns are taken out, if there are any. *)

Inner == Side .. Width - 1 - Side

\* A row between the columns X, less the mean of the image there.
MeanOf(image, X) == SumFunction([p \in X \X Rows |-> image[p]]) \div (Cardinality(X) * Height)
Less(image, mean, X, y) == [x \in X |-> image[<<x, y>>] - mean]
Projection(strip, weight) == SumFunction([x \in DOMAIN strip |-> strip[x] * weight[x]])
RowScore(strip, quality) == SumFunction([x \in DOMAIN strip |-> Projection(strip, quality[x]) * strip[x]])
RowScores(image, mean, quality) ==
  [y \in Rows |-> RowScore(Less(image, mean, Inner, y), quality)]

\* Whether some rows next to each other have stripes: their running sum.
Striped(score) ==
  LET sum[y \in Reach .. Height - 1 - Reach] ==
        IF y = Reach THEN SumFunction([i \in 0 .. 2 * Reach |-> score[i]])
        ELSE sum[y - 1] - score[y - 1 - Reach] + score[y + Reach]
  IN  \E y \in Reach .. Height - 1 - Reach : sum[y] > Doubt * (2 * Reach + 1)

\* A pixel and its neighbours along an axis; a missing one is the pixel itself.
ThreeOf(image, axis, last) ==
  [p \in Pixel |-> image[p] + image[[p EXCEPT ![axis] = Clamp(@ - 1, 0, last)]]
                                  + image[[p EXCEPT ![axis] = Clamp(@ + 1, 0, last)]]]
Straight(image, mean, stripes) ==
  [p \in Pixel |-> image[p] - Projection(Less(image, mean, Columns, p[2]), stripes[p[1] \div Stripe])]
Ninth(image) == [p \in Pixel |-> image[p] \div 9]

CorrectProjection(image, quality, stripes) ==
  IF Striped(RowScores(image, MeanOf(image, Inner), quality))
  THEN [reason |-> 100,
        image  |-> Ninth(ThreeOf(ThreeOf(Straight(image, MeanOf(image, Columns), stripes), 1, Width - 1),
                                 2, Height - 1))]
  ELSE [reason |-> 0, image |-> image]

-----------------------------------------------------------------------------
(* normalize: spreads what counts, pixels that are not dark or bright, over the  *)
(* whole range.                                                                  *)

Signed(v) == LET u == v % (2 * HalfWord) IN IF u < HalfWord THEN u ELSE u - 2 * HalfWord

\* What is left of the range without the darkest and the brightest pixels.
Percentiles(image, valid, low, high) ==
  LET scale == IF low = high THEN 1024 ELSE (Bins * 65536) \div (high - low)
      Bin(p) == Clamp((scale * (image[p] - low) + 32768) \div 65536, 0, Bins)
      n      == Cardinality(valid)
      first  == Min({b \in 0 .. Bins : Cardinality({p \in valid : Bin(p) <= b}) > n \div LowPart})
      last   == Max({b \in 0 .. Bins : Cardinality({p \in valid : Bin(p) >= b}) > (n - 1) \div HighPart})
      Value(b) == low + (b * (high - low)) \div Bins
  IN  [low |-> Clamp(Value(first), 0, Value(first)), high |-> Clamp(Value(last), Value(last), Top)]

Normalize(image, flags, percentile) ==
  LET valid == {p \in Pixel : flags[p] \in {"good", "defective"}}
      low   == Min({image[p] : p \in valid})
      high  == Max({image[p] : p \in valid})
      range == IF percentile THEN Percentiles(image, valid, low, high) ELSE [low |-> low, high |-> high]
      gain  == (Top * Fine) \div (range.high - range.low)
  IN  IF valid = {} \/ range.high <= range.low THEN image
      ELSE [p \in Pixel |-> Clamp(Signed((image[p] - range.low) * gain) \div Fine, 0, Top)]

-----------------------------------------------------------------------------
(* capture_mask: closes gaps, fills spans, and retreats from where nothing is. *)

\* The code's grid has four more columns right of the margin: no closing reaches
\* them, and the frame covers them like the margin.
Grid == (0 .. Width + 2 * Margin - 1) \X (0 .. Height + 2 * Margin - 1)

\* Along an axis, a point and its two neighbours; what is outside counts as `edge`.
Beside(p, axis) == {[p EXCEPT ![axis] = @ + d] : d \in {-1, 0, 1}}

\* morph
DilateAcross(S, axis) == {p \in Grid : Beside(p, axis) \cap S # {}}
ErodeAcross(S, axis)  == {p \in Grid : Beside(p, axis) \cap Grid \subseteq S}
Dilate(S) == DilateAcross(DilateAcross(S, 1), 2)
Erode(S)  == ErodeAcross(ErodeAcross(S, 1), 2)

Times(Op(_), n, S) ==
  LET after[k \in 0 .. n] == IF k = 0 THEN S ELSE Op(after[k - 1]) IN after[n]

\* Every line along an axis is filled from its first point to its last.
Spans(S, axis) ==
  LET Ends(line) == [from |-> Min(line), to |-> Max(line)]
      span == [v \in {p[3 - axis] : p \in S} |-> Ends({p[axis] : p \in {q \in S : q[3 - axis] = v}})]
  IN  {p \in Grid : /\ p[3 - axis] \in DOMAIN span
                    /\ p[axis] \in span[p[3 - axis]].from .. span[p[3 - axis]].to}

Inside(p) == p[1] \in Margin .. Margin + Width - 1 /\ p[2] \in Margin .. Margin + Height - 1

\* The mask of the pixels that are not saturated.
CaptureMask(S) ==
  LET grid   == {<<p[1] + Margin, p[2] + Margin>> : p \in S}
      closed == Times(Erode, Closing, Times(Dilate, Closing, grid))
      filled == Spans(Spans(closed, 2), 1)
      framed == filled \cup {p \in Grid : ~Inside(p)}
      kept   == Times(Erode, Eroding, framed)
  IN  {p \in Pixel : <<p[1] + Margin, p[2] + Margin>> \in kept}

-----------------------------------------------------------------------------
(* fpc_profile300_prepare, up to the features. *)

\* A pixel in parts of one (q6), from those it comes from.
From(frame, S) ==
  (2 * Depth * SumFunction([q \in S |-> frame[q]]) + Cardinality(S)) \div (2 * Cardinality(S))
Corrected(frame, sources) == [p \in Pixel |-> From(frame, sources[p])]
Coarse(image) == [p \in Pixel |-> (image[p] + Depth \div 2) \div Depth]

\* What the code makes of an image whose pixels have those flags.
Judged(reason, pixels, mask, sure, coverage) ==
  [status |-> 0, reason |-> reason, pixels |-> pixels, mask |-> mask, quality |-> 100,
   confidence |-> sure, coverage |-> coverage, is_finger |-> sure >= 20 /\ coverage >= 30]
Found(reason, pixels, mask, confidence) ==
  Judged(reason, pixels, mask,
         SumFunction([p \in mask |-> confidence[p]]) \div (Cardinality(mask) + 1),
         (200 * Cardinality(mask) + Width * Height) \div (2 * Width * Height))
Observed(reason, pixels, flags) ==
  Found(reason, pixels, CaptureMask({p \in Pixel : flags[p] \in {"good", "defective"}}), Confidence(pixels))
Prepared(straight, flags) ==
  LET even == Normalize(straight.image, flags, FALSE)
      full == Normalize(Filter(even), flags, TRUE)
  IN  Observed(straight.reason, Coarse(full), flags)

Prepare(frame, list, correct, quality, stripes) ==
  IF Len(list) > MaxDefects THEN [status |-> -1]
  ELSE IF correct.status # 0 THEN correct
  ELSE Prepared(CorrectProjection(Corrected(frame, correct.image), quality, stripes),
                Classified(frame, list))

-----------------------------------------------------------------------------
(* What they promise, for given inputs. *)

\* The running sum is the sum of the window, wherever it has moved to, and the
\* first of the best frames is the one that is used.
FramesSound(frames) ==
  LET Line(f) == [i \in DOMAIN f |->
                    LET c == Clamp(i, Radius, Cardinality(DOMAIN f) - 1 - Radius)
                    IN  Mean(SumFunction([j \in c - Radius .. c + Radius |-> f[j]]))]
      Across(f) == [y \in Rows |-> Line([x \in Columns |-> f[<<x, y>>]])]
      Down(f)   == LET a == Across(f) IN [x \in Columns |-> Line([y \in Rows |-> a[y][x]])]
      score == [i \in DOMAIN frames |-> FrameScore(frames[i])]
      order == RankFrames(score)
  IN  /\ \A f \in Range(frames) :
           LET down == Down(f) IN Box(f) = [p \in Pixel |-> down[p[1]][p[2]]]
      /\ Range(order) = DOMAIN frames
      /\ \A i \in DOMAIN frames : score[i] <= score[order[0]]
      /\ \A i \in DOMAIN frames : i < order[0] => score[i] < score[order[0]]

\* Nothing of a defective pixel flows into an image that is used, only listed
\* pixels change, and neither the order of the list nor a repeated entry matters.
DefectsSound(list) ==
  LET r == CorrectDefects(list)
      Back == [i \in DOMAIN list |-> list[Len(list) + 1 - i]]
  IN  /\ r.status = 0 => /\ \A p \in Pixel : r.image[p] # {} /\ r.image[p] \cap Range(list) = {}
                         /\ \A p \in Pixel \ Range(list) : r.image[p] = {p}
      /\ CorrectDefects(Back) = r
      /\ 2 * Len(list) <= MaxDefects => CorrectDefects(list \o Back) = r

\* A normalized image is in range and as dark and bright in places as before,
\* unless a product leaves its word; without percentiles it begins with 0.
NormalizeSound(image, flags, percentile) ==
  LET valid == {p \in Pixel : flags[p] \in {"good", "defective"}}
      low   == Min({image[p] : p \in valid})
      high  == Max({image[p] : p \in valid})
      range == IF percentile THEN Percentiles(image, valid, low, high) ELSE [low |-> low, high |-> high]
      new   == Normalize(image, flags, percentile)
      Fits(p) == (image[p] - range.low) * ((Top * Fine) \div (range.high - range.low)) \in -HalfWord .. HalfWord - 1
  IN  valid # {} /\ range.low < range.high =>
        /\ \A p \in Pixel : new[p] \in 0 .. Top
        /\ \A p, q \in Pixel : image[p] <= image[q] /\ Fits(p) /\ Fits(q) => new[p] <= new[q]
        /\ ~percentile => \A p \in Pixel : image[p] <= low /\ Fits(p) => new[p] = 0

\* Holes that do not touch the border are filled, more finger never makes less
\* mask, and the mask is what has no gap within Eroding pixels: what lies outside
\* the image does not wear it away.
MaskSound(S, more) ==
  LET Ball(p, r) == {q \in Grid : Size(q[1] - p[1]) <= r /\ Size(q[2] - p[2]) <= r}
      placed == {<<p[1] + Margin, p[2] + Margin>> : p \in S}
      wide   == {q \in Grid : Ball(q, Closing) \cap placed # {}}
      filled == Spans(Spans({p \in Grid : Ball(p, Closing) \subseteq wide}, 2), 1)
      gaps   == {<<p[1] - Margin, p[2] - Margin>> : p \in {q \in Grid : Inside(q)} \ filled}
  IN  /\ {p \in Pixel : OnEdge(p)} \subseteq S => CaptureMask(S) = Pixel
      /\ CaptureMask(S) \subseteq CaptureMask(S \cup more)
      /\ CaptureMask(S) = {p \in Pixel : Around(p, Eroding) \cap gaps = {}}

\* Whether there are stripes, and what is left without them, depends neither on how
\* bright the image is nor on which end is up, and all rows have a say in it: the
\* running sum is that of some rows next to each other.
ProjectionSound(image, quality, stripes, brighter) ==
  LET Flipped(f) == [p \in Pixel |-> f[<<p[1], Height - 1 - p[2]>>]]
      r     == CorrectProjection(image, quality, stripes)
      light == CorrectProjection([p \in Pixel |-> image[p] + brighter], quality, stripes)
      other == CorrectProjection(Flipped(image), quality, stripes)
      score == RowScores(image, MeanOf(image, Inner), quality)
      Together == {Y \in SUBSET Rows : Cardinality(Y) = 2 * Reach + 1 /\ Y = Min(Y) .. Max(Y)}
  IN  /\ light.reason = r.reason /\ light.image = [p \in Pixel |-> r.image[p] + brighter]
      /\ other.reason = r.reason /\ other.image = Flipped(r.image)
      /\ r.reason = 100 <=> \E Y \in Together :
                               SumFunction([y \in Y |-> score[y]]) > Doubt * (2 * Reach + 1)

\* What the sensor says of the pixels that it gets wrong makes no difference.
PrepareSound(frame, other, list, quality, stripes) ==
  (\A p \in Pixel \ Range(list) : frame[p] = other[p]) =>
    Prepare(frame, list, CorrectDefects(list), quality, stripes) =
      Prepare(other, list, CorrectDefects(list), quality, stripes)
=============================================================================
