----------------------------- MODULE ImageCases -----------------------------
(***************************************************************************)
(* Inputs for ImagePreparation: frames, lists of defective pixels, images  *)
(* to spread, to mask and to straighten, and a capture that goes through   *)
(* all of it.                                                              *)
(***************************************************************************)
EXTENDS ImagePreparation, NativeWork

\* The pixels that the inputs name are there.
ASSUME InputsFit == 5 <= Width /\ 5 <= Height

Shade(a, b, c) == [p \in Pixel |-> (p[1] * a + p[2] * b + (IF p = <<2, 1>> THEN c ELSE 0)) % 256]
Single == {<< >>} \cup {<<p>> : p \in Pixel}
Couple == {<<p, q>> : p, q \in Pixel}
\* A corner that leaves some of its pixels without a good neighbour.
Corner == [i \in 1 .. 16 |-> <<(i - 1) % 4, (i - 1) \div 4>>]

TakeFrames ==
  /\ Take("frames")
  /\ \E a, d \in {0, 3, 90}, b, e \in {0, 7, 60}, c, f \in {0, 255} :
       /\ Shared(a + b) /\ e # 60
       /\ work' = [of |-> "frames",
                   frames |-> [i \in 0 .. 1 |-> IF i = 0 THEN Shade(a, b, c) ELSE Shade(d, e, f)]]

TakeDefects ==
  /\ Take("defects")
  /\ \E bad \in Single \cup Couple, beside \in {<< >>, Corner} :
       /\ Shared(SumFunction([i \in DOMAIN bad |-> bad[i][1]]))
       /\ work' = [of |-> "defects", list |-> beside \o bad]

TakeImage ==
  /\ Take("image")
  /\ \E a \in {0, 3, 90}, b \in {0, 7, 60}, c \in {0, 100, 255}, list \in Single, percentile \in BOOLEAN :
       /\ Shared(a + b)
       /\ work' = [of |-> "image", image |-> Shade(a, b, c), list |-> list, percentile |-> percentile]

TakeMask ==
  /\ Take("mask")
  /\ \E bad \in Single \cup Couple, most \in BOOLEAN :
       /\ Shared(SumFunction([i \in DOMAIN bad |-> bad[i][1]]))
       /\ work' = [of |-> "mask", shown |-> IF most THEN Pixel \ Range(bad) ELSE Range(bad),
                   more |-> {<<3, 2>>, <<0, 0>>}]

TakeStripes ==
  /\ Take("stripes")
  /\ \E a \in {3, 40, 90}, b \in {7, 25}, c \in {7 * i : i \in 0 .. 8}, d \in {1, 50}, q \in 0 .. 2 :
       /\ Shared(a + q)
       /\ work' = [of |-> "stripes", brighter |-> d, weights |-> q,
                   image |-> [p \in Pixel |-> (p[1] * a + p[2] * b + p[1] * p[2] * c) % 97]]

\* A frame, a list, and what the listed pixels are in another frame.
TakeCapture ==
  /\ Take("capture")
  /\ \E a \in {3, 40}, b \in {7, 60}, c \in {0, 100, 255}, else \in {0, 255},
        bad \in {<<<<2, 1>>>>, <<<<2, 1>>, <<0, 3>>>>, <<<<4, 4>>, <<2, 1>>, <<3, 1>>>>} :
       /\ Shared(a + b)
       /\ LET frame == Shade(a, b, c)
          IN  work' = [of |-> "capture", frame |-> frame, list |-> bad,
                       other |-> [p \in Pixel |-> IF p \in Range(bad) THEN else ELSE frame[p]]]

Wave(q, k) == ((2 * k + q) % 3) - 1
Quality(q) == [x \in Inner |-> [i \in Inner |-> Wave(q, x + i)]]
Stripes(q) == [b \in 0 .. Width \div Stripe |-> [x \in Columns |-> Wave(q + b, x)]]

\* An image is prepared as it should be: fpc_profile300_prepare and what it calls,
\* but for the frequency filter, and the correction of its defects.
ImagesSound ==
  /\ Is("frames")  => FramesSound(work.frames)
  /\ Is("defects") => DefectsSound(work.list)
  /\ Is("image")   => NormalizeSound(work.image, Classified(work.image, work.list), work.percentile)
  /\ Is("mask")    => MaskSound(work.shown, work.more)
  /\ Is("stripes") => ProjectionSound(work.image, Quality(work.weights), Stripes(work.weights), work.brighter)
  /\ Is("capture") =>
       PrepareSound(work.frame, work.other, work.list, Quality(1), Stripes(2))

ImagesInit == work \in ToTake({"frames", "defects", "image", "mask", "stripes", "capture"})
ImagesNext == TakeFrames \/ TakeDefects \/ TakeImage \/ TakeMask \/ TakeStripes \/ TakeCapture
ImagesSpec == ImagesInit /\ [][ImagesNext]_work
=============================================================================
