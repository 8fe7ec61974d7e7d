-------------------------- MODULE CosineTransform --------------------------
(***************************************************************************)
(* The cosine transform of profile300.c, on which the frequency filter of  *)
(* an image is built: n real values are packed as n / 2 complex ones, go   *)
(* through a fast Fourier transform, are unpacked and turned into cosine   *)
(* coefficients; and all of it backwards.                                  *)
(*                                                                         *)
(* Rounding is left out: the values are those of a field of Prime elements *)
(* in which a circle has Period equally spaced points, so that equations   *)
(* between cosines and sines hold in it exactly. Arrays start at 0; a      *)
(* complex number is <<real, imaginary>>.                                  *)
(***************************************************************************)
EXTENDS ImagePreparation, TLC

CONSTANTS
  Prime,      \* of the field
  Unity,      \* an element whose powers are the points of the circle
  Period,     \* how many there are: 2048 in the tables
  LineLength, \* points along an edge of the padded plane (128)
  Above, Left \* rows and columns that pad an image there (20, 8)

ASSUME FieldOfUnity ==
  /\ {Prime, Unity, Period, LineLength, Above, Left} \subseteq Nat
  /\ Prime > 2 /\ Period > 0 /\ Period % 8 = 0 /\ (Prime - 1) % Period = 0

\* The same function, its values worked out once.
Tabled(f) == f @@ << >>

(* The field. *)

Reduce(v) == v % Prime
Inverted(v) == CHOOSE w \in 1 .. Prime - 1 : Reduce(v * w) = 1

\* The points of the circle, as powers of Unity.
Powers ==
  LET power[k \in 0 .. Period - 1] ==
        IF k = 0 THEN 1
        ELSE LET root == power[k \div 2] IN Reduce(root * root * (IF k % 2 = 1 THEN Unity ELSE 1))
  IN  Tabled([k \in 0 .. Period - 1 |-> power[k]])
OneHalf  == Inverted(2)
Over64th == Inverted(64)
OverI    == Inverted(Powers[Period \div 4])
Cosine(k) == Reduce((Powers[k % Period] + Powers[(-k) % Period]) * OneHalf)
Sine(k)   == Reduce((Powers[k % Period] - Powers[(-k) % Period]) * OneHalf * OverI)

\* The diagonal of a square over its side.
RootTwo == Reduce(2 * Cosine(Period \div 8))
OverRoot == Inverted(RootTwo)

-----------------------------------------------------------------------------
(* The tables. *)

\* fpc_fft_twiddles: cosine and sine of k of n parts of a circle.
TwiddleAt(at)  == [cos |-> Cosine(at), sin |-> Sine(at)]
Twiddle(k, n) == TwiddleAt((k * Period) \div n)

\* fpc_fft_permutation, the part for n points: bits from last to first.
Permutation(n) ==
  LET reversed[m \in 0 .. n - 1, size \in 1 .. n] ==
        IF size = 1 THEN 0 ELSE (m % 2) * (size \div 2) + reversed[m \div 2, size \div 2]
  IN  [i \in 0 .. n - 1 |-> reversed[i, n]]

\* fpc_dct_scales: the square root of 2 / n.
DctScale(n) ==
  LET scale[m \in 1 .. n] ==
        IF m = 1 THEN RootTwo ELSE Reduce(scale[m \div 2] * OverRoot)
  IN  scale[n]

-----------------------------------------------------------------------------
(* The transforms. *)

Add(z, w) == <<Reduce(z[1] + w[1]), Reduce(z[2] + w[2])>>
Sub(z, w) == <<Reduce(z[1] - w[1]), Reduce(z[2] - w[2])>>
\* z turned by a twiddle, or back by it.
Spun(z, t, back) ==
  IF back THEN <<Reduce(t.cos * z[1] + t.sin * z[2]), Reduce(t.cos * z[2] - t.sin * z[1])>>
  ELSE <<Reduce(t.cos * z[1] - t.sin * z[2]), Reduce(t.cos * z[2] + t.sin * z[1])>>
\* A quarter of a turn.
Quarter(z, back) == IF back THEN <<z[2], Reduce(-z[1])>> ELSE <<Reduce(-z[2]), z[1]>>

\* complex_transform: butterflies of four, then of two of growing width.
Four(a, b, i) ==
  CASE i % 4 = 0 -> Add(a.sum, b.sum) [] i % 4 = 1 -> Add(a.diff, b.diff)
    [] i % 4 = 2 -> Sub(a.sum, b.sum) [] i % 4 = 3 -> Sub(a.diff, b.diff)
FourOf(z, p, base, i, back) ==
  Four([sum  |-> Add(z[p[base]], z[p[base + 1]]), diff |-> Sub(z[p[base]], z[p[base + 1]])],
       [sum  |-> Add(z[p[base + 2]], z[p[base + 3]]),
        diff |-> Quarter(Sub(z[p[base + 2]], z[p[base + 3]]), back)], i)
FirstStage(z, p, back) == Tabled([i \in DOMAIN z |-> FourOf(z, p, 4 * (i \div 4), i, back)])

Two(z, low, turned, i) == IF i = low THEN Add(z, turned) ELSE Sub(z, turned)
TwoOf(z, low, width, i, back) ==
  Two(z[low], low, Spun(z[low + width], Twiddle(low % width, 2 * width), back), i)
Butterflies(z, width, back) ==
  Tabled([i \in DOMAIN z |->
            TwoOf(z, i - (IF i % (2 * width) < width THEN 0 ELSE width), width, i, back)])

ComplexTransform(z, n, back) ==
  LET stage[width \in 4 .. n] ==
        IF width = 4 THEN FirstStage(z, Permutation(n), back)
        ELSE Butterflies(stage[width \div 2], width \div 2, back)
  IN  stage[n]

\* Half the sum and half the difference of coefficients a and b that mirror each other.
Even(a, b) == <<Reduce((b[1] + a[1]) * OneHalf), Reduce((a[2] - b[2]) * OneHalf)>>
Odd(a, b)  == <<Reduce((b[2] + a[2]) * OneHalf), Reduce((b[1] - a[1]) * OneHalf)>>
Ends(z)    == <<Reduce(z[1] + z[2]), Reduce(z[1] - z[2])>>

\* With f(k) for the lower half, it mirrored for the upper, f being <<sum, turned>>.
Mirrored(f, k, n) ==
  IF k < n \div 4 THEN Add(f[1], f[2]) ELSE <<Reduce(f[1][1] - f[2][1]), Reduce(f[2][2] - f[1][2])>>
Lower(k, n) == IF k < n \div 4 THEN k ELSE n \div 2 - k

\* real_forward: from n real values, in pairs, to half of their coefficients. The
\* first and the middle one, which are real, share a place.
Unpacked(a, b, k, n) == <<Even(a, b), Spun(Odd(a, b), Twiddle(k, n), FALSE)>>
RealSpectrum(c, n) ==
  Tabled([k \in 0 .. n \div 2 - 1 |->
            IF k = 0 THEN Ends(c[0]) ELSE IF k = n \div 4 THEN c[k]
            ELSE Mirrored(Unpacked(c[Lower(k, n)], c[n \div 2 - Lower(k, n)], Lower(k, n), n), k, n)])
RealForward(z, n) == RealSpectrum(ComplexTransform(z, n \div 2, FALSE), n)

\* real_inverse
Exchanged(z) == <<z[2], z[1]>>
Packed(a, b, k, n) ==
  <<Even(a, b), Exchanged(Spun(<<Reduce(-Odd(a, b)[2]), Reduce(-Odd(a, b)[1])>>, Twiddle(k, n), FALSE))>>
Halved(z) == <<Reduce(z[1] * OneHalf), Reduce(z[2] * OneHalf)>>
ComplexSpectrum(c, n) ==
  Tabled([k \in 0 .. n \div 2 - 1 |->
            IF k = 0 THEN Halved(Ends(c[0])) ELSE IF k = n \div 4 THEN c[k]
            ELSE Mirrored(Packed(c[Lower(k, n)], c[n \div 2 - Lower(k, n)], Lower(k, n), n), k, n)])
RealInverse(c, n) == ComplexTransform(ComplexSpectrum(c, n), n \div 2, TRUE)

\* fpc_profile300_dct: the n cosine coefficients of a line, or a line from them.
Reordered(line, n, i) == line[IF 2 * i < n THEN 2 * i ELSE 2 * (n - 1 - i) + 1]
Coefficient(c, t, i, n) ==
  CASE i = 0 -> c[0][1] * OverRoot
    [] i \in 1 .. n \div 2 - 1 -> t.cos * c[i][1] - t.sin * c[i][2]
    [] i = n \div 2 -> t.cos * c[0][2]
    [] i > n \div 2 -> t.cos * c[n - i][1] + t.sin * c[n - i][2]
Coefficients(c, n) == Tabled([i \in 0 .. n - 1 |-> Coefficient(c, Twiddle(i, 4 * n), i, n)])
Forward(line, n) ==
  Coefficients(RealForward([i \in 0 .. n \div 2 - 1 |->
                 <<Reordered(line, n, 2 * i), Reordered(line, n, 2 * i + 1)>>], n), n)

Merged(u, v, low, high) ==
  <<Reduce(high.cos * v + low.cos * u), Reduce(high.sin * v - low.sin * u)>>
Pair(line, n, i) ==
  IF i = 0 THEN <<Reduce(line[0] * RootTwo), Reduce(Twiddle(n \div 2, 4 * n).cos * line[n \div 2])>>
  ELSE Merged(line[i], line[n - i], Twiddle(i, 4 * n), Twiddle(n - i, 4 * n))
RealAt(z, k) == z[k \div 2][1 + (k % 2)]
InOrder(z, n) ==
  Tabled([i \in 0 .. n - 1 |-> RealAt(z, IF i % 2 = 0 THEN i \div 2 ELSE n - 1 - i \div 2)])
Backward(line, n) == InOrder(RealInverse([i \in 0 .. n \div 2 - 1 |-> Pair(line, n, i)], n), n)

Scaled(values, scale, n) == Tabled([i \in 0 .. n - 1 |-> Reduce(values[i] * scale)])
Dct(line, n, back) ==
  IF n \notin {2^k : k \in 3 .. 7} THEN line
  ELSE Scaled(IF back THEN Backward(line, n) ELSE Forward(line, n), DctScale(n), n)

-----------------------------------------------------------------------------
(* The frequency filter. *)

\* reflect: the end itself is repeated.
Repeat(v, n) == IF v < 0 THEN -v - 1 ELSE IF v >= n THEN 2 * n - v - 1 ELSE v

PlaneWidth  == LineLength - 2 * Left
PlaneHeight == LineLength - 2 * Above
Places == 0 .. LineLength - 1

\* enhance: an image, in 64ths, is padded to a square plane, transformed down and
\* across, weighed by frequency and transformed back.
Line(f, back) == Dct(f, LineLength, back)
Down(image) ==
  Tabled([x \in 0 .. PlaneWidth - 1 |->
    Line([y \in Places |-> Reduce(image[<<x, Repeat(y - Above, PlaneHeight)>>] * Over64th)], FALSE)])
Across(down) ==
  Tabled([y \in Places |-> Line([x \in Places |-> down[Repeat(x - Left, PlaneWidth)][y]], FALSE)])
BackAcross(plane, weight) ==
  Tabled([y \in Places |-> Line([x \in Places |-> plane[y][x] * weight[x, y]], TRUE)])
BackDown(plane) ==
  Tabled([x \in 0 .. PlaneWidth - 1 |-> Line([y \in Places |-> plane[y][x + Left]], TRUE)])
Cut(plane) ==
  [p \in (0 .. PlaneWidth - 1) \X (0 .. PlaneHeight - 1) |-> Reduce(plane[p[1]][p[2] + Above] * 64)]
Enhance(image, weight) == Cut(BackDown(BackAcross(Across(Down(image)), weight)))

-----------------------------------------------------------------------------
(* What they promise, for given inputs. *)

\* The fast transform is the cosine transform, sum by sum. Going back undoes it for
\* all coefficients but the middle one, of which only half comes back.
TransformSound(line, n) ==
  LET there == Dct(line, n, FALSE)
      Wave(k, i) == IF k = 0 THEN 1 ELSE RootTwo * Cosine(((2 * i + 1) * k * Period) \div (4 * n))
  IN  /\ Dct([there EXCEPT ![n \div 2] = 2 * @], n, TRUE) = [i \in 0 .. n - 1 |-> Reduce(line[i])]
      /\ \A k \in 0 .. n - 1 :
           Reduce(RootTwo * there[k]) = Reduce(DctScale(n) * SumFunction([i \in 0 .. n - 1 |->
                                                 Reduce(line[i] * Wave(k, i))]))

\* Except at the middle frequency, which counts half: a filter that leaves all others
\* alone leaves the image alone, and one that weighs them by twice their cosine gives
\* every pixel the sum of its two neighbours, at an edge the pixel itself in the place
\* of the one that is missing.
EnhanceSound(image, axis) ==
  LET Middle(k) == IF k = LineLength \div 2 THEN 2 ELSE 1
      Filtered(Weight(_)) ==
        Enhance(image, [p \in Places \X Places |-> Reduce(Middle(p[1]) * Middle(p[2]) * Weight(p))])
      Same(p)  == 1
      Waves(p) == 2 * Twiddle(p[axis], 2 * LineLength).cos
      last == IF axis = 1 THEN PlaneWidth - 1 ELSE PlaneHeight - 1
      Next2(p, d) == image[[p EXCEPT ![axis] = Min({last, Max({0, @ + d})})]]
  IN  /\ Filtered(Same)  = [p \in DOMAIN image |-> Reduce(image[p])]
      /\ Filtered(Waves) = [p \in DOMAIN image |-> Reduce(Next2(p, -1) + Next2(p, 1))]
=============================================================================
