------------------------- MODULE FeatureDescription -------------------------
(***************************************************************************)
(* How a feature gets its orientation and its descriptor                   *)
(* (fpc_recovered.c): gradients make a field of orientations, the one at   *)
(* the feature is interpolated, a patch is sampled along it and projected  *)
(* to bits, once forward and once backward.                                *)
(*                                                                         *)
(* The fixed-point constants are the code's own; angles are bytes, of      *)
(* which 256 are half a turn. Indices start at 0.                          *)
(***************************************************************************)
EXTENDS Integers, FiniteSets, FiniteSetsExt, Functions

CONSTANTS
  FieldWidth, FieldHeight,  \* of the field: (112 - 4) / 4, (88 - 4) / 4
  PatchSide, PatchReach     \* points along a patch (16), pixels between its ends (24)

ASSUME FieldAssumption ==
  /\ {FieldWidth, FieldHeight} \subseteq Nat \ {0}
  /\ PatchSide \in Nat /\ PatchSide > 1 /\ PatchReach \in Nat

FieldCells == (0 .. FieldWidth - 1) \X (0 .. FieldHeight - 1)

Floor(v, bits)   == v \div 2^bits
Rounded(v, bits) == (v + 2^(bits - 1)) \div 2^bits
Short(v) == ((v + 32768) % 65536) - 32768
Toward0(n, d) == IF n >= 0 THEN n \div d ELSE -((-n) \div d)
Limit(v, n) == IF v < 0 THEN 0 ELSE IF v >= n THEN n - 1 ELSE v
Sum4(Op(_, _)) == Op(0, 0) + Op(0, 1) + Op(1, 0) + Op(1, 1)

-----------------------------------------------------------------------------
(* Angles and vectors. *)

\* fpc_angle_vector: cosine and sine of a byte, 2^14 being one.
AngleVector(byte) ==
  LET sign == IF byte < 128 THEN 23170 ELSE -23170
      a == Floor((byte % 128) * 25736 - 1647072, 6)
      b == Floor(a + 1, 1)
      c == Floor(Rounded(b * a, 15) + 1, 1)
      d == Rounded(Rounded(c * a, 15) * 10923, 15)
      e == Floor(Rounded(d * a, 15) + 2, 2)
      u == 16384 - c + e
      v == b - d + Rounded(Rounded(e * a, 15) * 6554, 15)
      x == Rounded(u * 23170 - v * sign, 15)
      y == Rounded(u * sign + v * 23170, 15)
  IN  [cos |-> Rounded(x * x - y * y, 14), sin |-> Floor(x * y + 4096, 13)]

\* The octants of fpc_angle_fixed: `over` is to be divided by `under`.
Octant(sin, cos) ==
  LET up    == IF sin < 1 THEN [base |-> -28672, s |-> -sin, c |-> -cos]
               ELSE [base |-> 4096, s |-> sin, c |-> cos]
      right == IF up.c < 0 THEN [base |-> up.base + 16384, s |-> -up.c, c |-> up.s] ELSE up
  IN  IF right.c < right.s
      THEN [base |-> right.base + 8192, over |-> 12540 * right.s - 30274 * right.c,
            under |-> 12540 * right.c + 30274 * right.s]
      ELSE [base |-> right.base, over |-> 30274 * right.s - 12540 * right.c,
            under |-> 30274 * right.c + 12540 * right.s]

\* fpc_angle_fixed: 2^30 is half a turn of the vector.
AngleFixed(sin, cos) ==
  LET o       == Octant(sin, cos)
      shift   == CHOOSE k \in 0 .. 30 : Floor(o.under * 2^k, 30) = 1
      divisor == Floor(o.under * 2^shift, 15)
      t  == Toward0(o.over * 2^shift, divisor)
      t2 == Rounded(t * t, 15)
      t3 == Rounded(t2 * t, 15)
      t5 == Rounded(t3 * t2, 15)
      t7 == Rounded(t5 * t2, 15)
  IN  IF sin \notin -32768 .. 32767 \/ cos \notin -32768 .. 32767 \/ (sin = 0 /\ cos = 0) THEN 0
      ELSE t5 * 1623 - t7 * 462 + t * 10428 + o.base * 32768 - t3 * 3398

ByteOf(angle) == Floor(angle + 2^22, 23) % 256

-----------------------------------------------------------------------------
(* The field. *)

\* fpc_build_orientation_field: the doubled gradients of a cell, with as many bits
\* as fit.
CellVector(image, cell) ==
  LET At(x, y) == image[<<2 + 4 * cell[1] + x, 2 + 4 * cell[2] + y>>]
      Gx(p) == At(p[1], p[2]) + At(p[1], p[2] + 1) - At(p[1] + 1, p[2]) - At(p[1] + 1, p[2] + 1)
      Gy(p) == At(p[1], p[2]) + At(p[1] + 1, p[2]) - At(p[1], p[2] + 1) - At(p[1] + 1, p[2] + 1)
      inner == (0 .. 3) \X (0 .. 3)
      a == SumFunction([p \in inner |-> Gx(p) * Gx(p) - Gy(p) * Gy(p)])
      b == SumFunction([p \in inner |-> 2 * Gx(p) * Gy(p)])
      Fits(k) == \A v \in {a, b} : Floor(v, k) \in -16384 .. 16383
      shift == Min({k \in 0 .. 18 : Fits(k)})
  IN  [cos |-> Short(Floor(a, shift)), sin |-> Short(Floor(b, shift))]

\* smooth_orientation, both directions; the ends repeat.
Taps == [k \in -3 .. 3 |-> CASE k \in {-3, 3} -> 480 [] k \in {-2, 2} -> 2724
                             [] k \in {-1, 1} -> 7719 [] k = 0 -> 10923]
Smooth(plane) ==
  LET across == [c \in FieldCells |-> Short(Floor(SumFunction([k \in -3 .. 3 |->
                   Taps[k] * plane[<<Limit(c[1] + k, FieldWidth), c[2]>>]]), 15))]
  IN  [c \in FieldCells |-> Short(Floor(SumFunction([k \in -3 .. 3 |->
         Taps[k] * across[<<c[1], Limit(c[2] + k, FieldHeight)>>]]), 15))]

OrientationField(image) ==
  LET vector == [c \in FieldCells |-> CellVector(image, c)]
      cos == Smooth([c \in FieldCells |-> vector[c].cos])
      sin == Smooth([c \in FieldCells |-> vector[c].sin])
  IN  [c \in FieldCells |-> ByteOf(AngleFixed(sin[c], cos[c]))]

\* fpc_interpolate_orientation at a place in 16ths of pixels.
Interpolate(field, x, y) ==
  LET qx == x - 64
      qy == y - 64
      Vector(dx, dy) == AngleVector(field[<<Limit(Floor(qx, 6) + dx, FieldWidth),
                                            Limit(Floor(qy, 6) + dy, FieldHeight)>>])
      Share(dx, dy) == (IF dx = 1 THEN qx % 64 ELSE 64 - (qx % 64))
                       * (IF dy = 1 THEN qy % 64 ELSE 64 - (qy % 64))
      Sin(dx, dy) == Vector(dx, dy).sin * Share(dx, dy)
      Cos(dx, dy) == Vector(dx, dy).cos * Share(dx, dy)
  IN  ByteOf(AngleFixed(Floor(Sum4(Sin) + 32768, 12), Floor(Sum4(Cos) + 32768, 12)))

-----------------------------------------------------------------------------
(* Patch and descriptor. *)

\* sample_descriptor_roi: a square of points around <<x, y>> of an image that is
\* padded on all sides; `c` and `s` turn it, 2^15 being one.
PatchMotion(x, y, c, s, padding) ==
  LET Far(v) == Toward0(PatchReach * v, PatchSide - 1)
      half == PatchReach \div 2
  IN  [a |-> Far(c), b |-> Far(-s), x |-> (x + padding) * 32768 - (c - s) * half,
       c |-> Far(s), d |-> Far(c),  y |-> (y + padding) * 32768 - (c + s) * half]

\* fpc_pad_image_edges
Padded(image, width, height, padding) ==
  [p \in (0 .. width + 2 * padding - 1) \X (0 .. height + 2 * padding - 1) |->
     image[<<Limit(p[1] - padding, width), Limit(p[2] - padding, height)>>]]

\* fpc_sample_affine_q15: a patch, or nothing when a point lacks a neighbour.
SampleAffine(image, width, height, side, m) ==
  LET patch == (0 .. side - 1) \X (0 .. side - 1)
      At(p) == <<m.x + m.a * p[1] + m.b * p[2], m.y + m.c * p[1] + m.d * p[2]>>
      Inside(q) == Floor(q[1], 15) \in 0 .. width - 2 /\ Floor(q[2], 15) \in 0 .. height - 2
      Value(q) ==
        LET ix == Floor(q[1], 15)
            iy == Floor(q[2], 15)
            Part1(dx, dy) == image[<<ix + dx, iy + dy>>]
              * Floor((IF dx = 1 THEN q[1] % 32768 ELSE 32768 - (q[1] % 32768))
                      * (IF dy = 1 THEN q[2] % 32768 ELSE 32768 - (q[2] % 32768)), 15)
        IN  Floor(Sum4(Part1), 15)
  IN  IF \A p \in patch : Inside(At(p)) THEN [p \in patch |-> Value(At(p))] ELSE << >>

\* fpc_project_descriptor: the bits of a patch of n pixels, forward and backward.
ProjectDescriptor(patch, n, weights) ==
  LET Bit(k, Of(_)) == SumFunction([i \in 0 .. n - 1 |-> weights[i][k] * patch[Of(i)]]) > 0
      Same(i) == i
      Back(i) == n - 1 - i
  IN  [low  |-> {k \in DOMAIN weights[0] : Bit(k, Same)},
       high |-> {k \in DOMAIN weights[0] : Bit(k, Back)}]

-----------------------------------------------------------------------------
(* The filters that responses are made of. *)

\* reflect_index: the end itself is not repeated. Variant: it is.
ReflectTwice(v, n) == IF v < 0 THEN -v - 1 ELSE IF v >= n THEN 2 * n - 1 - v ELSE v

Reflect(v, n) == IF v < 0 THEN -v ELSE IF v >= n THEN 2 * n - 2 - v ELSE v

\* convolve_taps along a line.
Convolve(line, kernel) ==
  LET n == Cardinality(DOMAIN line)
      half == Cardinality(DOMAIN kernel) \div 2
  IN  [x \in 0 .. n - 1 |-> Short(Rounded(SumFunction([k \in DOMAIN kernel |->
         line[Reflect(x + k - half, n)] * kernel[k]]), 15))]

-----------------------------------------------------------------------------
(* What they promise, for given inputs. *)

\* Between neighbouring cells the orientation turns the short way, through 0 if
\* need be, and where all cells agree it is theirs, to the last bit.
InterpolationSound(from, turn, x, y) ==
  LET Field(b) == [c \in FieldCells |-> IF c[1] % 2 = 0 THEN from ELSE b]
      short == IF turn <= 128 THEN 0 .. turn ELSE turn .. 256
      way   == (Interpolate(Field((from + turn) % 256), x, y) - from) % 256
  IN  /\ Interpolate(Field(from), x, y) = from
      /\ turn # 128 => \E w \in short : w % 256 = way

\* A finger that lies across, and is `gain` times as clear, has its orientations
\* across: gradients neither wrap nor lose their signs on the way to the field.
FieldSound(image, gain) ==
  LET across == OrientationField([p \in DOMAIN image |-> gain * image[<<p[2], p[1]>>]])
      field  == OrientationField(image)
      Far(a, b) == LET d == (a - b) % 256 IN IF d < 128 THEN d ELSE 256 - d
  IN  \A c \in FieldCells : Far(across[<<c[2], c[1]>>], 128 - field[c]) <= 2

\* Wherever a feature may be and however it is turned, its patch has all its
\* pixels and makes none that is brighter or, by more than one, darker than they
\* are; taken the other way round it has the same descriptor, its halves swapped.
SamePatch(image, patch, n, weights, one, two) ==
  /\ DOMAIN patch # {}
  /\ \A p \in DOMAIN patch : patch[p] \in Min(Range(image)) - 1 .. Max(Range(image))
  /\ one.low = two.high /\ one.high = two.low

Patched(image, patch, n, weights) ==
  LET List == [i \in 0 .. n - 1 |-> patch[<<i % PatchSide, i \div PatchSide>>]]
  IN  SamePatch(image, patch, n, weights, ProjectDescriptor(List, n, weights),
                ProjectDescriptor([i \in 0 .. n - 1 |-> List[n - 1 - i]], n, weights))

PatchSound(image, width, height, border, padding, at, c, s, weights) ==
  at[1] \in border .. width - border - 1 /\ at[2] \in border .. height - border - 1 =>
    Patched(image, SampleAffine(Padded(image, width, height, padding), width + 2 * padding,
                                height + 2 * padding, PatchSide,
                                PatchMotion(at[1], at[2], c, s, padding)),
            PatchSide * PatchSide, weights)

\* Reflected, a line goes on evenly: it is filtered as its endless continuation is.
ConvolveSound(line, kernel) ==
  LET n == Cardinality(DOMAIN line)
      half == Cardinality(DOMAIN kernel) \div 2
      Endless(v) == LET m == v % (2 * n - 2) IN line[IF m < n THEN m ELSE 2 * n - 2 - m]
  IN  \A x \in DOMAIN line :
        Convolve(line, kernel)[x] =
          Short(Rounded(SumFunction([k \in DOMAIN kernel |-> Endless(x + k - half) * kernel[k]]), 15))
=============================================================================
