-------------------------- MODULE FeatureMatching --------------------------
(***************************************************************************)
(* How a scan is matched with stored captures (fpc_recovered.c): features  *)
(* that resemble each other are paired, a motion that carries many of the  *)
(* pairs along is sought among sampled ones, what it carries along is      *)
(* thinned and counted, and the first template that counts enough is it.   *)
(*                                                                         *)
(* A capture is [features |-> f, member |-> S]: f[i] has a place <<x, y>>   *)
(* and two half descriptors, sets of bits, and S holds the members. Which  *)
(* pairs the generator samples is an input. Arrays start at 0.             *)
(***************************************************************************)
EXTENDS Integers, FiniteSets, FiniteSetsExt, Functions

CONSTANTS
  Word, Frac,   \* bits of a word and of a fraction (32, 14)
  Resembling,   \* descriptor distance below which features resemble (64)
  MinLength,    \* squared length that a sampled pair must exceed (256)
  MinPairs,     \* pairs without which no motion is sought (8)
  Near,         \* squared error below which a motion carries a pair along (768)
  Spread,       \* squared distance that counted features keep (3584)
  Movement,     \* mean movement along each axis, without which none counts (32)
  MinMembers,   \* members that must be among what counts (4)
  FirstLimit, Quota, Scale,  \* sampling: 1500, quotas by the best yet, 32768
  Unit, Pace,   \* what a valid sample earns and each one costs (32768, 4424)
  Threshold     \* score of a match (18)

ASSUME MatchingAssumption ==
  /\ Word \in Nat /\ Frac \in Nat /\ 2 * Frac < Word
  /\ {Resembling, MinLength, MinPairs, Near, Spread, Movement, MinMembers,
      FirstLimit, Unit, Pace} \subseteq Nat
  /\ MinPairs > 0 /\ MinMembers > 0 /\ Threshold \in Nat \ {0} /\ Scale \in Nat
  /\ IsFiniteSet(DOMAIN Quota) /\ 0 \in DOMAIN Quota
  /\ \A b \in DOMAIN Quota : b \in Nat /\ Quota[b] \in Nat

First(S) == {i \in S : \A j \in S : i <= j}

-----------------------------------------------------------------------------
(* Pairs of features that resemble each other. *)

Bits(a, b) == Cardinality((a \ b) \cup (b \ a))

\* fpc_descriptor_distance128: the halves of a descriptor may be swapped.
Distance(a, b) ==
  LET normal  == Bits(a.low, b.low) + Bits(a.high, b.high)
      rotated == Bits(a.low, b.high) + Bits(a.high, b.low)
  IN  IF normal < rotated THEN normal ELSE rotated

\* The first of the nearest, among `of`, to what `gap` measures.
Nearest(of, gap) == CHOOSE i \in of : First({k \in of : \A l \in of : gap[k] <= gap[l]}) = {i}

\* fpc_mutual_candidates
Candidates(f, g) ==
  {p \in (DOMAIN f) \X (DOMAIN g) :
     /\ Distance(f[p[1]], g[p[2]]) < Resembling
     /\ p[2] = Nearest(DOMAIN g, [j \in DOMAIN g |-> Distance(f[p[1]], g[j])])
     /\ p[1] = Nearest(DOMAIN f, [i \in DOMAIN f |-> Distance(f[i], g[p[2]])])}

-----------------------------------------------------------------------------
(* Motions: rotations and scalings with a shift, in fixed point. *)

Wrap(v, bits) == LET u == v % 2^bits IN IF u < 2^(bits - 1) THEN u ELSE u - 2^bits

\* Division as in C: towards zero.
Quotient(n, d) == IF n >= 0 THEN n \div d ELSE -((-n) \div d)

Minus(a, b) == <<b[1] - a[1], b[2] - a[2]>>
Norm(d) == Wrap(d[1] * d[1] + d[2] * d[2], Word)

\* fpc_fit_similarity_pair: the motion that carries a.from to a.to, b.from to b.to.
Fit(a, b) ==
  LET d == Minus(a.from, b.from)
      e == Minus(a.to, b.to)
      norm    == Norm(d)
      shift   == CHOOSE k \in 0 .. Word - 2 :
                   2^(Word - 2) <= norm * 2^k /\ norm * 2^k < 2^(Word - 1)
      divisor == (norm * 2^shift) \div 2^Frac
      Part(v) == Quotient(Wrap(v * 2^shift + divisor \div 2, Word), divisor)
      c == Part(d[1] * e[1] + d[2] * e[2])
      s == Part(d[1] * e[2] - d[2] * e[1])
      sx == a.from[1] + b.from[1]
      sy == a.from[2] + b.from[2]
      Half(v) == Wrap(Wrap(v, Word) \div 2^(Frac + 1), Word \div 2)
  IN  [c |-> Wrap(c, Word \div 2), s |-> Wrap(s, Word \div 2),
       x |-> Half((a.to[1] + b.to[1] + 1) * 2^Frac - sx * c + sy * s),
       y |-> Half((a.to[2] + b.to[2] + 1) * 2^Frac - sx * s - sy * c)]

\* fpc_similarity_error
Error(p, t) ==
  LET x == p.from[1]
      y == p.from[2]
      dx == Wrap(x * t.c - y * t.s + (t.x - p.to[1]) * 2^Frac, Word) \div 2^Frac
      dy == Wrap(y * t.c + x * t.s + (t.y - p.to[2]) * 2^Frac, Word) \div 2^Frac
  IN  Wrap(dx * dx + dy * dy, Word)

\* fpc_sample_geometry_pairs: two pairs that are far apart, alike before and after.
Valid(a, b) ==
  LET n == Norm(Minus(a.from, b.from))
      m == Norm(Minus(a.to, b.to))
  IN  n > MinLength /\ Wrap(n - n \div 8, Word) < m /\ m < Wrap(n + n \div 8, Word)

Carried(points, t) == {i \in DOMAIN points : Error(points[i], t) < Near}

-----------------------------------------------------------------------------
(* fpc_verify_geometry_profile300 *)

Bucket(k, n) ==
  LET b == (k * (Scale \div n)) \div (Scale \div (2 * Cardinality(DOMAIN Quota)))
  IN  IF b \in DOMAIN Quota THEN b ELSE Max(DOMAIN Quota)

\* What the sample of an iteration makes of the best motion so far.
Try(points, s, t) ==
  LET k == Cardinality(Carried(points, t))
  IN  IF k > s.best
      THEN [s EXCEPT !.best = k, !.motion = t,
                     !.limit = Quota[Bucket(k, Cardinality(DOMAIN points))]]
      ELSE s

NoMotion == [c |-> 0, s |-> 0, x |-> 0, y |-> 0]

\* The two points of iteration i.
One(points, sample, i)   == points[sample[i][1]]
Other(points, sample, i) == points[sample[i][2]]

Started == [best |-> 0, motion |-> NoMotion, limit |-> FirstLimit, accepted |-> 0, progress |-> 0]

\* Iteration i: none beyond the limit, and no more when the budget is used up.
Iterate(points, sample, s, i) ==
  LET a == One(points, sample, i)
      b == Other(points, sample, i)
      paid == [s EXCEPT !.progress = @ + Pace]
      more == [paid EXCEPT !.accepted = @ + Unit]
  IN  IF i >= s.limit THEN s
      ELSE IF ~Valid(a, b) THEN paid
      ELSE IF i > FirstLimit /\ more.accepted < s.progress THEN [more EXCEPT !.limit = i]
      ELSE Try(points, more, Fit(a, b))

MostIterations == Max(Range(Quota) \cup {FirstLimit})

Search(points, sample) ==
  LET state[i \in 0 .. MostIterations] ==
        IF i = 0 THEN Started ELSE Iterate(points, sample, state[i - 1], i - 1)
  IN  state[MostIterations]

\* Of two close points the later one does not count.
Thinned(points, S) ==
  LET keep[i \in DOMAIN points] ==
        /\ i \in S
        /\ \A j \in DOMAIN points :
             j < i /\ keep[j] => Norm(Minus(points[j].from, points[i].from)) >= Spread
  IN  {i \in S : keep[i]}

Abs(v) == IF v < 0 THEN -v ELSE v
Moved(p) == Minus(p.from, p.to)

\* Does what counts move so little that it may be a pattern of the sensor?
Still(points, S) ==
  S # {} /\ \E axis \in {1, 2} :
    SumFunction([i \in S |-> Abs(Moved(points[i])[axis])]) \div Cardinality(S) < Movement

\* Features of the target become members with those they match, if they moved.
\* Variant: if few members or none are among what counts, too.
GrantAny(points, pairs, S, source) ==
  {pairs[i][2] : i \in {k \in S : Norm(Moved(points[k])) >= Near}}

Grant(points, pairs, S, source) ==
  IF Cardinality({i \in S : pairs[i][1] \in source}) < MinMembers THEN {}
  ELSE {pairs[i][2] : i \in {k \in S : Norm(Moved(points[k])) >= Near}}

NoMatch(pairs) ==
  [success |-> FALSE, best |-> 0, inliers |-> 0, spatial |-> 0, low |-> FALSE,
   motion |-> NoMotion, grant |-> {}, pairs |-> Cardinality(DOMAIN pairs)]

\* What is counted of the thinned points, `rest`; `low` is low_movement.
Counted(points, pairs, source, s, thin, rest) ==
  LET members == Cardinality({i \in rest : pairs[i][1] \in source})
  IN  [success |-> s.best >= MinPairs,
       best    |-> s.best,
       inliers |-> IF members < MinMembers THEN members ELSE Cardinality(rest),
       spatial |-> Cardinality(thin),
       low     |-> rest # thin,
       motion  |-> s.motion,
       grant   |-> Grant(points, pairs, rest, source),
       pairs   |-> Cardinality(DOMAIN pairs)]

Thin(points, pairs, source, s, thin) ==
  Counted(points, pairs, source, s, thin, IF Still(points, thin) THEN {} ELSE thin)

Verified(points, pairs, source, s) ==
  IF s.best = 0 THEN NoMatch(pairs)
  ELSE Thin(points, pairs, source, s, Thinned(points, Carried(points, s.motion)))

VerifyGeometry(points, pairs, sample, source) ==
  IF Cardinality(DOMAIN points) < MinPairs THEN NoMatch(pairs)
  ELSE Verified(points, pairs, source, Search(points, sample))

-----------------------------------------------------------------------------
(* Captures, templates and users. *)

\* The candidates in the order of the first capture's features.
Listed(C) == [k \in 0 .. Cardinality(C) - 1 |->
                CHOOSE p \in C : Cardinality({q \in C : q[1] < p[1]}) = k]

PointsOf(first, second, pairs) ==
  [k \in DOMAIN pairs |-> [from |-> first.features[pairs[k][1]].at,
                           to   |-> second.features[pairs[k][2]].at]]

\* fpc_match_profile300_captures
MatchPairs(first, second, pairs, sample) ==
  VerifyGeometry(PointsOf(first, second, pairs), pairs, sample[Cardinality(DOMAIN pairs)],
                 first.member)

MatchCaptures(first, second, sample) ==
  MatchPairs(first, second, Listed(Candidates(first.features, second.features)), sample)

\* fpc_match_profile300_collection: the captures of a template, in their order.
\* A capture without a candidate reports the motion of the one before.
Collected(match, query, score) ==
  LET motion[i \in DOMAIN match] ==
        IF match[i].pairs > 0 THEN match[i].motion ELSE IF i = 0 THEN NoMotion ELSE motion[i - 1]
  IN  [scores   |-> [i \in DOMAIN match |-> match[i].inliers],
       spatials |-> [i \in DOMAIN match |-> match[i].spatial],
       motions  |-> motion,
       score    |-> score,
       selected |-> IF score = 0 THEN -1
                    ELSE CHOOSE i \in First({k \in DOMAIN match : match[k].inliers = score}) : TRUE,
       query    |-> [query EXCEPT !.member = @ \cup UNION {match[i].grant : i \in DOMAIN match}]]

Scored(match, query) ==
  Collected(match, query, Max({match[i].inliers : i \in DOMAIN match} \cup {0}))

MatchCollection(captures, query, sample) ==
  Scored([i \in DOMAIN captures |-> MatchCaptures(captures[i], query, sample)], query)

\* fpc_identify_profile300: up to the first template whose score is enough; its
\* features leave their mark on the query all the same.
Compared(t, r, m) ==
  [score     |-> IF m.score > r.score THEN m.score ELSE r.score,
   capture   |-> IF m.score > r.score THEN m.selected ELSE r.capture,
   template  |-> IF m.score > r.score /\ m.score >= Threshold THEN t ELSE -1,
   query     |-> m.query,
   evaluated |-> r.evaluated + 1]

Identify(templates, query, sample) ==
  LET n == Cardinality(DOMAIN templates)
      result[t \in 0 .. n] ==
        IF t = 0
        THEN [score |-> 0, capture |-> -1, template |-> -1, query |-> query, evaluated |-> 0]
        ELSE IF result[t - 1].template # -1 THEN result[t - 1]
        ELSE Compared(t - 1, result[t - 1],
                      MatchCollection(templates[t - 1], result[t - 1].query, sample))
  IN  result[n]

-----------------------------------------------------------------------------
(* What they promise, for given inputs. *)

\* Pairs are one to one and nobody in them has a nearer counterpart, whichever
\* half of a descriptor comes first.
CandidatesSound(f, g) ==
  LET C == Candidates(f, g)
      Swapped == [j \in DOMAIN g |-> [g[j] EXCEPT !.low = g[j].high, !.high = g[j].low]]
  IN  /\ \A p, q \in C : p[1] = q[1] <=> p[2] = q[2]
      /\ \A p \in C, i \in DOMAIN f, j \in DOMAIN g :
           /\ Distance(f[p[1]], g[p[2]]) <= Distance(f[i], g[p[2]])
           /\ Distance(f[p[1]], g[p[2]]) <= Distance(f[p[1]], g[j])
      /\ Candidates(f, Swapped) = C

Turned(d, e) == <<d[1] * e[1] - d[2] * e[2], d[1] * e[2] + d[2] * e[1]>>

\* The points that move as a and b do.
Like(points, a, b) ==
  {k \in DOMAIN points : Turned(Minus(a.from, b.from), Minus(a.to, points[k].to)) =
                         Turned(Minus(a.to, b.to), Minus(a.from, points[k].from))}

Spaced(points, carried, thin) ==
  LET Close(i, j) == ~(Norm(Minus(points[i].from, points[j].from)) >= Spread)
  IN  /\ thin \subseteq carried
      /\ \A i \in carried : i \notin thin <=> \E j \in thin : j < i /\ Close(i, j)

\* The samples that a search may still try.
Tried(points, sample, s) ==
  {i \in 0 .. s.limit - 1 : Valid(One(points, sample, i), Other(points, sample, i))}

SearchFinds(points, sample, s) ==
  /\ s.best > 0 => s.best = Cardinality(Carried(points, s.motion))
  /\ \A i \in Tried(points, sample, s) :
       Cardinality(Carried(points, Fit(One(points, sample, i), Other(points, sample, i)))) <= s.best
  /\ Spaced(points, Carried(points, s.motion), Thinned(points, Carried(points, s.motion)))

\* The search ends with a motion that carries most pairs along of those it may
\* still try, even though its limit moves with every better one; and what is
\* counted of them is spread: nothing counts next to what counts already.
SearchSound(points, sample) == SearchFinds(points, sample, Search(points, sample))

\* Pairs that move exactly like a sample are carried along, whatever fixed point
\* makes of its motion.
LikeFound(points, sample, s) ==
  \A i \in Tried(points, sample, s) :
    Cardinality(Like(points, One(points, sample, i), Other(points, sample, i))) <= s.best
FixedPointSound(points, sample) == LikeFound(points, sample, Search(points, sample))

\* What counts was thinned from what is carried along; members are made only
\* next to enough members, of features that were paired and moved.
GeometryHolds(first, C, m) ==
  /\ m.inliers <= m.spatial /\ m.spatial <= m.best /\ m.best <= m.pairs
  /\ m.grant \subseteq {p[2] : p \in C}
  /\ m.grant # {} => /\ m.inliers >= MinMembers /\ ~m.low
                     /\ Cardinality({p \in C : p[1] \in first.member}) >= MinMembers
  /\ m.inliers >= MinMembers => ~m.low

GeometrySound(first, second, sample) ==
  GeometryHolds(first, Candidates(first.features, second.features),
                MatchCaptures(first, second, sample))

\* The first template that reaches the threshold is the one, and matching the
\* query with it once more, now that the templates before it have left their
\* marks on the query, finds the same capture, score and overlaps.
Identified(query, fresh, r, good) ==
  /\ IF good = {} THEN r.template = -1 ELSE r.template = Min(good)
  /\ r.template # -1 => r.evaluated = r.template + 1
  /\ query.member \subseteq r.query.member
  /\ r.query.member # query.member =>
       \E t \in 0 .. r.evaluated - 1 : fresh[t].score >= MinMembers

FoundAgain(fresh, r, again) ==
  again.selected = r.capture /\ again.score = r.score /\ again.spatials = fresh.spatials

Identification(templates, query, sample, fresh, r) ==
  /\ Identified(query, fresh, r, {t \in DOMAIN templates : fresh[t].score >= Threshold})
  /\ r.template # -1 =>
       FoundAgain(fresh[r.template], r, MatchCollection(templates[r.template], r.query, sample))

IdentifySound(templates, query, sample) ==
  Identification(templates, query, sample,
                 [t \in DOMAIN templates |-> MatchCollection(templates[t], query, sample)],
                 Identify(templates, query, sample))
=============================================================================
