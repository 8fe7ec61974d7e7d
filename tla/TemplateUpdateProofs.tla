------------------------ MODULE TemplateUpdateProofs ------------------------
(***************************************************************************)
(* A template that adapts to its finger implements KeptCaptures.           *)
(*                                                                         *)
(* The triangular array of a retained graph has one place for each pair of *)
(* slots, whatever its capacity, and writing the scores of a capture       *)
(* touches the places of its pairs and no other. The walk over the order   *)
(* finds, place by place, the best of what it has seen. So the two arrays  *)
(* of a template stay in step, protected captures stay, and the capture    *)
(* that goes is one that the rule on captures names.                       *)
(***************************************************************************)
EXTENDS TemplateUpdate, RetainedGraphProofs, TLAPS

-----------------------------------------------------------------------------
(* Scores. *)

\* A graph for n captures.
Graphs(n) ==
  [used : 0 .. n, capacity : {n}, protected : Nat, threshold : Nat,
   order : [Slots(n) -> Slots(n)], ages : [Slots(n) -> 0 .. AgeMax],
   scores : [Slots(Pairs(n)) -> Overlap \cup {0}]]

\* Writing the scores of the capture in a slot writes those of its pairs and
\* leaves all others as they were (fpc_enrollment_write_capture_scores).
THEOREM WritesItsPairs ==
  ASSUME NEW n \in Nat, n >= 2, NEW g \in Graphs(n), NEW slot \in Slots(n), slot <= g.used,
         NEW new, NEW i \in Slots(g.used) \cup {slot}, NEW j \in Slots(g.used) \cup {slot}, i # j
  PROVE  Score(WriteScores(g, slot, new), i, j)
           = IF i = slot THEN new[j] ELSE IF j = slot THEN new[i] ELSE Score(g, i, j)
  <1> DEFINE w == WriteScores(g, slot, new)
  <1>1. /\ g.used \in 0 .. n /\ g.capacity = n /\ DOMAIN g.scores = Slots(Pairs(n))
        /\ w.capacity = n /\ w.scores = Written(g, slot, new)
    BY DEF Graphs, WriteScores
  <1>2. i \in Slots(n) /\ j \in Slots(n) /\ Slots(g.used) \subseteq Slots(n)
    BY <1>1 DEF Slots
  <1>3. \A a, b \in Slots(n) : a # b => PairIndex(n, a, b) \in Slots(Pairs(n))
    BY PlaceInArray
  <1>4. \A a, b \in Slots(n) : a # b => PairIndex(n, a, b) = PairIndex(n, b, a)
    <2>1. ASSUME NEW a \in Slots(n), NEW b \in Slots(n), a # b
          PROVE  a < b \/ b < a
      BY <2>1 DEF Slots
    <2>2. QED
      BY <2>1, IndexDoubled
  <1>5. Score(w, i, j) = Written(g, slot, new)[PairIndex(n, i, j)]
        /\ Score(g, i, j) = g.scores[PairIndex(n, i, j)]
    BY <1>1 DEF Score
  <1>6. ASSUME NEW a \in Slots(g.used) \ {slot}
        PROVE  Written(g, slot, new)[PairIndex(n, a, slot)] = new[a]
    <2> DEFINE k == PairIndex(n, a, slot)
    <2>1. k \in DOMAIN g.scores
      BY <1>1, <1>2, <1>3
    <2>2. ASSUME NEW x \in RowOf(g, slot, k)
          PROVE  x = a
      <3>1. x \in Slots(n) /\ x # slot /\ PairIndex(n, x, slot) = PairIndex(n, a, slot)
        BY <1>1, <1>2 DEF RowOf
      <3>2. {x, slot} = {a, slot}
        BY <1>2, <3>1, PairsApart
      <3>3. QED
        BY <3>1, <3>2
    <2>3. a \in RowOf(g, slot, k)
      BY <1>1 DEF RowOf
    <2>4. RowOf(g, slot, k) # {} /\ (CHOOSE x \in RowOf(g, slot, k) : TRUE) = a
      BY <2>2, <2>3
    <2>5. QED
      BY <2>1, <2>4 DEF Written
  <1>7. CASE i = slot
    BY <1>2, <1>4, <1>5, <1>6, <1>7
  <1>8. CASE j = slot
    BY <1>2, <1>4, <1>5, <1>6, <1>8
  <1>9. CASE i # slot /\ j # slot
    <2> DEFINE k == PairIndex(n, i, j)
    <2>1. k \in DOMAIN g.scores
      BY <1>1, <1>2, <1>3
    <2>2. RowOf(g, slot, k) = {}
      <3> SUFFICES ASSUME NEW x \in RowOf(g, slot, k) PROVE FALSE
        OBVIOUS
      <3>1. x \in Slots(n) /\ x # slot /\ PairIndex(n, x, slot) = PairIndex(n, i, j)
        BY <1>1, <1>2 DEF RowOf
      <3>2. {x, slot} = {i, j}
        BY <1>2, <3>1, PairsApart
      <3>3. QED
        BY <1>9, <3>2
    <2>3. QED
      BY <1>5, <1>9, <2>1, <2>2 DEF Written
  <1>10. QED
    BY <1>7, <1>8, <1>9

-----------------------------------------------------------------------------
(* A template that retains a capture. *)

\* Ages come and go apart from everything else (fpc_retained_graph_increment_ages,
\* fpc_retained_graph_reset_age).
LEMMA AgesApart ==
  ASSUME NEW n \in Nat, NEW g \in Graphs(n), NEW i \in Slots(n)
  PROVE  /\ IncrementAges(g, AgeMax) \in Graphs(n) /\ ResetAge(g, i) \in Graphs(n)
         /\ IncrementAges(g, AgeMax).used = g.used /\ IncrementAges(g, AgeMax).scores = g.scores
         /\ ResetAge(g, i).used = g.used /\ ResetAge(g, i).scores = g.scores
  <1>1. \A k \in Slots(n) : g.ages[k] \in 0 .. AgeMax
    BY DEF Graphs
  <1>2. \A a \in 0 .. AgeMax : Lesser(a + 1, AgeMax) \in 0 .. AgeMax
    BY AgeMaxAssumption DEF Lesser
  <1>3. IncrementAges(g, AgeMax) \in Graphs(n) /\ IncrementAges(g, AgeMax).used = g.used /\ IncrementAges(g, AgeMax).scores = g.scores
    BY <1>1, <1>2 DEF Graphs, IncrementAges
  <1>4. ResetAge(g, i) \in Graphs(n) /\ ResetAge(g, i).used = g.used /\ ResetAge(g, i).scores = g.scores
    BY AgeMaxAssumption DEF Graphs, ResetAge
  <1>5. QED
    BY <1>3, <1>4

\* Two captures that are kept are a pair.
LEMMA PairTaken ==
  ASSUME NEW S, NEW a \in S, NEW b \in S, a # b
  PROVE  {a, b} \in PairsOf(S)
  <1> DEFINE ab == <<a, b>>
  <1>1. ab \in {q \in S \X S : q[1] # q[2]} /\ {a, b} = {ab[1], ab[2]}
    OBVIOUS
  <1> HIDE DEF ab
  <1>2. QED
    BY <1>1 DEF PairsOf

\* A scan that retains a capture in a free slot or in a slot in use keeps graph
\* and collection in step: no capture is kept twice, and each pair has the score
\* its captures were found to have (fpc_loaded_template_retain_capture).
LEMMA RetainKeepsArraysAgree ==
  ASSUME TypeOK, ArraysAgree, NEW best \in Used, NEW c \in Capture \ Kept, NEW row \in [Used -> Overlap],
         SelectCapture(Aged(best), row) \in Slots(Retention) \cap 0 .. graph.used,
         Retain(best, c, row)
  PROVE  ArraysAgree'
  <1> DEFINE g    == Aged(best)
             slot == SelectCapture(g, row)
             n    == Retention
  <1>1. n \in Nat /\ n >= 2
    BY SizesAssumption
  <1>2. graph \in Graphs(n) /\ Used \subseteq Slots(n) /\ graph.used \in 1 .. n
    <2>1. graph \in Graphs(n)
      BY SizesAssumption DEF TypeOK, Graphs
    <2>2. graph.used \in 1 .. n
      BY DEF TypeOK
    <2>3. QED
      BY <1>1, <2>1, <2>2 DEF Used, Slots
  <1>3. g \in Graphs(n) /\ g.used = graph.used /\ g.scores = graph.scores /\ g.capacity = n /\ graph.capacity = n
    <2>1. best \in Slots(n)
      BY <1>2
    <2>2. IncrementAges(graph, AgeMax) \in Graphs(n) /\ IncrementAges(graph, AgeMax).used = graph.used
          /\ IncrementAges(graph, AgeMax).scores = graph.scores
      BY <1>1, <1>2, <2>1, AgesApart
    <2>3. g \in Graphs(n) /\ g.used = graph.used /\ g.scores = graph.scores
      BY <1>1, <2>1, <2>2, AgesApart DEF Aged
    <2>4. QED
      BY <1>2, <2>3 DEF Graphs
  <1>4. slot \in Slots(n) /\ slot \in 0 .. graph.used
    OBVIOUS
  <1>5. /\ graph' = ResetAge(WriteScores(g, slot, row), slot)
        /\ collection' = [i \in Used \cup {slot} |-> IF i = slot THEN c ELSE collection[i]]
        /\ measured' = [p \in PairsOf(Range(collection')) |->
             IF c \in p THEN row[CHOOSE i \in Used : collection[i] \in p \ {c}] ELSE measured[p]]
    BY DEF Retain, TakeCapture, Used
  <1> HIDE DEF g, slot, n
  <1> DEFINE w == WriteScores(g, slot, row)
  <1>6. /\ w.used = IF slot = graph.used THEN graph.used + 1 ELSE graph.used
        /\ w.capacity = n
        /\ graph'.used = w.used /\ graph'.capacity = n /\ graph'.scores = w.scores
    <2>1. w.used = (IF slot = graph.used THEN graph.used + 1 ELSE graph.used) /\ w.capacity = n
      BY <1>3 DEF Graphs, WriteScores
    <2>2. ResetAge(w, slot).used = w.used /\ ResetAge(w, slot).capacity = w.capacity
          /\ ResetAge(w, slot).scores = w.scores
      BY <1>3 DEF Graphs, WriteScores, ResetAge
    <2>3. QED
      BY <1>5, <2>1, <2>2
  <1>7. Used' = Used \cup {slot}
    BY <1>2, <1>4, <1>6 DEF Used, Slots
  <1>8. DOMAIN collection = Used /\ IsInjective(collection)
        /\ \A i \in Used : collection[i] \in Kept /\ collection[i] # c
    BY DEF ArraysAgree, CountsAgree, Kept, Range
  <1>9. CountsAgree'
    <2>1. DOMAIN collection' = Used'
      BY <1>5, <1>7
    <2>2. ASSUME NEW a \in Used', NEW b \in Used', collection'[a] = collection'[b]
          PROVE  a = b
      BY <1>5, <1>7, <1>8, <2>2 DEF IsInjective
    <2>3. QED
      BY <2>1, <2>2 DEF CountsAgree, IsInjective
  <1>10. ASSUME NEW i \in Used', NEW j \in Used', i # j
         PROVE  Score(graph', i, j) = measured'[{collection'[i], collection'[j]}]
    <2> DEFINE p == {collection'[i], collection'[j]}
    <2>1. Score(graph', i, j) = IF i = slot THEN row[j] ELSE IF j = slot THEN row[i] ELSE Score(graph, i, j)
      <3>1. Score(graph', i, j) = Score(w, i, j) /\ Score(g, i, j) = Score(graph, i, j)
        BY <1>3, <1>6 DEF Score
      <3>2. i \in Slots(g.used) \cup {slot} /\ j \in Slots(g.used) \cup {slot} /\ slot <= g.used
        BY <1>3, <1>4, <1>7, <1>10 DEF Used
      <3> HIDE DEF w
      <3>3. Score(WriteScores(g, slot, row), i, j)
              = IF i = slot THEN row[j] ELSE IF j = slot THEN row[i] ELSE Score(g, i, j)
        BY <1>1, <1>3, <1>4, <1>10, <3>2, WritesItsPairs
      <3>4. QED
        BY <3>1, <3>3 DEF w
    <2>2. collection'[i] # collection'[j]
      BY <1>9, <1>10 DEF CountsAgree, IsInjective
    <2>3. p \in PairsOf(Range(collection'))
      <3>1. collection'[i] \in Range(collection') /\ collection'[j] \in Range(collection')
        BY <1>9, <1>10 DEF CountsAgree, Range
      <3>2. QED
        BY <2>2, <3>1, PairTaken
    <2>4. measured'[p] = IF c \in p THEN row[CHOOSE k \in Used : collection[k] \in p \ {c}] ELSE measured[p]
      BY <1>5, <2>3
    <2>5. ASSUME NEW k \in Used, k # slot, p = {c, collection[k]}
          PROVE  measured'[p] = row[k]
      <3>1. p \ {c} = {collection[k]} /\ c \in p
        BY <1>8, <2>5
      <3>2. \A x \in Used : collection[x] \in p \ {c} => x = k
        BY <1>8, <3>1 DEF IsInjective
      <3>3. (CHOOSE x \in Used : collection[x] \in p \ {c}) = k
        BY <3>1, <3>2
      <3>4. QED
        BY <2>4, <3>1, <3>3
    <2>6. CASE i = slot
      <3>1. j \in Used /\ j # slot /\ p = {c, collection[j]}
        BY <1>5, <1>7, <1>10, <2>6
      <3>2. QED
        BY <2>1, <2>5, <2>6, <3>1
    <2>7. CASE j = slot
      <3>1. i \in Used /\ i # slot /\ p = {c, collection[i]}
        BY <1>5, <1>7, <1>10, <2>7
      <3>2. QED
        BY <2>1, <2>5, <2>7, <3>1
    <2>8. CASE i # slot /\ j # slot
      <3>1. i \in Used /\ j \in Used /\ p = {collection[i], collection[j]} /\ c \notin p
        BY <1>5, <1>7, <1>8, <1>10, <2>8
      <3>2. Score(graph, i, j) = measured[p]
        BY <1>10, <3>1 DEF ArraysAgree, ScoresAgree
      <3>3. QED
        BY <2>1, <2>4, <2>8, <3>1, <3>2
    <2>9. QED
      BY <2>6, <2>7, <2>8
  <1>11. QED
    BY <1>9, <1>10 DEF ArraysAgree, ScoresAgree

-----------------------------------------------------------------------------
(* The walk of fpc_enrollment_select_capture. *)

\* The redundancy that the walk of fpc_enrollment_select_capture compares: of the
\* capture in a slot with the new one in place, and of the new one.
WithNew(g, new, i) == Square(new[i]) + Cost(g, i)
OfNew(g, new)      == SumFunction([i \in Slots(g.used) |-> Square(new[i])])

\* One place of the walk.
WalkStep(g, new, from, p, last) ==
  IF p <= from THEN [best |-> OfNew(g, new), slot |-> -1, aged |-> FALSE]
  ELSE LET i    == g.order[p - 1]
           more == last.best < WithNew(g, new, i)
           aged == AgedOut(g, i)
       IN  IF IF last.aged THEN more /\ aged ELSE more \/ aged
           THEN [best |-> WithNew(g, new, i), slot |-> i, aged |-> last.aged \/ aged]
           ELSE last

\* What a walk over a graph for n captures holds.
Holds(g, new, n) ==
  [best : {WithNew(g, new, i) : i \in Slots(n)} \cup {OfNew(g, new)},
   slot : Slots(n) \cup {-1}, aged : BOOLEAN]

\* A graph whose order names slots, and what its walk holds place by place.
Ordered(g, n) == n \in Nat /\ g.capacity = n /\ g.order \in [Slots(n) -> Slots(n)]

Walks(f, g, new, from, n) ==
  /\ f \in [0 .. n -> Holds(g, new, n)]
  /\ \A p \in 0 .. n : f[p] = WalkStep(g, new, from, p, f[p - 1])
  /\ Walk(g, new, from) = f[n]

\* The walk takes the places of the order one after the other.
LEMMA WalkSteps ==
  ASSUME NEW n, NEW g, Ordered(g, n), NEW new, NEW from \in Nat
  PROVE  \E f : Walks(f, g, new, from, n)
  <1> DEFINE S == 0 .. n
             V == Holds(g, new, n)
             v == [best |-> OfNew(g, new), slot |-> -1, aged |-> FALSE]
             step == [a \in S \X V |-> WalkStep(g, new, from, a[1], a[2])]
  <1>0. n \in Nat /\ g.capacity = n /\ g.order \in [Slots(n) -> Slots(n)]
    BY DEF Ordered
  <1>1. v \in V
    BY DEF Holds
  <1>2. ASSUME NEW p \in S, NEW last \in V
        PROVE  WalkStep(g, new, from, p, last) \in V
    <2>1. CASE p <= from
      BY <1>1, <2>1 DEF WalkStep
    <2>2. CASE ~ (p <= from)
      <3> DEFINE i == g.order[p - 1]
                 x == [best |-> WithNew(g, new, i), slot |-> i, aged |-> last.aged \/ AgedOut(g, i)]
      <3>1. i \in Slots(n)
        BY <1>0, <2>2 DEF Slots
      <3>2. last.aged \in BOOLEAN /\ AgedOut(g, i) \in BOOLEAN
        BY DEF Holds, AgedOut
      <3>3. (last.aged \/ AgedOut(g, i)) \in BOOLEAN
        BY <3>2
      <3>4. x \in V
        <4> HIDE DEF i
        <4>1. QED
          BY <3>1, <3>3 DEF Holds
      <3>5. WalkStep(g, new, from, p, last) = x \/ WalkStep(g, new, from, p, last) = last
        BY <2>2 DEF WalkStep
      <3> HIDE DEF x, V
      <3>6. QED
        BY <3>4, <3>5
    <2>3. QED
      BY <2>1, <2>2
  <1>3. step \in [S \X V -> V]
    <2> HIDE DEF V, S
    <2>1. QED
      BY <1>2
  <1>4. PICK f : IsWalk(f, n, V, v, step)
    <2> HIDE DEF step, V, v
    <2>1. Stepping(n, V, v, step)
      BY <1>0, <1>1, <1>3 DEF Stepping
    <2>2. QED
      BY <2>1, WalkExists
  <1>5. ASSUME NEW p \in S
        PROVE  f[p] = WalkStep(g, new, from, p, f[p - 1])
    <2> DEFINE last == IF p = 0 THEN v ELSE f[p - 1]
    <2>1. last \in V
      <3>1. p # 0 => p - 1 \in S
        BY <1>0
      <3>2. f \in [S -> V]
        BY <1>4 DEF IsWalk
      <3> HIDE DEF S, V, v
      <3>3. QED
        BY <1>1, <3>1, <3>2
    <2>2. f[p] = WalkStep(g, new, from, p, last)
      <3> HIDE DEF last, V, v, S
      <3>1. step[<<p, last>>] = WalkStep(g, new, from, p, last)
        BY <2>1
      <3> HIDE DEF step
      <3>2. QED
        BY <1>4, <3>1 DEF last, IsWalk, S
    <2>3. p = 0 => WalkStep(g, new, from, p, last) = WalkStep(g, new, from, p, f[p - 1])
      BY DEF WalkStep
    <2> HIDE DEF v
    <2>4. QED
      BY <2>2, <2>3
  <1>6. f \in [S -> V]
    BY <1>4 DEF IsWalk
  <1>7. Walk(g, new, from) = f[n]
    <2> DEFINE Copies(w) == w = [p \in 0 .. g.capacity |-> WalkStep(g, new, from, p, w[p - 1])]
    <2>1. Walk(g, new, from) = (CHOOSE w : Copies(w))[g.capacity]
      BY DEF Walk, WalkStep, WithNew, OfNew
    <2>2. Copies(f)
      <3> HIDE DEF V
      <3>1. QED
        BY <1>0, <1>5, <1>6
    <2>3. ASSUME NEW w, Copies(w)
          PROVE  w[n] = f[n]
      <3>1. \A p \in S : w[p] = WalkStep(g, new, from, p, w[p - 1])
        BY <1>0, <2>3
      <3>2. WalkStep(g, new, from, 0, w[0 - 1]) = WalkStep(g, new, from, 0, f[0 - 1])
        BY DEF WalkStep
      <3> DEFINE P == {p \in S : w[p] = f[p]}
      <3>3. 0 \in P
        BY <1>0, <1>5, <3>1, <3>2
      <3>4. ASSUME NEW p \in P, 0 <= p, p < n
            PROVE  p + 1 \in P
        <4>1. p + 1 \in S /\ (p + 1) - 1 = p /\ w[p] = f[p]
          BY <1>0, <3>4
        <4> HIDE DEF S
        <4>2. w[p + 1] = WalkStep(g, new, from, p + 1, w[p]) /\ f[p + 1] = WalkStep(g, new, from, p + 1, f[p])
          BY <1>5, <3>1, <4>1
        <4>3. QED
          BY <4>1, <4>2
      <3>5. 0 .. n \subseteq P
        <4> HIDE DEF P
        <4>1. QED
          BY <1>0, <3>3, <3>4, IntervalInduction
      <3>6. QED
        BY <1>0, <3>5
    <2> HIDE DEF Copies
    <2>4. QED
      BY <1>0, <2>1, <2>2, <2>3
  <1>8. Walks(f, g, new, from, n)
    BY <1>5, <1>6, <1>7 DEF Walks
  <1>9. QED
    BY <1>8

\* The slots that a walk from place `from` has seen at place p, those of them
\* whose capture is aged, and those whose capture is more redundant than the new one.
Seen(g, from, p)     == {g.order[q] : q \in from .. p - 1}
AgedIn(g, S)         == {i \in S : AgedOut(g, i)}
OverIn(g, new, S)    == {i \in S : OfNew(g, new) < WithNew(g, new, i)}
Tops(g, new, T, i)   == i \in T /\ \A k \in T : WithNew(g, new, k) <= WithNew(g, new, i)

\* What w holds once the slots in S are seen: the most redundant aged capture,
\* or else the most redundant one that beats the new one, or else none.
Best(g, new, S, w) ==
  /\ AgedIn(g, S) # {} =>
       w.aged /\ Tops(g, new, AgedIn(g, S), w.slot) /\ w.best = WithNew(g, new, w.slot)
  /\ AgedIn(g, S) = {} =>
       /\ ~ w.aged
       /\ OverIn(g, new, S) # {} => Tops(g, new, OverIn(g, new, S), w.slot) /\ w.best = WithNew(g, new, w.slot)
       /\ OverIn(g, new, S) = {} => w.slot = -1 /\ w.best = OfNew(g, new)

\* The redundancies are numbers.
Measured(g, new, n) == OfNew(g, new) \in Int /\ \A i \in Slots(n) : WithNew(g, new, i) \in Int

\* One more slot (the body of the loop of fpc_enrollment_select_capture).
LEMMA BestStep ==
  ASSUME NEW n \in Nat, NEW g, NEW new, Measured(g, new, n), NEW S \in SUBSET Slots(n), NEW i \in Slots(n),
         NEW last \in Holds(g, new, n), Best(g, new, S, last),
         NEW from \in Nat, NEW p \in Nat, from < p, g.order[p - 1] = i
  PROVE  Best(g, new, S \cup {i}, WalkStep(g, new, from, p, last))
  <1> DEFINE w    == WalkStep(g, new, from, p, last)
             more == last.best < WithNew(g, new, i)
             S1   == S \cup {i}
             x    == [best |-> WithNew(g, new, i), slot |-> i, aged |-> last.aged \/ AgedOut(g, i)]
  <1>1. last.aged \in BOOLEAN /\ last.best \in Int
    BY DEF Holds, Measured
  <1>2. w = IF IF last.aged THEN more /\ AgedOut(g, i) ELSE more \/ AgedOut(g, i) THEN x ELSE last
    BY DEF WalkStep
  <1>3. \A k \in S1 : WithNew(g, new, k) \in Int
    BY DEF Measured
  <1>4. OfNew(g, new) \in Int
    BY DEF Measured
  <1>5. x.best = WithNew(g, new, i) /\ x.slot = i /\ (x.aged <=> last.aged \/ AgedOut(g, i))
    OBVIOUS
  <1> DEFINE A  == AgedIn(g, S)
             A1 == AgedIn(g, S1)
             O  == OverIn(g, new, S)
             O1 == OverIn(g, new, S1)
  <1>6. /\ A1 = IF AgedOut(g, i) THEN A \cup {i} ELSE A
        /\ O1 = IF OfNew(g, new) < WithNew(g, new, i) THEN O \cup {i} ELSE O
    BY DEF AgedIn, OverIn
  <1>7. A \subseteq S /\ O \subseteq S
    BY DEF AgedIn, OverIn
  <1>8. /\ A # {} => last.aged /\ Tops(g, new, A, last.slot) /\ last.best = WithNew(g, new, last.slot)
        /\ A = {} =>
             /\ ~ last.aged
             /\ O # {} => Tops(g, new, O, last.slot) /\ last.best = WithNew(g, new, last.slot)
             /\ O = {} => last.slot = -1 /\ last.best = OfNew(g, new)
    BY DEF Best
  <1>9. ASSUME NEW T \in SUBSET S, NEW k, Tops(g, new, T, k), WithNew(g, new, k) < WithNew(g, new, i)
        PROVE  Tops(g, new, T \cup {i}, i)
    <2>1. k \in S /\ \A j \in T : WithNew(g, new, j) <= WithNew(g, new, k)
      BY <1>9 DEF Tops
    <2>2. \A j \in T : WithNew(g, new, j) \in Int
      BY <1>3
    <2>3. WithNew(g, new, k) \in Int /\ WithNew(g, new, i) \in Int
      BY <1>3, <2>1
    <2>4. QED
      BY <1>9, <2>1, <2>2, <2>3 DEF Tops
  <1>10. ASSUME NEW T \in SUBSET S, NEW k, Tops(g, new, T, k), ~ (WithNew(g, new, k) < WithNew(g, new, i))
         PROVE  Tops(g, new, T \cup {i}, k)
    <2>1. k \in S
      BY <1>10 DEF Tops
    <2>2. WithNew(g, new, k) \in Int /\ WithNew(g, new, i) \in Int
      BY <1>3, <2>1
    <2>3. QED
      BY <1>10, <2>2 DEF Tops
  <1>11. Tops(g, new, {i}, i)
    BY <1>3 DEF Tops
  <1> HIDE DEF A, A1, O, O1, w, x, S1
  <1>12. CASE AgedOut(g, i) /\ A # {}
    <2>1. A1 # {} /\ A1 = A \cup {i} /\ last.aged
      BY <1>6, <1>8, <1>12
    <2>2. CASE more
      <3>1. w = x
        BY <1>2, <1>12, <2>1, <2>2
      <3>2. Tops(g, new, A1, i)
        BY <1>7, <1>8, <1>9, <1>12, <2>1, <2>2
      <3>3. QED
        BY <1>5, <2>1, <3>1, <3>2 DEF Best, A1, S1, w
    <2>3. CASE ~ more
      <3>1. w = last
        BY <1>2, <2>1, <2>3
      <3>2. Tops(g, new, A1, last.slot)
        BY <1>7, <1>8, <1>10, <1>12, <2>1, <2>3
      <3>3. QED
        BY <1>8, <1>12, <2>1, <3>1, <3>2 DEF Best, A1, S1, w
    <2>4. QED
      BY <2>2, <2>3
  <1>13. CASE AgedOut(g, i) /\ A = {}
    <2>1. A1 = {i} /\ ~ last.aged
      BY <1>6, <1>8, <1>13
    <2>2. w = x
      BY <1>2, <1>13, <2>1
    <2>3. QED
      BY <1>5, <1>11, <1>13, <2>1, <2>2 DEF Best, A1, S1, w
  <1>14. CASE ~ AgedOut(g, i) /\ A # {}
    <2>1. A1 = A /\ last.aged
      BY <1>6, <1>8, <1>14
    <2>2. w = last
      BY <1>2, <1>14, <2>1
    <2>3. QED
      BY <1>8, <1>14, <2>1, <2>2 DEF Best, A1, S1, w
  <1>15. CASE ~ AgedOut(g, i) /\ A = {}
    <2>1. A1 = {} /\ ~ last.aged
      BY <1>6, <1>8, <1>15
    <2>2. w = IF more THEN x ELSE last
      BY <1>2, <1>15, <2>1
    <2>3. ~ x.aged
      BY <1>5, <1>15, <2>1
    <2>4. CASE O = {}
      <3>1. last.best = OfNew(g, new) /\ last.slot = -1
        BY <1>8, <1>15, <2>4
      <3>2. O1 = IF more THEN {i} ELSE {}
        BY <1>6, <2>4, <3>1
      <3>3. QED
        BY <1>5, <1>11, <2>1, <2>2, <2>3, <3>1, <3>2 DEF Best, A1, O1, S1, w
    <2>5. CASE O # {}
      <3>1. Tops(g, new, O, last.slot) /\ last.best = WithNew(g, new, last.slot)
        BY <1>8, <1>15, <2>5
      <3>2. last.slot \in O /\ last.slot \in S
        BY <1>7, <3>1 DEF Tops
      <3>3. OfNew(g, new) < WithNew(g, new, last.slot)
        BY <3>2 DEF O, OverIn
      <3>4. WithNew(g, new, last.slot) \in Int /\ WithNew(g, new, i) \in Int
        BY <1>3, <3>2 DEF S1
      <3>5. CASE more
        <4>1. OfNew(g, new) < WithNew(g, new, i)
          BY <1>4, <3>1, <3>3, <3>4, <3>5
        <4>2. O1 = O \cup {i}
          BY <1>6, <4>1
        <4>3. Tops(g, new, O1, i)
          BY <1>7, <1>9, <3>1, <3>5, <4>2
        <4>4. QED
          BY <1>5, <2>1, <2>2, <2>3, <3>5, <4>2, <4>3 DEF Best, A1, O1, S1, w
      <3>6. CASE ~ more
        <4>1. O1 = O \/ O1 = O \cup {i}
          BY <1>6
        <4>2. Tops(g, new, O1, last.slot)
          BY <1>7, <1>10, <3>1, <3>6, <4>1
        <4>3. O1 # {}
          BY <3>2, <4>1
        <4>4. QED
          BY <2>1, <2>2, <3>1, <3>6, <4>2, <4>3 DEF Best, A1, O1, S1, w
      <3>7. QED
        BY <3>5, <3>6
    <2>6. QED
      BY <2>4, <2>5
  <1>16. QED
    BY <1>12, <1>13, <1>14, <1>15

\* The walk finds the best of the slots from place `from` on.
LEMMA WalkFinds ==
  ASSUME NEW n, NEW g, Ordered(g, n), NEW new, Measured(g, new, n), NEW from \in Nat
  PROVE  Best(g, new, Seen(g, from, n), Walk(g, new, from))
  <1>0. n \in Nat /\ g.order \in [Slots(n) -> Slots(n)]
    BY DEF Ordered
  <1>1. PICK f : Walks(f, g, new, from, n)
    BY WalkSteps
  <1> DEFINE P == {p \in 0 .. n : Best(g, new, Seen(g, from, p), f[p])}
  <1>2. ASSUME NEW p \in 0 .. n, p <= from
        PROVE  p \in P
    <2>1. Seen(g, from, p) = {}
      BY <1>0, <1>2 DEF Seen
    <2>2. f[p] = [best |-> OfNew(g, new), slot |-> -1, aged |-> FALSE]
      BY <1>1, <1>2 DEF WalkStep, Walks
    <2>3. QED
      BY <2>1, <2>2 DEF Best, AgedIn, OverIn
  <1>3. 0 \in P
    BY <1>0, <1>2
  <1>4. ASSUME NEW q \in P, 0 <= q, q < n
        PROVE  q + 1 \in P
    <2> DEFINE p == q + 1
    <2>1. p \in 0 .. n /\ p \in Nat /\ p - 1 = q /\ q \in 0 .. n
      BY <1>0, <1>4
    <2>2. CASE p <= from
      BY <1>2, <2>1, <2>2
    <2>3. CASE from < p
      <3>1. g.order[q] \in Slots(n)
        BY <1>0, <1>4 DEF Slots
      <3>2. Seen(g, from, q) \in SUBSET Slots(n)
        <4>1. \A k \in from .. q - 1 : k \in Slots(n)
          BY <1>0, <2>1, <2>3 DEF Slots
        <4>2. QED
          BY <1>0, <4>1 DEF Seen
      <3>3. Seen(g, from, p) = Seen(g, from, q) \cup {g.order[q]}
        <4>1. from .. p - 1 = (from .. q - 1) \cup {q}
          BY <2>1, <2>3
        <4>2. QED
          BY <4>1 DEF Seen
      <3>4. f[q] \in Holds(g, new, n) /\ f[p] = WalkStep(g, new, from, p, f[q])
        BY <1>1, <2>1 DEF Walks
      <3>5. Best(g, new, Seen(g, from, q), f[q])
        BY <1>4
      <3>6. g.order[p - 1] = g.order[q]
        BY <2>1
      <3> HIDE DEF p
      <3>7. Best(g, new, Seen(g, from, q) \cup {g.order[q]}, WalkStep(g, new, from, p, f[q]))
        BY <1>0, <2>1, <2>3, <3>1, <3>2, <3>4, <3>5, <3>6, BestStep
      <3>8. Best(g, new, Seen(g, from, p), f[p])
        BY <3>3, <3>4, <3>7
      <3>9. QED
        BY <2>1, <3>8 DEF p
    <2>4. QED
      BY <2>1, <2>2, <2>3
  <1>5. 0 .. n \subseteq P
    <2> HIDE DEF P
    <2>1. QED
      BY <1>0, <1>3, <1>4, IntervalInduction
  <1>6. QED
    BY <1>0, <1>1, <1>5 DEF Walks

-----------------------------------------------------------------------------
(* Costs. *)

\* A score of a graph is a natural number, and so is its square.
LEMMA ScoreIsNumber ==
  ASSUME NEW n \in Nat, n >= 2, NEW g \in Graphs(n), NEW i \in Slots(n), NEW j \in Slots(n), i # j
  PROVE  Score(g, i, j) \in Nat /\ Square(Score(g, i, j)) \in Int
  <1>1. PairIndex(n, i, j) \in Slots(Pairs(n))
    BY PlaceInArray
  <1>2. Score(g, i, j) \in Overlap \cup {0}
    BY <1>1 DEF Graphs, Score
  <1>3. Score(g, i, j) \in Nat
    <2>1. \A v \in Overlap \cup {0} : v \in Nat
      BY OverlapAssumption
    <2>2. QED
      BY <1>2, <2>1
  <1>4. QED
    BY <1>3 DEF Square

\* What a slot costs (the sums of fpc_enrollment_initial_order and
\* fpc_enrollment_select_capture) is a number.
LEMMA CostIsNumber ==
  ASSUME NEW n \in Nat, n >= 2, NEW g \in Graphs(n), NEW i \in Slots(n)
  PROVE  Cost(g, i) \in Int
  <1> DEFINE S == Slots(g.used) \ {i}
             f == [j \in S |-> Square(Score(g, i, j))]
  <1>1. g.used \in 0 .. n
    BY DEF Graphs
  <1>2. S \in SUBSET Slots(n)
    BY <1>1 DEF Slots
  <1>3. IsFiniteSet(S)
    BY <1>2, SlotsFinite
  <1>4. \A j \in S : f[j] \in Int
    BY <1>2, ScoreIsNumber
  <1>5. Cost(g, i) = SumFunctionOnSet(f, S)
    BY DEF Cost, SumFunction
  <1> HIDE DEF f, S
  <1>6. QED
    BY <1>3, <1>4, <1>5, SumSplits

-----------------------------------------------------------------------------
(* A template from its enrolment on. *)

\* The inductive invariant: beside ArraysAgree, the order names each slot once.
OrderAgrees == \A p, q \in Slots(Retention) : graph.order[p] = graph.order[q] => p = q

TInv == TypeOK /\ ArraysAgree /\ OrderAgrees

\* The graph of a template.
GraphOK(g) ==
  g \in [used : 1 .. Retention, capacity : {Retention}, protected : {Protection},
         threshold : {3 * Retention}, order : [Slots(Retention) -> Slots(Retention)],
         ages : [Slots(Retention) -> 0 .. AgeMax],
         scores : [Slots(Pairs(Retention)) -> Overlap \cup {0}]]

\* The graph of an enrolment has the score of each pair in its place
\* (fpc_native_enrollment_finish).
LEMMA CreateScores ==
  ASSUME NEW u \in 1 .. Retention, NEW row, \A l \in Slots(u) : \A e \in Slots(l) : row[l][e] \in Overlap
  PROVE  LET g == GraphCreate(row, u, Retention, Protection)
         IN  /\ GraphOK(g) /\ g.used = u
             /\ \A l \in Slots(u) : \A e \in Slots(l) :
                  Score(g, e, l) = row[l][e] /\ Score(g, l, e) = row[l][e]
  <1> DEFINE n == Retention
             g == GraphCreate(row, u, n, Protection)
  <1>1. n \in Nat /\ n >= 2 /\ u \in 0 .. n /\ Protection \in Nat /\ 2 * n \in 0 .. AgeMax
    BY SizesAssumption, AgeMaxAssumption
  <1>2. PICK scores \in [Slots(Pairs(n)) -> Overlap \cup {0}] :
           g = NewGraph(u, n, Protection, scores) /\ ScoredBy(scores, row, u, n)
    BY <1>1, CreatedGraph
  <1> HIDE DEF g
  <1>3. g.used = u /\ g.capacity = n /\ g.scores = scores
    BY <1>2 DEF NewGraph
  <1>4. \A i, j : Score(g, i, j) = scores[PairIndex(n, i, j)]
    BY <1>3 DEF Score
  <1>5. GraphOK(g)
    <2> HIDE DEF n
    <2>1. QED
      BY <1>1, <1>2 DEF GraphOK, NewGraph, n
  <1>6. \A l \in Slots(u) : \A e \in Slots(l) : Score(g, e, l) = row[l][e] /\ Score(g, l, e) = row[l][e]
    BY <1>2, <1>4 DEF ScoredBy
  <1>7. QED
    BY <1>3, <1>5, <1>6 DEF g

\* A graph of a template is one for as many captures as it retains.
LEMMA GraphIsGraph ==
  ASSUME NEW g, GraphOK(g)
  PROVE  /\ Retention \in Nat /\ Retention >= 2 /\ Protection \in Nat
         /\ g \in Graphs(Retention) /\ Ordered(g, Retention) /\ Costed(g, Retention)
         /\ g.capacity = Retention /\ g.protected = Protection /\ g.threshold = 3 * Retention
         /\ g.used \in 1 .. Retention /\ Slots(g.used) \subseteq Slots(Retention)
  <1>1. Retention \in Nat /\ Retention >= 2 /\ Protection \in Nat
    BY SizesAssumption
  <1>2. g \in Graphs(Retention) /\ Ordered(g, Retention)
    BY <1>1 DEF GraphOK, Graphs, Ordered
  <1>3. g.capacity = Retention /\ g.protected = Protection /\ g.threshold = 3 * Retention
         /\ g.used \in 1 .. Retention
    BY DEF GraphOK
  <1>4. \A i \in Slots(Retention) : Cost(g, i) \in Int
    BY <1>1, <1>2, CostIsNumber
  <1>5. Slots(g.used) \subseteq Slots(Retention)
    BY <1>1, <1>3 DEF Slots
  <1>6. Costed(g, Retention)
    BY <1>1, <1>3, <1>4 DEF Costed
  <1>7. QED
    BY <1>1, <1>2, <1>3, <1>5, <1>6

\* A template starts in the invariant (fpc_native_enrollment_finish).
LEMMA TInvInit == Init => TInv
  <1> SUFFICES ASSUME Init PROVE TInv
    OBVIOUS
  <1>1. PICK u \in MinEnrolled .. MaxEnrolled :
          /\ collection \in {f \in [Slots(u) -> Capture] : IsInjective(f)}
          /\ measured \in [PairsOf(Kept) -> Overlap]
          /\ graph = Enrolled(u, [l \in Slots(u) |-> [e \in Slots(l) |->
                                      measured[{collection[e], collection[l]}]]])
    BY DEF Init
  <1> DEFINE row == [l \in Slots(u) |-> [e \in Slots(l) |-> measured[{collection[e], collection[l]}]]]
             g   == GraphCreate(row, u, Retention, Protection)
  <1>2. u \in 1 .. Retention /\ u \in Nat
    BY SizesAssumption
  <1>3. ASSUME NEW i \in Slots(u), NEW j \in Slots(u), i # j
        PROVE  measured[{collection[i], collection[j]}] \in Overlap
    <2>1. collection[i] # collection[j] /\ collection[i] \in Kept /\ collection[j] \in Kept
      BY <1>1, <1>3 DEF Kept, IsInjective, Range
    <2>2. {collection[i], collection[j]} \in PairsOf(Kept)
      BY <2>1, PairTaken
    <2>3. QED
      BY <1>1, <2>2
  <1>4. ASSUME NEW l \in Slots(u), NEW e \in Slots(l)
        PROVE  e \in Slots(u) /\ e < l /\ row[l][e] = measured[{collection[e], collection[l]}] /\ row[l][e] \in Overlap
    <2>1. e \in Slots(u) /\ e < l /\ e # l
      BY <1>2 DEF Slots
    <2>2. row[l][e] = measured[{collection[e], collection[l]}]
      OBVIOUS
    <2>3. QED
      BY <1>3, <2>1, <2>2
  <1>5. /\ GraphOK(g) /\ g.used = u
        /\ \A l \in Slots(u) : \A e \in Slots(l) : Score(g, e, l) = row[l][e] /\ Score(g, l, e) = row[l][e]
    <2> HIDE DEF row
    <2>1. \A l \in Slots(u) : \A e \in Slots(l) : row[l][e] \in Overlap
      BY <1>4
    <2>2. QED
      BY <1>2, <2>1, CreateScores
  <1>6. graph = [g EXCEPT !.order = InitialOrder(g)]
    BY <1>1 DEF Enrolled
  <1> HIDE DEF g
  <1>7. /\ InitialOrder(g) \in [Slots(Retention) -> Slots(Retention)]
        /\ \A p, q \in Slots(Retention) : InitialOrder(g)[p] = InitialOrder(g)[q] => p = q
    BY <1>5, GraphIsGraph, OrderPermutes
  <1>8. GraphOK(graph) /\ graph.used = u /\ graph.order = InitialOrder(g)
        /\ graph.scores = g.scores /\ graph.capacity = g.capacity
    BY <1>5, <1>6, <1>7 DEF GraphOK
  <1>9. TypeOK
    <2>1. collection \in [Slots(u) -> Capture]
      BY <1>1
    <2>2. collection \in UNION {[Slots(n) -> Capture] : n \in 1 .. Retention}
      BY <1>2, <2>1
    <2>3. QED
      BY <1>1, <1>8, <2>2 DEF TypeOK, GraphOK
  <1>10. CountsAgree
    BY <1>1, <1>8 DEF CountsAgree, Used
  <1>11. ScoresAgree
    <2> SUFFICES ASSUME NEW i \in Used, NEW j \in Used, i # j
                 PROVE  Score(graph, i, j) = measured[{collection[i], collection[j]}]
      BY DEF ScoresAgree
    <2>1. Used = Slots(u) /\ Score(graph, i, j) = Score(g, i, j)
      BY <1>8 DEF Used, Score
    <2>2. i \in Slots(j) \/ j \in Slots(i)
      BY <1>2, <2>1 DEF Slots
    <2>3. {collection[i], collection[j]} = {collection[j], collection[i]}
      OBVIOUS
    <2> HIDE DEF row
    <2>4. CASE i \in Slots(j)
      BY <1>4, <1>5, <2>1, <2>4
    <2>5. CASE j \in Slots(i)
      BY <1>4, <1>5, <2>1, <2>3, <2>5
    <2>6. QED
      BY <2>2, <2>4, <2>5
  <1>12. OrderAgrees
    BY <1>7, <1>8 DEF OrderAgrees
  <1>13. QED
    BY <1>9, <1>10, <1>11, <1>12 DEF TInv, ArraysAgree

\* Ages come and go apart from everything else.
LEMMA AgedGraph ==
  ASSUME TypeOK, NEW best \in Used
  PROVE  LET g == Aged(best)
         IN  /\ GraphOK(graph) /\ GraphOK(g)
             /\ g.used = graph.used /\ g.scores = graph.scores /\ g.order = graph.order
             /\ \A i \in Used : g.ages[i] = IF i = best THEN 0
                                            ELSE IF graph.ages[i] < AgeMax THEN graph.ages[i] + 1 ELSE AgeMax
  <1> DEFINE n  == Retention
             g1 == IncrementAges(graph, AgeMax)
             g  == Aged(best)
             ages1 == [i \in Slots(n) |-> IF i < graph.used THEN Lesser(graph.ages[i] + 1, AgeMax) ELSE graph.ages[i]]
             ages2 == [ages1 EXCEPT ![best] = 0]
  <1>1. GraphOK(graph)
    BY DEF TypeOK, GraphOK
  <1>2. n \in Nat /\ AgeMax \in Nat /\ graph.used \in 1 .. n /\ graph.ages \in [Slots(n) -> 0 .. AgeMax]
        /\ best \in Slots(n) /\ Used \subseteq Slots(n) /\ best \in 0 .. graph.used
    <2>1. n \in Nat /\ AgeMax \in Nat
      BY AgeMaxAssumption, SizesAssumption
    <2>2. graph.used \in 1 .. n /\ graph.ages \in [Slots(n) -> 0 .. AgeMax]
      BY <1>1 DEF GraphOK
    <2>3. best \in 0 .. graph.used - 1
      BY DEF Used, Slots
    <2>4. Used \subseteq Slots(n)
      BY <2>1, <2>2 DEF Used, Slots
    <2>5. QED
      BY <2>1, <2>2, <2>3, <2>4
  <1>3. g1 = [graph EXCEPT !.ages = ages1]
    BY <1>2 DEF IncrementAges
  <1>4. \A a \in 0 .. AgeMax : /\ Lesser(a + 1, AgeMax) \in 0 .. AgeMax
                               /\ Lesser(a + 1, AgeMax) = IF a < AgeMax THEN a + 1 ELSE AgeMax
    BY <1>2 DEF Lesser
  <1>5. ages1 \in [Slots(n) -> 0 .. AgeMax]
    <2>1. \A i \in Slots(n) : graph.ages[i] \in 0 .. AgeMax
      BY <1>2
    <2>2. QED
      BY <1>4, <2>1
  <1>6. ages2 \in [Slots(n) -> 0 .. AgeMax]
    BY <1>2, <1>5
  <1>7. \A i \in Used : ages2[i] = IF i = best THEN 0
                                   ELSE IF graph.ages[i] < AgeMax THEN graph.ages[i] + 1 ELSE AgeMax
    <2>1. \A i \in Used : graph.ages[i] \in 0 .. AgeMax /\ i < graph.used /\ i \in Slots(n)
      BY <1>2 DEF Used, Slots
    <2>2. \A i \in Used : ages1[i] = IF graph.ages[i] < AgeMax THEN graph.ages[i] + 1 ELSE AgeMax
      BY <1>4, <2>1
    <2> HIDE DEF ages1
    <2>3. QED
      BY <1>5, <2>1, <2>2
  <1> HIDE DEF ages1, ages2
  <1>8. GraphOK(g1) /\ g1.used = graph.used /\ g1.scores = graph.scores /\ g1.order = graph.order /\ g1.ages = ages1
    BY <1>1, <1>3, <1>5 DEF GraphOK
  <1>9. best \in 0 .. g1.used /\ best \in DOMAIN g1.ages
    BY <1>2, <1>5, <1>8
  <1>10. g = [g1 EXCEPT !.ages[best] = 0]
    BY <1>9 DEF Aged, ResetAge
  <1>11. g = [g1 EXCEPT !.ages = ages2]
    <2>1. ages2 = [g1.ages EXCEPT ![best] = 0]
      BY <1>8 DEF ages2
    <2> HIDE DEF g1, g
    <2>2. QED
      BY <1>10, <2>1
  <1>12. GraphOK(g) /\ g.used = graph.used /\ g.scores = graph.scores /\ g.order = graph.order /\ g.ages = ages2
    <2> HIDE DEF g1, g
    <2>1. QED
      BY <1>6, <1>8, <1>11 DEF GraphOK
  <1> HIDE DEF g, g1
  <1>13. QED
    BY <1>1, <1>7, <1>12 DEF g

\* The redundancies that the walk compares are numbers in a full template.
LEMMA FullMeasured ==
  ASSUME NEW g, GraphOK(g), g.used = Retention, NEW row \in [Slots(Retention) -> Overlap]
  PROVE  Measured(g, row, Retention)
  <1> DEFINE n == Retention
             f == [i \in Slots(n) |-> Square(row[i])]
  <1>1. n \in Nat /\ n >= 2 /\ g \in Graphs(n)
    BY GraphIsGraph
  <1>2. \A i \in Slots(n) : Square(row[i]) \in Int
    <2>1. \A i \in Slots(n) : row[i] \in Nat
      BY OverlapAssumption
    <2>2. QED
      BY <2>1 DEF Square
  <1>3. \A i \in Slots(n) : WithNew(g, row, i) \in Int
    <2> SUFFICES ASSUME NEW i \in Slots(n) PROVE WithNew(g, row, i) \in Int
      OBVIOUS
    <2>1. Cost(g, i) \in Int
      BY <1>1, CostIsNumber
    <2>2. QED
      BY <1>2, <2>1 DEF WithNew
  <1>4. OfNew(g, row) = SumFunctionOnSet(f, Slots(n))
    BY DEF OfNew, SumFunction
  <1>5. IsFiniteSet(Slots(n)) /\ \A i \in Slots(n) : f[i] \in Int
    BY <1>1, <1>2, SlotsFinite
  <1> HIDE DEF f
  <1>6. OfNew(g, row) \in Int
    BY <1>4, <1>5, SumSplits
  <1>7. QED
    BY <1>3, <1>6 DEF Measured

\* The slot that fpc_enrollment_select_capture finds: the next free one, or the
\* best of those that are not protected, or none.
LEMMA SelectFinds ==
  ASSUME TInv, NEW best \in Used, NEW row \in [Used -> Overlap]
  PROVE  LET g    == Aged(best)
             slot == SelectCapture(g, row)
         IN  /\ graph.used < Retention => slot = graph.used
             /\ graph.used = Retention =>
                  /\ Measured(g, row, Retention)
                  /\ slot = Walk(g, row, Protection).slot
                  /\ Best(g, row, Seen(g, Protection, Retention), Walk(g, row, Protection))
                  /\ slot \in Seen(graph, Protection, Retention) \cup {-1}
             /\ slot \in Slots(Retention) \cup {-1}
             /\ slot >= 0 => slot \in Slots(Retention) \cap 0 .. graph.used
  <1> DEFINE n == Retention
             g == Aged(best)
             slot == SelectCapture(g, row)
             S == Seen(g, Protection, n)
             w == Walk(g, row, Protection)
  <1>1. GraphOK(graph) /\ GraphOK(g) /\ g.used = graph.used /\ g.order = graph.order
    BY AgedGraph DEF TInv
  <1>2. /\ n \in Nat /\ n >= 2 /\ Protection \in Nat /\ g.capacity = n /\ g.protected = Protection
        /\ g.used \in 1 .. n /\ Ordered(g, n)
    BY <1>1, GraphIsGraph
  <1> HIDE DEF g
  <1>3. CASE graph.used < n
    <2>1. slot = graph.used
      BY <1>1, <1>2, <1>3 DEF SelectCapture
    <2>2. slot \in Slots(n) /\ slot \in 0 .. graph.used
      BY <1>1, <1>2, <1>3, <2>1 DEF Slots
    <2>3. graph.used # n
      BY <1>1, <1>2, <1>3
    <2> HIDE DEF slot, n
    <2>4. QED
      BY <1>3, <2>1, <2>2, <2>3 DEF g, n, slot
  <1>4. CASE graph.used = n
    <2>1. slot = w.slot
      BY <1>1, <1>2, <1>4 DEF SelectCapture
    <2>2. row \in [Slots(n) -> Overlap]
      BY <1>4 DEF Used
    <2>3. Measured(g, row, n)
      BY <1>1, <1>4, <2>2, FullMeasured
    <2>4. Best(g, row, S, w)
      BY <1>2, <2>3, WalkFinds
    <2>5. w.slot \in S \cup {-1}
      BY <2>4 DEF Best, Tops, AgedIn, OverIn
    <2>6. S = Seen(graph, Protection, n)
      BY <1>1 DEF Seen
    <2>7. S \subseteq Slots(n)
      <3>1. \A k \in Protection .. n - 1 : k \in Slots(n) /\ g.order[k] \in Slots(n)
        BY <1>2 DEF Slots, Ordered
      <3>2. QED
        BY <3>1 DEF Seen
    <2>8. slot \in Slots(n) \cup {-1} /\ (slot >= 0 => slot \in Slots(n))
      BY <2>1, <2>5, <2>7
    <2>9. \A s \in Slots(n) : s \in 0 .. graph.used
      BY <1>2, <1>4 DEF Slots
    <2>10. ~ (graph.used < n)
      BY <1>2, <1>4
    <2> HIDE DEF slot, n, S, w
    <2>11. QED
      BY <2>1, <2>3, <2>4, <2>5, <2>6, <2>8, <2>9, <2>10 DEF g, n, slot, S, w
  <1>5. graph.used < n \/ graph.used = n
    BY <1>1, <1>2
  <1>6. QED
    BY <1>3, <1>4, <1>5

\* What a retained capture does to the graph (fpc_loaded_template_retain_capture).
LEMMA RetainedGraphOK ==
  ASSUME NEW g, GraphOK(g), NEW slot \in Slots(Retention), slot \in 0 .. g.used,
         NEW row \in [Slots(g.used) -> Overlap]
  PROVE  LET h == ResetAge(WriteScores(g, slot, row), slot)
         IN  /\ GraphOK(h) /\ h.order = g.order
             /\ h.used = IF slot = g.used THEN g.used + 1 ELSE g.used
             /\ \A i \in Slots(Retention) : h.ages[i] = IF i = slot THEN 0 ELSE g.ages[i]
  <1> DEFINE n == Retention
             w == WriteScores(g, slot, row)
             h == ResetAge(w, slot)
             u == IF slot = g.used THEN g.used + 1 ELSE g.used
             written == Written(g, slot, row)
             ages == [g.ages EXCEPT ![slot] = 0]
  <1>1. n \in Nat /\ AgeMax \in Nat /\ g.used \in 1 .. n /\ u \in 1 .. n /\ slot \in 0 .. u
    <2>1. n \in Nat /\ AgeMax \in Nat
      BY AgeMaxAssumption, SizesAssumption
    <2>2. g.used \in 1 .. n
      BY DEF GraphOK
    <2>3. slot \in 0 .. n - 1
      BY DEF Slots
    <2>4. QED
      BY <2>1, <2>2, <2>3
  <1>2. written \in [Slots(Pairs(n)) -> Overlap \cup {0}]
    <2>1. DOMAIN g.scores = Slots(Pairs(n)) /\ \A k \in Slots(Pairs(n)) : g.scores[k] \in Overlap \cup {0}
      BY DEF GraphOK
    <2>2. ASSUME NEW k, RowOf(g, slot, k) # {}
          PROVE  row[CHOOSE i \in RowOf(g, slot, k) : TRUE] \in Overlap
      <3>1. (CHOOSE i \in RowOf(g, slot, k) : TRUE) \in RowOf(g, slot, k)
        BY <2>2
      <3>2. RowOf(g, slot, k) \subseteq Slots(g.used)
        BY DEF RowOf
      <3>3. QED
        BY <3>1, <3>2
    <2>3. QED
      BY <2>1, <2>2 DEF Written
  <1>3. w = [g EXCEPT !.scores = written, !.used = u]
    BY DEF WriteScores
  <1>4. ages \in [Slots(n) -> 0 .. AgeMax] /\ \A i \in Slots(n) : ages[i] = IF i = slot THEN 0 ELSE g.ages[i]
    BY <1>1 DEF GraphOK
  <1> HIDE DEF written, u, ages
  <1>5. GraphOK(w) /\ w.used = u /\ w.order = g.order /\ w.ages = g.ages
    BY <1>1, <1>2, <1>3 DEF GraphOK
  <1>6. slot \in 0 .. w.used /\ slot \in DOMAIN w.ages
    BY <1>1, <1>5 DEF GraphOK
  <1>7. h = [w EXCEPT !.ages[slot] = 0]
    BY <1>6 DEF ResetAge
  <1>8. h = [w EXCEPT !.ages = ages]
    <2>1. ages = [w.ages EXCEPT ![slot] = 0]
      BY <1>5 DEF ages
    <2> HIDE DEF h, w
    <2>2. QED
      BY <1>7, <2>1
  <1> HIDE DEF h, w
  <1>9. GraphOK(h) /\ h.used = u /\ h.order = g.order /\ h.ages = ages
    BY <1>4, <1>5, <1>8 DEF GraphOK
  <1>10. QED
    BY <1>4, <1>9 DEF h, w, u

\* The arrays after a verified scan that leaves no capture behind.
LEMMA AgeOnlyKeeps ==
  ASSUME TInv, NEW best \in Used, AgeOnly(best)
  PROVE  TInv' /\ Used' = Used /\ collection' = collection /\ SafeSlots' = SafeSlots
  <1>1. GraphOK(graph') /\ graph'.used = graph.used /\ graph'.scores = graph.scores /\ graph'.order = graph.order
        /\ collection' = collection /\ measured' = measured /\ GraphOK(graph)
    BY AgedGraph DEF AgeOnly, TInv
  <1>2. graph'.capacity = graph.capacity
    BY <1>1 DEF GraphOK
  <1>3. Used' = Used /\ Kept' = Kept /\ SafeSlots' = SafeSlots
    BY <1>1 DEF Used, Kept, SafeSlots
  <1>4. TypeOK'
    BY <1>1, <1>3 DEF TInv, TypeOK, GraphOK
  <1>5. ArraysAgree'
    BY <1>1, <1>2, <1>3 DEF TInv, ArraysAgree, CountsAgree, ScoresAgree, Score
  <1>6. OrderAgrees'
    BY <1>1 DEF TInv, OrderAgrees
  <1>7. QED
    BY <1>1, <1>3, <1>4, <1>5, <1>6 DEF TInv

\* The captures that the first places of the order name are safe from a walk
\* over the others.
LEMMA SafeApart ==
  ASSUME TInv, NEW s \in Seen(graph, Protection, Retention)
  PROVE  s \notin SafeSlots
  <1>1. Retention \in Nat /\ Protection \in Nat
    BY SizesAssumption
  <1>2. PICK p \in Protection .. Retention - 1 : s = graph.order[p]
    BY DEF Seen
  <1>3. p \in Slots(Retention) /\ p >= Protection
    BY <1>1, <1>2 DEF Slots
  <1>4. ASSUME NEW q \in Slots(Lesser(Protection, Retention))
        PROVE  q \in Slots(Retention) /\ q # p
    BY <1>1, <1>3 DEF Slots, Lesser
  <1>5. QED
    BY <1>2, <1>3, <1>4 DEF TInv, OrderAgrees, SafeSlots

\* The arrays after a scan that leaves its capture behind.
LEMMA RetainKeeps ==
  ASSUME TInv, NEW best \in Used, NEW c \in Capture \ Kept, NEW row \in [Used -> Overlap],
         Retain(best, c, row)
  PROVE  LET slot == SelectCapture(Aged(best), row)
         IN  /\ TInv'
             /\ slot \in Slots(Retention) /\ slot \in 0 .. graph.used
             /\ slot \in Used => slot \in Seen(graph, Protection, Retention) /\ graph.used = Retention
             /\ Used' = Used \cup {slot} /\ graph'.order = graph.order
             /\ collection' = [i \in Used' |-> IF i = slot THEN c ELSE collection[i]]
             /\ \A i \in Used' : graph'.ages[i] = IF i = slot THEN 0 ELSE Aged(best).ages[i]
  <1> DEFINE n    == Retention
             g    == Aged(best)
             slot == SelectCapture(g, row)
  <1>1. /\ GraphOK(graph) /\ GraphOK(g) /\ g.used = graph.used /\ g.order = graph.order
        /\ n \in Nat /\ graph.used \in 1 .. n
    BY AgedGraph, GraphIsGraph DEF TInv
  <1>2. slot >= 0
    BY DEF Retain
  <1>3. /\ slot \in Slots(n) /\ slot \in 0 .. graph.used
        /\ graph.used < n => slot = graph.used
        /\ graph.used = n => slot \in Seen(graph, Protection, n) \cup {-1}
    BY <1>2, SelectFinds
  <1>4. slot \in Used => slot \in Seen(graph, Protection, n) /\ graph.used = n
    <2>1. slot \in Used => slot < graph.used /\ slot # -1
      BY <1>1 DEF Used, Slots
    <2> HIDE DEF slot, n
    <2>2. graph.used < n \/ graph.used = n
      BY <1>1
    <2>3. QED
      BY <1>1, <1>3, <2>1, <2>2
  <1>5. /\ graph' = ResetAge(WriteScores(g, slot, row), slot)
        /\ collection' = [i \in Used \cup {slot} |-> IF i = slot THEN c ELSE collection[i]]
        /\ measured' = [p \in PairsOf(Range(collection')) |->
             IF c \in p THEN row[CHOOSE i \in Used : collection[i] \in p \ {c}] ELSE measured[p]]
    BY DEF Retain, TakeCapture, Used
  <1>6. ArraysAgree'
    BY <1>3, RetainKeepsArraysAgree DEF TInv
  <1>7. row \in [Slots(g.used) -> Overlap]
    BY <1>1 DEF Used
  <1> HIDE DEF g, slot, n
  <1>8. /\ GraphOK(graph') /\ graph'.order = g.order
        /\ graph'.used = IF slot = g.used THEN g.used + 1 ELSE g.used
        /\ \A i \in Slots(n) : graph'.ages[i] = IF i = slot THEN 0 ELSE g.ages[i]
    BY <1>1, <1>3, <1>5, <1>7, RetainedGraphOK DEF n
  <1>9. Used' = Used \cup {slot} /\ Used' \subseteq Slots(n)
    BY <1>1, <1>3, <1>8 DEF Used, Slots
  <1>10. collection' \in UNION {[Slots(k) -> Capture] : k \in 1 .. n}
    <2>1. Used' = Slots(graph'.used) /\ graph'.used \in 1 .. n
      BY <1>8 DEF Used, GraphOK, n
    <2>2. \A i \in Used : collection[i] \in Capture
      BY DEF TInv, TypeOK, ArraysAgree, CountsAgree
    <2>3. collection' \in [Used' -> Capture]
      BY <1>5, <1>9, <2>2
    <2>4. QED
      BY <2>1, <2>3
  <1>11. measured' \in [PairsOf(Kept') -> Overlap]
    <2> SUFFICES ASSUME NEW p \in PairsOf(Range(collection'))
                 PROVE  measured'[p] \in Overlap
      BY <1>5 DEF Kept
    <2>1. PICK a \in Range(collection'), b \in Range(collection') : a # b /\ p = {a, b}
      <3>1. PICK q \in {q \in Range(collection') \X Range(collection') : q[1] # q[2]} : p = {q[1], q[2]}
        BY DEF PairsOf
      <3>2. QED
        BY <3>1
    <2>2. \A x \in Range(collection') : x = c \/ \E i \in Used : i # slot /\ x = collection[i]
      BY <1>5 DEF Range
    <2>3. DOMAIN collection = Used /\ \A i \in Used : collection[i] \in Kept /\ collection[i] # c
      BY DEF TInv, ArraysAgree, CountsAgree, Kept, Range
    <2>4. CASE c \in p
      <3>1. \E i \in Used : collection[i] \in p \ {c}
        BY <2>1, <2>2, <2>3, <2>4
      <3>2. QED
        BY <1>5, <2>4, <3>1
    <2>5. CASE c \notin p
      <3>1. a \in Kept /\ b \in Kept
        BY <2>1, <2>2, <2>3, <2>5
      <3>2. p \in PairsOf(Kept)
        BY <2>1, <3>1, PairTaken
      <3>3. QED
        BY <1>5, <2>5, <3>2 DEF TInv, TypeOK
    <2>6. QED
      BY <2>4, <2>5
  <1>12. TypeOK'
    BY <1>8, <1>10, <1>11 DEF TypeOK, GraphOK, n
  <1>13. OrderAgrees'
    BY <1>1, <1>8 DEF TInv, OrderAgrees
  <1>14. TInv'
    BY <1>6, <1>12, <1>13 DEF TInv
  <1>15. collection' = [i \in Used' |-> IF i = slot THEN c ELSE collection[i]]
    BY <1>5, <1>9
  <1>16. \A i \in Used' : graph'.ages[i] = IF i = slot THEN 0 ELSE g.ages[i]
    BY <1>8, <1>9
  <1>17. QED
    BY <1>1, <1>3, <1>4, <1>8, <1>9, <1>14, <1>15, <1>16 DEF g, n, slot

\* A protected capture stays in each step.
LEMMA StepKeepsSafe ==
  ASSUME TInv, [Next]_vars
  PROVE  TInv' /\ \A i \in Used \cap SafeSlots : i \in DOMAIN collection' /\ collection'[i] = collection[i]
  <1>1. DOMAIN collection = Used
    BY DEF TInv, ArraysAgree, CountsAgree
  <1>2. CASE UNCHANGED vars
    <2>1. UNCHANGED <<graph, collection, measured>>
      BY <1>2 DEF vars
    <2>2. QED
      BY <1>1, <2>1 DEF TInv, TypeOK, ArraysAgree, CountsAgree, ScoresAgree, OrderAgrees, Used, Kept
  <1>3. ASSUME NEW best \in Used, AgeOnly(best)
        PROVE  TInv' /\ collection' = collection
    BY <1>3, AgeOnlyKeeps
  <1>4. ASSUME NEW best \in Used, NEW c \in Capture \ Kept, NEW row \in [Used -> Overlap], Retain(best, c, row)
        PROVE  TInv' /\ \A i \in Used \cap SafeSlots : i \in DOMAIN collection' /\ collection'[i] = collection[i]
    <2> DEFINE slot == SelectCapture(Aged(best), row)
    <2>1. /\ TInv' /\ Used' = Used \cup {slot}
          /\ slot \in Used => slot \in Seen(graph, Protection, Retention)
          /\ collection' = [i \in Used' |-> IF i = slot THEN c ELSE collection[i]]
      BY <1>4, RetainKeeps
    <2> HIDE DEF slot
    <2>2. \A i \in Used \cap SafeSlots : i # slot
      BY <2>1, SafeApart
    <2>3. QED
      BY <2>1, <2>2
  <1>5. CASE Next
    BY <1>1, <1>3, <1>4, <1>5 DEF Next, Learn
  <1>6. QED
    BY <1>2, <1>5

\* Graph and collection describe the same captures in every template that an
\* enrolment finishes and verified scans adapt (fpc_native_enrollment_finish,
\* fpc_update_template_after_match).
THEOREM TemplateArraysAgree == Spec => []ArraysAgree
  <1>1. TInv /\ [Next]_vars => TInv'
    BY StepKeepsSafe
  <1>2. TInv => ArraysAgree
    BY DEF TInv
  <1>3. QED
    BY TInvInit, <1>1, <1>2, PTL DEF Spec

\* The arrays of a template keep their types, and its order stays a permutation.
THEOREM TemplateTypeCorrect == Spec => [](TypeOK /\ OrderAgrees)
  <1>1. TInv /\ [Next]_vars => TInv'
    BY StepKeepsSafe
  <1>2. TInv => TypeOK /\ OrderAgrees
    BY DEF TInv
  <1>3. QED
    BY TInvInit, <1>1, <1>2, PTL DEF Spec

\* No capture that fpc_enrollment_select_capture may not give up ever leaves its
\* slot, whatever is enrolled and whatever the scans overlap with.
THEOREM TemplateProtectedStay == Spec => ProtectedStay
  <1>1. TInv /\ [Next]_vars => TInv'
    BY StepKeepsSafe
  <1>2. TInv /\ [Next]_vars =>
          [\A i \in Used \cap SafeSlots : i \in DOMAIN collection' /\ collection'[i] = collection[i]]_vars
    BY StepKeepsSafe
  <1>3. QED
    BY TInvInit, <1>1, <1>2, PTL DEF Spec, ProtectedStay

-----------------------------------------------------------------------------
(* The template as the captures it keeps. *)

\* Sums and sizes in KeptCaptures are those used here.
LEMMA SameSum ==
  ASSUME NEW f
  PROVE  Abstract!SumFunction(f) = SumFunctionOnSet(f, DOMAIN f)
  BY DEF Abstract!SumFunction, Abstract!SumFunctionOnSet, SumFunctionOnSet,
         Abstract!FoldFunctionOnSet, FoldFunctionOnSet, Abstract!MapThenFoldSet, MapThenFoldSet

LEMMA SameCardinality ==
  ASSUME NEW S
  PROVE  Abstract!Cardinality(S) = Cardinality(S)
  BY DEF Abstract!Cardinality, Cardinality, Abstract!IsFiniteSet, IsFiniteSet

\* The pairs of a finite set are its parts with two elements.
LEMMA SamePairs ==
  ASSUME NEW S, IsFiniteSet(S)
  PROVE  Abstract!PairsOf(S) = PairsOf(S)
  <1>1. Abstract!PairsOf(S) = {p \in SUBSET S : Cardinality(p) = 2}
    BY SameCardinality DEF Abstract!PairsOf
  <1>2. ASSUME NEW p \in PairsOf(S)
        PROVE  p \in SUBSET S /\ Cardinality(p) = 2
    <2>1. PICK q \in {r \in S \X S : r[1] # r[2]} : p = {q[1], q[2]}
      BY DEF PairsOf
    <2>2. q[1] \in S /\ q[2] \in S /\ q[2] \notin {q[1]} /\ p = {q[1]} \cup {q[2]}
      BY <2>1
    <2>3. IsFiniteSet({q[1]}) /\ Cardinality({q[1]}) = 1
      BY FS_Singleton
    <2>4. Cardinality({q[1]} \cup {q[2]}) = 1 + 1
      BY <2>2, <2>3, FS_AddElement
    <2>5. QED
      BY <2>2, <2>4
  <1>3. ASSUME NEW p \in SUBSET S, Cardinality(p) = 2
        PROVE  p \in PairsOf(S)
    <2>1. IsFiniteSet(p)
      BY FS_Subset
    <2>2. p # {}
      BY <1>3, FS_EmptySet
    <2>3. PICK a \in p : TRUE
      BY <2>2
    <2>4. IsFiniteSet(p \ {a}) /\ Cardinality(p \ {a}) = 1
      <3>1. Cardinality(p \ {a}) = Cardinality(p) - 1 /\ IsFiniteSet(p \ {a})
        BY <2>1, FS_RemoveElement
      <3>2. QED
        BY <1>3, <3>1
    <2>5. PICK b : p \ {a} = {b}
      BY <2>4, FS_Singleton
    <2>6. p = {a, b} /\ a # b /\ a \in S /\ b \in S
      BY <2>5
    <2>7. QED
      BY <2>6, PairTaken
  <1>4. QED
    BY <1>1, <1>2, <1>3

\* Slots in use and kept captures are the same in number, one for one.
LEMMA SlotsAndCaptures ==
  ASSUME TInv
  PROVE  /\ Kept = {collection[i] : i \in Used} /\ DOMAIN collection = Used
         /\ \A i \in Used : collection[i] \in Kept /\ SlotOf(collection[i]) = i
         /\ \A i, j \in Used : collection[i] = collection[j] => i = j
         /\ \A k \in Kept : SlotOf(k) \in Used /\ collection[SlotOf(k)] = k
         /\ IsFiniteSet(Used) /\ Used \subseteq Slots(Retention)
         /\ IsFiniteSet(Kept) /\ Cardinality(Kept) = graph.used /\ Kept \subseteq Capture
  <1>1. DOMAIN collection = Used /\ \A i, j \in Used : collection[i] = collection[j] => i = j
    BY DEF TInv, ArraysAgree, CountsAgree, IsInjective
  <1>2. Kept = {collection[i] : i \in Used}
    BY <1>1 DEF Kept, Range
  <1>3. \A i \in Used : collection[i] \in Kept /\ SlotOf(collection[i]) = i
    BY <1>1, <1>2 DEF SlotOf
  <1>4. \A k \in Kept : SlotOf(k) \in Used /\ collection[SlotOf(k)] = k
    BY <1>2, <1>3
  <1>5. graph.used \in Nat /\ IsFiniteSet(Used) /\ Cardinality(Used) = graph.used /\ Used \subseteq Slots(Retention)
    <2>1. graph.used \in Nat /\ GraphOK(graph)
      BY DEF TInv, TypeOK, GraphOK
    <2>2. QED
      BY <2>1, SlotsFinite, GraphIsGraph DEF Used
  <1>6. collection \in [Used -> Kept]
    <2>1. collection = [i \in Used |-> collection[i]]
      BY <1>1 DEF TInv, TypeOK
    <2>2. QED
      BY <1>3, <2>1
  <1>7. collection \in Surjection(Used, Kept) /\ collection \in Injection(Used, Kept)
    BY <1>1, <1>2, <1>6 DEF Surjection, Injection, IsInjective
  <1>8. IsFiniteSet(Kept) /\ Cardinality(Kept) = Cardinality(Used)
    BY <1>5, <1>7, FS_Surjection
  <1>9. \A i \in Used : collection[i] \in Capture
    BY <1>1 DEF TInv, TypeOK
  <1>10. QED
    BY <1>1, <1>2, <1>3, <1>4, <1>5, <1>8, <1>9

\* Overlaps by capture.
ByCapture(row) == [k \in Kept |-> row[SlotOf(k)]]

\* The overlaps of the kept captures, and those of the new capture c with them.
Extends(m, c, row) ==
  /\ \A a, b \in Kept : a # b => m[{a, b}] = measured[{a, b}]
  /\ \A a \in Kept : m[{c, a}] = row[a] /\ m[{a, c}] = row[a]

\* The overlaps after capture c came in, in terms of KeptCaptures.
LEMMA ExtendedPairs ==
  ASSUME TInv, NEW c \in Capture \ Kept, NEW row
  PROVE  /\ \A p \in PairsOf(Kept \cup {c}) :
              Abstract!Extended(c, row)[p] = IF c \in p THEN row[CHOOSE k \in p : k # c] ELSE measured[p]
         /\ Extends(Abstract!Extended(c, row), c, row)
  <1>1. IsFiniteSet(Kept \cup {c})
    BY SlotsAndCaptures, FS_AddElement
  <1>2. Abstract!PairsOf(Kept \cup {c}) = PairsOf(Kept \cup {c})
    BY <1>1, SamePairs
  <1>3. \A p \in PairsOf(Kept \cup {c}) :
          Abstract!Extended(c, row)[p] = IF c \in p THEN row[CHOOSE k \in p : k # c] ELSE measured[p]
    BY <1>2 DEF Abstract!Extended
  <1>4. ASSUME NEW a \in Kept, NEW b \in Kept, a # b
        PROVE  Abstract!Extended(c, row)[{a, b}] = measured[{a, b}]
    <2>1. {a, b} \in PairsOf(Kept \cup {c})
      BY <1>4, PairTaken
    <2>2. c \notin {a, b}
      OBVIOUS
    <2>3. QED
      BY <1>3, <2>1, <2>2
  <1>5. ASSUME NEW a \in Kept
        PROVE  /\ Abstract!Extended(c, row)[{c, a}] = row[a]
               /\ Abstract!Extended(c, row)[{a, c}] = row[a]
    <2>1. {c, a} \in PairsOf(Kept \cup {c}) /\ c # a
      BY PairTaken
    <2>2. (CHOOSE k \in {c, a} : k # c) = a
      BY <2>1
    <2>3. {a, c} = {c, a} /\ c \in {c, a}
      OBVIOUS
    <2>4. QED
      BY <1>3, <2>1, <2>2, <2>3
  <1>6. QED
    BY <1>3, <1>4, <1>5 DEF Extends

\* A graph that scores the pairs as the template's does.
Alike(g) == GraphOK(g) /\ g.used = graph.used /\ g.scores = graph.scores /\ g.order = graph.order

\* What a slot costs is how redundant its capture is, with the new one in place
\* (the sums of fpc_enrollment_select_capture).
LEMMA SlotRedundancy ==
  ASSUME TInv, NEW g, Alike(g), NEW c \in Capture \ Kept, NEW row \in [Used -> Overlap], NEW i \in Used
  PROVE  Abstract!Redundancy(Abstract!Extended(c, ByCapture(row)), Kept \cup {c}, collection[i])
           = WithNew(g, row, i)
  <1> DEFINE m  == Abstract!Extended(c, ByCapture(row))
             k  == collection[i]
             S  == (Kept \cup {c}) \ {k}
             F  == [j \in S |-> m[{k, j}] * m[{k, j}]]
             U  == Used \ {i}
             f  == [j \in U |-> Square(Score(g, i, j))]
  <1>0. /\ \A a, b \in Kept : a # b => m[{a, b}] = measured[{a, b}]
        /\ \A a \in Kept : m[{c, a}] = ByCapture(row)[a] /\ m[{a, c}] = ByCapture(row)[a]
    <2>1. Extends(m, c, ByCapture(row))
      BY ExtendedPairs
    <2>2. QED
      BY <2>1 DEF Extends
  <1>1. /\ Kept = {collection[j] : j \in Used} /\ k \in Kept /\ SlotOf(k) = i
        /\ \A j \in Used : collection[j] \in Kept /\ SlotOf(collection[j]) = j
        /\ \A j, l \in Used : collection[j] = collection[l] => j = l
        /\ IsFiniteSet(Used) /\ Used \subseteq Slots(Retention) /\ IsFiniteSet(Kept)
    BY SlotsAndCaptures
  <1>2. Abstract!Redundancy(m, Kept \cup {c}, k) = SumFunctionOnSet(F, S)
    <2>1. DOMAIN F = S
      OBVIOUS
    <2>2. Abstract!Redundancy(m, Kept \cup {c}, k) = Abstract!SumFunction(F)
      BY DEF Abstract!Redundancy
    <2> HIDE DEF F, S
    <2>3. QED
      BY <2>1, <2>2, SameSum
  <1>3. m[{k, c}] = row[i] /\ row[i] \in Nat
    <2>1. m[{k, c}] = ByCapture(row)[k]
      <3> HIDE DEF m, k
      <3>1. QED
        BY <1>0, <1>1
    <2>2. ByCapture(row)[k] = row[i]
      BY <1>1 DEF ByCapture
    <2>3. row[i] \in Nat
      BY OverlapAssumption
    <2>4. QED
      BY <2>1, <2>2, <2>3
  <1>4. ASSUME NEW j \in U
        PROVE  m[{k, collection[j]}] = Score(g, i, j) /\ Score(g, i, j) \in Nat /\ Square(Score(g, i, j)) \in Int
    <2>1. j \in Used /\ i # j /\ collection[j] # k /\ collection[j] \in Kept
      BY <1>1
    <2>2. m[{k, collection[j]}] = measured[{k, collection[j]}]
      <3> HIDE DEF m, k
      <3>1. QED
        BY <1>0, <1>1, <2>1
    <2>3. Score(graph, i, j) = measured[{k, collection[j]}]
      BY <2>1 DEF TInv, ArraysAgree, ScoresAgree
    <2>4. Score(g, i, j) = Score(graph, i, j)
      BY DEF Score, Alike, TInv, TypeOK, GraphOK
    <2>5. i \in Slots(Retention) /\ j \in Slots(Retention) /\ Retention \in Nat /\ Retention >= 2 /\ g \in Graphs(Retention)
      BY <1>1, <2>1, GraphIsGraph DEF Alike
    <2>6. Score(g, i, j) \in Nat /\ Square(Score(g, i, j)) \in Int
      BY <2>1, <2>5, ScoreIsNumber
    <2> HIDE DEF m, k
    <2>7. QED
      BY <2>2, <2>3, <2>4, <2>6
  <1>5. c \in S /\ S \ {c} = {collection[j] : j \in U} /\ IsFiniteSet(S) /\ IsFiniteSet(U)
    <2>1. c \in S /\ S \ {c} = {collection[j] : j \in U}
      BY <1>1
    <2>2. IsFiniteSet(U)
      BY <1>1, FS_RemoveElement
    <2>3. IsFiniteSet(Kept \cup {c})
      BY <1>1, FS_AddElement
    <2>4. IsFiniteSet((Kept \cup {c}) \ {k})
      BY <2>3, FS_RemoveElement
    <2>5. QED
      BY <2>1, <2>2, <2>4
  <1> HIDE DEF m, k
  <1>6. ASSUME NEW j \in U
        PROVE  f[j] \in Int /\ F[collection[j]] = f[j]
    <2>1. collection[j] \in S
      BY <1>5
    <2>2. F[collection[j]] = m[{k, collection[j]}] * m[{k, collection[j]}]
      BY <2>1
    <2>3. F[collection[j]] = Score(g, i, j) * Score(g, i, j)
      BY <1>4, <2>2
    <2>4. f[j] = Square(Score(g, i, j))
      OBVIOUS
    <2>5. QED
      BY <1>4, <2>3, <2>4 DEF Square
  <1>7. F[c] = Square(row[i]) /\ F[c] \in Int
    <2>1. F[c] = m[{k, c}] * m[{k, c}]
      BY <1>5
    <2>2. row[i] * row[i] \in Int
      BY <1>3
    <2> HIDE DEF F
    <2>3. QED
      BY <1>3, <2>1, <2>2 DEF Square
  <1>8. \A j \in S : F[j] \in Int
    <2> SUFFICES ASSUME NEW j \in S PROVE F[j] \in Int
      OBVIOUS
    <2>1. j = c \/ \E l \in U : j = collection[l]
      BY <1>5
    <2> HIDE DEF F, f, S, U
    <2>2. QED
      BY <1>6, <1>7, <2>1
  <1>9. Cost(g, i) = SumFunctionOnSet(f, U)
    BY DEF Cost, SumFunction, Alike, Used
  <1> HIDE DEF F, f, S
  <1>10. SumFunctionOnSet(F, S) = F[c] + SumFunctionOnSet(F, S \ {c})
    BY <1>5, <1>8, SumSplits
  <1>11. SumFunctionOnSet(f, U) = SumFunctionOnSet(F, {collection[j] : j \in U})
    <2>1. \A j, l \in U : collection[j] = collection[l] => j = l
      BY <1>1
    <2> HIDE DEF U
    <2>2. QED
      BY <1>5, <1>6, <2>1, SumRenamed
  <1>12. QED
    BY <1>2, <1>5, <1>7, <1>9, <1>10, <1>11 DEF WithNew, m, k

\* The new capture is as redundant as its overlaps with the kept ones make it.
LEMMA NewRedundancy ==
  ASSUME TInv, NEW g, Alike(g), NEW c \in Capture \ Kept, NEW row \in [Used -> Overlap]
  PROVE  Abstract!Redundancy(Abstract!Extended(c, ByCapture(row)), Kept \cup {c}, c) = OfNew(g, row)
  <1> DEFINE m  == Abstract!Extended(c, ByCapture(row))
             S  == (Kept \cup {c}) \ {c}
             F  == [j \in S |-> m[{c, j}] * m[{c, j}]]
             f  == [j \in Used |-> Square(row[j])]
  <1>0. /\ \A a, b \in Kept : a # b => m[{a, b}] = measured[{a, b}]
        /\ \A a \in Kept : m[{c, a}] = ByCapture(row)[a] /\ m[{a, c}] = ByCapture(row)[a]
    <2>1. Extends(m, c, ByCapture(row))
      BY ExtendedPairs
    <2>2. QED
      BY <2>1 DEF Extends
  <1>1. /\ Kept = {collection[j] : j \in Used} /\ IsFiniteSet(Used)
        /\ \A j \in Used : collection[j] \in Kept /\ SlotOf(collection[j]) = j
        /\ \A j, l \in Used : collection[j] = collection[l] => j = l
    BY SlotsAndCaptures
  <1>2. Abstract!Redundancy(m, Kept \cup {c}, c) = SumFunctionOnSet(F, S)
    <2>1. DOMAIN F = S
      OBVIOUS
    <2>2. Abstract!Redundancy(m, Kept \cup {c}, c) = Abstract!SumFunction(F)
      BY DEF Abstract!Redundancy
    <2> HIDE DEF F, S
    <2>3. QED
      BY <2>1, <2>2, SameSum
  <1>3. S = Kept
    OBVIOUS
  <1>4. ASSUME NEW j \in Used
        PROVE  m[{c, collection[j]}] = row[j] /\ row[j] \in Nat
    <2>1. m[{c, collection[j]}] = ByCapture(row)[collection[j]]
      <3> HIDE DEF m
      <3>1. QED
        BY <1>0, <1>1
    <2>2. ByCapture(row)[collection[j]] = row[j]
      BY <1>1 DEF ByCapture
    <2>3. row[j] \in Nat
      BY OverlapAssumption
    <2>4. QED
      BY <2>1, <2>2, <2>3
  <1> HIDE DEF m
  <1>5. ASSUME NEW j \in Used
        PROVE  F[collection[j]] = f[j] /\ f[j] \in Int
    <2>1. collection[j] \in S
      BY <1>1, <1>3
    <2>2. F[collection[j]] = row[j] * row[j]
      BY <1>4, <2>1
    <2>3. f[j] = row[j] * row[j]
      BY DEF Square
    <2>4. row[j] * row[j] \in Int
      <3>1. row[j] \in Nat
        BY <1>4
      <3>2. QED
        BY <3>1
    <2>5. QED
      BY <2>2, <2>3, <2>4
  <1>6. OfNew(g, row) = SumFunctionOnSet(f, Used)
    BY DEF OfNew, SumFunction, Alike, Used
  <1> HIDE DEF F, f, S
  <1>7. SumFunctionOnSet(f, Used) = SumFunctionOnSet(F, {collection[j] : j \in Used})
    BY <1>1, <1>5, SumRenamed
  <1>8. QED
    BY <1>1, <1>2, <1>3, <1>6, <1>7 DEF m

\* In a full template the captures that are not safe are those the walk sees.
LEMMA FreeIsSeen ==
  ASSUME TInv, graph.used = Retention, NEW i \in Used
  PROVE  collection[i] \in Kept \ Safe <=> i \in Seen(graph, Protection, Retention)
  <1> DEFINE n == Retention
  <1>1. n \in Nat /\ Protection \in Nat /\ Used = Slots(n) /\ graph.order \in [Slots(n) -> Slots(n)]
    BY SizesAssumption DEF Used, TInv, TypeOK
  <1>2. PICK p \in Slots(n) : graph.order[p] = i
    <2>1. graph.order \in Injection(Slots(n), Slots(n))
      BY <1>1 DEF TInv, OrderAgrees, Injection, IsInjective
    <2>2. IsFiniteSet(Slots(n))
      BY <1>1, SlotsFinite
    <2>3. graph.order \in Surjection(Slots(n), Slots(n))
      BY <2>1, <2>2, FS_Injection
    <2>4. QED
      BY <1>1, <2>3 DEF Surjection
  <1>3. i \in Seen(graph, Protection, n) \/ i \in SafeSlots
    <2>1. CASE p >= Protection
      <3>1. p \in Protection .. n - 1
        BY <1>1, <2>1 DEF Slots
      <3>2. QED
        BY <1>2, <3>1 DEF Seen
    <2>2. CASE ~ (p >= Protection)
      <3>1. p \in Slots(Lesser(Protection, n))
        BY <1>1, <2>2 DEF Slots, Lesser
      <3>2. QED
        BY <1>2, <3>1 DEF SafeSlots
    <2>3. QED
      BY <2>1, <2>2
  <1>4. i \in Seen(graph, Protection, n) => i \notin SafeSlots
    BY SafeApart
  <1>5. collection[i] \in Safe <=> i \in SafeSlots
    BY SlotsAndCaptures DEF Safe
  <1>6. collection[i] \in Kept
    BY SlotsAndCaptures
  <1>7. QED
    BY <1>3, <1>4, <1>5, <1>6

\* The ages of captures after a match.
AgesByCapture(g) == [k \in Kept |-> g.ages[SlotOf(k)]]

\* The walk over the arrays of a full template finds a capture that the rule on
\* captures allows to go, and none only if there is none.
LEMMA WalkByRule ==
  ASSUME TInv, graph.used = Retention,
         NEW best \in Used, NEW c \in Capture \ Kept, NEW row \in [Used -> Overlap]
  PROVE  LET g    == Aged(best)
             slot == SelectCapture(g, row)
             out  == Abstract!Replaceable(c, ByCapture(row), AgesByCapture(g))
         IN  IF slot < 0 THEN out = {} ELSE collection[slot] \in out
  <1> DEFINE n    == Retention
             g    == Aged(best)
             slot == SelectCapture(g, row)
             ages == AgesByCapture(g)
             all  == Kept \cup {c}
             m    == Abstract!Extended(c, ByCapture(row))
             R(k) == Abstract!Redundancy(m, all, k)
             free == Kept \ Safe
             S    == Seen(graph, Protection, n)
             A    == {k \in free : ages[k] >= 3 * Retention}
             O    == {k \in free : R(k) > R(c)}
  <1>1. Alike(g) /\ g.threshold = 3 * Retention
    BY AgedGraph, GraphIsGraph DEF TInv, Alike
  <1>2. /\ Measured(g, row, n) /\ slot = Walk(g, row, Protection).slot
        /\ Best(g, row, S, Walk(g, row, Protection))
        /\ slot \in S \cup {-1} /\ slot \in Slots(n) \cup {-1}
    <2>1. Seen(g, Protection, n) = S
      BY <1>1 DEF Seen, Alike
    <2> HIDE DEF g, slot, S, n
    <2>2. QED
      BY <2>1, SelectFinds DEF g, slot, S, n
  <1>3. /\ Kept = {collection[j] : j \in Used}
        /\ \A j \in Used : collection[j] \in Kept /\ SlotOf(collection[j]) = j
        /\ \A j, l \in Used : collection[j] = collection[l] => j = l
    BY SlotsAndCaptures
  <1>4. S \subseteq Used /\ Used = Slots(n)
    <2>1. Used = Slots(n)
      BY DEF Used
    <2>2. ASSUME NEW p \in Protection .. n - 1
          PROVE  graph.order[p] \in Slots(n)
      <3>1. p \in Slots(n)
        BY SizesAssumption DEF Slots
      <3>2. QED
        BY <3>1 DEF TInv, TypeOK
    <2>3. QED
      BY <2>1, <2>2 DEF Seen
  <1>5. \A i \in Used : R(collection[i]) = WithNew(g, row, i) /\ WithNew(g, row, i) \in Int
    <2>1. \A i \in Used : R(collection[i]) = WithNew(g, row, i)
      BY <1>1, SlotRedundancy
    <2> HIDE DEF R
    <2>2. QED
      BY <1>2, <1>4, <2>1 DEF Measured
  <1>6. R(c) = OfNew(g, row) /\ OfNew(g, row) \in Int
    <2>1. R(c) = OfNew(g, row)
      BY <1>1, NewRedundancy
    <2> HIDE DEF R
    <2>2. QED
      BY <1>2, <2>1 DEF Measured
  <1> DEFINE out == Abstract!Replaceable(c, ByCapture(row), ages)
             Most(T) == {k \in T : \A l \in T : R(l) <= R(k)}
  <1>7. out = IF A # {} THEN Most(A) ELSE Most(O)
    BY DEF Abstract!Replaceable, Abstract!MostRedundant
  <1>8. \A k : k \in free <=> \E i \in S : k = collection[i]
    <2>1. \A i \in Used : collection[i] \in free <=> i \in S
      BY FreeIsSeen
    <2> HIDE DEF S
    <2>2. QED
      BY <1>3, <1>4, <2>1
  <1>9. \A k : k \in A <=> \E i \in AgedIn(g, S) : k = collection[i]
    <2>1. \A i \in S : ages[collection[i]] = g.ages[i]
      BY <1>3, <1>4 DEF AgesByCapture
    <2>2. \A i \in S : collection[i] \in free
      BY <1>8
    <2>3. \A i \in S : collection[i] \in A <=> i \in AgedIn(g, S)
      <3>1. \A i \in S : AgedOut(g, i) <=> g.ages[i] >= 3 * Retention
        BY <1>1 DEF AgedOut
      <3> HIDE DEF S, free, ages, g
      <3>2. QED
        BY <2>1, <2>2, <3>1 DEF AgedIn
    <2>4. AgedIn(g, S) \subseteq S /\ A \subseteq free
      BY DEF AgedIn
    <2> HIDE DEF A, S, free, g
    <2>5. QED
      BY <1>8, <2>3, <2>4
  <1>10. \A k : k \in O <=> \E i \in OverIn(g, row, S) : k = collection[i]
    <2>1. \A i \in S : collection[i] \in free
      BY <1>8
    <2>2. \A i \in S : R(collection[i]) > R(c) <=> OfNew(g, row) < WithNew(g, row, i)
      <3> HIDE DEF R, S, g
      <3>1. QED
        BY <1>4, <1>5, <1>6
    <2>3. \A i \in S : collection[i] \in O <=> i \in OverIn(g, row, S)
      <3> HIDE DEF R, S, free, g
      <3>1. QED
        BY <2>1, <2>2 DEF OverIn
    <2>4. OverIn(g, row, S) \subseteq S /\ O \subseteq free
      BY DEF OverIn
    <2> HIDE DEF O, S, free, g
    <2>5. QED
      BY <1>8, <2>3, <2>4
  <1>11. ASSUME NEW T \in SUBSET S, NEW B, \A k : k \in B <=> \E i \in T : k = collection[i],
                NEW s, Tops(g, row, T, s)
         PROVE  collection[s] \in Most(B)
    <2>1. s \in T /\ \A l \in T : WithNew(g, row, l) <= WithNew(g, row, s)
      BY <1>11 DEF Tops
    <2>2. \A l \in T : R(collection[l]) = WithNew(g, row, l)
      <3> HIDE DEF S, R, g
      <3>1. QED
        BY <1>4, <1>5
    <2> HIDE DEF S, R, g
    <2>3. QED
      BY <1>11, <2>1, <2>2
  <1>12. AgedIn(g, S) \subseteq S /\ OverIn(g, row, S) \subseteq S
    BY DEF AgedIn, OverIn
  <1>13. A # {} <=> AgedIn(g, S) # {}
    <2> HIDE DEF A, S, g
    <2>1. QED
      BY <1>9
  <1>14. O # {} <=> OverIn(g, row, S) # {}
    <2> HIDE DEF O, S, g
    <2>1. QED
      BY <1>10
  <1>15. \A s \in S : ~ (s < 0)
    BY <1>4 DEF Slots
  <1> HIDE DEF A, O, S, R, g, slot, free, out, Most
  <1>16. CASE A # {}
    <2>1. Tops(g, row, AgedIn(g, S), slot)
      BY <1>2, <1>13, <1>16 DEF Best
    <2>2. collection[slot] \in Most(A)
      BY <1>9, <1>11, <1>12, <2>1
    <2>3. slot \in S
      BY <1>12, <2>1 DEF Tops
    <2>4. QED
      BY <1>7, <1>15, <1>16, <2>2, <2>3 DEF out, g, slot, ages
  <1>17. CASE A = {} /\ O # {}
    <2>1. Tops(g, row, OverIn(g, row, S), slot)
      BY <1>2, <1>13, <1>14, <1>17 DEF Best
    <2>2. collection[slot] \in Most(O)
      BY <1>10, <1>11, <1>12, <2>1
    <2>3. slot \in S
      BY <1>12, <2>1 DEF Tops
    <2>4. QED
      BY <1>7, <1>15, <1>17, <2>2, <2>3 DEF out, g, slot, ages
  <1>18. CASE A = {} /\ O = {}
    <2>1. slot = -1
      BY <1>2, <1>13, <1>14, <1>18 DEF Best
    <2>2. Most(O) = {}
      BY <1>18 DEF Most
    <2>3. slot < 0
      BY <2>1
    <2>4. out = {}
      BY <1>7, <1>18, <2>2
    <2>5. QED
      BY <2>3, <2>4 DEF out, g, slot, ages
  <1>19. QED
    BY <1>16, <1>17, <1>18

\* Which capture goes is decided by the rule on captures in every reachable
\* template (fpc_enrollment_select_capture).
THEOREM TemplateEvictsByRule == Spec => []EvictsByRule
  <1>1. TInv => EvictsByRule
    <2> SUFFICES ASSUME TInv, graph.used = graph.capacity,
                        NEW best \in Used, NEW c \in Capture \ Kept, NEW row \in [Used -> Overlap]
                 PROVE  LET g    == Aged(best)
                            slot == SelectCapture(g, row)
                            out  == Abstract!Replaceable(c, [k \in Kept |-> row[SlotOf(k)]],
                                                         [k \in Kept |-> g.ages[SlotOf(k)]])
                        IN  IF slot < 0 THEN out = {} ELSE collection[slot] \in out
      BY DEF EvictsByRule
    <2>1. graph.used = Retention
      BY DEF TInv, TypeOK
    <2>2. QED
      BY <2>1, WalkByRule DEF ByCapture, AgesByCapture
  <1>2. TInv /\ [Next]_vars => TInv'
    BY StepKeepsSafe
  <1>3. QED
    BY TInvInit, <1>1, <1>2, PTL DEF Spec

\* Slots in use and kept captures, one for one.
OneForOne ==
  /\ DOMAIN collection = Used /\ Kept = {collection[i] : i \in Used}
  /\ \A i \in Used : collection[i] \in Kept /\ SlotOf(collection[i]) = i
  /\ \A k \in Kept : SlotOf(k) \in Used /\ collection[SlotOf(k)] = k
  /\ \A i, j \in Used : collection[i] = collection[j] => i = j
  /\ IsFiniteSet(Kept) /\ Cardinality(Kept) = graph.used /\ Kept \subseteq Capture
  /\ Used \subseteq Slots(Retention)

\* Before a step and after it.
LEMMA OneForOneNow == TInv => OneForOne
  BY SlotsAndCaptures DEF OneForOne

LEMMA OneForOneNext == TInv' => OneForOne'
  BY OneForOneNow, PTL

\* A template that an enrolment leaves is one of KeptCaptures.
LEMMA AbstractInit ==
  ASSUME TInv
  PROVE  Abstract!Init
  <1>1. OneForOne
    BY OneForOneNow
  <1>2. Kept \in {S \in SUBSET Capture : S # {}}
    <2>1. 0 \in Used
      BY DEF Used, Slots, TInv, TypeOK
    <2>2. QED
      BY <1>1, <2>1 DEF OneForOne
  <1>3. Safe \subseteq Kept
    BY <1>1 DEF Safe, OneForOne
  <1>4. measured \in [Abstract!PairsOf(Kept) -> Overlap]
    <2>1. Abstract!PairsOf(Kept) = PairsOf(Kept)
      BY <1>1, SamePairs DEF OneForOne
    <2>2. QED
      BY <2>1 DEF TInv, TypeOK
  <1>5. AgeOf \in [Kept -> 0 .. AgeMax]
    <2>1. \A k \in Kept : graph.ages[SlotOf(k)] \in 0 .. AgeMax
      <3>1. \A k \in Kept : SlotOf(k) \in Slots(Retention)
        BY <1>1 DEF OneForOne
      <3>2. graph.ages \in [Slots(Retention) -> 0 .. AgeMax]
        BY DEF TInv, TypeOK
      <3>3. QED
        BY <3>1, <3>2
    <2>2. QED
      BY <2>1 DEF AgeOf
  <1>6. QED
    BY <1>2, <1>3, <1>4, <1>5 DEF Abstract!Init

\* The ages after a match, by slot and by capture, are the same.
LEMMA GrownByCapture ==
  ASSUME TInv, NEW best \in Used
  PROVE  AgesByCapture(Aged(best)) = Abstract!Grown(collection[best])
  <1>1. OneForOne
    BY OneForOneNow
  <1>2. \A i \in Used : Aged(best).ages[i] = IF i = best THEN 0
                           ELSE IF graph.ages[i] < AgeMax THEN graph.ages[i] + 1 ELSE AgeMax
    BY AgedGraph DEF TInv
  <1>3. ASSUME NEW k \in Kept
        PROVE  Aged(best).ages[SlotOf(k)] = IF k = collection[best] THEN 0
                                            ELSE IF AgeOf[k] < AgeMax THEN AgeOf[k] + 1 ELSE AgeMax
    <2>1. SlotOf(k) \in Used /\ collection[SlotOf(k)] = k /\ SlotOf(collection[best]) = best
      BY <1>1 DEF OneForOne
    <2>2. k = collection[best] <=> SlotOf(k) = best
      BY <2>1
    <2>3. AgeOf[k] = graph.ages[SlotOf(k)]
      BY DEF AgeOf
    <2>4. QED
      BY <1>2, <2>1, <2>2, <2>3
  <1>4. QED
    BY <1>3 DEF AgesByCapture, Abstract!Grown

\* A verified scan that leaves no capture behind.
LEMMA AgeOnlyMatches ==
  ASSUME TInv, NEW best \in Used, AgeOnly(best)
  PROVE  Abstract!Matched(collection[best])
  <1>1. TInv' /\ Used' = Used /\ collection' = collection /\ SafeSlots' = SafeSlots
    BY AgeOnlyKeeps
  <1>2. Kept' = Kept /\ Safe' = Safe /\ measured' = measured
    BY <1>1 DEF Kept, Safe, AgeOnly
  <1>3. \A k \in Kept : SlotOf(k)' = SlotOf(k)
    BY <1>1 DEF SlotOf
  <1>4. graph' = Aged(best)
    BY DEF AgeOnly
  <1>5. AgeOf' = AgesByCapture(Aged(best))
    <2>1. AgeOf' = [k \in Kept' |-> graph'.ages[SlotOf(k)']]
      BY DEF AgeOf
    <2> HIDE DEF AgeOf, SlotOf, Kept
    <2>2. QED
      BY <1>2, <1>3, <1>4, <2>1 DEF AgesByCapture
  <1>6. AgeOf' = Abstract!Grown(collection[best])
    BY <1>5, GrownByCapture
  <1>7. QED
    BY <1>2, <1>6 DEF Abstract!Matched

\* Whom a retained capture displaces.
Displaced(slot) == IF slot \in Used THEN {collection[slot]} ELSE {}

\* A retained capture takes its place among the others: their scores and the
\* captures that stay safe do not move.
LEMMA RetainAdopts ==
  ASSUME TInv, NEW best \in Used, NEW c \in Capture \ Kept, NEW row \in [Used -> Overlap],
         Retain(best, c, row)
  PROVE  LET slot == SelectCapture(Aged(best), row)
         IN  /\ Abstract!Adopt(c, ByCapture(row), Displaced(slot))
             /\ slot \in Used => Safe' = Safe
  <1> DEFINE slot == SelectCapture(Aged(best), row)
             m    == Abstract!Extended(c, ByCapture(row))
  <1>1. /\ TInv' /\ Used' = Used \cup {slot} /\ graph'.order = graph.order
        /\ slot \in Used => slot \in Seen(graph, Protection, Retention)
        /\ collection' = [i \in Used' |-> IF i = slot THEN c ELSE collection[i]]
    BY RetainKeeps
  <1>2. measured' = [p \in PairsOf(Kept') |->
          IF c \in p THEN row[CHOOSE i \in Used : collection[i] \in p \ {c}] ELSE measured[p]]
    BY DEF Retain, Kept
  <1>3. slot \in Used => slot \notin SafeSlots
    BY <1>1, SafeApart
  <1> HIDE DEF slot
  <1>4. OneForOne /\ OneForOne'
    BY <1>1, OneForOneNow, OneForOneNext
  <1>5. Kept' = (Kept \ Displaced(slot)) \cup {c}
    <2>1. Kept' = {collection'[i] : i \in Used'} /\ Kept = {collection[i] : i \in Used}
          /\ \A i, j \in Used : collection[i] = collection[j] => i = j
      BY <1>4 DEF OneForOne
    <2>2. collection'[slot] = c /\ slot \in Used' /\ \A i \in Used : i \in Used' /\ (i # slot => collection'[i] = collection[i])
      BY <1>1
    <2>3. ASSUME NEW k \in Kept' PROVE k \in (Kept \ Displaced(slot)) \cup {c}
      <3>1. PICK i \in Used' : k = collection'[i]
        BY <2>1
      <3>2. CASE i = slot
        BY <2>2, <3>1, <3>2
      <3>3. CASE i # slot
        <4>1. i \in Used /\ k = collection[i]
          BY <1>1, <2>2, <3>1, <3>3
        <4>2. QED
          BY <2>1, <3>3, <4>1 DEF Displaced
      <3>4. QED
        BY <3>2, <3>3
    <2>4. ASSUME NEW k \in (Kept \ Displaced(slot)) \cup {c} PROVE k \in Kept'
      <3>1. CASE k = c
        BY <2>1, <2>2, <3>1
      <3>2. CASE k \in Kept \ Displaced(slot)
        <4>1. PICK i \in Used : k = collection[i]
          BY <2>1, <3>2
        <4>2. i # slot
          BY <3>2, <4>1 DEF Displaced
        <4>3. QED
          BY <2>1, <2>2, <4>1, <4>2
      <3>3. QED
        BY <2>4, <3>1, <3>2
    <2>5. QED
      BY <2>3, <2>4
  <1>6. Abstract!PairsOf(Kept') = PairsOf(Kept')
    BY <1>4, SamePairs DEF OneForOne
  <1>7. ASSUME NEW p \in PairsOf(Kept')
        PROVE  measured'[p] = m[p]
    <2>1. PICK q \in {r \in Kept' \X Kept' : r[1] # r[2]} : p = {q[1], q[2]}
      BY DEF PairsOf
    <2>2. PICK a \in Kept', b \in Kept' : a # b /\ p = {a, b}
      BY <2>1
    <2>3. a \in Kept \cup {c} /\ b \in Kept \cup {c}
      BY <1>5, <2>2
    <2>4. p \in PairsOf(Kept \cup {c})
      BY <2>2, <2>3, PairTaken
    <2>5. m[p] = IF c \in p THEN ByCapture(row)[CHOOSE k \in p : k # c] ELSE measured[p]
      BY <2>4, ExtendedPairs
    <2> HIDE DEF m
    <2>6. CASE c \in p
      <3>1. PICK x \in Kept : p = {c, x} /\ x # c
        BY <2>2, <2>3, <2>6
      <3>2. (CHOOSE k \in p : k # c) = x
        BY <3>1
      <3>3. p \ {c} = {x}
        BY <3>1
      <3>4. (CHOOSE i \in Used : collection[i] \in p \ {c}) = SlotOf(x)
        <4>1. \A i : (i \in Used /\ collection[i] \in p \ {c}) <=> (i \in Used /\ collection[i] = x)
          BY <3>3
        <4>2. QED
          BY <4>1 DEF SlotOf
      <3>5. ByCapture(row)[x] = row[SlotOf(x)]
        BY DEF ByCapture
      <3>6. QED
        BY <1>2, <2>5, <2>6, <3>2, <3>4, <3>5
    <2>7. CASE c \notin p
      BY <1>2, <2>5, <2>7
    <2>8. QED
      BY <2>6, <2>7
  <1>8. measured' = [p \in Abstract!PairsOf(Kept') |-> m[p]]
    BY <1>2, <1>6, <1>7
  <1>9. ASSUME NEW k \in Kept \ Displaced(slot)
        PROVE  measured'[{c, k}] = ByCapture(row)[k]
    <2>1. {c, k} \in PairsOf(Kept')
      <3>1. c \in Kept' /\ k \in Kept' /\ c # k
        BY <1>5
      <3>2. \A x, y \in Kept' : x # y => {x, y} \in PairsOf(Kept')
        BY PairTaken
      <3>3. QED
        BY <3>1, <3>2
    <2>2. Extends(m, c, ByCapture(row))
      BY ExtendedPairs
    <2>3. m[{c, k}] = ByCapture(row)[k]
      BY <2>2 DEF Extends
    <2>4. QED
      BY <1>7, <2>1, <2>3
  <1>10. SafeSlots' = SafeSlots
    BY <1>1 DEF SafeSlots
  <1>11. Safe' = {collection'[i] : i \in Used' \cap SafeSlots}
    BY <1>10 DEF Safe
  <1>12. Safe \subseteq Safe'
    <2> SUFFICES ASSUME NEW i \in Used \cap SafeSlots PROVE collection[i] \in Safe'
      BY DEF Safe
    <2>1. i # slot /\ i \in Used'
      BY <1>1, <1>3
    <2>2. collection'[i] = collection[i]
      BY <1>1, <2>1
    <2>3. QED
      BY <1>11, <2>1, <2>2
  <1>13. \A k \in Safe' : k \in Safe \/ (k = c /\ slot \notin Used)
    <2> SUFFICES ASSUME NEW i \in Used' \cap SafeSlots
                 PROVE  collection'[i] \in Safe \/ (collection'[i] = c /\ slot \notin Used)
      BY <1>11
    <2>1. CASE i = slot
      BY <1>1, <1>3, <2>1
    <2>2. CASE i # slot
      <3>1. i \in Used \cap SafeSlots /\ collection'[i] = collection[i]
        BY <1>1, <2>2
      <3>2. QED
        BY <3>1 DEF Safe
    <2>3. QED
      BY <2>1, <2>2
  <1>14. slot \in Used => Safe' = Safe
    BY <1>12, <1>13
  <1> HIDE DEF m
  <1>15. Abstract!Adopt(c, ByCapture(row), Displaced(slot))
    BY <1>5, <1>8, <1>9, <1>12, <1>13 DEF Abstract!Adopt, m
  <1>16. QED
    BY <1>14, <1>15 DEF slot

\* The ages follow the captures, and the new one starts over.
LEMMA RetainAges ==
  ASSUME TInv, NEW best \in Used, NEW c \in Capture \ Kept, NEW row \in [Used -> Overlap],
         Retain(best, c, row)
  PROVE  AgeOf' = [k \in Kept' |-> IF k = c THEN 0 ELSE Abstract!Grown(collection[best])[k]]
  <1> DEFINE slot == SelectCapture(Aged(best), row)
             g    == Aged(best)
  <1>1. /\ TInv' /\ Used' = Used \cup {slot}
        /\ collection' = [i \in Used' |-> IF i = slot THEN c ELSE collection[i]]
        /\ \A i \in Used' : graph'.ages[i] = IF i = slot THEN 0 ELSE g.ages[i]
    BY RetainKeeps
  <1> HIDE DEF slot, g
  <1>2. /\ \A k \in Kept' : SlotOf(k)' \in Used' /\ collection'[SlotOf(k)'] = k
        /\ \A i, j \in Used' : collection'[i] = collection'[j] => i = j
        /\ \A i \in Used : collection[i] \in Kept /\ SlotOf(collection[i]) = i
    BY <1>1, OneForOneNow, OneForOneNext DEF OneForOne
  <1>3. AgesByCapture(g) = Abstract!Grown(collection[best])
    BY GrownByCapture DEF g
  <1>4. ASSUME NEW k \in Kept'
        PROVE  graph'.ages[SlotOf(k)'] = IF k = c THEN 0 ELSE AgesByCapture(g)[k]
    <2> DEFINE i == SlotOf(k)'
    <2>1. i \in Used' /\ collection'[i] = k
      BY <1>2
    <2>2. collection'[slot] = c /\ slot \in Used'
      BY <1>1
    <2>3. i = slot <=> k = c
      <3>1. i = slot => k = c
        BY <2>1, <2>2
      <3>2. k = c => i = slot
        BY <1>2, <2>1, <2>2
      <3>3. QED
        BY <3>1, <3>2
    <2> HIDE DEF i
    <2>4. CASE k = c
      BY <1>1, <2>1, <2>3, <2>4 DEF i
    <2>5. CASE k # c
      <3>1. i \in Used /\ collection[i] = k
        BY <1>1, <2>1, <2>3, <2>5
      <3>2. k \in Kept /\ SlotOf(k) = i
        BY <1>2, <3>1
      <3>3. AgesByCapture(g)[k] = g.ages[i]
        BY <3>2 DEF AgesByCapture
      <3>4. QED
        BY <1>1, <2>1, <2>3, <2>5, <3>3 DEF i
    <2>6. QED
      BY <2>4, <2>5
  <1>5. AgeOf' = [k \in Kept' |-> graph'.ages[SlotOf(k)']]
    BY DEF AgeOf
  <1>6. QED
    BY <1>3, <1>4, <1>5

\* A verified scan that leaves its capture behind.
LEMMA RetainRetains ==
  ASSUME TInv, NEW best \in Used, NEW c \in Capture \ Kept, NEW row \in [Used -> Overlap],
         Retain(best, c, row)
  PROVE  Abstract!Retained(collection[best], c, ByCapture(row))
  <1> DEFINE slot == SelectCapture(Aged(best), row)
             ages == Abstract!Grown(collection[best])
             out  == Abstract!Replaceable(c, ByCapture(row), ages)
  <1>1. /\ slot \in Slots(Retention) /\ slot \in 0 .. graph.used
        /\ slot \in Used => slot \in Seen(graph, Protection, Retention) /\ graph.used = Retention
    BY RetainKeeps
  <1>2. /\ Abstract!Adopt(c, ByCapture(row), Displaced(slot))
        /\ slot \in Used => Safe' = Safe
    BY RetainAdopts
  <1>3. AgeOf' = [k \in Kept' |-> IF k = c THEN 0 ELSE ages[k]]
    BY RetainAges
  <1>4. AgesByCapture(Aged(best)) = ages
    BY GrownByCapture
  <1>5. graph.used = Retention => IF slot < 0 THEN out = {} ELSE collection[slot] \in out
    BY <1>4, WalkByRule
  <1>6. slot >= 0
    BY DEF Retain
  <1>7. Abstract!Cardinality(Kept) = graph.used /\ graph.used \in 1 .. Retention /\ Retention \in Nat
    BY OneForOneNow, SameCardinality, SizesAssumption DEF OneForOne, TInv, TypeOK
  <1> HIDE DEF slot, ages, out
  <1>8. CASE slot \in Used
    <2>1. graph.used = Retention /\ collection[slot] \in out
      BY <1>1, <1>5, <1>6, <1>8
    <2>2. collection[slot] \in Kept \ Safe
      BY <1>1, <1>8, FreeIsSeen
    <2>3. Displaced(slot) = {collection[slot]}
      BY <1>8 DEF Displaced
    <2>4. QED
      BY <1>2, <1>3, <1>7, <1>8, <2>1, <2>2, <2>3 DEF Abstract!Retained, ages, out
  <1>9. CASE slot \notin Used
    <2>1. graph.used < Retention
      BY <1>1, <1>7, <1>9 DEF Used, Slots
    <2>2. Displaced(slot) = {}
      BY <1>9 DEF Displaced
    <2>3. QED
      BY <1>2, <1>3, <1>7, <2>1, <2>2 DEF Abstract!Retained, ages
  <1>10. QED
    BY <1>8, <1>9

\* Each step is one of KeptCaptures, or none.
LEMMA StepsAreAbstract ==
  ASSUME TInv, [Next]_vars
  PROVE  [Abstract!Next]_(Abstract!vars)
  <1>1. OneForOne
    BY OneForOneNow
  <1>2. CASE UNCHANGED vars
    <2>1. graph' = graph /\ collection' = collection /\ measured' = measured
      BY <1>2 DEF vars
    <2>2. Used' = Used /\ Kept' = Kept /\ SafeSlots' = SafeSlots
      BY <2>1 DEF Used, Kept, SafeSlots
    <2>3. Safe' = Safe /\ \A k \in Kept : SlotOf(k)' = SlotOf(k)
      BY <2>1, <2>2 DEF Safe, SlotOf
    <2>4. AgeOf' = AgeOf
      <3>1. AgeOf' = [k \in Kept' |-> graph'.ages[SlotOf(k)']]
        BY DEF AgeOf
      <3> HIDE DEF AgeOf, SlotOf, Kept
      <3>2. QED
        BY <2>1, <2>2, <2>3, <3>1 DEF AgeOf
    <2>5. QED
      BY <2>1, <2>2, <2>3, <2>4 DEF Abstract!vars
  <1>3. ASSUME NEW best \in Used, AgeOnly(best)
        PROVE  Abstract!Next
    <2>1. Abstract!Matched(collection[best]) /\ collection[best] \in Kept
      BY <1>1, <1>3, AgeOnlyMatches DEF OneForOne
    <2>2. QED
      BY <2>1 DEF Abstract!Next
  <1>4. ASSUME NEW best \in Used, NEW c \in Capture \ Kept, NEW row \in [Used -> Overlap], Retain(best, c, row)
        PROVE  Abstract!Next
    <2>1. Abstract!Retained(collection[best], c, ByCapture(row)) /\ collection[best] \in Kept
      BY <1>1, <1>4, RetainRetains DEF OneForOne
    <2>2. ByCapture(row) \in [Kept -> Overlap]
      BY <1>1 DEF OneForOne, ByCapture
    <2>3. QED
      BY <2>1, <2>2 DEF Abstract!Next
  <1>5. CASE Next
    BY <1>3, <1>4, <1>5 DEF Next, Learn
  <1>6. QED
    BY <1>2, <1>5

\* A template that adapts to its finger implements KeptCaptures
\* (fpc_update_template_after_match, fpc_loaded_template_retain_capture).
THEOREM TemplateKeepsCaptures == Spec => KeepsCaptures
  <1>1. TInv => Abstract!Init
    BY AbstractInit
  <1>2. TInv /\ [Next]_vars => TInv'
    BY StepKeepsSafe
  <1>3. TInv /\ [Next]_vars => [Abstract!Next]_(Abstract!vars)
    BY StepsAreAbstract
  <1>4. QED
    BY TInvInit, <1>1, <1>2, <1>3, PTL DEF Spec, KeepsCaptures, Abstract!Spec
=============================================================================
