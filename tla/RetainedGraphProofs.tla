------------------------- MODULE RetainedGraphProofs -------------------------
(***************************************************************************)
(* Facts about retained graphs, and what they and the proofs about other   *)
(* recursive definitions rest on: induction over numbers and finite sets,  *)
(* recursive functions and sums, stated for sets and functions. What is    *)
(* proved by induction is a set that contains the first element and the    *)
(* next one of each of its own; a step of a recursion is a function. The   *)
(* least and the greatest of a set, quotients and the sums of windows      *)
(* follow at the end.                                                      *)
(*                                                                         *)
(* The triangular array of a retained graph has one place for each pair of *)
(* slots, whatever its capacity; a new graph has each score in its place,  *)
(* and its order is a permutation by ascending costs.                      *)
(***************************************************************************)
EXTENDS RetainedGraph, FiniteSetTheorems, TLAPS

-----------------------------------------------------------------------------
(* Induction. *)

\* A set of numbers has a least element.
LEMMA LeastElement ==
  ASSUME NEW T \in SUBSET Nat, T # {}
  PROVE  \E n \in T : \A m \in T : n <= m
  <1>1. PICK x \in T : \A y \in T : ~ (<<y, x>> \in OpToRel(<, Nat))
    BY WFMin, NatLessThanWellFounded
  <1>2. ASSUME NEW y \in T PROVE x <= y
    <2>1. <<y, x>> \in Nat \X Nat
      OBVIOUS
    <2>2. ~(y < x)
      BY <1>1, <2>1 DEF OpToRel
    <2>3. QED
      BY <2>2
  <1>3. QED
    BY <1>2

\* What holds of the first number of an interval, and of each next one, holds
\* of all.
LEMMA IntervalInduction ==
  ASSUME NEW a \in Int, NEW b \in Int, NEW P,
         a <= b => a \in P, \A n \in P : a <= n /\ n < b => n + 1 \in P
  PROVE  a .. b \subseteq P
  <1> SUFFICES ASSUME NEW n \in a .. b, n \notin P PROVE FALSE
    OBVIOUS
  <1> DEFINE T == {k \in Nat : a + k <= b /\ a + k \notin P}
  <1>1. n - a \in T /\ T \in SUBSET Nat
    <2>1. n - a \in Nat /\ a + (n - a) = n /\ n <= b
      OBVIOUS
    <2>2. QED
      BY <2>1
  <1>2. PICK k \in T : \A m \in T : k <= m
    <2>1. T # {}
      BY <1>1
    <2> HIDE DEF T
    <2>2. QED
      BY <1>1, <2>1, LeastElement
  <1>3. k # 0
    BY <1>2
  <1>4. k - 1 \in Nat /\ k - 1 \notin T
    <2>1. k - 1 \in Nat /\ ~ (k <= k - 1)
      BY <1>2, <1>3
    <2>2. QED
      BY <1>2, <2>1
  <1>5. a + (k - 1) \in P
    BY <1>2, <1>4
  <1>6. a <= a + (k - 1) /\ a + (k - 1) < b /\ (a + (k - 1)) + 1 = a + k
    BY <1>2, <1>4
  <1>7. QED
    BY <1>2, <1>5, <1>6

\* What holds of a finite set whenever it holds of its smaller parts holds of
\* every finite set.
LEMMA PartInduction ==
  ASSUME NEW S, IsFiniteSet(S), NEW P,
         \A T \in SUBSET S : (\A U \in SUBSET T : U # T => U \in P) => T \in P
  PROVE  SUBSET S \subseteq P
  <1> DEFINE F == FiniteSubsetsOf(S)
             B == {T \in F : T \notin P}
  <1>1. F = SUBSET S
    BY FS_FiniteSubsetsOfFinite
  <1> SUFFICES ASSUME B # {} PROVE FALSE
    BY <1>1
  <1>2. B \subseteq F /\ IsWellFoundedOn(StrictSubsetOrdering(S), F)
    BY FS_StrictSubsetOrderingWellFounded
  <1>3. PICK T \in B : \A U \in B : ~ (<<U, T>> \in StrictSubsetOrdering(S))
    <2> HIDE DEF F, B
    <2>1. QED
      BY <1>2, WFMin
  <1>4. ASSUME NEW U \in SUBSET T, U # T
        PROVE  U \in P
    <2>1. <<U, T>> \in (SUBSET S) \X (SUBSET S)
      BY <1>1, <1>3
    <2>2. <<U, T>> \in StrictSubsetOrdering(S)
      BY <1>4, <2>1 DEF StrictSubsetOrdering
    <2>3. QED
      BY <1>1, <1>3, <2>2
  <1>5. QED
    BY <1>1, <1>3, <1>4

\* What holds of the empty set, and with a set of each one that has an element
\* more, holds of every finite set.
LEMMA SubsetInduction ==
  ASSUME NEW S, IsFiniteSet(S), NEW P,
         {} \in P, \A T \in SUBSET S : \A x \in S \ T : T \in P => T \cup {x} \in P
  PROVE  S \in P
  <1>1. ASSUME NEW T \in SUBSET S, \A U \in SUBSET T : U # T => U \in P
        PROVE  T \in P
    <2>1. CASE T = {}
      BY <2>1
    <2>2. CASE T # {}
      <3>1. PICK x \in T : TRUE
        BY <2>2
      <3>2. T \ {x} \in P /\ T \ {x} \in SUBSET S /\ x \in S \ (T \ {x}) /\ (T \ {x}) \cup {x} = T
        BY <1>1
      <3>3. QED
        BY <3>2
    <2>3. QED
      BY <2>1, <2>2
  <1>2. QED
    BY <1>1, PartInduction

\* A finite set of numbers has a first one of those that weigh most.
LEMMA BestExists ==
  ASSUME NEW S \in SUBSET Int, IsFiniteSet(S), S # {}, NEW W, \A i \in S : W[i] \in Int
  PROVE  \E i \in S : \A j \in S : W[j] < W[i] \/ (W[j] = W[i] /\ i <= j)
  <1> DEFINE Best(i, T) == \A j \in T : W[j] < W[i] \/ (W[j] = W[i] /\ i <= j)
             P == {T \in SUBSET S : T = {} \/ \E i \in T : Best(i, T)}
  <1>1. {} \in P
    OBVIOUS
  <1>2. ASSUME NEW T \in SUBSET S, NEW x \in S \ T, T \in P
        PROVE  T \cup {x} \in P
    <2>1. CASE T = {}
      <3>1. Best(x, T \cup {x})
        BY <2>1
      <3>2. QED
        BY <3>1
    <2>2. CASE T # {}
      <3>1. PICK i \in T : Best(i, T)
        BY <1>2, <2>2
      <3>2. Best(i, T \cup {x}) \/ Best(x, T \cup {x})
        <4>1. i \in Int /\ x \in Int /\ W[i] \in Int /\ W[x] \in Int /\ \A j \in T : j \in Int /\ W[j] \in Int
          OBVIOUS
        <4>2. (W[x] < W[i] \/ (W[x] = W[i] /\ i <= x)) \/ (W[i] < W[x] \/ (W[i] = W[x] /\ x <= i))
          BY <4>1
        <4>3. QED
          BY <3>1, <4>1, <4>2
      <3>3. QED
        BY <3>1, <3>2
    <2>3. QED
      BY <2>1, <2>2
  <1>3. S \in P
    <2> HIDE DEF P
    <2>1. QED
      BY <1>1, <1>2, SubsetInduction
  <1>4. QED
    BY <1>3

-----------------------------------------------------------------------------
(* Recursion. *)

\* f obeys a recursion, step[<<x, f>>], at x and at all that comes before x.
Obeys(f, R, S, V, step, x) ==
  /\ f \in [S -> V]
  /\ \A y \in S : y = x \/ <<y, x>> \in R => f[y] = step[<<y, f>>]

\* A recursion on S: its step at x looks only at what comes before x.
Recursion(R, S, V, step) ==
  /\ IsWellFoundedOn(R, S) /\ IsTransitivelyClosedOn(R, S)
  /\ V # {} /\ step \in [S \X [S -> V] -> V]
  /\ \A x \in S : \A f, g \in [S -> V] :
       (\A y \in S : <<y, x>> \in R => f[y] = g[y]) => step[<<x, f>>] = step[<<x, g>>]

\* A function that is what the recursion says.
Solution(f, S, V, step) == f \in [S -> V] /\ \A x \in S : f[x] = step[<<x, f>>]

\* Two functions that obey a recursion up to x agree there.
LEMMA ObeyAlike ==
  ASSUME NEW R, NEW S, NEW V, NEW step, Recursion(R, S, V, step), NEW x \in S, NEW f, NEW g,
         Obeys(f, R, S, V, step, x), Obeys(g, R, S, V, step, x)
  PROVE  f[x] = g[x]
  <1> DEFINE T == {y \in S : (y = x \/ <<y, x>> \in R) /\ f[y] # g[y]}
  <1> SUFFICES ASSUME T # {} PROVE FALSE
    OBVIOUS
  <1>1. PICK y \in T : \A z \in T : ~ (<<z, y>> \in R)
    <2>1. T \subseteq S /\ IsWellFoundedOn(R, S)
      BY DEF Recursion
    <2> HIDE DEF T
    <2>2. QED
      BY <2>1, WFMin
  <1>2. \A z \in S : <<z, y>> \in R => f[z] = g[z]
    BY <1>1 DEF Recursion, IsTransitivelyClosedOn
  <1>3. step[<<y, f>>] = step[<<y, g>>]
    BY <1>1, <1>2 DEF Recursion, Obeys
  <1>4. f[y] = step[<<y, f>>] /\ g[y] = step[<<y, g>>]
    BY <1>1 DEF Obeys
  <1>5. QED
    BY <1>1, <1>3, <1>4

\* A recursion has a function that is what it says.
LEMMA RecursionExists ==
  ASSUME NEW R, NEW S, NEW V, NEW step, Recursion(R, S, V, step)
  PROVE  \E f : Solution(f, S, V, step)
  <1> DEFINE part    == [x \in S |-> CHOOSE f : Obeys(f, R, S, V, step, x)]
             Missing == {x \in S : ~ \E f : Obeys(f, R, S, V, step, x)}
             v       == CHOOSE w \in V : TRUE
  <1>1. v \in V /\ step \in [S \X [S -> V] -> V]
    BY DEF Recursion
  <1>2. ASSUME NEW x \in S, x \notin Missing
        PROVE  Obeys(part[x], R, S, V, step, x)
    BY <1>2
  <1> HIDE DEF part, v
  <1>3. ASSUME NEW x \in S, NEW y \in S, <<y, x>> \in R, x \notin Missing, y \notin Missing
        PROVE  part[y][y] = part[x][y]
    <2>1. Obeys(part[x], R, S, V, step, x) /\ Obeys(part[y], R, S, V, step, y)
      BY <1>2, <1>3
    <2>2. Obeys(part[x], R, S, V, step, y)
      BY <1>3, <2>1 DEF Obeys, Recursion, IsTransitivelyClosedOn
    <2>3. QED
      BY <2>1, <2>2, ObeyAlike
  <1>4. Missing = {}
    <2> SUFFICES ASSUME Missing # {} PROVE FALSE
      OBVIOUS
    <2>1. PICK x \in Missing : \A y \in Missing : ~ (<<y, x>> \in R)
      <3>1. Missing \subseteq S /\ IsWellFoundedOn(R, S)
        BY DEF Recursion
      <3> HIDE DEF Missing
      <3>2. QED
        BY <3>1, WFMin
    <2>2. x \in S /\ \A f : ~ Obeys(f, R, S, V, step, x)
      BY <2>1
    <2>3. \A y \in S : <<y, x>> \in R => y \notin Missing
      BY <2>1
    <2> DEFINE h == [y \in S |-> IF <<y, x>> \in R THEN part[y][y] ELSE v]
               k == [h EXCEPT ![x] = step[<<x, h>>]]
    <2>4. h \in [S -> V]
      <3>1. \A y \in S : <<y, x>> \in R => part[y][y] \in V
        BY <1>2, <2>3 DEF Obeys
      <3> HIDE DEF Missing
      <3>2. QED
        BY <1>1, <3>1
    <2>5. k \in [S -> V]
      <3>1. <<x, h>> \in S \X [S -> V]
        BY <2>2, <2>4
      <3>2. step[<<x, h>>] \in V
        BY <1>1, <3>1
      <3> HIDE DEF h
      <3>3. QED
        BY <2>4, <3>2
    <2>6. <<x, x>> \notin R
      BY <2>2, WellFoundedIsIrreflexive DEF Recursion
    <2>7. ASSUME NEW y \in S, <<y, x>> \in R
          PROVE  k[y] = step[<<y, k>>]
      <3>1. part[y] \in [S -> V] /\ part[y][y] = step[<<y, part[y]>>]
        BY <1>2, <2>3, <2>7 DEF Obeys
      <3>2. ASSUME NEW z \in S, <<z, y>> \in R
            PROVE  k[z] = part[y][z]
        <4>1. <<z, x>> \in R
          BY <2>2, <2>7, <3>2 DEF Recursion, IsTransitivelyClosedOn
        <4>2. k[z] = part[z][z]
          BY <2>4, <2>6, <4>1
        <4>3. QED
          BY <1>3, <2>3, <2>7, <3>2, <4>1, <4>2
      <3>3. step[<<y, k>>] = step[<<y, part[y]>>]
        <4> HIDE DEF k, h
        <4>1. QED
          BY <2>5, <3>1, <3>2 DEF Recursion
      <3>4. k[y] = part[y][y]
        BY <2>4, <2>6, <2>7
      <3>5. QED
        BY <3>1, <3>3, <3>4
    <2>8. k[x] = step[<<x, k>>]
      <3>1. \A y \in S : <<y, x>> \in R => k[y] = h[y]
        BY <2>4, <2>6
      <3>2. k[x] = step[<<x, h>>]
        BY <2>2, <2>4
      <3> HIDE DEF k, h
      <3>3. QED
        BY <2>2, <2>4, <2>5, <3>1, <3>2 DEF Recursion
    <2>9. Obeys(k, R, S, V, step, x)
      <3> HIDE DEF k, h
      <3>1. QED
        BY <2>5, <2>7, <2>8 DEF Obeys
    <2>10. QED
      BY <2>2, <2>9
  <1> DEFINE f == [x \in S |-> part[x][x]]
  <1>5. \A x \in S : x \notin Missing
    BY <1>4
  <1> HIDE DEF Missing
  <1>6. f \in [S -> V]
    BY <1>2, <1>5 DEF Obeys
  <1>7. ASSUME NEW x \in S PROVE f[x] = step[<<x, f>>]
    <2>1. part[x] \in [S -> V] /\ part[x][x] = step[<<x, part[x]>>]
      BY <1>2, <1>5 DEF Obeys
    <2>2. \A y \in S : <<y, x>> \in R => f[y] = part[x][y]
      BY <1>3, <1>5
    <2>3. f[x] = part[x][x]
      OBVIOUS
    <2> HIDE DEF f
    <2>4. QED
      BY <1>6, <2>1, <2>2, <2>3 DEF Recursion
  <1> HIDE DEF f
  <1>8. Solution(f, S, V, step)
    BY <1>6, <1>7 DEF Solution
  <1>9. QED
    BY <1>8

\* A walk along the numbers 0 .. n that holds values in V: it starts with v, and
\* what it holds at a place is found from what it held at the one before.
Stepping(n, V, v, step) == n \in Nat /\ v \in V /\ step \in [(0 .. n) \X V -> V]

IsWalk(f, n, V, v, step) ==
  /\ f \in [0 .. n -> V]
  /\ \A p \in 0 .. n : f[p] = step[<<p, IF p = 0 THEN v ELSE f[p - 1]>>]

\* Each such walk can be made.
LEMMA WalkExists ==
  ASSUME NEW n, NEW V, NEW v, NEW step, Stepping(n, V, v, step)
  PROVE  \E f : IsWalk(f, n, V, v, step)
  <1> DEFINE S == 0 .. n
             R == OpToRel(<, Nat)
             Last(p, f) == IF p = 0 THEN v ELSE f[p - 1]
             whole == [a \in S \X [S -> V] |-> step[<<a[1], Last(a[1], a[2])>>]]
  <1>0. n \in Nat /\ v \in V /\ step \in [S \X V -> V]
    BY DEF Stepping
  <1>1. \A x, y \in Nat : <<x, y>> \in R <=> x < y
    BY DEF OpToRel
  <1>2. IsWellFoundedOn(R, S)
    <2>1. S \in SUBSET Nat
      BY <1>0
    <2> HIDE DEF S
    <2>2. QED
      BY <2>1, NatLessThanWellFounded, IsWellFoundedOnSubset
  <1>3. IsTransitivelyClosedOn(R, S)
    <2>1. \A x \in S : x \in Nat
      BY <1>0
    <2> HIDE DEF R, S
    <2>2. QED
      BY <1>1, <2>1 DEF IsTransitivelyClosedOn
  <1>4. ASSUME NEW p \in S, NEW f \in [S -> V]
        PROVE  <<p, Last(p, f)>> \in S \X V
    BY <1>0
  <1>5. ASSUME NEW p \in S, NEW f \in [S -> V]
        PROVE  whole[<<p, f>>] = step[<<p, Last(p, f)>>]
    <2> DEFINE a == <<p, f>>
    <2>1. a \in S \X [S -> V] /\ a[1] = p /\ a[2] = f
      OBVIOUS
    <2> HIDE DEF a, Last, S
    <2>2. whole[a] = step[<<a[1], Last(a[1], a[2])>>]
      BY <2>1
    <2>3. QED
      BY <2>1, <2>2 DEF a
  <1>6. whole \in [S \X [S -> V] -> V]
    <2>1. ASSUME NEW a \in S \X [S -> V]
          PROVE  step[<<a[1], Last(a[1], a[2])>>] \in V
      <3>1. a[1] \in S /\ a[2] \in [S -> V]
        OBVIOUS
      <3>2. <<a[1], Last(a[1], a[2])>> \in S \X V
        BY <1>4, <3>1
      <3> HIDE DEF Last
      <3>3. QED
        BY <1>0, <3>2
    <2> HIDE DEF S, Last
    <2>2. QED
      BY <2>1
  <1>7. ASSUME NEW x \in S, NEW f \in [S -> V], NEW g \in [S -> V],
               \A y \in S : <<y, x>> \in R => f[y] = g[y]
        PROVE  whole[<<x, f>>] = whole[<<x, g>>]
    <2>1. Last(x, f) = Last(x, g)
      <3>1. CASE x = 0
        BY <3>1
      <3>2. CASE x # 0
        <4>1. x - 1 \in S /\ x - 1 \in Nat /\ x \in Nat /\ x - 1 < x
          BY <1>0, <3>2
        <4> HIDE DEF S, R
        <4>2. f[x - 1] = g[x - 1]
          BY <1>1, <1>7, <4>1
        <4>3. QED
          BY <3>2, <4>2
      <3>3. QED
        BY <3>1, <3>2
    <2> HIDE DEF whole, Last
    <2>2. QED
      BY <1>5, <2>1
  <1>8. PICK f : Solution(f, S, V, whole)
    <2> HIDE DEF whole, S, R
    <2>1. Recursion(R, S, V, whole)
      BY <1>0, <1>2, <1>3, <1>6, <1>7 DEF Recursion
    <2>2. QED
      BY <2>1, RecursionExists
  <1>9. \A p \in S : f[p] = step[<<p, Last(p, f)>>]
    <2> HIDE DEF whole, Last, S, R
    <2>1. QED
      BY <1>5, <1>8 DEF Solution
  <1>10. f \in [S -> V]
    BY <1>8 DEF Solution
  <1>11. IsWalk(f, n, V, v, step)
    BY <1>9, <1>10 DEF IsWalk
  <1>12. QED
    BY <1>11

-----------------------------------------------------------------------------
(* Sums. *)

\* The values of a function summed over each part of a set, one element after
\* the other: what the fold of the community modules computes.
IsFold(iter, fun, S) ==
  iter = [T \in SUBSET S |->
            IF T = {} THEN 0
            ELSE fun[CHOOSE x \in T : TRUE] + iter[T \ {CHOOSE x \in T : TRUE}]]

\* The fold over a finite set exists.
LEMMA FoldExists ==
  ASSUME NEW S, IsFiniteSet(S), NEW fun, \A x \in S : fun[x] \in Int
  PROVE  \E iter \in [SUBSET S -> Int] : IsFold(iter, fun, S)
  <1> DEFINE P == SUBSET S
             R == StrictSubsetOrdering(S)
             Pick(T) == CHOOSE x \in T : TRUE
             Step(T, f) == IF T = {} THEN 0 ELSE fun[Pick(T)] + f[T \ {Pick(T)}]
             step == [a \in P \X [P -> Int] |-> Step(a[1], a[2])]
  <1>1. IsWellFoundedOn(R, P)
    BY FS_StrictSubsetOrderingWellFounded, FS_FiniteSubsetsOfFinite
  <1>2. \A T, U \in P : <<T, U>> \in R <=> T \subseteq U /\ T # U
    BY DEF StrictSubsetOrdering
  <1>3. IsTransitivelyClosedOn(R, P)
    <2> HIDE DEF R
    <2>1. QED
      BY <1>2 DEF IsTransitivelyClosedOn
  <1>4. ASSUME NEW T \in P, T # {}
        PROVE  Pick(T) \in T /\ Pick(T) \in S /\ T \ {Pick(T)} \in P /\ T \ {Pick(T)} # T
    BY <1>4
  <1> HIDE DEF Pick, R, P
  <1>5. ASSUME NEW T \in P, NEW f \in [P -> Int]
        PROVE  Step(T, f) \in Int
    BY <1>4, <1>5
  <1>6. ASSUME NEW T \in P, NEW f \in [P -> Int]
        PROVE  step[<<T, f>>] = Step(T, f)
    <2> HIDE DEF Step
    <2>1. QED
      OBVIOUS
  <1>7. step \in [P \X [P -> Int] -> Int]
    <2> HIDE DEF Step
    <2>1. QED
      BY <1>5
  <1>8. ASSUME NEW T \in P, NEW f \in [P -> Int], NEW g \in [P -> Int],
               \A U \in P : <<U, T>> \in R => f[U] = g[U]
        PROVE  step[<<T, f>>] = step[<<T, g>>]
    <2>1. Step(T, f) = Step(T, g)
      <3>1. CASE T = {}
        BY <3>1
      <3>2. CASE T # {}
        <4>1. <<T \ {Pick(T)}, T>> \in R
          BY <1>2, <1>4, <3>2
        <4>2. QED
          BY <1>4, <1>8, <3>2, <4>1
      <3>3. QED
        BY <3>1, <3>2
    <2> HIDE DEF Step, step
    <2>2. QED
      BY <1>6, <2>1
  <1>9. PICK f : Solution(f, P, Int, step)
    <2> HIDE DEF step
    <2>1. Recursion(R, P, Int, step)
      <3>1. Int # {}
        OBVIOUS
      <3>2. QED
        BY <1>1, <1>3, <1>7, <1>8, <3>1 DEF Recursion
    <2>2. QED
      BY <2>1, RecursionExists
  <1>10. f = [T \in P |-> Step(T, f)]
    <2> HIDE DEF Step, step
    <2>1. QED
      BY <1>6, <1>9 DEF Solution
  <1>11. IsFold(f, fun, S)
    BY <1>10 DEF IsFold, P, Pick
  <1>12. QED
    BY <1>9, <1>11 DEF Solution, P

\* Every fold over a finite set yields numbers, and the element it starts with
\* does not matter.
LEMMA FoldSplits ==
  ASSUME NEW S, IsFiniteSet(S), NEW fun, \A x \in S : fun[x] \in Int, NEW iter, IsFold(iter, fun, S)
  PROVE  /\ iter[{}] = 0
         /\ \A T \in SUBSET S : iter[T] \in Int
         /\ \A T \in SUBSET S : \A x \in T : iter[T] = fun[x] + iter[T \ {x}]
  <1> DEFINE Pick(T) == CHOOSE x \in T : TRUE
             Splits(T) == iter[T] \in Int /\ \A x \in T : iter[T] = fun[x] + iter[T \ {x}]
             P == {T \in SUBSET S : Splits(T)}
  <1>1. iter[{}] = 0 /\ \A T \in SUBSET S : T # {} => iter[T] = fun[Pick(T)] + iter[T \ {Pick(T)}]
    BY DEF IsFold
  <1>2. \A T \in SUBSET S : T # {} => Pick(T) \in T
    OBVIOUS
  <1> HIDE DEF Pick
  <1>3. ASSUME NEW T \in SUBSET S, \A U \in SUBSET T : U # T => U \in P
        PROVE  T \in P
    <2> DEFINE p == Pick(T)
    <2>1. CASE T = {}
      BY <1>1, <2>1
    <2>2. CASE T # {}
      <3>1. p \in T /\ fun[p] \in Int /\ iter[T] = fun[p] + iter[T \ {p}]
        BY <1>1, <1>2, <2>2
      <3>2. Splits(T \ {p})
        BY <1>3, <3>1
      <3>3. iter[T] \in Int
        BY <3>1, <3>2
      <3>4. ASSUME NEW x \in T, x # p
            PROVE  iter[T] = fun[x] + iter[T \ {x}]
        <4>1. iter[T \ {p}] = fun[x] + iter[(T \ {p}) \ {x}]
          BY <3>2, <3>4
        <4>2. Splits(T \ {x})
          BY <1>3, <3>4
        <4>3. (T \ {x}) \ {p} = (T \ {p}) \ {x}
          OBVIOUS
        <4>4. iter[T \ {x}] = fun[p] + iter[(T \ {p}) \ {x}]
          <5>1. iter[T \ {x}] = fun[p] + iter[(T \ {x}) \ {p}]
            BY <3>1, <3>4, <4>2
          <5>2. QED
            BY <4>3, <5>1, Zenon
        <4>5. fun[x] \in Int /\ iter[(T \ {p}) \ {x}] \in Int
          <5>1. Splits((T \ {p}) \ {x})
            BY <1>3, <3>4
          <5>2. QED
            BY <3>4, <5>1
        <4> HIDE DEF p
        <4>6. QED
          BY <3>1, <4>1, <4>4, <4>5
      <3>5. QED
        BY <3>1, <3>3, <3>4
    <2>3. QED
      BY <2>1, <2>2
  <1> HIDE DEF Splits
  <1>4. SUBSET S \subseteq P
    <2> HIDE DEF P
    <2>1. QED
      BY <1>3, PartInduction
  <1>5. QED
    BY <1>1, <1>4 DEF Splits

\* Folds of functions with the same values agree, whatever sets they are for.
LEMMA FoldsAgree ==
  ASSUME NEW S, NEW T, T \subseteq S, IsFiniteSet(T), NEW f, NEW g, \A x \in T : f[x] = g[x],
         NEW one, NEW other, IsFold(one, f, S), IsFold(other, g, T)
  PROVE  one[T] = other[T]
  <1> DEFINE P == {U \in SUBSET T : one[U] = other[U]}
             Pick(U) == CHOOSE x \in U : TRUE
  <1>1. /\ one[{}] = 0 /\ other[{}] = 0
        /\ \A U \in SUBSET T : U # {} => one[U] = f[Pick(U)] + one[U \ {Pick(U)}]
        /\ \A U \in SUBSET T : U # {} => other[U] = g[Pick(U)] + other[U \ {Pick(U)}]
    BY DEF IsFold
  <1>2. \A U \in SUBSET T : U # {} => Pick(U) \in U
    OBVIOUS
  <1> HIDE DEF Pick
  <1>3. ASSUME NEW V \in SUBSET T, \A U \in SUBSET V : U # V => U \in P
        PROVE  V \in P
    <2>1. CASE V = {}
      BY <1>1, <2>1
    <2>2. CASE V # {}
      <3>1. Pick(V) \in V /\ V \ {Pick(V)} \in P
        BY <1>2, <1>3, <2>2
      <3>2. QED
        BY <1>1, <2>2, <3>1
    <2>3. QED
      BY <2>1, <2>2
  <1>4. SUBSET T \subseteq P
    <2> HIDE DEF P
    <2>1. QED
      BY <1>3, PartInduction
  <1>5. QED
    BY <1>4

\* The sum over a finite set is a fold.
LEMMA SumIsFold ==
  ASSUME NEW S, IsFiniteSet(S), NEW fun, \A x \in S : fun[x] \in Int
  PROVE  \E iter : IsFold(iter, fun, S) /\ SumFunctionOnSet(fun, S) = iter[S]
  <1> DEFINE iter == CHOOSE g : IsFold(g, fun, S)
  <1>1. \E g : IsFold(g, fun, S)
    BY FoldExists
  <1>2. SumFunctionOnSet(fun, S) = iter[S]
    BY DEF SumFunctionOnSet, FoldFunctionOnSet, MapThenFoldSet, IsFold
  <1>3. IsFold(iter, fun, S)
    BY <1>1
  <1> HIDE DEF iter
  <1>4. QED
    BY <1>2, <1>3

\* The sum over a finite set is a number; over no element it is 0, and each
\* element can be split off.
LEMMA SumSplits ==
  ASSUME NEW S, IsFiniteSet(S), NEW fun, \A x \in S : fun[x] \in Int
  PROVE  /\ SumFunctionOnSet(fun, S) \in Int
         /\ S = {} => SumFunctionOnSet(fun, S) = 0
         /\ \A x \in S : SumFunctionOnSet(fun, S) = fun[x] + SumFunctionOnSet(fun, S \ {x})
  <1>1. PICK iter : IsFold(iter, fun, S) /\ SumFunctionOnSet(fun, S) = iter[S]
    BY SumIsFold
  <1>2. /\ iter[{}] = 0 /\ iter[S] \in Int
        /\ \A x \in S : iter[S] = fun[x] + iter[S \ {x}]
    BY <1>1, FoldSplits
  <1>3. ASSUME NEW x \in S
        PROVE  SumFunctionOnSet(fun, S \ {x}) = iter[S \ {x}]
    <2>1. IsFiniteSet(S \ {x})
      BY FS_RemoveElement
    <2>2. PICK other : IsFold(other, fun, S \ {x}) /\ SumFunctionOnSet(fun, S \ {x}) = other[S \ {x}]
      BY <2>1, SumIsFold
    <2>3. iter[S \ {x}] = other[S \ {x}]
      BY <1>1, <2>1, <2>2, FoldsAgree
    <2>4. QED
      BY <2>2, <2>3
  <1>4. QED
    BY <1>1, <1>2, <1>3

\* A sum does not change when its elements get other names.
LEMMA SumRenamed ==
  ASSUME NEW S, IsFiniteSet(S), NEW f, \A x \in S : f[x] \in Int,
         NEW b, \A x, y \in S : b[x] = b[y] => x = y,
         NEW g, \A x \in S : g[b[x]] = f[x]
  PROVE  SumFunctionOnSet(f, S) = SumFunctionOnSet(g, {b[x] : x \in S})
  <1> DEFINE Image(T) == {b[x] : x \in T}
             P == {T \in SUBSET S : /\ IsFiniteSet(T) /\ IsFiniteSet(Image(T))
                                    /\ SumFunctionOnSet(f, T) = SumFunctionOnSet(g, Image(T))}
  <1>1. {} \in P
    <2>1. Image({}) = {} /\ IsFiniteSet({})
      BY FS_EmptySet
    <2>2. SumFunctionOnSet(f, {}) = 0 /\ SumFunctionOnSet(g, {}) = 0
      BY <2>1, SumSplits
    <2> HIDE DEF Image
    <2>3. QED
      BY <2>1, <2>2
  <1>2. ASSUME NEW T \in SUBSET S, NEW x \in S \ T, T \in P
        PROVE  T \cup {x} \in P
    <2> DEFINE T1 == T \cup {x}
    <2>1. Image(T1) = Image(T) \cup {b[x]} /\ b[x] \notin Image(T)
      OBVIOUS
    <2>2. IsFiniteSet(T1) /\ IsFiniteSet(Image(T1))
      <3>1. IsFiniteSet(T) /\ IsFiniteSet(Image(T))
        BY <1>2
      <3> HIDE DEF Image
      <3>2. IsFiniteSet(T \cup {x}) /\ IsFiniteSet(Image(T) \cup {b[x]})
        BY <3>1, FS_AddElement
      <3>3. QED
        BY <2>1, <3>2, Zenon
    <2>3. \A y \in Image(T1) : g[y] \in Int
      OBVIOUS
    <2>4. T1 \ {x} = T /\ Image(T1) \ {b[x]} = Image(T)
      BY <2>1
    <2>5. SumFunctionOnSet(f, T1) = f[x] + SumFunctionOnSet(f, T)
      <3>1. x \in T1 /\ \A y \in T1 : f[y] \in Int
        OBVIOUS
      <3>2. SumFunctionOnSet(f, T1) = f[x] + SumFunctionOnSet(f, T1 \ {x})
        BY <2>2, <3>1, SumSplits
      <3>3. QED
        BY <2>4, <3>2
    <2>6. SumFunctionOnSet(g, Image(T1)) = g[b[x]] + SumFunctionOnSet(g, Image(T))
      <3>1. b[x] \in Image(T1)
        BY <2>1
      <3> HIDE DEF Image, T1
      <3>2. SumFunctionOnSet(g, Image(T1)) = g[b[x]] + SumFunctionOnSet(g, Image(T1) \ {b[x]})
        BY <2>2, <2>3, <3>1, SumSplits
      <3>3. QED
        BY <2>4, <3>2
    <2>7. g[b[x]] = f[x]
      OBVIOUS
    <2> HIDE DEF Image
    <2>8. QED
      BY <1>2, <2>2, <2>5, <2>6, <2>7
  <1> HIDE DEF Image
  <1>3. S \in P
    <2> HIDE DEF P
    <2>1. QED
      BY <1>1, <1>2, SubsetInduction
  <1>4. QED
    BY <1>3 DEF Image

\* Functions with the same values have the same sum.
LEMMA SumsAgree ==
  ASSUME NEW S, IsFiniteSet(S), NEW f, NEW g, \A x \in S : f[x] \in Int /\ g[x] = f[x]
  PROVE  SumFunctionOnSet(f, S) = SumFunctionOnSet(g, S)
  <1>1. PICK one : IsFold(one, f, S) /\ SumFunctionOnSet(f, S) = one[S]
    BY SumIsFold
  <1>2. PICK other : IsFold(other, g, S) /\ SumFunctionOnSet(g, S) = other[S]
    BY SumIsFold
  <1>3. one[S] = other[S]
    BY <1>1, <1>2, FoldsAgree
  <1>4. QED
    BY <1>1, <1>2, <1>3

\* A sum of natural numbers is one, and it is 0 just if all of them are.
LEMMA SumPositive ==
  ASSUME NEW S, IsFiniteSet(S), NEW fun, \A x \in S : fun[x] \in Nat
  PROVE  /\ SumFunctionOnSet(fun, S) \in Nat
         /\ SumFunctionOnSet(fun, S) > 0 <=> \E x \in S : fun[x] > 0
  <1> DEFINE Sum(T) == SumFunctionOnSet(fun, T)
             P == {T \in SUBSET S : Sum(T) \in Nat /\ (Sum(T) > 0 <=> \E x \in T : fun[x] > 0)}
  <1>1. {} \in P
    <2>1. SumFunctionOnSet(fun, {}) = 0
      BY SumSplits, FS_EmptySet
    <2>2. QED
      BY <2>1
  <1>2. ASSUME NEW T \in SUBSET S, NEW x \in S \ T, T \in P
        PROVE  T \cup {x} \in P
    <2>1. IsFiniteSet(T \cup {x}) /\ (T \cup {x}) \ {x} = T
      BY FS_Subset, FS_AddElement
    <2>2. \A y \in T \cup {x} : fun[y] \in Int
      OBVIOUS
    <2>3. SumFunctionOnSet(fun, T \cup {x}) = fun[x] + SumFunctionOnSet(fun, (T \cup {x}) \ {x})
      BY <2>1, <2>2, SumSplits
    <2>4. Sum(T \cup {x}) = fun[x] + Sum(T)
      BY <2>1, <2>3
    <2>5. fun[x] \in Nat /\ Sum(T) \in Nat /\ (Sum(T) > 0 <=> \E y \in T : fun[y] > 0)
      BY <1>2
    <2> HIDE DEF Sum
    <2>6. QED
      BY <2>4, <2>5
  <1>3. S \in P
    <2> HIDE DEF P
    <2>1. QED
      BY <1>1, <1>2, SubsetInduction
  <1>4. QED
    BY <1>3

-----------------------------------------------------------------------------
(* Places in the array. *)

\* Half of n * (n - 1) is whole.
LEMMA PairsHalf == \A n \in Nat : Pairs(n) \in Nat /\ 2 * Pairs(n) = n * (n - 1)
  <1> SUFFICES ASSUME NEW n \in Nat PROVE Pairs(n) \in Nat /\ 2 * Pairs(n) = n * (n - 1)
    OBVIOUS
  <1>1. PICK k \in Nat : n = 2 * k \/ n = 2 * k + 1
    <2>1. n \div 2 \in Nat /\ (n = 2 * (n \div 2) \/ n = 2 * (n \div 2) + 1)
      OBVIOUS
    <2>2. QED
      BY <2>1
  <1>2. CASE n = 2 * k
    <2>1. n * (n - 1) = 2 * (k * (2 * k - 1))
      BY <1>2
    <2>2. k * (2 * k - 1) \in Nat
      <3>1. CASE k = 0
        BY <3>1
      <3>2. CASE k > 0
        BY <3>2
      <3>3. QED
        BY <3>1, <3>2
    <2>3. QED
      BY <2>1, <2>2 DEF Pairs
  <1>3. CASE n = 2 * k + 1
    <2>1. n * (n - 1) = 2 * ((2 * k + 1) * k) /\ (2 * k + 1) * k \in Nat
      BY <1>3
    <2>2. QED
      BY <2>1 DEF Pairs
  <1>4. QED
    BY <1>1, <1>2, <1>3

\* Twice the place of a pair, low < high, in an array for m + 2 slots.
Double(m, low, high) == 2 * low * m - low * (low - 1) + 2 * (high - 1)

\* The place of a pair, without the halving (fpc_enrollment_pair_index).
LEMMA IndexDoubled ==
  ASSUME NEW c \in Nat, c >= 2, NEW i \in Slots(c), NEW j \in Slots(c), i < j
  PROVE  /\ PairIndex(c, i, j) = PairIndex(c, j, i)
         /\ PairIndex(c, i, j) \in Int
         /\ 2 * PairIndex(c, i, j) = Double(c - 2, i, j)
  <1>1. i \in Nat /\ j \in Nat /\ ~(j < i)
    BY DEF Slots
  <1>2. PairIndex(c, i, j) = i * (c - 2) - (i * (i - 1)) \div 2 + j - 1
        /\ PairIndex(c, j, i) = i * (c - 2) - (i * (i - 1)) \div 2 + j - 1
    BY <1>1 DEF PairIndex, Lesser, Larger
  <1>3. Pairs(i) \in Nat /\ 2 * Pairs(i) = i * (i - 1)
    BY <1>1, PairsHalf
  <1>4. PairIndex(c, i, j) = i * (c - 2) - Pairs(i) + j - 1
    BY <1>2 DEF Pairs
  <1>5. i * (c - 2) \in Int
    BY <1>1
  <1>6. PairIndex(c, i, j) \in Int
    BY <1>1, <1>3, <1>4, <1>5
  <1>7. 2 * PairIndex(c, i, j) = 2 * (i * (c - 2)) - 2 * Pairs(i) + 2 * (j - 1)
    BY <1>1, <1>3, <1>4, <1>5
  <1>8. 2 * (i * (c - 2)) = 2 * i * (c - 2)
    BY <1>1
  <1>9. QED
    BY <1>2, <1>3, <1>6, <1>7, <1>8 DEF Double

\* The pairs of a lower slot come before the pairs of higher ones.
LEMMA RowsApart ==
  ASSUME NEW m \in Nat, NEW l \in Nat, NEW k \in Nat, NEW x \in Nat, NEW y \in Nat,
         x <= m + 1, l < k, k < y, y <= m + 1
  PROVE  Double(m, l, x) < Double(m, k, y)
  <1> DEFINE d == k - l
             slack == (d - 1) * (2 * m - l - k + 1)
  <1>1. Double(m, k, y) - Double(m, l, x)
          = slack + (d + 1) + 2 * (y - k - 1) + 2 * (m + 1 - x)
    BY DEF Double
  <1>2. 2 * m - l - k + 1 \in Nat /\ d - 1 \in Nat
    OBVIOUS
  <1>3. slack \in Nat
    BY <1>2
  <1>4. Double(m, k, y) \in Int /\ Double(m, l, x) \in Int
    BY DEF Double
  <1> HIDE DEF slack
  <1>5. QED
    BY <1>1, <1>3, <1>4

\* The place of a pair is within the array (fpc_enrollment_pair_index,
\* fpc_retained_graph_create).
THEOREM PlaceInArray ==
  ASSUME NEW c \in Nat, c >= 2, NEW i \in Slots(c), NEW j \in Slots(c), i # j
  PROVE  PairIndex(c, i, j) \in Slots(Pairs(c))
  <1>1. ASSUME NEW l \in Slots(c), NEW h \in Slots(c), l < h
        PROVE  PairIndex(c, l, h) \in Slots(Pairs(c))
    <2> DEFINE m == c - 2
    <2>1. m \in Nat /\ l \in Nat /\ h \in Nat /\ h <= m + 1 /\ l <= m
      BY <1>1 DEF Slots
    <2>2. PairIndex(c, l, h) \in Int /\ 2 * PairIndex(c, l, h) = Double(m, l, h)
      BY <1>1, IndexDoubled
    <2>3. Double(m, 0, 1) = 0 /\ Double(m, m, m + 1) = m * (m + 3)
      BY <2>1 DEF Double
    <2>4. Double(m, l, h) >= 0
      <3>1. CASE l = 0
        BY <1>1, <2>1, <3>1 DEF Double
      <3>2. CASE l > 0
        <4>1. Double(m, 0, 1) < Double(m, l, h)
          BY <1>1, <2>1, <3>2, RowsApart
        <4>2. QED
          BY <2>1, <2>2, <2>3, <4>1
      <3>3. QED
        BY <2>1, <3>1, <3>2
    <2>5. Double(m, l, h) <= m * (m + 3)
      <3>1. CASE l = m
        <4>1. h = m + 1
          BY <1>1, <2>1, <3>1
        <4>2. QED
          BY <2>1, <2>3, <3>1, <4>1
      <3>2. CASE l < m
        <4>1. m + 1 \in Nat /\ m < m + 1
          BY <2>1
        <4>2. Double(m, l, h) < Double(m, m, m + 1)
          BY <2>1, <3>2, <4>1, RowsApart
        <4>3. QED
          BY <2>1, <2>2, <2>3, <4>1, <4>2
      <3>3. QED
        BY <2>1, <3>1, <3>2
    <2>6. Pairs(c) \in Nat /\ 2 * Pairs(c) = m * (m + 3) + 2
      <3>1. c * (c - 1) = m * (m + 3) + 2
        OBVIOUS
      <3>2. QED
        BY <3>1, PairsHalf
    <2>7. m * (m + 3) \in Int
      BY <2>1
    <2> HIDE DEF m
    <2>8. QED
      BY <2>2, <2>4, <2>5, <2>6, <2>7 DEF Slots
  <1>2. i \in Int /\ j \in Int
    BY DEF Slots
  <1>3. QED
    BY <1>1, <1>2, IndexDoubled

\* No two pairs share a place (fpc_enrollment_pair_index).
THEOREM PairsApart ==
  ASSUME NEW c \in Nat, c >= 2, NEW i \in Slots(c), NEW j \in Slots(c), i # j,
         NEW k \in Slots(c), NEW l \in Slots(c), k # l,
         PairIndex(c, i, j) = PairIndex(c, k, l)
  PROVE  {i, j} = {k, l}
  <1>1. ASSUME NEW a \in Slots(c), NEW b \in Slots(c), a < b,
               NEW x \in Slots(c), NEW y \in Slots(c), x < y,
               PairIndex(c, a, b) = PairIndex(c, x, y)
        PROVE  a = x /\ b = y
    <2> DEFINE m == c - 2
    <2>1. m \in Nat /\ a \in Nat /\ b \in Nat /\ x \in Nat /\ y \in Nat
          /\ b <= m + 1 /\ y <= m + 1
      BY DEF Slots
    <2>2. Double(m, a, b) = Double(m, x, y)
      BY <1>1, IndexDoubled
    <2>3. ~(a < x)
      <3> SUFFICES ASSUME a < x PROVE FALSE
        OBVIOUS
      <3>1. Double(m, a, b) < Double(m, x, y)
        BY <1>1, <2>1, RowsApart
      <3>2. Double(m, a, b) \in Int
        BY <2>1 DEF Double
      <3>3. QED
        BY <2>2, <3>1, <3>2
    <2>4. ~(x < a)
      <3> SUFFICES ASSUME x < a PROVE FALSE
        OBVIOUS
      <3>1. Double(m, x, y) < Double(m, a, b)
        BY <1>1, <2>1, RowsApart
      <3>2. Double(m, x, y) \in Int
        BY <2>1 DEF Double
      <3>3. QED
        BY <2>2, <3>1, <3>2
    <2>5. a = x
      BY <2>1, <2>3, <2>4
    <2>6. b = y
      BY <2>1, <2>2, <2>5 DEF Double
    <2>7. QED
      BY <2>5, <2>6
  <1>2. i \in Int /\ j \in Int /\ k \in Int /\ l \in Int
    BY DEF Slots
  <1>3. (i < j => PairIndex(c, j, i) = PairIndex(c, i, j)) /\ (j < i => PairIndex(c, i, j) = PairIndex(c, j, i))
        /\ (k < l => PairIndex(c, l, k) = PairIndex(c, k, l)) /\ (l < k => PairIndex(c, k, l) = PairIndex(c, l, k))
    BY IndexDoubled
  <1>4. CASE i < j /\ k < l
    BY <1>1, <1>4
  <1>5. CASE i < j /\ l < k
    BY <1>1, <1>3, <1>5
  <1>6. CASE j < i /\ k < l
    BY <1>1, <1>3, <1>6
  <1>7. CASE j < i /\ l < k
    <2>1. PairIndex(c, j, i) = PairIndex(c, l, k)
      BY <1>3, <1>7
    <2>2. j = l /\ i = k
      BY <1>1, <1>7, <2>1
    <2>3. QED
      BY <2>2
  <1>8. (i < j \/ j < i) /\ (k < l \/ l < k)
    BY <1>2
  <1>9. QED
    BY <1>4, <1>5, <1>6, <1>7, <1>8, Zenon

-----------------------------------------------------------------------------
(* Orders. *)

\* The slots of a graph are finitely many.
LEMMA SlotsFinite ==
  ASSUME NEW n \in Nat
  PROVE  IsFiniteSet(Slots(n)) /\ Cardinality(Slots(n)) = n /\ \A S \in SUBSET Slots(n) : IsFiniteSet(S)
  <1>1. IsFiniteSet(Slots(n)) /\ Cardinality(Slots(n)) = n
    <2>1. 0 \in Int /\ n - 1 \in Int
      OBVIOUS
    <2>2. IsFiniteSet(0 .. n - 1) /\ Cardinality(0 .. n - 1) = IF 0 > n - 1 THEN 0 ELSE (n - 1) - 0 + 1
      BY <2>1, FS_Interval
    <2>3. QED
      BY <2>2 DEF Slots
  <1>2. QED
    BY <1>1, FS_Subset

\* The slots that an order by ascending costs puts before slot s.
Before(g, s) == {t \in Slots(g.used) : Cost(g, t) < Cost(g, s) \/ (Cost(g, t) = Cost(g, s) /\ t < s)}

Costed(g, n) ==
  /\ n \in Nat /\ g.capacity = n /\ g.used \in 0 .. n
  /\ \A i \in Slots(n) : Cost(g, i) \in Int

\* Each slot in use has a rank of its own, and each rank its slot.
LEMMA RanksApart ==
  ASSUME NEW n, NEW g, Costed(g, n)
  PROVE  /\ \A s \in Slots(g.used) : Cardinality(Before(g, s)) \in Slots(g.used)
         /\ \A s, t \in Slots(g.used) : Cardinality(Before(g, s)) = Cardinality(Before(g, t)) => s = t
         /\ \A p \in Slots(g.used) : \E s \in Slots(g.used) : Cardinality(Before(g, s)) = p
  <1> DEFINE U == Slots(g.used)
             rank == [s \in U |-> Cardinality(Before(g, s))]
  <1>1. g.used \in Nat /\ U \subseteq Slots(n) /\ IsFiniteSet(U) /\ Cardinality(U) = g.used
    BY SlotsFinite DEF Costed, Slots
  <1>2. \A s \in U : Cost(g, s) \in Int /\ s \in Int
    BY <1>1 DEF Costed, Slots
  <1>3. \A s \in U : Before(g, s) \in SUBSET U /\ IsFiniteSet(Before(g, s)) /\ Cardinality(Before(g, s)) \in Nat
    <2>1. \A s \in U : Before(g, s) \in SUBSET U
      BY DEF Before
    <2> HIDE DEF U
    <2>2. QED
      BY <1>1, <2>1, FS_Subset, FS_CardinalityType
  <1>4. ASSUME NEW s \in U
        PROVE  s \notin Before(g, s)
    BY <1>2 DEF Before
  <1>5. ASSUME NEW s \in U
        PROVE  Cardinality(Before(g, s)) \in Slots(g.used)
    <2>1. Before(g, s) # U /\ Before(g, s) \in SUBSET U
      BY <1>3, <1>4
    <2>2. Cardinality(Before(g, s)) <= Cardinality(U) /\ Cardinality(Before(g, s)) # Cardinality(U)
      <3> HIDE DEF U
      <3>1. QED
        BY <1>1, <2>1, FS_Subset
    <2>3. QED
      BY <1>1, <1>3, <2>2 DEF Slots
  <1>6. ASSUME NEW s \in U, NEW t \in U, t \in Before(g, s)
        PROVE  Cardinality(Before(g, t)) # Cardinality(Before(g, s))
    <2>1. Before(g, t) \subseteq Before(g, s)
      BY <1>2, <1>6 DEF Before
    <2>2. Before(g, t) # Before(g, s)
      BY <1>4, <1>6
    <2>3. IsFiniteSet(Before(g, s))
      BY <1>3
    <2>4. QED
      BY <2>1, <2>2, <2>3, FS_Subset
  <1>7. ASSUME NEW s \in U, NEW t \in U, s # t
        PROVE  t \in Before(g, s) \/ s \in Before(g, t)
    BY <1>2, <1>7 DEF Before
  <1>8. \A s, t \in U : Cardinality(Before(g, s)) = Cardinality(Before(g, t)) => s = t
    BY <1>6, <1>7
  <1>9. rank \in Injection(U, U)
    <2>1. rank \in [U -> U]
      BY <1>5
    <2>2. QED
      BY <1>8, <2>1 DEF Injection, IsInjective
  <1>10. rank \in Surjection(U, U)
    <2> HIDE DEF rank, U
    <2>1. QED
      BY <1>1, <1>9, FS_Injection
  <1>11. \A p \in U : \E s \in U : rank[s] = p
    <2> HIDE DEF rank, U
    <2>1. QED
      BY <1>10 DEF Surjection
  <1>12. QED
    BY <1>5, <1>8, <1>11

\* The order puts each slot in use at the place of its rank
\* (fpc_enrollment_initial_order).
LEMMA OrderedByRank ==
  ASSUME NEW n, NEW g, Costed(g, n), NEW p \in Slots(g.used)
  PROVE  /\ InitialOrder(g)[p] \in Slots(g.used)
         /\ Cardinality(Before(g, InitialOrder(g)[p])) = p
  <1> DEFINE U    == Slots(g.used)
             s(q) == CHOOSE t \in U : Cardinality(Before(g, t)) = q
  <1>1. p \in Slots(n) /\ ~ (p >= g.used)
    BY DEF Costed, Slots
  <1>2. InitialOrder(g) = [q \in Slots(n) |-> IF q >= g.used THEN q ELSE s(q)]
    BY DEF InitialOrder, Before, Costed
  <1>3. \E t \in U : Cardinality(Before(g, t)) = p
    BY RanksApart
  <1>4. s(p) \in U /\ Cardinality(Before(g, s(p))) = p
    <2> HIDE DEF U
    <2>1. QED
      BY <1>3
  <1> HIDE DEF s
  <1>5. InitialOrder(g)[p] = s(p)
    BY <1>1, <1>2
  <1>6. QED
    BY <1>4, <1>5

\* The order is a permutation of the slots (fpc_enrollment_initial_order).
LEMMA OrderPermutes ==
  ASSUME NEW n, NEW g, Costed(g, n)
  PROVE  /\ InitialOrder(g) \in [Slots(n) -> Slots(n)]
         /\ \A p, q \in Slots(n) : InitialOrder(g)[p] = InitialOrder(g)[q] => p = q
  <1> DEFINE order == InitialOrder(g)
             U     == Slots(g.used)
  <1>1. n \in Nat /\ g.capacity = n /\ g.used \in 0 .. n
    BY DEF Costed
  <1>2. order = [p \in Slots(n) |-> IF p >= g.used THEN p ELSE CHOOSE s \in U : Cardinality(Before(g, s)) = p]
    BY <1>1 DEF InitialOrder, Before
  <1>3. ASSUME NEW p \in Slots(n), ~ (p >= g.used)
        PROVE  order[p] \in U /\ Cardinality(Before(g, order[p])) = p
    <2>1. p \in Slots(g.used)
      BY <1>1, <1>3 DEF Slots
    <2>2. QED
      BY <2>1, OrderedByRank
  <1>4. ASSUME NEW p \in Slots(n), p >= g.used
        PROVE  order[p] = p /\ p \notin U
    <2>1. p \notin U
      BY <1>1, <1>4 DEF Slots
    <2> HIDE DEF order
    <2>2. QED
      BY <1>2, <1>4, <2>1
  <1>5. U \subseteq Slots(n)
    BY <1>1 DEF Slots
  <1> HIDE DEF order, U
  <1>6. order \in [Slots(n) -> Slots(n)]
    BY <1>2, <1>3, <1>4, <1>5
  <1>7. ASSUME NEW p \in Slots(n), NEW q \in Slots(n), order[p] = order[q]
        PROVE  p = q
    BY <1>3, <1>4, <1>7
  <1>8. QED
    BY <1>6, <1>7 DEF order

\* The order lists the slots in use by ascending costs
\* (fpc_enrollment_initial_order).
LEMMA OrderSorts ==
  ASSUME NEW n, NEW g, Costed(g, n)
  PROVE  /\ {InitialOrder(g)[p] : p \in Slots(g.used)} = Slots(g.used)
         /\ \A p, q \in Slots(g.used) : p < q => Cost(g, InitialOrder(g)[p]) <= Cost(g, InitialOrder(g)[q])
  <1> DEFINE U     == Slots(g.used)
             order == InitialOrder(g)
  <1>1. \A p \in U : order[p] \in U /\ Cardinality(Before(g, order[p])) = p
    BY OrderedByRank
  <1>2. \A s \in U : Cardinality(Before(g, s)) \in U
    BY RanksApart
  <1>3. \A s, t \in U : Cardinality(Before(g, s)) = Cardinality(Before(g, t)) => s = t
    BY RanksApart
  <1>4. IsFiniteSet(U) /\ U \subseteq Slots(n)
    BY SlotsFinite DEF Costed, Slots
  <1>5. \A s \in U : Cost(g, s) \in Int /\ s \in Int
    BY <1>4 DEF Costed, Slots
  <1>6. ASSUME NEW p \in U, NEW q \in U, p < q
        PROVE  Cost(g, order[p]) <= Cost(g, order[q])
    <2> SUFFICES ASSUME Cost(g, order[q]) < Cost(g, order[p]) PROVE FALSE
      <3> HIDE DEF order, U
      <3>1. QED
        BY <1>1, <1>5
    <2>1. Before(g, order[q]) \subseteq Before(g, order[p])
      <3>1. \A a, b \in U : Cost(g, a) < Cost(g, b) => Before(g, a) \subseteq Before(g, b)
        BY <1>5 DEF Before
      <3> HIDE DEF order, U
      <3>2. QED
        BY <1>1, <3>1
    <2>2. IsFiniteSet(Before(g, order[p]))
      <3>1. Before(g, order[p]) \subseteq U
        BY DEF Before
      <3> HIDE DEF U
      <3>2. QED
        BY <1>4, <3>1, FS_Subset
    <2>3. Cardinality(Before(g, order[q])) <= Cardinality(Before(g, order[p]))
      BY <2>1, <2>2, FS_Subset
    <2>4. p \in Int /\ q \in Int
      BY <1>5
    <2> HIDE DEF order, U
    <2>5. QED
      BY <1>1, <1>6, <2>3, <2>4
  <1> HIDE DEF order, U
  <1>7. {order[p] : p \in U} = U
    <2>1. ASSUME NEW s \in U PROVE s = order[Cardinality(Before(g, s))]
      BY <1>1, <1>2, <1>3
    <2>2. QED
      BY <1>1, <1>2, <2>1
  <1>8. QED
    BY <1>6, <1>7 DEF order, U

-----------------------------------------------------------------------------
(* The graph of an enrolment. *)

\* A graph with nothing but scores, and scores that are in their places.
NewGraph(u, n, protection, scores) ==
  [used |-> u, capacity |-> n, protected |-> protection, threshold |-> 3 * n,
   order |-> [p \in Slots(n) |-> p], ages |-> [i \in Slots(n) |-> 2 * n], scores |-> scores]

ScoredBy(scores, row, u, n) ==
  \A l \in Slots(u) : \A e \in Slots(l) :
    scores[PairIndex(n, e, l)] = row[l][e] /\ scores[PairIndex(n, l, e)] = row[l][e]

\* A new graph has the score of each pair in its place
\* (fpc_retained_graph_create).
LEMMA CreatedGraph ==
  ASSUME NEW n \in Nat, n >= 2, NEW u \in 0 .. n, NEW protection, NEW V,
         NEW row, \A l \in Slots(u) : \A e \in Slots(l) : row[l][e] \in V
  PROVE  \E scores \in [Slots(Pairs(n)) -> V \cup {0}] :
           GraphCreate(row, u, n, protection) = NewGraph(u, n, protection, scores) /\ ScoredBy(scores, row, u, n)
  <1> DEFINE PairAt(k) == {p \in Slots(u) \X Slots(u) : p[1] < p[2] /\ PairIndex(n, p[1], p[2]) = k}
             At(k) == CHOOSE p \in PairAt(k) : TRUE
             scores == [k \in Slots(Pairs(n)) |-> IF PairAt(k) = {} THEN 0 ELSE row[At(k)[2]][At(k)[1]]]
  <1>1. u \in Nat /\ u <= n
    OBVIOUS
  <1>2. Larger(u, n) = n
    BY <1>1 DEF Larger
  <1>3. GraphCreate(row, u, n, protection) = NewGraph(u, n, protection, scores)
    BY <1>2 DEF GraphCreate, NewGraph
  <1>4. ASSUME NEW k
        PROVE  \A p \in PairAt(k) : p[1] \in Slots(u) /\ p[2] \in Slots(u) /\ p[1] \in Slots(p[2])
                                    /\ PairIndex(n, p[1], p[2]) = k
    BY <1>1 DEF Slots
  <1>5. ASSUME NEW k \in Slots(Pairs(n))
        PROVE  scores[k] \in V \cup {0}
    <2>1. CASE PairAt(k) = {}
      BY <2>1
    <2>2. CASE PairAt(k) # {}
      <3>1. At(k) \in PairAt(k)
        BY <2>2
      <3>2. row[At(k)[2]][At(k)[1]] \in V
        <4> HIDE DEF PairAt, At
        <4>1. QED
          BY <1>4, <3>1
      <3> HIDE DEF PairAt, At
      <3>3. QED
        BY <2>2, <3>2
    <2>3. QED
      BY <2>1, <2>2
  <1>6. ASSUME NEW l \in Slots(u), NEW e \in Slots(l)
        PROVE  /\ e \in Slots(n) /\ l \in Slots(n) /\ e < l /\ e \in Slots(u)
               /\ PairIndex(n, e, l) = PairIndex(n, l, e)
               /\ scores[PairIndex(n, e, l)] = row[l][e]
    <2>1. e \in Slots(n) /\ l \in Slots(n) /\ e < l /\ e # l /\ e \in Slots(u)
      BY <1>1 DEF Slots
    <2>2. PairIndex(n, e, l) = PairIndex(n, l, e)
      BY <1>1, <2>1, IndexDoubled
    <2> DEFINE k == PairIndex(n, e, l)
               q == <<e, l>>
    <2>3. k \in Slots(Pairs(n))
      BY <1>1, <2>1, PlaceInArray
    <2>4. q \in PairAt(k)
      BY <2>1
    <2>5. ASSUME NEW p \in PairAt(k)
          PROVE  p[1] = e /\ p[2] = l
      <3>1. p[1] \in Slots(n) /\ p[2] \in Slots(n) /\ p[1] < p[2] /\ p[1] # p[2]
            /\ PairIndex(n, p[1], p[2]) = PairIndex(n, e, l)
        BY <1>1 DEF Slots
      <3>2. {p[1], p[2]} = {e, l}
        BY <1>1, <2>1, <3>1, PairsApart
      <3>3. p[1] \in Int /\ p[2] \in Int /\ e \in Int /\ l \in Int
        BY <2>1, <3>1 DEF Slots
      <3>4. QED
        BY <2>1, <3>1, <3>2, <3>3
    <2>6. At(k) \in PairAt(k)
      BY <2>4
    <2>7. At(k)[1] = e /\ At(k)[2] = l /\ PairAt(k) # {}
      <3> HIDE DEF PairAt, At, k
      <3>1. QED
        BY <2>5, <2>6
    <2>8. scores[k] = row[l][e]
      <3> HIDE DEF PairAt, At, k
      <3>1. QED
        BY <2>3, <2>7
    <2>9. QED
      BY <2>1, <2>2, <2>8
  <1> HIDE DEF scores
  <1>7. scores \in [Slots(Pairs(n)) -> V \cup {0}]
    BY <1>5 DEF scores
  <1>8. ScoredBy(scores, row, u, n)
    BY <1>6 DEF ScoredBy
  <1>9. QED
    BY <1>3, <1>7, <1>8

-----------------------------------------------------------------------------
(* Least and greatest, and what is finite. *)

\* The least of numbers is the one below all others.
LEMMA MinIs ==
  ASSUME NEW S \in SUBSET Int, NEW m \in S, \A x \in S : m <= x
  PROVE  Min(S) = m
  <1>1. Min(S) \in S /\ \A x \in S : Min(S) <= x
    BY DEF Min
  <1>2. m \in Int /\ Min(S) \in Int /\ Min(S) <= m /\ m <= Min(S)
    BY <1>1
  <1>3. QED
    BY <1>2

\* The greatest of numbers is the one above all others.
LEMMA MaxIs ==
  ASSUME NEW S \in SUBSET Int, NEW m \in S, \A x \in S : m >= x
  PROVE  Max(S) = m
  <1>1. Max(S) \in S /\ \A x \in S : Max(S) >= x
    BY DEF Max
  <1>2. m \in Int /\ Max(S) \in Int /\ Max(S) >= m /\ m >= Max(S)
    BY <1>1
  <1>3. QED
    BY <1>2

\* Finitely many numbers have a least and a greatest one.
LEMMA MinMaxExist ==
  ASSUME NEW S \in SUBSET Int, IsFiniteSet(S), S # {}
  PROVE  /\ Min(S) \in S /\ \A x \in S : Min(S) <= x
         /\ Max(S) \in S /\ \A x \in S : Max(S) >= x
  <1> DEFINE Up == [i \in S |-> i]
             Down == [i \in S |-> -i]
  <1>1. \A i \in S : Up[i] = i /\ Up[i] \in Int /\ Down[i] = -i /\ Down[i] \in Int
    OBVIOUS
  <1> HIDE DEF Up, Down
  <1>2. PICK i \in S : \A j \in S : Up[j] < Up[i] \/ (Up[j] = Up[i] /\ i <= j)
    BY <1>1, BestExists
  <1>3. PICK k \in S : \A j \in S : Down[j] < Down[k] \/ (Down[j] = Down[k] /\ k <= j)
    BY <1>1, BestExists
  <1>4. \A j \in S : i >= j /\ k <= j
    BY <1>1, <1>2, <1>3
  <1>5. Min(S) = k /\ Max(S) = i
    BY <1>4, MinIs, MaxIs
  <1>6. QED
    BY <1>4, <1>5

\* What a function makes of finitely many things is finitely many.
LEMMA FiniteImage ==
  ASSUME NEW S, IsFiniteSet(S), NEW f, DOMAIN f = S, f = [x \in S |-> f[x]], NEW T, T = {f[x] : x \in S}
  PROVE  IsFiniteSet(T)
  <1>1. f \in Surjection(S, T)
    BY DEF Surjection
  <1>2. QED
    BY <1>1, FS_Surjection

\* An interval is finite.
LEMMA IntervalFinite ==
  \A a, b \in Int : IsFiniteSet(a .. b)
  BY FS_Interval

\* A set of the first numbers is as long as it has members.
LEMMA PrefixIs ==
  ASSUME NEW n \in Nat, NEW T \in SUBSET (0 .. n - 1), \A j \in T : \A l \in 0 .. j : l \in T
  PROVE  Cardinality(T) \in 0 .. n /\ T = 0 .. Cardinality(T) - 1
  <1>1. IsFiniteSet(T)
    BY SlotsFinite DEF Slots
  <1>2. CASE T = {}
    <2>1. Cardinality(T) = 0
      BY <1>2, FS_EmptySet
    <2>2. QED
      BY <1>2, <2>1
  <1>3. CASE T # {}
    <2>1. PICK m \in T : \A x \in T : m >= x
      <3>1. Max(T) \in T /\ \A x \in T : Max(T) >= x
        BY <1>1, <1>3, MinMaxExist
      <3>2. QED
        BY <3>1
    <2> DEFINE k == m + 1
    <2>2. k \in 1 .. n /\ m \in 0 .. n - 1 /\ k - 1 = m
      BY <2>1
    <2>2a. T = 0 .. m
      <3>1. \A x \in T : x \in 0 .. m
        BY <2>1
      <3>2. \A x \in 0 .. m : x \in T
        BY <2>1
      <3>3. QED
        BY <3>1, <3>2
    <2>2b. T = 0 .. k - 1
      BY <2>2, <2>2a
    <2> HIDE DEF k
    <2>3. Cardinality(T) = k
      BY <2>2, <2>2b, SlotsFinite DEF Slots
    <2>4. QED
      BY <2>2, <2>2b, <2>3
  <1>4. QED
    BY <1>2, <1>3

-----------------------------------------------------------------------------
(* Quotients. *)

\* Dividing a multiple of a divisor by that divisor loses nothing.
LEMMA QuotientExact ==
  ASSUME NEW t \in Nat, t > 0, NEW c \in Int
  PROVE  (t * c) \div t = c
  <1>1. t * c \in Int /\ (t * c) \div t \in Int
    OBVIOUS
  <1>2. (t * c) % t = 0
    OBVIOUS
  <1>3. QED
    OBVIOUS

\* A sum between two multiples of a divisor has its quotient between them.
LEMMA QuotientBetween ==
  ASSUME NEW d \in Nat, d > 0, NEW s \in Int, NEW lo \in Int, NEW hi \in Int, lo * d <= s, s <= hi * d
  PROVE  s \div d \in lo .. hi
  <1> DEFINE q == s \div d
             r == s % d
  <1>1. q \in Int /\ r \in 0 .. d - 1 /\ s = d * q + r
    OBVIOUS
  <1> HIDE DEF q, r
  <1>2. lo <= q
    <2> SUFFICES ASSUME q <= lo - 1 PROVE FALSE
      BY <1>1
    <2>1. d * q <= d * (lo - 1)
      BY <1>1
    <2>2. d * (lo - 1) = lo * d - d
      OBVIOUS
    <2>3. QED
      BY <1>1, <2>1, <2>2
  <1>3. q <= hi
    <2> SUFFICES ASSUME hi + 1 <= q PROVE FALSE
      BY <1>1
    <2>1. d * (hi + 1) <= d * q
      BY <1>1
    <2>2. d * (hi + 1) = hi * d + d
      OBVIOUS
    <2>3. QED
      BY <1>1, <2>1, <2>2
  <1>4. QED
    BY <1>1, <1>2, <1>3 DEF q

\* A whole number more per part.
LEMMA QuotientShifted ==
  ASSUME NEW d \in Nat, d > 0, NEW s \in Int, NEW c \in Int
  PROVE  s \div d \in Int /\ (s + d * c) \div d = s \div d + c
  <1> DEFINE q == s \div d
             r == s % d
             t == s + d * c
             u == t \div d
             v == t % d
  <1>1. q \in Int /\ r \in 0 .. d - 1 /\ s = d * q + r
    OBVIOUS
  <1>2. t \in Int
    OBVIOUS
  <1>3. u \in Int /\ v \in 0 .. d - 1 /\ t = d * u + v
    <2> HIDE DEF t
    <2>1. QED
      BY <1>2
  <1>4. t = d * q + r + d * c
    BY <1>1
  <1> HIDE DEF q, r, t, u, v
  <1>5. d * u + v = d * (q + c) + r
    <2>1. d * (q + c) = d * q + d * c
      BY <1>1
    <2>2. QED
      BY <1>1, <1>3, <1>4, <2>1
  <1> DEFINE e == u - (q + c)
  <1>6. e \in Int /\ d * e = r - v
    <2>1. d * e = d * u - d * (q + c)
      BY <1>1, <1>3
    <2>2. d * u \in Int /\ d * (q + c) \in Int
      BY <1>1, <1>3
    <2>3. QED
      BY <1>1, <1>3, <1>5, <2>1, <2>2
  <1>7. e = 0
    <2> HIDE DEF e
    <2>1. ASSUME e >= 1 PROVE FALSE
      <3>1. d * e >= d
        BY <1>6, <2>1
      <3>2. QED
        BY <1>1, <1>3, <1>6, <3>1
    <2>2. ASSUME e <= -1 PROVE FALSE
      <3>1. d * e <= -d
        BY <1>6, <2>2
      <3>2. QED
        BY <1>1, <1>3, <1>6, <3>1
    <2>3. QED
      BY <1>6, <2>1, <2>2
  <1>8. u = q + c
    BY <1>1, <1>3, <1>7
  <1>9. QED
    BY <1>1, <1>8 DEF q, u, t

\* Division keeps the order of numbers.
LEMMA DivisionOrdered ==
  ASSUME NEW d \in Nat, d > 0, NEW a \in Int, NEW b \in Int, a <= b
  PROVE  a \div d \in Int /\ b \div d \in Int /\ a \div d <= b \div d
  <1> DEFINE x == a \div d
             y == b \div d
  <1>1. x \in Int /\ y \in Int /\ d * x <= a /\ b < d * (y + 1)
    OBVIOUS
  <1> HIDE DEF x, y
  <1>2. d * x < d * (y + 1)
    BY <1>1
  <1>3. ~(x >= y + 1)
    <2> SUFFICES ASSUME x >= y + 1 PROVE FALSE
      OBVIOUS
    <2>1. d * x >= d * (y + 1)
      BY <1>1
    <2>2. QED
      BY <1>1, <1>2, <2>1
  <1>4. x <= y
    BY <1>1, <1>3
  <1>5. QED
    BY <1>1, <1>4 DEF x, y

\* A division by more than one makes less of what is not zero.
LEMMA DivisionLess ==
  ASSUME NEW d \in Nat, d > 0, NEW n \in Nat
  PROVE  n \div d \in Nat /\ n \div d <= n /\ (n > 0 /\ d > 1 => n \div d < n)
  <1> DEFINE x == n \div d
  <1>1. x \in Int /\ d * x <= n /\ n < d * (x + 1)
    OBVIOUS
  <1> HIDE DEF x
  <1>2. x >= 0
    <2> SUFFICES ASSUME x <= -1 PROVE FALSE
      BY <1>1
    <2>1. d * (x + 1) <= 0
      BY <1>1
    <2>2. QED
      BY <1>1, <2>1
  <1>3. x <= d * x
    BY <1>1, <1>2
  <1>4. ASSUME n > 0, d > 1
        PROVE  x < n
    <2>1. CASE x = 0
      BY <1>4, <2>1
    <2>2. CASE x > 0
      <3>1. 2 * x <= d * x
        BY <1>1, <1>4, <2>2
      <3>2. QED
        BY <1>1, <2>2, <3>1
    <2>3. QED
      BY <1>1, <1>2, <2>1, <2>2
  <1>5. QED
    BY <1>1, <1>2, <1>3, <1>4 DEF x

-----------------------------------------------------------------------------
(* Sums of what is scaled, shifted or bounded. *)

\* A sum in which each summand is a multiple of the same number.
LEMMA SumScaled ==
  ASSUME NEW S, IsFiniteSet(S), NEW f, \A x \in S : f[x] \in Int, NEW c \in Int,
         NEW g, \A x \in S : g[x] = f[x] * c
  PROVE  SumFunctionOnSet(g, S) = SumFunctionOnSet(f, S) * c
  <1> DEFINE P == {T \in SUBSET S : SumFunctionOnSet(g, T) = SumFunctionOnSet(f, T) * c}
  <1>1. {} \in P
    <2>1. SumFunctionOnSet(g, {}) = 0 /\ SumFunctionOnSet(f, {}) = 0
      BY SumSplits, FS_EmptySet
    <2>2. QED
      BY <2>1
  <1>2. ASSUME NEW T \in SUBSET S, NEW x \in S \ T, T \in P
        PROVE  T \cup {x} \in P
    <2> DEFINE U == T \cup {x}
    <2>1. IsFiniteSet(U) /\ IsFiniteSet(T) /\ U \ {x} = T /\ x \in U /\ U \in SUBSET S
      BY FS_Subset
    <2>2. \A y \in S : g[y] \in Int
      OBVIOUS
    <2>3. SumFunctionOnSet(g, U) = g[x] + SumFunctionOnSet(g, T)
      <3> HIDE DEF U
      <3>1. QED
        BY <2>1, <2>2, SumSplits
    <2>4. SumFunctionOnSet(f, U) = f[x] + SumFunctionOnSet(f, T) /\ SumFunctionOnSet(f, T) \in Int
      <3> HIDE DEF U
      <3>1. SumFunctionOnSet(f, T) \in Int
        BY <2>1, SumSplits
      <3>2. QED
        BY <2>1, <3>1, SumSplits
    <2>5. g[x] = f[x] * c /\ f[x] \in Int /\ SumFunctionOnSet(g, T) = SumFunctionOnSet(f, T) * c
      BY <1>2
    <2>6. \A p, q \in Int : p * c + q * c = (p + q) * c
      OBVIOUS
    <2>7. SumFunctionOnSet(g, U) = SumFunctionOnSet(f, U) * c
      <3> HIDE DEF U
      <3>1. QED
        BY <2>3, <2>4, <2>5, <2>6
    <2>8. QED
      BY <2>1, <2>7
  <1>3. S \in P
    <2> HIDE DEF P
    <2>1. QED
      BY <1>1, <1>2, SubsetInduction
  <1>4. QED
    BY <1>3

\* What is 0 adds nothing.
LEMMA SumSupport ==
  ASSUME NEW S, IsFiniteSet(S), NEW f, \A x \in S : f[x] \in Int,
         NEW M \in SUBSET S, \A x \in S \ M : f[x] = 0
  PROVE  SumFunctionOnSet(f, S) = SumFunctionOnSet(f, M)
  <1> DEFINE Sum(T) == SumFunctionOnSet(f, T)
             R == S \ M
             P == {T \in SUBSET R : Sum(M \cup T) = Sum(M)}
  <1>1. {} \in P
    <2>1. M \cup {} = M
      OBVIOUS
    <2>2. QED
      BY <2>1
  <1>2. ASSUME NEW T \in SUBSET R, NEW x \in R \ T, T \in P
        PROVE  T \cup {x} \in P
    <2> DEFINE U == M \cup (T \cup {x})
    <2>1. IsFiniteSet(U) /\ IsFiniteSet(M \cup T) /\ U \ {x} = M \cup T /\ x \in U /\ U \in SUBSET S
      <3>1. U \subseteq S /\ M \cup T \subseteq S
        OBVIOUS
      <3>2. QED
        BY <3>1, FS_Subset
    <2>2. f[x] = 0
      OBVIOUS
    <2>3. Sum(U) = f[x] + Sum(M \cup T) /\ Sum(M \cup T) \in Int
      <3>1. Sum(M \cup T) \in Int
        BY <2>1, SumSplits
      <3> HIDE DEF U
      <3>2. QED
        BY <2>1, <3>1, SumSplits
    <2>4. Sum(M \cup T) = Sum(M)
      BY <1>2
    <2> HIDE DEF Sum
    <2>5. Sum(U) = Sum(M)
      BY <2>2, <2>3, <2>4
    <2>6. QED
      BY <2>5
  <1>3. R \in P
    <2>1. IsFiniteSet(R)
      BY FS_Subset
    <2> HIDE DEF P, R
    <2>2. QED
      BY <1>1, <1>2, <2>1, SubsetInduction
  <1>4. M \cup R = S
    OBVIOUS
  <1>5. QED
    BY <1>3, <1>4

\* Adding one member to a finite set adds its value to the sum.
LEMMA SumMore ==
  ASSUME NEW S, IsFiniteSet(S), NEW x, x \notin S, NEW f, \A y \in S \cup {x} : f[y] \in Int
  PROVE  /\ SumFunctionOnSet(f, S \cup {x}) = f[x] + SumFunctionOnSet(f, S) /\ SumFunctionOnSet(f, S) \in Int
         /\ IsFiniteSet(S \cup {x})
  <1> DEFINE U == S \cup {x}
  <1>1. IsFiniteSet(U) /\ x \in U /\ U \ {x} = S
    BY FS_AddElement
  <1>2. \A y \in U : f[y] \in Int
    OBVIOUS
  <1> HIDE DEF U
  <1>3. SumFunctionOnSet(f, U) = f[x] + SumFunctionOnSet(f, U \ {x})
    BY <1>1, <1>2, SumSplits
  <1>4. SumFunctionOnSet(f, S) \in Int
    BY SumSplits
  <1>5. QED
    BY <1>1, <1>3, <1>4 DEF U

\* A weighed sum lies between the weighed least and greatest.
LEMMA SumBetween ==
  ASSUME NEW S, IsFiniteSet(S), NEW w, \A x \in S : w[x] \in Nat, NEW f, NEW lo \in Int, NEW hi \in Int,
         \A x \in S : f[x] \in Int /\ lo <= f[x] /\ f[x] <= hi, NEW g, \A x \in S : g[x] = w[x] * f[x]
  PROVE  /\ SumFunctionOnSet(w, S) \in Int /\ SumFunctionOnSet(g, S) \in Int
         /\ lo * SumFunctionOnSet(w, S) <= SumFunctionOnSet(g, S)
         /\ SumFunctionOnSet(g, S) <= hi * SumFunctionOnSet(w, S)
  <1> DEFINE W(T) == SumFunctionOnSet(w, T)
             G(T) == SumFunctionOnSet(g, T)
             P == {T \in SUBSET S : W(T) \in Int /\ G(T) \in Int /\ lo * W(T) <= G(T) /\ G(T) <= hi * W(T)}
  <1>1. \A x \in S : w[x] \in Nat /\ w[x] \in Int /\ g[x] \in Int /\ lo * w[x] <= g[x] /\ g[x] <= hi * w[x]
    <2> TAKE x \in S
    <2>1. w[x] \in Nat /\ f[x] \in Int /\ lo <= f[x] /\ f[x] <= hi /\ g[x] = w[x] * f[x]
      OBVIOUS
    <2>2. \A a \in Nat : \A b, c \in Int : b <= c => b * a <= a * c /\ a * b <= c * a
      OBVIOUS
    <2>3. QED
      BY <2>1, <2>2
  <1>2. {} \in P
    <2>1. W({}) = 0 /\ G({}) = 0
      BY FS_EmptySet, SumSplits
    <2>2. QED
      BY <2>1
  <1>3. ASSUME NEW T \in SUBSET S, NEW x \in S \ T, T \in P
        PROVE  T \cup {x} \in P
    <2>1. IsFiniteSet(T)
      BY FS_Subset
    <2>2. W(T \cup {x}) = w[x] + W(T) /\ W(T) \in Int
      <3>1. \A y \in T \cup {x} : w[y] \in Int
        BY <1>1
      <3>2. QED
        BY <2>1, <3>1, SumMore
    <2>3. G(T \cup {x}) = g[x] + G(T) /\ G(T) \in Int
      <3>1. \A y \in T \cup {x} : g[y] \in Int
        BY <1>1
      <3>2. QED
        BY <2>1, <3>1, SumMore
    <2>4. lo * W(T) <= G(T) /\ G(T) <= hi * W(T)
      BY <1>3
    <2>5. w[x] \in Int /\ g[x] \in Int /\ lo * w[x] <= g[x] /\ g[x] <= hi * w[x]
      BY <1>1
    <2> HIDE DEF W, G
    <2>6. lo * (w[x] + W(T)) = lo * w[x] + lo * W(T) /\ hi * (w[x] + W(T)) = hi * w[x] + hi * W(T)
      BY <2>2, <2>5
    <2>7. QED
      BY <2>2, <2>3, <2>4, <2>5, <2>6
  <1> HIDE DEF W, G
  <1>4. S \in P
    <2> HIDE DEF P
    <2>1. QED
      BY <1>2, <1>3, SubsetInduction
  <1>5. QED
    BY <1>4 DEF P, W, G

\* As much as each member has more, all have more together.
LEMMA SumShifted ==
  ASSUME NEW S, IsFiniteSet(S), NEW f, \A x \in S : f[x] \in Int, NEW c \in Int,
         NEW g, \A x \in S : g[x] = f[x] + c
  PROVE  SumFunctionOnSet(g, S) = SumFunctionOnSet(f, S) + Cardinality(S) * c
  <1> DEFINE P == {T \in SUBSET S : SumFunctionOnSet(g, T) = SumFunctionOnSet(f, T) + Cardinality(T) * c}
  <1>1. {} \in P
    <2>1. SumFunctionOnSet(g, {}) = 0 /\ SumFunctionOnSet(f, {}) = 0 /\ Cardinality({}) = 0
      BY SumSplits, FS_EmptySet
    <2>2. QED
      BY <2>1
  <1>2. ASSUME NEW T \in SUBSET S, NEW x \in S \ T, T \in P
        PROVE  T \cup {x} \in P
    <2> DEFINE U == T \cup {x}
    <2>1. IsFiniteSet(U) /\ IsFiniteSet(T) /\ U \ {x} = T /\ x \in U /\ U \in SUBSET S
      BY FS_Subset
    <2>1a. Cardinality(U) = Cardinality(T) + 1 /\ Cardinality(T) \in Int
      BY <2>1, FS_AddElement, FS_CardinalityType
    <2>2. \A y \in S : g[y] \in Int
      OBVIOUS
    <2>3. SumFunctionOnSet(g, U) = g[x] + SumFunctionOnSet(g, T)
      <3> HIDE DEF U
      <3>1. QED
        BY <2>1, <2>2, SumSplits
    <2>4. SumFunctionOnSet(f, U) = f[x] + SumFunctionOnSet(f, T) /\ SumFunctionOnSet(f, T) \in Int
      <3> HIDE DEF U
      <3>1. SumFunctionOnSet(f, T) \in Int
        BY <2>1, SumSplits
      <3>2. QED
        BY <2>1, <3>1, SumSplits
    <2>5. g[x] = f[x] + c /\ f[x] \in Int /\ SumFunctionOnSet(g, T) = SumFunctionOnSet(f, T) + Cardinality(T) * c
      BY <1>2
    <2>6. \A n \in Int : n * c \in Int /\ (n + 1) * c = n * c + c
      OBVIOUS
    <2>7. SumFunctionOnSet(g, U) = SumFunctionOnSet(f, U) + Cardinality(U) * c
      <3> HIDE DEF U
      <3>1. QED
        BY <2>1a, <2>3, <2>4, <2>5, <2>6
    <2>8. QED
      BY <2>1, <2>7
  <1>3. S \in P
    <2> HIDE DEF P
    <2>1. QED
      BY <1>1, <1>2, SubsetInduction
  <1>4. QED
    BY <1>3

-----------------------------------------------------------------------------
(* Sums of windows. *)

\* A window is finite.
LEMMA WindowFinite ==
  ASSUME NEW a \in Int, NEW b \in Int
  PROVE  IsFiniteSet(a .. b)
  <1>1. a \in Int /\ b \in Int
    OBVIOUS
  <1>2. QED
    BY ONLY <1>1, IntervalFinite, Zenon

\* A window has its length.
LEMMA WindowLength ==
  ASSUME NEW a \in Int, NEW b \in Int, a <= b
  PROVE  IsFiniteSet(a .. b) /\ Cardinality(a .. b) = b - a + 1
  <1>1. a \in Int /\ b \in Int
    OBVIOUS
  <1>2. IsFiniteSet(a .. b) /\ Cardinality(a .. b) = IF a > b THEN 0 ELSE b - a + 1
    BY ONLY <1>1, FS_Interval, Zenon
  <1>3. QED
    BY <1>2

\* The sum of what a window shows is the sum of what is there.
LEMMA WindowSum ==
  ASSUME NEW W, IsFiniteSet(W), NEW f, \A i \in W : f[i] \in Int, NEW g, DOMAIN g = W, \A i \in W : g[i] = f[i]
  PROVE  SumFunction(g) = SumFunctionOnSet(f, W) /\ SumFunctionOnSet(f, W) \in Int
  <1>1. DOMAIN g = W /\ \A i \in W : g[i] \in Int /\ f[i] = g[i] /\ f[i] \in Int
    OBVIOUS
  <1>2. SumFunctionOnSet(g, W) = SumFunctionOnSet(f, W)
    BY <1>1, SumsAgree
  <1>3. SumFunctionOnSet(f, W) \in Int
    BY <1>1, SumSplits
  <1>4. SumFunction(g) = SumFunctionOnSet(g, W)
    BY <1>1 DEF SumFunction
  <1>5. QED
    BY <1>2, <1>3, <1>4

\* A window that moves on by one loses its first member and gets another last one.
LEMMA WindowMoves ==
  ASSUME NEW r \in Nat, NEW x \in Int, NEW f, \A i \in (x - 1) - r .. x + r : f[i] \in Int
  PROVE  SumFunctionOnSet(f, x - r .. x + r) =
           SumFunctionOnSet(f, (x - 1) - r .. (x - 1) + r) - f[x - 1 - r] + f[x + r]
  <1> DEFINE U == (x - 1) - r .. x + r
             A == (x - 1) - r .. (x - 1) + r
             B == x - r .. x + r
  <1>1. U \ {x + r} = A /\ U \ {x - 1 - r} = B /\ x + r \in U /\ x - 1 - r \in U
    OBVIOUS
  <1>2. (x - 1) - r \in Int /\ x + r \in Int
    OBVIOUS
  <1>3. IsFiniteSet(U)
    BY ONLY <1>2, IntervalFinite, Zenon
  <1>4. \A i \in U : f[i] \in Int
    OBVIOUS
  <1> HIDE DEF U, A, B
  <1>5. /\ SumFunctionOnSet(f, U) = f[x + r] + SumFunctionOnSet(f, A)
        /\ SumFunctionOnSet(f, U) = f[x - 1 - r] + SumFunctionOnSet(f, B)
    BY <1>1, <1>3, <1>4, SumSplits
  <1>6. IsFiniteSet(A) /\ IsFiniteSet(B) /\ A \subseteq U /\ B \subseteq U
    BY <1>1, <1>3, FS_Subset
  <1>7. SumFunctionOnSet(f, A) \in Int /\ SumFunctionOnSet(f, B) \in Int
    BY <1>4, <1>6, SumSplits
  <1>8. f[x + r] \in Int /\ f[x - 1 - r] \in Int
    BY <1>1, <1>4
  <1>9. SumFunctionOnSet(f, B) = SumFunctionOnSet(f, A) - f[x - 1 - r] + f[x + r]
    BY <1>5, <1>7, <1>8
  <1>10. QED
    BY <1>9 DEF A, B

\* A running sum is the sum of its window wherever it has moved to (box15).
Running(w, n, r, f) ==
  w = [x \in r .. n - 1 - r |-> IF x = r THEN SumFunction([i \in 0 .. 2 * r |-> f[i]])
                               ELSE w[x - 1] - f[x - 1 - r] + f[x + r]]

\* It can be made, and at every place it is the sum of the window there.
LEMMA RunningIs ==
  ASSUME NEW n \in Nat, NEW r \in Nat, 2 * r < n, NEW f, \A i \in 0 .. n - 1 : f[i] \in Int
  PROVE  LET w == CHOOSE u : Running(u, n, r, f)
         IN  /\ Running(w, n, r, f)
             /\ \A x \in r .. n - 1 - r : w[x] = SumFunctionOnSet(f, x - r .. x + r) /\ w[x] \in Int
  <1> DEFINE v == [x \in r .. n - 1 - r |-> SumFunctionOnSet(f, x - r .. x + r)]
             w == CHOOSE u : Running(u, n, r, f)
  <1>1. SumFunction([i \in 0 .. 2 * r |-> f[i]]) = SumFunctionOnSet(f, r - r .. r + r)
    <2> DEFINE W == 0 .. 2 * r
               g == [i \in W |-> f[i]]
    <2>1. IsFiniteSet(W)
      BY WindowFinite
    <2>2. W = r - r .. r + r /\ \A i \in W : f[i] \in Int
      OBVIOUS
    <2> HIDE DEF W
    <2>3. DOMAIN g = W /\ \A i \in W : g[i] = f[i]
      OBVIOUS
    <2> HIDE DEF g
    <2>4. SumFunction(g) = SumFunctionOnSet(f, W)
      BY <2>1, <2>2, <2>3, WindowSum
    <2>5. SumFunction(g) = SumFunctionOnSet(f, r - r .. r + r)
      BY <2>2, <2>4
    <2>6. QED
      BY <2>5 DEF W, g
  <1>2. \A x \in r .. n - 1 - r : SumFunctionOnSet(f, x - r .. x + r) \in Int
    <2> SUFFICES ASSUME NEW x \in r .. n - 1 - r PROVE SumFunctionOnSet(f, x - r .. x + r) \in Int
      OBVIOUS
    <2> DEFINE W == x - r .. x + r
    <2>1. IsFiniteSet(W)
      BY WindowFinite
    <2>2. \A i \in W : f[i] \in Int
      OBVIOUS
    <2> HIDE DEF W
    <2>3. SumFunctionOnSet(f, W) \in Int
      BY <2>1, <2>2, SumSplits
    <2>4. QED
      BY <2>3 DEF W
  <1>3. Running(v, n, r, f)
    <2>1. ASSUME NEW x \in r .. n - 1 - r
          PROVE  v[x] = IF x = r THEN SumFunction([i \in 0 .. 2 * r |-> f[i]]) ELSE v[x - 1] - f[x - 1 - r] + f[x + r]
      <3>1. v[x] = SumFunctionOnSet(f, x - r .. x + r)
        OBVIOUS
      <3>2. CASE x = r
        BY <1>1, <3>1, <3>2
      <3>3. CASE x # r
        <4>1. x - 1 \in r .. n - 1 - r /\ x \in Int /\ \A i \in (x - 1) - r .. x + r : f[i] \in Int
          BY <3>3
        <4>2. v[x - 1] = SumFunctionOnSet(f, (x - 1) - r .. (x - 1) + r)
          BY <4>1
        <4>3. v[x] = v[x - 1] - f[x - 1 - r] + f[x + r]
          BY <3>1, <4>1, <4>2, WindowMoves
        <4>4. QED
          BY <3>3, <4>3
      <3>4. QED
        BY <3>2, <3>3
    <2>2. QED
      BY <2>1 DEF Running
  <1>4. Running(w, n, r, f)
    BY <1>3
  <1> HIDE DEF w
  <1> DEFINE P == {x \in r .. n - 1 - r : w[x] = SumFunctionOnSet(f, x - r .. x + r)}
  <1>5. w = [x \in r .. n - 1 - r |-> IF x = r THEN SumFunction([i \in 0 .. 2 * r |-> f[i]])
                                     ELSE w[x - 1] - f[x - 1 - r] + f[x + r]]
    BY <1>4 DEF Running
  <1>6. r \in P
    <2>1. r \in r .. n - 1 - r
      OBVIOUS
    <2>2. QED
      BY <1>1, <1>5, <2>1
  <1>7. \A x \in P : r <= x /\ x < n - 1 - r => x + 1 \in P
    <2> SUFFICES ASSUME NEW x \in P, x < n - 1 - r PROVE x + 1 \in P
      OBVIOUS
    <2>1. /\ x + 1 \in r .. n - 1 - r /\ x + 1 # r /\ x \in Int
          /\ r + 1 <= x + 1 /\ (x + 1) + r <= n - 1 /\ (x + 1) - 1 = x /\ x + 1 \in Int
      OBVIOUS
    <2>2. w[x + 1] = w[x] - f[x + 1 - 1 - r] + f[x + 1 + r]
      BY <1>5, <2>1
    <2> DEFINE y == x + 1
    <2>2a. \A i \in (y - 1) - r .. y + r : f[i] \in Int
      BY <2>1
    <2>3. /\ y \in r .. n - 1 - r /\ y \in Int /\ y - 1 = x
          /\ w[y] = w[x] - f[y - 1 - r] + f[y + r]
      BY <2>1, <2>2
    <2> HIDE DEF y
    <2>4. SumFunctionOnSet(f, y - r .. y + r) =
            SumFunctionOnSet(f, (y - 1) - r .. (y - 1) + r) - f[y - 1 - r] + f[y + r]
      BY <2>3, <2>2a, WindowMoves, Zenon
    <2>5. w[x] = SumFunctionOnSet(f, (y - 1) - r .. (y - 1) + r)
      BY <2>3
    <2>6. w[y] = SumFunctionOnSet(f, y - r .. y + r)
      BY <2>3, <2>4, <2>5
    <2>6a. y \in P
      BY <2>3, <2>6
    <2>7. QED
      BY <2>6a DEF y
  <1>8. r .. n - 1 - r \subseteq P
    <2>1. r \in Int /\ n - 1 - r \in Int
      OBVIOUS
    <2> HIDE DEF P
    <2>2. QED
      BY <1>6, <1>7, <2>1, IntervalInduction
  <1>9. \A x \in r .. n - 1 - r : w[x] = SumFunctionOnSet(f, x - r .. x + r) /\ w[x] \in Int
    BY <1>2, <1>8
  <1>10. QED
    BY <1>4, <1>9 DEF w
=============================================================================
