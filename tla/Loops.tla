-------------------------------- MODULE Loops --------------------------------
(***************************************************************************)
(* Loops over sequences: what FoldLeft computes, step by step, for a       *)
(* sequence of any length, and what sums and counts are equal to.  The     *)
(* folds are opened down to the iteration they are defined by, and it is   *)
(* reasoned about by induction over the numbers, in the form of the        *)
(* well-founded order's least element (WFMin), as no induction rule with   *)
(* an operator parameter can be used.                                      *)
(***************************************************************************)
EXTENDS Totals, FiniteSets, FiniteSetsExt, FiniteSetTheorems,
        WellFoundedInduction, TLAPS

-----------------------------------------------------------------------------
(* Folds over sequences.                                                   *)

\* Natural induction, from the well-founded order: a set with 0 and with the
\* successor of each of its numbers has all numbers.
LEMMA SetInduction ==
  ASSUME NEW S, 0 \in S, \A n \in S : n \in Nat => n + 1 \in S
  PROVE  Nat \subseteq S
<1> DEFINE R == OpToRel(<, Nat)
           T == Nat \ S
<1>1. IsWellFoundedOn(R, Nat)
  BY NatLessThanWellFounded
<1> SUFFICES ASSUME T # {} PROVE FALSE
  OBVIOUS
<1>2. T \subseteq Nat
  OBVIOUS
<1> HIDE DEF R
<1>3. PICK x \in T : \A y \in T : ~(<<y, x>> \in R)
  BY <1>1, <1>2, WFMin
<1>4. x # 0 /\ x - 1 \in Nat
  BY <1>3
<1>5. x - 1 \notin T
  <2>1. <<x - 1, x>> \in R
    BY <1>4, <1>3 DEF R, OpToRel
  <2> QED BY <2>1, <1>3
<1> QED
  BY <1>3, <1>4, <1>5

\* Max, of which the library states no theorem.
LEMMA MaxIs ==
  ASSUME NEW s \in SUBSET Nat, NEW m \in s, \A k \in s : k <= m
  PROVE  Max(s) = m
<1>1. m \in s /\ \A y \in s : m >= y
  OBVIOUS
<1>2. \A x \in s : (\A y \in s : x >= y) => x = m
  OBVIOUS
<1> QED
  BY <1>1, <1>2 DEF Max

LEMMA MaxOfInterval ==
  ASSUME NEW n \in Nat, n > 0
  PROVE  /\ Max(1..n) = n /\ 1..n # {} 
         /\ (1..n) \ {Max(1..n)} = 1..n - 1
<1>1. 1..n \in SUBSET Nat /\ n \in 1..n /\ \A k \in 1..n : k <= n
  OBVIOUS
<1>2. Max(1..n) = n
  BY <1>1, MaxIs
<1> QED
  BY <1>1, <1>2

LEMMA MaxOfSubset ==
  ASSUME NEW n \in Nat, NEW s \in SUBSET (1..n), s # {}
  PROVE  Max(s) \in s /\ \A k \in s : k <= Max(s)
<1> DEFINE S == {k \in Nat : \A t \in SUBSET (1..k) :
                     t # {} => Max(t) \in t /\ \A l \in t : l <= Max(t)}
<1>1. 0 \in S
  <2>1. 1..0 = {}
    OBVIOUS
  <2> QED
    BY <2>1
<1>2. ASSUME NEW k \in S
      PROVE  k + 1 \in S
  <2>1. SUFFICES ASSUME NEW t \in SUBSET (1..k + 1), t # {}
                 PROVE  Max(t) \in t /\ \A l \in t : l <= Max(t)
    OBVIOUS
  <2>2. CASE k + 1 \in t
    <3>1. t \in SUBSET Nat /\ \A l \in t : l <= k + 1
      OBVIOUS
    <3>2. Max(t) = k + 1
      BY <2>2, <3>1, MaxIs
    <3> QED
      BY <2>2, <3>1, <3>2
  <2>3. CASE k + 1 \notin t
    <3>1. t \in SUBSET (1..k)
      <4>1. ASSUME NEW l \in t PROVE l \in 1..k
        <5>1. l \in 1..k + 1 /\ l # k + 1 /\ k \in Nat
          BY <2>3
        <5> QED
          BY <5>1
      <4> QED
        BY <4>1
    <3> QED
      BY <3>1, <2>1
  <2> QED
    BY <2>2, <2>3
<1>3. n \in S
  <2> HIDE DEF S
  <2> QED
    BY <1>1, <1>2, SetInduction
<1> QED
  BY <1>3

\* What MapThenFoldSet iterates for FoldLeft over a sequence of length k, with
\* the step as a function of the position and of the value so far.
Folding(iter, k, base, step) ==
  iter = [s \in SUBSET (1..k) |->
            IF s = {} THEN base ELSE step[Max(s)][iter[s \ {Max(s)}]]]

\* The iteration exists, with values of the type of the steps.
LEMMA FoldExists ==
  ASSUME NEW n \in Nat, NEW T, NEW base \in T, NEW step \in [1..n -> [T -> T]]
  PROVE  \E iter \in [SUBSET (1..n) -> T] : Folding(iter, n, base, step)
<1> DEFINE S == {k \in Nat : k <= n =>
                    \E iter \in [SUBSET (1..k) -> T] : Folding(iter, k, base, step)}
<1>1. 0 \in S
  <2>1. PICK g : g = [s \in SUBSET (1..0) |-> base]
    OBVIOUS
  <2>2. g \in [SUBSET (1..0) -> T]
    BY <2>1
  <2>3. \A s \in SUBSET (1..0) : s = {}
    OBVIOUS
  <2>4. Folding(g, 0, base, step)
    BY <2>1, <2>3 DEF Folding
  <2> QED
    BY <2>2, <2>4
<1>2. ASSUME NEW k \in S
      PROVE  k + 1 \in S
  <2>1. ASSUME k + 1 <= n
        PROVE  \E iter \in [SUBSET (1..k + 1) -> T] : Folding(iter, k + 1, base, step)
    <3>1. k \in Nat /\ k <= n /\ k + 1 \in 1..n
      BY <2>1
    <3>2. PICK h \in [SUBSET (1..k) -> T] : Folding(h, k, base, step)
      BY <3>1
    <3>3. PICK g : g = [s \in SUBSET (1..k + 1) |->
                          IF k + 1 \in s THEN step[k + 1][h[s \ {k + 1}]] ELSE h[s]]
      OBVIOUS
    <3> HIDE DEF S
    <3>4. \A s \in SUBSET (1..k + 1) :
            /\ k + 1 \in s => s \ {k + 1} \in SUBSET (1..k)
            /\ k + 1 \notin s => s \in SUBSET (1..k)
      <4>1. \A l \in 1..k + 1 : l # k + 1 => l \in 1..k
        BY <3>1
      <4> QED
        BY <4>1
    <3>5. g \in [SUBSET (1..k + 1) -> T]
      <4>1. ASSUME NEW s \in SUBSET (1..k + 1)
            PROVE  g[s] \in T
        <5>1. CASE k + 1 \in s
          <6>1. h[s \ {k + 1}] \in T
            BY <3>4, <5>1
          <6>2. step[k + 1] \in [T -> T]
            BY <3>1
          <6> QED
            BY <3>3, <5>1, <6>1, <6>2
        <5>2. CASE k + 1 \notin s
          BY <3>3, <3>4, <5>2
        <5> QED
          BY <5>1, <5>2
      <4> QED
        BY <3>3, <4>1
    <3>6. ASSUME NEW s \in SUBSET (1..k + 1)
          PROVE  g[s] = IF s = {} THEN base ELSE step[Max(s)][g[s \ {Max(s)}]]
      <4>1. CASE k + 1 \in s
        <5>1. s \in SUBSET Nat /\ \A l \in s : l <= k + 1
          BY <3>1
        <5>2. Max(s) = k + 1
          BY <4>1, <5>1, MaxIs
        <5>3. s \ {k + 1} \in SUBSET (1..k + 1) /\ k + 1 \notin s \ {k + 1} /\ s # {}
          BY <4>1
        <5> QED
          BY <3>3, <4>1, <5>2, <5>3
      <4>2. CASE k + 1 \notin s
        <5>1. s \in SUBSET (1..k)
          BY <3>4, <4>2
        <5>2. g[s] = IF s = {} THEN base ELSE step[Max(s)][h[s \ {Max(s)}]]
          BY <3>2, <3>3, <4>2, <5>1 DEF Folding
        <5>3. s \ {Max(s)} \in SUBSET (1..k + 1) /\ k + 1 \notin s \ {Max(s)}
          BY <4>2
        <5>4. g[s \ {Max(s)}] = h[s \ {Max(s)}]
          BY <3>3, <5>3
        <5> QED
          BY <5>2, <5>4
      <4> QED
        BY <4>1, <4>2
    <3>7. Folding(g, k + 1, base, step)
      BY <3>3, <3>6 DEF Folding
    <3> QED
      BY <3>5, <3>7
  <2>2. k + 1 \in Nat
    OBVIOUS
  <2> HIDE DEF S
  <2> QED
    BY <2>1, <2>2 DEF S
<1>3. n \in S
  <2> HIDE DEF S
  <2> QED
    BY <1>1, <1>2, SetInduction
<1>4. n <= n
  OBVIOUS
<1> QED
  BY <1>3, <1>4, Zenon

LEMMA IntervalFacts ==
  ASSUME NEW n \in Nat, NEW k \in 1..n
  PROVE  /\ 1..k \in SUBSET (1..n) /\ 1..k # {} /\ Max(1..k) = k
         /\ (1..k) \ {k} = 1..k - 1 /\ k - 1 \in 0..n /\ k \in 0..n
<1>1. k \in Nat /\ k > 0 /\ k <= n
  OBVIOUS
<1>2. Max(1..k) = k /\ 1..k # {} /\ (1..k) \ {Max(1..k)} = 1..k - 1
  BY <1>1, MaxOfInterval
<1>3. \A l \in 1..k : l \in 1..n
  BY <1>1
<1> QED
  BY <1>1, <1>2, <1>3

LEMMA EmptyInterval ==
  ASSUME NEW n \in Nat
  PROVE  1..0 = {} /\ {} \in SUBSET (1..n) /\ 0 \in 0..n /\ n \in 0..n
OBVIOUS

\* The values the iteration meets.
LEMMA FoldTypes ==
  ASSUME NEW n \in Nat, NEW T, NEW base \in T, NEW step \in [1..n -> [T -> T]]
  PROVE  \E iter \in [SUBSET (1..n) -> T] :
           /\ Folding(iter, n, base, step)
           /\ \A s \in SUBSET (1..n) :
                s # {} => Max(s) \in 1..n /\ iter[s \ {Max(s)}] \in T
<1>1. PICK iter \in [SUBSET (1..n) -> T] : Folding(iter, n, base, step)
  BY FoldExists
<1>2. ASSUME NEW s \in SUBSET (1..n), s # {}
      PROVE  Max(s) \in 1..n /\ s \ {Max(s)} \in SUBSET (1..n)
  BY <1>2, MaxOfSubset
<1> QED
  BY <1>1, <1>2

\* A loop whose every step keeps a type keeps it to the end.
LEMMA LoopType ==
  ASSUME NEW n \in Nat, NEW T, NEW f,
         f[0] \in T, \A k \in 1..n : f[k - 1] \in T => f[k] \in T
  PROVE  \A k \in 0..n : f[k] \in T
<1> DEFINE S == {k \in Nat : k <= n => f[k] \in T}
<1>1. 0 \in S
  OBVIOUS
<1>2. ASSUME NEW k \in S
      PROVE  k + 1 \in S
  <2>1. k + 1 <= n => k + 1 \in 1..n /\ (k + 1) - 1 = k /\ k <= n
    OBVIOUS
  <2> QED
    BY <2>1
<1>3. Nat \subseteq S
  <2> HIDE DEF S
  <2> QED
    BY <1>1, <1>2, SetInduction
<1> QED
  BY <1>3

\* What holds before a loop and is kept by each step holds after it.
LEMMA LoopHolds ==
  ASSUME NEW n \in Nat, NEW G, 0 \in G, \A k \in 1..n : k - 1 \in G => k \in G
  PROVE  \A k \in 0..n : k \in G
<1>1. PICK f : f = [k \in 0..n |-> k]
  OBVIOUS
<1>2. f[0] \in G /\ \A k \in 1..n : f[k - 1] \in G => f[k] \in G
  BY <1>1, IntervalFacts
<1>3. \A k \in 0..n : f[k] \in G
  BY <1>2, LoopType
<1> QED
  BY <1>1, <1>3

\* The iteration of a fold over a sequence of length n, seen as a loop.
Follows(iter, n, T, base, step) ==
  /\ base \in T /\ step \in [1..n -> [T -> T]]
  /\ iter[{}] = base
  /\ \A k \in 1..n : iter[1..k - 1] \in T => iter[1..k] = step[k][iter[1..k - 1]]

\* The values of the loop: f[k] after k steps.
LEMMA Iterated ==
  ASSUME NEW n \in Nat, NEW T, NEW base, NEW step, NEW iter,
         Follows(iter, n, T, base, step)
  PROVE  \E f \in [0..n -> T] : /\ f[0] = base /\ f[n] = iter[1..n]
                                /\ \A k \in 1..n : f[k] = step[k][f[k - 1]]
<1> USE DEF Follows
<1>1. PICK f : f = [k \in 0..n |-> iter[1..k]]
  OBVIOUS
<1>2. f[0] = base /\ f[n] = iter[1..n]
  BY <1>1, EmptyInterval
<1>3. ASSUME NEW k \in 1..n, f[k - 1] \in T
      PROVE  f[k] \in T /\ f[k] = step[k][f[k - 1]]
  BY <1>1, <1>3, IntervalFacts
<1>4. f[0] \in T /\ \A k \in 1..n : f[k - 1] \in T => f[k] \in T
  BY <1>2, <1>3
<1>5. \A k \in 0..n : f[k] \in T
  BY <1>4, LoopType
<1>6. \A k \in 1..n : f[k] = step[k][f[k - 1]]
  BY <1>3, <1>5, IntervalFacts
<1>7. f \in [0..n -> T]
  BY <1>1, <1>5
<1> QED
  BY <1>2, <1>6, <1>7

\* A counter that a loop increments counts.
Counter(c, n, P) ==
  /\ P \in [1..n -> BOOLEAN] /\ c[0] = 0
  /\ \A k \in 1..n : c[k] = c[k - 1] + (IF P[k] THEN 1 ELSE 0)

LEMMA CountLoop ==
  ASSUME NEW n \in Nat, NEW P, NEW c, Counter(c, n, P)
  PROVE  c[n] = Cardinality({i \in 1..n : P[i]})
<1> USE DEF Counter
<1> DEFINE Hits(k) == {i \in 1..k : P[i]}
           S == {k \in Nat : k <= n => c[k] = Cardinality(Hits(k))}
<1>1. 0 \in S
  <2>1. Hits(0) = {}
    OBVIOUS
  <2> QED
    BY <2>1, FS_EmptySet
<1>2. ASSUME NEW k \in S
      PROVE  k + 1 \in S
  <2>1. SUFFICES ASSUME k + 1 <= n
                 PROVE  c[k + 1] = Cardinality(Hits(k + 1))
    OBVIOUS
  <2>2. k \in Nat /\ k <= n /\ k + 1 \in 1..n /\ (k + 1) - 1 = k
        /\ c[k] = Cardinality(Hits(k))
    BY <2>1
  <2>3. IsFiniteSet(Hits(k)) /\ Cardinality(Hits(k)) \in Nat
    <3>1. IsFiniteSet(1..k) /\ Hits(k) \in SUBSET (1..k)
      BY <2>2, FS_Interval
    <3> QED
      BY <3>1, FS_Subset, FS_CardinalityType
  <2>4. c[k + 1] = c[k] + (IF P[k + 1] THEN 1 ELSE 0)
    BY <2>2
  <2>5. CASE P[k + 1]
    <3>1. Hits(k + 1) = Hits(k) \cup {k + 1} /\ k + 1 \notin Hits(k)
      BY <2>2, <2>5
    <3>2. Cardinality(Hits(k + 1)) = Cardinality(Hits(k)) + 1
      <4> HIDE DEF Hits
      <4> QED
        BY <2>3, <3>1, FS_AddElement
    <3> QED
      BY <2>2, <2>4, <2>5, <3>2
  <2>6. CASE ~P[k + 1]
    <3>1. Hits(k + 1) = Hits(k)
      BY <2>2, <2>6
    <3> HIDE DEF Hits
    <3>2. c[k + 1] = c[k]
      BY <2>2, <2>3, <2>4, <2>6
    <3> QED
      BY <2>2, <3>1, <3>2
  <2> QED
    BY <2>5, <2>6
<1>3. Nat \subseteq S
  <2> HIDE DEF S
  <2> QED
    BY <1>1, <1>2, SetInduction
<1> QED
  BY <1>3

-----------------------------------------------------------------------------
(* Sums and counts.                                                        *)

\* A sum as a loop.
LEMMA TotalLoop ==
  ASSUME NEW n \in Nat, NEW values \in [1..n -> Nat]
  PROVE  \E sum \in [0..n -> Nat] :
           /\ Total(values) = sum[n] /\ sum[0] = 0
           /\ \A k \in 1..n : sum[k] = sum[k - 1] + values[k]
<1> DEFINE Solves(iter) == iter = [s \in SUBSET DOMAIN values |->
                   IF s = {} THEN 0 ELSE iter[s \ {Max(s)}] + values[Max(s)]]
<1>1. \E iter : Solves(iter)
  <2>1. PICK step : step = [k \in 1..n |-> [v \in Nat |-> v + values[k]]]
    OBVIOUS
  <2>2. step \in [1..n -> [Nat -> Nat]]
    BY <2>1
  <2>3. PICK iter \in [SUBSET (1..n) -> Nat] :
          /\ Folding(iter, n, 0, step)
          /\ \A s \in SUBSET (1..n) : s # {} => Max(s) \in 1..n /\ iter[s \ {Max(s)}] \in Nat
    BY <2>2, FoldTypes
  <2>4. Solves(iter)
    BY <2>1, <2>3 DEF Folding
  <2> QED
    BY <2>4
<1>2. PICK iter : Solves(iter) /\ Total(values) = iter[DOMAIN values]
  BY <1>1 DEF Total, FoldLeft, MapThenFoldSet
<1>3. iter[{}] = 0
  BY <1>2
<1>4. ASSUME NEW k \in 1..n
      PROVE  iter[1..k] = iter[1..k - 1] + values[k]
  <2>1. 1..k \in SUBSET DOMAIN values /\ 1..k # {} /\ Max(1..k) = k
        /\ (1..k) \ {k} = 1..k - 1
    BY IntervalFacts
  <2> QED
    BY <1>2, <2>1
<1>5. PICK sum : sum = [k \in 0..n |-> iter[1..k]]
  OBVIOUS
<1>6. sum[0] = 0 /\ sum[n] = Total(values)
  BY <1>2, <1>3, <1>5, EmptyInterval
<1>7. ASSUME NEW k \in 1..n
      PROVE  sum[k] = sum[k - 1] + values[k]
  BY <1>4, <1>5, IntervalFacts
<1>8. \A k \in 0..n : sum[k] \in Nat
  <2>1. \A k \in 1..n : sum[k - 1] \in Nat => sum[k] \in Nat
    BY <1>7
  <2>2. sum[0] \in Nat
    BY <1>6
  <2> QED
    BY <2>1, <2>2, LoopType
<1>9. sum \in [0..n -> Nat]
  BY <1>5, <1>8
<1> QED
  BY <1>6, <1>7, <1>9

LEMMA TotalsOrdered ==
  ASSUME NEW n \in Nat, NEW u \in [1..n -> Nat], NEW v \in [1..n -> Nat],
         \A i \in 1..n : u[i] <= v[i]
  PROVE  Total(u) <= Total(v)
<1>1. PICK f \in [0..n -> Nat] : /\ Total(u) = f[n] /\ f[0] = 0
                                 /\ \A k \in 1..n : f[k] = f[k - 1] + u[k]
  BY TotalLoop
<1>2. PICK g \in [0..n -> Nat] : /\ Total(v) = g[n] /\ g[0] = 0
                                 /\ \A k \in 1..n : g[k] = g[k - 1] + v[k]
  BY TotalLoop
<1>3. PICK G : G = {k \in 0..n : f[k] <= g[k]}
  OBVIOUS
<1>4. 0 \in G
  BY <1>1, <1>2, <1>3
<1>5. ASSUME NEW k \in 1..n, k - 1 \in G
      PROVE  k \in G
  <2>1. /\ k \in 0..n /\ k - 1 \in 0..n /\ f[k - 1] <= g[k - 1]
        /\ f[k - 1] \in Nat /\ g[k - 1] \in Nat /\ u[k] \in Nat /\ v[k] \in Nat
    BY <1>3, <1>5
  <2>2. f[k] = f[k - 1] + u[k] /\ g[k] = g[k - 1] + v[k] /\ u[k] <= v[k]
    BY <1>1, <1>2
  <2> QED
    BY <1>3, <2>1, <2>2
<1>6. n \in G
  <2>1. \A k \in 0..n : k \in G
    BY <1>4, <1>5, LoopHolds
  <2> QED
    BY <2>1, EmptyInterval
<1> QED
  BY <1>1, <1>2, <1>3, <1>6

LEMMA PlacesCounted ==
  ASSUME NEW n \in Nat
  PROVE  Cardinality(1..n) = n /\ Cardinality({}) = 0
<1>1. Cardinality(1..n) = IF 1 > n THEN 0 ELSE n - 1 + 1
  BY FS_Interval
<1>2. Cardinality({}) = 0
  BY FS_EmptySet
<1> QED
  BY <1>1, <1>2

LEMMA Counts ==
  ASSUME NEW n \in Nat, NEW s \in SUBSET (1..n)
  PROVE  IsFiniteSet(s) /\ Cardinality(s) \in Nat
<1>1. IsFiniteSet(1..n)
  BY FS_Interval
<1>2. IsFiniteSet(s)
  BY <1>1, FS_Subset
<1> QED
  BY <1>2, FS_CardinalityType

LEMMA TotalType ==
  ASSUME NEW n \in Nat, NEW values \in [1..n -> Nat]
  PROVE  Total(values) \in Nat
<1>1. PICK sum \in [0..n -> Nat] : Total(values) = sum[n]
  BY TotalLoop
<1> QED
  BY <1>1

LEMMA TotalsAdd ==
  ASSUME NEW n \in Nat, NEW u \in [1..n -> Nat], NEW v \in [1..n -> Nat],
         NEW w \in [1..n -> Nat], \A i \in 1..n : w[i] = u[i] + v[i]
  PROVE  Total(w) = Total(u) + Total(v)
<1>1. PICK f \in [0..n -> Nat] : /\ Total(u) = f[n] /\ f[0] = 0
                                 /\ \A k \in 1..n : f[k] = f[k - 1] + u[k]
  BY TotalLoop
<1>2. PICK g \in [0..n -> Nat] : /\ Total(v) = g[n] /\ g[0] = 0
                                 /\ \A k \in 1..n : g[k] = g[k - 1] + v[k]
  BY TotalLoop
<1>3. PICK h \in [0..n -> Nat] : /\ Total(w) = h[n] /\ h[0] = 0
                                 /\ \A k \in 1..n : h[k] = h[k - 1] + w[k]
  BY TotalLoop
<1>4. PICK G : G = {k \in 0..n : h[k] = f[k] + g[k]}
  OBVIOUS
<1>5. 0 \in G
  BY <1>1, <1>2, <1>3, <1>4
<1>6. ASSUME NEW k \in 1..n, k - 1 \in G
      PROVE  k \in G
  <2>1. /\ k \in 0..n /\ k - 1 \in 0..n /\ h[k - 1] = f[k - 1] + g[k - 1]
        /\ f[k - 1] \in Nat /\ g[k - 1] \in Nat /\ u[k] \in Nat /\ v[k] \in Nat
    BY <1>4, <1>6
  <2>2. /\ f[k] = f[k - 1] + u[k] /\ g[k] = g[k - 1] + v[k]
        /\ h[k] = h[k - 1] + w[k] /\ w[k] = u[k] + v[k]
    BY <1>1, <1>2, <1>3
  <2> QED
    BY <1>4, <2>1, <2>2
<1>7. n \in G
  <2>1. \A k \in 0..n : k \in G
    BY <1>5, <1>6, LoopHolds
  <2> QED
    BY <2>1, EmptyInterval
<1> QED
  BY <1>1, <1>2, <1>3, <1>4, <1>7

\* A sum of zeros.
LEMMA TotalZero ==
  ASSUME NEW n \in Nat, NEW u \in [1..n -> Nat], \A i \in 1..n : u[i] = 0
  PROVE  Total(u) = 0
<1>1. \A i \in 1..n : u[i] = u[i] + u[i]
  OBVIOUS
<1>2. Total(u) = Total(u) + Total(u)
  BY <1>1, TotalsAdd
<1>3. Total(u) \in Nat
  BY TotalType
<1> QED
  BY <1>2, <1>3

\* One number more behind: the first n numbers add up to the same.
LEMMA TotalBehind ==
  ASSUME NEW n \in Nat, NEW v \in [1..n -> Nat], NEW w \in [1..n + 1 -> Nat],
         \A i \in 1..n : w[i] = v[i]
  PROVE  Total(w) = Total(v) + w[n + 1]
<1>1. PICK f \in [0..n -> Nat] : /\ Total(v) = f[n] /\ f[0] = 0
                                 /\ \A k \in 1..n : f[k] = f[k - 1] + v[k]
  BY TotalLoop
<1>2. n + 1 \in Nat
  OBVIOUS
<1>3. PICK g \in [0..n + 1 -> Nat] : /\ Total(w) = g[n + 1] /\ g[0] = 0
                                     /\ \A k \in 1..n + 1 : g[k] = g[k - 1] + w[k]
  BY <1>2, TotalLoop
<1>4. PICK G : G = {k \in 0..n : f[k] = g[k]}
  OBVIOUS
<1>5. 0 \in G
  BY <1>1, <1>3, <1>4
<1>6. ASSUME NEW k \in 1..n, k - 1 \in G
      PROVE  k \in G
  <2>1. k \in 0..n /\ k \in 1..n + 1 /\ f[k - 1] = g[k - 1]
    BY <1>4, <1>6
  <2>2. f[k] = f[k - 1] + v[k] /\ g[k] = g[k - 1] + w[k] /\ w[k] = v[k]
    BY <1>1, <1>3, <2>1
  <2> QED
    BY <1>4, <2>1, <2>2
<1>7. n \in G
  <2>1. \A k \in 0..n : k \in G
    BY <1>5, <1>6, LoopHolds
  <2> QED
    BY <2>1, EmptyInterval
<1>8. n + 1 \in 1..n + 1 /\ (n + 1) - 1 = n
  OBVIOUS
<1>9. g[n + 1] = g[n] + w[n + 1]
  BY <1>3, <1>8
<1> QED
  BY <1>1, <1>3, <1>4, <1>7, <1>9

\* One number more in front.
LEMMA TotalInFront ==
  ASSUME NEW n \in Nat, NEW v \in [1..n -> Nat], NEW w \in [1..n + 1 -> Nat],
         \A i \in 1..n : w[i + 1] = v[i]
  PROVE  Total(w) = w[1] + Total(v)
<1>1. PICK f \in [0..n -> Nat] : /\ Total(v) = f[n] /\ f[0] = 0
                                 /\ \A k \in 1..n : f[k] = f[k - 1] + v[k]
  BY TotalLoop
<1>2. n + 1 \in Nat
  OBVIOUS
<1>3. PICK g \in [0..n + 1 -> Nat] : /\ Total(w) = g[n + 1] /\ g[0] = 0
                                     /\ \A k \in 1..n + 1 : g[k] = g[k - 1] + w[k]
  BY <1>2, TotalLoop
<1>4. PICK G : G = {k \in 0..n : g[k + 1] = w[1] + f[k]}
  OBVIOUS
<1>5. 0 \in G
  <2>1. 1 \in 1..n + 1 /\ 1 - 1 = 0 /\ w[1] \in Nat
    OBVIOUS
  <2>2. g[1] = g[0] + w[1]
    BY <1>3, <2>1
  <2> QED
    BY <1>1, <1>3, <1>4, <2>1, <2>2
<1>6. ASSUME NEW k \in 1..n, k - 1 \in G
      PROVE  k \in G
  <2>1. /\ k \in 0..n /\ k + 1 \in 1..n + 1 /\ (k - 1) + 1 = k /\ (k + 1) - 1 = k
        /\ g[k] = w[1] + f[k - 1] /\ w[1] \in Nat /\ f[k - 1] \in Nat /\ v[k] \in Nat
    BY <1>4, <1>6
  <2>2. f[k] = f[k - 1] + v[k]
    BY <1>1
  <2>3. g[k + 1] = g[k] + w[k + 1] /\ w[k + 1] = v[k]
    BY <1>3, <2>1
  <2>4. g[k + 1] = w[1] + f[k]
    <3>1. g[k + 1] = (w[1] + f[k - 1]) + v[k]
      BY <2>1, <2>3
    <3>2. PICK a \in Nat, b \in Nat, c \in Nat : a = w[1] /\ b = f[k - 1] /\ c = v[k]
      BY <2>1
    <3>3. g[k + 1] = (a + b) + c /\ f[k] = b + c
      BY <2>2, <3>1, <3>2
    <3>4. (a + b) + c = a + (b + c)
      OBVIOUS
    <3> QED
      BY <3>2, <3>3, <3>4
  <2> QED
    BY <1>4, <2>1, <2>4
<1>7. n \in G
  <2>1. \A k \in 0..n : k \in G
    BY <1>5, <1>6, LoopHolds
  <2> QED
    BY <2>1, EmptyInterval
<1> QED
  BY <1>1, <1>3, <1>4, <1>7

\* One number at one place.
LEMMA TotalOfOne ==
  ASSUME NEW n \in Nat, NEW u \in [1..n -> Nat], NEW p \in 1..n,
         \A i \in 1..n : i # p => u[i] = 0
  PROVE  Total(u) = u[p]
<1>1. PICK f \in [0..n -> Nat] : /\ Total(u) = f[n] /\ f[0] = 0
                                 /\ \A k \in 1..n : f[k] = f[k - 1] + u[k]
  BY TotalLoop
<1>2. PICK G : G = {k \in 0..n : f[k] = IF k < p THEN 0 ELSE u[p]}
  OBVIOUS
<1>3. 0 \in G
  BY <1>1, <1>2
<1>4. ASSUME NEW k \in 1..n, k - 1 \in G
      PROVE  k \in G
  <2>1. k \in 0..n /\ f[k - 1] = IF k - 1 < p THEN 0 ELSE u[p]
    BY <1>2, <1>4
  <2>2. f[k] = f[k - 1] + u[k] /\ u[k] \in Nat /\ u[p] \in Nat /\ (k # p => u[k] = 0)
    BY <1>1
  <2>3. f[k] = IF k < p THEN 0 ELSE u[p]
    BY <2>1, <2>2
  <2> QED
    BY <1>2, <2>1, <2>3
<1>5. n \in G
  <2>1. \A k \in 0..n : k \in G
    BY <1>3, <1>4, LoopHolds
  <2> QED
    BY <2>1, EmptyInterval
<1> QED
  BY <1>1, <1>2, <1>5

-----------------------------------------------------------------------------
(* Ranks.                                                                  *)

\* In a finite set under a strict total order each number from 0 is the rank,
\* the number of better elements, of just one element.
Ranks(E, order) ==
  /\ order \in [E -> SUBSET E]
  /\ \A s \in E : s \notin order[s]
  /\ \A s, t \in E : t \in order[s] => order[t] \subseteq order[s]
  /\ \A s, t \in E : s # t => s \in order[t] \/ t \in order[s]

LEMMA RankedOnce ==
  ASSUME NEW E, IsFiniteSet(E), NEW order, Ranks(E, order)
  PROVE  /\ Cardinality(E) \in Nat
         /\ \A k \in 0..(Cardinality(E) - 1) : \E s \in E : Cardinality(order[s]) = k
         /\ \A s, t \in E : Cardinality(order[s]) = Cardinality(order[t]) => s = t
<1> USE DEF Ranks
<1>1. PICK n \in Nat : n = Cardinality(E)
  BY FS_CardinalityType
<1>2. ASSUME NEW s \in E
      PROVE  /\ IsFiniteSet(order[s]) /\ Cardinality(order[s]) \in Nat
             /\ Cardinality(order[s]) < n
  <2>1. order[s] \in SUBSET E /\ order[s] # E
    OBVIOUS
  <2>2. /\ IsFiniteSet(order[s]) /\ Cardinality(order[s]) <= Cardinality(E)
        /\ Cardinality(E) = Cardinality(order[s]) => E = order[s]
    BY <2>1, FS_Subset
  <2>3. Cardinality(order[s]) \in Nat
    BY <2>2, FS_CardinalityType
  <2> QED
    BY <1>1, <2>1, <2>2, <2>3
<1>3. ASSUME NEW s \in E, NEW t \in E, s \in order[t]
      PROVE  Cardinality(order[s]) # Cardinality(order[t])
  <2>1. order[s] \in SUBSET order[t] /\ order[s] # order[t]
    BY <1>3
  <2>2. Cardinality(order[t]) = Cardinality(order[s]) => order[t] = order[s]
    BY <1>2, <2>1, FS_Subset
  <2> QED
    BY <2>1, <2>2
<1>4. \A s, t \in E : Cardinality(order[s]) = Cardinality(order[t]) => s = t
  BY <1>3
<1>5. PICK rank : rank = [s \in E |-> Cardinality(order[s])]
  OBVIOUS
<1>6. IsFiniteSet(0..(n - 1)) /\ Cardinality(0..(n - 1)) = n
  <2>1. /\ IsFiniteSet(0..(n - 1))
        /\ Cardinality(0..(n - 1)) = IF 0 > n - 1 THEN 0 ELSE (n - 1) - 0 + 1
    <3>1. 0 \in Int /\ n - 1 \in Int
      OBVIOUS
    <3> QED
      BY <3>1, FS_Interval
  <2> QED
    BY <2>1
<1>7. rank \in Injection(E, 0..(n - 1))
  <2>1. rank \in [E -> 0..(n - 1)]
    BY <1>2, <1>5
  <2>2. \A s, t \in E : rank[s] = rank[t] => s = t
    BY <1>4, <1>5
  <2> QED
    BY <2>1, <2>2 DEF Injection, IsInjective
<1>8. rank \in Surjection(E, 0..(n - 1))
  BY <1>1, <1>6, <1>7, FS_Injection
<1>9. \A k \in 0..(n - 1) : \E s \in E : rank[s] = k
  BY <1>8 DEF Surjection
<1> QED
  BY <1>1, <1>4, <1>5, <1>9
==============================================================================
