----------------------------- MODULE ReplayProofs -----------------------------
(***************************************************************************)
(* What the backtest engine promises, proved for any candles, any ladder,  *)
(* any fee and any funding, and for any other executions and log rows the  *)
(* account has.  The sections go from the rounding of prices over the      *)
(* ladder and the book to the types, then property by property: thresholds *)
(* left behind, the pace of the cycles, restored positions, the two that   *)
(* compare the engine with the accounting, and the figures it keeps        *)
(* running against the record of all marks.  The accounting folds          *)
(* sequences from the left: a fold is a recursive function, which exists   *)
(* and is unique over every finite set of indices.                         *)
(***************************************************************************)
EXTENDS Replay, SumTheorems

-----------------------------------------------------------------------------
(* Rounding *)

\* An integer quotient and its remainder.
LEMMA DivBounds ==
  ASSUME NEW x \in Int, NEW y \in Nat \ {0}
  PROVE  /\ x \div y \in Int
         /\ (x \div y) * y <= x
         /\ x < (x \div y) * y + y
OBVIOUS

\* A product with a natural keeps the order.
LEMMA TimesMonotone ==
  ASSUME NEW x \in Int, NEW y \in Int, x <= y, NEW b \in Nat
  PROVE  x * b <= y * b
OBVIOUS

\* The nearest whole number is within a half.
LEMMA NearestBounds ==
  ASSUME NEW a \in Int, NEW b \in Nat \ {0}, NEW n, n = (2 * a + b) \div (2 * b)
  PROVE  /\ n \in Int
         /\ 2 * (n * b) <= 2 * a + b
         /\ 2 * a < 2 * (n * b) + b
<1>1. 2 * a + b \in Int /\ 2 * b \in Nat \ {0} OBVIOUS
<1>2. /\ n \in Int
      /\ n * (2 * b) <= 2 * a + b
      /\ 2 * a + b < n * (2 * b) + 2 * b
  BY <1>1, DivBounds
<1>3. n * (2 * b) = 2 * (n * b) BY <1>2
<1>4. n * b \in Int BY <1>2
<1>5. QED BY ONLY <1>2, <1>3, <1>4, a \in Int, b \in Nat

\* A ratio rounded up lies above a whole number exactly when it lies above it by
\* more than a Grain-th: what is closer is noise of the floats.
LEMMA UpAbove ==
  ASSUME NEW a \in Int, NEW b \in Nat \ {0}, NEW t \in Int
  PROVE  Increments(a, b, TRUE) > t <=> (a - t * b) * Grain > b
<1> DEFINE n == (2 * a + b) \div (2 * b)
           c == -((-a) \div b)
<1>1. Grain \in Nat /\ Grain > 100 BY InstrumentsAssumption
<1>2. n \in Int /\ 2 * (n * b) <= 2 * a + b /\ 2 * a < 2 * (n * b) + b
  BY NearestBounds
<1>3. c \in Int /\ a <= c * b /\ c * b < a + b
  <2>1. (-a) \div b \in Int /\ ((-a) \div b) * b <= -a /\ -a < ((-a) \div b) * b + b
    BY DivBounds
  <2>2. c * b = -(((-a) \div b) * b) BY <2>1
  <2> DEFINE m == ((-a) \div b) * b
  <2>3. m \in Int BY <2>1
  <2>4. QED BY <2>1, <2>2, <2>3
<1>4. Increments(a, b, TRUE) = IF Distance(a, n * b) * Grain <= b THEN n ELSE c
  BY DEF Increments
<1> HIDE DEF n, c
<1>5. n * b \in Int /\ t * b \in Int BY <1>2
<1>6. CASE Distance(a, n * b) * Grain <= b
  <2>1. /\ (a - n * b) * Grain <= b
        /\ (n * b - a) * Grain <= b
    BY <1>1, <1>5, <1>6 DEF Distance
  <2>2. ASSUME n > t PROVE (a - t * b) * Grain > b
    <3>1. (t + 1) * b <= n * b BY <1>2, <2>2, TimesMonotone
    <3>2. (t + 1) * b = t * b + b OBVIOUS
    <3>3. b - (n * b - a) <= a - t * b BY <3>1, <3>2, <1>5
    <3>4. (b - (n * b - a)) * Grain <= (a - t * b) * Grain
      BY <1>1, <1>5, <3>3, TimesMonotone
    <3>5. (b - (n * b - a)) * Grain = b * Grain - (n * b - a) * Grain BY <1>1, <1>5
    <3>6. 100 * b <= b * Grain BY <1>1
    <3> DEFINE u == (a - t * b) * Grain  v == (n * b - a) * Grain  w == b * Grain
    <3>7. u \in Int /\ v \in Int /\ w \in Int BY <1>1, <1>5
    <3>8. w - v <= u /\ v <= b /\ 100 * b <= w BY <2>1, <3>4, <3>5, <3>6
    <3> HIDE DEF u, v, w
    <3>9. u > b BY <3>7, <3>8
    <3>10. QED BY <3>9 DEF u
  <2>3. ASSUME ~(n > t) PROVE ~((a - t * b) * Grain > b)
    <3>1. n * b <= t * b BY <1>2, <2>3, TimesMonotone
    <3>2. (a - t * b) * Grain <= (a - n * b) * Grain
      BY <1>1, <1>5, <3>1, TimesMonotone
    <3> DEFINE u == (a - t * b) * Grain  v == (a - n * b) * Grain
    <3>3. u \in Int /\ v \in Int /\ u <= v /\ v <= b BY <1>1, <1>5, <2>1, <3>2
    <3> HIDE DEF u, v
    <3>4. ~(u > b) BY <3>3
    <3>5. QED BY <3>4 DEF u
  <2>4. QED BY <1>4, <1>6, <2>2, <2>3
<1>7. CASE ~(Distance(a, n * b) * Grain <= b)
  <2>1. c * b \in Int BY <1>3
  <2>2. ASSUME c > t PROVE (a - t * b) * Grain > b
    <3>1. (t + 1) * b <= c * b BY <1>3, <2>2, TimesMonotone
    <3>2. (t + 1) * b = t * b + b OBVIOUS
    <3>3. t * b < a BY <1>3, <1>5, <2>1, <3>1, <3>2
    <3>4. CASE t >= n
      <4>1. n * b <= t * b BY <1>2, <3>4, TimesMonotone
      <4>2. t = n
        <5>1. SUFFICES ASSUME t >= n + 1 PROVE FALSE BY <1>2, <3>4
        <5>2. (n + 1) * b <= t * b BY <1>2, <5>1, TimesMonotone
        <5>3. (n + 1) * b = n * b + b BY <1>2
        <5>4. QED BY <1>2, <1>5, <3>3, <5>2, <5>3
      <4>3. Distance(a, n * b) = a - n * b BY <1>5, <3>3, <4>2 DEF Distance
      <4>4. QED BY <1>1, <1>5, <1>7, <4>2, <4>3
    <3>5. CASE t < n
      <4>1. t * b + b <= n * b
        <5>1. (t + 1) * b <= n * b BY <1>2, <3>5, TimesMonotone
        <5>2. QED BY <3>2, <5>1
      <4>2. b <= 2 * (a - t * b) BY <1>2, <1>5, <4>1
      <4>3. b * Grain <= (2 * (a - t * b)) * Grain BY <1>1, <1>5, <4>2, TimesMonotone
      <4>4. (2 * (a - t * b)) * Grain = 2 * ((a - t * b) * Grain) BY <1>1, <1>5
      <4>5. 100 * b <= b * Grain BY <1>1
      <4> DEFINE u == (a - t * b) * Grain  w == b * Grain
      <4>6. u \in Int /\ w \in Int /\ w <= 2 * u /\ 100 * b <= w
        BY <1>1, <1>5, <4>3, <4>4, <4>5
      <4> HIDE DEF u, w
      <4>7. u > b BY <4>6
      <4>8. QED BY <4>7 DEF u
    <3>6. QED BY <1>2, <3>4, <3>5
  <2>3. ASSUME ~(c > t) PROVE ~((a - t * b) * Grain > b)
    <3>1. c * b <= t * b BY <1>3, <2>3, TimesMonotone
    <3>2. a - t * b <= 0 BY <1>3, <1>5, <2>1, <3>1
    <3>3. (a - t * b) * Grain <= 0 * Grain BY <1>1, <1>5, <3>2, TimesMonotone
    <3>4. QED BY <1>1, <1>5, <3>3
  <2>4. QED BY <1>3, <1>4, <1>7, <2>2, <2>3
<1>8. QED BY <1>6, <1>7

\* The same of a ratio rounded down, and a whole number above it.
LEMMA DownBelow ==
  ASSUME NEW a \in Int, NEW b \in Nat \ {0}, NEW t \in Int
  PROVE  Increments(a, b, FALSE) < t <=> (t * b - a) * Grain > b
<1> DEFINE n == (2 * a + b) \div (2 * b)
           c == a \div b
<1>1. Grain \in Nat /\ Grain > 100 BY InstrumentsAssumption
<1>2. n \in Int /\ 2 * (n * b) <= 2 * a + b /\ 2 * a < 2 * (n * b) + b
  BY NearestBounds
<1>3. c \in Int /\ c * b <= a /\ a < c * b + b BY DivBounds
<1>4. Increments(a, b, FALSE) = IF Distance(a, n * b) * Grain <= b THEN n ELSE c
  BY DEF Increments
<1> HIDE DEF n, c
<1>5. n * b \in Int /\ t * b \in Int BY <1>2
<1>6. CASE Distance(a, n * b) * Grain <= b
  <2>1. /\ (a - n * b) * Grain <= b
        /\ (n * b - a) * Grain <= b
    BY <1>1, <1>5, <1>6 DEF Distance
  <2>2. ASSUME n < t PROVE (t * b - a) * Grain > b
    <3>1. (n + 1) * b <= t * b BY <1>2, <2>2, TimesMonotone
    <3>2. (n + 1) * b = n * b + b BY <1>2
    <3>3. b - (a - n * b) <= t * b - a BY <3>1, <3>2, <1>5
    <3>4. (b - (a - n * b)) * Grain <= (t * b - a) * Grain
      BY <1>1, <1>5, <3>3, TimesMonotone
    <3>5. (b - (a - n * b)) * Grain = b * Grain - (a - n * b) * Grain BY <1>1, <1>5
    <3>6. 100 * b <= b * Grain BY <1>1
    <3> DEFINE u == (t * b - a) * Grain  v == (a - n * b) * Grain  w == b * Grain
    <3>7. u \in Int /\ v \in Int /\ w \in Int BY <1>1, <1>5
    <3>8. w - v <= u /\ v <= b /\ 100 * b <= w BY <2>1, <3>4, <3>5, <3>6
    <3> HIDE DEF u, v, w
    <3>9. u > b BY <3>7, <3>8
    <3>10. QED BY <3>9 DEF u
  <2>3. ASSUME ~(n < t) PROVE ~((t * b - a) * Grain > b)
    <3>1. t * b <= n * b BY <1>2, <2>3, TimesMonotone
    <3>2. (t * b - a) * Grain <= (n * b - a) * Grain
      BY <1>1, <1>5, <3>1, TimesMonotone
    <3> DEFINE u == (t * b - a) * Grain  v == (n * b - a) * Grain
    <3>3. u \in Int /\ v \in Int /\ u <= v /\ v <= b BY <1>1, <1>5, <2>1, <3>2
    <3> HIDE DEF u, v
    <3>4. ~(u > b) BY <3>3
    <3>5. QED BY <3>4 DEF u
  <2>4. QED BY <1>4, <1>6, <2>2, <2>3
<1>7. CASE ~(Distance(a, n * b) * Grain <= b)
  <2>1. c * b \in Int BY <1>3
  <2>2. ASSUME c < t PROVE (t * b - a) * Grain > b
    <3>1. (c + 1) * b <= t * b BY <1>3, <2>2, TimesMonotone
    <3>2. (c + 1) * b = c * b + b BY <1>3
    <3>3. a < t * b BY <1>3, <1>5, <2>1, <3>1, <3>2
    <3>4. CASE t <= n
      <4>1. t = n
        <5>1. SUFFICES ASSUME t + 1 <= n PROVE FALSE BY <1>2, <3>4
        <5>2. (t + 1) * b <= n * b BY <1>2, <5>1, TimesMonotone
        <5>3. (t + 1) * b = t * b + b OBVIOUS
        <5>4. QED BY <1>2, <1>5, <3>3, <5>2, <5>3
      <4>2. Distance(a, n * b) = n * b - a BY <1>5, <3>3, <4>1 DEF Distance
      <4>3. QED BY <1>1, <1>5, <1>7, <4>1, <4>2
    <3>5. CASE t > n
      <4>1. n * b + b <= t * b
        <5>1. (n + 1) * b <= t * b BY <1>2, <3>5, TimesMonotone
        <5>2. (n + 1) * b = n * b + b BY <1>2
        <5>3. QED BY <5>1, <5>2
      <4>2. b <= 2 * (t * b - a) BY <1>2, <1>5, <4>1
      <4>3. b * Grain <= (2 * (t * b - a)) * Grain BY <1>1, <1>5, <4>2, TimesMonotone
      <4>4. (2 * (t * b - a)) * Grain = 2 * ((t * b - a) * Grain) BY <1>1, <1>5
      <4>5. 100 * b <= b * Grain BY <1>1
      <4> DEFINE u == (t * b - a) * Grain  w == b * Grain
      <4>6. u \in Int /\ w \in Int /\ w <= 2 * u /\ 100 * b <= w
        BY <1>1, <1>5, <4>3, <4>4, <4>5
      <4> HIDE DEF u, w
      <4>7. u > b BY <4>6
      <4>8. QED BY <4>7 DEF u
    <3>6. QED BY <1>2, <3>4, <3>5
  <2>3. ASSUME ~(c < t) PROVE ~((t * b - a) * Grain > b)
    <3>1. t * b <= c * b BY <1>3, <2>3, TimesMonotone
    <3>2. t * b - a <= 0 BY <1>3, <1>5, <2>1, <3>1
    <3>3. (t * b - a) * Grain <= 0 * Grain BY <1>1, <1>5, <3>2, TimesMonotone
    <3>4. QED BY <1>1, <1>5, <3>3
  <2>4. QED BY <1>3, <1>4, <1>7, <2>2, <2>3
<1>8. QED BY <1>6, <1>7

\* A ratio of naturals is rounded to a natural, either way.
LEMMA IncrementsNat ==
  ASSUME NEW a \in Int, a >= 0, NEW b \in Nat \ {0}
  PROVE  Increments(a, b, TRUE) \in Nat /\ Increments(a, b, FALSE) \in Nat
<1> DEFINE up == Increments(a, b, TRUE)
           down == Increments(a, b, FALSE)
<1>1. up \in Int /\ down \in Int
  <2>1. (2 * a + b) \div (2 * b) \in Int BY NearestBounds
  <2>2. (-a) \div b \in Int /\ a \div b \in Int BY DivBounds
  <2>3. QED BY <2>1, <2>2 DEF Increments
<1>2. Grain \in Nat /\ Grain > 100 BY InstrumentsAssumption
<1>3. up >= 0
  <2> DEFINE t == -1
  <2>1. t \in Int /\ b <= a - t * b OBVIOUS
  <2>2. b * Grain <= (a - t * b) * Grain BY <1>2, <2>1, TimesMonotone
  <2>3. b < b * Grain BY <1>2
  <2> DEFINE u == (a - t * b) * Grain  w == b * Grain
  <2>4. u \in Int /\ w \in Int BY <1>2
  <2> HIDE DEF t
  <2>5. Increments(a, b, TRUE) > t <=> u > b BY <2>1, UpAbove
  <2> HIDE DEF u, w
  <2>6. u > b BY <2>2, <2>3, <2>4 DEF u, w
  <2>7. up > t BY <2>5, <2>6
  <2> HIDE DEF up, down
  <2>8. QED BY <1>1, <2>7 DEF t
<1>4. down >= 0
  <2> DEFINE t == 0
  <2>1. t \in Int /\ t * b - a <= 0 OBVIOUS
  <2>2. (t * b - a) * Grain <= 0 * Grain BY <1>2, <2>1, TimesMonotone
  <2> HIDE DEF t
  <2>3. ~((t * b - a) * Grain > b) BY <1>2, <2>1, <2>2
  <2>4. Increments(a, b, FALSE) < t <=> (t * b - a) * Grain > b BY <2>1, DownBelow
  <2>5. ~(down < t) BY <2>3, <2>4
  <2> HIDE DEF up, down
  <2>6. QED BY <1>1, <2>5 DEF t
<1>5. up \in Nat /\ down \in Nat
  <2> HIDE DEF up, down
  <2>1. QED BY <1>1, <1>3, <1>4
<1>6. QED BY <1>5

-----------------------------------------------------------------------------
(* Sums of fills *)

\* What a ladder has filled, and its costs and quantities.
Fills == [cost : Nat, qty : Nat \ {0}]

CostOf(fills) == [i \in DOMAIN fills |-> fills[i].cost]
QtyOf(fills) == [i \in DOMAIN fills |-> fills[i].qty]

\* The sums of a cycle are sums of functions.
LEMMA CostIsSum ==
  ASSUME NEW c, IsFiniteSet(DOMAIN c.fills)
  PROVE  Cost(c) = SumFunction(CostOf(c.fills))
<1> DEFINE D == DOMAIN c.fills
           f == CostOf(c.fills)
           G == CHOOSE g : g = [s \in SUBSET D |-> IF s = {} THEN 0
                  ELSE c.fills[CHOOSE x \in s : TRUE].cost
                         + g[s \ {CHOOSE x \in s : TRUE}]]
<1>1. DOMAIN f = D /\ \A x \in D : f[x] = c.fills[x].cost BY DEF CostOf
<1>2. Cost(c) = G[D] BY DEF Cost, MapThenSumSet, MapThenFoldSet
<1>3. PICK h : IsFold(h, f, D) BY <1>1, FoldExists
<1> HIDE DEF f
<1>4. h = [s \in SUBSET D |-> IF s = {} THEN 0
             ELSE c.fills[CHOOSE x \in s : TRUE].cost
                    + h[s \ {CHOOSE x \in s : TRUE}]]
  BY <1>1, <1>3 DEF IsFold
<1>5. G = [s \in SUBSET D |-> IF s = {} THEN 0
             ELSE c.fills[CHOOSE x \in s : TRUE].cost
                    + G[s \ {CHOOSE x \in s : TRUE}]]
  BY <1>4
<1> HIDE DEF G
<1>6. IsFold(G, f, D) BY <1>1, <1>5 DEF IsFold
<1>7. SumFunction(f) = G[D] BY <1>1, <1>6, SumOfFold
<1>8. QED BY <1>2, <1>7 DEF f

\* The same of the quantities.
LEMMA QtyIsSum ==
  ASSUME NEW c, IsFiniteSet(DOMAIN c.fills)
  PROVE  TotalQty(c) = SumFunction(QtyOf(c.fills))
<1> DEFINE D == DOMAIN c.fills
           f == QtyOf(c.fills)
           G == CHOOSE g : g = [s \in SUBSET D |-> IF s = {} THEN 0
                  ELSE c.fills[CHOOSE x \in s : TRUE].qty
                         + g[s \ {CHOOSE x \in s : TRUE}]]
<1>1. DOMAIN f = D /\ \A x \in D : f[x] = c.fills[x].qty BY DEF QtyOf
<1>2. TotalQty(c) = G[D] BY DEF TotalQty, MapThenSumSet, MapThenFoldSet
<1>3. PICK h : IsFold(h, f, D) BY <1>1, FoldExists
<1> HIDE DEF f
<1>4. h = [s \in SUBSET D |-> IF s = {} THEN 0
             ELSE c.fills[CHOOSE x \in s : TRUE].qty
                    + h[s \ {CHOOSE x \in s : TRUE}]]
  BY <1>1, <1>3 DEF IsFold
<1>5. G = [s \in SUBSET D |-> IF s = {} THEN 0
             ELSE c.fills[CHOOSE x \in s : TRUE].qty
                    + G[s \ {CHOOSE x \in s : TRUE}]]
  BY <1>4
<1> HIDE DEF G
<1>6. IsFold(G, f, D) BY <1>1, <1>5 DEF IsFold
<1>7. SumFunction(f) = G[D] BY <1>1, <1>6, SumOfFold
<1>8. QED BY <1>2, <1>7 DEF f

\* The sums of fills are naturals, and the quantity of one or more is positive.
LEMMA SumsTyped ==
  ASSUME NEW c, c.fills \in Seq(Fills)
  PROVE  /\ Cost(c) \in Nat /\ TotalQty(c) \in Nat
         /\ c.fills # <<>> => TotalQty(c) > 0
<1> DEFINE n == Len(c.fills)
           D == 1 .. n
           q == QtyOf(c.fills)
<1>1. n \in Nat /\ DOMAIN c.fills = D /\ IsFiniteSet(D) BY FS_Interval
<1>2. CostOf(c.fills) \in [D -> Nat] /\ q \in [D -> Nat] /\ \A x \in D : q[x] > 0
  <2>1. \A x \in D : c.fills[x] \in Fills BY <1>1
  <2>2. QED BY <1>1, <2>1 DEF CostOf, QtyOf, Fills
<1>3. Cost(c) \in Nat BY <1>1, <1>2, CostIsSum, SumNat
<1>4. TotalQty(c) = SumFunction(q) BY <1>1, QtyIsSum
<1>5. SumFunction(q) \in Nat BY <1>1, <1>2, SumNat
<1>6. ASSUME c.fills # <<>> PROVE SumFunction(q) > 0
  <2>1. 1 \in D BY <1>6
  <2>2. q[1] \in Nat /\ q[1] > 0 BY <1>2, <2>1
  <2>3. q[1] <= SumFunction(q) BY <1>1, <1>2, <2>1, SumBounds
  <2> HIDE DEF q
  <2>4. QED BY <1>5, <2>2, <2>3
<1> HIDE DEF q
<1>7. QED BY <1>3, <1>4, <1>5, <1>6

\* One more fill adds its cost and its quantity.
LEMMA SumsAppend ==
  ASSUME NEW fills \in Seq(Fills), NEW e \in Fills,
         NEW c, c.fills = fills, NEW d, d.fills = Append(fills, e)
  PROVE  Cost(d) = Cost(c) + e.cost /\ TotalQty(d) = TotalQty(c) + e.qty
<1> DEFINE n == Len(fills)
           more == Append(fills, e)
           f == CostOf(more)
           q == QtyOf(more)
<1>1. n \in Nat /\ DOMAIN fills = 1 .. n /\ DOMAIN more = 1 .. n + 1
  OBVIOUS
<1>2. IsFiniteSet(1 .. n) /\ IsFiniteSet(1 .. n + 1)
  <2>1. n + 1 \in Nat BY <1>1
  <2>2. QED BY <1>1, <2>1, FS_Interval
<1>3. \A i \in 1 .. n + 1 : more[i] \in Fills
                             /\ more[i] = IF i = n + 1 THEN e ELSE fills[i]
  OBVIOUS
<1> HIDE DEF more, n
<1>4. /\ f \in [1 .. n + 1 -> Int] /\ q \in [1 .. n + 1 -> Int]
  BY <1>1, <1>3 DEF CostOf, QtyOf, Fills
<1>5. /\ [i \in 1 .. n |-> f[i]] = CostOf(fills) /\ f[n + 1] = e.cost
      /\ [i \in 1 .. n |-> q[i]] = QtyOf(fills) /\ q[n + 1] = e.qty
  BY <1>1, <1>3 DEF CostOf, QtyOf
<1>6. /\ Cost(c) = SumFunction(CostOf(fills)) /\ Cost(d) = SumFunction(f)
      /\ TotalQty(c) = SumFunction(QtyOf(fills)) /\ TotalQty(d) = SumFunction(q)
  BY <1>1, <1>2, CostIsSum, QtyIsSum DEF more
<1> HIDE DEF f, q
<1>7. SumFunction(f) = SumFunction([i \in 1 .. n |-> f[i]]) + f[n + 1]
  BY <1>1, <1>4, SumAppend
<1>8. SumFunction(q) = SumFunction([i \in 1 .. n |-> q[i]]) + q[n + 1]
  BY <1>1, <1>4, SumAppend
<1>9. QED BY <1>5, <1>6, <1>7, <1>8

\* The sums of one fill are its own.
LEMMA SumsOfOne ==
  ASSUME NEW c, NEW e \in Fills, c.fills = <<e>>
  PROVE  Cost(c) = e.cost /\ TotalQty(c) = e.qty
<1> DEFINE none == Cycle(<<>>, NoOverride)
<1>1. none.fills = <<>> /\ none.fills \in Seq(Fills) BY DEF Cycle
<1>2. Cost(none) = 0 /\ TotalQty(none) = 0
  <2>1. DOMAIN none.fills = {} /\ IsFiniteSet({}) BY <1>1, FS_EmptySet
  <2>2. Cost(none) = SumFunction(CostOf(none.fills))
        /\ TotalQty(none) = SumFunction(QtyOf(none.fills))
    BY <2>1, CostIsSum, QtyIsSum
  <2>3. DOMAIN CostOf(none.fills) = {} /\ DOMAIN QtyOf(none.fills) = {}
    BY <2>1 DEF CostOf, QtyOf
  <2>4. ASSUME NEW f, DOMAIN f = {} PROVE SumFunction(f) = 0
    <3>1. PICK g : IsFold(g, f, {}) /\ SumFunction(f) = g[{}]
      BY <2>1, <2>4, FoldExists, SumIsFold
    <3>2. QED BY <3>1, FoldStep
  <2>5. QED BY <2>2, <2>3, <2>4
<1> DEFINE empty == <<>>
<1>3. /\ empty \in Seq(Fills) /\ none.fills = empty
      /\ c.fills = Append(empty, e)
  BY <1>1
<1> HIDE DEF none, empty
<1>4. Cost(c) = Cost(none) + e.cost /\ TotalQty(c) = TotalQty(none) + e.qty
  BY <1>3, SumsAppend
<1>5. QED BY <1>2, <1>4 DEF Fills

-----------------------------------------------------------------------------
(* The ladder *)

\* The cycles an engine has; only the live service overrides a level.
Ladders == [fills : Seq(Fills), override : {NoOverride}]

\* What the ratios of a ladder are, apart from its steps.
LEMMA Ratios ==
  /\ Whole \in Nat \ {0} /\ Grain \in Nat /\ Grain > Whole
  /\ TpPercent \in Nat \ {0}
  /\ MaxLive \in Nat /\ MaxLive <= Len(Steps) /\ Len(Steps) \in Nat
<1> DEFINE S == [drop : 1 .. Whole - 1, multiplier : {m \in Nat : m > Whole}]
<1>1. Steps \in Seq(S) BY LadderAssumption
<1> HIDE DEF S
<1>2. Len(Steps) \in Nat BY <1>1
<1>3. Whole \in Nat \ {0} /\ Grain > Whole /\ TpPercent \in Nat \ {0}
      /\ MaxLive \in 0 .. Len(Steps)
  BY LadderAssumption
<1>4. Grain \in Nat BY InstrumentsAssumption
<1>5. QED BY <1>2, <1>3, <1>4

\* A quantity is a Whole of itself, and its product with Grain is more.
LEMMA WholeProduct ==
  ASSUME NEW q \in Nat \ {0}
  PROVE  q * Whole \in Nat \ {0} /\ q * Grain \in Nat /\ q * Whole < q * Grain
<1>1. Whole + 1 <= Grain /\ Whole \in Nat \ {0} /\ Grain \in Nat BY Ratios
<1>2. (Whole + 1) * q <= Grain * q BY <1>1, TimesMonotone
<1>3. (Whole + 1) * q = q * Whole + q /\ Grain * q = q * Grain BY <1>1
<1> DEFINE w == q * Whole  g == q * Grain
<1>4. w \in Int /\ g \in Nat /\ w > 0 BY <1>1
<1>5. w + q <= g BY <1>2, <1>3
<1> HIDE DEF w, g
<1>6. w \in Nat \ {0} /\ g \in Nat /\ w < g BY <1>4, <1>5
<1>7. QED BY <1>6 DEF w, g

\* The step a cycle of the engine takes next, and its level.
LEMMA NextStep ==
  ASSUME NEW c \in Ladders, c.fills # <<>>
  PROVE  /\ DcaLevel(c) = Len(c.fills) - 1
         /\ LastOrderQty(c) = c.fills[Len(c.fills)].qty
         /\ LastOrderQty(c) \in Nat \ {0}
         /\ ~AtMax(c) =>
              /\ Len(c.fills) <= MaxLive
              /\ Steps[DcaLevel(c) + 1].drop \in 1 .. Whole - 1
              /\ Steps[DcaLevel(c) + 1].multiplier \in Nat
              /\ Steps[DcaLevel(c) + 1].multiplier > Whole
              /\ NextQty(c) \in Nat \ {0}
<1> DEFINE n == Len(c.fills)
<1>1. c.override = NoOverride /\ c.fills \in Seq(Fills) BY DEF Ladders
<1>2. n \in Nat \ {0} /\ c.fills[n] \in Fills BY <1>1
<1>3. /\ DcaLevel(c) = n - 1 /\ LastOrderQty(c) = c.fills[n].qty
      /\ LastOrderQty(c) \in Nat \ {0}
  BY <1>1, <1>2 DEF DcaLevel, LastOrderQty, Fills
<1>4. ASSUME ~AtMax(c) PROVE n <= MaxLive /\ n \in 1 .. Len(Steps)
  BY <1>2, <1>3, <1>4, Ratios DEF AtMax
<1>5. ASSUME ~AtMax(c)
      PROVE  /\ Steps[n].drop \in 1 .. Whole - 1
             /\ Steps[n].multiplier \in Nat /\ Steps[n].multiplier > Whole
  <2>1. n \in 1 .. Len(Steps) BY <1>4, <1>5
  <2> DEFINE S == [drop : 1 .. Whole - 1, multiplier : {m \in Nat : m > Whole}]
  <2>2. Steps \in Seq(S) BY LadderAssumption
  <2> HIDE DEF n, S
  <2>3. Steps[n] \in S BY <2>1, <2>2
  <2>4. QED BY <2>3 DEF S
<1>6. DcaLevel(c) + 1 = n BY <1>2, <1>3
<1> HIDE DEF n
<1>7. ASSUME ~AtMax(c) PROVE NextQty(c) \in Nat \ {0}
  <2> DEFINE l == LastOrderQty(c)  m == Steps[n].multiplier
  <2>1. l \in Nat \ {0} /\ m \in Nat /\ m > Whole /\ Whole \in Nat \ {0}
    BY <1>3, <1>5, <1>7, LadderAssumption
  <2>2. NextQty(c) = (l * m) \div Whole BY <1>6 DEF NextQty
  <2> HIDE DEF l, m
  <2>3. Whole <= l * m /\ l * m \in Nat
    <3>1. m <= l * m /\ l * m \in Nat BY <2>1
    <3>2. QED BY <2>1, <3>1
  <2>4. (l * m) \div Whole >= 1 /\ (l * m) \div Whole \in Nat
    <3> DEFINE v == l * m
    <3>1. v \in Nat /\ Whole <= v BY <2>3
    <3> HIDE DEF v
    <3>2. v \div Whole >= 1 /\ v \div Whole \in Nat BY <2>1, <3>1
    <3>3. QED BY <3>2 DEF v
  <2>5. QED BY <2>2, <2>4
<1>8. QED BY <1>3, <1>4, <1>5, <1>6, <1>7 DEF n

\* The take profit of a basket, and what it is above.
LEMMA TpNat ==
  ASSUME NEW c, c.fills \in Seq(Fills), c.fills # <<>>
  PROVE  TpPrice(c) \in Nat
<1> DEFINE a == Cost(c) * (Whole + TpPercent)
           b == TotalQty(c) * Whole
<1>1. Cost(c) \in Nat /\ TotalQty(c) \in Nat \ {0} BY SumsTyped
<1>2. TpPercent \in Nat \ {0} /\ Whole \in Nat \ {0} BY Ratios
<1>3. a \in Int /\ a >= 0 /\ b \in Nat \ {0}
  <2>1. b \in Nat \ {0} BY <1>1, WholeProduct
  <2>2. Whole + TpPercent \in Nat BY <1>2
  <2> HIDE DEF b
  <2>3. QED BY <1>1, <2>1, <2>2
<1>4. TpPrice(c) = Increments(a, b, TRUE) BY DEF TpPrice
<1> HIDE DEF a, b
<1>5. QED BY <1>3, <1>4, IncrementsNat

\* A take profit lies above a price exactly when the basket's cost and the margin
\* do, by more than the noise.
LEMMA TpAbove ==
  ASSUME NEW c, c.fills \in Seq(Fills), c.fills # <<>>, NEW t \in Int
  PROVE  TpPrice(c) > t <=>
           (Cost(c) * (Whole + TpPercent) - t * (TotalQty(c) * Whole)) * Grain
             > TotalQty(c) * Whole
<1> DEFINE a == Cost(c) * (Whole + TpPercent)
           b == TotalQty(c) * Whole
<1>1. Cost(c) \in Nat /\ TotalQty(c) \in Nat \ {0} BY SumsTyped
<1>2. TpPercent \in Nat \ {0} /\ Whole \in Nat \ {0} BY Ratios
<1>3. a \in Int /\ b \in Nat \ {0}
  <2>1. b \in Nat \ {0} BY <1>1, WholeProduct
  <2>2. Whole + TpPercent \in Nat BY <1>2
  <2> HIDE DEF b
  <2>3. QED BY <1>1, <2>1, <2>2
<1>4. TpPrice(c) = Increments(a, b, TRUE) BY DEF TpPrice
<1> HIDE DEF a, b
<1>5. TpPrice(c) > t <=> (a - t * b) * Grain > b BY <1>3, <1>4, UpAbove
<1>6. QED BY <1>5 DEF a, b

\* A cycle that begins at a price has its take profit no lower, and its first
\* trigger, whatever it refers to, lower.
LEMMA BegunFacts ==
  ASSUME NEW p \in Nat \ {0}, NEW q \in Nat \ {0}
  PROVE  /\ Begun(p, q) \in Ladders /\ Held(Begun(p, q)) /\ Begun(p, q).fills # <<>>
         /\ Len(Begun(p, q).fills) = 1 /\ Begun(p, q).fills[1].cost = p * q
         /\ Cost(Begun(p, q)) = p * q /\ TotalQty(Begun(p, q)) = q
         /\ TpPrice(Begun(p, q)) \in Nat /\ TpPrice(Begun(p, q)) >= p
         /\ ~AtMax(Begun(p, q)) => \A reference \in References :
              Trigger(Begun(p, q), reference) \in Nat
              /\ Trigger(Begun(p, q), reference) < p
<1> DEFINE c == Begun(p, q)
<1>1. p * q \in Nat OBVIOUS
<1>2. /\ c.fills = <<Fill(p, q)>> /\ Fill(p, q) \in Fills /\ c.override = NoOverride
      /\ c \in Ladders /\ c # NoCycle
  BY <1>1 DEF Begun, Cycle, Fill, Fills, Ladders, NoCycle
<1>3. Len(c.fills) = 1 /\ c.fills # <<>> /\ c.fills[1] = [cost |-> p * q, qty |-> q]
  BY <1>2 DEF Fill
<1>4. Cost(c) = p * q /\ TotalQty(c) = q BY <1>2, SumsOfOne DEF Fill
<1>5. /\ Grain \in Nat /\ Grain > Whole /\ TpPercent \in Nat \ {0}
      /\ Whole \in Nat \ {0} /\ q * Whole \in Nat \ {0} /\ q * Whole < q * Grain
  BY Ratios, WholeProduct
<1>6. TpPrice(c) \in Nat /\ TpPrice(c) >= p
  <2> DEFINE t == p - 1
             u == (p * q) * (Whole + TpPercent) - t * (q * Whole)
  <2>1. u = (p * q) * TpPercent + q * Whole
    <3> DEFINE w == Whole  n == TpPercent
    <3>1. w \in Nat /\ n \in Nat BY <1>5
    <3> HIDE DEF w, n
    <3>2. (p * q) * (w + n) = (p * q) * w + (p * q) * n BY <3>1
    <3>3. (p - 1) * (q * w) = (p * q) * w - q * w BY <3>1
    <3> DEFINE e == (p * q) * w  f == (p * q) * n  g == q * w
    <3>4. e \in Int /\ f \in Int /\ g \in Int BY <3>1
    <3>5. u = (e + f) - (e - g) BY <3>2, <3>3 DEF w, n
    <3> HIDE DEF e, f, g, u
    <3>6. u = f + g BY <3>4, <3>5
    <3>7. QED BY <3>6 DEF f, g, w, n
  <2>2. (p * q) * TpPercent \in Nat BY <1>1, <1>5
  <2> DEFINE z == q * Whole
  <2>3. z <= u /\ u \in Int /\ z \in Nat \ {0}
    <3> DEFINE f == (p * q) * TpPercent
    <3>1. u = f + z /\ f \in Nat /\ z \in Nat \ {0} BY <1>5, <2>1, <2>2
    <3> HIDE DEF u, f, z
    <3>2. QED BY <3>1
  <2>4. u * Grain > q * Whole
    <3> HIDE DEF u, z
    <3>1. z * Grain <= u * Grain BY <1>5, <2>3, TimesMonotone
    <3>2. z < z * Grain BY <1>5, <2>3
    <3> DEFINE v == u * Grain  w == z * Grain
    <3>3. v \in Int /\ w \in Int BY <1>5, <2>3
    <3>4. w <= v /\ z < w BY <3>1, <3>2
    <3> HIDE DEF v, w
    <3>5. v > z BY <2>3, <3>3, <3>4
    <3>6. QED BY <3>5 DEF v, z
  <2>5. t \in Int OBVIOUS
  <2> HIDE DEF t, c
  <2>6. c.fills \in Seq(Fills) BY <1>2 DEF Ladders
  <2>7. TpPrice(c) > t <=>
          (Cost(c) * (Whole + TpPercent) - t * (TotalQty(c) * Whole)) * Grain
            > TotalQty(c) * Whole
    BY <1>3, <2>5, <2>6, TpAbove
  <2>8. TpPrice(c) > t BY <1>4, <2>4, <2>7
  <2>9. TpPrice(c) \in Nat BY <1>3, <2>6, TpNat
  <2>10. QED BY <2>8, <2>9 DEF t
<1>7. ASSUME ~AtMax(c), NEW reference \in References
      PROVE  Trigger(c, reference) \in Nat /\ Trigger(c, reference) < p
  <2> DEFINE d == Steps[DcaLevel(c) + 1].drop
             a == (p * q) * (Whole - d)
             b == q * Whole
             x == Increments(a, b, FALSE)
  <2>1. ReferenceFill(c, reference).cost = p * q /\ ReferenceFill(c, reference).qty = q
    BY <1>3, <1>4 DEF ReferenceFill, References
  <2>2. d \in 1 .. Whole - 1 BY <1>2, <1>3, <1>7, NextStep
  <2>3. Trigger(c, reference) = x BY <2>1 DEF Trigger
  <2> HIDE DEF c, d
  <2>4. a \in Int /\ a >= 0 /\ b \in Nat \ {0}
    <3>1. b \in Nat \ {0} BY <1>5
    <3>2. Whole - d \in Nat BY <1>5, <2>2
    <3> HIDE DEF b
    <3>3. QED BY <1>1, <3>1, <3>2
  <2>5. p * b - a = (p * q) * d
    <3> DEFINE w == Whole
    <3>1. w \in Nat /\ d \in Nat BY <1>5, <2>2
    <3> HIDE DEF w
    <3>2. p * (q * w) = (p * q) * w BY <3>1
    <3>3. (p * q) * (w - d) = (p * q) * w - (p * q) * d BY <3>1
    <3> DEFINE e == (p * q) * w  f == (p * q) * d
    <3>4. e \in Int /\ f \in Int BY <3>1
    <3>5. p * b = e /\ a = e - f BY <3>2, <3>3 DEF w
    <3> HIDE DEF e, f, a, b
    <3>6. p * b - a = f BY <3>4, <3>5
    <3>7. QED BY <3>6 DEF f
  <2>6. (p * b - a) * Grain > b
    <3> DEFINE u == (p * q) * d
    <3>1. q <= u /\ u \in Nat
      <4>1. q <= p * q OBVIOUS
      <4> DEFINE v == p * q
      <4>2. v \in Nat OBVIOUS
      <4> HIDE DEF v
      <4>3. v <= v * d /\ v * d \in Nat BY <2>2, <4>2
      <4>4. QED BY <4>1, <4>2, <4>3 DEF v
    <3> HIDE DEF u
    <3>2. q * Grain <= u * Grain BY <1>5, <3>1, TimesMonotone
    <3> DEFINE y == u * Grain  w == q * Grain  z == q * Whole
    <3>3. y \in Int /\ w \in Int /\ z \in Int BY <1>5, <3>1
    <3>4. w <= y /\ z < w BY <1>5, <3>2
    <3> HIDE DEF y, w, z
    <3>5. y > z BY <3>3, <3>4
    <3>6. u * Grain > b BY <3>5 DEF y, z
    <3>7. QED BY <2>5, <3>6 DEF u
  <2> HIDE DEF a, b
  <2>7. x \in Nat BY <2>4, IncrementsNat
  <2>8. x < p
    <3>1. p \in Int OBVIOUS
    <3>2. Increments(a, b, FALSE) < p <=> (p * b - a) * Grain > b
      BY ONLY <2>4, <3>1, DownBelow
    <3>3. QED BY <2>6, <3>2
  <2> HIDE DEF x
  <2>9. QED BY <2>3, <2>7, <2>8
<1>8. QED BY <1>2, <1>3, <1>4, <1>6, <1>7 DEF Held

\* A trigger is a price.
LEMMA TriggerNat ==
  ASSUME NEW c \in Ladders, c.fills # <<>>, ~AtMax(c), NEW reference \in References
  PROVE  Trigger(c, reference) \in Nat
<1> DEFINE base == ReferenceFill(c, reference)
           d == Steps[DcaLevel(c) + 1].drop
           a == base.cost * (Whole - d)
           b == base.qty * Whole
<1>1. c.fills \in Seq(Fills) BY DEF Ladders
<1>2. base.cost \in Nat /\ base.qty \in Nat \ {0}
  <2>1. Cost(c) \in Nat /\ TotalQty(c) \in Nat \ {0} BY <1>1, SumsTyped
  <2>2. c.fills[1] \in Fills /\ c.fills[Len(c.fills)] \in Fills BY <1>1
  <2>3. QED BY <2>1, <2>2 DEF ReferenceFill, References, Fills
<1>3. d \in 1 .. Whole - 1 /\ Whole \in Nat \ {0} BY NextStep, Ratios
<1>4. Trigger(c, reference) = Increments(a, b, FALSE) BY DEF Trigger
<1> HIDE DEF base, d
<1>5. a \in Int /\ a >= 0 /\ b \in Nat \ {0}
  <2>1. b \in Nat \ {0} BY <1>2, WholeProduct
  <2>2. Whole - d \in Nat BY <1>3
  <2> HIDE DEF b
  <2>3. QED BY <1>2, <2>1, <2>2
<1> HIDE DEF a, b
<1>6. QED BY <1>4, <1>5, IncrementsNat

\* A DCA adds its fill, and leaves no take profit behind its price that was not
\* behind it already.
LEMMA WithDcaFacts ==
  ASSUME NEW c \in Ladders, c.fills # <<>>, ~AtMax(c), NEW t \in Nat \ {0}
  PROVE  /\ WithDca(c, t, NextQty(c)) \in Ladders /\ Held(WithDca(c, t, NextQty(c)))
         /\ WithDca(c, t, NextQty(c)).fills # <<>>
         /\ WithDca(c, t, NextQty(c)).fills = Append(c.fills, Fill(t, NextQty(c)))
         /\ Len(WithDca(c, t, NextQty(c)).fills) = Len(c.fills) + 1
         /\ Cost(WithDca(c, t, NextQty(c))) = Cost(c) + t * NextQty(c)
         /\ TotalQty(WithDca(c, t, NextQty(c))) = TotalQty(c) + NextQty(c)
         /\ TpPrice(WithDca(c, t, NextQty(c))) <= t => TpPrice(c) <= t
<1> DEFINE d == WithDca(c, t, NextQty(c))
           q == NextQty(c)
<1>1. c.fills \in Seq(Fills) /\ c.override = NoOverride BY DEF Ladders
<1>2. q \in Nat \ {0} BY NextStep
<1>3. t * q \in Nat BY <1>2
<1>4. Fill(t, q) \in Fills BY <1>2, <1>3 DEF Fill, Fills
<1>5. d.fills = Append(c.fills, Fill(t, q)) /\ d.override = NoOverride
      /\ d = [fills |-> d.fills, override |-> d.override]
  BY <1>1 DEF WithDca, Cycle
<1>6. d.fills \in Seq(Fills) /\ d.fills # <<>> /\ Len(d.fills) = Len(c.fills) + 1
  BY <1>1, <1>4, <1>5
<1>7. d \in Ladders BY <1>5, <1>6 DEF Ladders
<1>8. d # NoCycle
  <2>1. NoCycle.fills = <<>> BY DEF NoCycle, Cycle
  <2>2. QED BY <1>6, <2>1
<1>9. Cost(d) = Cost(c) + t * q /\ TotalQty(d) = TotalQty(c) + q
  <2>1. Cost(d) = Cost(c) + Fill(t, q).cost /\ TotalQty(d) = TotalQty(c) + Fill(t, q).qty
    BY <1>1, <1>4, <1>5, SumsAppend
  <2>2. QED BY <2>1 DEF Fill
<1>10. ASSUME TpPrice(c) > t PROVE TpPrice(d) > t
  <2> DEFINE C == Cost(c)
             Q == TotalQty(c)
             x == C * (Whole + TpPercent) - t * (Q * Whole)
             y == (C + t * q) * (Whole + TpPercent) - t * ((Q + q) * Whole)
             z == (t * q) * TpPercent
  <2>1. C \in Nat /\ Q \in Nat \ {0} BY <1>1, SumsTyped
  <2>2. /\ Grain \in Nat /\ Grain > Whole /\ TpPercent \in Nat \ {0}
        /\ Whole \in Nat \ {0} /\ q * Whole \in Nat \ {0} /\ q * Whole < q * Grain
    BY <1>2, Ratios, WholeProduct
  <2>3. x * Grain > Q * Whole BY <1>1, <1>10, TpAbove
  <2> HIDE DEF d, q, C, Q
  <2>4. y = x + z
    <3> DEFINE w == Whole  n == TpPercent  s == t * q
    <3>1. w \in Nat /\ n \in Nat /\ s \in Nat BY <1>3, <2>2
    <3> HIDE DEF w, n, s
    <3>2. (C + s) * (w + n) = C * (w + n) + s * w + s * n BY <2>1, <3>1
    <3>3. t * ((Q + q) * w) = t * (Q * w) + (t * q) * w BY <1>2, <2>1, <3>1
    <3> DEFINE e == C * (w + n)  f == s * w  g == t * (Q * w)  h == s * n
    <3>4. e \in Int /\ f \in Int /\ g \in Int /\ h \in Int BY <2>1, <3>1
    <3>5. y = (e + f + h) - (g + f) /\ x = e - g /\ z = h
      BY <3>2, <3>3 DEF s, w, n
    <3> HIDE DEF e, f, g, h, x, y, z
    <3>6. QED BY <3>4, <3>5
  <2>5. q <= z /\ z \in Int
    <3>1. q <= t * q BY <1>2
    <3>2. t * q <= (t * q) * TpPercent /\ (t * q) * TpPercent \in Int BY <1>3, <2>2
    <3>3. QED BY <1>2, <1>3, <3>1, <3>2
  <2>6. x \in Int
    <3> DEFINE w == Whole  n == TpPercent
    <3>1. w \in Nat /\ n \in Nat BY <2>2
    <3> HIDE DEF w, n
    <3>2. C * (w + n) \in Int /\ t * (Q * w) \in Int BY <2>1, <3>1
    <3>3. x = C * (w + n) - t * (Q * w) BY DEF w, n
    <3>4. QED BY <3>2, <3>3
  <2> HIDE DEF x, y, z
  <2>7. y * Grain > (Q + q) * Whole
    <3>1. q * Grain <= z * Grain BY <1>2, <2>2, <2>5, TimesMonotone
    <3>2. (x + z) * Grain = x * Grain + z * Grain BY <2>2, <2>5, <2>6
    <3>3. (Q + q) * Whole = Q * Whole + q * Whole BY <1>2, <2>1, <2>2
    <3> DEFINE e == x * Grain  f == z * Grain  g == q * Grain
               h == Q * Whole  k == q * Whole
    <3>4. e \in Int /\ f \in Int /\ g \in Int /\ h \in Int /\ k \in Int
      BY <1>2, <2>1, <2>2, <2>5, <2>6
    <3>5. g <= f /\ k < g /\ e > h BY <2>2, <2>3, <3>1
    <3> HIDE DEF e, f, g, h, k
    <3>6. e + f > h + k BY <3>4, <3>5
    <3>7. QED BY <2>4, <3>2, <3>3, <3>6 DEF e, f, h, k
  <2>8. TpPrice(d) > t <=>
          (Cost(d) * (Whole + TpPercent) - t * (TotalQty(d) * Whole)) * Grain
            > TotalQty(d) * Whole
    BY <1>6, TpAbove
  <2>9. QED BY <1>9, <2>7, <2>8 DEF y, C, Q
<1>11. TpPrice(d) <= t => TpPrice(c) <= t
  <2>1. TpPrice(d) \in Nat /\ TpPrice(c) \in Nat
    BY <1>1, <1>6, TpNat
  <2>2. QED BY <1>10, <2>1
<1>12. QED BY <1>5, <1>6, <1>7, <1>8, <1>9, <1>11 DEF Held

-----------------------------------------------------------------------------
(* The book *)

\* The book: figures, and the lengths of the times under water.
Figures == {"gross", "fees", "entryFees", "exitFees", "openFees", "net", "funding",
            "deployed", "maxDeployed", "maxLevel", "peak", "drawdown", "worst",
            "underwater", "notional", "maxNotional", "adverse", "favorable"}

Books == {b \in [Figures \union {"recoveries"} -> Int \union Seq(Int)] :
            (\A f \in Figures : b[f] \in Int) /\ b.recoveries \in Seq(Int)}

\* The figures of a book, by name.
LEMMA BookFields ==
  ASSUME NEW b \in Books
  PROVE  /\ b.gross \in Int /\ b.fees \in Int /\ b.entryFees \in Int
         /\ b.exitFees \in Int /\ b.openFees \in Int /\ b.net \in Int
         /\ b.funding \in Int /\ b.deployed \in Int /\ b.maxDeployed \in Int
         /\ b.maxLevel \in Int /\ b.peak \in Int /\ b.drawdown \in Int
         /\ b.worst \in Int /\ b.underwater \in Int /\ b.recoveries \in Seq(Int)
         /\ b.notional \in Int /\ b.maxNotional \in Int /\ b.adverse \in Int
         /\ b.favorable \in Int
BY DEF Books, Figures

\* A book after one of its figures has changed.
LEMMA BookExcept ==
  ASSUME NEW b \in Books, NEW f \in Figures, NEW x \in Int
  PROVE  [b EXCEPT ![f] = x] \in Books
<1>1. f # "recoveries" BY DEF Figures
<1> DEFINE F == Figures
<1>2. b \in [F \union {"recoveries"} -> Int \union Seq(Int)] BY DEF Books
<1> HIDE DEF F
<1>3. [b EXCEPT ![f] = x] \in [F \union {"recoveries"} -> Int \union Seq(Int)]
  BY <1>2
<1>4. \A g \in F : b[g] \in Int BY DEF Books, F
<1>5. f \in F BY DEF F
<1>6. \A g \in F : [b EXCEPT ![f] = x][g] \in Int BY <1>2, <1>4, <1>5
<1>7. [b EXCEPT ![f] = x].recoveries = b.recoveries BY <1>1, <1>2
<1>8. QED BY <1>3, <1>6, <1>7 DEF Books, F

\* What a cycle gains and pays at a price.
LEMMA GrossInt ==
  ASSUME NEW c \in Ladders, NEW p \in Nat
  PROVE  Gross(c, p) \in Int /\ ExitFee(c, p) \in Int /\ p * TotalQty(c) \in Int
<1>1. Cost(c) \in Nat /\ TotalQty(c) \in Nat BY SumsTyped DEF Ladders
<1>2. Scale \in Nat /\ FeeRate \in Nat BY ReplayAssumption
<1>3. QED BY <1>1, <1>2 DEF Gross, ExitFee, Fee

\* What a book and a cycle are worth at a price.
LEMMA UnrealizedInt ==
  ASSUME NEW b \in Books, NEW c \in Ladders, NEW p \in Nat
  PROVE  Unrealized(b, c, p) \in Int /\ Equity(b, c, p) \in Int
<1>1. b.openFees \in Int /\ b.net \in Int /\ b.funding \in Int BY BookFields
<1>2. QED BY <1>1, GrossInt DEF Unrealized, Equity

\* Excursions keep the type of the book.
LEMMA AtRiskTyped ==
  ASSUME NEW b \in Books, NEW c \in Ladders, NEW p \in Nat
  PROVE  AtRisk(b, c, p) \in Books
<1> DEFINE g == Gross(c, p)  n == p * TotalQty(c)
<1>1. g \in Int /\ n \in Int BY GrossInt
<1> HIDE DEF g, n
<1>2. /\ b.notional \in Int /\ b.maxNotional \in Int
      /\ b.adverse \in Int /\ b.favorable \in Int
  BY BookFields
<1> DEFINE v == MaxOf(b.notional, n)  w == MaxOf(b.maxNotional, n)
           x == MaxOf(b.adverse, -g)  y == MaxOf(b.favorable, g)
<1>3. v \in Int /\ w \in Int /\ x \in Int /\ y \in Int BY <1>1, <1>2 DEF MaxOf
<1>4. AtRisk(b, c, p) = IF ~Held(c) THEN b
        ELSE [b EXCEPT !.notional = v, !.maxNotional = w, !.adverse = x, !.favorable = y]
  BY DEF AtRisk, g, n
<1> HIDE DEF v, w, x, y
<1> DEFINE a1 == [b EXCEPT !.notional = v]
           a2 == [a1 EXCEPT !.maxNotional = w]
           a3 == [a2 EXCEPT !.adverse = x]
           a4 == [a3 EXCEPT !.favorable = y]
<1>5. [b EXCEPT !.notional = v, !.maxNotional = w, !.adverse = x, !.favorable = y] = a4
  OBVIOUS
<1>6. a1 \in Books BY <1>3, BookExcept DEF Figures
<1> HIDE DEF a1
<1>7. a2 \in Books BY <1>3, <1>6, BookExcept DEF Figures
<1> HIDE DEF a2
<1>8. a3 \in Books BY <1>3, <1>7, BookExcept DEF Figures
<1> HIDE DEF a3
<1>9. a4 \in Books BY <1>3, <1>8, BookExcept DEF Figures
<1>10. QED BY <1>4, <1>5, <1>9

\* So does a fill.
LEMMA BoughtTyped ==
  ASSUME NEW b \in Books, NEW c \in Ladders, c.fills # <<>>
  PROVE  Bought(b, c) \in Books /\ Opened(b, c) \in Books
<1> DEFINE cost == c.fills[Len(c.fills)].cost
<1>1. cost \in Nat
  <2>1. c.fills \in Seq(Fills) BY DEF Ladders
  <2>2. c.fills[Len(c.fills)] \in Fills BY <2>1
  <2>3. QED BY <2>2 DEF Fills
<1>2. DcaLevel(c) \in Int BY NextStep DEF Ladders
<1>3. FeeRate \in Nat BY ReplayAssumption
<1> HIDE DEF cost
<1> DEFINE u == b.openFees + Fee(cost)  v == b.entryFees + Fee(cost)
           w == b.deployed + cost  x == MaxOf(b.maxDeployed, b.deployed + cost)
           y == MaxOf(b.maxLevel, DcaLevel(c))
<1>4. /\ b.openFees \in Int /\ b.entryFees \in Int /\ b.deployed \in Int
      /\ b.maxDeployed \in Int /\ b.maxLevel \in Int
  BY BookFields
<1>5. u \in Int /\ v \in Int /\ w \in Int /\ x \in Int /\ y \in Int
  BY <1>1, <1>2, <1>3, <1>4 DEF Fee, MaxOf
<1>6. Bought(b, c) = [b EXCEPT !.openFees = u, !.entryFees = v, !.deployed = w,
                               !.maxDeployed = x, !.maxLevel = y]
  BY DEF Bought, cost
<1> HIDE DEF u, v, w, x, y
<1>7. Bought(b, c) \in Books BY <1>5, <1>6 DEF Books
<1>8. Opened(b, c) \in Books
  <2> DEFINE a == Bought(b, c)
  <2>1. a \in Books BY <1>7
  <2>2. Opened(b, c) = [a EXCEPT !.notional = 0, !.adverse = 0, !.favorable = 0]
    BY DEF Opened
  <2> HIDE DEF a
  <2> DEFINE zero == 0
             a1 == [a EXCEPT !.notional = zero]
             a2 == [a1 EXCEPT !.adverse = zero]
             a3 == [a2 EXCEPT !.favorable = zero]
  <2>3. Opened(b, c) = a3 /\ zero \in Int BY <2>2
  <2> HIDE DEF zero
  <2>4. a1 \in Books BY <2>1, <2>3, BookExcept DEF Figures
  <2> HIDE DEF a1
  <2>5. a2 \in Books BY <2>3, <2>4, BookExcept DEF Figures
  <2> HIDE DEF a2
  <2>6. a3 \in Books BY <2>3, <2>5, BookExcept DEF Figures
  <2>7. QED BY <2>3, <2>6
<1>9. QED BY <1>7, <1>8

\* So does a close.
LEMMA ClosedTyped ==
  ASSUME NEW b \in Books, NEW c \in Ladders, NEW p \in Nat
  PROVE  Closed(b, c, p) \in Books
<1> DEFINE g == Gross(c, p)  e == ExitFee(c, p)
<1>1. g \in Int /\ e \in Int BY GrossInt
<1> HIDE DEF g, e
<1> DEFINE net == g - b.openFees - e
           u == b.gross + g  v == b.fees + b.openFees + e  w == b.exitFees + e
           x == b.net + net  y == MaxOf(b.peak, b.net + net - b.funding)
<1>2. /\ b.openFees \in Int /\ b.gross \in Int /\ b.fees \in Int /\ b.exitFees \in Int
      /\ b.net \in Int /\ b.peak \in Int /\ b.funding \in Int
  BY BookFields
<1>3. u \in Int /\ v \in Int /\ w \in Int /\ x \in Int /\ y \in Int
  BY <1>1, <1>2 DEF MaxOf
<1>4. Closed(b, c, p) = [b EXCEPT !.gross = u, !.fees = v, !.exitFees = w, !.net = x,
                                  !.peak = y, !.openFees = 0, !.deployed = 0]
  BY DEF Closed, g, e
<1> HIDE DEF u, v, w, x, y, net
<1> DEFINE a1 == [b EXCEPT !.gross = u]
           a2 == [a1 EXCEPT !.fees = v]
           a3 == [a2 EXCEPT !.exitFees = w]
           a4 == [a3 EXCEPT !.net = x]
           a5 == [a4 EXCEPT !.peak = y]
           a6 == [a5 EXCEPT !.openFees = 0]
           a7 == [a6 EXCEPT !.deployed = 0]
<1>5. Closed(b, c, p) = a7 BY <1>4
<1>6. a1 \in Books BY <1>3, BookExcept DEF Figures
<1> HIDE DEF a1
<1>7. a2 \in Books BY <1>3, <1>6, BookExcept DEF Figures
<1> HIDE DEF a2
<1>8. a3 \in Books BY <1>3, <1>7, BookExcept DEF Figures
<1> HIDE DEF a3
<1>9. a4 \in Books BY <1>3, <1>8, BookExcept DEF Figures
<1> HIDE DEF a4
<1>10. a5 \in Books BY <1>3, <1>9, BookExcept DEF Figures
<1> HIDE DEF a5
<1>11. a6 \in Books BY <1>10, BookExcept DEF Figures
<1> HIDE DEF a6
<1>12. a7 \in Books BY <1>11, BookExcept DEF Figures
<1>13. QED BY <1>5, <1>12

\* So does a mark.
LEMMA MarkTyped ==
  ASSUME NEW b \in Books, NEW c \in Ladders, NEW p \in Nat, NEW t \in Nat
  PROVE  Mark(b, c, p, t) \in Books
<1> DEFINE equity == Equity(b, c, p)
           recovered == equity >= b.peak /\ b.underwater # Never
           u == MaxOf(b.peak, equity)
           v == IF recovered THEN Append(b.recoveries, t - b.underwater) ELSE b.recoveries
           w == IF equity >= b.peak THEN Never
                ELSE IF b.underwater = Never THEN t ELSE b.underwater
           x == MaxOf(b.drawdown, MaxOf(b.peak, equity) - equity)
           y == MinOf(b.worst, Unrealized(b, c, p))
           a == [b EXCEPT !.peak = u, !.recoveries = v, !.underwater = w,
                          !.drawdown = x, !.worst = y]
<1>1. equity \in Int /\ Unrealized(b, c, p) \in Int BY UnrealizedInt
<1>2. /\ b.peak \in Int /\ b.underwater \in Int /\ b.recoveries \in Seq(Int)
      /\ b.drawdown \in Int /\ b.worst \in Int
  BY BookFields
<1>3. Mark(b, c, p, t) = AtRisk(a, c, p) BY DEF Mark
<1> HIDE DEF equity
<1>4. u \in Int /\ x \in Int /\ y \in Int BY <1>1, <1>2 DEF MaxOf, MinOf
<1>5. v \in Seq(Int)
  <2>1. t - b.underwater \in Int BY <1>2
  <2>2. QED BY <1>2, <2>1
<1>6. w \in Int BY <1>2 DEF Never
<1> HIDE DEF recovered, u, v, w, x, y
<1> DEFINE a1 == [b EXCEPT !.peak = u]
           a2 == [a1 EXCEPT !.recoveries = v]
           a3 == [a2 EXCEPT !.underwater = w]
           a4 == [a3 EXCEPT !.drawdown = x]
           a5 == [a4 EXCEPT !.worst = y]
<1>7. a = a5 OBVIOUS
<1>8. a1 \in Books BY <1>4, BookExcept DEF Figures
<1> HIDE DEF a1
<1>9. a2 \in Books BY <1>5, <1>8 DEF Books, Figures
<1> HIDE DEF a2
<1>10. a3 \in Books BY <1>6, <1>9, BookExcept DEF Figures
<1> HIDE DEF a3
<1>11. a4 \in Books BY <1>4, <1>10, BookExcept DEF Figures
<1> HIDE DEF a4
<1>12. a5 \in Books BY <1>4, <1>11, BookExcept DEF Figures
<1>13. a \in Books BY <1>7, <1>12
<1> HIDE DEF a
<1>14. QED BY <1>3, <1>13, AtRiskTyped

-----------------------------------------------------------------------------
(* Types *)

\* Closed cycles.
Cycles == [opened : Int, closed : Int, exit : Int, entry : Int, gross : Int,
           fees : Int, net : Int, level : Int, deployed : Int]

\* Executions and log rows of the engine's account, and everybody else's.
Links == {"botdca-open-", "botdca-dca-", "botdca-tp-"}

OwnExecutions == [symbol : {"HYPEUSDT"}, link : Links, side : {"Buy", "Sell"},
                  fee : Int, realized : Int]

Executions == OwnExecutions \union ForeignExecutions

OwnLog == [symbol : {"HYPEUSDT"}, type : {"SETTLEMENT"}, cash : Int]

LogEntries == OwnLog \union LogRows

\* What is marked.
Marks == [equity : Int, floating : Int, at : Nat, gross : Int, notional : Int,
          cycle : Nat]

\* The type of every variable.
Typed ==
  /\ config \in Configs
  /\ now \in Nat /\ price \in Nat /\ start \in Nat
  /\ path \in Seq(Nat \ {0})
  /\ cycle \in Ladders
  /\ opened \in Int /\ eligible \in Int
  /\ book \in Books
  /\ replays \in Seq(Cycles)
  /\ stopped \in BOOLEAN
  /\ rows \in Seq(Executions) /\ log \in Seq(LogEntries)
  /\ marks \in Seq(Marks)
  /\ behind \subseteq {"tp", "dca"}

\* Where the price may be: inside the segment, which is above zero.
SegmentOK ==
  InSegment =>
    /\ price > 0 /\ start > 0
    /\ End > start => price \in start .. End
    /\ End < start => price \in End .. start
    /\ End = start => price = start

\* A cycle of the engine is held when it has fills.
LEMMA HeldFills ==
  ASSUME NEW c \in Ladders
  PROVE  Held(c) <=> c.fills # <<>>
<1>1. c = [fills |-> c.fills, override |-> NoOverride] BY DEF Ladders
<1>2. QED BY <1>1 DEF Held, NoCycle, Cycle

\* What a mark records has its type.
LEMMA SeenTyped ==
  ASSUME Typed, NEW b \in Books, NEW c \in Ladders, NEW p \in Nat, NEW t \in Nat
  PROVE  Seen(b, c, p, t) \in Marks
<1>1. Len(replays) \in Nat BY DEF Typed
<1>2. QED BY <1>1, UnrealizedInt, GrossInt DEF Seen, Marks

\* So has the record of a cycle.
LEMMA ReplayedTyped ==
  ASSUME Typed, NEW b \in Books, NEW c \in Ladders, c.fills # <<>>, NEW p \in Nat
  PROVE  Replayed(b, c, p) \in Cycles
<1>1. Gross(c, p) \in Int /\ ExitFee(c, p) \in Int BY GrossInt
<1>2. b.openFees \in Int /\ b.deployed \in Int BY BookFields
<1>3. DcaLevel(c) \in Int BY NextStep DEF Ladders
<1>4. c.fills[1].cost \in Nat
  <2>1. c.fills \in Seq(Fills) BY DEF Ladders
  <2>2. c.fills[1] \in Fills BY <2>1
  <2>3. QED BY <2>2 DEF Fills
<1>5. c.fills[1].cost \div EntryQty \in Int BY <1>4, DivBounds, ReplayAssumption
<1>6. opened \in Int /\ now \in Nat BY DEF Typed
<1>7. QED BY <1>1, <1>2, <1>3, <1>5, <1>6 DEF Replayed, Cycles

\* So has an execution.
LEMMA ExecutionTyped ==
  ASSUME NEW link \in Links, NEW side \in {"Buy", "Sell"},
         NEW cost \in Int, NEW realized \in Int
  PROVE  Execution(link, side, cost, realized) \in Executions
<1>1. FeeRate \in Nat BY ReplayAssumption
<1>2. Fee(cost) \in Int BY <1>1 DEF Fee
<1>3. QED BY <1>2 DEF Execution, Executions, OwnExecutions

\* The points of a candle are above zero.
LEMMA PointsPositive ==
  ASSUME NEW c \in Candles
  PROVE  /\ c.open \in Nat \ {0} /\ Tail(Points(c)) \in Seq(Nat \ {0})
         /\ Tail(Points(c)) # <<>>
<1>1. /\ c.open \in Nat \ {0} /\ c.high \in Nat \ {0}
      /\ c.low \in Nat \ {0} /\ c.close \in Nat \ {0}
  <2>1. c \in [open : Nat, high : Nat, low : Nat, close : Nat] BY ReplayAssumption
  <2>2. c.open \in Nat /\ c.high \in Nat /\ c.low \in Nat /\ c.close \in Nat BY <2>1
  <2>3. c.low <= c.open /\ c.low <= c.close /\ 0 < c.low /\ c.open <= c.high
    BY ReplayAssumption
  <2>4. QED BY <2>2, <2>3
<1> DEFINE o == c.open  h == c.high  l == c.low  e == c.close
<1>2. Points(c) = <<o, l, h, e>> \/ Points(c) = <<o, h, l, e>> BY DEF Points
<1> HIDE DEF o, h, l, e
<1>3. Tail(<<o, l, h, e>>) = <<l, h, e>> /\ Tail(<<o, h, l, e>>) = <<h, l, e>> OBVIOUS
<1>4. <<l, h, e>> \in Seq(Nat \ {0}) /\ <<h, l, e>> \in Seq(Nat \ {0})
  BY <1>1 DEF o, h, l, e
<1>5. <<l, h, e>> # <<>> /\ <<h, l, e>> # <<>> OBVIOUS
<1>6. QED BY <1>1, <1>2, <1>3, <1>4, <1>5

\* Thresholds of a cycle.
LEMMA PassedTyped == \A c, p : Passed(c, p) \subseteq {"tp", "dca"}
BY DEF Passed

\* At first the variables have their types.
LEMMA TypedInit == Init => Typed
<1> SUFFICES ASSUME Init PROVE Typed OBVIOUS
<1>1. cycle \in Ladders
  <2>1. <<>> \in Seq(Fills) OBVIOUS
  <2>2. QED BY <2>1 DEF Init, NoCycle, Cycle, Ladders
<1>2. book \in Books
  <2>1. <<>> \in Seq(Int) OBVIOUS
  <2>2. book \in [Figures \union {"recoveries"} -> Int \union Seq(Int)]
    <3>1. DOMAIN book = Figures \union {"recoveries"} BY DEF Init, Figures
    <3>2. \A f \in Figures : book[f] \in Int BY DEF Init, Figures, Never
    <3>3. book.recoveries \in Seq(Int) BY <2>1 DEF Init
    <3>4. book = [f \in DOMAIN book |-> book[f]] BY DEF Init
    <3>5. QED BY <3>1, <3>2, <3>3, <3>4
  <2>3. \A f \in Figures : book[f] \in Int BY DEF Init, Figures, Never
  <2>4. book.recoveries \in Seq(Int) BY <2>1 DEF Init
  <2>5. QED BY <2>2, <2>3, <2>4 DEF Books
<1>3. \A S : <<>> \in Seq(S) OBVIOUS
<1>4. /\ path \in Seq(Nat \ {0}) /\ replays \in Seq(Cycles) /\ rows \in Seq(Executions)
      /\ log \in Seq(LogEntries) /\ marks \in Seq(Marks)
  BY <1>3 DEF Init
<1>5. /\ config \in Configs /\ now \in Nat /\ price \in Nat /\ start \in Nat
      /\ opened \in Int /\ eligible \in Int
  BY DEF Init, Never
<1>6. stopped \in BOOLEAN /\ behind \subseteq {"tp", "dca"} BY DEF Init
<1>7. QED BY <1>1, <1>2, <1>4, <1>5, <1>6 DEF Typed

\* A candle keeps them.
LEMMA TypedNextCandle ==
  ASSUME Typed, NEW c \in Candles, NEW t \in 1 .. MaxCandles, NEW payment \in Payments,
         NextCandle(c, t, payment)
  PROVE  Typed'
<1> DEFINE paid == IF Held(cycle) THEN [book EXCEPT !.funding = @ + payment * TotalQty(cycle)]
                   ELSE book
           begun == IF Held(cycle) THEN cycle ELSE Begun(c.open, EntryQty)
           bought == IF Held(cycle) THEN paid ELSE Opened(paid, begun)
<1>1. c.open \in Nat \ {0} /\ Tail(Points(c)) \in Seq(Nat \ {0}) BY PointsPositive
<1>2. cycle \in Ladders /\ book \in Books /\ t \in Nat /\ payment \in Int
  BY ReplayAssumption DEF Typed
<1>3. TotalQty(cycle) \in Nat /\ payment * TotalQty(cycle) \in Int
  BY <1>2, SumsTyped DEF Ladders
<1>4. EntryQty \in Nat \ {0} BY ReplayAssumption
<1>5. begun \in Ladders /\ begun.fills # <<>> BY <1>1, <1>2, <1>4, BegunFacts, HeldFills
<1>6. paid \in Books
  <2> DEFINE x == book.funding + payment * TotalQty(cycle)
  <2>1. x \in Int BY <1>2, <1>3, BookFields
  <2>2. paid = IF Held(cycle) THEN [book EXCEPT !.funding = x] ELSE book OBVIOUS
  <2> HIDE DEF x, paid
  <2>3. QED BY <1>2, <2>1, <2>2, BookExcept DEF Figures
<1> HIDE DEF paid, begun
<1>7. bought \in Books BY <1>5, <1>6, BoughtTyped
<1>8. /\ now' = t
      /\ \/ UNCHANGED <<price, start, path, cycle, opened, book, rows, marks, behind>>
         \/ /\ price' = c.open /\ start' = c.open /\ path' = Tail(Points(c))
            /\ cycle' = begun
            /\ opened' = IF Held(cycle) THEN opened ELSE t
            /\ book' = Mark(bought, begun, c.open, t)
            /\ marks' = Append(marks, Seen(bought, begun, c.open, t))
            /\ rows' = IF Held(cycle) THEN rows
                       ELSE Append(rows, Execution("botdca-open-", "Buy",
                                                   c.open * EntryQty, 0))
            /\ behind' = Passed(begun, c.open)
      /\ log' = IF Held(cycle) /\ payment # 0
                THEN Append(log, [symbol |-> "HYPEUSDT", type |-> "SETTLEMENT",
                                  cash |-> -payment * TotalQty(cycle)])
                ELSE log
      /\ UNCHANGED <<config, replays, eligible, stopped>>
  BY DEF NextCandle, paid, begun
<1> HIDE DEF bought
<1>9. Mark(bought, begun, c.open, t) \in Books BY <1>1, <1>2, <1>5, <1>7, MarkTyped
<1>10. Seen(bought, begun, c.open, t) \in Marks BY <1>1, <1>2, <1>5, <1>7, SeenTyped
<1>11. Execution("botdca-open-", "Buy", c.open * EntryQty, 0) \in Executions
  <2>1. c.open * EntryQty \in Int BY <1>1, <1>4
  <2>2. 0 \in Int OBVIOUS
  <2>3. QED BY <2>1, <2>2, ExecutionTyped DEF Links
<1>12. [symbol |-> "HYPEUSDT", type |-> "SETTLEMENT", cash |-> -payment * TotalQty(cycle)]
         \in LogEntries
  <2>1. -payment * TotalQty(cycle) \in Int BY <1>2, <1>3
  <2>2. QED BY <2>1 DEF LogEntries, OwnLog
<1>13. log' \in Seq(LogEntries)
  <2>1. log \in Seq(LogEntries) BY DEF Typed
  <2> DEFINE e == [symbol |-> "HYPEUSDT", type |-> "SETTLEMENT",
                   cash |-> -payment * TotalQty(cycle)]
  <2>2. log' = Append(log, e) \/ log' = log BY <1>8
  <2>3. e \in LogEntries BY <1>12
  <2> HIDE DEF e
  <2>4. QED BY <2>1, <2>2, <2>3
<1>14. rows' \in Seq(Executions)
  <2>1. rows \in Seq(Executions) BY DEF Typed
  <2> DEFINE e == Execution("botdca-open-", "Buy", c.open * EntryQty, 0)
  <2>2. rows' = Append(rows, e) \/ rows' = rows BY <1>8
  <2>3. e \in Executions BY <1>11
  <2> HIDE DEF e
  <2>4. QED BY <2>1, <2>2, <2>3
<1>15. marks' \in Seq(Marks)
  <2>1. marks \in Seq(Marks) BY DEF Typed
  <2> DEFINE e == Seen(bought, begun, c.open, t)
  <2>2. marks' = Append(marks, e) \/ marks' = marks BY <1>8
  <2>3. e \in Marks BY <1>10
  <2> HIDE DEF e
  <2>4. QED BY <2>1, <2>2, <2>3
<1>16. cycle' \in Ladders /\ book' \in Books BY <1>2, <1>5, <1>8, <1>9
<1>17. price' \in Nat /\ start' \in Nat /\ path' \in Seq(Nat \ {0})
  BY <1>1, <1>8 DEF Typed
<1>18. behind' \subseteq {"tp", "dca"} BY <1>8, PassedTyped DEF Typed
<1>19. now' \in Nat /\ opened' \in Int BY <1>2, <1>8 DEF Typed
<1>20. /\ config' \in Configs /\ eligible' \in Int /\ stopped' \in BOOLEAN
       /\ replays' \in Seq(Cycles)
  BY <1>8 DEF Typed
<1>21. QED BY <1>13, <1>14, <1>15, <1>16, <1>17, <1>18, <1>19, <1>20 DEF Typed

\* What a threshold ahead says of the price.
LEMMA TakesProfitFacts ==
  ASSUME Typed, SegmentOK, TakesProfit
  PROVE  /\ cycle.fills # <<>> /\ TpPrice(cycle) \in Nat \ {0}
         /\ price <= TpPrice(cycle) /\ TpPrice(cycle) <= End /\ start < End
         /\ start <= price /\ End \in Nat
<1>1. InSegment /\ End > start /\ Held(cycle) /\ TpPrice(cycle) \in price .. End
  BY DEF TakesProfit, Rising
<1>2. path # <<>> /\ path \in Seq(Nat \ {0}) BY <1>1 DEF InSegment, Typed
<1>3. End \in Nat BY <1>2 DEF End
<1>4. cycle \in Ladders /\ cycle.fills # <<>> BY <1>1, HeldFills DEF Typed
<1>5. TpPrice(cycle) \in Nat BY <1>4, TpNat DEF Ladders
<1>6. price > 0 /\ price \in start .. End /\ price \in Nat /\ start \in Nat
  BY <1>1 DEF SegmentOK, Typed
<1>7. QED BY <1>1, <1>3, <1>4, <1>5, <1>6

\* The same of a trigger.
LEMMA FallsFacts ==
  ASSUME Typed, SegmentOK, Falls
  PROVE  /\ cycle.fills # <<>> /\ ~AtMax(cycle)
         /\ Trigger(cycle, config.reference) \in Nat \ {0}
         /\ End <= Trigger(cycle, config.reference)
         /\ Trigger(cycle, config.reference) <= price /\ End < start
         /\ price <= start /\ End \in Nat
<1>1. /\ InSegment /\ End < start /\ Held(cycle) /\ ~AtMax(cycle)
      /\ Trigger(cycle, config.reference) \in End .. price
  BY DEF Falls, Falling
<1>2. path # <<>> /\ path \in Seq(Nat \ {0}) BY <1>1 DEF InSegment, Typed
<1>3. End \in Nat \ {0} BY <1>2 DEF End
<1>4. cycle \in Ladders /\ cycle.fills # <<>> BY <1>1, HeldFills DEF Typed
<1>5. config.reference \in References BY ReplayAssumption DEF Typed
<1>6. Trigger(cycle, config.reference) \in Nat BY <1>1, <1>4, <1>5, TriggerNat
<1>7. price \in End .. start /\ price \in Nat /\ start \in Nat
  BY <1>1 DEF SegmentOK, Typed
<1>8. QED BY <1>1, <1>3, <1>4, <1>6, <1>7

\* A close keeps the types.
LEMMA TypedTakeProfit ==
  ASSUME Typed, SegmentOK, TakeProfit
  PROVE  Typed'
<1> DEFINE tp == TpPrice(cycle)
           marked == Mark(book, cycle, tp, now)
           closed == Closed(marked, cycle, tp)
           last == \/ config.maxCycles # 0 /\ Len(replays) + 1 >= config.maxCycles
                   \/ ~config.auto
           again == ~last /\ config.delay = 0
           next == Begun(tp, EntryQty)
           close == Execution("botdca-tp-", "Sell", tp * TotalQty(cycle), Gross(cycle, tp))
           open == Execution("botdca-open-", "Buy", tp * EntryQty, 0)
<1>1. TakesProfit BY DEF TakeProfit
<1>2. cycle.fills # <<>> /\ tp \in Nat \ {0} BY <1>1, TakesProfitFacts
<1>3. cycle \in Ladders /\ book \in Books /\ now \in Nat BY DEF Typed
<1>4. EntryQty \in Nat \ {0} BY ReplayAssumption
<1>5. /\ price' = tp
      /\ replays' = Append(replays, Replayed(marked, cycle, tp))
      /\ stopped' = last
      /\ eligible' = IF last THEN eligible ELSE now + config.delay
      /\ cycle' = IF again THEN next ELSE NoCycle
      /\ opened' = IF again THEN now ELSE Never
      /\ book' = IF again THEN Opened(closed, next) ELSE closed
      /\ rows' = Append(rows, close) \o (IF again THEN <<open>> ELSE <<>>)
      /\ marks' = Append(marks, Seen(book, cycle, tp, now))
      /\ behind' = {}
      /\ UNCHANGED <<config, now, start, path, log>>
  BY DEF TakeProfit, Eligible
<1>6. next \in Ladders /\ next.fills # <<>> BY <1>2, <1>4, BegunFacts
<1>7. NoCycle \in Ladders
  <2>1. <<>> \in Seq(Fills) OBVIOUS
  <2>2. QED BY <2>1 DEF NoCycle, Cycle, Ladders
<1>8. close \in Executions
  <2>1. tp * TotalQty(cycle) \in Int /\ Gross(cycle, tp) \in Int
    BY <1>2, <1>3, GrossInt
  <2>2. QED BY <2>1, ExecutionTyped DEF Links
<1>9. open \in Executions
  <2>1. tp * EntryQty \in Int /\ 0 \in Int BY <1>2, <1>4
  <2>2. QED BY <2>1, ExecutionTyped DEF Links
<1>10. last \in BOOLEAN OBVIOUS
<1>11. config.delay \in Nat BY ReplayAssumption DEF Typed
<1> HIDE DEF tp, last, next, close, open
<1>12. marked \in Books BY <1>2, <1>3, MarkTyped
<1> HIDE DEF marked
<1>13. closed \in Books BY <1>2, <1>3, <1>12, ClosedTyped
<1> HIDE DEF closed
<1>14. book' \in Books BY <1>5, <1>6, <1>13, BoughtTyped
<1>15. cycle' \in Ladders BY <1>5, <1>6, <1>7
<1>16. replays' \in Seq(Cycles)
  <2>1. Replayed(marked, cycle, tp) \in Cycles BY <1>2, <1>3, <1>12, ReplayedTyped
  <2>2. replays \in Seq(Cycles) BY DEF Typed
  <2>3. QED BY <1>5, <2>1, <2>2
<1>17. rows' \in Seq(Executions)
  <2>1. rows \in Seq(Executions) BY DEF Typed
  <2> DEFINE s == Append(rows, close)
             e == IF again THEN <<open>> ELSE <<>>
  <2>2. s \in Seq(Executions) BY <1>8, <2>1
  <2>3. e \in Seq(Executions)
    <3>1. <<open>> \in Seq(Executions) /\ <<>> \in Seq(Executions) BY <1>9
    <3>2. QED BY <3>1
  <2>4. rows' = s \o e BY <1>5
  <2> HIDE DEF s, e
  <2>5. QED BY <2>2, <2>3, <2>4
<1>18. marks' \in Seq(Marks)
  <2>1. Seen(book, cycle, tp, now) \in Marks BY <1>2, <1>3, SeenTyped
  <2>2. marks \in Seq(Marks) BY DEF Typed
  <2>3. QED BY <1>5, <2>1, <2>2
<1>19. eligible' \in Int /\ opened' \in Int BY <1>3, <1>5, <1>11 DEF Typed, Never
<1>20. /\ config' \in Configs /\ now' \in Nat /\ price' \in Nat /\ start' \in Nat
       /\ path' \in Seq(Nat \ {0}) /\ stopped' \in BOOLEAN /\ log' \in Seq(LogEntries)
       /\ behind' \subseteq {"tp", "dca"}
  BY <1>2, <1>5, <1>10 DEF Typed
<1>21. QED BY <1>14, <1>15, <1>16, <1>17, <1>18, <1>19, <1>20 DEF Typed

\* A DCA keeps them.
LEMMA TypedAddDca ==
  ASSUME Typed, SegmentOK, AddDca
  PROVE  Typed'
<1> DEFINE trigger == Trigger(cycle, config.reference)
           deeper == WithDca(cycle, trigger, NextQty(cycle))
           before == Mark(book, cycle, trigger, now)
           bought == Bought(before, deeper)
           cost == deeper.fills[Len(deeper.fills)].cost
           buy == Execution("botdca-dca-", "Buy", cost, 0)
           seen == <<Seen(book, cycle, trigger, now), Seen(bought, deeper, trigger, now)>>
<1>1. Falls BY DEF AddDca
<1>2. cycle.fills # <<>> /\ ~AtMax(cycle) /\ trigger \in Nat \ {0}
  BY <1>1, FallsFacts
<1>3. cycle \in Ladders /\ book \in Books /\ now \in Nat BY DEF Typed
<1>4. /\ price' = trigger
      /\ cycle' = deeper
      /\ book' = Mark(bought, deeper, trigger, now)
      /\ marks' = marks \o seen
      /\ rows' = Append(rows, buy)
      /\ behind' \subseteq Passed(deeper, trigger)
      /\ UNCHANGED <<config, now, start, path, opened, replays, eligible, stopped, log>>
  BY DEF AddDca
<1> HIDE DEF trigger
<1>5. deeper \in Ladders /\ deeper.fills # <<>> BY <1>2, <1>3, WithDcaFacts
<1> HIDE DEF deeper
<1>6. before \in Books BY <1>2, <1>3, MarkTyped
<1> HIDE DEF before
<1>7. bought \in Books BY <1>5, <1>6, BoughtTyped
<1> HIDE DEF bought
<1>8. book' \in Books BY <1>2, <1>3, <1>4, <1>5, <1>7, MarkTyped
<1>9. buy \in Executions
  <2>1. deeper.fills \in Seq(Fills) BY <1>5 DEF Ladders
  <2>2. deeper.fills[Len(deeper.fills)] \in Fills BY <1>5, <2>1
  <2>3. cost \in Int /\ 0 \in Int BY <2>2 DEF Fills
  <2> HIDE DEF cost
  <2>4. QED BY <2>3, ExecutionTyped DEF Links
<1>10. seen \in Seq(Marks)
  <2>1. Seen(book, cycle, trigger, now) \in Marks BY <1>2, <1>3, SeenTyped
  <2>2. Seen(bought, deeper, trigger, now) \in Marks
    BY <1>2, <1>3, <1>5, <1>7, SeenTyped
  <2>3. QED BY <2>1, <2>2
<1> HIDE DEF buy, seen
<1>11. rows' \in Seq(Executions) /\ marks' \in Seq(Marks)
  <2>1. rows \in Seq(Executions) /\ marks \in Seq(Marks) BY DEF Typed
  <2>2. QED BY <1>4, <1>9, <1>10, <2>1
<1>12. behind' \subseteq {"tp", "dca"} BY <1>4, PassedTyped
<1>13. cycle' \in Ladders BY <1>4, <1>5
<1>14. /\ config' \in Configs /\ now' \in Nat /\ price' \in Nat /\ start' \in Nat
       /\ path' \in Seq(Nat \ {0}) /\ stopped' \in BOOLEAN /\ log' \in Seq(LogEntries)
       /\ opened' \in Int /\ eligible' \in Int /\ replays' \in Seq(Cycles)
  BY <1>2, <1>4 DEF Typed
<1>15. QED BY <1>8, <1>11, <1>12, <1>13, <1>14 DEF Typed

\* The end of a segment keeps them.
LEMMA TypedEndSegment ==
  ASSUME Typed, EndSegment
  PROVE  Typed'
<1>1. /\ path # <<>> /\ price' = End /\ start' = End /\ path' = Tail(path)
      /\ book' = Mark(book, cycle, End, now)
      /\ marks' = Append(marks, Seen(book, cycle, End, now))
      /\ behind' \subseteq behind
      /\ UNCHANGED <<config, now, cycle, opened, replays, eligible, stopped, rows, log>>
  BY DEF EndSegment, InSegment
<1>2. path \in Seq(Nat \ {0}) BY DEF Typed
<1>3. End \in Nat /\ Tail(path) \in Seq(Nat \ {0}) BY <1>1, <1>2 DEF End
<1>4. cycle \in Ladders /\ book \in Books /\ now \in Nat BY DEF Typed
<1>5. book' \in Books BY <1>1, <1>3, <1>4, MarkTyped
<1>6. marks' \in Seq(Marks)
  <2>1. Seen(book, cycle, End, now) \in Marks BY <1>3, <1>4, SeenTyped
  <2>2. marks \in Seq(Marks) BY DEF Typed
  <2>3. QED BY <1>1, <2>1, <2>2
<1>7. behind' \subseteq {"tp", "dca"} BY <1>1 DEF Typed
<1>8. price' \in Nat /\ start' \in Nat /\ path' \in Seq(Nat \ {0}) BY <1>1, <1>3
<1>9. QED BY <1>1, <1>5, <1>6, <1>7, <1>8 DEF Typed

\* The rest of the account keeps them.
LEMMA TypedStranger ==
  ASSUME Typed, Stranger
  PROVE  Typed'
<1>1. rows' \in Seq(Executions) /\ log' \in Seq(LogEntries)
  <2>1. rows \in Seq(Executions) /\ log \in Seq(LogEntries) BY DEF Typed
  <2>2. CASE \E row \in ForeignExecutions : rows' = Append(rows, row) /\ log' = log
    BY <2>1, <2>2 DEF Executions
  <2>3. CASE \E row \in LogRows : log' = Append(log, row) /\ rows' = rows
    BY <2>1, <2>3 DEF LogEntries
  <2>4. QED BY <2>2, <2>3 DEF Stranger
<1>2. UNCHANGED <<config, now, price, start, path, cycle, opened, book, replays,
                  eligible, stopped, marks, behind>>
  BY DEF Stranger
<1>3. QED BY <1>1, <1>2 DEF Typed

\* The price stays inside its segment: a fill moves it to a threshold that lies
\* ahead, and a segment starts where the last one ended.
LEMMA SegmentStep ==
  ASSUME Typed, Typed', SegmentOK, Next \/ UNCHANGED vars
  PROVE  SegmentOK'
<1>1. CASE UNCHANGED <<price, start, path>>
  BY <1>1 DEF SegmentOK, InSegment, End
<1>2. ASSUME NEW c \in Candles, NEW t \in 1 .. MaxCandles, NEW payment \in Payments,
             NextCandle(c, t, payment)
      PROVE  SegmentOK'
  <2>1. \/ UNCHANGED <<price, start, path>>
        \/ price' = c.open /\ start' = c.open /\ path' = Tail(Points(c))
    BY <1>2 DEF NextCandle
  <2>2. CASE price' = c.open /\ start' = c.open /\ path' = Tail(Points(c))
    <3>1. c.open \in Nat \ {0} BY PointsPositive
    <3>2. path' # <<>> /\ path' \in Seq(Nat \ {0}) BY <2>2, PointsPositive
    <3>3. Head(path') \in Nat BY <3>2
    <3>4. QED BY <2>2, <3>1, <3>3 DEF SegmentOK, InSegment, End
  <2>3. QED BY <1>1, <2>1, <2>2
<1>3. CASE TakeProfit
  <2>1. TakesProfit /\ price' = TpPrice(cycle) /\ start' = start /\ path' = path
    BY <1>3 DEF TakeProfit
  <2>2. /\ TpPrice(cycle) \in Nat \ {0} /\ price <= TpPrice(cycle)
        /\ TpPrice(cycle) <= End /\ start < End /\ start <= price /\ End \in Nat
    BY <2>1, TakesProfitFacts
  <2>3. start > 0 BY <2>1 DEF SegmentOK, TakesProfit, Rising
  <2>4. start \in Nat /\ price \in Nat BY DEF Typed
  <2>5. End' = End BY <2>1 DEF End
  <2>6. TpPrice(cycle) \in start .. End BY <2>2, <2>4
  <2>7. QED BY <2>1, <2>2, <2>3, <2>4, <2>5, <2>6 DEF SegmentOK
<1>4. CASE AddDca
  <2> DEFINE trigger == Trigger(cycle, config.reference)
  <2>1. Falls /\ price' = trigger /\ start' = start /\ path' = path
    BY <1>4 DEF AddDca
  <2>2. /\ trigger \in Nat \ {0} /\ End <= trigger /\ trigger <= price /\ End < start
        /\ price <= start /\ End \in Nat
    BY <2>1, FallsFacts
  <2>3. start > 0 BY <2>1 DEF SegmentOK, Falls, Falling
  <2>4. start \in Nat /\ price \in Nat BY DEF Typed
  <2>5. End' = End BY <2>1 DEF End
  <2> HIDE DEF trigger
  <2>6. trigger \in End .. start BY <2>2, <2>4
  <2>7. QED BY <2>1, <2>2, <2>3, <2>4, <2>5, <2>6 DEF SegmentOK
<1>5. CASE EndSegment
  <2>1. path # <<>> /\ price' = End /\ start' = End /\ path' = Tail(path)
    BY <1>5 DEF EndSegment, InSegment
  <2>2. path \in Seq(Nat \ {0}) BY DEF Typed
  <2>3. End \in Nat \ {0} BY <2>1, <2>2 DEF End
  <2>4. path' \in Seq(Nat \ {0}) BY <2>1, <2>2
  <2>5. ASSUME path' # <<>> PROVE Head(path') \in Nat BY <2>4, <2>5
  <2>6. QED BY <2>1, <2>3, <2>5 DEF SegmentOK, InSegment, End
<1>6. CASE Stranger BY <1>1, <1>6 DEF Stranger
<1>7. CASE UNCHANGED vars BY <1>1, <1>7 DEF vars
<1>8. QED BY <1>2, <1>3, <1>4, <1>5, <1>6, <1>7 DEF Next

\* Every step keeps the types and the segment.
LEMMA TypedStep ==
  ASSUME Typed, SegmentOK, Next \/ UNCHANGED vars
  PROVE  Typed' /\ SegmentOK'
<1>1. Typed'
  <2>1. CASE UNCHANGED vars BY <2>1 DEF Typed, vars
  <2>2. CASE Next
    BY <2>2, TypedNextCandle, TypedTakeProfit, TypedAddDca, TypedEndSegment,
       TypedStranger DEF Next
  <2>3. QED BY <2>1, <2>2
<1>2. QED BY <1>1, SegmentStep

\* The variables have their types, and the price is inside its segment
\* (backtest.py: _process_candle, _traverse_segment).
THEOREM ReplayTyped == Spec => [](Typed /\ SegmentOK)
<1>1. Init => Typed /\ SegmentOK
  BY TypedInit DEF Init, SegmentOK, InSegment
<1>2. Typed /\ SegmentOK /\ [Next]_vars => (Typed /\ SegmentOK)'
  BY TypedStep
<1>3. QED BY <1>1, <1>2, PTL DEF Spec

-----------------------------------------------------------------------------
(* Nothing left behind *)

\* A threshold the price is beyond is to be filled now, or is accounted for.
BehindOK ==
  /\ ~TakesProfit => Passed(cycle, price) \cap {"tp"} \subseteq behind
  /\ ~TakesProfit /\ ~Falls => Passed(cycle, price) \cap {"dca"} \subseteq behind

\* What lies behind a price, threshold by threshold.
LEMMA PassedFacts ==
  ASSUME NEW c, NEW p
  PROVE  /\ "tp" \in Passed(c, p) <=> Held(c) /\ TpPrice(c) <= p
         /\ "dca" \in Passed(c, p) <=>
              Held(c) /\ ~AtMax(c) /\ Trigger(c, config.reference) >= p
BY DEF Passed

\* A candle may open beyond a threshold, which the observation notes.
LEMMA BehindNextCandle ==
  ASSUME Typed, BehindOK, NEW c \in Candles, NEW t \in 1 .. MaxCandles,
         NEW payment \in Payments, NextCandle(c, t, payment)
  PROVE  BehindOK'
<1> DEFINE begun == IF Held(cycle) THEN cycle ELSE Begun(c.open, EntryQty)
<1>1. \/ UNCHANGED <<price, start, path, cycle, behind>>
      \/ price' = c.open /\ cycle' = begun /\ behind' = Passed(begun, c.open)
  BY DEF NextCandle
<1>2. config' = config BY DEF NextCandle
<1>3. CASE UNCHANGED <<price, start, path, cycle, behind>>
  BY <1>2, <1>3 DEF BehindOK, TakesProfit, Falls, Rising, Falling, InSegment, End, Passed
<1>4. CASE price' = c.open /\ cycle' = begun /\ behind' = Passed(begun, c.open)
  <2>1. Passed(cycle, price)' = Passed(begun, c.open) BY <1>2, <1>4 DEF Passed
  <2>2. QED BY <1>4, <2>1 DEF BehindOK
<1>5. QED BY <1>1, <1>3, <1>4

\* Behind a close nothing is left: the next cycle's take profit is ahead, or
\* where the price is, and its trigger is below.
LEMMA BehindTakeProfit ==
  ASSUME Typed, SegmentOK, BehindOK, TakeProfit
  PROVE  BehindOK'
<1> DEFINE tp == TpPrice(cycle)
           next == Begun(tp, EntryQty)
<1>1. /\ TakesProfit /\ price' = tp /\ start' = start /\ path' = path
      /\ config' = config /\ (cycle' = next \/ cycle' = NoCycle)
  BY DEF TakeProfit
<1>2. tp \in Nat \ {0} /\ tp <= End /\ start < End /\ End \in Nat
  BY <1>1, TakesProfitFacts
<1>3. EntryQty \in Nat \ {0} /\ config.reference \in References
  BY ReplayAssumption DEF Typed
<1> HIDE DEF tp
<1>4. /\ Held(next) /\ TpPrice(next) \in Nat /\ TpPrice(next) >= tp
      /\ ~AtMax(next) => Trigger(next, config.reference) < tp
                         /\ Trigger(next, config.reference) \in Nat
  BY <1>2, <1>3, BegunFacts
<1> HIDE DEF next
<1>5. CASE cycle' = NoCycle
  <2>1. Passed(cycle, price)' = {} BY <1>5 DEF Passed, Held
  <2>2. QED BY <2>1 DEF BehindOK
<1>6. CASE cycle' = next
  <2>1. "dca" \notin Passed(cycle, price)'
    BY <1>1, <1>2, <1>4, <1>6 DEF Passed
  <2>2. ASSUME "tp" \in Passed(cycle, price)' PROVE TakesProfit'
    <3>1. TpPrice(next) <= tp BY <1>1, <1>6, <2>2 DEF Passed
    <3>2. TpPrice(next) = tp BY <1>2, <1>4, <3>1
    <3>3. InSegment' /\ End' = End BY <1>1 DEF TakesProfit, Rising, InSegment, End
    <3>4. TpPrice(next) \in tp .. End BY <1>2, <3>2
    <3>5. QED BY <1>1, <1>2, <1>4, <1>6, <3>3, <3>4 DEF TakesProfit, Rising
  <2>3. QED BY <2>1, <2>2 DEF BehindOK
<1>7. QED BY <1>1, <1>5, <1>6

\* A DCA leaves behind it only a take profit that was behind already, and a
\* trigger above its own, which the observation notes.
LEMMA BehindAddDca ==
  ASSUME Typed, SegmentOK, BehindOK, AddDca
  PROVE  BehindOK'
<1> DEFINE trigger == Trigger(cycle, config.reference)
           deeper == WithDca(cycle, trigger, NextQty(cycle))
           behindNow == {x \in Passed(deeper, trigger) :
                           IF x = "tp" THEN x \in behind
                           ELSE Trigger(deeper, config.reference) > trigger}
<1>1. /\ Falls /\ price' = trigger /\ start' = start /\ path' = path
      /\ config' = config /\ cycle' = deeper /\ behind' = behindNow
  BY DEF AddDca
<1>2. /\ cycle.fills # <<>> /\ ~AtMax(cycle) /\ trigger \in Nat \ {0}
      /\ End <= trigger /\ trigger <= price /\ End < start /\ End \in Nat
  BY <1>1, FallsFacts
<1>3. cycle \in Ladders /\ price \in Nat /\ config.reference \in References
  BY ReplayAssumption DEF Typed
<1> HIDE DEF trigger
<1>4. /\ deeper \in Ladders /\ Held(deeper) /\ deeper.fills # <<>>
      /\ TpPrice(deeper) <= trigger => TpPrice(cycle) <= trigger
  BY <1>2, <1>3, WithDcaFacts
<1> HIDE DEF deeper
<1>5. ASSUME "tp" \in Passed(deeper, trigger) PROVE "tp" \in behind
  <2>1. TpPrice(cycle) <= trigger BY <1>4, <1>5, PassedFacts
  <2>2. TpPrice(cycle) \in Nat BY <1>2, <1>3, TpNat DEF Ladders
  <2>3. TpPrice(cycle) <= price BY <1>2, <1>3, <2>1, <2>2
  <2>4. Held(cycle) BY <1>2, <1>3, HeldFills
  <2>5. ~TakesProfit
    BY <1>1, <1>2 DEF TakesProfit, Rising, Falls, Falling, Typed
  <2>6. "tp" \in Passed(cycle, price) BY <2>3, <2>4, PassedFacts
  <2>7. QED BY <2>5, <2>6 DEF BehindOK
<1>6. ASSUME "dca" \in Passed(deeper, trigger), ~Falls'
      PROVE  Trigger(deeper, config.reference) > trigger
  <2>1. ~AtMax(deeper) /\ Trigger(deeper, config.reference) >= trigger
    BY <1>6, PassedFacts
  <2>2. Trigger(deeper, config.reference) \in Nat BY <1>3, <1>4, <2>1, TriggerNat
  <2>3. ASSUME Trigger(deeper, config.reference) = trigger PROVE Falls'
    <3>1. InSegment' /\ End' = End BY <1>1 DEF Falls, Falling, InSegment, End
    <3>2. trigger \in End .. trigger BY <1>2
    <3>3. QED BY <1>1, <1>2, <1>4, <2>1, <2>3, <3>1, <3>2 DEF Falls, Falling
  <2>4. QED BY <1>2, <1>6, <2>1, <2>2, <2>3
<1>7. Passed(cycle, price)' = Passed(deeper, trigger) BY <1>1 DEF Passed
<1>8. ASSUME "tp" \in Passed(deeper, trigger) PROVE "tp" \in behind'
  BY <1>1, <1>5, <1>8
<1>9. ASSUME "dca" \in Passed(deeper, trigger), ~Falls' PROVE "dca" \in behind'
  BY <1>1, <1>6, <1>9
<1>10. QED BY <1>7, <1>8, <1>9 DEF BehindOK

\* What a segment passes it fills: at its end nothing more is behind.
LEMMA BehindEndSegment ==
  ASSUME Typed, SegmentOK, BehindOK, EndSegment
  PROVE  BehindOK'
<1>1. /\ InSegment /\ ~TakesProfit /\ ~Falls /\ price' = End /\ config' = config
      /\ cycle' = cycle /\ behind' = behind \cap Passed(cycle, End)
  BY DEF EndSegment
<1>2. path # <<>> /\ path \in Seq(Nat \ {0}) BY <1>1 DEF Typed, InSegment
<1>3. End \in Nat /\ price \in Nat /\ start \in Nat BY <1>2 DEF End, Typed
<1>4. cycle \in Ladders /\ config.reference \in References
  BY ReplayAssumption DEF Typed
<1>5. ASSUME "tp" \in Passed(cycle, End) PROVE "tp" \in behind
  <2>1. Held(cycle) /\ TpPrice(cycle) <= End BY <1>5, PassedFacts
  <2>2. TpPrice(cycle) \in Nat BY <1>4, <2>1, HeldFills, TpNat DEF Ladders
  <2>3. CASE TpPrice(cycle) <= price
    <3>1. "tp" \in Passed(cycle, price) BY <2>1, <2>3, PassedFacts
    <3>2. QED BY <1>1, <3>1 DEF BehindOK
  <2>4. CASE ~(TpPrice(cycle) <= price)
    <3>1. price < End BY <1>3, <2>1, <2>2, <2>4
    <3>2. End > start BY <1>1, <1>3, <3>1 DEF SegmentOK
    <3>3. TpPrice(cycle) \in price .. End BY <1>3, <2>1, <2>2, <2>4
    <3>4. TakesProfit BY <1>1, <2>1, <3>2, <3>3 DEF TakesProfit, Rising
    <3>5. QED BY <1>1, <3>4
  <2>5. QED BY <2>3, <2>4
<1>6. ASSUME "dca" \in Passed(cycle, End) PROVE "dca" \in behind
  <2> DEFINE trigger == Trigger(cycle, config.reference)
  <2>1. Held(cycle) /\ ~AtMax(cycle) /\ trigger >= End BY <1>6, PassedFacts
  <2>2. trigger \in Nat BY <1>4, <2>1, HeldFills, TriggerNat
  <2>3. CASE trigger >= price
    <3>1. "dca" \in Passed(cycle, price) BY <2>1, <2>3, PassedFacts
    <3>2. QED BY <1>1, <3>1 DEF BehindOK
  <2>4. CASE ~(trigger >= price)
    <3>1. price > End BY <1>3, <2>1, <2>2, <2>4
    <3>2. End < start BY <1>1, <1>3, <3>1 DEF SegmentOK
    <3>3. trigger \in End .. price BY <1>3, <2>1, <2>2, <2>4
    <3>4. Falls BY <1>1, <2>1, <3>2, <3>3 DEF Falls, Falling
    <3>5. QED BY <1>1, <3>4
  <2>5. QED BY <2>3, <2>4
<1>7. Passed(cycle, price)' = Passed(cycle, End) BY <1>1 DEF Passed
<1>8. QED BY <1>1, <1>5, <1>6, <1>7 DEF BehindOK

\* Every step accounts for what is behind the price.
LEMMA BehindStep ==
  ASSUME Typed, SegmentOK, BehindOK, Next \/ UNCHANGED vars
  PROVE  BehindOK'
<1>1. CASE UNCHANGED <<config, price, start, path, cycle, behind>>
  BY <1>1 DEF BehindOK, TakesProfit, Falls, Rising, Falling, InSegment, End, Passed
<1>2. CASE Stranger BY <1>1, <1>2 DEF Stranger
<1>3. CASE UNCHANGED vars BY <1>1, <1>3 DEF vars
<1>4. QED
  BY <1>2, <1>3, BehindNextCandle, BehindTakeProfit, BehindAddDca, BehindEndSegment
  DEF Next

\* No threshold stays behind the price without a fill (backtest.py:
\* _traverse_segment).
THEOREM NothingBehind == Spec => []NothingLeftBehind
<1>1. Init => BehindOK
  <2>1. Init => Passed(cycle, price) = {} BY DEF Init, Passed, Held
  <2>2. QED BY <2>1 DEF BehindOK
<1>2. Typed /\ SegmentOK /\ BehindOK /\ [Next]_vars => BehindOK' BY BehindStep
<1>3. BehindOK => NothingLeftBehind
  <2>1. SUFFICES ASSUME BehindOK, ~TakesProfit, ~Falls
                 PROVE  Passed(cycle, price) \subseteq behind
    BY DEF NothingLeftBehind
  <2>2. Passed(cycle, price) \subseteq {"tp", "dca"} BY PassedTyped
  <2>3. QED BY <2>1, <2>2 DEF BehindOK
<1>4. QED BY <1>1, <1>2, <1>3, ReplayTyped, PTL DEF Spec

-----------------------------------------------------------------------------
(* The pace of the cycles *)

\* Until the engine stops, the cap of its cycles is not reached, and the next
\* one is eligible when the delay after the last is over.
PaceOK ==
  ~stopped =>
    /\ config.maxCycles # 0 => Len(replays) < config.maxCycles
    /\ replays # <<>> => eligible = Last(replays).closed + config.delay

\* What a step that begins a cycle has waited for.
Waited ==
  /\ ~stopped'
  /\ config.maxCycles # 0 => Len(replays') < config.maxCycles
  /\ replays' # <<>> =>
       config.auto /\ opened' - Last(replays').closed >= config.delay

\* A close keeps the pace: the engine stops at the cap.
LEMMA PaceTakeProfit ==
  ASSUME Typed, SegmentOK, TakeProfit
  PROVE  PaceOK' /\ (Begins => Waited)
<1> DEFINE one == Replayed(Mark(book, cycle, TpPrice(cycle), now), cycle, TpPrice(cycle))
           last == \/ config.maxCycles # 0 /\ Len(replays) + 1 >= config.maxCycles
                   \/ ~config.auto
           again == ~last /\ config.delay = 0
<1>1. /\ TakesProfit
      /\ replays' = Append(replays, one) /\ stopped' = last
      /\ eligible' = IF last THEN eligible ELSE now + config.delay
      /\ cycle' = (IF again THEN Begun(TpPrice(cycle), EntryQty) ELSE NoCycle)
      /\ opened' = (IF again THEN now ELSE Never)
      /\ config' = config
  BY DEF TakeProfit, Eligible
<1>2. one \in Cycles /\ one.closed = now
  <2>1. TpPrice(cycle) \in Nat \ {0} /\ cycle.fills # <<>>
    BY <1>1, TakesProfitFacts
  <2>2. cycle \in Ladders /\ book \in Books /\ now \in Nat BY DEF Typed
  <2>3. Mark(book, cycle, TpPrice(cycle), now) \in Books BY <2>1, <2>2, MarkTyped
  <2>4. one \in Cycles BY <2>1, <2>2, <2>3, ReplayedTyped
  <2>5. one.closed = now BY DEF Replayed
  <2>6. QED BY <2>4, <2>5
<1>3. replays \in Seq(Cycles) /\ now \in Nat /\ config.delay \in Nat
      /\ config.maxCycles \in Nat
  BY ReplayAssumption DEF Typed
<1> HIDE DEF one
<1>4. Len(replays') = Len(replays) + 1 /\ Last(replays') = one /\ replays' # <<>>
  BY <1>1, <1>2, <1>3 DEF Last
<1>5. Len(replays) \in Nat BY <1>3
<1>6. ASSUME ~last
      PROVE  /\ config.maxCycles # 0 => Len(replays') < config.maxCycles
             /\ config.auto /\ eligible' = now + config.delay
  BY <1>1, <1>3, <1>4, <1>5, <1>6
<1>7. ASSUME Begins PROVE again
  <2>1. cycle' # NoCycle BY <1>7 DEF Begins, Held
  <2>2. QED BY <1>1, <2>1
<1> HIDE DEF last
<1>8. PaceOK' BY <1>1, <1>2, <1>4, <1>6 DEF PaceOK
<1>9. ASSUME Begins
      PROVE  opened' - Last(replays').closed >= config.delay /\ ~stopped'
             /\ config.auto
             /\ (config.maxCycles # 0 => Len(replays') < config.maxCycles)
  BY <1>1, <1>2, <1>3, <1>4, <1>6, <1>7, <1>9
<1>10. QED BY <1>8, <1>9 DEF Waited

\* A candle begins a cycle only once the last one's delay is over.
LEMMA PaceNextCandle ==
  ASSUME Typed, PaceOK, NEW c \in Candles, NEW t \in 1 .. MaxCandles,
         NEW payment \in Payments, NextCandle(c, t, payment)
  PROVE  PaceOK' /\ (Begins => Waited)
<1> DEFINE skip == ~Held(cycle) /\ ((~config.auto /\ replays # <<>>) \/ t < eligible)
<1>1. /\ ~stopped /\ UNCHANGED <<config, replays, eligible, stopped>>
      /\ skip => cycle' = cycle
      /\ ~skip => opened' = IF Held(cycle) THEN opened ELSE t
  BY DEF NextCandle
<1>2. PaceOK' BY <1>1 DEF PaceOK
<1>3. ASSUME Begins
      PROVE  ~Held(cycle) /\ (replays # <<>> => config.auto) /\ ~(t < eligible)
             /\ opened' = t
  BY <1>1, <1>3 DEF Begins
<1>4. ASSUME replays # <<>>
      PROVE  Last(replays).closed \in Int /\ eligible = Last(replays).closed + config.delay
  <2>1. replays \in Seq(Cycles) BY DEF Typed
  <2>2. replays[Len(replays)] \in Cycles BY <1>4, <2>1
  <2>3. QED BY <1>1, <1>4, <2>2 DEF Last, Cycles, PaceOK
<1>5. t \in Int /\ config.delay \in Nat /\ eligible \in Int
  BY ReplayAssumption DEF Typed
<1>6. ASSUME Begins, replays # <<>>
      PROVE  opened' - Last(replays').closed >= config.delay
  BY <1>1, <1>3, <1>4, <1>5, <1>6
<1>7. QED BY <1>1, <1>2, <1>3, <1>6 DEF PaceOK, Waited

\* Every step keeps the pace, and begins a cycle only with it.
LEMMA PaceStep ==
  ASSUME Typed, SegmentOK, PaceOK, Next \/ UNCHANGED vars
  PROVE  PaceOK' /\ (Begins => Waited)
<1>1. CASE UNCHANGED <<config, replays, eligible, stopped>> /\ (Held(cycle') => Held(cycle))
  BY <1>1 DEF PaceOK, Begins
<1>2. CASE AddDca
  <2>1. Held(cycle) BY <1>2 DEF AddDca, Falls
  <2>2. QED BY <1>1, <1>2, <2>1 DEF AddDca
<1>3. CASE EndSegment BY <1>1, <1>3 DEF EndSegment
<1>4. CASE Stranger BY <1>1, <1>4 DEF Stranger
<1>5. CASE UNCHANGED vars BY <1>1, <1>5 DEF vars
<1>6. QED BY <1>2, <1>3, <1>4, <1>5, PaceNextCandle, PaceTakeProfit DEF Next

\* A cycle begins only when the last one is closed and its delay is over, and
\* none once the engine has stopped (backtest.py: _close_cycle, _process_candle).
THEOREM CyclesWait == Spec => ReentryWaits
<1>1. Init => PaceOK
  <2>1. ASSUME Init 
        PROVE  config.maxCycles \in Nat /\ replays = <<>>
    BY <2>1, ReplayAssumption DEF Init
  <2>2. Len(<<>>) = 0 OBVIOUS
  <2>3. QED BY <2>1, <2>2 DEF PaceOK
<1>2. Typed /\ SegmentOK /\ PaceOK /\ [Next]_vars => PaceOK' /\ (Begins => Waited)
  BY PaceStep
<1>3. QED BY <1>1, <1>2, ReplayTyped, PTL DEF Spec, ReentryWaits, Waited

-----------------------------------------------------------------------------
(* The take profit of a restored basket *)

\* Of whole steps, a sum that has drifted is rounded to the sum.
LEMMA DriftRounded ==
  ASSUME NEW c, NEW n \in Nat, TotalQty(c) = n * Lot, NEW drift \in Drifts
  PROVE  TpQty(c, drift) = n
<1> DEFINE b == Lot * Grain
           e == drift * Lot
           a == TotalQty(c) * Grain + drift * Lot
           m == (2 * a + b) \div (2 * b)
<1>1. Grain \in Nat /\ Grain > 100 /\ Lot \in Nat \ {0} /\ drift \in -1 .. 1
  BY InstrumentsAssumption DEF Drifts
<1>2. b \in Nat \ {0} /\ 100 * Lot < b /\ e \in {-Lot, 0, Lot} BY <1>1
<1>3. TpQty(c, drift) = Increments(a, b, FALSE) BY DEF TpQty
<1>4. a = n * b + e /\ a \in Int
  <2>1. TotalQty(c) * Grain = n * b BY <1>1
  <2>2. n * b \in Int /\ e \in Int BY <1>1, <1>2
  <2>3. QED BY <2>1, <2>2
<1> HIDE DEF a, b, e
<1>5. m = n
  <2>1. m \in Int /\ 2 * (m * b) <= 2 * a + b /\ 2 * a < 2 * (m * b) + b
    BY ONLY <1>2, <1>4, NearestBounds
  <2> DEFINE x == m * b  y == n * b
  <2>2. x \in Int /\ y \in Int BY <1>2, <2>1
  <2>3. 2 * x <= 2 * (y + e) + b /\ 2 * (y + e) < 2 * x + b BY <1>4, <2>1
  <2>4. x < y + b /\ y < x + b
    <3> HIDE DEF x, y
    <3>1. QED BY <1>1, <1>2, <2>2, <2>3
  <2>5. ASSUME n + 1 <= m PROVE FALSE
    <3>1. (n + 1) * b <= m * b BY <1>2, <2>1, <2>5, TimesMonotone
    <3>2. (n + 1) * b = y + b BY <1>2
    <3>3. y + b <= x BY <3>1, <3>2
    <3> HIDE DEF x, y
    <3>4. QED BY <1>2, <2>2, <2>4, <3>3
  <2>6. ASSUME m + 1 <= n PROVE FALSE
    <3>1. (m + 1) * b <= n * b BY <1>2, <2>1, <2>6, TimesMonotone
    <3>2. (m + 1) * b = x + b BY <1>2, <2>1
    <3>3. x + b <= y BY <3>1, <3>2
    <3> HIDE DEF x, y
    <3>4. QED BY <1>2, <2>2, <2>4, <3>3
  <2> HIDE DEF m
  <2>7. QED BY <2>1, <2>5, <2>6
<1>6. Distance(a, m * b) * Grain <= b
  <2> DEFINE y == n * b
  <2>1. a = y + e /\ m * b = y /\ y \in Int BY <1>2, <1>4, <1>5
  <2> HIDE DEF y, m
  <2>2. Distance(a, m * b) \in {0, Lot} BY <1>1, <1>2, <2>1 DEF Distance
  <2>3. 0 * Grain <= b /\ Lot * Grain <= b BY <1>1, <1>2 DEF b
  <2>4. QED BY <2>2, <2>3
<1>7. Increments(a, b, FALSE) = m BY <1>6 DEF Increments
<1>8. QED BY <1>3, <1>5, <1>7

\* A basket restored from its position holds the position, whichever way the
\* exchange rounded its average entry.
LEMMA RestoredSize ==
  ASSUME NEW c, c.fills \in Seq(Fills), c.fills # <<>>, NEW up \in BOOLEAN
  PROVE  TotalQty(RestoredCycle(c, up)) = TotalQty(c)
<1> DEFINE a == Cost(c) * Lot
           q == TotalQty(c)
           r == Rounded(a, q, up)
           s == q \div Lot
<1>1. Cost(c) \in Nat /\ q \in Nat \ {0} /\ Lot \in Nat \ {0}
  BY SumsTyped, InstrumentsAssumption
<1>2. a \in Nat BY <1>1
<1>3. s \in Nat
  <2> HIDE DEF q
  <2>1. QED BY <1>1
<1>4. r \in Nat
  <2> HIDE DEF a, q
  <2>1. a \div q \in Nat BY <1>1, <1>2
  <2>2. -((-a) \div q) \in Nat
    <3> DEFINE k == (-a) \div q
    <3>1. k \in Int /\ k * q <= -a BY <1>1, <1>2, DivBounds
    <3>2. ASSUME k >= 1 PROVE FALSE
      <4>1. 1 * q <= k * q BY <1>1, <3>1, <3>2, TimesMonotone
      <4> HIDE DEF k
      <4>2. k * q \in Int BY <1>1, <3>1
      <4>3. QED BY <1>1, <1>2, <3>1, <4>1, <4>2
    <3> HIDE DEF k
    <3>3. -k \in Nat BY <3>1, <3>2
    <3>4. QED BY <3>3 DEF k
  <2>3. QED BY <2>1, <2>2 DEF Rounded
<1> DEFINE fill == AverageFill(c, up)
<1>5. fill = [cost |-> r * s, qty |-> q] BY DEF AverageFill
<1> HIDE DEF r, s, q
<1>6. r * s \in Nat BY <1>3, <1>4
<1>7. fill \in Fills BY <1>1, <1>5, <1>6 DEF Fills
<1>8. RestoredCycle(c, up).fills = <<fill>> BY DEF RestoredCycle, Cycle
<1>9. TotalQty(RestoredCycle(c, up)) = fill.qty BY <1>7, <1>8, SumsOfOne
<1>10. QED BY <1>5, <1>9 DEF q

\* A plan made of a restored position of whole steps, and not refused, has a
\* take profit of the whole position, whatever the ladder, the average entry's
\* rounding, the drift of the sum and the account (order_plan.py:88,
\* reconciliation.py:55).
THEOREM PositionCovered ==
  ASSUME NEW c, c.fills \in Seq(Fills), c.fills # <<>>,
         NEW n \in Nat, TotalQty(c) = n * Lot,
         NEW up \in BOOLEAN, NEW drift \in Drifts, NEW account,
         Plan(RestoredCycle(c, up), drift, account) # Refused
  PROVE  Plan(RestoredCycle(c, up), drift, account).tp[1] * Lot = TotalQty(c)
<1> DEFINE restored == RestoredCycle(c, up)
<1>1. TotalQty(restored) = n * Lot BY RestoredSize
<1>2. TpQty(restored, drift) = n BY <1>1, DriftRounded
<1> HIDE DEF restored
<1>3. Plan(restored, drift, account) # Refused =>
        Plan(restored, drift, account).tp = <<TpQty(restored, drift), TpPrice(restored)>>
  BY DEF Plan
<1>4. QED BY <1>2, <1>3 DEF restored

-----------------------------------------------------------------------------
(* The folds of the accounting *)

\* A row of one of the two folds.
Step(kind, accounting, row) ==
  IF kind = "execution" THEN WithExecution(accounting, row)
  ELSE WithLogRow(accounting, row)

\* The two folds.
FoldedExecutions(base, f) == FoldLeft(WithExecution, base, f)

FoldedLog(base, f) == FoldLeft(WithLogRow, base, f)

\* The recursive function that FoldLeft evaluates, over the indices in T.
IsLeftFold(g, kind, base, f, T) ==
  g = [s \in SUBSET T |->
         IF s = {} THEN base
         ELSE Step(kind, g[s \ {Max(s)}], f[Max(s)])]

\* Indices of rows.
Numbered(T) == \E n \in Nat : T \subseteq 1 .. n

\* The recursion, at every set of indices.
LeftSteps(g, kind, base, f, T) ==
  \A s \in SUBSET T :
    /\ s = {} => g[s] = base
    /\ s # {} => /\ Max(s) \in s
                 /\ g[s] = Step(kind, g[s \ {Max(s)}], f[Max(s)])

\* Evaluating the recursion.
LEMMA LeftStep ==
  ASSUME NEW T, Numbered(T), NEW kind, NEW base, NEW f, NEW g,
         IsLeftFold(g, kind, base, f, T)
  PROVE  LeftSteps(g, kind, base, f, T)
<1> SUFFICES ASSUME NEW s \in SUBSET T
             PROVE  /\ s = {} => g[s] = base
                    /\ s # {} => /\ Max(s) \in s
                                 /\ g[s] = Step(kind, g[s \ {Max(s)}], f[Max(s)])
  BY DEF LeftSteps
<1>1. s # {} => Max(s) \in s BY MaxOfIndices DEF Numbered
<1>2. g[s] = IF s = {} THEN base ELSE Step(kind, g[s \ {Max(s)}], f[Max(s)])
  BY DEF IsLeftFold
<1>3. QED BY <1>1, <1>2

\* A set of indices with a property has a least one with it.
LEMMA MinimalIndices ==
  ASSUME NEW T, Numbered(T), NEW B \in SUBSET SUBSET T, B # {}
  PROVE  \E s \in B : s \subseteq T /\ \A t \in B : t \subseteq s => t = s
<1>1. IsFiniteSet(T)
  <2>1. PICK n \in Nat : T \subseteq 1 .. n BY DEF Numbered
  <2>2. IsFiniteSet(1 .. n) BY FS_Interval
  <2>3. QED BY <2>1, <2>2, FS_Subset
<1>2. PICK s \in B : \A t \in B : t \subseteq s => t = s BY <1>1, MinimalSubset
<1>3. QED BY <1>2

\* Rows that agree.
Agree(f, e, U) == \A i \in U : f[i] = e[i]

\* Two solutions over rows that agree, agree.
LEMMA LeftUnique ==
  ASSUME NEW T, Numbered(T), NEW U, Numbered(U), U \subseteq T,
         NEW kind, NEW base, NEW f, NEW e, Agree(f, e, U),
         NEW g, IsLeftFold(g, kind, base, f, T),
         NEW h, IsLeftFold(h, kind, base, e, U)
  PROVE  \A s \in SUBSET U : g[s] = h[s]
<1> DEFINE B == {s \in SUBSET U : g[s] # h[s]}
<1>1. SUFFICES ASSUME B # {} PROVE FALSE OBVIOUS
<1>2. PICK s \in B : s \subseteq U /\ \A t \in B : t \subseteq s => t = s
  <2>1. B \in SUBSET SUBSET U OBVIOUS
  <2> HIDE DEF B
  <2> QED BY <1>1, <2>1, MinimalIndices
<1>3. s \in SUBSET U /\ s \in SUBSET T OBVIOUS
<1>4. /\ s = {} => g[s] = base
      /\ s # {} => Max(s) \in s /\ g[s] = Step(kind, g[s \ {Max(s)}], f[Max(s)])
  <2>1. IsLeftFold(g, kind, base, f, T) /\ Numbered(T) OBVIOUS
  <2> HIDE DEF B
  <2>2. LeftSteps(g, kind, base, f, T) BY ONLY <2>1, LeftStep
  <2>3. QED BY <1>3, <2>2 DEF LeftSteps
<1>5. /\ s = {} => h[s] = base
      /\ s # {} => Max(s) \in s /\ h[s] = Step(kind, h[s \ {Max(s)}], e[Max(s)])
  <2>1. IsLeftFold(h, kind, base, e, U) /\ Numbered(U) OBVIOUS
  <2> HIDE DEF B
  <2>2. LeftSteps(h, kind, base, e, U) BY ONLY <2>1, LeftStep
  <2>3. QED BY <1>3, <2>2 DEF LeftSteps
<1> DEFINE x == Max(s)
<1> HIDE DEF x
<1>6. s # {} BY <1>4, <1>5
<1>7. x \in s BY <1>4, <1>6 DEF x
<1>8. s \ {x} \notin B BY <1>2, <1>7
<1>9. f[x] = e[x] /\ g[s \ {x}] = h[s \ {x}] BY <1>3, <1>7, <1>8 DEF Agree
<1>10. QED BY <1>4, <1>5, <1>6, <1>9 DEF x

\* The recursion has a solution.
LEMMA LeftExists ==
  ASSUME NEW D, Numbered(D), NEW kind, NEW base, NEW f
  PROVE  \E g : IsLeftFold(g, kind, base, f, D)
<1> DEFINE B == {s \in SUBSET D : ~ \E g : IsLeftFold(g, kind, base, f, s)}
<1>1. SUFFICES ASSUME B # {} PROVE FALSE OBVIOUS
<1>2. PICK s \in B : s \subseteq D /\ \A t \in B : t \subseteq s => t = s
  <2>1. B \in SUBSET SUBSET D OBVIOUS
  <2> HIDE DEF B
  <2> QED BY <1>1, <2>1, MinimalIndices
<1> DEFINE H(t) == CHOOSE g : IsLeftFold(g, kind, base, f, t)
           V(t) == IF t = {} THEN base
                   ELSE Step(kind, H(t \ {Max(t)})[t \ {Max(t)}], f[Max(t)])
           G == [t \in SUBSET s |-> V(t)]
<1>3. ASSUME NEW t, t \subseteq s, t # s
      PROVE  Numbered(t) /\ IsLeftFold(H(t), kind, base, f, t)
  <2>1. t \notin B BY <1>2, <1>3
  <2>2. \E g : IsLeftFold(g, kind, base, f, t) BY <1>3, <2>1
  <2>3. Numbered(t) BY <1>3 DEF Numbered
  <2>4. QED BY <2>2, <2>3
<1>4. ASSUME NEW t, t \subseteq s, t # s PROVE G[t] = H(t)[t]
  <2>1. Numbered(t) /\ IsLeftFold(H(t), kind, base, f, t) BY <1>3, <1>4
  <2> DEFINE x == Max(t)
             h == H(t)
             r == t \ {x}
             k == H(r)
  <2>2. /\ t = {} => h[t] = base
        /\ t # {} => Max(t) \in t /\ h[t] = Step(kind, h[t \ {Max(t)}], f[Max(t)])
    <3> HIDE DEF h, B, G
    <3>1. t \in SUBSET t OBVIOUS
    <3>2. IsLeftFold(h, kind, base, f, t) BY <2>1 DEF h
    <3>3. LeftSteps(h, kind, base, f, t) BY ONLY <2>1, <3>2, LeftStep
    <3>4. QED BY <3>1, <3>3 DEF LeftSteps
  <2>3. CASE t = {}
    <3>1. G[t] = base BY <1>4, <2>3
    <3>2. QED BY <2>2, <2>3, <3>1
  <2>4. CASE t # {}
    <3>1. r \subseteq s /\ r # s BY <1>4, <2>2, <2>4
    <3>2. IsLeftFold(k, kind, base, f, r) /\ Numbered(r) BY <1>3, <3>1
    <3>3. h[r] = k[r]
      <4>1. r \subseteq t /\ r \in SUBSET r OBVIOUS
      <4>2. IsLeftFold(h, kind, base, f, t) /\ Agree(f, f, r) BY <2>1 DEF Agree
      <4> HIDE DEF h, k, x, r, B, G
      <4>3. \A u \in SUBSET r : h[u] = k[u]
        BY <2>1, <3>2, <4>1, <4>2, LeftUnique
      <4>4. QED BY <4>1, <4>3
    <3>4. G[t] = Step(kind, k[r], f[x]) BY <1>4, <2>4
    <3>5. h[t] = Step(kind, h[r], f[x]) BY <2>2, <2>4
    <3> HIDE DEF h, k, r, G, x
    <3>6. G[t] = h[t] BY <3>3, <3>4, <3>5
    <3>7. QED BY <3>6 DEF h
  <2>5. QED BY <2>3, <2>4
<1>5. ASSUME NEW t \in SUBSET s, t # {}
      PROVE  V(t) = Step(kind, G[t \ {Max(t)}], f[Max(t)])
  <2>1. Max(t) \in t BY <1>5, MaxOfIndices DEF Numbered
  <2>2. t \ {Max(t)} \subseteq s /\ t \ {Max(t)} # s BY <2>1
  <2>3. G[t \ {Max(t)}] = H(t \ {Max(t)})[t \ {Max(t)}] BY <1>4, <2>2
  <2> HIDE DEF H, G
  <2>4. QED BY <1>5, <2>3
<1>6. G = [t \in SUBSET s |-> IF t = {} THEN base
                              ELSE Step(kind, G[t \ {Max(t)}], f[Max(t)])]
  <2> DEFINE W(t) == IF t = {} THEN base
                     ELSE Step(kind, G[t \ {Max(t)}], f[Max(t)])
  <2>1. \A t \in SUBSET s : V(t) = W(t)
    <3>1. V({}) = base OBVIOUS
    <3> HIDE DEF V, H, G
    <3>2. QED BY <1>5, <3>1
  <2> HIDE DEF V, W
  <2>2. [t \in SUBSET s |-> V(t)] = [t \in SUBSET s |-> W(t)] BY <2>1
  <2>3. G = [t \in SUBSET s |-> W(t)] BY <2>2 DEF G
  <2> QED BY <2>3 DEF W
<1>7. IsLeftFold(G, kind, base, f, s) BY <1>6 DEF IsLeftFold
<1>8. QED BY <1>7

\* What FoldLeft computes is the value of a solution.
LEMMA ExecutionFold ==
  ASSUME NEW base, NEW f, NEW n \in Nat, DOMAIN f = 1 .. n
  PROVE  \E g : /\ IsLeftFold(g, "execution", base, f, 1 .. n)
                /\ FoldedExecutions(base, f) = g[1 .. n]
<1> DEFINE G == CHOOSE g : g = [s \in SUBSET DOMAIN f |-> IF s = {} THEN base
                  ELSE WithExecution(g[s \ {Max(s)}], f[Max(s)])]
<1>1. FoldedExecutions(base, f) = G[DOMAIN f]
  BY DEF FoldedExecutions, FoldLeft, MapThenFoldSet
<1>2. PICK h : IsLeftFold(h, "execution", base, f, 1 .. n)
  BY LeftExists DEF Numbered
<1>3. h = [s \in SUBSET DOMAIN f |-> IF s = {} THEN base
             ELSE WithExecution(h[s \ {Max(s)}], f[Max(s)])]
  BY <1>2 DEF IsLeftFold, Step
<1>4. G = [s \in SUBSET DOMAIN f |-> IF s = {} THEN base
             ELSE WithExecution(G[s \ {Max(s)}], f[Max(s)])]
  BY <1>3
<1> HIDE DEF G
<1>5. IsLeftFold(G, "execution", base, f, 1 .. n) BY <1>4 DEF IsLeftFold, Step
<1>6. QED BY <1>1, <1>5

\* The same of the log.
LEMMA LogFold ==
  ASSUME NEW base, NEW f, NEW n \in Nat, DOMAIN f = 1 .. n
  PROVE  \E g : /\ IsLeftFold(g, "log", base, f, 1 .. n)
                /\ FoldedLog(base, f) = g[1 .. n]
<1> DEFINE G == CHOOSE g : g = [s \in SUBSET DOMAIN f |-> IF s = {} THEN base
                  ELSE WithLogRow(g[s \ {Max(s)}], f[Max(s)])]
<1>1. FoldedLog(base, f) = G[DOMAIN f]
  BY DEF FoldedLog, FoldLeft, MapThenFoldSet
<1>2. PICK h : IsLeftFold(h, "log", base, f, 1 .. n)
  BY LeftExists DEF Numbered
<1>3. h = [s \in SUBSET DOMAIN f |-> IF s = {} THEN base
             ELSE WithLogRow(h[s \ {Max(s)}], f[Max(s)])]
  BY <1>2 DEF IsLeftFold, Step
<1>4. G = [s \in SUBSET DOMAIN f |-> IF s = {} THEN base
             ELSE WithLogRow(G[s \ {Max(s)}], f[Max(s)])]
  BY <1>3
<1> HIDE DEF G
<1>5. IsLeftFold(G, "log", base, f, 1 .. n) BY <1>4 DEF IsLeftFold, Step
<1>6. QED BY <1>1, <1>5

\* A solution over one row more takes that row last.
LEMMA LeftAppend ==
  ASSUME NEW n \in Nat, NEW kind, NEW base, NEW f, NEW e,
         \A i \in 1 .. n : e[i] = f[i],
         NEW g, IsLeftFold(g, kind, base, f, 1 .. n),
         NEW h, IsLeftFold(h, kind, base, e, 1 .. n + 1)
  PROVE  h[1 .. n + 1] = Step(kind, g[1 .. n], e[n + 1])
<1> DEFINE m == n + 1
           T == 1 .. m
           U == 1 .. n
<1>1. m \in Nat /\ T # {} /\ m \in T /\ T \ {m} = U /\ U \subseteq T OBVIOUS
<1>2. Numbered(T) /\ Numbered(U) BY <1>1 DEF Numbered
<1>3. Max(T) = m
  <2>1. Max(T) \in T /\ Max(T) >= m BY <1>1, MaxOfIndices
  <2>2. QED BY <2>1
<1>4. T \in SUBSET T /\ U \in SUBSET U OBVIOUS
<1>5. IsLeftFold(h, kind, base, e, T) /\ IsLeftFold(g, kind, base, f, U)
      /\ Agree(e, f, U)
  BY DEF Agree
<1> HIDE DEF T, U, m
<1>6. LeftSteps(h, kind, base, e, T) BY ONLY <1>2, <1>5, LeftStep
<1>7. h[T] = Step(kind, h[T \ {Max(T)}], e[Max(T)])
  BY ONLY <1>1, <1>4, <1>6 DEF LeftSteps
<1>8. \A s \in SUBSET U : h[s] = g[s]
  <2>1. U \subseteq T BY <1>1
  <2>2. QED BY ONLY <1>2, <1>5, <2>1, LeftUnique
<1>9. h[U] = g[U] BY <1>4, <1>8
<1>10. h[T] = Step(kind, g[U], e[m]) BY <1>1, <1>3, <1>7, <1>9
<1>11. QED BY <1>10 DEF T, U, m

\* The fold of executions, row by row.
LEMMA ExecutionsFold ==
  ASSUME NEW base, NEW S, NEW f \in Seq(S), NEW row \in S
  PROVE  /\ FoldedExecutions(base, <<>>) = base
         /\ FoldedExecutions(base, Append(f, row))
              = WithExecution(FoldedExecutions(base, f), row)
<1> DEFINE n == Len(f)
           e == Append(f, row)
<1>1. n \in Nat /\ DOMAIN f = 1 .. n /\ DOMAIN e = 1 .. n + 1 /\ e[n + 1] = row
      /\ \A i \in 1 .. n : e[i] = f[i]
  OBVIOUS
<1> HIDE DEF n, e
<1>2. PICK g : /\ IsLeftFold(g, "execution", base, f, 1 .. n)
               /\ FoldedExecutions(base, f) = g[1 .. n]
  BY <1>1, ExecutionFold
<1>3. PICK h : /\ IsLeftFold(h, "execution", base, e, 1 .. n + 1)
               /\ FoldedExecutions(base, e) = h[1 .. n + 1]
  <2>1. n + 1 \in Nat BY <1>1
  <2>2. QED BY <1>1, <2>1, ExecutionFold
<1>4. h[1 .. n + 1] = Step("execution", g[1 .. n], e[n + 1])
  BY <1>1, <1>2, <1>3, LeftAppend
<1>5. FoldedExecutions(base, e) = WithExecution(FoldedExecutions(base, f), row)
  BY <1>1, <1>2, <1>3, <1>4 DEF Step
<1>6. FoldedExecutions(base, <<>>) = base
  <2> DEFINE none == <<>>
  <2>1. DOMAIN none = 1 .. 0 /\ 0 \in Nat /\ 1 .. 0 = {} OBVIOUS
  <2> HIDE DEF none
  <2>2. PICK k : /\ IsLeftFold(k, "execution", base, none, 1 .. 0)
                 /\ FoldedExecutions(base, none) = k[1 .. 0]
    BY <2>1, ExecutionFold
  <2>3. k[1 .. 0] = base BY <2>1, <2>2 DEF IsLeftFold
  <2>4. QED BY <2>2, <2>3 DEF none
<1>7. QED BY <1>5, <1>6 DEF e

\* The same of the log.
LEMMA LogsFold ==
  ASSUME NEW base, NEW S, NEW f \in Seq(S), NEW row \in S
  PROVE  /\ FoldedLog(base, <<>>) = base
         /\ FoldedLog(base, Append(f, row))
              = WithLogRow(FoldedLog(base, f), row)
<1> DEFINE n == Len(f)
           e == Append(f, row)
<1>1. n \in Nat /\ DOMAIN f = 1 .. n /\ DOMAIN e = 1 .. n + 1 /\ e[n + 1] = row
      /\ \A i \in 1 .. n : e[i] = f[i]
  OBVIOUS
<1> HIDE DEF n, e
<1>2. PICK g : /\ IsLeftFold(g, "log", base, f, 1 .. n)
               /\ FoldedLog(base, f) = g[1 .. n]
  BY <1>1, LogFold
<1>3. PICK h : /\ IsLeftFold(h, "log", base, e, 1 .. n + 1)
               /\ FoldedLog(base, e) = h[1 .. n + 1]
  <2>1. n + 1 \in Nat BY <1>1
  <2>2. QED BY <1>1, <2>1, LogFold
<1>4. h[1 .. n + 1] = Step("log", g[1 .. n], e[n + 1])
  BY <1>1, <1>2, <1>3, LeftAppend
<1>5. FoldedLog(base, e) = WithLogRow(FoldedLog(base, f), row)
  BY <1>1, <1>2, <1>3, <1>4 DEF Step
<1>6. FoldedLog(base, <<>>) = base
  <2> DEFINE none == <<>>
  <2>1. DOMAIN none = 1 .. 0 /\ 0 \in Nat /\ 1 .. 0 = {} OBVIOUS
  <2> HIDE DEF none
  <2>2. PICK k : /\ IsLeftFold(k, "log", base, none, 1 .. 0)
                 /\ FoldedLog(base, none) = k[1 .. 0]
    BY <2>1, LogFold
  <2>3. k[1 .. 0] = base BY <2>1, <2>2 DEF IsLeftFold
  <2>4. QED BY <2>2, <2>3 DEF none
<1>7. QED BY <1>5, <1>6 DEF e

-----------------------------------------------------------------------------
(* What a fill, a close and a mark do to the figures of the ledger *)

\* A mark leaves the ledger's figures alone.
LEMMA MarkKeeps ==
  ASSUME NEW b \in Books, NEW c, NEW p, NEW t
  PROVE  LET m == Mark(b, c, p, t) IN
         /\ m.gross = b.gross /\ m.fees = b.fees /\ m.entryFees = b.entryFees
         /\ m.exitFees = b.exitFees /\ m.openFees = b.openFees /\ m.net = b.net
         /\ m.funding = b.funding
<1> DEFINE equity == Equity(b, c, p)
           recovered == equity >= b.peak /\ b.underwater # Never
           u == MaxOf(b.peak, equity)
           v == IF recovered THEN Append(b.recoveries, t - b.underwater) ELSE b.recoveries
           w == IF equity >= b.peak THEN Never
                ELSE IF b.underwater = Never THEN t ELSE b.underwater
           x == MaxOf(b.drawdown, MaxOf(b.peak, equity) - equity)
           y == MinOf(b.worst, Unrealized(b, c, p))
           a == [b EXCEPT !.peak = u, !.recoveries = v, !.underwater = w,
                          !.drawdown = x, !.worst = y]
           m == Mark(b, c, p, t)
<1>1. m = AtRisk(a, c, p) BY DEF Mark
<1> HIDE DEF equity, recovered, u, v, w, x, y, m
<1>2. DOMAIN b = Figures \union {"recoveries"} BY DEF Books
<1>3. /\ a.gross = b.gross /\ a.fees = b.fees /\ a.entryFees = b.entryFees
      /\ a.exitFees = b.exitFees /\ a.openFees = b.openFees /\ a.net = b.net
      /\ a.funding = b.funding /\ DOMAIN a = DOMAIN b
  BY <1>2 DEF Figures
<1> HIDE DEF a
<1> DEFINE q == MaxOf(a.notional, p * TotalQty(c))
           r == MaxOf(a.maxNotional, p * TotalQty(c))
           e == MaxOf(a.adverse, -Gross(c, p))
           f == MaxOf(a.favorable, Gross(c, p))
           k == [a EXCEPT !.notional = q, !.maxNotional = r, !.adverse = e,
                          !.favorable = f]
<1>4. m = a \/ m = k BY <1>1 DEF AtRisk
<1> HIDE DEF q, r, e, f
<1>5. /\ k.gross = a.gross /\ k.fees = a.fees /\ k.entryFees = a.entryFees
      /\ k.exitFees = a.exitFees /\ k.openFees = a.openFees /\ k.net = a.net
      /\ k.funding = a.funding
  BY <1>2, <1>3 DEF Figures
<1> HIDE DEF k
<1>6. QED BY <1>3, <1>4, <1>5 DEF m

\* A fill pays its fee.
LEMMA BoughtPays ==
  ASSUME NEW b \in Books, NEW c
  PROVE  \A m \in {Bought(b, c), Opened(b, c)} :
         LET fee == Fee(c.fills[Len(c.fills)].cost) IN
         /\ m.gross = b.gross /\ m.fees = b.fees /\ m.net = b.net
         /\ m.exitFees = b.exitFees /\ m.funding = b.funding
         /\ m.entryFees = b.entryFees + fee /\ m.openFees = b.openFees + fee
<1> DEFINE cost == c.fills[Len(c.fills)].cost
           u == b.openFees + Fee(cost)  v == b.entryFees + Fee(cost)
           w == b.deployed + cost  x == MaxOf(b.maxDeployed, b.deployed + cost)
           y == MaxOf(b.maxLevel, DcaLevel(c))
           a == [b EXCEPT !.openFees = u, !.entryFees = v, !.deployed = w,
                          !.maxDeployed = x, !.maxLevel = y]
           k == [a EXCEPT !.notional = 0, !.adverse = 0, !.favorable = 0]
<1>1. Bought(b, c) = a /\ Opened(b, c) = k BY DEF Bought, Opened
<1>2. DOMAIN b = Figures \union {"recoveries"} BY DEF Books
<1> HIDE DEF w, x, y
<1>3. /\ a.gross = b.gross /\ a.fees = b.fees /\ a.net = b.net
      /\ a.exitFees = b.exitFees /\ a.funding = b.funding
      /\ a.entryFees = v /\ a.openFees = u /\ DOMAIN a = DOMAIN b
  <2> HIDE DEF u, v
  <2>1. QED BY <1>2 DEF Figures
<1> HIDE DEF a
<1>4. /\ k.gross = a.gross /\ k.fees = a.fees /\ k.net = a.net
      /\ k.exitFees = a.exitFees /\ k.funding = a.funding
      /\ k.entryFees = a.entryFees /\ k.openFees = a.openFees
  BY <1>2, <1>3 DEF Figures
<1> HIDE DEF k
<1>5. QED BY <1>1, <1>3, <1>4

\* A close realizes the gross result and pays the fees of the whole cycle.
LEMMA ClosedPays ==
  ASSUME NEW b \in Books, NEW c, NEW p
  PROVE  LET m == Closed(b, c, p)
             paid == ExitFee(c, p) IN
         /\ m.gross = b.gross + Gross(c, p) /\ m.fees = b.fees + b.openFees + paid
         /\ m.net = b.net + (Gross(c, p) - b.openFees - paid)
         /\ m.exitFees = b.exitFees + paid /\ m.entryFees = b.entryFees
         /\ m.openFees = 0 /\ m.funding = b.funding
<1> DEFINE g == Gross(c, p)  e == ExitFee(c, p)
           net == g - b.openFees - e
           u == b.gross + g  v == b.fees + b.openFees + e  w == b.exitFees + e
           x == b.net + net  y == MaxOf(b.peak, b.net + net - b.funding)
           m == [b EXCEPT !.gross = u, !.fees = v, !.exitFees = w, !.net = x,
                          !.peak = y, !.openFees = 0, !.deployed = 0]
<1>1. Closed(b, c, p) = m BY DEF Closed
<1>2. DOMAIN b = Figures \union {"recoveries"} BY DEF Books
<1>3. /\ m.gross = u /\ m.fees = v /\ m.exitFees = w /\ m.net = x
      /\ m.entryFees = b.entryFees /\ m.openFees = 0 /\ m.funding = b.funding
  <2> HIDE DEF u, v, w, x, y
  <2>1. QED BY <1>2 DEF Figures
<1> HIDE DEF m
<1>4. QED BY <1>1, <1>3

-----------------------------------------------------------------------------
(* Buckets *)

\* The fields of a bucket, and buckets.
Fields == {"realized", "entry", "dca", "close", "other_bot", "funding", "rebates",
           "unattributed", "buys", "sells", "strangers"}

Buckets == [Fields -> Int]

\* A bucket as it is made.
LEMMA EmptyTyped == Empty \in Buckets /\ DOMAIN Empty = Fields
                    /\ \A f \in Fields : Empty[f] = 0
<1>1. DOMAIN Empty = Fields BY DEF Empty, Fields
<1>2. \A f \in Fields : Empty[f] = 0 BY DEF Empty, Fields
<1>3. Empty = [f \in DOMAIN Empty |-> Empty[f]] BY DEF Empty
<1>4. QED BY <1>1, <1>2, <1>3 DEF Buckets

\* The bucket of a symbol after another has been written.
LEMMA OfWith ==
  ASSUME NEW a, NEW s, NEW e, NEW t
  PROVE  Of(With(a, s, e), t) = IF t = s THEN e ELSE Of(a, t)
BY DEF Of, With

\* A bucket after one of its fields has changed.
LEMMA BucketExcept ==
  ASSUME NEW e \in Buckets, NEW f \in Fields, NEW x \in Int
  PROVE  /\ [e EXCEPT ![f] = x] \in Buckets
         /\ \A g \in Fields : [e EXCEPT ![f] = x][g] = IF g = f THEN x ELSE e[g]
<1> DEFINE F == Fields
<1>1. e \in [F -> Int] /\ f \in F BY DEF Buckets
<1> HIDE DEF F
<1>2. [e EXCEPT ![f] = x] \in [F -> Int] BY <1>1
<1>3. \A g \in F : [e EXCEPT ![f] = x][g] = IF g = f THEN x ELSE e[g] BY <1>1
<1>4. QED BY <1>2, <1>3 DEF Buckets, F

\* What an execution does to a bucket.
LEMMA BookEffect ==
  ASSUME NEW e \in Buckets, NEW row, row.fee \in Int, row.realized \in Int
  PROVE  LET r == Role(row.link)
             k == Book(e, row) IN
         /\ k \in Buckets
         /\ k.funding = e.funding
         /\ r = "unattributed" =>
              /\ k.unattributed = e.unattributed + row.realized - row.fee
              /\ \A f \in Fields \ {"unattributed", "strangers"} : k[f] = e[f]
         /\ r # "unattributed" =>
              /\ r \in FeeRoles /\ k.unattributed = e.unattributed
              /\ k.realized = e.realized + row.realized
              /\ k.rebates = IF row.fee < 0 THEN e.rebates - row.fee ELSE e.rebates
              /\ \A f \in FeeRoles :
                   k[f] = IF f = r /\ ~(row.fee < 0) THEN e[f] + row.fee ELSE e[f]
<1> DEFINE r == Role(row.link)
           k == Book(e, row)
<1>1. \A f \in Fields : e[f] \in Int BY DEF Buckets
<1>2. r \in FeeRoles \union {"unattributed"} BY DEF Role, FeeRoles
<1>3. CASE r = "unattributed"
  <2> DEFINE x == e.unattributed + row.realized - row.fee
             y == e.strangers + 1
             a1 == [e EXCEPT !.unattributed = x]
             a2 == [a1 EXCEPT !.strangers = y]
  <2>1. x \in Int /\ y \in Int BY <1>1 DEF Fields
  <2>2. k = a2 BY <1>3 DEF Book
  <2> HIDE DEF x, y, k
  <2>3. /\ a1 \in Buckets
        /\ \A g \in Fields : a1[g] = IF g = "unattributed" THEN x ELSE e[g]
    BY <2>1, BucketExcept DEF Fields
  <2> HIDE DEF a1
  <2>4. /\ a2 \in Buckets
        /\ \A g \in Fields : a2[g] = IF g = "strangers" THEN y ELSE a1[g]
    BY <2>1, <2>3, BucketExcept DEF Fields
  <2> HIDE DEF a2
  <2>5. /\ k \in Buckets /\ k.unattributed = x /\ k.funding = e.funding
        /\ \A f \in Fields \ {"unattributed", "strangers"} : k[f] = e[f]
    BY <2>2, <2>3, <2>4 DEF Fields
  <2>6. QED BY <1>3, <2>5 DEF k, x
<1>4. CASE r # "unattributed"
  <2> DEFINE x == e.realized + row.realized
             u == IF row.side = "Buy" THEN e.buys + 1 ELSE e.buys
             v == IF row.side = "Sell" THEN e.sells + 1 ELSE e.sells
             w == IF row.fee < 0 THEN e.rebates - row.fee ELSE e.rebates
             z == IF row.fee < 0 THEN e[r] ELSE e[r] + row.fee
             a1 == [e EXCEPT !.realized = x]
             a2 == [a1 EXCEPT !.buys = u]
             a3 == [a2 EXCEPT !.sells = v]
             a4 == [a3 EXCEPT !.rebates = w]
             a5 == [a4 EXCEPT ![r] = z]
  <2>1. r \in FeeRoles /\ r \in Fields BY <1>2, <1>4 DEF FeeRoles, Fields
  <2>2. x \in Int /\ u \in Int /\ v \in Int /\ w \in Int /\ z \in Int
    BY <1>1, <2>1 DEF Fields
  <2>3. k = a5
    <3>1. Fields = DOMAIN e BY DEF Buckets
    <3>2. r \notin {"realized", "buys", "sells", "rebates"} BY <2>1 DEF FeeRoles
    <3>3. k = [e EXCEPT
          !.realized = @ + row.realized,
          !.buys = IF row.side = "Buy" THEN @ + 1 ELSE @,
          !.sells = IF row.side = "Sell" THEN @ + 1 ELSE @,
          !.rebates = IF row.fee < 0 THEN @ - row.fee ELSE @,
          ![r] = IF row.fee < 0 THEN @ ELSE @ + row.fee]
      BY <1>4 DEF Book
    <3> HIDE DEF r, k
    <3>4. QED BY <3>1, <3>2, <3>3, <2>1 DEF Fields, FeeRoles
  <2> HIDE DEF x, u, v, w, z, k, r
  <2>4. /\ a1 \in Buckets
        /\ \A g \in Fields : a1[g] = IF g = "realized" THEN x ELSE e[g]
    BY <2>2, BucketExcept DEF Fields
  <2> HIDE DEF a1
  <2>5. /\ a2 \in Buckets
        /\ \A g \in Fields : a2[g] = IF g = "buys" THEN u ELSE a1[g]
    BY <2>2, <2>4, BucketExcept DEF Fields
  <2> HIDE DEF a2
  <2>6. /\ a3 \in Buckets
        /\ \A g \in Fields : a3[g] = IF g = "sells" THEN v ELSE a2[g]
    BY <2>2, <2>5, BucketExcept DEF Fields
  <2> HIDE DEF a3
  <2>7. /\ a4 \in Buckets
        /\ \A g \in Fields : a4[g] = IF g = "rebates" THEN w ELSE a3[g]
    BY <2>2, <2>6, BucketExcept DEF Fields
  <2> HIDE DEF a4
  <2>8. /\ a5 \in Buckets
        /\ \A g \in Fields : a5[g] = IF g = r THEN z ELSE a4[g]
    BY <2>1, <2>2, <2>7, BucketExcept
  <2> HIDE DEF a5
  <2>9. /\ k \in Buckets /\ k.unattributed = e.unattributed /\ k.funding = e.funding
        /\ k.realized = x /\ k.rebates = w
        /\ \A f \in FeeRoles : k[f] = IF f = r THEN z ELSE e[f]
    BY <2>1, <2>3, <2>4, <2>5, <2>6, <2>7, <2>8 DEF Fields, FeeRoles
  <2>10. QED BY <1>4, <2>1, <2>9 DEF k, x, w, z, r
<1>5. QED BY <1>3, <1>4

-----------------------------------------------------------------------------
(* The ledger of the strategy's symbol *)

\* The bucket of the engine's symbol.
HypeOf(a) == Of(a, "HYPEUSDT")

\* The executions, folded.
Executed == FoldedExecutions([s \in Tracked |-> Empty], rows)

\* What a bucket has of the executions of a book.
Mirrors(h, b) ==
  /\ h \in Buckets
  /\ h.realized = b.gross /\ h.close = b.exitFees /\ h.entry + h.dca = b.entryFees
  /\ h.other_bot = 0 /\ h.rebates = 0 /\ h.funding = 0

\* What the log makes of a bucket.
Charged(h, k, funding) ==
  /\ k \in Buckets
  /\ \A f \in Fields \ {"funding", "unattributed"} : k[f] = h[f]
  /\ k.funding = h.funding - funding

\* Whatever buckets it starts from, the log charges the engine's symbol what the
\* engine has paid of funding.
LogOK ==
  \A a : HypeOf(a) \in Buckets =>
    Charged(HypeOf(a), HypeOf(FoldedLog(a, log)), book.funding)

\* The engine's fees are those of its fills, and its net result is what is left.
FeesOK ==
  /\ book.fees + book.openFees = book.entryFees + book.exitFees
  /\ book.net = book.gross - book.fees

\* A fill of the ladder, in the bucket and in the book.
LEMMA MirrorsFill ==
  ASSUME NEW a, NEW b \in Books, Mirrors(HypeOf(a), b),
         NEW link \in {"botdca-open-", "botdca-dca-"}, NEW cost \in Nat,
         NEW c, c.gross = b.gross, c.exitFees = b.exitFees,
         c.entryFees = b.entryFees + Fee(cost)
  PROVE  Mirrors(HypeOf(WithExecution(a, Execution(link, "Buy", cost, 0))), c)
<1> DEFINE row == Execution(link, "Buy", cost, 0)
           e == HypeOf(a)
           k == Book(e, row)
<1>1. /\ row.symbol = "HYPEUSDT" /\ row.link = link /\ row.fee = Fee(cost)
      /\ row.realized = 0
  BY DEF Execution
<1>2. Fee(cost) \in Nat
  <2>1. FeeRate \in Nat BY ReplayAssumption
  <2>2. QED BY <2>1 DEF Fee
<1>3. Role(link) \in {"entry", "dca"} BY DEF Role
<1> HIDE DEF row
<1>4. HypeOf(WithExecution(a, row)) = k
  BY <1>1, OfWith DEF HypeOf, WithExecution, NoSymbol
<1>5. e \in Buckets BY DEF Mirrors
<1>6. row.fee \in Int /\ row.realized \in Int /\ ~(row.fee < 0) BY <1>1, <1>2
<1> HIDE DEF e, k
<1>7. /\ k \in Buckets /\ k.funding = e.funding
      /\ k.realized = e.realized + row.realized /\ k.rebates = e.rebates
      /\ \A f \in FeeRoles :
           k[f] = IF f = Role(link) THEN e[f] + row.fee ELSE e[f]
  BY <1>1, <1>3, <1>5, <1>6, BookEffect DEF k
<1>8. /\ e.realized \in Int /\ e.entry \in Int /\ e.dca \in Int
  BY <1>5 DEF Buckets, Fields
<1>9. /\ k.realized = e.realized /\ k.close = e.close /\ k.other_bot = e.other_bot
      /\ k.entry + k.dca = e.entry + e.dca + Fee(cost)
  BY <1>1, <1>2, <1>3, <1>7, <1>8 DEF FeeRoles
<1>10. b.entryFees \in Int BY BookFields
<1>11. Mirrors(k, c) BY <1>7, <1>8, <1>9, <1>10 DEF Mirrors, e
<1>12. QED BY <1>4, <1>11 DEF row

\* A close of the ladder.
LEMMA MirrorsClose ==
  ASSUME NEW a, NEW b \in Books, Mirrors(HypeOf(a), b), NEW cost \in Nat,
         NEW gross \in Int,
         NEW c, c.gross = b.gross + gross, c.exitFees = b.exitFees + Fee(cost),
         c.entryFees = b.entryFees
  PROVE  Mirrors(HypeOf(WithExecution(a, Execution("botdca-tp-", "Sell", cost, gross))), c)
<1> DEFINE row == Execution("botdca-tp-", "Sell", cost, gross)
           e == HypeOf(a)
           k == Book(e, row)
<1>1. /\ row.symbol = "HYPEUSDT" /\ Role(row.link) = "close" /\ row.fee = Fee(cost)
      /\ row.realized = gross
  BY DEF Execution, Role
<1>2. Fee(cost) \in Nat
  <2>1. FeeRate \in Nat BY ReplayAssumption
  <2>2. QED BY <2>1 DEF Fee
<1> HIDE DEF row
<1>4. HypeOf(WithExecution(a, row)) = k
  BY <1>1, OfWith DEF HypeOf, WithExecution, NoSymbol
<1>5. e \in Buckets BY DEF Mirrors
<1>6. row.fee \in Int /\ row.realized \in Int /\ ~(row.fee < 0) BY <1>1, <1>2
<1> HIDE DEF e, k
<1>7. /\ k \in Buckets /\ k.funding = e.funding
      /\ k.realized = e.realized + row.realized /\ k.rebates = e.rebates
      /\ \A f \in FeeRoles :
           k[f] = IF f = "close" THEN e[f] + row.fee ELSE e[f]
  BY <1>1, <1>5, <1>6, BookEffect DEF k
<1>9. /\ k.realized = e.realized + gross /\ k.close = e.close + Fee(cost)
      /\ k.other_bot = e.other_bot /\ k.entry = e.entry /\ k.dca = e.dca
  BY <1>1, <1>7 DEF FeeRoles
<1>11. Mirrors(k, c) BY <1>7, <1>9 DEF Mirrors, e
<1>12. QED BY <1>4, <1>11 DEF row

\* An execution that is not the ladder's leaves the mirror as it is.
LEMMA MirrorsForeign ==
  ASSUME NEW a, NEW b, Mirrors(HypeOf(a), b), NEW row \in ForeignExecutions
  PROVE  Mirrors(HypeOf(WithExecution(a, row)), b)
<1> DEFINE e == HypeOf(a)
           k == Book(e, row)
<1>1. e \in Buckets BY DEF Mirrors
<1>2. row.fee \in Int /\ row.realized \in Int
  <2>1. row \in [symbol : STRING, link : STRING, side : STRING, fee : Int,
                 realized : Int]
    BY ReplayAssumption
  <2>2. QED BY <2>1
<1>3. CASE row.symbol = "HYPEUSDT"
  <2>1. Role(row.link) = "unattributed" BY <1>3, ReplayAssumption
  <2>2. HypeOf(WithExecution(a, row)) = k
    BY <1>3, OfWith DEF HypeOf, WithExecution, NoSymbol
  <2> HIDE DEF e, k
  <2>3. /\ k \in Buckets
        /\ \A f \in Fields \ {"unattributed", "strangers"} : k[f] = e[f]
    BY <1>1, <1>2, <2>1, BookEffect DEF k
  <2>4. Mirrors(k, b) BY <2>3 DEF Mirrors, Fields, e
  <2>5. QED BY <2>2, <2>4
<1>4. CASE row.symbol # "HYPEUSDT"
  <2>1. HypeOf(WithExecution(a, row)) = HypeOf(a)
    BY <1>4, OfWith DEF HypeOf, WithExecution
  <2>2. QED BY <2>1
<1>5. QED BY <1>3, <1>4

\* A funding payment of the engine's, in the log and in the book.
LEMMA ChargedOwn ==
  ASSUME NEW h, NEW a, NEW funding \in Int, NEW paid \in Int, h \in Buckets,
         Charged(h, HypeOf(a), funding)
  PROVE  Charged(h, HypeOf(WithLogRow(a, [symbol |-> "HYPEUSDT", type |-> "SETTLEMENT",
                                          cash |-> -paid])), funding + paid)
<1> DEFINE row == [symbol |-> "HYPEUSDT", type |-> "SETTLEMENT", cash |-> -paid]
           e == HypeOf(a)
           x == e.funding - paid
           k == [e EXCEPT !.funding = x]
<1>1. "HYPEUSDT" \in Tracked BY ReplayAssumption
<1>2. /\ row.symbol = "HYPEUSDT" /\ row.type \in FundingTypes /\ Owner(row) = "HYPEUSDT"
      /\ row.cash = -paid /\ row.type \notin NonStrategyTypes
  BY DEF FundingTypes, NonStrategyTypes, Owner, NoSymbol
<1> HIDE DEF row
<1>3. e \in Buckets /\ e.funding = h.funding - funding /\ e.funding \in Int
      /\ h.funding \in Int
  BY DEF Charged, Buckets, Fields
<1>4. HypeOf(WithLogRow(a, row)) = [e EXCEPT !.funding = @ + row.cash]
  <2>1. WithLogRow(a, row) = With(a, "HYPEUSDT", [e EXCEPT !.funding = @ + row.cash])
    BY <1>1, <1>2 DEF WithLogRow, HypeOf
  <2>2. QED BY <2>1, OfWith DEF HypeOf
<1> HIDE DEF e
<1>5. e.funding + row.cash = x BY <1>2, <1>3
<1>6. HypeOf(WithLogRow(a, row)) = k BY <1>4, <1>5
<1>7. x \in Int /\ x = h.funding - (funding + paid) BY <1>3
<1> HIDE DEF x
<1>8. /\ k \in Buckets
      /\ \A g \in Fields : k[g] = IF g = "funding" THEN x ELSE e[g]
  BY <1>3, <1>7, BucketExcept DEF Fields
<1> HIDE DEF k
<1>9. Charged(h, k, funding + paid)
  BY <1>7, <1>8 DEF Charged, Fields, e
<1>10. QED BY <1>6, <1>9 DEF row

\* Rows of the log that are not the engine's.
LEMMA ChargedForeign ==
  ASSUME NEW h, NEW a, NEW funding, Charged(h, HypeOf(a), funding), NEW row \in LogRows
  PROVE  Charged(h, HypeOf(WithLogRow(a, row)), funding)
<1> DEFINE e == HypeOf(a)
           x == e.unattributed + row.cash
           k == [e EXCEPT !.unattributed = x]
<1>1. row.cash \in Int
  <2>1. row \in [symbol : STRING, type : STRING, cash : Int] BY ReplayAssumption
  <2>2. QED BY <2>1
<1>2. e \in Buckets BY DEF Charged
<1>3. CASE row.symbol # "HYPEUSDT"
  <2>1. Owner(row) # "HYPEUSDT" BY <1>3 DEF Owner, Unknown
  <2>2. HypeOf(WithLogRow(a, row)) = e BY <2>1, OfWith DEF WithLogRow, HypeOf
  <2>3. QED BY <2>2
<1>4. CASE row.symbol = "HYPEUSDT" /\ row.type \in NonStrategyTypes
  <2>1. row.type \notin FundingTypes BY <1>4, ReplayAssumption
  <2>2. Owner(row) = "HYPEUSDT" BY <1>4 DEF Owner, NoSymbol
  <2>3. HypeOf(WithLogRow(a, row)) = k
    BY <1>4, <2>1, <2>2, OfWith DEF WithLogRow, HypeOf
  <2>4. x \in Int BY <1>1, <1>2 DEF Buckets, Fields
  <2> HIDE DEF e, x
  <2>5. /\ k \in Buckets
        /\ \A g \in Fields : k[g] = IF g = "unattributed" THEN x ELSE e[g]
    BY <1>2, <2>4, BucketExcept DEF Fields
  <2> HIDE DEF k
  <2>6. Charged(h, k, funding) BY <2>5 DEF Charged, Fields, e
  <2>7. QED BY <2>3, <2>6
<1>5. CASE row.symbol = "HYPEUSDT" /\ row.type \notin NonStrategyTypes
  <2>1. row.type \notin FundingTypes BY <1>5, ReplayAssumption
  <2>2. WithLogRow(a, row) = a BY <1>5, <2>1 DEF WithLogRow
  <2>3. QED BY <2>2
<1>6. QED BY <1>3, <1>4, <1>5

-----------------------------------------------------------------------------
(* The ledger, step by step *)

\* The results of closed cycles.
GrossOf(cycles) == [i \in DOMAIN cycles |-> cycles[i].gross]
NetOf(cycles) == [i \in DOMAIN cycles |-> cycles[i].net]

\* The sums over the closed cycles are sums of functions.
LEMMA GrossIsSum ==
  ASSUME NEW cycles, IsFiniteSet(DOMAIN cycles)
  PROVE  MapThenSumSet(LAMBDA i : cycles[i].gross, DOMAIN cycles)
           = SumFunction(GrossOf(cycles))
<1> DEFINE D == DOMAIN cycles
           f == GrossOf(cycles)
           G == CHOOSE g : g = [s \in SUBSET D |-> IF s = {} THEN 0
                  ELSE cycles[CHOOSE x \in s : TRUE].gross
                         + g[s \ {CHOOSE x \in s : TRUE}]]
<1>1. DOMAIN f = D /\ \A x \in D : f[x] = cycles[x].gross BY DEF GrossOf
<1>2. MapThenSumSet(LAMBDA i : cycles[i].gross, D) = G[D]
  BY DEF MapThenSumSet, MapThenFoldSet
<1>3. PICK h : IsFold(h, f, D) BY <1>1, FoldExists
<1> HIDE DEF f
<1>4. h = [s \in SUBSET D |-> IF s = {} THEN 0
             ELSE cycles[CHOOSE x \in s : TRUE].gross
                    + h[s \ {CHOOSE x \in s : TRUE}]]
  BY <1>1, <1>3 DEF IsFold
<1>5. G = [s \in SUBSET D |-> IF s = {} THEN 0
             ELSE cycles[CHOOSE x \in s : TRUE].gross
                    + G[s \ {CHOOSE x \in s : TRUE}]]
  BY <1>4
<1> HIDE DEF G
<1>6. IsFold(G, f, D) BY <1>1, <1>5 DEF IsFold
<1>7. SumFunction(f) = G[D] BY <1>1, <1>6, SumOfFold
<1>8. QED BY <1>2, <1>7 DEF f

\* The same of the net results.
LEMMA NetIsSum ==
  ASSUME NEW cycles, IsFiniteSet(DOMAIN cycles)
  PROVE  MapThenSumSet(LAMBDA i : cycles[i].net, DOMAIN cycles)
           = SumFunction(NetOf(cycles))
<1> DEFINE D == DOMAIN cycles
           f == NetOf(cycles)
           G == CHOOSE g : g = [s \in SUBSET D |-> IF s = {} THEN 0
                  ELSE cycles[CHOOSE x \in s : TRUE].net
                         + g[s \ {CHOOSE x \in s : TRUE}]]
<1>1. DOMAIN f = D /\ \A x \in D : f[x] = cycles[x].net BY DEF NetOf
<1>2. MapThenSumSet(LAMBDA i : cycles[i].net, D) = G[D]
  BY DEF MapThenSumSet, MapThenFoldSet
<1>3. PICK h : IsFold(h, f, D) BY <1>1, FoldExists
<1> HIDE DEF f
<1>4. h = [s \in SUBSET D |-> IF s = {} THEN 0
             ELSE cycles[CHOOSE x \in s : TRUE].net
                    + h[s \ {CHOOSE x \in s : TRUE}]]
  BY <1>1, <1>3 DEF IsFold
<1>5. G = [s \in SUBSET D |-> IF s = {} THEN 0
             ELSE cycles[CHOOSE x \in s : TRUE].net
                    + G[s \ {CHOOSE x \in s : TRUE}]]
  BY <1>4
<1> HIDE DEF G
<1>6. IsFold(G, f, D) BY <1>1, <1>5 DEF IsFold
<1>7. SumFunction(f) = G[D] BY <1>1, <1>6, SumOfFold
<1>8. QED BY <1>2, <1>7 DEF f

\* One more cycle adds its results; none has none.
LEMMA ResultsAppend ==
  ASSUME NEW cycles \in Seq(Cycles), NEW e \in Cycles
  PROVE  /\ SumFunction(GrossOf(Append(cycles, e)))
              = SumFunction(GrossOf(cycles)) + e.gross
         /\ SumFunction(NetOf(Append(cycles, e)))
              = SumFunction(NetOf(cycles)) + e.net
<1> DEFINE n == Len(cycles)
           more == Append(cycles, e)
           f == GrossOf(more)
           q == NetOf(more)
<1>1. n \in Nat /\ DOMAIN cycles = 1 .. n /\ DOMAIN more = 1 .. n + 1
  OBVIOUS
<1>2. \A i \in 1 .. n + 1 : more[i] \in Cycles
                             /\ more[i] = IF i = n + 1 THEN e ELSE cycles[i]
  OBVIOUS
<1> HIDE DEF more, n
<1>3. f \in [1 .. n + 1 -> Int] /\ q \in [1 .. n + 1 -> Int]
  BY <1>1, <1>2 DEF GrossOf, NetOf, Cycles
<1>4. /\ [i \in 1 .. n |-> f[i]] = GrossOf(cycles) /\ f[n + 1] = e.gross
      /\ [i \in 1 .. n |-> q[i]] = NetOf(cycles) /\ q[n + 1] = e.net
  BY <1>1, <1>2 DEF GrossOf, NetOf
<1> HIDE DEF f, q
<1>5. SumFunction(f) = SumFunction([i \in 1 .. n |-> f[i]]) + f[n + 1]
  BY <1>1, <1>3, SumAppend
<1>6. SumFunction(q) = SumFunction([i \in 1 .. n |-> q[i]]) + q[n + 1]
  BY <1>1, <1>3, SumAppend
<1>7. QED BY <1>4, <1>5, <1>6 DEF f, q, more

\* An empty sum.
LEMMA SumOfNone ==
  ASSUME NEW f, DOMAIN f = {}
  PROVE  SumFunction(f) = 0
<1>1. PICK g : IsFold(g, f, {}) /\ SumFunction(f) = g[{}]
  BY FS_EmptySet, FoldExists, SumIsFold
<1>2. QED BY <1>1, FoldStep

\* The engine's results are those of its cycles.
ResultsOK ==
  /\ book.gross = SumFunction(GrossOf(replays))
  /\ book.net = SumFunction(NetOf(replays))

\* The invariant behind the ledger.
LedgerOK == Mirrors(HypeOf(Executed), book) /\ LogOK /\ FeesOK /\ ResultsOK

\* One more execution is folded last.
LEMMA ExecutedAppend ==
  ASSUME Typed, NEW row \in Executions, rows' = Append(rows, row)
  PROVE  Executed' = WithExecution(Executed, row)
<1> DEFINE base == [s \in Tracked |-> Empty]
<1>1. rows \in Seq(Executions) BY DEF Typed
<1>2. Executed = FoldedExecutions(base, rows)
      /\ Executed' = FoldedExecutions(base, Append(rows, row))
  BY DEF Executed
<1> HIDE DEF base
<1>3. FoldedExecutions(base, Append(rows, row))
        = WithExecution(FoldedExecutions(base, rows), row)
  BY ONLY <1>1, row \in Executions, ExecutionsFold
<1>4. QED BY <1>2, <1>3

\* The mirror is about three figures of the book.
LEMMA MirrorsSame ==
  ASSUME NEW h, NEW b, Mirrors(h, b), NEW c,
         c.gross = b.gross, c.exitFees = b.exitFees, c.entryFees = b.entryFees
  PROVE  Mirrors(h, c)
BY DEF Mirrors

\* A candle that pays funding, or begins a cycle.
LEMMA LedgerNextCandle ==
  ASSUME Typed, LedgerOK, NEW c \in Candles, NEW t \in 1 .. MaxCandles,
         NEW payment \in Payments, NextCandle(c, t, payment)
  PROVE  LedgerOK'
<1> DEFINE charge == payment * TotalQty(cycle)
           paid == [book EXCEPT !.funding = book.funding + charge]
           begun == Begun(c.open, EntryQty)
           skip == ~Held(cycle) /\ ((~config.auto /\ replays # <<>>) \/ t < eligible)
           buy == Execution("botdca-open-", "Buy", c.open * EntryQty, 0)
           bill == [symbol |-> "HYPEUSDT", type |-> "SETTLEMENT",
                    cash |-> -payment * TotalQty(cycle)]
<1>1. replays' = replays BY DEF NextCandle
<1>2. c.open \in Nat \ {0} BY PointsPositive
<1>3. cycle \in Ladders /\ book \in Books /\ t \in Nat /\ payment \in Int
  BY ReplayAssumption DEF Typed
<1>4. charge \in Int
  <2>1. TotalQty(cycle) \in Nat BY <1>3, SumsTyped DEF Ladders
  <2>2. QED BY <1>3, <2>1
<1>5. EntryQty \in Nat \ {0} BY ReplayAssumption
<1>6. /\ book.gross \in Int /\ book.fees \in Int /\ book.entryFees \in Int
      /\ book.exitFees \in Int /\ book.openFees \in Int /\ book.net \in Int
      /\ book.funding \in Int
  BY <1>3, BookFields
<1>7. CASE Held(cycle)
  <2>1. /\ rows' = rows
        /\ book' = Mark(paid, cycle, c.open, t)
        /\ log' = IF payment # 0 THEN Append(log, bill) ELSE log
    BY <1>7 DEF NextCandle
  <2>2. paid \in Books
    <3> DEFINE x == book.funding + charge
    <3>1. x \in Int BY <1>4, <1>6
    <3> HIDE DEF x
    <3>2. [book EXCEPT !.funding = x] \in Books BY <1>3, <3>1, BookExcept DEF Figures
    <3>3. QED BY <3>2 DEF x
  <2>3. /\ paid.gross = book.gross /\ paid.fees = book.fees
        /\ paid.entryFees = book.entryFees /\ paid.exitFees = book.exitFees
        /\ paid.openFees = book.openFees /\ paid.net = book.net
        /\ paid.funding = book.funding + charge
    <3>1. DOMAIN book = Figures \union {"recoveries"} BY <1>3 DEF Books
    <3> HIDE DEF charge
    <3>2. QED BY <3>1 DEF Figures
  <2> HIDE DEF paid
  <2>4. /\ book'.gross = book.gross /\ book'.fees = book.fees
        /\ book'.entryFees = book.entryFees /\ book'.exitFees = book.exitFees
        /\ book'.openFees = book.openFees /\ book'.net = book.net
        /\ book'.funding = book.funding + charge
    BY <2>1, <2>2, <2>3, MarkKeeps
  <2>5. Mirrors(HypeOf(Executed), book)'
    <3>1. Executed' = Executed BY <2>1 DEF Executed
    <3>2. Mirrors(HypeOf(Executed), book) BY DEF LedgerOK
    <3>3. Mirrors(HypeOf(Executed), book') BY <2>4, <3>2, MirrorsSame
    <3>4. QED BY <3>1, <3>3
  <2>6. LogOK'
    <3>1. SUFFICES ASSUME NEW a, HypeOf(a) \in Buckets
                   PROVE  Charged(HypeOf(a), HypeOf(FoldedLog(a, log')),
                                  book.funding + charge)
      BY <2>4 DEF LogOK
    <3>2. Charged(HypeOf(a), HypeOf(FoldedLog(a, log)), book.funding)
      BY <3>1 DEF LedgerOK, LogOK
    <3>3. CASE payment # 0
      <4> DEFINE folded == FoldedLog(a, log)
                 e == [symbol |-> "HYPEUSDT", type |-> "SETTLEMENT", cash |-> -charge]
      <4>1. -payment * TotalQty(cycle) = -charge
        <5>1. TotalQty(cycle) \in Nat BY <1>3, SumsTyped DEF Ladders
        <5>2. QED BY <1>3, <5>1
      <4>2. log' = Append(log, e) BY <2>1, <3>3, <4>1
      <4>3. e \in LogEntries
        <5>1. -charge \in Int BY <1>4
        <5> HIDE DEF charge
        <5>2. QED BY <5>1 DEF LogEntries, OwnLog
      <4>4. FoldedLog(a, log') = WithLogRow(folded, e)
        <5>1. log \in Seq(LogEntries) BY DEF Typed
        <5> HIDE DEF e, charge
        <5>2. FoldedLog(a, Append(log, e))
                = WithLogRow(FoldedLog(a, log), e)
          BY ONLY <4>3, <5>1, LogsFold
        <5>3. QED BY <4>2, <5>2
      <4> HIDE DEF folded, charge
      <4>5. Charged(HypeOf(a), HypeOf(WithLogRow(folded, e)), book.funding + charge)
        BY <1>4, <1>6, <3>1, <3>2, ChargedOwn DEF folded
      <4>6. QED BY <4>4, <4>5
    <3>4. CASE payment = 0
      <4>1. charge = 0
        <5>1. TotalQty(cycle) \in Nat BY <1>3, SumsTyped DEF Ladders
        <5>2. QED BY <3>4, <5>1
      <4> HIDE DEF charge
      <4>2. book.funding + charge = book.funding /\ log' = log BY <1>6, <2>1, <3>4, <4>1
      <4>3. QED BY <3>2, <4>2
    <3>5. QED BY <3>3, <3>4
  <2>7. FeesOK' /\ ResultsOK'
    BY <1>1, <2>4 DEF LedgerOK, FeesOK, ResultsOK
  <2>8. QED BY <2>5, <2>6, <2>7 DEF LedgerOK
<1>8. CASE ~Held(cycle) /\ ~skip
  <2>1. /\ rows' = Append(rows, buy)
        /\ book' = Mark(Opened(book, begun), begun, c.open, t)
        /\ log' = log
    BY <1>8 DEF NextCandle
  <2>2. /\ begun \in Ladders /\ begun.fills # <<>> /\ Len(begun.fills) = 1
        /\ begun.fills[1].cost = c.open * EntryQty
    BY <1>2, <1>5, BegunFacts
  <2> DEFINE cost == c.open * EntryQty
             m == Opened(book, begun)
  <2>3. cost \in Nat BY <1>2, <1>5
  <2>4. m \in Books BY <1>3, <2>2, BoughtTyped
  <2>5. /\ m.gross = book.gross /\ m.fees = book.fees /\ m.net = book.net
        /\ m.exitFees = book.exitFees /\ m.funding = book.funding
        /\ m.entryFees = book.entryFees + Fee(cost)
        /\ m.openFees = book.openFees + Fee(cost)
    <3> HIDE DEF begun
    <3>1. m \in {Bought(book, begun), Opened(book, begun)} OBVIOUS
    <3>2. begun.fills[Len(begun.fills)].cost = cost BY <2>2
    <3> HIDE DEF m, cost
    <3>3. \A k \in {Bought(book, begun), Opened(book, begun)} :
         LET fee == Fee(begun.fills[Len(begun.fills)].cost) IN
         /\ k.gross = book.gross /\ k.fees = book.fees /\ k.net = book.net
         /\ k.exitFees = book.exitFees /\ k.funding = book.funding
         /\ k.entryFees = book.entryFees + fee /\ k.openFees = book.openFees + fee
      BY <1>3, BoughtPays
    <3>4. QED BY <3>1, <3>2, <3>3
  <2> HIDE DEF m, begun
  <2>6. /\ book'.gross = m.gross /\ book'.fees = m.fees
        /\ book'.entryFees = m.entryFees /\ book'.exitFees = m.exitFees
        /\ book'.openFees = m.openFees /\ book'.net = m.net
        /\ book'.funding = m.funding
    BY <2>1, <2>4, MarkKeeps DEF m
  <2>7. buy \in Executions
    <3>1. 0 \in Int /\ cost \in Int BY <2>3
    <3> HIDE DEF cost
    <3>2. Execution("botdca-open-", "Buy", cost, 0) \in Executions
      BY <3>1, ExecutionTyped DEF Links
    <3>3. QED BY <3>2 DEF cost
  <2>8. Executed' = WithExecution(Executed, buy)
    <3> HIDE DEF buy
    <3>1. QED BY <2>1, <2>7, ExecutedAppend
  <2>9. Mirrors(HypeOf(Executed), book) BY DEF LedgerOK
  <2> HIDE DEF cost
  <2>10. Mirrors(HypeOf(Executed), book)'
    <3>1. Mirrors(HypeOf(WithExecution(Executed,
                         Execution("botdca-open-", "Buy", cost, 0))), book')
      BY <1>3, <2>3, <2>5, <2>6, <2>9, MirrorsFill
    <3>2. QED BY <2>8, <3>1 DEF cost
  <2>11. LogOK' BY <2>1, <2>5, <2>6 DEF LedgerOK, LogOK
  <2>12. Fee(cost) \in Int
    <3>1. FeeRate \in Nat BY ReplayAssumption
    <3>2. QED BY <2>3, <3>1 DEF Fee
  <2>13. FeesOK' /\ ResultsOK'
    <3>1. FeesOK /\ ResultsOK BY DEF LedgerOK
    <3>2. book'.fees + book'.openFees = book'.entryFees + book'.exitFees
      BY <1>6, <2>5, <2>6, <2>12, <3>1 DEF FeesOK
    <3>3. QED BY <1>1, <2>5, <2>6, <3>1, <3>2 DEF FeesOK, ResultsOK
  <2>14. QED BY <2>10, <2>11, <2>13 DEF LedgerOK
<1>9. CASE skip
  <2>1. UNCHANGED <<rows, log, book, replays>> BY <1>9 DEF NextCandle
  <2>2. Executed' = Executed BY <2>1 DEF Executed
  <2>3. QED BY <2>1, <2>2 DEF LedgerOK, LogOK, FeesOK, ResultsOK
<1>10. QED BY <1>7, <1>8, <1>9

\* What a step that neither charges nor closes leaves of the invariant.
LEMMA LedgerSame ==
  ASSUME LedgerOK, book'.funding = book.funding, log' = log, replays' = replays,
         book'.gross = book.gross, book'.net = book.net, FeesOK',
         Mirrors(HypeOf(Executed'), book')
  PROVE  LedgerOK'
BY DEF LedgerOK, LogOK, ResultsOK

\* The end of a segment marks.
LEMMA LedgerEndSegment ==
  ASSUME Typed, LedgerOK, EndSegment
  PROVE  LedgerOK'
<1>1. book' = Mark(book, cycle, End, now)
      /\ UNCHANGED <<cycle, replays, rows, log>>
  BY DEF EndSegment
<1>2. book \in Books BY DEF Typed
<1>3. /\ book'.gross = book.gross /\ book'.fees = book.fees
      /\ book'.entryFees = book.entryFees /\ book'.exitFees = book.exitFees
      /\ book'.openFees = book.openFees /\ book'.net = book.net
      /\ book'.funding = book.funding
  BY <1>1, <1>2, MarkKeeps
<1>4. Executed' = Executed BY <1>1 DEF Executed
<1>5. Mirrors(HypeOf(Executed), book) /\ FeesOK BY DEF LedgerOK
<1>6. Mirrors(HypeOf(Executed'), book') BY <1>3, <1>4, <1>5, MirrorsSame
<1>7. FeesOK' BY <1>3, <1>5 DEF FeesOK
<1>8. QED BY <1>1, <1>3, <1>6, <1>7, LedgerSame

\* A DCA pays its fee.
LEMMA LedgerAddDca ==
  ASSUME Typed, SegmentOK, LedgerOK, AddDca
  PROVE  LedgerOK'
<1> DEFINE trigger == Trigger(cycle, config.reference)
           deeper == WithDca(cycle, trigger, NextQty(cycle))
           before == Mark(book, cycle, trigger, now)
           bought == Bought(before, deeper)
           cost == deeper.fills[Len(deeper.fills)].cost
           buy == Execution("botdca-dca-", "Buy", cost, 0)
<1>1. /\ Falls /\ book' = Mark(bought, deeper, trigger, now)
      /\ rows' = Append(rows, buy) /\ UNCHANGED <<replays, log>>
  BY DEF AddDca
<1>2. cycle.fills # <<>> /\ ~AtMax(cycle) /\ trigger \in Nat \ {0}
  BY <1>1, FallsFacts
<1>3. cycle \in Ladders /\ book \in Books /\ now \in Nat BY DEF Typed
<1> HIDE DEF trigger
<1>4. deeper \in Ladders /\ deeper.fills # <<>> BY <1>2, <1>3, WithDcaFacts
<1> HIDE DEF deeper
<1>5. before \in Books BY <1>2, <1>3, MarkTyped
<1>6. cost \in Nat
  <2>1. deeper.fills \in Seq(Fills) BY <1>4 DEF Ladders
  <2>2. deeper.fills[Len(deeper.fills)] \in Fills BY <1>4, <2>1
  <2>3. QED BY <2>2 DEF Fills
<1>7. /\ before.gross = book.gross /\ before.fees = book.fees
      /\ before.entryFees = book.entryFees /\ before.exitFees = book.exitFees
      /\ before.openFees = book.openFees /\ before.net = book.net
      /\ before.funding = book.funding
  BY <1>3, MarkKeeps
<1> HIDE DEF before
<1>8. bought \in Books BY <1>4, <1>5, BoughtTyped
<1>9. /\ bought.gross = before.gross /\ bought.fees = before.fees
      /\ bought.net = before.net /\ bought.exitFees = before.exitFees
      /\ bought.funding = before.funding
      /\ bought.entryFees = before.entryFees + Fee(cost)
      /\ bought.openFees = before.openFees + Fee(cost)
  <2>1. \A k \in {Bought(before, deeper), Opened(before, deeper)} :
         LET fee == Fee(deeper.fills[Len(deeper.fills)].cost) IN
         /\ k.gross = before.gross /\ k.fees = before.fees /\ k.net = before.net
         /\ k.exitFees = before.exitFees /\ k.funding = before.funding
         /\ k.entryFees = before.entryFees + fee /\ k.openFees = before.openFees + fee
    BY <1>5, BoughtPays
  <2>2. bought \in {Bought(before, deeper), Opened(before, deeper)} OBVIOUS
  <2> HIDE DEF bought
  <2>3. QED BY <2>1, <2>2
<1> HIDE DEF bought, cost
<1>10. /\ book'.gross = bought.gross /\ book'.fees = bought.fees
       /\ book'.entryFees = bought.entryFees /\ book'.exitFees = bought.exitFees
       /\ book'.openFees = bought.openFees /\ book'.net = bought.net
       /\ book'.funding = bought.funding
  BY <1>1, <1>8, MarkKeeps
<1>11. /\ book'.gross = book.gross /\ book'.fees = book.fees
       /\ book'.exitFees = book.exitFees /\ book'.net = book.net
       /\ book'.funding = book.funding
       /\ book'.entryFees = book.entryFees + Fee(cost)
       /\ book'.openFees = book.openFees + Fee(cost)
  BY <1>7, <1>9, <1>10
<1>12. Executed' = WithExecution(Executed, buy)
  <2>1. buy \in Executions
    <3>1. 0 \in Int /\ cost \in Int BY <1>6
    <3>2. QED BY <3>1, ExecutionTyped DEF Links
  <2> HIDE DEF buy
  <2>2. QED BY <1>1, <2>1, ExecutedAppend
<1>13. Mirrors(HypeOf(Executed), book) /\ FeesOK BY DEF LedgerOK
<1>14. Mirrors(HypeOf(WithExecution(Executed, buy)), book')
  BY <1>3, <1>6, <1>11, <1>13, MirrorsFill
<1>15. Mirrors(HypeOf(Executed'), book') BY <1>12, <1>14
<1>16. FeesOK'
  <2>1. Fee(cost) \in Int
    <3>1. FeeRate \in Nat BY ReplayAssumption
    <3>2. QED BY <1>6, <3>1 DEF Fee
  <2>2. /\ book.gross \in Int /\ book.fees \in Int /\ book.entryFees \in Int
        /\ book.exitFees \in Int /\ book.openFees \in Int /\ book.net \in Int
    BY <1>3, BookFields
  <2>3. QED BY <1>11, <1>13, <2>1, <2>2 DEF FeesOK
<1>17. QED BY <1>1, <1>11, <1>15, <1>16, LedgerSame

\* A close pays its fee and realizes the result, and the next cycle's entry,
\* where one follows at once, pays its own.
LEMMA LedgerTakeProfit ==
  ASSUME Typed, SegmentOK, LedgerOK, TakeProfit
  PROVE  LedgerOK'
<1> DEFINE tp == TpPrice(cycle)
           marked == Mark(book, cycle, tp, now)
           closed == Closed(marked, cycle, tp)
           last == \/ config.maxCycles # 0 /\ Len(replays) + 1 >= config.maxCycles
                   \/ ~config.auto
           again == ~last /\ config.delay = 0
           next == Begun(tp, EntryQty)
           cost == tp * TotalQty(cycle)
           gross == Gross(cycle, tp)
           sell == Execution("botdca-tp-", "Sell", cost, gross)
           price2 == tp * EntryQty
           buy == Execution("botdca-open-", "Buy", price2, 0)
           one == Replayed(marked, cycle, tp)
<1>1. /\ TakesProfit /\ replays' = Append(replays, one)
      /\ book' = IF again THEN Opened(closed, next) ELSE closed
      /\ rows' = Append(rows, sell) \o (IF again THEN <<buy>> ELSE <<>>)
      /\ log' = log
  BY DEF TakeProfit
<1>2. cycle.fills # <<>> /\ tp \in Nat \ {0} BY <1>1, TakesProfitFacts
<1>3. cycle \in Ladders /\ book \in Books /\ now \in Nat BY DEF Typed
<1>4. EntryQty \in Nat \ {0} /\ FeeRate \in Nat BY ReplayAssumption
<1> HIDE DEF tp
<1>5. /\ next \in Ladders /\ next.fills # <<>> /\ Len(next.fills) = 1
      /\ next.fills[1].cost = price2
  BY <1>2, <1>4, BegunFacts
<1>6. cost \in Nat /\ gross \in Int /\ price2 \in Nat
  <2>1. TotalQty(cycle) \in Nat BY <1>3, SumsTyped DEF Ladders
  <2>2. gross \in Int BY <1>2, <1>3, GrossInt
  <2> HIDE DEF gross
  <2>3. QED BY <1>2, <1>4, <2>1, <2>2
<1>7. marked \in Books BY <1>2, <1>3, MarkTyped
<1>8. /\ marked.gross = book.gross /\ marked.fees = book.fees
      /\ marked.entryFees = book.entryFees /\ marked.exitFees = book.exitFees
      /\ marked.openFees = book.openFees /\ marked.net = book.net
      /\ marked.funding = book.funding
  BY <1>3, MarkKeeps
<1>9. one \in Cycles /\ one.gross = gross
      /\ one.net = gross - marked.openFees - Fee(cost)
  <2>1. one \in Cycles BY <1>2, <1>3, <1>7, ReplayedTyped
  <2>2. one.gross = gross /\ one.net = gross - marked.openFees - Fee(cost)
    BY DEF Replayed, ExitFee
  <2>3. QED BY <2>1, <2>2
<1> HIDE DEF marked, one, next
<1>10. closed \in Books BY <1>2, <1>3, <1>7, ClosedTyped
<1>11. /\ closed.gross = marked.gross + gross
       /\ closed.fees = marked.fees + marked.openFees + Fee(cost)
       /\ closed.net = marked.net + (gross - marked.openFees - Fee(cost))
       /\ closed.exitFees = marked.exitFees + Fee(cost)
       /\ closed.entryFees = marked.entryFees
       /\ closed.openFees = 0 /\ closed.funding = marked.funding
  BY <1>7, ClosedPays DEF ExitFee
<1> HIDE DEF closed
<1>12. Fee(cost) \in Int /\ Fee(price2) \in Int
  <2> HIDE DEF cost, price2
  <2>1. QED BY <1>4, <1>6 DEF Fee
<1> DEFINE fee == Fee(cost)  fee2 == Fee(price2)
<1> HIDE DEF cost, gross, price2, last
<1>13. /\ book.gross \in Int /\ book.fees \in Int /\ book.entryFees \in Int
       /\ book.exitFees \in Int /\ book.openFees \in Int /\ book.net \in Int
       /\ book.funding \in Int
  BY <1>3, BookFields
<1>14. /\ closed.gross = book.gross + gross
       /\ closed.net = book.net + (gross - book.openFees - fee)
       /\ closed.exitFees = book.exitFees + fee
       /\ closed.entryFees = book.entryFees /\ closed.funding = book.funding
       /\ closed.fees + closed.openFees = closed.entryFees + closed.exitFees
       /\ closed.net = closed.gross - closed.fees
  <2>1. FeesOK BY DEF LedgerOK
  <2> HIDE DEF fee
  <2>2. fee \in Int BY <1>12 DEF fee
  <2>3. /\ closed.fees = book.fees + book.openFees + fee
        /\ closed.gross = book.gross + gross
        /\ closed.net = book.net + (gross - book.openFees - fee)
        /\ closed.exitFees = book.exitFees + fee
        /\ closed.entryFees = book.entryFees /\ closed.funding = book.funding
        /\ closed.openFees = 0
    BY <1>8, <1>11 DEF fee
  <2>4. closed.fees + closed.openFees = closed.entryFees + closed.exitFees
    BY <1>6, <1>13, <2>1, <2>2, <2>3 DEF FeesOK
  <2>5. closed.net = closed.gross - closed.fees
    BY <1>6, <1>13, <2>1, <2>2, <2>3 DEF FeesOK
  <2>6. QED BY <2>3, <2>4, <2>5
<1>15. ResultsOK /\ book'.gross = closed.gross /\ book'.net = closed.net => ResultsOK'
  <2>1. replays \in Seq(Cycles) BY DEF Typed
  <2>2. /\ SumFunction(GrossOf(replays')) = SumFunction(GrossOf(replays)) + gross
        /\ SumFunction(NetOf(replays'))
             = SumFunction(NetOf(replays)) + (gross - book.openFees - fee)
    BY <1>1, <1>8, <1>9, <2>1, ResultsAppend
  <2> HIDE DEF fee
  <2>3. QED BY <1>14, <2>2 DEF ResultsOK
<1>16. Mirrors(HypeOf(Executed), book) /\ LogOK /\ FeesOK /\ ResultsOK BY DEF LedgerOK
<1>17. sell \in Executions /\ buy \in Executions
  <2>1. cost \in Int /\ 0 \in Int /\ price2 \in Int BY <1>6
  <2>2. sell \in Executions BY <1>6, <2>1, ExecutionTyped DEF Links
  <2>3. buy \in Executions BY <2>1, ExecutionTyped DEF Links
  <2>4. QED BY <2>2, <2>3
<1> DEFINE base == [s \in Tracked |-> Empty]
           mid == WithExecution(Executed, sell)
<1>18. Mirrors(HypeOf(mid), closed)
  BY <1>3, <1>6, <1>14, <1>16, MirrorsClose
<1>19. /\ Executed = FoldedExecutions(base, rows)
       /\ Executed' = FoldedExecutions(base, rows')
       /\ rows \in Seq(Executions)
  BY DEF Executed, Typed
<1>20. FoldedExecutions(base, Append(rows, sell)) = mid
  <2> HIDE DEF base, sell
  <2>1. QED BY <1>17, <1>19, ExecutionsFold
<1> HIDE DEF base, mid
<1>21. CASE ~again
  <2>1. book' = closed BY <1>1, <1>21
  <2>2. rows' = Append(rows, sell)
    <3> HIDE DEF sell
    <3> DEFINE s == Append(rows, sell)
    <3>1. rows' = s \o <<>> BY <1>1, <1>21
    <3>2. s \in Seq(Executions) BY <1>17, <1>19
    <3> HIDE DEF s
    <3>3. QED BY <3>1, <3>2 DEF s
  <2>3. Mirrors(HypeOf(Executed'), book') BY <1>18, <1>19, <1>20, <2>1, <2>2
  <2>4. FeesOK' BY <1>14, <2>1 DEF FeesOK
  <2>5. LogOK' BY <1>1, <1>14, <1>16, <2>1 DEF LogOK
  <2>6. ResultsOK' BY <1>15, <1>16, <2>1
  <2>7. QED BY <2>3, <2>4, <2>5, <2>6 DEF LedgerOK
<1>22. CASE again
  <2> DEFINE m == Opened(closed, next)
  <2>1. book' = m BY <1>1, <1>22
  <2>2. /\ m.gross = closed.gross /\ m.fees = closed.fees /\ m.net = closed.net
        /\ m.exitFees = closed.exitFees /\ m.funding = closed.funding
        /\ m.entryFees = closed.entryFees + fee2
        /\ m.openFees = closed.openFees + fee2
    <3>1. \A k \in {Bought(closed, next), Opened(closed, next)} :
         LET f == Fee(next.fills[Len(next.fills)].cost) IN
         /\ k.gross = closed.gross /\ k.fees = closed.fees /\ k.net = closed.net
         /\ k.exitFees = closed.exitFees /\ k.funding = closed.funding
         /\ k.entryFees = closed.entryFees + f /\ k.openFees = closed.openFees + f
      BY <1>10, BoughtPays
    <3>2. m \in {Bought(closed, next), Opened(closed, next)} OBVIOUS
    <3>3. next.fills[Len(next.fills)].cost = price2 BY <1>5
    <3> HIDE DEF m
    <3>4. QED BY <3>1, <3>2, <3>3
  <2> HIDE DEF m
  <2>3. rows' = Append(Append(rows, sell), buy)
    <3> HIDE DEF sell, buy
    <3> DEFINE s == Append(rows, sell)
    <3>1. rows' = s \o <<buy>> BY <1>1, <1>22
    <3>2. s \in Seq(Executions) BY <1>17, <1>19
    <3> HIDE DEF s
    <3>3. rows' = Append(s, buy) BY <1>17, <3>1, <3>2
    <3>4. QED BY <3>3 DEF s
  <2>4. Executed' = WithExecution(mid, buy)
    <3> HIDE DEF sell, buy
    <3> DEFINE s == Append(rows, sell)
    <3>1. s \in Seq(Executions) BY <1>17, <1>19
    <3>2. Executed' = FoldedExecutions(base, Append(s, buy)) BY <1>19, <2>3
    <3>3. FoldedExecutions(base, s) = mid BY <1>20
    <3> HIDE DEF s
    <3>4. QED BY <1>17, <3>1, <3>2, <3>3, ExecutionsFold
  <2>5. Mirrors(HypeOf(WithExecution(mid, buy)), m)
    BY <1>6, <1>10, <1>18, <2>2, MirrorsFill
  <2>6. Mirrors(HypeOf(Executed'), book') BY <2>1, <2>4, <2>5
  <2>7. FeesOK'
    <3>1. fee2 \in Int BY <1>12
    <3> HIDE DEF fee2
    <3>2. /\ closed.fees \in Int /\ closed.openFees \in Int
          /\ closed.entryFees \in Int /\ closed.exitFees \in Int
      BY <1>10, BookFields
    <3>3. QED BY <1>14, <2>1, <2>2, <3>1, <3>2 DEF FeesOK
  <2>8. LogOK' BY <1>1, <1>14, <1>16, <2>1, <2>2 DEF LogOK
  <2>9. ResultsOK' BY <1>15, <1>16, <2>1, <2>2
  <2>10. QED BY <2>6, <2>7, <2>8, <2>9 DEF LedgerOK
<1>23. QED BY <1>21, <1>22

\* What is not the engine's leaves its ledger alone.
LEMMA LedgerStranger ==
  ASSUME Typed, LedgerOK, Stranger
  PROVE  LedgerOK'
<1>1. book' = book /\ replays' = replays BY DEF Stranger
<1>2. Mirrors(HypeOf(Executed), book) /\ LogOK /\ FeesOK /\ ResultsOK BY DEF LedgerOK
<1>3. FeesOK' /\ ResultsOK' BY <1>1, <1>2 DEF FeesOK, ResultsOK
<1>4. CASE \E row \in ForeignExecutions : rows' = Append(rows, row) /\ log' = log
  <2>1. PICK row \in ForeignExecutions : rows' = Append(rows, row) /\ log' = log
    BY <1>4
  <2>2. row \in Executions BY DEF Executions
  <2>3. Executed' = WithExecution(Executed, row) BY <2>1, <2>2, ExecutedAppend
  <2>4. Mirrors(HypeOf(Executed'), book') BY <1>1, <1>2, <2>3, MirrorsForeign
  <2>5. LogOK' BY <1>1, <1>2, <2>1 DEF LogOK
  <2>6. QED BY <1>3, <2>4, <2>5 DEF LedgerOK
<1>5. CASE \E row \in LogRows : log' = Append(log, row) /\ rows' = rows
  <2>1. PICK row \in LogRows : log' = Append(log, row) /\ rows' = rows BY <1>5
  <2>2. row \in LogEntries /\ log \in Seq(LogEntries) BY DEF LogEntries, Typed
  <2>3. Executed' = Executed BY <2>1 DEF Executed
  <2>4. LogOK'
    <3>1. SUFFICES ASSUME NEW a, HypeOf(a) \in Buckets
                   PROVE  Charged(HypeOf(a), HypeOf(FoldedLog(a, log')), book.funding)
      BY <1>1 DEF LogOK
    <3>2. Charged(HypeOf(a), HypeOf(FoldedLog(a, log)), book.funding)
      BY <1>2, <3>1 DEF LogOK
    <3>3. FoldedLog(a, log') = WithLogRow(FoldedLog(a, log), row)
      BY <2>1, <2>2, LogsFold
    <3>4. QED BY <3>2, <3>3, ChargedForeign
  <2>5. QED BY <1>1, <1>2, <1>3, <2>3, <2>4 DEF LedgerOK
<1>6. QED BY <1>4, <1>5 DEF Stranger

\* At first the ledger is empty.
LEMMA LedgerInit ==
  ASSUME Init
  PROVE  LedgerOK
<1>1. /\ book.gross = 0 /\ book.fees = 0 /\ book.entryFees = 0 /\ book.exitFees = 0
      /\ book.openFees = 0 /\ book.net = 0 /\ book.funding = 0
      /\ rows = <<>> /\ log = <<>> /\ replays = <<>>
  BY DEF Init
<1> DEFINE none == <<>>
           base == [s \in Tracked |-> Empty]
<1>2. FoldedExecutions(base, none) = base /\ \A a : FoldedLog(a, none) = a
  <2>1. none \in Seq({0}) /\ 0 \in {0} OBVIOUS
  <2> DEFINE zero == 0
             S == {0}
  <2>2. none \in Seq(S) /\ zero \in S BY <2>1
  <2> HIDE DEF S, zero, base
  <2>3. QED BY <2>2, ExecutionsFold, LogsFold
<1>3. Executed = base BY <1>1, <1>2 DEF Executed
<1>4. HypeOf(base) = Empty
  <2>1. "HYPEUSDT" \in Tracked BY ReplayAssumption
  <2>2. QED BY <2>1 DEF HypeOf, Of
<1> HIDE DEF base
<1>5. Mirrors(Empty, book)
  <2>1. /\ Empty \in Buckets /\ Empty.realized = 0 /\ Empty.close = 0 /\ Empty.entry = 0
        /\ Empty.dca = 0 /\ Empty.other_bot = 0 /\ Empty.rebates = 0 /\ Empty.funding = 0
    BY EmptyTyped DEF Fields
  <2>2. QED BY <1>1, <2>1 DEF Mirrors
<1>6. LogOK
  <2>1. SUFFICES ASSUME NEW a, HypeOf(a) \in Buckets
                 PROVE  Charged(HypeOf(a), HypeOf(FoldedLog(a, log)), 0)
    BY <1>1 DEF LogOK
  <2>2. FoldedLog(a, log) = a BY <1>1, <1>2
  <2> DEFINE h == HypeOf(a)
  <2>3. h.funding \in Int BY <2>1 DEF Buckets, Fields
  <2> HIDE DEF h
  <2>4. h.funding = h.funding - 0 BY <2>3
  <2>5. Charged(h, h, 0) BY <2>1, <2>4 DEF Charged, h
  <2>6. QED BY <2>2, <2>5 DEF h
<1>7. FeesOK BY <1>1 DEF FeesOK
<1>8. ResultsOK
  <2>1. DOMAIN GrossOf(<<>>) = {} /\ DOMAIN NetOf(<<>>) = {} BY DEF GrossOf, NetOf
  <2>2. QED BY <1>1, <2>1, SumOfNone DEF ResultsOK
<1>9. QED BY <1>3, <1>4, <1>5, <1>6, <1>7, <1>8 DEF LedgerOK

\* Every step keeps the ledger.
LEMMA LedgerStep ==
  ASSUME Typed, SegmentOK, LedgerOK, Next \/ UNCHANGED vars
  PROVE  LedgerOK'
<1>1. CASE UNCHANGED vars
  <2>1. UNCHANGED <<book, rows, log, replays>> BY <1>1 DEF vars
  <2>2. Executed' = Executed BY <2>1 DEF Executed
  <2>3. QED BY <2>1, <2>2 DEF LedgerOK, LogOK, FeesOK, ResultsOK
<1>2. QED
  BY <1>1, LedgerNextCandle, LedgerTakeProfit, LedgerAddDca, LedgerEndSegment,
     LedgerStranger DEF Next

\* What the invariant says of the ledger.
LEMMA LedgerSays ==
  ASSUME Typed, LedgerOK
  PROVE  LedgerAgrees
<1> DEFINE hype == Of(Accounted(rows, log), "HYPEUSDT")
           h == HypeOf(Executed)
<1>1. hype = HypeOf(FoldedLog(Executed, log))
  BY DEF Accounted, HypeOf, FoldedLog, FoldedExecutions, Executed
<1>2. Mirrors(h, book) /\ h \in Buckets BY DEF LedgerOK, Mirrors
<1>3. Charged(h, hype, book.funding) BY <1>1, <1>2 DEF LedgerOK, LogOK
<1> HIDE DEF hype, h
<1>4. /\ hype.realized = book.gross /\ hype.close = book.exitFees
      /\ hype.entry = h.entry /\ hype.dca = h.dca /\ h.entry + h.dca = book.entryFees
      /\ hype.other_bot = 0 /\ hype.rebates = 0
      /\ hype.funding = 0 - book.funding
  BY <1>2, <1>3 DEF Charged, Mirrors, Fields
<1>5. /\ h.entry \in Int /\ h.dca \in Int BY <1>2 DEF Buckets, Fields
<1>6. book \in Books /\ replays \in Seq(Cycles) BY DEF Typed
<1>7. /\ book.gross \in Int /\ book.fees \in Int /\ book.entryFees \in Int
      /\ book.exitFees \in Int /\ book.openFees \in Int /\ book.net \in Int
      /\ book.funding \in Int
  BY <1>6, BookFields
<1>8. FeesOK /\ ResultsOK BY DEF LedgerOK
<1>9. NetPnl(hype) = book.net - book.funding - book.openFees
  <2>1. TotalFees(hype) = book.entryFees + book.exitFees
    BY <1>4, <1>5, <1>7 DEF TotalFees
  <2>2. NetPnl(hype) = book.gross - (book.entryFees + book.exitFees) - book.funding
    BY <1>4, <1>7, <2>1 DEF NetPnl
  <2>3. QED BY <1>7, <1>8, <2>2 DEF FeesOK
<1>10. Report.fees = book.entryFees + book.exitFees BY <1>8 DEF Report, FeesOK
<1>11. IsFiniteSet(DOMAIN replays)
  <2>1. DOMAIN replays = 1 .. Len(replays) /\ Len(replays) \in Nat BY <1>6
  <2>2. QED BY <2>1, FS_Interval
<1>12. /\ book.gross = MapThenSumSet(LAMBDA i : replays[i].gross, DOMAIN replays)
       /\ book.net = MapThenSumSet(LAMBDA i : replays[i].net, DOMAIN replays)
  BY <1>8, <1>11, GrossIsSum, NetIsSum DEF ResultsOK
<1>13. QED BY <1>4, <1>9, <1>10, <1>12 DEF LedgerAgrees, hype

\* Accounting and engine agree on the strategy, whatever else the account does
\* (accounting.py: accumulate_executions, accumulate_transaction_log;
\* backtest.py: _open_cycle, _add_dca, _close_cycle, _apply_funding).
THEOREM LedgersAgree == Spec => []LedgerAgrees
<1>1. Init => LedgerOK BY LedgerInit
<1>2. Typed /\ SegmentOK /\ LedgerOK /\ [Next]_vars => LedgerOK' BY LedgerStep
<1>3. Typed /\ LedgerOK => LedgerAgrees BY LedgerSays
<1>4. QED BY <1>1, <1>2, <1>3, ReplayTyped, PTL DEF Spec

-----------------------------------------------------------------------------
(* The cash flows of the account *)

\* Accountings whose buckets have sums.
Accountings(a) == IsFiniteSet(DOMAIN a) /\ \A s \in DOMAIN a : a[s] \in Buckets

\* One field of all buckets.
FieldOf(a, f) == [s \in DOMAIN a |-> a[s][f]]

\* What a bucket is worth: the strategy's result and what is not the strategy's.
Worth(e) == NetPnl(e) + e.unattributed

\* The cash flow of an execution, and of executions.
Flow(row) == IF row.symbol = NoSymbol THEN 0 ELSE row.realized - row.fee
FlowsOf(f) == [i \in DOMAIN f |-> Flow(f[i])]

\* Log rows that the fold keeps, and their cash flows.
Keeps(row) == \/ row.type \in NonStrategyTypes
              \/ row.type \in FundingTypes /\ row.symbol \in Tracked
KeptIn(f) == {i \in DOMAIN f : Keeps(f[i])}
CashOf(f, S) == [i \in S |-> f[i].cash]

\* A field of the total is a sum of a function.
LEMMA TotalIsSum ==
  ASSUME NEW a, IsFiniteSet(DOMAIN a), NEW f \in Fields
  PROVE  Total(a)[f] = SumFunction(FieldOf(a, f))
<1> DEFINE D == DOMAIN a
           e == FieldOf(a, f)
           G == CHOOSE g : g = [s \in SUBSET D |-> IF s = {} THEN 0
                  ELSE a[CHOOSE x \in s : TRUE][f]
                         + g[s \ {CHOOSE x \in s : TRUE}]]
<1>1. DOMAIN e = D /\ \A x \in D : e[x] = a[x][f] BY DEF FieldOf
<1>2. Total(a)[f] = G[D]
  <2>1. f \in DOMAIN Empty BY EmptyTyped
  <2>2. QED BY <2>1 DEF Total, MapThenSumSet, MapThenFoldSet
<1>3. PICK h : IsFold(h, e, D) BY <1>1, FoldExists
<1> HIDE DEF e
<1>4. h = [s \in SUBSET D |-> IF s = {} THEN 0
             ELSE a[CHOOSE x \in s : TRUE][f]
                    + h[s \ {CHOOSE x \in s : TRUE}]]
  BY <1>1, <1>3 DEF IsFold
<1>5. G = [s \in SUBSET D |-> IF s = {} THEN 0
             ELSE a[CHOOSE x \in s : TRUE][f]
                    + G[s \ {CHOOSE x \in s : TRUE}]]
  BY <1>4
<1> HIDE DEF G
<1>6. IsFold(G, e, D) BY <1>1, <1>5 DEF IsFold
<1>7. SumFunction(e) = G[D] BY <1>1, <1>6, SumOfFold
<1>8. QED BY <1>2, <1>7 DEF e

\* The cash flows of executions are a sum of a function.
LEMMA FlowsAreSum ==
  ASSUME NEW f, IsFiniteSet(DOMAIN f)
  PROVE  MapThenSumSet(LAMBDA i : IF f[i].symbol = NoSymbol THEN 0
                                  ELSE f[i].realized - f[i].fee, DOMAIN f)
           = SumFunction(FlowsOf(f))
<1> DEFINE D == DOMAIN f
           e == FlowsOf(f)
           v(x) == IF f[x].symbol = NoSymbol THEN 0 ELSE f[x].realized - f[x].fee
           G == CHOOSE g : g = [s \in SUBSET D |-> IF s = {} THEN 0
                  ELSE v(CHOOSE x \in s : TRUE) + g[s \ {CHOOSE x \in s : TRUE}]]
<1>1. DOMAIN e = D /\ \A x \in D : e[x] = v(x) BY DEF FlowsOf, Flow
<1>2. MapThenSumSet(LAMBDA i : IF f[i].symbol = NoSymbol THEN 0
                               ELSE f[i].realized - f[i].fee, D) = G[D]
  BY DEF MapThenSumSet, MapThenFoldSet
<1>3. PICK h : IsFold(h, e, D) BY <1>1, FoldExists
<1> HIDE DEF e, v
<1>4. h = [s \in SUBSET D |-> IF s = {} THEN 0
             ELSE v(CHOOSE x \in s : TRUE) + h[s \ {CHOOSE x \in s : TRUE}]]
  BY <1>1, <1>3 DEF IsFold
<1>5. G = [s \in SUBSET D |-> IF s = {} THEN 0
             ELSE v(CHOOSE x \in s : TRUE) + G[s \ {CHOOSE x \in s : TRUE}]]
  BY <1>4
<1> HIDE DEF G
<1>6. IsFold(G, e, D) BY <1>1, <1>5 DEF IsFold
<1>7. SumFunction(e) = G[D] BY <1>1, <1>6, SumOfFold
<1>8. QED BY <1>2, <1>7 DEF e

\* The same of the cash flows of log rows.
LEMMA CashIsSum ==
  ASSUME NEW f, NEW S, IsFiniteSet(S)
  PROVE  MapThenSumSet(LAMBDA i : f[i].cash, S) = SumFunction(CashOf(f, S))
<1> DEFINE e == CashOf(f, S)
           G == CHOOSE g : g = [s \in SUBSET S |-> IF s = {} THEN 0
                  ELSE f[CHOOSE x \in s : TRUE].cash
                         + g[s \ {CHOOSE x \in s : TRUE}]]
<1>1. DOMAIN e = S /\ \A x \in S : e[x] = f[x].cash BY DEF CashOf
<1>2. MapThenSumSet(LAMBDA i : f[i].cash, S) = G[S]
  BY DEF MapThenSumSet, MapThenFoldSet
<1>3. PICK h : IsFold(h, e, S) BY <1>1, FoldExists
<1> HIDE DEF e
<1>4. h = [s \in SUBSET S |-> IF s = {} THEN 0
             ELSE f[CHOOSE x \in s : TRUE].cash + h[s \ {CHOOSE x \in s : TRUE}]]
  BY <1>1, <1>3 DEF IsFold
<1>5. G = [s \in SUBSET S |-> IF s = {} THEN 0
             ELSE f[CHOOSE x \in s : TRUE].cash + G[s \ {CHOOSE x \in s : TRUE}]]
  BY <1>4
<1> HIDE DEF G
<1>6. IsFold(G, e, S) BY <1>1, <1>5 DEF IsFold
<1>7. SumFunction(e) = G[S] BY <1>1, <1>6, SumOfFold
<1>8. QED BY <1>2, <1>7 DEF e

\* Writing one bucket changes the sum of a field by what it changes in it.
LEMMA FieldWith ==
  ASSUME NEW a, Accountings(a), NEW t, NEW e \in Buckets, NEW f \in Fields
  PROVE  /\ SumFunction(FieldOf(With(a, t, e), f))
              = SumFunction(FieldOf(a, f)) - Of(a, t)[f] + e[f]
         /\ SumFunction(FieldOf(a, f)) \in Int
<1> DEFINE D == DOMAIN a
           U == D \union {t}
           w == With(a, t, e)
           g == FieldOf(w, f)
           h == FieldOf(a, f)
<1>1. IsFiniteSet(D) /\ IsFiniteSet(U) BY FS_AddElement DEF Accountings
<1>2. e[f] \in Int /\ \A s \in D : a[s][f] \in Int BY DEF Accountings, Buckets
<1>3. DOMAIN w = U /\ \A s \in U : w[s] = IF s = t THEN e ELSE a[s] BY DEF With
<1> HIDE DEF w
<1>4. g \in [U -> Int] /\ \A s \in U : g[s] = IF s = t THEN e[f] ELSE a[s][f]
  BY <1>2, <1>3 DEF FieldOf
<1>5. h \in [D -> Int] /\ \A s \in D : h[s] = a[s][f] BY <1>2 DEF FieldOf
<1> HIDE DEF g, h
<1>6. SumFunction(g) = g[t] + SumFunction([y \in U \ {t} |-> g[y]])
  <2>1. t \in U OBVIOUS
  <2> HIDE DEF U
  <2>2. QED BY <1>1, <1>4, <2>1, SumTake
<1>7. g[t] = e[f] BY <1>4
<1>8. SumFunction(h) \in Int BY <1>1, <1>5, SumInt
<1>9. CASE t \in D
  <2>1. SumFunction(h) = h[t] + SumFunction([y \in D \ {t} |-> h[y]])
    BY <1>1, <1>5, <1>9, SumTake
  <2>2. [y \in D \ {t} |-> h[y]] = [y \in U \ {t} |-> g[y]]
    <3>1. D \ {t} = U \ {t} OBVIOUS
    <3>2. \A y \in D \ {t} : h[y] = g[y] BY <1>4, <1>5
    <3>3. QED BY <3>1, <3>2
  <2> DEFINE r == SumFunction([y \in U \ {t} |-> g[y]])
  <2>3. r \in Int
    <3>1. IsFiniteSet(U \ {t}) BY <1>1, FS_Subset
    <3>2. [y \in U \ {t} |-> g[y]] \in [U \ {t} -> Int] BY <1>4
    <3>3. QED BY <3>1, <3>2, SumInt
  <2>4. SumFunction(h) = h[t] + r BY <2>1, <2>2
  <2>5. SumFunction(g) = e[f] + r BY <1>6, <1>7
  <2> HIDE DEF r
  <2>6. Of(a, t)[f] = h[t] /\ h[t] \in Int BY <1>2, <1>5, <1>9 DEF Of
  <2>7. SumFunction(g) = SumFunction(h) - Of(a, t)[f] + e[f]
    BY <1>2, <2>3, <2>4, <2>5, <2>6
  <2>8. QED BY <1>8, <2>7 DEF g, h, w
<1>10. CASE t \notin D
  <2>1. [y \in U \ {t} |-> g[y]] = h
    <3>1. U \ {t} = D BY <1>10
    <3>2. \A y \in D : h[y] = g[y] BY <1>4, <1>5, <1>10
    <3>3. h = [y \in D |-> h[y]] BY <1>5
    <3>4. QED BY <3>1, <3>2, <3>3
  <2>2. Of(a, t)[f] = 0 BY <1>10, EmptyTyped DEF Of
  <2>3. SumFunction(g) = e[f] + SumFunction(h) BY <1>6, <1>7, <2>1
  <2>4. SumFunction(g) = SumFunction(h) - Of(a, t)[f] + e[f]
    BY <1>2, <1>8, <2>2, <2>3
  <2>5. QED BY <1>8, <2>4 DEF g, h, w
<1>11. QED BY <1>9, <1>10

\* A symbol's bucket is one.
LEMMA OfTyped ==
  ASSUME NEW a, Accountings(a), NEW t
  PROVE  Of(a, t) \in Buckets
BY EmptyTyped DEF Of, Accountings

\* Writing one bucket changes what all are worth by what it changes in that one.
LEMMA WorthWith ==
  ASSUME NEW a, Accountings(a), NEW t, NEW e \in Buckets, NEW x \in Int,
         Worth(e) = Worth(Of(a, t)) + x
  PROVE  /\ Accountings(With(a, t, e))
         /\ Worth(Total(a)) \in Int
         /\ Worth(Total(With(a, t, e))) = Worth(Total(a)) + x
<1> DEFINE w == With(a, t, e)
           k == Total(a)
           m == Total(w)
           o == Of(a, t)
<1>1. Accountings(w)
  <2>1. IsFiniteSet(DOMAIN a) BY DEF Accountings
  <2>2. DOMAIN w = DOMAIN a \union {t} BY DEF With
  <2>3. IsFiniteSet(DOMAIN w) BY <2>1, <2>2, FS_AddElement
  <2>4. \A s \in DOMAIN w : w[s] \in Buckets BY DEF With, Accountings
  <2>5. QED BY <2>3, <2>4 DEF Accountings
<1>2. o \in Buckets BY OfTyped
<1> HIDE DEF w, o
<1>3. \A f \in Fields : /\ k[f] \in Int /\ o[f] \in Int /\ e[f] \in Int
                        /\ m[f] = k[f] - o[f] + e[f]
  <2> SUFFICES ASSUME NEW f \in Fields
               PROVE  /\ k[f] \in Int /\ o[f] \in Int /\ e[f] \in Int
                      /\ m[f] = k[f] - o[f] + e[f]
    OBVIOUS
  <2>1. k[f] = SumFunction(FieldOf(a, f)) BY TotalIsSum DEF Accountings
  <2>2. m[f] = SumFunction(FieldOf(w, f)) BY <1>1, TotalIsSum DEF Accountings
  <2>3. o[f] \in Int /\ e[f] \in Int BY <1>2 DEF Buckets
  <2>4. QED BY <2>1, <2>2, <2>3, FieldWith DEF w, o
<1> HIDE DEF k, m
<1> DEFINE Rest == {"realized", "entry", "dca", "close", "other_bot", "funding",
                    "rebates", "unattributed"}
<1>4. \A f \in Rest : /\ k[f] \in Int /\ o[f] \in Int /\ e[f] \in Int
                      /\ m[f] = k[f] - o[f] + e[f]
  BY <1>3 DEF Fields
<1>5. Worth(k) \in Int BY <1>4 DEF Worth, NetPnl, TotalFees
<1>6. Worth(m) = Worth(k) - Worth(o) + Worth(e)
  BY <1>4 DEF Worth, NetPnl, TotalFees
<1>7. Worth(o) \in Int BY <1>4 DEF Worth, NetPnl, TotalFees
<1>8. Worth(m) = Worth(k) + x
  <2>1. Worth(e) = Worth(o) + x BY DEF o
  <2>2. QED BY <1>5, <1>6, <1>7, <2>1
<1>9. QED BY <1>1, <1>5, <1>8 DEF w, k, m

\* Booking an execution is worth its cash flow.
LEMMA BookWorth ==
  ASSUME NEW e \in Buckets, NEW row, row.fee \in Int, row.realized \in Int
  PROVE  Worth(Book(e, row)) = Worth(e) + (row.realized - row.fee)
<1> DEFINE k == Book(e, row)
           r == Role(row.link)
<1>1. /\ e.realized \in Int /\ e.entry \in Int /\ e.dca \in Int /\ e.close \in Int
      /\ e.other_bot \in Int /\ e.funding \in Int /\ e.rebates \in Int
      /\ e.unattributed \in Int
  BY DEF Buckets, Fields
<1>2. k.funding = e.funding BY BookEffect
<1>3. CASE r = "unattributed"
  <2>1. /\ k.unattributed = e.unattributed + row.realized - row.fee
        /\ \A f \in Fields \ {"unattributed", "strangers"} : k[f] = e[f]
    BY <1>3, BookEffect
  <2> HIDE DEF k
  <2>2. /\ k.realized = e.realized /\ k.entry = e.entry /\ k.dca = e.dca
        /\ k.close = e.close /\ k.other_bot = e.other_bot /\ k.rebates = e.rebates
    BY <2>1 DEF Fields
  <2>3. Worth(k) = Worth(e) + (row.realized - row.fee)
    BY <1>1, <1>2, <2>1, <2>2 DEF Worth, NetPnl, TotalFees
  <2>4. QED BY <2>3 DEF k
<1>4. CASE r # "unattributed"
  <2>1. /\ r \in FeeRoles /\ k.unattributed = e.unattributed
        /\ k.realized = e.realized + row.realized
        /\ k.rebates = IF row.fee < 0 THEN e.rebates - row.fee ELSE e.rebates
        /\ \A f \in FeeRoles :
             k[f] = IF f = r /\ ~(row.fee < 0) THEN e[f] + row.fee ELSE e[f]
    BY <1>4, BookEffect
  <2> HIDE DEF k, r
  <2>2. TotalFees(k) = IF row.fee < 0 THEN TotalFees(e) ELSE TotalFees(e) + row.fee
    <3>1. r \in {"entry", "dca", "close", "other_bot"} BY <2>1 DEF FeeRoles
    <3>2. \A f \in {"entry", "dca", "close", "other_bot"} :
             k[f] = IF f = r /\ ~(row.fee < 0) THEN e[f] + row.fee ELSE e[f]
      BY <2>1 DEF FeeRoles
    <3>3. QED BY <1>1, <3>1, <3>2 DEF TotalFees
  <2>3. TotalFees(e) \in Int BY <1>1 DEF TotalFees
  <2>4. Worth(k) = Worth(e) + (row.realized - row.fee)
    BY <1>1, <1>2, <2>1, <2>2, <2>3 DEF Worth, NetPnl
  <2>5. QED BY <2>4 DEF k
<1>5. QED BY <1>3, <1>4

\* An execution adds its cash flow to what the account is worth.
LEMMA ExecutionWorth ==
  ASSUME NEW a, Accountings(a), Worth(Total(a)) \in Int, NEW row \in Executions
  PROVE  /\ Accountings(WithExecution(a, row)) /\ Flow(row) \in Int
         /\ Worth(Total(WithExecution(a, row))) = Worth(Total(a)) + Flow(row)
<1>1. row.fee \in Int /\ row.realized \in Int
  <2>1. CASE row \in ForeignExecutions
    <3>1. row \in [symbol : STRING, link : STRING, side : STRING, fee : Int,
                   realized : Int]
      BY <2>1, ReplayAssumption
    <3>2. QED BY <3>1
  <2>2. CASE row \in OwnExecutions BY <2>2 DEF OwnExecutions
  <2>3. QED BY <2>1, <2>2 DEF Executions
<1>2. Flow(row) \in Int BY <1>1 DEF Flow
<1>3. CASE row.symbol = NoSymbol
  <2>1. WithExecution(a, row) = a /\ Flow(row) = 0 BY <1>3 DEF WithExecution, Flow
  <2>2. QED BY <1>2, <2>1
<1>4. CASE row.symbol # NoSymbol
  <2> DEFINE s == row.symbol
             o == Of(a, s)
             e == Book(o, row)
  <2>1. WithExecution(a, row) = With(a, s, e) BY <1>4 DEF WithExecution
  <2>2. o \in Buckets BY OfTyped
  <2>3. e \in Buckets BY <1>1, <2>2, BookEffect
  <2>4. Flow(row) = row.realized - row.fee BY <1>4 DEF Flow
  <2>5. Worth(e) = Worth(o) + Flow(row) BY <1>1, <2>2, <2>4, BookWorth
  <2> HIDE DEF e, s
  <2>6. QED BY <1>2, <2>1, <2>3, <2>5, WorthWith
<1>5. QED BY <1>3, <1>4

-----------------------------------------------------------------------------
(* The cash flows, row by row *)

\* A log row adds its cash flow, where the fold keeps it.
LEMMA LogRowWorth ==
  ASSUME NEW a, Accountings(a), Worth(Total(a)) \in Int, NEW row \in LogEntries
  PROVE  /\ Accountings(WithLogRow(a, row)) /\ row.cash \in Int
         /\ Worth(Total(WithLogRow(a, row)))
              = Worth(Total(a)) + IF Keeps(row) THEN row.cash ELSE 0
<1> DEFINE s == Owner(row)
           o == Of(a, s)
<1>1. row.cash \in Int
  <2>1. CASE row \in LogRows
    <3>1. row \in [symbol : STRING, type : STRING, cash : Int]
      BY <2>1, ReplayAssumption
    <3>2. QED BY <3>1
  <2>2. CASE row \in OwnLog BY <2>2 DEF OwnLog
  <2>3. QED BY <2>1, <2>2 DEF LogEntries
<1>2. o \in Buckets BY OfTyped
<1> HIDE DEF o, s
<1>3. /\ o.realized \in Int /\ o.entry \in Int /\ o.dca \in Int /\ o.close \in Int
      /\ o.other_bot \in Int /\ o.funding \in Int /\ o.rebates \in Int
      /\ o.unattributed \in Int
  BY <1>2 DEF Buckets, Fields
<1>4. row.type \in NonStrategyTypes => row.type \notin FundingTypes
  BY DEF NonStrategyTypes, FundingTypes
<1>5. "HYPEUSDT" \in Tracked BY ReplayAssumption
<1>6. CASE row.type \in FundingTypes /\ row.symbol \in Tracked
  <2> DEFINE x == o.funding + row.cash
             e == [o EXCEPT !.funding = x]
  <2>1. WithLogRow(a, row) = With(a, s, e) BY <1>4, <1>6 DEF WithLogRow, o, s
  <2>2. x \in Int BY <1>1, <1>3
  <2> HIDE DEF x
  <2>3. /\ e \in Buckets
        /\ \A g \in Fields : e[g] = IF g = "funding" THEN x ELSE o[g]
    BY <1>2, <2>2, BucketExcept DEF Fields
  <2> HIDE DEF e
  <2>4. /\ e.realized = o.realized /\ e.entry = o.entry /\ e.dca = o.dca
        /\ e.close = o.close /\ e.other_bot = o.other_bot /\ e.funding = x
        /\ e.rebates = o.rebates /\ e.unattributed = o.unattributed
    BY <2>3 DEF Fields
  <2>5. Worth(e) = Worth(o) + row.cash
    BY <1>1, <1>3, <2>4 DEF Worth, NetPnl, TotalFees, x
  <2>6. Keeps(row) BY <1>6 DEF Keeps
  <2>7. /\ Accountings(With(a, s, e))
        /\ Worth(Total(With(a, s, e))) = Worth(Total(a)) + row.cash
    BY <1>1, <2>3, <2>5, WorthWith DEF o
  <2>8. QED BY <1>1, <2>1, <2>6, <2>7
<1>7. CASE row.type \in NonStrategyTypes
  <2> DEFINE x == o.unattributed + row.cash
             e == [o EXCEPT !.unattributed = x]
  <2>1. WithLogRow(a, row) = With(a, s, e) BY <1>4, <1>7 DEF WithLogRow, o, s
  <2>2. x \in Int BY <1>1, <1>3
  <2> HIDE DEF x
  <2>3. /\ e \in Buckets
        /\ \A g \in Fields : e[g] = IF g = "unattributed" THEN x ELSE o[g]
    BY <1>2, <2>2, BucketExcept DEF Fields
  <2> HIDE DEF e
  <2>4. /\ e.realized = o.realized /\ e.entry = o.entry /\ e.dca = o.dca
        /\ e.close = o.close /\ e.other_bot = o.other_bot /\ e.funding = o.funding
        /\ e.rebates = o.rebates /\ e.unattributed = x
    BY <2>3 DEF Fields
  <2>5. Worth(e) = Worth(o) + row.cash
    BY <1>1, <1>3, <2>4 DEF Worth, NetPnl, TotalFees, x
  <2>6. Keeps(row) BY <1>7 DEF Keeps
  <2>7. /\ Accountings(With(a, s, e))
        /\ Worth(Total(With(a, s, e))) = Worth(Total(a)) + row.cash
    BY <1>1, <2>3, <2>5, WorthWith DEF o
  <2>8. QED BY <1>1, <2>1, <2>6, <2>7
<1>8. CASE ~Keeps(row)
  <2>1. WithLogRow(a, row) = a BY <1>5, <1>8 DEF WithLogRow, Keeps
  <2>2. QED BY <1>1, <1>8, <2>1
<1>9. QED BY <1>6, <1>7, <1>8 DEF Keeps

\* The executions are worth their cash flows.
RowsOK(f) ==
  LET a == FoldedExecutions([s \in Tracked |-> Empty], f) IN
  /\ Accountings(a) /\ Worth(Total(a)) \in Int
  /\ Worth(Total(a)) = SumFunction(FlowsOf(f))

\* Whatever buckets it starts from, the log adds the cash flows it keeps.
CashOK(f) ==
  /\ SumFunction(CashOf(f, KeptIn(f))) \in Int
  /\ \A a : Accountings(a) /\ Worth(Total(a)) \in Int =>
       LET k == FoldedLog(a, f) IN
       /\ Accountings(k) /\ Worth(Total(k)) \in Int
       /\ Worth(Total(k)) = Worth(Total(a)) + SumFunction(CashOf(f, KeptIn(f)))

\* The invariant behind the cash flows.
FlowOK == RowsOK(rows) /\ CashOK(log)

\* One more execution adds its cash flow.
LEMMA FlowsAppend ==
  ASSUME NEW f \in Seq(Executions), NEW row \in Executions, RowsOK(f)
  PROVE  RowsOK(Append(f, row))
<1> DEFINE base == [s \in Tracked |-> Empty]
           a == FoldedExecutions(base, f)
           n == Len(f)
           more == Append(f, row)
           e == FlowsOf(more)
<1>1. FoldedExecutions(base, more) = WithExecution(a, row)
  <2> HIDE DEF base
  <2>1. QED BY ONLY f \in Seq(Executions), row \in Executions, ExecutionsFold
<1>2. Accountings(a) /\ Worth(Total(a)) \in Int
      /\ Worth(Total(a)) = SumFunction(FlowsOf(f))
  BY DEF RowsOK
<1> HIDE DEF base, a
<1>3. /\ Accountings(WithExecution(a, row)) /\ Flow(row) \in Int
      /\ Worth(Total(WithExecution(a, row))) = Worth(Total(a)) + Flow(row)
  BY <1>2, ExecutionWorth
<1>4. \A x \in Executions : Flow(x) \in Int
  <2> SUFFICES ASSUME NEW x \in Executions PROVE Flow(x) \in Int OBVIOUS
  <2>1. QED BY <1>2, ExecutionWorth
<1>5. n \in Nat /\ DOMAIN f = 1 .. n /\ DOMAIN more = 1 .. n + 1
      /\ \A i \in 1 .. n + 1 : more[i] \in Executions
                               /\ more[i] = IF i = n + 1 THEN row ELSE f[i]
  OBVIOUS
<1> HIDE DEF more, n
<1>6. e \in [1 .. n + 1 -> Int] /\ [i \in 1 .. n |-> e[i]] = FlowsOf(f)
      /\ e[n + 1] = Flow(row)
  BY <1>4, <1>5 DEF FlowsOf
<1> HIDE DEF e
<1>7. SumFunction(e) = SumFunction(FlowsOf(f)) + Flow(row)
  BY <1>5, <1>6, SumAppend
<1> DEFINE k == FoldedExecutions(base, more)
<1>8. Accountings(k) /\ Worth(Total(k)) \in Int /\ Worth(Total(k)) = SumFunction(e)
  BY <1>1, <1>2, <1>3, <1>7
<1>9. RowsOK(more)
  <2> HIDE DEF k
  <2>1. k = FoldedExecutions([s \in Tracked |-> Empty], more) BY DEF k, base
  <2>2. QED BY <1>8, <2>1 DEF RowsOK, e
<1>10. QED BY <1>9 DEF more

\* One more log row adds its cash flow, where it is kept.
LEMMA CashAppend ==
  ASSUME NEW f \in Seq(LogEntries), NEW row \in LogEntries, CashOK(f)
  PROVE  CashOK(Append(f, row))
<1> DEFINE n == Len(f)
           more == Append(f, row)
           S == KeptIn(f)
           T == KeptIn(more)
           x == IF Keeps(row) THEN row.cash ELSE 0
           p == SumFunction(CashOf(f, S))
           q == SumFunction(CashOf(more, T))
<1>1. /\ n \in Nat /\ DOMAIN f = 1 .. n /\ DOMAIN more = 1 .. n + 1
      /\ \A i \in 1 .. n : f[i] \in LogEntries
      /\ \A i \in 1 .. n + 1 : more[i] \in LogEntries
                               /\ more[i] = IF i = n + 1 THEN row ELSE f[i]
  OBVIOUS
<1> HIDE DEF more, n
<1>2. \A e \in LogEntries : e.cash \in Int
  <2> SUFFICES ASSUME NEW e \in LogEntries PROVE e.cash \in Int OBVIOUS
  <2>1. CASE e \in LogRows
    <3>1. e \in [symbol : STRING, type : STRING, cash : Int]
      BY <2>1, ReplayAssumption
    <3>2. QED BY <3>1
  <2>2. CASE e \in OwnLog BY <2>2 DEF OwnLog
  <2>3. QED BY <2>1, <2>2 DEF LogEntries
<1>3. T = IF Keeps(row) THEN S \union {n + 1} ELSE S
  <2>1. \A i : i \in T <=> i \in 1 .. n + 1 /\ Keeps(more[i]) BY <1>1 DEF KeptIn
  <2>2. \A i : i \in S <=> i \in 1 .. n /\ Keeps(f[i]) BY <1>1 DEF KeptIn
  <2> HIDE DEF S, T
  <2>3. \A i : i \in 1 .. n + 1 <=> i \in 1 .. n \/ i = n + 1 BY <1>1
  <2>4. more[n + 1] = row /\ \A i \in 1 .. n : more[i] = f[i] BY <1>1
  <2>5. \A i : i \in T <=> i \in S \/ (i = n + 1 /\ Keeps(row))
    BY <2>1, <2>2, <2>3, <2>4
  <2>6. QED BY <2>5
<1>4. S \subseteq 1 .. n /\ n + 1 \notin S BY <1>1 DEF KeptIn
<1>5. IsFiniteSet(S) /\ IsFiniteSet(T)
  <2>1. IsFiniteSet(1 .. n) /\ IsFiniteSet(1 .. n + 1) BY <1>1, FS_Interval
  <2>2. T \subseteq 1 .. n + 1 BY <1>1 DEF KeptIn
  <2> HIDE DEF S, T
  <2>3. QED BY <1>4, <2>1, <2>2, FS_Subset
<1> HIDE DEF S, T
<1>6. /\ CashOf(f, S) \in [S -> Int]
      /\ CashOf(more, S) = CashOf(f, S)
      /\ CashOf(more, T) \in [T -> Int]
  <2>1. \A i \in S : f[i].cash \in Int /\ more[i].cash = f[i].cash
    <3>1. \A i \in S : i \in 1 .. n /\ i \in 1 .. n + 1 /\ i # n + 1 BY <1>1, <1>4
    <3>2. QED BY <1>1, <1>2, <3>1
  <2>2. \A i \in T : more[i].cash \in Int
    <3>1. \A i \in T : i \in 1 .. n + 1 BY <1>1, <1>3, <1>4
    <3>2. QED BY <1>1, <1>2, <3>1
  <2>3. QED BY <2>1, <2>2 DEF CashOf
<1>7. p \in Int BY <1>5, <1>6, SumInt
<1>8. x \in Int BY <1>2
<1>9. q = p + x
  <2>1. CASE ~Keeps(row)
    <3>1. q = p /\ x = 0 BY <1>3, <1>6, <2>1
    <3>2. QED BY <1>7, <3>1
  <2>2. CASE Keeps(row)
    <3> DEFINE g == CashOf(more, T)
               r == [y \in T \ {n + 1} |-> g[y]]
    <3>1. n + 1 \in T /\ T \ {n + 1} = S BY <1>3, <1>4, <2>2
    <3>2. g[n + 1] = row.cash
      <4>1. n + 1 \in 1 .. n + 1 BY <1>1
      <4>2. more[n + 1] = row BY <1>1, <4>1
      <4>3. QED BY <3>1, <4>2 DEF CashOf
    <3>3. r = CashOf(f, S)
      <4>1. \A y \in S : g[y] = f[y].cash BY <1>1, <1>3, <1>4, <2>2 DEF CashOf
      <4>2. QED BY <3>1, <4>1 DEF CashOf
    <3>4. g \in [T -> Int] BY <1>6
    <3> HIDE DEF g
    <3>5. SumFunction(g) = g[n + 1] + SumFunction(r) BY <1>5, <3>1, <3>4, SumTake
    <3>6. q = row.cash + p BY <3>2, <3>3, <3>5 DEF g
    <3>7. QED BY <1>2, <1>7, <2>2, <3>6
  <2>3. QED BY <2>1, <2>2
<1> HIDE DEF p, q
<1>10. q \in Int BY <1>7, <1>8, <1>9
<1>11. ASSUME NEW a, Accountings(a), Worth(Total(a)) \in Int
       PROVE  LET m == FoldedLog(a, more) IN
              /\ Accountings(m) /\ Worth(Total(m)) \in Int
              /\ Worth(Total(m)) = Worth(Total(a)) + q
  <2> DEFINE k == FoldedLog(a, f)
  <2>1. FoldedLog(a, more) = WithLogRow(k, row)
    BY ONLY f \in Seq(LogEntries), row \in LogEntries, LogsFold DEF more
  <2>2. Accountings(k) /\ Worth(Total(k)) \in Int /\ Worth(Total(k)) = Worth(Total(a)) + p
    BY <1>11 DEF CashOK, p, S
  <2> HIDE DEF k
  <2> DEFINE m == WithLogRow(k, row)
  <2>3. Accountings(m) /\ Worth(Total(m)) = Worth(Total(k)) + x
    BY <2>2, LogRowWorth
  <2> HIDE DEF m, x
  <2>4. Worth(Total(m)) \in Int /\ Worth(Total(m)) = Worth(Total(a)) + q
    BY <1>7, <1>8, <1>9, <1>11, <2>2, <2>3
  <2>5. QED BY <2>1, <2>3, <2>4 DEF m
<1>12. CashOK(more) BY <1>10, <1>11 DEF CashOK, q, T
<1>13. QED BY <1>12 DEF more

\* A row that leaves a sequence typed is one of its type.
LEMMA RowTyped ==
  ASSUME NEW S, NEW T, NEW f \in Seq(T), NEW row, Append(f, row) \in Seq(S)
  PROVE  row \in S
<1> DEFINE more == Append(f, row)
<1>1. Len(more) = Len(f) + 1 /\ more[Len(f) + 1] = row /\ Len(f) + 1 \in 1 .. Len(more)
  OBVIOUS
<1> HIDE DEF more
<1>2. more \in Seq(S) BY DEF more
<1>3. QED BY <1>1, <1>2

\* What a step adds to the executions and to the log.
LEMMA RowsGrow ==
  ASSUME Typed, Next \/ UNCHANGED vars
  PROVE  /\ \/ rows' = rows
            \/ \E row : rows' = Append(rows, row)
            \/ \E row, more : rows' = Append(Append(rows, row), more)
         /\ \/ log' = log
            \/ \E row : log' = Append(log, row)
<1>1. CASE UNCHANGED vars BY <1>1 DEF vars
<1>2. ASSUME NEW c \in Candles, NEW t \in 1 .. MaxCandles, NEW payment \in Payments,
             NextCandle(c, t, payment)
      PROVE  /\ rows' = rows \/ \E row : rows' = Append(rows, row)
             /\ log' = log \/ \E row : log' = Append(log, row)
  BY <1>2 DEF NextCandle
<1>3. CASE TakeProfit
  <2> DEFINE sell == Execution("botdca-tp-", "Sell", TpPrice(cycle) * TotalQty(cycle),
                               Gross(cycle, TpPrice(cycle)))
             buy == Execution("botdca-open-", "Buy", TpPrice(cycle) * EntryQty, 0)
             s == Append(rows, sell)
  <2>1. log' = log /\ (rows' = s \o <<buy>> \/ rows' = s \o <<>>)
    BY <1>3 DEF TakeProfit
  <2> HIDE DEF sell, buy
  <2>2. s \in Seq(Executions \union {sell})
    <3>1. rows \in Seq(Executions) BY DEF Typed
    <3>2. QED BY <3>1
  <2> HIDE DEF s
  <2>3. s \o <<buy>> = Append(s, buy) /\ s \o <<>> = s BY <2>2
  <2>4. QED BY <2>1, <2>3 DEF s
<1>4. CASE AddDca BY <1>4 DEF AddDca
<1>5. CASE EndSegment BY <1>5 DEF EndSegment
<1>6. CASE Stranger BY <1>6 DEF Stranger
<1>7. QED BY <1>1, <1>2, <1>3, <1>4, <1>5, <1>6 DEF Next

\* Every step keeps the cash flows.
LEMMA FlowStep ==
  ASSUME Typed, Typed', FlowOK, Next \/ UNCHANGED vars
  PROVE  FlowOK'
<1>1. /\ rows \in Seq(Executions) /\ rows' \in Seq(Executions)
      /\ log \in Seq(LogEntries) /\ log' \in Seq(LogEntries)
      /\ RowsOK(rows) /\ CashOK(log)
  BY DEF Typed, FlowOK
<1>2. RowsOK(rows')
  <2>1. CASE rows' = rows BY <1>1, <2>1
  <2>2. ASSUME NEW row, rows' = Append(rows, row) PROVE RowsOK(rows')
    <3>1. row \in Executions BY <1>1, <2>2, RowTyped
    <3>2. QED BY <1>1, <2>2, <3>1, FlowsAppend
  <2>3. ASSUME NEW row, NEW more, rows' = Append(Append(rows, row), more)
        PROVE  RowsOK(rows')
    <3> DEFINE s == Append(rows, row)
    <3>1. s \in Seq(Executions \union {row}) BY <1>1
    <3>2. rows' = Append(s, more) BY <2>3
    <3> HIDE DEF s
    <3>3. more \in Executions BY <1>1, <3>1, <3>2, RowTyped
    <3>4. row \in Executions
      <4>1. Len(rows') = Len(rows) + 2 /\ rows'[Len(rows) + 1] = row
        BY <1>1, <2>3
      <4>2. Len(rows) + 1 \in 1 .. Len(rows') BY <1>1, <4>1
      <4>3. QED BY <1>1, <4>1, <4>2
    <3>5. s \in Seq(Executions) BY <1>1, <3>4 DEF s
    <3>6. RowsOK(s) BY <1>1, <3>4, FlowsAppend DEF s
    <3>7. QED BY <3>2, <3>3, <3>5, <3>6, FlowsAppend
  <2>4. QED BY <2>1, <2>2, <2>3, RowsGrow
<1>3. CashOK(log')
  <2>1. CASE log' = log BY <1>1, <2>1
  <2>2. ASSUME NEW row, log' = Append(log, row) PROVE CashOK(log')
    <3>1. row \in LogEntries BY <1>1, <2>2, RowTyped
    <3>2. QED BY <1>1, <2>2, <3>1, CashAppend
  <2>3. QED BY <2>1, <2>2, RowsGrow
<1>4. QED BY <1>2, <1>3 DEF FlowOK

\* At first nothing has flowed.
LEMMA FlowInit ==
  ASSUME Init
  PROVE  FlowOK
<1>1. rows = <<>> /\ log = <<>> BY DEF Init
<1> DEFINE none == <<>>
           base == [s \in Tracked |-> Empty]
<1>2. FoldedExecutions(base, none) = base /\ \A a : FoldedLog(a, none) = a
  <2> DEFINE zero == 0
             S == {0}
  <2>1. none \in Seq(S) /\ zero \in S OBVIOUS
  <2> HIDE DEF S, zero, base
  <2>2. QED BY <2>1, ExecutionsFold, LogsFold
<1>3. Accountings(base)
  <2>1. DOMAIN base = Tracked /\ \A s \in Tracked : base[s] = Empty OBVIOUS
  <2>2. IsFiniteSet(Tracked) BY ReplayAssumption
  <2> HIDE DEF base
  <2>3. QED BY <2>1, <2>2, EmptyTyped DEF Accountings
<1>4. Worth(Total(base)) = 0
  <2> DEFINE k == Total(base)
  <2>1. \A f \in Fields : k[f] = 0
    <3> SUFFICES ASSUME NEW f \in Fields PROVE k[f] = 0 OBVIOUS
    <3> DEFINE e == FieldOf(base, f)
    <3>1. DOMAIN base = Tracked /\ \A s \in Tracked : base[s] = Empty OBVIOUS
    <3>2. Empty[f] = 0 BY EmptyTyped
    <3> HIDE DEF base
    <3>3. e \in [Tracked -> Nat] /\ \A s \in Tracked : e[s] = 0
      BY <3>1, <3>2 DEF FieldOf
    <3>4. k[f] = SumFunction(e) BY <1>3, TotalIsSum DEF Accountings
    <3> HIDE DEF e, k
    <3>5. IsFiniteSet(Tracked) BY ReplayAssumption
    <3>6. QED BY <3>3, <3>4, <3>5, SumZero
  <2> HIDE DEF k
  <2>2. /\ k.realized = 0 /\ k.entry = 0 /\ k.dca = 0 /\ k.close = 0 /\ k.other_bot = 0
        /\ k.funding = 0 /\ k.rebates = 0 /\ k.unattributed = 0
    BY <2>1 DEF Fields
  <2>3. Worth(k) = 0 BY <2>2 DEF Worth, NetPnl, TotalFees
  <2>4. QED BY <2>3 DEF k
<1>5. /\ SumFunction(FlowsOf(none)) = 0 /\ SumFunction(CashOf(none, KeptIn(none))) = 0
  <2>1. DOMAIN FlowsOf(none) = {} BY DEF FlowsOf
  <2>2. KeptIn(none) = {} BY DEF KeptIn
  <2>3. DOMAIN CashOf(none, KeptIn(none)) = {} BY <2>2 DEF CashOf
  <2> HIDE DEF none
  <2>4. QED BY <2>1, <2>3, SumOfNone
<1>6. RowsOK(none)
  <2> HIDE DEF none
  <2>1. FoldedExecutions([s \in Tracked |-> Empty], none) = base BY <1>2
  <2> HIDE DEF base
  <2>2. QED BY <1>3, <1>4, <1>5, <2>1 DEF RowsOK
<1>7. CashOK(none)
  <2> HIDE DEF none, base
  <2>1. SUFFICES ASSUME NEW a, Accountings(a), Worth(Total(a)) \in Int
                 PROVE  LET k == FoldedLog(a, none) IN
                        /\ Accountings(k) /\ Worth(Total(k)) \in Int
                        /\ Worth(Total(k)) = Worth(Total(a)) + 0
    BY <1>5 DEF CashOK
  <2>2. FoldedLog(a, none) = a BY <1>2
  <2>3. Worth(Total(a)) = Worth(Total(a)) + 0 BY <2>1
  <2>4. QED BY <2>1, <2>2, <2>3
<1>8. QED BY <1>1, <1>6, <1>7 DEF FlowOK

\* What the invariant says of the cash flows.
LEMMA FlowSays ==
  ASSUME Typed, FlowOK
  PROVE  NothingLost
<1> DEFINE base == [s \in Tracked |-> Empty]
           a == FoldedExecutions(base, rows)
           k == FoldedLog(a, log)
           kept == {i \in DOMAIN log :
                      \/ log[i].type \in NonStrategyTypes
                      \/ log[i].type \in FundingTypes /\ log[i].symbol \in Tracked}
<1>1. Accounted(rows, log) = k BY DEF Accounted, FoldedLog, FoldedExecutions
<1>2. /\ Accountings(a) /\ Worth(Total(a)) \in Int
      /\ Worth(Total(a)) = SumFunction(FlowsOf(rows))
  BY DEF FlowOK, RowsOK
<1> HIDE DEF a
<1>3. Worth(Total(k)) = SumFunction(FlowsOf(rows)) + SumFunction(CashOf(log, KeptIn(log)))
  BY <1>2 DEF FlowOK, CashOK
<1>4. kept = KeptIn(log) BY DEF KeptIn, Keeps
<1>5. IsFiniteSet(DOMAIN rows) /\ IsFiniteSet(kept)
  <2>1. /\ DOMAIN rows = 1 .. Len(rows) /\ Len(rows) \in Nat
        /\ DOMAIN log = 1 .. Len(log) /\ Len(log) \in Nat
    BY DEF Typed
  <2>2. IsFiniteSet(DOMAIN rows) /\ IsFiniteSet(DOMAIN log) BY <2>1, FS_Interval
  <2>3. kept \subseteq DOMAIN log OBVIOUS
  <2> HIDE DEF kept
  <2>4. QED BY <2>2, <2>3, FS_Subset
<1>6. MapThenSumSet(LAMBDA i : IF rows[i].symbol = NoSymbol THEN 0
                               ELSE rows[i].realized - rows[i].fee, DOMAIN rows)
        = SumFunction(FlowsOf(rows))
  BY <1>5, FlowsAreSum
<1> HIDE DEF k
<1>7. MapThenSumSet(LAMBDA i : log[i].cash, kept) = SumFunction(CashOf(log, KeptIn(log)))
  <2> HIDE DEF kept
  <2>1. QED BY <1>4, <1>5, CashIsSum
<1>8. NetPnl(Total(k)) + Total(k).unattributed
        = MapThenSumSet(LAMBDA i : IF rows[i].symbol = NoSymbol THEN 0
                                   ELSE rows[i].realized - rows[i].fee, DOMAIN rows)
          + MapThenSumSet(LAMBDA i : log[i].cash, kept)
  BY <1>3, <1>6, <1>7 DEF Worth
<1>9. QED BY <1>1, <1>8 DEF NothingLost

\* Every cash flow of the account is in one bucket (accounting.py:
\* accumulate_executions, accumulate_transaction_log, PortfolioAccounting.totals).
THEOREM CashIsKept == Spec => []NothingLost
<1>1. Init => FlowOK BY FlowInit
<1>2. Typed /\ Typed' /\ FlowOK /\ [Next]_vars => FlowOK' BY FlowStep
<1>3. Typed /\ FlowOK => NothingLost BY FlowSays
<1>4. QED BY <1>1, <1>2, <1>3, ReplayTyped, PTL DEF Spec

-----------------------------------------------------------------------------
(* The record of marks *)

\* The greatest and the least of a set of numbers.
Tops(x, S) == x \in S /\ \A y \in S : y <= x
Bottoms(x, S) == x \in S /\ \A y \in S : x <= y

\* The peak of a record up to mark i, and the marks below it.
PeakAt(m, i) == Max({0} \union {m[j].equity : j \in 1 .. i})
Sunk(m) == {i \in 1 .. Len(m) : m[i].equity < PeakAt(m, i)}

\* The last mark up to i that is not below its peak, the time after it, and the
\* marks that end a time under water.
Surface(m, i) == Max({0} \union {j \in 1 .. i : j \notin Sunk(m)})
Since(m, i) == m[1 + Surface(m, i)].at
Ends(m) == {i \in 2 .. Len(m) : i - 1 \in Sunk(m) /\ i \notin Sunk(m)}

\* The times under water, as the book and as the record have them.
Ongoing(b, m) == IF b.underwater = Never THEN 0 ELSE m[Len(m)].at - b.underwater
Lengths(b) == {b.recoveries[i] : i \in DOMAIN b.recoveries}
Spell(m, i) == m[IF i < Len(m) THEN i + 1 ELSE i].at - Since(m, i)
Spells(m) == {Spell(m, i) : i \in Sunk(m)}

\* The book's peak, drawdown, worst and notional are the record's.
PeakOK(b, m) ==
  /\ Tops(b.peak, {0} \union {m[i].equity : i \in 1 .. Len(m)})
  /\ \A i \in 1 .. Len(m) : PeakAt(m, i) \in Int

ExtremesOK(b, m) ==
  /\ Bottoms(b.worst, {0} \union {m[i].floating : i \in 1 .. Len(m)})
  /\ b.maxNotional >= 0
  /\ IF m = <<>> THEN b.drawdown = 0 /\ b.maxNotional = 0
     ELSE /\ Tops(b.drawdown, {PeakAt(m, i) - m[i].equity : i \in 1 .. Len(m)})
          /\ Tops(b.maxNotional, {m[i].notional : i \in 1 .. Len(m)})

\* The book knows since when it is under water.
WaterOK(b, m) ==
  /\ b.underwater = IF Len(m) \in Sunk(m) THEN Since(m, Len(m)) ELSE Never
  /\ \A i \in Sunk(m) : Surface(m, i) \in 0 .. (i - 1)

\* It has one length for every end.
RecoveriesOK(b, m) ==
  /\ Len(b.recoveries) = Cardinality(Ends(m))
  /\ \A i \in Ends(m) : b.recoveries[Cardinality({j \in Ends(m) : j <= i})]
                          = m[i].at - Since(m, i - 1)

\* The longest of them is the longest spell of the record.
LongestOK(b, m) ==
  \E x \in Int : /\ Tops(x, {Ongoing(b, m)} \union Lengths(b))
                 /\ Tops(x, {0} \union Spells(m))

MeasuredOK(b, m) ==
  PeakOK(b, m) /\ ExtremesOK(b, m) /\ WaterOK(b, m) /\ RecoveriesOK(b, m) /\ LongestOK(b, m)

\* What cycle n has gained and lost at its marks, which the book has the extremes
\* of while the cycle is in hand.
OwnOf(m, n) == {m[i].gross : i \in {j \in 1 .. Len(m) : m[j].cycle = n}}

ExcursionsOf(b, c, m, t, n) ==
  /\ \A i \in 1 .. Len(m) : m[i].at <= t /\ m[i].cycle <= n
  /\ IF Held(c) THEN /\ Tops(b.adverse, {0} \union {-g : g \in OwnOf(m, n)})
                     /\ Tops(b.favorable, {0} \union OwnOf(m, n))
     ELSE OwnOf(m, n) \subseteq {0}

ExcursionsOK == ExcursionsOf(book, cycle, marks, now, Len(replays))

\* Between candles the equity is the last one marked.
SettledOK ==
  path = <<>> /\ marks # <<>> => Equity(book, cycle, price) = marks[Len(marks)].equity

\* The invariant behind the running figures.
MeasureOK == MeasuredOK(book, marks) /\ ExcursionsOK /\ SettledOK

\* The greatest of a set is its maximum.
LEMMA TopsMax == ASSUME NEW S \in SUBSET Int, NEW x, Tops(x, S) PROVE Max(S) = x
<1>1. x \in S /\ \A y \in S : x >= y BY DEF Tops
<1>2. \A z \in S : (\A y \in S : z >= y) => z = x BY <1>1
<1>3. QED BY <1>1, <1>2 DEF Max

\* So is the least its minimum.
LEMMA BottomsMin == ASSUME NEW S \in SUBSET Int, NEW x, Bottoms(x, S) PROVE Min(S) = x
<1>1. x \in S /\ \A y \in S : x =< y BY DEF Bottoms
<1>2. \A z \in S : (\A y \in S : z =< y) => z = x BY <1>1
<1>3. QED BY <1>1, <1>2 DEF Min

\* A record with one more mark.
LEMMA RecordAppend ==
  ASSUME NEW m \in Seq(Marks), NEW e \in Marks
  PROVE  /\ Append(m, e) \in Seq(Marks) /\ Append(m, e) # <<>>
         /\ Len(m) \in Nat /\ Len(Append(m, e)) = Len(m) + 1
         /\ \A i \in 1 .. Len(m) : Append(m, e)[i] = m[i]
         /\ Append(m, e)[Len(m) + 1] = e
         /\ \A i \in 1 .. Len(m) + 1 :
              i \in 1 .. Len(m) \/ i = Len(m) + 1
<1> DEFINE k == Append(m, e)
           n == Len(m)
<1>1. k \in Seq(Marks) /\ n \in Nat /\ Len(k) = n + 1 /\ k[n + 1] = e OBVIOUS
<1>2. \A i \in 1 .. n : k[i] = m[i] OBVIOUS
<1> HIDE DEF k, n
<1>3. k # <<>>
  <2>1. Len(k) # 0 BY <1>1
  <2>2. QED BY <2>1
<1>4. \A i \in 1 .. n + 1 : i \in 1 .. n \/ i = n + 1 BY <1>1
<1>5. QED BY <1>1, <1>2, <1>3, <1>4 DEF k, n

\* What a mark is made of.
LEMMA MarkFields ==
  ASSUME NEW m \in Seq(Marks), NEW i \in 1 .. Len(m)
  PROVE  /\ m[i] \in Marks /\ m[i].equity \in Int /\ m[i].floating \in Int
         /\ m[i].at \in Nat /\ m[i].gross \in Int /\ m[i].notional \in Int
         /\ m[i].cycle \in Nat
<1>1. m[i] \in Marks OBVIOUS
<1>2. QED BY <1>1 DEF Marks

\* A new mark leaves the peaks before it alone, and is under water when it is
\* below the peak so far.
LEMMA PeakAppend ==
  ASSUME NEW m \in Seq(Marks), NEW e \in Marks, NEW b, b.peak \in Int, PeakOK(b, m)
  PROVE  LET k == Append(m, e)
             n == Len(m)
             x == MaxOf(b.peak, e.equity) IN
         /\ \A i \in 1 .. n : PeakAt(k, i) = PeakAt(m, i)
         /\ PeakAt(k, n + 1) = x
         /\ Tops(x, {0} \union {k[i].equity : i \in 1 .. Len(k)})
         /\ Sunk(k) = IF e.equity < b.peak THEN Sunk(m) \union {n + 1} ELSE Sunk(m)
<1> DEFINE k == Append(m, e)
           n == Len(m)
           x == MaxOf(b.peak, e.equity)
<1>1. /\ k \in Seq(Marks) /\ n \in Nat /\ Len(k) = n + 1
      /\ \A i \in 1 .. n : k[i] = m[i]
      /\ k[n + 1] = e
  BY RecordAppend
<1> HIDE DEF k
<1>2. ASSUME NEW i \in 1 .. n PROVE PeakAt(k, i) = PeakAt(m, i)
  <2>1. {k[j].equity : j \in 1 .. i} = {m[j].equity : j \in 1 .. i}
    <3>1. \A j \in 1 .. i : k[j] = m[j] BY <1>1
    <3>2. QED BY <3>1
  <2>2. QED BY <2>1 DEF PeakAt
<1> DEFINE S == {m[i].equity : i \in 1 .. n}
           T == {k[i].equity : i \in 1 .. n + 1}
<1>3. T = S \union {e.equity}
  <2>1. 1 .. n + 1 = (1 .. n) \union {n + 1} BY <1>1
  <2>2. QED BY <1>1, <2>1
<1>4. e.equity \in Int /\ S \subseteq Int
  <2>1. e.equity \in Int BY DEF Marks
  <2>2. QED BY <2>1, MarkFields
<1>5. Tops(b.peak, {0} \union S) BY DEF PeakOK
<1> HIDE DEF S, T
<1>6. Tops(x, {0} \union T) /\ T \subseteq Int
  <2>1. b.peak \in {0} \union S /\ \A y \in {0} \union S : y <= b.peak BY <1>5 DEF Tops
  <2>2. x \in {b.peak, e.equity} /\ b.peak <= x /\ e.equity <= x BY <1>4 DEF MaxOf
  <2>3. x \in {0} \union T BY <1>3, <2>1, <2>2
  <2>4. \A y \in {0} \union S : y <= x BY <1>4, <2>1, <2>2
  <2>5. \A y \in {0} \union T : y <= x BY <1>3, <2>2, <2>4
  <2>6. QED BY <1>3, <1>4, <2>3, <2>5 DEF Tops
<1>7. PeakAt(k, n + 1) = x
  <2>1. {0} \union T \in SUBSET Int BY <1>6
  <2>2. Max({0} \union T) = x BY <1>6, <2>1, TopsMax
  <2>3. QED BY <2>2 DEF PeakAt, T
<1>8. n + 1 \in Sunk(k) <=> e.equity < b.peak
  <2>1. n + 1 \in 1 .. Len(k) BY <1>1
  <2>2. n + 1 \in Sunk(k) <=> e.equity < x BY <1>1, <1>7, <2>1 DEF Sunk
  <2>3. QED BY <1>4, <2>2 DEF MaxOf
<1>9. \A i \in 1 .. n : i \in Sunk(k) <=> i \in Sunk(m)
  BY <1>1, <1>2 DEF Sunk
<1>10. Sunk(k) \subseteq 1 .. n + 1 /\ Sunk(m) \subseteq 1 .. n BY <1>1 DEF Sunk
<1>11. \A i \in 1 .. n + 1 : i \in 1 .. n \/ i = n + 1 BY <1>1
<1>12. Sunk(k) = IF e.equity < b.peak THEN Sunk(m) \union {n + 1} ELSE Sunk(m)
  <2>1. CASE e.equity < b.peak
    <3>1. Sunk(k) = Sunk(m) \union {n + 1} BY <1>1, <1>8, <1>9, <1>10, <1>11, <2>1
    <3>2. QED BY <2>1, <3>1
  <2>2. CASE ~(e.equity < b.peak)
    <3>1. Sunk(k) = Sunk(m) BY <1>1, <1>8, <1>9, <1>10, <1>11, <2>2
    <3>2. QED BY <2>2, <3>1
  <2>3. QED BY <2>1, <2>2
<1>13. QED BY <1>1, <1>2, <1>6, <1>7, <1>12 DEF T, k

\* It leaves the times under water before it alone, and goes on with the last one
\* or begins one.
LEMMA SinceAppend ==
  ASSUME NEW m \in Seq(Marks), NEW e \in Marks, NEW b, WaterOK(b, m),
         Sunk(Append(m, e)) \in {Sunk(m), Sunk(m) \union {Len(m) + 1}}
  PROVE  LET k == Append(m, e)
             n == Len(m) IN
         /\ \A i \in Sunk(m) : Surface(k, i) = Surface(m, i) /\ Since(k, i) = Since(m, i)
         /\ \A i \in Sunk(m) : Since(m, i) \in Nat /\ i \in 1 .. n
         /\ n + 1 \in Sunk(k) =>
              /\ Surface(k, n + 1) \in 0 .. n
              /\ Since(k, n + 1) = IF n \in Sunk(m) THEN Since(m, n) ELSE e.at
<1> DEFINE k == Append(m, e)
           n == Len(m)
<1>1. /\ k \in Seq(Marks) /\ n \in Nat /\ Len(k) = n + 1
      /\ \A i \in 1 .. n : k[i] = m[i]
      /\ k[n + 1] = e
  BY RecordAppend
<1>2. Sunk(k) = Sunk(m) \/ Sunk(k) = Sunk(m) \union {n + 1} OBVIOUS
<1> HIDE DEF k
<1>3. Sunk(m) \subseteq 1 .. n BY DEF Sunk
<1>4. \A i \in 1 .. n : i \in Sunk(k) <=> i \in Sunk(m) BY <1>1, <1>2
<1>5. ASSUME NEW i \in 1 .. n PROVE Surface(k, i) = Surface(m, i)
  <2>1. {j \in 1 .. i : j \notin Sunk(k)} = {j \in 1 .. i : j \notin Sunk(m)}
    BY <1>1, <1>4
  <2>2. QED BY <2>1 DEF Surface
<1>6. ASSUME NEW i \in Sunk(m)
      PROVE  /\ Surface(k, i) = Surface(m, i) /\ Since(k, i) = Since(m, i)
             /\ Since(m, i) \in Nat /\ i \in 1 .. n
  <2>1. i \in 1 .. n /\ Surface(m, i) \in 0 .. (i - 1) BY <1>3 DEF WaterOK
  <2>2. 1 + Surface(m, i) \in 1 .. n BY <1>1, <2>1
  <2>3. m[1 + Surface(m, i)].at \in Nat BY <2>2, MarkFields
  <2>4. QED BY <1>1, <1>5, <2>1, <2>2, <2>3 DEF Since
<1>7. ASSUME n + 1 \in Sunk(k)
      PROVE  /\ Surface(k, n + 1) \in 0 .. n
             /\ Since(k, n + 1) = IF n \in Sunk(m) THEN Since(m, n) ELSE e.at
  <2>1. \A j \in 1 .. n + 1 : j \in 1 .. n \/ j = n + 1 BY <1>1
  <2> DEFINE S == {j \in 1 .. n + 1 : j \notin Sunk(k)}
  <2>2. S = {j \in 1 .. n : j \notin Sunk(m)} BY <1>1, <1>4, <1>7, <2>1
  <2>3. Surface(k, n + 1) = Max({0} \union S) BY DEF Surface
  <2> HIDE DEF S
  <2>4. CASE n \in Sunk(m)
    <3>1. Surface(m, n) = Max({0} \union S) BY <2>2 DEF Surface
    <3>2. Surface(k, n + 1) = Surface(m, n) BY <2>3, <3>1
    <3>3. n \in 1 .. n /\ Surface(m, n) \in 0 .. (n - 1) BY <1>3, <2>4 DEF WaterOK
    <3>4. 1 + Surface(m, n) \in 1 .. n BY <1>1, <3>3
    <3>5. k[1 + Surface(m, n)] = m[1 + Surface(m, n)] BY <1>1, <3>4
    <3>6. Surface(k, n + 1) \in 0 .. n BY <1>1, <3>2, <3>3
    <3>7. QED BY <2>4, <3>2, <3>5, <3>6 DEF Since
  <2>5. CASE n \notin Sunk(m)
    <3>1. Tops(n, {0} \union S) /\ {0} \union S \in SUBSET Int
      <4>1. n = 0 \/ n \in S BY <1>1, <2>2, <2>5
      <4>2. \A j \in S : j \in Int /\ j <= n BY <1>1, <2>2
      <4>3. QED BY <1>1, <4>1, <4>2 DEF Tops
    <3>2. Surface(k, n + 1) = n BY <2>3, <3>1, TopsMax
    <3>3. 1 + Surface(k, n + 1) = n + 1 BY <1>1, <3>2
    <3>4. QED BY <1>1, <2>5, <3>2, <3>3 DEF Since
  <2>6. QED BY <2>4, <2>5
<1>8. QED BY <1>6, <1>7 DEF k

\* It ends a time under water when it follows a mark there and is not there itself.
LEMMA EndsAppend ==
  ASSUME NEW m \in Seq(Marks), NEW e \in Marks,
         Sunk(Append(m, e)) \in {Sunk(m), Sunk(m) \union {Len(m) + 1}}
  PROVE  Ends(Append(m, e)) =
           IF Len(m) \in Sunk(m) /\ Len(m) + 1 \notin Sunk(Append(m, e))
           THEN Ends(m) \union {Len(m) + 1} ELSE Ends(m)
<1> DEFINE k == Append(m, e)
           n == Len(m)
<1>1. n \in Nat /\ Len(k) = n + 1 BY RecordAppend
<1>2. Sunk(k) = Sunk(m) \/ Sunk(k) = Sunk(m) \union {n + 1} OBVIOUS
<1> HIDE DEF k
<1>3. Sunk(m) \subseteq 1 .. n BY DEF Sunk
<1>4. \A i \in 1 .. n : i \in Sunk(k) <=> i \in Sunk(m) BY <1>1, <1>2
<1>5. ASSUME NEW i \in 2 .. n PROVE i \in Ends(k) <=> i \in Ends(m)
  <2>1. i - 1 \in 1 .. n /\ i \in 1 .. n /\ i \in 2 .. n + 1 BY <1>1
  <2>2. QED BY <1>1, <1>4, <2>1 DEF Ends
<1>6. n + 1 \in Ends(k) <=> n \in Sunk(m) /\ n + 1 \notin Sunk(k)
  <2>1. (n + 1) - 1 = n BY <1>1
  <2>2. n \in Sunk(k) <=> n \in Sunk(m) BY <1>1, <1>2
  <2>3. n \in Sunk(m) => n + 1 \in 2 .. n + 1 BY <1>1, <1>3
  <2>4. QED BY <1>1, <2>1, <2>2, <2>3 DEF Ends
<1>7. Ends(k) \subseteq 2 .. n + 1 /\ Ends(m) \subseteq 2 .. n BY <1>1 DEF Ends
<1>8. \A i \in 2 .. n + 1 : i \in 2 .. n \/ i = n + 1 BY <1>1
<1>9. n + 1 \notin Ends(m) BY <1>1, <1>7
<1> DEFINE more == n \in Sunk(m) /\ n + 1 \notin Sunk(k)
<1>10. 2 .. n \subseteq 2 .. n + 1 BY <1>1
<1>11. CASE more
  <2>1. Ends(k) = Ends(m) \union {n + 1} BY <1>5, <1>6, <1>7, <1>8, <1>10, <1>11
  <2>2. QED BY <1>11, <2>1 DEF k
<1>12. CASE ~more
  <2>1. Ends(k) = Ends(m) BY <1>5, <1>6, <1>7, <1>8, <1>10, <1>12
  <2>2. QED BY <1>12, <2>1 DEF k
<1>13. QED BY <1>11, <1>12

-----------------------------------------------------------------------------
(* What a fill, a close and a mark do to the figures of the record *)

\* What a mark does to them.
LEMMA MarkFigures ==
  ASSUME NEW b \in Books, NEW c, NEW p, NEW t
  PROVE  LET k == Mark(b, c, p, t)
             equity == Equity(b, c, p) IN
         /\ k.peak = MaxOf(b.peak, equity)
         /\ k.recoveries = IF equity >= b.peak /\ b.underwater # Never
                           THEN Append(b.recoveries, t - b.underwater) ELSE b.recoveries
         /\ k.underwater = IF equity >= b.peak THEN Never
                           ELSE IF b.underwater = Never THEN t ELSE b.underwater
         /\ k.drawdown = MaxOf(b.drawdown, MaxOf(b.peak, equity) - equity)
         /\ k.worst = MinOf(b.worst, Unrealized(b, c, p))
         /\ k.maxNotional = IF Held(c) THEN MaxOf(b.maxNotional, p * TotalQty(c))
                            ELSE b.maxNotional
         /\ Held(c) => /\ k.adverse = MaxOf(b.adverse, -Gross(c, p))
                       /\ k.favorable = MaxOf(b.favorable, Gross(c, p))
<1> DEFINE equity == Equity(b, c, p)
           recovered == equity >= b.peak /\ b.underwater # Never
           u == MaxOf(b.peak, equity)
           v == IF recovered THEN Append(b.recoveries, t - b.underwater) ELSE b.recoveries
           w == IF equity >= b.peak THEN Never
                ELSE IF b.underwater = Never THEN t ELSE b.underwater
           x == MaxOf(b.drawdown, MaxOf(b.peak, equity) - equity)
           y == MinOf(b.worst, Unrealized(b, c, p))
           a == [b EXCEPT !.peak = u, !.recoveries = v, !.underwater = w,
                          !.drawdown = x, !.worst = y]
           m == Mark(b, c, p, t)
<1>1. m = AtRisk(a, c, p) BY DEF Mark
<1> HIDE DEF u, v, w, x, y, m
<1>2. DOMAIN b = Figures \union {"recoveries"} BY DEF Books
<1>3. /\ a.peak = u /\ a.recoveries = v /\ a.underwater = w /\ a.drawdown = x
      /\ a.worst = y /\ a.maxNotional = b.maxNotional /\ a.adverse = b.adverse
      /\ a.favorable = b.favorable /\ DOMAIN a = DOMAIN b
  BY <1>2 DEF Figures
<1> HIDE DEF a
<1> DEFINE q == MaxOf(a.notional, p * TotalQty(c))
           r == MaxOf(a.maxNotional, p * TotalQty(c))
           e == MaxOf(a.adverse, -Gross(c, p))
           f == MaxOf(a.favorable, Gross(c, p))
           k == [a EXCEPT !.notional = q, !.maxNotional = r, !.adverse = e,
                          !.favorable = f]
<1>4. m = IF Held(c) THEN k ELSE a BY <1>1 DEF AtRisk
<1> HIDE DEF q, r, e, f
<1>5. /\ k.peak = a.peak /\ k.recoveries = a.recoveries /\ k.underwater = a.underwater
      /\ k.drawdown = a.drawdown /\ k.worst = a.worst
      /\ k.maxNotional = r /\ k.adverse = e /\ k.favorable = f
  BY <1>2, <1>3 DEF Figures
<1> HIDE DEF k
<1>6. /\ m.peak = u /\ m.recoveries = v /\ m.underwater = w /\ m.drawdown = x
      /\ m.worst = y
      /\ m.maxNotional = IF Held(c) THEN r ELSE b.maxNotional
      /\ Held(c) => m.adverse = e /\ m.favorable = f
  BY <1>3, <1>4, <1>5
<1>7. r = MaxOf(b.maxNotional, p * TotalQty(c)) BY <1>3 DEF r
<1>8. e = MaxOf(b.adverse, -Gross(c, p)) /\ f = MaxOf(b.favorable, Gross(c, p))
  BY <1>3 DEF e, f
<1>9. QED BY <1>6, <1>7, <1>8 DEF m, u, v, w, x, y

\* Books that say the same of the record.
SameFigures(b, d) ==
  /\ d.peak = b.peak /\ d.recoveries = b.recoveries /\ d.underwater = b.underwater
  /\ d.drawdown = b.drawdown /\ d.worst = b.worst /\ d.maxNotional = b.maxNotional

\* They measure it alike.
LEMMA SameMeasured ==
  ASSUME NEW b, NEW d, NEW m, SameFigures(b, d), MeasuredOK(b, m)
  PROVE  MeasuredOK(d, m)
<1>1. PeakOK(d, m) BY DEF SameFigures, MeasuredOK, PeakOK
<1>2. ExtremesOK(d, m) BY DEF SameFigures, MeasuredOK, ExtremesOK
<1>3. WaterOK(d, m) /\ RecoveriesOK(d, m)
  BY DEF SameFigures, MeasuredOK, WaterOK, RecoveriesOK
<1>4. Ongoing(d, m) = Ongoing(b, m) /\ Lengths(d) = Lengths(b)
  BY DEF SameFigures, Ongoing, Lengths
<1>5. LongestOK(d, m) BY <1>4 DEF MeasuredOK, LongestOK
<1>6. QED BY <1>1, <1>2, <1>3, <1>5 DEF MeasuredOK

\* A fill leaves them alone, and a cycle that opens has no excursions yet.
LEMMA BoughtFigures ==
  ASSUME NEW b \in Books, NEW c
  PROVE  /\ SameFigures(b, Bought(b, c)) /\ SameFigures(b, Opened(b, c))
         /\ Bought(b, c).adverse = b.adverse /\ Bought(b, c).favorable = b.favorable
         /\ Opened(b, c).adverse = 0 /\ Opened(b, c).favorable = 0
<1> DEFINE cost == c.fills[Len(c.fills)].cost
           u == b.openFees + Fee(cost)  v == b.entryFees + Fee(cost)
           w == b.deployed + cost  x == MaxOf(b.maxDeployed, b.deployed + cost)
           y == MaxOf(b.maxLevel, DcaLevel(c))
           a == [b EXCEPT !.openFees = u, !.entryFees = v, !.deployed = w,
                          !.maxDeployed = x, !.maxLevel = y]
           k == [a EXCEPT !.notional = 0, !.adverse = 0, !.favorable = 0]
<1>1. Bought(b, c) = a /\ Opened(b, c) = k BY DEF Bought, Opened
<1>2. DOMAIN b = Figures \union {"recoveries"} BY DEF Books
<1> HIDE DEF u, v, w, x, y
<1>3. SameFigures(b, a) /\ a.adverse = b.adverse /\ a.favorable = b.favorable
      /\ DOMAIN a = DOMAIN b
  BY <1>2 DEF Figures, SameFigures
<1> HIDE DEF a
<1>4. SameFigures(a, k) /\ k.adverse = 0 /\ k.favorable = 0
  BY <1>2, <1>3 DEF Figures, SameFigures
<1> HIDE DEF k
<1>5. SameFigures(b, k) BY <1>3, <1>4 DEF SameFigures
<1>6. QED BY <1>1, <1>3, <1>4, <1>5

\* A close after a mark at its price makes no new peak: what it realizes is what
\* the mark has seen.
LEMMA ClosedFigures ==
  ASSUME NEW b \in Books, NEW c \in Ladders, Held(c), NEW p \in Nat, NEW t \in Nat
  PROVE  SameFigures(Mark(b, c, p, t), Closed(Mark(b, c, p, t), c, p))
<1> DEFINE d == Mark(b, c, p, t)
           g == Gross(c, p)  e == ExitFee(c, p)
           net == g - d.openFees - e
           u == d.gross + g  v == d.fees + d.openFees + e  w == d.exitFees + e
           x == d.net + net  y == MaxOf(d.peak, d.net + net - d.funding)
           m == [d EXCEPT !.gross = u, !.fees = v, !.exitFees = w, !.net = x,
                          !.peak = y, !.openFees = 0, !.deployed = 0]
<1>1. Closed(d, c, p) = m BY DEF Closed
<1>2. d \in Books BY MarkTyped
<1>3. /\ d.openFees = b.openFees /\ d.net = b.net /\ d.funding = b.funding
      /\ d.peak = MaxOf(b.peak, Equity(b, c, p))
  BY MarkKeeps, MarkFigures
<1> HIDE DEF d
<1>4. g \in Int /\ e \in Int BY GrossInt
<1>5. Equity(b, c, p) = b.net - b.funding + (g - b.openFees - e)
  BY DEF Equity, Unrealized
<1> HIDE DEF g, e
<1>6. y = d.peak
  <2>1. /\ b.net \in Int /\ b.funding \in Int /\ b.openFees \in Int /\ b.peak \in Int
    BY BookFields
  <2>2. d.net + net - d.funding = Equity(b, c, p) BY <1>3, <1>4, <1>5, <2>1
  <2>3. QED BY <1>3, <1>4, <1>5, <2>1, <2>2 DEF MaxOf
<1>7. DOMAIN d = Figures \union {"recoveries"} BY <1>2 DEF Books
<1> HIDE DEF net, u, v, w, x, y
<1>8. /\ m.peak = y /\ m.recoveries = d.recoveries /\ m.underwater = d.underwater
      /\ m.drawdown = d.drawdown /\ m.worst = d.worst /\ m.maxNotional = d.maxNotional
  BY <1>7 DEF Figures
<1> HIDE DEF m
<1>9. QED BY <1>1, <1>6, <1>8 DEF SameFigures, d

-----------------------------------------------------------------------------
(* The record, mark by mark *)

\* What a mark makes of a book.
Advances(b, d, e) ==
  /\ d.peak = MaxOf(b.peak, e.equity)
  /\ d.recoveries = IF e.equity >= b.peak /\ b.underwater # Never
                    THEN Append(b.recoveries, e.at - b.underwater) ELSE b.recoveries
  /\ d.underwater = IF e.equity >= b.peak THEN Never
                    ELSE IF b.underwater = Never THEN e.at ELSE b.underwater
  /\ d.drawdown = MaxOf(b.drawdown, MaxOf(b.peak, e.equity) - e.equity)
  /\ d.worst = MinOf(b.worst, e.floating)
  /\ d.maxNotional = MaxOf(b.maxNotional, e.notional)

\* A number alone is the greatest.
LEMMA TopsOne == ASSUME NEW x \in Int PROVE Tops(x, {x})
BY DEF Tops

\* The greatest of a set with one more number.
LEMMA TopsMore ==
  ASSUME NEW S \in SUBSET Int, NEW x, Tops(x, S), NEW y \in Int
  PROVE  Tops(MaxOf(x, y), S \union {y})
<1>1. x \in S /\ x \in Int /\ \A z \in S : z <= x BY DEF Tops
<1> DEFINE w == MaxOf(x, y)
<1>2. w \in {x, y} /\ x <= w /\ y <= w BY <1>1 DEF MaxOf
<1> HIDE DEF w
<1>3. \A z \in S : z <= w BY <1>1, <1>2
<1>4. QED BY <1>1, <1>2, <1>3 DEF Tops, w

\* The same of the least.
LEMMA BottomsMore ==
  ASSUME NEW S \in SUBSET Int, NEW x, Bottoms(x, S), NEW y \in Int
  PROVE  Bottoms(MinOf(x, y), S \union {y})
<1>1. x \in S /\ x \in Int /\ \A z \in S : x <= z BY DEF Bottoms
<1> DEFINE w == MinOf(x, y)
<1>2. w \in {x, y} /\ w <= x /\ w <= y BY <1>1 DEF MinOf
<1> HIDE DEF w
<1>3. \A z \in S : w <= z BY <1>1, <1>2
<1>4. QED BY <1>1, <1>2, <1>3 DEF Bottoms, w

\* Peak, drawdown, worst and notional follow the record.
LEMMA ExtremesAppend ==
  ASSUME NEW b \in Books, NEW d \in Books, NEW m \in Seq(Marks), NEW e \in Marks,
         e.notional \in Nat, PeakOK(b, m), ExtremesOK(b, m), Advances(b, d, e)
  PROVE  PeakOK(d, Append(m, e)) /\ ExtremesOK(d, Append(m, e))
<1> DEFINE k == Append(m, e)
           n == Len(m)
<1>1. /\ k \in Seq(Marks) /\ k # <<>> /\ n \in Nat /\ Len(k) = n + 1
      /\ \A i \in 1 .. n : k[i] = m[i]
      /\ k[n + 1] = e
  BY RecordAppend
<1>2. b.peak \in Int /\ b.drawdown \in Int /\ b.worst \in Int /\ b.maxNotional \in Int
  BY BookFields
<1>3. e.equity \in Int /\ e.floating \in Int /\ e.notional \in Int BY DEF Marks
<1>4. /\ \A i \in 1 .. n : PeakAt(k, i) = PeakAt(m, i)
      /\ PeakAt(k, n + 1) = d.peak
      /\ Tops(d.peak, {0} \union {k[i].equity : i \in 1 .. Len(k)})
  <2>1. d.peak = MaxOf(b.peak, e.equity) BY DEF Advances
  <2> DEFINE x == MaxOf(b.peak, e.equity)
  <2>2. /\ \A i \in 1 .. n : PeakAt(k, i) = PeakAt(m, i)
        /\ PeakAt(k, n + 1) = x
        /\ Tops(x, {0} \union {k[i].equity : i \in 1 .. Len(k)})
    BY <1>2, PeakAppend
  <2> HIDE DEF x
  <2>3. QED BY <2>1, <2>2 DEF x
<1> HIDE DEF k
<1>5. PeakOK(d, k)
  <2>1. d.peak \in Int BY BookFields
  <2>2. \A i \in 1 .. n + 1 : i \in 1 .. n \/ i = n + 1 BY <1>1
  <2>3. QED BY <1>1, <1>4, <2>1, <2>2 DEF PeakOK
<1>6. 1 .. n + 1 = (1 .. n) \union {n + 1} BY <1>1
<1>7. Bottoms(d.worst, {0} \union {k[i].floating : i \in 1 .. Len(k)})
  <2> DEFINE S == {m[i].floating : i \in 1 .. n}
  <2>1. {k[i].floating : i \in 1 .. Len(k)} = S \union {e.floating} BY <1>1, <1>6
  <2>2. {0} \union S \in SUBSET Int BY MarkFields
  <2>3. Bottoms(b.worst, {0} \union S) BY DEF ExtremesOK
  <2> HIDE DEF S
  <2>4. Bottoms(d.worst, ({0} \union S) \union {e.floating})
    BY <1>3, <2>2, <2>3, BottomsMore DEF Advances
  <2>5. ({0} \union S) \union {e.floating} = {0} \union (S \union {e.floating}) OBVIOUS
  <2>6. QED BY <2>1, <2>4, <2>5
<1>8. Tops(d.maxNotional, {k[i].notional : i \in 1 .. Len(k)}) /\ d.maxNotional >= 0
  <2> DEFINE S == {m[i].notional : i \in 1 .. n}
  <2>1. {k[i].notional : i \in 1 .. Len(k)} = S \union {e.notional} BY <1>1, <1>6
  <2>2. S \in SUBSET Int BY MarkFields
  <2>3. IF m = <<>> THEN b.maxNotional = 0 /\ S = {} ELSE Tops(b.maxNotional, S)
    BY DEF ExtremesOK
  <2> HIDE DEF S
  <2>4. d.maxNotional = MaxOf(b.maxNotional, e.notional) BY DEF Advances
  <2>5. b.maxNotional >= 0 BY DEF ExtremesOK
  <2>6. CASE m # <<>>
    <3>1. Tops(d.maxNotional, S \union {e.notional})
      BY <1>3, <2>2, <2>3, <2>4, <2>6, TopsMore
    <3>2. d.maxNotional >= 0 BY <1>2, <1>3, <2>4, <2>5 DEF MaxOf
    <3>3. QED BY <2>1, <3>1, <3>2
  <2>7. CASE m = <<>>
    <3>1. d.maxNotional = e.notional BY <2>3, <2>4, <2>7 DEF MaxOf
    <3>2. {k[i].notional : i \in 1 .. Len(k)} = {e.notional} BY <2>1, <2>3, <2>7
    <3>3. Tops(e.notional, {e.notional}) BY <1>3, TopsOne
    <3>4. e.notional >= 0 OBVIOUS
    <3>5. QED BY <3>1, <3>2, <3>3, <3>4
  <2>8. QED BY <2>6, <2>7
<1>9. Tops(d.drawdown, {PeakAt(k, i) - k[i].equity : i \in 1 .. Len(k)})
  <2> DEFINE S == {PeakAt(m, i) - m[i].equity : i \in 1 .. n}
             y == d.peak - e.equity
  <2>1. {PeakAt(k, i) - k[i].equity : i \in 1 .. Len(k)} = S \union {y}
    <3>1. \A i \in 1 .. n : PeakAt(k, i) - k[i].equity = PeakAt(m, i) - m[i].equity
      BY <1>1, <1>4
    <3>2. QED BY <1>1, <1>4, <1>6, <3>1
  <2>2. y \in Nat BY <1>2, <1>3 DEF Advances, MaxOf
  <2>3. d.drawdown = MaxOf(b.drawdown, y) BY DEF Advances
  <2>4. IF m = <<>> THEN b.drawdown = 0 /\ S = {} ELSE Tops(b.drawdown, S)
    BY DEF ExtremesOK
  <2> HIDE DEF S, y
  <2>5. CASE m = <<>>
    <3>1. d.drawdown = y BY <2>2, <2>3, <2>4, <2>5 DEF MaxOf
    <3>2. {PeakAt(k, i) - k[i].equity : i \in 1 .. Len(k)} = {y} BY <2>1, <2>4, <2>5
    <3>3. y \in Int BY <2>2
    <3>4. QED BY <3>1, <3>2, <3>3, TopsOne
  <2>6. CASE m # <<>>
    <3>1. S \in SUBSET Int
      <4>1. \A i \in 1 .. n : PeakAt(m, i) \in Int BY DEF PeakOK
      <4>2. QED BY <4>1, MarkFields DEF S
    <3>2. QED BY <1>2, <2>1, <2>2, <2>3, <2>4, <2>6, <3>1, TopsMore
  <2>7. QED BY <2>5, <2>6
<1>10. QED BY <1>1, <1>5, <1>7, <1>8, <1>9 DEF ExtremesOK, k

\* The time under water follows the record.
LEMMA WaterAppend ==
  ASSUME NEW b \in Books, NEW d \in Books, NEW m \in Seq(Marks), NEW e \in Marks,
         PeakOK(b, m), WaterOK(b, m), Advances(b, d, e)
  PROVE  /\ WaterOK(d, Append(m, e))
         /\ Sunk(Append(m, e)) \in {Sunk(m), Sunk(m) \union {Len(m) + 1}}
         /\ Len(m) + 1 \in Sunk(Append(m, e)) <=> e.equity < b.peak
         /\ Len(m) \in Sunk(m) <=> b.underwater # Never
<1> DEFINE k == Append(m, e)
           n == Len(m)
<1>1. /\ k \in Seq(Marks) /\ n \in Nat /\ Len(k) = n + 1
      /\ \A i \in 1 .. n : k[i] = m[i]
      /\ k[n + 1] = e
  BY RecordAppend
<1>2. b.peak \in Int /\ e.equity \in Int /\ e.at \in Nat BY BookFields DEF Marks
<1>3. Sunk(k) = IF e.equity < b.peak THEN Sunk(m) \union {n + 1} ELSE Sunk(m)
  BY <1>2, PeakAppend
<1>4. Sunk(k) \in {Sunk(m), Sunk(m) \union {n + 1}} BY <1>3
<1>5. /\ \A i \in Sunk(m) : Surface(k, i) = Surface(m, i) /\ Since(k, i) = Since(m, i)
      /\ \A i \in Sunk(m) : Since(m, i) \in Nat /\ i \in 1 .. n
      /\ n + 1 \in Sunk(k) =>
           /\ Surface(k, n + 1) \in 0 .. n
           /\ Since(k, n + 1) = IF n \in Sunk(m) THEN Since(m, n) ELSE e.at
  BY <1>4, SinceAppend
<1> HIDE DEF k
<1>6. n + 1 \notin Sunk(m) BY <1>1, <1>5
<1>7. n + 1 \in Sunk(k) <=> e.equity < b.peak BY <1>3, <1>6
<1>8. b.underwater = IF n \in Sunk(m) THEN Since(m, n) ELSE Never BY DEF WaterOK
<1>9. n \in Sunk(m) <=> b.underwater # Never
  <2>1. \A i \in Nat : i # Never BY DEF Never
  <2>2. QED BY <1>5, <1>8, <2>1
<1>10. d.underwater = IF n + 1 \in Sunk(k) THEN Since(k, n + 1) ELSE Never
  <2>1. d.underwater = IF e.equity >= b.peak THEN Never
                       ELSE IF b.underwater = Never THEN e.at ELSE b.underwater
    BY DEF Advances
  <2>2. e.equity >= b.peak <=> n + 1 \notin Sunk(k) BY <1>2, <1>7
  <2>3. QED BY <1>5, <1>8, <1>9, <2>1, <2>2
<1>11. ASSUME NEW i \in Sunk(k) PROVE Surface(k, i) \in 0 .. (i - 1)
  <2>1. CASE i \in Sunk(m) BY <1>5, <2>1 DEF WaterOK
  <2>2. CASE i = n + 1
    <3>1. (n + 1) - 1 = n BY <1>1
    <3>2. QED BY <1>5, <1>11, <2>2, <3>1
  <2>3. QED BY <1>4, <2>1, <2>2
<1>12. WaterOK(d, k) BY <1>1, <1>10, <1>11 DEF WaterOK
<1>13. QED BY <1>4, <1>7, <1>9, <1>12 DEF k

\* A set of indices and the index after them.
LEMMA CountMore ==
  ASSUME NEW n \in Nat, NEW S \in SUBSET (1 .. n)
  PROVE  /\ IsFiniteSet(S) /\ Cardinality(S) \in Nat
         /\ Cardinality(S \union {n + 1}) = Cardinality(S) + 1
         /\ \A i \in S : Cardinality({j \in S : j <= i}) \in 1 .. Cardinality(S)
<1>1. IsFiniteSet(1 .. n) BY FS_Interval
<1>2. IsFiniteSet(S) /\ Cardinality(S) \in Nat BY <1>1, FS_Subset, FS_CardinalityType
<1>3. n + 1 \notin S OBVIOUS
<1>4. Cardinality(S \union {n + 1}) = Cardinality(S) + 1 BY <1>2, <1>3, FS_AddElement
<1>5. ASSUME NEW i \in S PROVE Cardinality({j \in S : j <= i}) \in 1 .. Cardinality(S)
  <2> DEFINE T == {j \in S : j <= i}
  <2>1. T \in SUBSET S /\ i \in T OBVIOUS
  <2> HIDE DEF T
  <2>2. /\ IsFiniteSet(T) /\ Cardinality(T) \in Nat /\ Cardinality(T) <= Cardinality(S)
    BY <1>2, <2>1, FS_Subset, FS_CardinalityType
  <2>3. Cardinality(T) # 0 BY <2>1, <2>2, FS_EmptySet
  <2>4. Cardinality(T) \in 1 .. Cardinality(S) BY <1>2, <2>2, <2>3
  <2>5. QED BY <2>4 DEF T
<1>6. QED BY <1>2, <1>4, <1>5

\* The lengths of the times under water follow the record.
LEMMA RecoveriesAppend ==
  ASSUME NEW b \in Books, NEW d \in Books, NEW m \in Seq(Marks), NEW e \in Marks,
         PeakOK(b, m), WaterOK(b, m), RecoveriesOK(b, m), Advances(b, d, e)
  PROVE  RecoveriesOK(d, Append(m, e))
<1> DEFINE k == Append(m, e)
           n == Len(m)
           E == Ends(m)
           F == Ends(k)
<1>1. /\ k \in Seq(Marks) /\ n \in Nat /\ Len(k) = n + 1
      /\ \A i \in 1 .. n : k[i] = m[i]
      /\ k[n + 1] = e
  BY RecordAppend
<1>2. /\ Sunk(k) \in {Sunk(m), Sunk(m) \union {n + 1}}
      /\ n + 1 \in Sunk(k) <=> e.equity < b.peak
      /\ n \in Sunk(m) <=> b.underwater # Never
  BY WaterAppend
<1>3. \A i \in Sunk(m) : Since(k, i) = Since(m, i)
  BY <1>2, SinceAppend
<1>4. F = IF n \in Sunk(m) /\ n + 1 \notin Sunk(k) THEN E \union {n + 1} ELSE E
  BY <1>2, EndsAppend
<1>5. E \in SUBSET (1 .. n) /\ \A i \in E : i - 1 \in Sunk(m) BY <1>1 DEF Ends
<1>6. b.peak \in Int /\ e.equity \in Int /\ b.recoveries \in Seq(Int)
  BY BookFields DEF Marks
<1>7. e.equity >= b.peak /\ b.underwater # Never
        <=> n \in Sunk(m) /\ n + 1 \notin Sunk(k)
  BY <1>2, <1>6
<1>8. /\ Len(b.recoveries) = Cardinality(E)
      /\ \A i \in E : b.recoveries[Cardinality({j \in E : j <= i})]
                        = m[i].at - Since(m, i - 1)
  BY DEF RecoveriesOK
<1>9. /\ Cardinality(E) \in Nat /\ Cardinality(E \union {n + 1}) = Cardinality(E) + 1
      /\ \A i \in E : Cardinality({j \in E : j <= i}) \in 1 .. Cardinality(E)
  BY <1>1, <1>5, CountMore
<1> DEFINE r == e.at - b.underwater
<1>10. d.recoveries = IF n \in Sunk(m) /\ n + 1 \notin Sunk(k)
                      THEN Append(b.recoveries, r) ELSE b.recoveries
  BY <1>7 DEF Advances
<1>11. \A i \in E : k[i].at - Since(k, i - 1) = m[i].at - Since(m, i - 1)
  BY <1>1, <1>3, <1>5
<1> HIDE DEF k, E, F, r
<1>12. CASE n \in Sunk(m) /\ n + 1 \notin Sunk(k)
  <2>1. F = E \union {n + 1} /\ d.recoveries = Append(b.recoveries, r)
    BY <1>4, <1>10, <1>12
  <2>2. /\ Len(d.recoveries) = Cardinality(E) + 1
        /\ d.recoveries[Cardinality(E) + 1] = r
        /\ \A i \in 1 .. Cardinality(E) : d.recoveries[i] = b.recoveries[i]
    BY <1>6, <1>8, <1>9, <2>1
  <2>3. ASSUME NEW i \in E
        PROVE  d.recoveries[Cardinality({j \in F : j <= i})] = k[i].at - Since(k, i - 1)
    <3>1. {j \in F : j <= i} = {j \in E : j <= i} BY <1>1, <1>5, <2>1
    <3>2. QED BY <1>8, <1>9, <1>11, <2>2, <3>1
  <2>4. d.recoveries[Cardinality({j \in F : j <= n + 1})]
          = k[n + 1].at - Since(k, (n + 1) - 1)
    <3>1. {j \in F : j <= n + 1} = F
      <4>1. \A j \in F : j <= n + 1 BY <1>1, <1>5, <2>1
      <4>2. QED BY <4>1
    <3>2. (n + 1) - 1 = n BY <1>1
    <3>3. Since(k, n) = b.underwater BY <1>3, <1>12 DEF WaterOK
    <3>4. QED BY <1>1, <1>9, <2>1, <2>2, <3>1, <3>2, <3>3 DEF r
  <2>5. QED BY <1>9, <2>1, <2>2, <2>3, <2>4 DEF RecoveriesOK, k, F
<1>13. CASE ~(n \in Sunk(m) /\ n + 1 \notin Sunk(k))
  <2>1. F = E /\ d.recoveries = b.recoveries BY <1>4, <1>10, <1>13
  <2>2. QED BY <1>8, <1>11, <2>1 DEF RecoveriesOK, k, F
<1>14. QED BY <1>12, <1>13

\* A sequence with one more number.
LEMMA ValuesAppend ==
  ASSUME NEW s \in Seq(Int), NEW r \in Int
  PROVE  LET k == Append(s, r) IN
         {k[i] : i \in DOMAIN k} = {s[i] : i \in DOMAIN s} \union {r}
<1> DEFINE k == Append(s, r)
           n == Len(s)
<1>1. /\ n \in Nat /\ DOMAIN k = 1 .. n + 1 /\ DOMAIN s = 1 .. n
      /\ k[n + 1] = r /\ \A i \in 1 .. n : k[i] = s[i]
  OBVIOUS
<1> HIDE DEF k, n
<1>2. 1 .. n + 1 = (1 .. n) \union {n + 1} BY <1>1
<1>3. QED BY <1>1, <1>2 DEF k

\* What tops the lengths and the spells while the last of them was o, and what tops
\* them when it has grown to r, in hand or over.
LEMMA LongestGrows ==
  ASSUME NEW x \in Int, NEW o \in Int, NEW r \in Int, o <= r,
         NEW R \in SUBSET Int, NEW Q \in SUBSET Int,
         Tops(x, {o} \union R), Tops(x, {0} \union (Q \union {o}))
  PROVE  \E y \in Int : /\ Tops(y, {r} \union R) /\ Tops(y, {0} \union (R \union {r}))
                       /\ Tops(y, {0} \union (Q \union {r}))
<1> DEFINE y == MaxOf(x, r)
<1>1. y \in Int /\ y \in {x, r} /\ x <= y /\ r <= y /\ (y # r => r < x) BY DEF MaxOf
<1>2. /\ x = o \/ x \in R
      /\ x = o \/ x = 0 \/ x \in Q
      /\ 0 <= x
      /\ \A z \in R : z <= x
      /\ \A z \in Q : z <= x
  BY DEF Tops
<1> HIDE DEF y
<1>3. 0 <= y BY <1>1, <1>2
<1>4. (\A z \in R : z <= y) /\ (\A z \in Q : z <= y) BY <1>1, <1>2
<1>5. y = r \/ (y = x /\ x # o) BY <1>1
<1>6. (y = r \/ y \in R) /\ (y = r \/ y = 0 \/ y \in Q) BY <1>2, <1>5
<1>7. /\ y \in {r} \union R /\ \A z \in {r} \union R : z <= y
      /\ y \in {0} \union (R \union {r}) /\ \A z \in {0} \union (R \union {r}) : z <= y
  BY <1>1, <1>3, <1>4, <1>6
<1>8. /\ y \in {0} \union (Q \union {r})
      /\ \A z \in {0} \union (Q \union {r}) : z <= y
  BY <1>1, <1>3, <1>4, <1>6
<1>9. QED BY <1>1, <1>7, <1>8 DEF Tops

\* The longest time under water follows the record.
LEMMA LongestAppend ==
  ASSUME NEW b \in Books, NEW d \in Books, NEW m \in Seq(Marks), NEW e \in Marks,
         \A i \in 1 .. Len(m) : m[i].at <= e.at,
         PeakOK(b, m), WaterOK(b, m), LongestOK(b, m), Advances(b, d, e)
  PROVE  LongestOK(d, Append(m, e))
<1> DEFINE k == Append(m, e)
           n == Len(m)
           S == Sunk(m)
           R == Lengths(b)
<1>1. /\ k \in Seq(Marks) /\ n \in Nat /\ Len(k) = n + 1
      /\ \A i \in 1 .. n : k[i] = m[i]
      /\ k[n + 1] = e
  BY RecordAppend
<1>2. /\ Sunk(k) \in {S, S \union {n + 1}}
      /\ n + 1 \in Sunk(k) <=> e.equity < b.peak
      /\ n \in S <=> b.underwater # Never
      /\ WaterOK(d, k)
  BY WaterAppend
<1>3. /\ \A i \in S : Since(k, i) = Since(m, i)
      /\ \A i \in S : Since(m, i) \in Nat /\ i \in 1 .. n
      /\ n + 1 \in Sunk(k) =>
           Since(k, n + 1) = IF n \in S THEN Since(m, n) ELSE e.at
  BY <1>2, SinceAppend
<1>4. b.peak \in Int /\ e.equity \in Int /\ b.recoveries \in Seq(Int) /\ e.at \in Nat
      /\ b.underwater \in Int
  BY BookFields DEF Marks
<1>5. d.recoveries = IF n \in S /\ n + 1 \notin Sunk(k)
                     THEN Append(b.recoveries, e.at - b.underwater) ELSE b.recoveries
  BY <1>2, <1>4 DEF Advances
<1>6. d.underwater = IF n + 1 \in Sunk(k) THEN Since(k, n + 1) ELSE Never
  BY <1>1, <1>2 DEF WaterOK
<1>7. \A i \in 1 .. n : m[i].at \in Nat BY MarkFields
<1>8. R \in SUBSET Int BY <1>4 DEF Lengths
<1>9. PICK x \in Int : Tops(x, {Ongoing(b, m)} \union R) /\ Tops(x, {0} \union Spells(m))
  BY DEF LongestOK
<1>10. \A i \in S : i # n =>
         Spell(k, i) = Spell(m, i) /\ Spell(m, i) \in Int /\ i \in 1 .. n
  <2>1. SUFFICES ASSUME NEW i \in S, i # n
                 PROVE  Spell(k, i) = Spell(m, i) /\ Spell(m, i) \in Int /\ i \in 1 .. n
    OBVIOUS
  <2>2. i \in 1 .. n /\ i + 1 \in 1 .. n /\ i < n /\ i < n + 1 BY <1>1, <1>3, <2>1
  <2>3. Spell(m, i) = m[i + 1].at - Since(m, i) BY <2>2 DEF Spell
  <2>4. Spell(k, i) = k[i + 1].at - Since(k, i) BY <1>1, <2>2 DEF Spell
  <2>5. QED BY <1>1, <1>3, <1>7, <2>2, <2>3, <2>4
<1>11. n + 1 \in Sunk(k) => Spell(k, n + 1) = e.at - Since(k, n + 1)
  BY <1>1 DEF Spell
<1> HIDE DEF k, S, R
<1>12. CASE n \notin S
  <2>1. Ongoing(b, m) = 0 BY <1>2, <1>12 DEF Ongoing
  <2>2. Ongoing(d, k) = 0
    <3>1. n + 1 \in Sunk(k) => d.underwater = e.at BY <1>3, <1>6, <1>12
    <3>2. QED BY <1>1, <1>4, <1>6, <3>1 DEF Ongoing
  <2>3. Lengths(d) = R BY <1>5, <1>12 DEF Lengths, R
  <2>4. {0} \union Spells(k) = {0} \union Spells(m)
    <3>1. \A i \in S : Spell(k, i) = Spell(m, i) BY <1>10, <1>12
    <3>2. n + 1 \in Sunk(k) => Spell(k, n + 1) = 0 BY <1>3, <1>4, <1>11, <1>12
    <3>3. QED BY <1>2, <3>1, <3>2 DEF Spells, S
  <2>5. QED BY <1>9, <2>1, <2>2, <2>3, <2>4 DEF LongestOK, k
<1>13. CASE n \in S
  <2> DEFINE o == m[n].at - b.underwater
             r == e.at - b.underwater
             Q == {Spell(m, i) : i \in S \ {n}}
  <2>1. n \in 1 .. n /\ b.underwater = Since(m, n) BY <1>3, <1>13 DEF WaterOK, S
  <2>2. o \in Int /\ r \in Int /\ o <= r BY <1>4, <1>7, <2>1
  <2>3. Ongoing(b, m) = o BY <1>2, <1>13 DEF Ongoing
  <2>4. Q \in SUBSET Int BY <1>10
  <2>5. Spells(m) = Q \union {o}
    <3>1. Spell(m, n) = o BY <1>1, <2>1 DEF Spell
    <3>2. S = (S \ {n}) \union {n} BY <1>13
    <3>3. QED BY <3>1, <3>2 DEF Spells, S
  <2>6. Spells(k) = Q \union {r}
    <3>1. Spell(k, n) = r
      <4>1. n < n + 1 BY <1>1
      <4>2. QED BY <1>1, <1>3, <1>13, <2>1, <4>1 DEF Spell
    <3>2. n + 1 \in Sunk(k) => Spell(k, n + 1) = r BY <1>3, <1>11, <1>13, <2>1
    <3>3. \A i \in S \ {n} : Spell(k, i) = Spell(m, i) BY <1>10
    <3>4. S = (S \ {n}) \union {n} BY <1>13
    <3>5. QED BY <1>2, <3>1, <3>2, <3>3, <3>4 DEF Spells
  <2> DEFINE L == {Ongoing(d, k)} \union Lengths(d)
  <2>7. L = {r} \union R \/ L = {0} \union (R \union {r})
    <3>1. CASE n + 1 \in Sunk(k)
      <4>1. d.underwater = b.underwater /\ b.underwater # Never
        BY <1>2, <1>3, <1>6, <1>13, <2>1, <3>1
      <4>2. Ongoing(d, k) = r BY <1>1, <4>1 DEF Ongoing
      <4>3. Lengths(d) = R BY <1>5, <3>1 DEF Lengths, R
      <4>4. QED BY <4>2, <4>3
    <3>2. CASE n + 1 \notin Sunk(k)
      <4>1. Ongoing(d, k) = 0 BY <1>6, <3>2 DEF Ongoing
      <4>2. d.recoveries = Append(b.recoveries, r) BY <1>5, <1>13, <3>2
      <4>3. Lengths(d) = R \union {r}
        <5> DEFINE s == b.recoveries  q == Append(s, r)
        <5>1. {q[i] : i \in DOMAIN q} = {s[i] : i \in DOMAIN s} \union {r}
          <6> HIDE DEF s, r
          <6>1. s \in Seq(Int) /\ r \in Int BY <1>4, <2>2 DEF s
          <6>2. QED BY <6>1, ValuesAppend
        <5>2. Lengths(d) = {q[i] : i \in DOMAIN q} BY <4>2 DEF Lengths
        <5>3. R = {s[i] : i \in DOMAIN s} BY DEF Lengths, R
        <5> HIDE DEF s, q, r
        <5>4. QED BY <5>1, <5>2, <5>3
      <4>4. QED BY <4>1, <4>3
    <3>3. QED BY <3>1, <3>2
  <2>8. Tops(x, {o} \union R) /\ Tops(x, {0} \union (Q \union {o})) BY <1>9, <2>3, <2>5
  <2> HIDE DEF o, r, Q, L
  <2>9. \E y \in Int : /\ Tops(y, {r} \union R) /\ Tops(y, {0} \union (R \union {r}))
                       /\ Tops(y, {0} \union (Q \union {r}))
    BY <1>8, <1>9, <2>2, <2>4, <2>8, LongestGrows
  <2>10. \E y \in Int : Tops(y, L) /\ Tops(y, {0} \union (Q \union {r}))
    BY <2>7, <2>9
  <2>11. QED BY <2>6, <2>10 DEF LongestOK, L, k
<1>14. QED BY <1>12, <1>13

\* A mark is measured.
LEMMA MeasuredAppend ==
  ASSUME NEW b \in Books, NEW c \in Ladders, NEW p \in Nat, NEW t \in Nat,
         NEW m \in Seq(Marks), MeasuredOK(b, m), \A i \in 1 .. Len(m) : m[i].at <= t,
         NEW e \in Marks, e.equity = Equity(b, c, p), e.floating = Unrealized(b, c, p),
         e.at = t, e.notional = p * TotalQty(c)
  PROVE  MeasuredOK(Mark(b, c, p, t), Append(m, e))
<1> DEFINE d == Mark(b, c, p, t)
<1>1. d \in Books BY MarkTyped
<1>2. /\ d.peak = MaxOf(b.peak, e.equity)
      /\ d.recoveries = IF e.equity >= b.peak /\ b.underwater # Never
                        THEN Append(b.recoveries, e.at - b.underwater) ELSE b.recoveries
      /\ d.underwater = IF e.equity >= b.peak THEN Never
                        ELSE IF b.underwater = Never THEN e.at ELSE b.underwater
      /\ d.drawdown = MaxOf(b.drawdown, MaxOf(b.peak, e.equity) - e.equity)
      /\ d.worst = MinOf(b.worst, e.floating)
      /\ d.maxNotional = IF Held(c) THEN MaxOf(b.maxNotional, e.notional)
                         ELSE b.maxNotional
  BY MarkFigures
<1>3. e.notional \in Nat
  <2>1. TotalQty(c) \in Nat BY SumsTyped DEF Ladders
  <2>2. QED BY <2>1
<1>4. d.maxNotional = MaxOf(b.maxNotional, e.notional)
  <2>1. CASE Held(c) BY <1>2, <2>1
  <2>2. CASE ~Held(c)
    <3>1. c.fills = <<>> BY <2>2, HeldFills
    <3>2. TotalQty(c) = 0
      <4>1. c.fills \in Seq(Fills) /\ DOMAIN QtyOf(c.fills) = {} BY <3>1 DEF Ladders, QtyOf
      <4>2. TotalQty(c) = SumFunction(QtyOf(c.fills)) BY <3>1, FS_EmptySet, QtyIsSum
      <4>3. QED BY <4>1, <4>2, SumOfNone
    <3>3. e.notional = 0 /\ b.maxNotional >= 0 /\ b.maxNotional \in Int
      BY <3>2, BookFields DEF MeasuredOK, ExtremesOK
    <3>4. QED BY <1>2, <2>2, <3>3 DEF MaxOf
  <2>3. QED BY <2>1, <2>2
<1> HIDE DEF d
<1>5. Advances(b, d, e) BY <1>2, <1>4 DEF Advances
<1>6. /\ PeakOK(b, m) /\ ExtremesOK(b, m) /\ WaterOK(b, m)
      /\ RecoveriesOK(b, m) /\ LongestOK(b, m)
  BY DEF MeasuredOK
<1> DEFINE k == Append(m, e)
<1>7. PeakOK(d, k) /\ ExtremesOK(d, k) BY <1>1, <1>3, <1>5, <1>6, ExtremesAppend
<1>8. WaterOK(d, k) BY <1>1, <1>5, <1>6, WaterAppend
<1>9. RecoveriesOK(d, k) BY <1>1, <1>5, <1>6, RecoveriesAppend
<1>10. LongestOK(d, k) BY <1>1, <1>5, <1>6, LongestAppend
<1>11. QED BY <1>7, <1>8, <1>9, <1>10 DEF MeasuredOK, d

\* A mark belongs to its cycle.
LEMMA OwnAppend ==
  ASSUME NEW m \in Seq(Marks), NEW e \in Marks, NEW n
  PROVE  /\ OwnOf(m, n) \in SUBSET Int
         /\ OwnOf(Append(m, e), n) =
              OwnOf(m, n) \union (IF e.cycle = n THEN {e.gross} ELSE {})
<1> DEFINE k == Append(m, e)
           l == Len(m)
<1>1. /\ k \in Seq(Marks) /\ l \in Nat /\ Len(k) = l + 1
      /\ \A i \in 1 .. l : k[i] = m[i]
      /\ k[l + 1] = e
  BY RecordAppend
<1>2. OwnOf(m, n) \in SUBSET Int BY MarkFields DEF OwnOf
<1> HIDE DEF k
<1>3. 1 .. Len(k) = (1 .. l) \union {l + 1} BY <1>1
<1>4. {j \in 1 .. Len(k) : k[j].cycle = n} =
        {j \in 1 .. l : m[j].cycle = n} \union (IF e.cycle = n THEN {l + 1} ELSE {})
  BY <1>1, <1>3
<1> DEFINE I == {j \in 1 .. l : m[j].cycle = n}
<1>5. \A i \in I : k[i] = m[i] BY <1>1
<1>6. OwnOf(m, n) = {m[i].gross : i \in I} BY DEF OwnOf
<1>7. OwnOf(k, n) = {k[i].gross : i \in I \union (IF e.cycle = n THEN {l + 1} ELSE {})}
  BY <1>4 DEF OwnOf
<1> HIDE DEF I
<1>8. OwnOf(k, n) = OwnOf(m, n) \union (IF e.cycle = n THEN {e.gross} ELSE {})
  BY <1>1, <1>5, <1>6, <1>7
<1>9. QED BY <1>2, <1>8 DEF k

\* The excursions follow the record.
LEMMA ExcursionsAppend ==
  ASSUME NEW b \in Books, NEW c \in Ladders, NEW p \in Nat, NEW t \in Nat, NEW n \in Nat,
         NEW m \in Seq(Marks), ExcursionsOf(b, c, m, t, n), NEW e \in Marks,
         e.at = t, e.cycle = n, e.gross = IF Held(c) THEN Gross(c, p) ELSE 0
  PROVE  ExcursionsOf(Mark(b, c, p, t), c, Append(m, e), t, n)
<1> DEFINE k == Append(m, e)
           d == Mark(b, c, p, t)
<1>1. /\ Len(k) = Len(m) + 1
      /\ \A i \in 1 .. Len(m) : k[i] = m[i]
      /\ k[Len(m) + 1] = e
      /\ \A i \in 1 .. Len(m) + 1 : i \in 1 .. Len(m) \/ i = Len(m) + 1
  BY RecordAppend
<1>2. OwnOf(m, n) \in SUBSET Int /\ OwnOf(k, n) = OwnOf(m, n) \union {e.gross}
  BY OwnAppend
<1>3. Held(c) => d.adverse = MaxOf(b.adverse, -e.gross)
                 /\ d.favorable = MaxOf(b.favorable, e.gross)
  BY MarkFigures
<1>4. e.gross \in Int BY DEF Marks
<1> HIDE DEF k, d
<1>5. \A i \in 1 .. Len(k) : k[i].at <= t /\ k[i].cycle <= n
  <2>1. \A i \in 1 .. Len(m) : m[i].at <= t /\ m[i].cycle <= n BY DEF ExcursionsOf
  <2>2. QED BY <1>1, <2>1
<1>6. CASE Held(c)
  <2> DEFINE S == {0} \union {-g : g \in OwnOf(m, n)}
             T == {0} \union OwnOf(m, n)
  <2>1. Tops(b.adverse, S) /\ Tops(b.favorable, T) BY <1>6 DEF ExcursionsOf
  <2>2. S \in SUBSET Int /\ T \in SUBSET Int BY <1>2
  <2>3. {0} \union {-g : g \in OwnOf(k, n)} = S \union {-e.gross} BY <1>2
  <2>4. {0} \union OwnOf(k, n) = T \union {e.gross} BY <1>2
  <2>5. -e.gross \in Int BY <1>4
  <2> HIDE DEF S, T
  <2>6. Tops(d.adverse, S \union {-e.gross}) BY <1>3, <1>6, <2>1, <2>2, <2>5, TopsMore
  <2>7. Tops(d.favorable, T \union {e.gross}) BY <1>3, <1>4, <1>6, <2>1, <2>2, TopsMore
  <2>8. QED BY <1>5, <1>6, <2>3, <2>4, <2>6, <2>7 DEF ExcursionsOf, d, k
<1>7. CASE ~Held(c)
  <2>1. OwnOf(m, n) \subseteq {0} /\ e.gross = 0 BY <1>7 DEF ExcursionsOf
  <2>2. OwnOf(k, n) \subseteq {0} BY <1>2, <2>1
  <2>3. QED BY <1>5, <1>7, <2>2 DEF ExcursionsOf, d, k
<1>8. QED BY <1>6, <1>7

\* A book and its record after a mark.
LEMMA MarkMeasured ==
  ASSUME Typed, NEW b \in Books, NEW c \in Ladders, NEW p \in Nat, NEW t \in Nat,
         NEW m \in Seq(Marks), MeasuredOK(b, m), ExcursionsOf(b, c, m, t, Len(replays))
  PROVE  LET d == Mark(b, c, p, t)
             k == Append(m, Seen(b, c, p, t)) IN
         /\ d \in Books /\ k \in Seq(Marks)
         /\ MeasuredOK(d, k) /\ ExcursionsOf(d, c, k, t, Len(replays))
<1> DEFINE e == Seen(b, c, p, t)
<1>1. e \in Marks BY SeenTyped
<1>2. /\ e.equity = Equity(b, c, p) /\ e.floating = Unrealized(b, c, p) /\ e.at = t
      /\ e.notional = p * TotalQty(c) /\ e.cycle = Len(replays)
      /\ e.gross = IF Held(c) THEN Gross(c, p) ELSE 0
  BY DEF Seen
<1>3. Len(replays) \in Nat BY DEF Typed
<1>4. \A i \in 1 .. Len(m) : m[i].at <= t BY DEF ExcursionsOf
<1>5. Mark(b, c, p, t) \in Books BY MarkTyped
<1> HIDE DEF e
<1>6. Append(m, e) \in Seq(Marks) BY <1>1
<1>7. MeasuredOK(Mark(b, c, p, t), Append(m, e)) BY <1>1, <1>2, <1>4, MeasuredAppend
<1>8. ExcursionsOf(Mark(b, c, p, t), c, Append(m, e), t, Len(replays))
  BY <1>1, <1>2, <1>3, ExcursionsAppend
<1>9. QED BY <1>5, <1>6, <1>7, <1>8 DEF e

\* At first nothing has been marked.
LEMMA MeasureInit == ASSUME Init PROVE MeasureOK
<1>1. marks = <<>> /\ cycle = NoCycle /\ Len(marks) = 0 BY DEF Init
<1>2. /\ book.peak = 0 /\ book.drawdown = 0 /\ book.worst = 0 /\ book.underwater = Never
      /\ book.recoveries = <<>> /\ book.maxNotional = 0
  BY DEF Init
<1>3. 1 .. Len(marks) = {} /\ 2 .. Len(marks) = {} BY <1>1
<1>4. Sunk(marks) = {} /\ Ends(marks) = {} BY <1>3 DEF Sunk, Ends
<1>5. Tops(0, {0}) BY TopsOne
<1>6. PeakOK(book, marks) BY <1>2, <1>3, <1>5 DEF PeakOK
<1>7. ExtremesOK(book, marks) BY <1>1, <1>2, <1>3 DEF ExtremesOK, Bottoms
<1>8. WaterOK(book, marks) BY <1>2, <1>4 DEF WaterOK
<1>9. RecoveriesOK(book, marks) BY <1>2, <1>4, FS_EmptySet DEF RecoveriesOK
<1>10. LongestOK(book, marks)
  <2>1. Ongoing(book, marks) = 0 BY <1>2 DEF Ongoing
  <2>2. Lengths(book) = {} BY <1>2 DEF Lengths
  <2>3. Spells(marks) = {} BY <1>4 DEF Spells
  <2>4. QED BY <1>5, <2>1, <2>2, <2>3 DEF LongestOK
<1>11. ExcursionsOK
  <2>1. OwnOf(marks, Len(replays)) = {} BY <1>3 DEF OwnOf
  <2>2. ~Held(cycle) BY <1>1 DEF Held
  <2>3. QED BY <1>3, <2>1, <2>2 DEF ExcursionsOK, ExcursionsOf
<1>12. SettledOK BY <1>1 DEF SettledOK
<1>13. QED BY <1>6, <1>7, <1>8, <1>9, <1>10, <1>11, <1>12 DEF MeasureOK, MeasuredOK

\* Time passes.
LEMMA ExcursionsLater ==
  ASSUME NEW b, NEW c, NEW m \in Seq(Marks), NEW s \in Nat, NEW t \in Nat, s <= t, NEW n,
         ExcursionsOf(b, c, m, s, n)
  PROVE  ExcursionsOf(b, c, m, t, n)
<1>1. \A i \in 1 .. Len(m) : m[i].at <= t
  <2>1. \A i \in 1 .. Len(m) : m[i].at \in Nat BY MarkFields
  <2>2. \A i \in 1 .. Len(m) : m[i].at <= s BY DEF ExcursionsOf
  <2>3. QED BY <2>1, <2>2
<1>2. QED BY <1>1 DEF ExcursionsOf

\* A cycle that opens has no excursions.
LEMMA ExcursionsOpen ==
  ASSUME NEW b, NEW c, NEW m \in Seq(Marks), NEW t, NEW n,
         \A i \in 1 .. Len(m) : m[i].at <= t /\ m[i].cycle <= n,
         OwnOf(m, n) \subseteq {0}, b.adverse = 0, b.favorable = 0
  PROVE  ExcursionsOf(b, c, m, t, n)
<1>1. OwnOf(m, n) = {} \/ OwnOf(m, n) = {0} OBVIOUS
<1>2. {0} \union OwnOf(m, n) = {0} BY <1>1
<1>3. {0} \union {-g : g \in OwnOf(m, n)} = {0}
  <2>1. ASSUME NEW g \in Int PROVE 0 <= g /\ g <= 0 => -g = 0 OBVIOUS
  <2>2. ASSUME NEW g \in OwnOf(m, n) PROVE -g = 0
    <3>1. g \in Int /\ 0 <= g /\ g <= 0 BY <1>1
    <3>2. QED BY <2>1, <3>1
  <2>3. QED BY <2>2
<1>4. Tops(0, {0}) BY TopsOne
<1>5. QED BY <1>2, <1>3, <1>4 DEF ExcursionsOf

\* The open of a candle is marked, after the funding or the first fill.
LEMMA MeasureNextCandle ==
  ASSUME Typed, MeasureOK, NEW c \in Candles, NEW t \in 1 .. MaxCandles,
         NEW payment \in Payments, NextCandle(c, t, payment)
  PROVE  MeasureOK'
<1> DEFINE paid == IF Held(cycle)
                   THEN [book EXCEPT !.funding = @ + payment * TotalQty(cycle)]
                   ELSE book
           begun == IF Held(cycle) THEN cycle ELSE Begun(c.open, EntryQty)
           bought == IF Held(cycle) THEN paid ELSE Opened(paid, begun)
           n == Len(replays)
<1>1. c.open \in Nat \ {0} /\ Tail(Points(c)) # <<>> BY PointsPositive
<1>2. /\ cycle \in Ladders /\ book \in Books /\ t \in Nat /\ payment \in Int
      /\ now \in Nat /\ marks \in Seq(Marks) /\ n \in Nat
  BY ReplayAssumption DEF Typed
<1>3. TotalQty(cycle) \in Nat /\ payment * TotalQty(cycle) \in Int
  BY <1>2, SumsTyped DEF Ladders
<1>4. EntryQty \in Nat \ {0} BY ReplayAssumption
<1>5. begun \in Ladders /\ Held(begun) BY <1>1, <1>2, <1>4, BegunFacts, HeldFills
<1>6. begun.fills # <<>> BY <1>5, HeldFills
<1>7. /\ paid \in Books /\ SameFigures(book, paid)
      /\ paid.adverse = book.adverse /\ paid.favorable = book.favorable
  <2> DEFINE x == book.funding + payment * TotalQty(cycle)
             e == [book EXCEPT !.funding = x]
  <2>1. x \in Int BY <1>2, <1>3, BookFields
  <2>2. paid = IF Held(cycle) THEN e ELSE book OBVIOUS
  <2> HIDE DEF x, paid
  <2>3. e \in Books BY <1>2, <2>1, BookExcept DEF Figures
  <2>4. SameFigures(book, e) /\ e.adverse = book.adverse /\ e.favorable = book.favorable
    BY <1>2 DEF SameFigures, Books, Figures
  <2>5. SameFigures(book, book) BY DEF SameFigures
  <2> HIDE DEF e
  <2>6. QED BY <1>2, <2>2, <2>3, <2>4, <2>5
<1>8. /\ now < t /\ now' = t /\ replays' = replays
      /\ \/ UNCHANGED <<price, path, cycle, book, marks>>
         \/ /\ path' = Tail(Points(c)) /\ cycle' = begun
            /\ book' = Mark(bought, begun, c.open, t)
            /\ marks' = Append(marks, Seen(bought, begun, c.open, t))
  BY DEF NextCandle, paid, begun
<1>9. MeasuredOK(book, marks) /\ ExcursionsOf(book, cycle, marks, now, n)
  BY DEF MeasureOK, ExcursionsOK
<1>10. ExcursionsOf(book, cycle, marks, t, n) BY <1>2, <1>8, <1>9, ExcursionsLater
<1>11. CASE UNCHANGED <<price, path, cycle, book, marks>>
  <2>1. MeasuredOK(book, marks)' BY <1>9, <1>11
  <2>2. ExcursionsOK' BY <1>8, <1>10, <1>11 DEF ExcursionsOK
  <2>3. Equity(book, cycle, price)' = Equity(book, cycle, price)
    BY <1>11 DEF Equity, Unrealized, Gross, ExitFee
  <2>4. SettledOK' BY <1>11, <2>3 DEF SettledOK, MeasureOK
  <2>5. QED BY <2>1, <2>2, <2>4 DEF MeasureOK
<1>12. CASE /\ path' = Tail(Points(c)) /\ cycle' = begun
            /\ book' = Mark(bought, begun, c.open, t)
            /\ marks' = Append(marks, Seen(bought, begun, c.open, t))
  <2>1. /\ bought \in Books /\ SameFigures(book, bought)
        /\ ExcursionsOf(bought, begun, marks, t, n)
    <3>1. CASE Held(cycle)
      <4>1. bought = paid /\ begun = cycle BY <3>1
      <4> HIDE DEF bought, begun, paid
      <4>2. ExcursionsOf(paid, cycle, marks, t, n) BY <1>7, <1>10 DEF ExcursionsOf
      <4>3. QED BY <1>7, <4>1, <4>2
    <3>2. CASE ~Held(cycle)
      <4>1. bought = Opened(paid, begun) BY <3>2
      <4> HIDE DEF bought, begun, paid
      <4>2. bought \in Books BY <1>5, <1>6, <1>7, <4>1, BoughtTyped
      <4>3. /\ SameFigures(paid, bought) /\ bought.adverse = 0 /\ bought.favorable = 0
        BY <1>7, <4>1, BoughtFigures
      <4>4. SameFigures(book, bought) BY <1>7, <4>3 DEF SameFigures
      <4>5. /\ \A i \in 1 .. Len(marks) : marks[i].at <= t /\ marks[i].cycle <= n
            /\ OwnOf(marks, n) \subseteq {0}
        BY <1>10, <3>2 DEF ExcursionsOf
      <4>6. ExcursionsOf(bought, begun, marks, t, n) BY <1>2, <4>3, <4>5, ExcursionsOpen
      <4>7. QED BY <4>2, <4>4, <4>6
    <3>3. QED BY <3>1, <3>2
  <2> HIDE DEF bought, begun, paid
  <2>2. MeasuredOK(bought, marks) BY <1>9, <2>1, SameMeasured
  <2> DEFINE d == Mark(bought, begun, c.open, t)
             k == Append(marks, Seen(bought, begun, c.open, t))
  <2>3. MeasuredOK(d, k) /\ ExcursionsOf(d, begun, k, t, n)
    BY <1>1, <1>2, <1>5, <2>1, <2>2, MarkMeasured
  <2>4. /\ book' = d /\ marks' = k /\ cycle' = begun /\ now' = t
        /\ Len(replays') = n /\ path' # <<>>
    BY <1>1, <1>8, <1>12
  <2> HIDE DEF d, k, n
  <2>5. MeasuredOK(book, marks)' BY <2>3, <2>4
  <2>6. ExcursionsOK' BY <2>3, <2>4 DEF ExcursionsOK
  <2>7. SettledOK' BY <2>4 DEF SettledOK
  <2>8. QED BY <2>5, <2>6, <2>7 DEF MeasureOK
<1>13. QED BY <1>8, <1>11, <1>12

\* A close is marked before it, and makes no mark of its own.
LEMMA MeasureTakeProfit ==
  ASSUME Typed, SegmentOK, MeasureOK, TakeProfit
  PROVE  MeasureOK'
<1> DEFINE tp == TpPrice(cycle)
           marked == Mark(book, cycle, tp, now)
           closed == Closed(marked, cycle, tp)
           next == Begun(tp, EntryQty)
           k == Append(marks, Seen(book, cycle, tp, now))
           n == Len(replays)
<1>1. TakesProfit BY DEF TakeProfit
<1>2. /\ cycle.fills # <<>> /\ tp \in Nat \ {0} /\ path # <<>>
  BY <1>1, TakesProfitFacts DEF TakesProfit, Rising, InSegment
<1>3. /\ cycle \in Ladders /\ book \in Books /\ now \in Nat /\ marks \in Seq(Marks)
      /\ replays \in Seq(Cycles) /\ n \in Nat
  BY DEF Typed
<1>4. /\ \E r : replays' = Append(replays, r)
      /\ \/ cycle' = next /\ book' = Opened(closed, next)
         \/ cycle' = NoCycle /\ book' = closed
      /\ marks' = k /\ now' = now /\ path' = path
  BY DEF TakeProfit
<1>5. Len(replays') = n + 1 BY <1>3, <1>4
<1>6. Held(cycle) BY <1>2, <1>3, HeldFills
<1> HIDE DEF tp, next, n
<1>7. MeasuredOK(book, marks) /\ ExcursionsOf(book, cycle, marks, now, Len(replays))
  BY DEF MeasureOK, ExcursionsOK
<1>8. /\ marked \in Books /\ k \in Seq(Marks) /\ MeasuredOK(marked, k)
      /\ ExcursionsOf(marked, cycle, k, now, Len(replays))
  BY <1>2, <1>3, <1>7, MarkMeasured
<1>9. SameFigures(marked, closed) BY <1>2, <1>3, <1>6, ClosedFigures
<1> HIDE DEF marked, k
<1>10. closed \in Books BY <1>2, <1>3, <1>8, ClosedTyped
<1> HIDE DEF closed
<1>11. /\ SameFigures(closed, Opened(closed, next))
       /\ Opened(closed, next).adverse = 0 /\ Opened(closed, next).favorable = 0
  BY <1>10, BoughtFigures
<1>12. MeasuredOK(closed, k) BY <1>8, <1>9, SameMeasured
<1>13. MeasuredOK(book', k) BY <1>4, <1>11, <1>12, SameMeasured
<1>14. \A i \in 1 .. Len(k) : k[i].at <= now /\ k[i].cycle <= n + 1 /\ k[i].cycle # n + 1
  <2>1. \A i \in 1 .. Len(k) : k[i].at <= now /\ k[i].cycle <= n
    BY <1>8 DEF ExcursionsOf, n
  <2>2. \A i \in 1 .. Len(k) : k[i].cycle \in Nat BY <1>8, MarkFields
  <2>3. QED BY <1>3, <2>1, <2>2
<1>15. OwnOf(k, n + 1) = {} BY <1>14 DEF OwnOf
<1>16. ExcursionsOf(book', cycle', k, now, n + 1)
  <2>1. CASE cycle' = next /\ book' = Opened(closed, next)
    BY <1>8, <1>11, <1>14, <1>15, <2>1, ExcursionsOpen
  <2>2. CASE cycle' = NoCycle
    BY <1>14, <1>15, <2>2 DEF ExcursionsOf, Held
  <2>3. QED BY <1>4, <2>1, <2>2
<1>17. MeasuredOK(book, marks)' BY <1>4, <1>13
<1>18. ExcursionsOK' BY <1>4, <1>5, <1>16 DEF ExcursionsOK
<1>19. SettledOK' BY <1>2, <1>4 DEF SettledOK
<1>20. QED BY <1>17, <1>18, <1>19 DEF MeasureOK

\* A DCA is marked before its fill and after it.
LEMMA MeasureAddDca ==
  ASSUME Typed, SegmentOK, MeasureOK, AddDca
  PROVE  MeasureOK'
<1> DEFINE trigger == Trigger(cycle, config.reference)
           deeper == WithDca(cycle, trigger, NextQty(cycle))
           before == Mark(book, cycle, trigger, now)
           bought == Bought(before, deeper)
           e == Seen(book, cycle, trigger, now)
           f == Seen(bought, deeper, trigger, now)
           n == Len(replays)
<1>1. Falls BY DEF AddDca
<1>2. /\ cycle.fills # <<>> /\ ~AtMax(cycle) /\ trigger \in Nat \ {0} /\ path # <<>>
  BY <1>1, FallsFacts DEF Falls, Falling, InSegment
<1>3. /\ cycle \in Ladders /\ book \in Books /\ now \in Nat /\ marks \in Seq(Marks)
  BY DEF Typed
<1>4. /\ cycle' = deeper
      /\ book' = Mark(bought, deeper, trigger, now)
      /\ marks' = marks \o <<e, f>>
      /\ UNCHANGED <<now, path, replays>>
  BY DEF AddDca
<1> HIDE DEF trigger, n
<1>5. /\ deeper \in Ladders /\ deeper.fills # <<>> /\ Held(deeper)
  BY <1>2, <1>3, WithDcaFacts
<1>6. Held(cycle) BY <1>2, <1>3, HeldFills
<1> HIDE DEF deeper
<1>7. MeasuredOK(book, marks) /\ ExcursionsOf(book, cycle, marks, now, Len(replays))
  BY DEF MeasureOK, ExcursionsOK
<1> DEFINE k == Append(marks, e)
<1>8. /\ before \in Books /\ k \in Seq(Marks) /\ MeasuredOK(before, k)
      /\ ExcursionsOf(before, cycle, k, now, Len(replays))
  BY <1>2, <1>3, <1>7, MarkMeasured
<1>9. e \in Marks BY <1>2, <1>3, SeenTyped
<1> HIDE DEF before
<1>10. /\ bought \in Books /\ SameFigures(before, bought)
       /\ bought.adverse = before.adverse /\ bought.favorable = before.favorable
  BY <1>5, <1>8, BoughtTyped, BoughtFigures
<1> HIDE DEF bought
<1>11. MeasuredOK(bought, k) BY <1>8, <1>10, SameMeasured
<1>12. ExcursionsOf(bought, deeper, k, now, Len(replays))
  <2> HIDE DEF k
  <2>1. QED BY <1>5, <1>6, <1>8, <1>10 DEF ExcursionsOf
<1>13. f \in Marks BY <1>2, <1>3, <1>5, <1>10, SeenTyped
<1>14. marks' = Append(k, f)
  <2> HIDE DEF e, f
  <2>1. QED BY <1>3, <1>4, <1>9, <1>13
<1> HIDE DEF e, k
<1> DEFINE d == Mark(bought, deeper, trigger, now)
<1>15. /\ MeasuredOK(d, Append(k, f))
       /\ ExcursionsOf(d, deeper, Append(k, f), now, Len(replays))
  BY <1>2, <1>3, <1>5, <1>8, <1>10, <1>11, <1>12, MarkMeasured
<1>16. book' = d BY <1>4
<1> HIDE DEF d, f
<1>17. MeasuredOK(book, marks)' BY <1>14, <1>15, <1>16
<1>18. ExcursionsOK' BY <1>4, <1>14, <1>15, <1>16 DEF ExcursionsOK
<1>19. SettledOK' BY <1>2, <1>4 DEF SettledOK
<1>20. QED BY <1>17, <1>18, <1>19 DEF MeasureOK

\* The end of a segment is marked, and the end of the last one settles the candle.
LEMMA MeasureEndSegment ==
  ASSUME Typed, MeasureOK, EndSegment
  PROVE  MeasureOK'
<1> DEFINE e == Seen(book, cycle, End, now)
           d == Mark(book, cycle, End, now)
<1>1. /\ path # <<>> /\ price' = End /\ book' = d /\ marks' = Append(marks, e)
      /\ UNCHANGED <<now, cycle, replays>>
  BY DEF EndSegment, InSegment
<1>2. /\ cycle \in Ladders /\ book \in Books /\ now \in Nat /\ marks \in Seq(Marks)
      /\ path \in Seq(Nat \ {0})
  BY DEF Typed
<1>3. End \in Nat BY <1>1, <1>2 DEF End
<1>4. MeasuredOK(book, marks) /\ ExcursionsOf(book, cycle, marks, now, Len(replays))
  BY DEF MeasureOK, ExcursionsOK
<1>5. /\ MeasuredOK(d, Append(marks, e))
      /\ ExcursionsOf(d, cycle, Append(marks, e), now, Len(replays))
  BY <1>2, <1>3, <1>4, MarkMeasured
<1>6. MeasuredOK(book, marks)' BY <1>1, <1>5
<1>7. ExcursionsOK' BY <1>1, <1>5 DEF ExcursionsOK
<1>8. SettledOK'
  <2> DEFINE p == End
  <2>1. /\ d.net = book.net /\ d.funding = book.funding /\ d.openFees = book.openFees
    BY <1>2, MarkKeeps
  <2>2. Equity(d, cycle, p) = Equity(book, cycle, p) BY <2>1 DEF Equity, Unrealized
  <2>3. e.equity = Equity(book, cycle, p) BY DEF Seen
  <2>4. e \in Marks BY <1>2, <1>3, SeenTyped
  <2>5. Equity(book, cycle, price)' = Equity(d, cycle, p)
    <3>1. book' = d /\ cycle' = cycle /\ price' = p BY <1>1
    <3> HIDE DEF d, p
    <3>2. QED BY <3>1 DEF Equity, Unrealized, Gross, ExitFee
  <2> HIDE DEF e, d, p
  <2>6. marks'[Len(marks')] = e BY <1>1, <1>2, <2>4
  <2>7. QED BY <2>2, <2>3, <2>5, <2>6 DEF SettledOK
<1>9. QED BY <1>6, <1>7, <1>8 DEF MeasureOK

\* Every step is measured.
LEMMA MeasureStep ==
  ASSUME Typed, SegmentOK, MeasureOK, [Next]_vars
  PROVE  MeasureOK'
<1>1. ASSUME UNCHANGED <<price, path, cycle, book, replays, marks, now>> PROVE MeasureOK'
  <2>1. MeasuredOK(book, marks)' BY <1>1 DEF MeasureOK
  <2>2. ExcursionsOK' BY <1>1 DEF MeasureOK, ExcursionsOK
  <2>3. Equity(book, cycle, price)' = Equity(book, cycle, price)
    BY <1>1 DEF Equity, Unrealized, Gross, ExitFee
  <2>4. SettledOK' BY <1>1, <2>3 DEF MeasureOK, SettledOK
  <2>5. QED BY <2>1, <2>2, <2>4 DEF MeasureOK
<1>2. CASE Stranger BY <1>1, <1>2 DEF Stranger
<1>3. CASE UNCHANGED vars BY <1>1, <1>3 DEF vars
<1>4. QED
  BY <1>2, <1>3, MeasureNextCandle, MeasureTakeProfit, MeasureAddDca, MeasureEndSegment
     DEF Next

\* The maximum the report gives is the record's longest spell.
LEMMA LongestSays ==
  ASSUME Typed, MeasureOK, marks # <<>>
  PROVE  Report.longestUnderwater = Max({0} \union Spells(marks))
<1>1. /\ marks \in Seq(Marks) /\ book \in Books /\ Len(marks) \in Nat
      /\ Len(marks) \in 1 .. Len(marks)
  <2>1. marks \in Seq(Marks) /\ book \in Books BY DEF Typed
  <2>2. Len(marks) \in Nat /\ Len(marks) # 0 BY <2>1
  <2>3. QED BY <2>1, <2>2
<1>2. LastTime = marks[Len(marks)].at BY DEF LastTime
<1>3. Report.longestUnderwater = Max({Ongoing(book, marks)} \union Lengths(book))
  BY <1>2 DEF Report, Ongoing, Lengths
<1>4. {Ongoing(book, marks)} \union Lengths(book) \in SUBSET Int
  <2>1. book.underwater \in Int /\ book.recoveries \in Seq(Int) BY <1>1, BookFields
  <2>2. Ongoing(book, marks) \in Int BY <1>1, <2>1, MarkFields DEF Ongoing
  <2>3. Lengths(book) \in SUBSET Int BY <2>1 DEF Lengths
  <2>4. QED BY <2>2, <2>3
<1>5. {0} \union Spells(marks) \in SUBSET Int
  <2>1. ASSUME NEW i \in Sunk(marks) PROVE Spell(marks, i) \in Int
    <3>1. i \in 1 .. Len(marks) BY DEF Sunk
    <3>2. Surface(marks, i) \in 0 .. (i - 1) BY DEF MeasureOK, MeasuredOK, WaterOK
    <3>3. 1 + Surface(marks, i) \in 1 .. Len(marks) BY <1>1, <3>1, <3>2
    <3>4. Since(marks, i) \in Nat BY <1>1, <3>3, MarkFields DEF Since
    <3> DEFINE j == IF i < Len(marks) THEN i + 1 ELSE i
    <3>5. j \in 1 .. Len(marks) BY <1>1, <3>1
    <3>6. marks[j].at \in Nat BY <1>1, <3>5, MarkFields
    <3>7. QED BY <3>4, <3>6 DEF Spell
  <2>2. QED BY <2>1 DEF Spells
<1>6. PICK x \in Int : /\ Tops(x, {Ongoing(book, marks)} \union Lengths(book))
                       /\ Tops(x, {0} \union Spells(marks))
  BY DEF MeasureOK, MeasuredOK, LongestOK
<1>7. Max({Ongoing(book, marks)} \union Lengths(book)) = x BY <1>4, <1>6, TopsMax
<1>8. Max({0} \union Spells(marks)) = x BY <1>5, <1>6, TopsMax
<1>9. QED BY <1>3, <1>7, <1>8

\* The extremes of the record are those of the book.
LEMMA ExtremesSay ==
  ASSUME Typed, MeasureOK, marks # <<>>
  PROVE  LET n == Len(marks) IN
         /\ book.peak = PeakAt(marks, n)
         /\ book.drawdown = Max({PeakAt(marks, i) - marks[i].equity : i \in 1 .. n})
         /\ book.worst = Min({0} \union {marks[i].floating : i \in 1 .. n})
         /\ book.maxNotional = Max({marks[i].notional : i \in 1 .. n})
<1> DEFINE n == Len(marks)
<1>1. marks \in Seq(Marks) BY DEF Typed
<1>2. /\ PeakOK(book, marks) /\ ExtremesOK(book, marks) BY DEF MeasureOK, MeasuredOK
<1>3. \A i \in 1 .. n : /\ marks[i].equity \in Int /\ marks[i].floating \in Int
                        /\ marks[i].notional \in Int /\ PeakAt(marks, i) \in Int
  BY <1>1, <1>2, MarkFields DEF PeakOK
<1>4. /\ {0} \union {marks[i].equity : i \in 1 .. n} \in SUBSET Int
      /\ {PeakAt(marks, i) - marks[i].equity : i \in 1 .. n} \in SUBSET Int
      /\ {0} \union {marks[i].floating : i \in 1 .. n} \in SUBSET Int
      /\ {marks[i].notional : i \in 1 .. n} \in SUBSET Int
  BY <1>3
<1>5. Max({0} \union {marks[i].equity : i \in 1 .. n}) = book.peak
  BY <1>2, <1>4, TopsMax DEF PeakOK
<1>6. Max({PeakAt(marks, i) - marks[i].equity : i \in 1 .. n}) = book.drawdown
  BY <1>2, <1>4, TopsMax DEF ExtremesOK
<1>7. Min({0} \union {marks[i].floating : i \in 1 .. n}) = book.worst
  BY <1>2, <1>4, BottomsMin DEF ExtremesOK
<1>8. Max({marks[i].notional : i \in 1 .. n}) = book.maxNotional
  BY <1>2, <1>4, TopsMax DEF ExtremesOK
<1>9. QED BY <1>5, <1>6, <1>7, <1>8 DEF PeakAt

\* So are the excursions of the cycle in hand.
LEMMA ExcursionsSay ==
  ASSUME Typed, MeasureOK, Held(cycle)
  PROVE  LET own == OwnOf(marks, Len(replays)) IN
         /\ book.adverse = Max({0} \union {-g : g \in own})
         /\ book.favorable = Max({0} \union own)
<1> DEFINE own == OwnOf(marks, Len(replays))
<1>1. marks \in Seq(Marks) BY DEF Typed
<1>2. own \in SUBSET Int BY <1>1, MarkFields DEF OwnOf
<1>3. {0} \union own \in SUBSET Int /\ {0} \union {-g : g \in own} \in SUBSET Int BY <1>2
<1>4. /\ Tops(book.adverse, {0} \union {-g : g \in own})
      /\ Tops(book.favorable, {0} \union own)
  BY DEF MeasureOK, ExcursionsOK, ExcursionsOf
<1> DEFINE losses == {-g : g \in own}
<1> HIDE DEF own, losses
<1>5. {0} \union own \in SUBSET Int /\ {0} \union losses \in SUBSET Int BY <1>3 DEF losses
<1>6. Tops(book.adverse, {0} \union losses) /\ Tops(book.favorable, {0} \union own)
  BY <1>4 DEF losses
<1>7. Max({0} \union losses) = book.adverse /\ Max({0} \union own) = book.favorable
  BY <1>5, <1>6, TopsMax
<1>8. QED BY <1>7 DEF losses, own

\* The record says what the property does.
LEMMA MeasureSays == ASSUME Typed, MeasureOK PROVE EquityMeasured
<1> DEFINE n == Len(marks)
           peak == [i \in 1 .. n |-> Max({0} \union {marks[j].equity : j \in 1 .. i})]
           under == {i \in 1 .. n : marks[i].equity < peak[i]}
           since(i) == marks[1 + Max({0} \union {j \in 1 .. i : j \notin under})].at
           ends == {i \in 2 .. n : i - 1 \in under /\ i \notin under}
           own == {marks[i].gross : i \in {j \in 1 .. n : marks[j].cycle = Len(replays)}}
<1>1. SUFFICES ASSUME marks # <<>> PROVE EquityMeasured BY DEF EquityMeasured
<1>2. marks \in Seq(Marks) /\ n \in Nat /\ n \in 1 .. n
  <2>1. marks \in Seq(Marks) BY DEF Typed
  <2>2. n \in Nat /\ n # 0 BY <1>1, <2>1
  <2>3. QED BY <2>1, <2>2
<1>3. \A i \in 1 .. n : peak[i] = PeakAt(marks, i) BY DEF PeakAt
<1>4. under = Sunk(marks) BY <1>3 DEF Sunk
<1>5. \A i : since(i) = Since(marks, i) BY <1>4 DEF Since, Surface
<1>6. ends = Ends(marks) BY <1>4 DEF Ends
<1>7. own = OwnOf(marks, Len(replays)) BY DEF OwnOf
<1> DEFINE spells ==
             {marks[IF i + 1 \in 1 .. n THEN i + 1 ELSE i].at - since(i) : i \in under}
<1>8. spells = Spells(marks)
  <2>1. ASSUME NEW i \in under PROVE i + 1 \in 1 .. n <=> i < n
    <3>1. i \in 1 .. n OBVIOUS
    <3> HIDE DEF n, under
    <3>2. QED BY <1>2, <3>1
  <2> HIDE DEF since, under
  <2>2. \A i \in under : marks[IF i + 1 \in 1 .. n THEN i + 1 ELSE i].at - since(i)
                           = Spell(marks, i)
    BY <1>5, <2>1 DEF Spell
  <2>3. QED BY <1>4, <2>2 DEF Spells
<1>9. /\ book.peak = peak[n]
      /\ book.drawdown = Max({peak[i] - marks[i].equity : i \in 1 .. n})
      /\ book.worst = Min({0} \union {marks[i].floating : i \in 1 .. n})
      /\ book.maxNotional = Max({marks[i].notional : i \in 1 .. n})
  <2> HIDE DEF peak
  <2>1. {peak[i] - marks[i].equity : i \in 1 .. n}
          = {PeakAt(marks, i) - marks[i].equity : i \in 1 .. n}
    BY <1>3
  <2>2. QED BY <1>1, <1>2, <1>3, <2>1, ExtremesSay
<1>10. /\ book.underwater = IF n \in under THEN since(n) ELSE Never
       /\ Len(book.recoveries) = Cardinality(ends)
       /\ \A i \in ends : book.recoveries[Cardinality({j \in ends : j <= i})]
                            = marks[i].at - since(i - 1)
  <2> HIDE DEF since, under, ends
  <2>1. WaterOK(book, marks) /\ RecoveriesOK(book, marks) BY DEF MeasureOK, MeasuredOK
  <2>2. QED BY <1>4, <1>5, <1>6, <2>1 DEF WaterOK, RecoveriesOK
<1>11. Held(cycle) => /\ book.adverse = Max({0} \union {-g : g \in own})
                      /\ book.favorable = Max({0} \union own)
  <2> HIDE DEF own
  <2>1. QED BY <1>7, ExcursionsSay
<1>12. path = <<>> =>
         /\ Report.unrealized + Report.afterFunding = marks[n].equity
         /\ Report.longestUnderwater = Max({0} \union spells)
  <2> HIDE DEF spells
  <2>1. HAVE path = <<>>
  <2>2. Report.longestUnderwater = Max({0} \union spells) BY <1>1, <1>8, LongestSays
  <2>3. Equity(book, cycle, price) = marks[n].equity
    BY <1>1, <2>1 DEF MeasureOK, SettledOK
  <2>4. Report.unrealized = Unrealized(book, cycle, price)
        /\ Report.afterFunding = book.net - book.funding
    BY DEF Report
  <2>5. /\ book \in Books /\ Unrealized(book, cycle, price) \in Int
    BY UnrealizedInt DEF Typed
  <2>6. book.net \in Int /\ book.funding \in Int BY <2>5, BookFields
  <2>7. QED BY <2>2, <2>3, <2>4, <2>5, <2>6 DEF Equity
<1>13. QED BY <1>9, <1>10, <1>11, <1>12 DEF EquityMeasured

\* The running figures are those of the whole record of marks (backtest.py:
\* _mark_equity, _mark_position_risk, run).
THEOREM EquityIsMeasured == Spec => []EquityMeasured
<1>1. Init => MeasureOK BY MeasureInit
<1>2. Typed /\ SegmentOK /\ MeasureOK /\ [Next]_vars => MeasureOK' BY MeasureStep
<1>3. Typed /\ MeasureOK => EquityMeasured BY MeasureSays
<1>4. QED BY <1>1, <1>2, <1>3, ReplayTyped, PTL DEF Spec
===============================================================================
