---------------------------- MODULE SumTheorems ----------------------------
(***************************************************************************)
(* Sums of functions with a finite domain: what SumFunction of the         *)
(* community module Functions computes, whatever order it adds in.  Then   *)
(* what the proofs about indices need: least and greatest numbers, and     *)
(* induction up to a number, which is minimality in disguise.              *)
(***************************************************************************)
EXTENDS Integers, Functions, FiniteSetsExt, FiniteSetTheorems, WellFoundedInduction, TLAPS

\* The recursive function SumFunction evaluates on the domain T.
IsFold(g, f, T) ==
  g = [s \in SUBSET T |-> IF s = {} THEN 0
                          ELSE f[CHOOSE x \in s : TRUE] + g[s \ {CHOOSE x \in s : TRUE}]]

\* Among the members of a nonempty set of subsets of a finite set, one has no
\* other below it.
LEMMA MinimalSubset ==
  ASSUME NEW D, IsFiniteSet(D), NEW B \in SUBSET SUBSET D, B # {}
  PROVE  \E s \in B : \A t \in B : t \subseteq s => t = s
<1>1. IsWellFoundedOn(StrictSubsetOrdering(D), SUBSET D)
  BY FS_StrictSubsetOrderingWellFounded, FS_FiniteSubsetsOfFinite
<1>2. PICK s \in B : \A t \in B : ~ (<<t, s>> \in StrictSubsetOrdering(D))
  BY <1>1, WFMin
<1>3. ASSUME NEW t \in B, t \subseteq s, t # s PROVE FALSE
  BY <1>2, <1>3 DEF StrictSubsetOrdering
<1>4. QED BY <1>3

\* Evaluating the definition.
LEMMA SumIsFold ==
  ASSUME NEW f, \E g : IsFold(g, f, DOMAIN f)
  PROVE  \E g : IsFold(g, f, DOMAIN f) /\ SumFunction(f) = g[DOMAIN f]
<1> DEFINE G == CHOOSE g : IsFold(g, f, DOMAIN f)
<1>1. IsFold(G, f, DOMAIN f) OBVIOUS
<1>2. SumFunction(f) = G[DOMAIN f]
  BY DEF IsFold, SumFunction, SumFunctionOnSet, FoldFunctionOnSet, MapThenFoldSet
<1>3. QED BY <1>1, <1>2

\* The value at s of the fold: with the element CHOOSE takes from s first.
LEMMA FoldStep ==
  ASSUME NEW T, NEW f, NEW g, IsFold(g, f, T), NEW s \in SUBSET T
  PROVE  /\ s = {} => g[s] = 0
         /\ s # {} => \E x \in s : /\ x = CHOOSE y \in s : TRUE
                                   /\ g[s] = f[x] + g[s \ {x}]
BY DEF IsFold

\* Folds of functions that agree have the same values, whatever their domains.
LEMMA FoldUnique ==
  ASSUME NEW T, NEW U, IsFiniteSet(U), U \subseteq T, NEW f, NEW e,
         \A x \in U : f[x] = e[x],
         NEW g, NEW h, IsFold(g, f, T), IsFold(h, e, U)
  PROVE  \A s \in SUBSET U : g[s] = h[s]
<1> DEFINE B == {s \in SUBSET U : g[s] # h[s]}
<1>1. SUFFICES ASSUME B # {} PROVE FALSE OBVIOUS
<1>2. PICK s \in B : \A t \in B : t \subseteq s => t = s
  <2>1. B \in SUBSET SUBSET U OBVIOUS
  <2> HIDE DEF B
  <2> QED BY <1>1, <2>1, MinimalSubset
<1>3. s # {} BY FoldStep
<1>4. PICK x \in s : g[s] = f[x] + g[s \ {x}] /\ h[s] = e[x] + h[s \ {x}]
  <2>1. s \in SUBSET T /\ s \in SUBSET U OBVIOUS
  <2>2. PICK x \in s : x = (CHOOSE y \in s : TRUE) /\ g[s] = f[x] + g[s \ {x}]
    BY ONLY <1>3, <2>1, IsFold(g, f, T), FoldStep
  <2>3. PICK z \in s : z = (CHOOSE y \in s : TRUE) /\ h[s] = e[z] + h[s \ {z}]
    BY ONLY <1>3, <2>1, IsFold(h, e, U), FoldStep
  <2>4. QED BY <2>2, <2>3
<1>5. s \ {x} \notin B BY <1>2
<1>6. f[x] = e[x] /\ g[s \ {x}] = h[s \ {x}] BY <1>5
<1>7. QED BY <1>4, <1>6

\* The recursion of the fold has a solution.
LEMMA FoldExists ==
  ASSUME NEW D, IsFiniteSet(D), NEW f
  PROVE  \E g : IsFold(g, f, D)
<1> DEFINE B == {s \in SUBSET D : ~ \E g : IsFold(g, f, s)}
<1>1. SUFFICES ASSUME B # {} PROVE FALSE OBVIOUS
<1>2. PICK s \in B : \A t \in B : t \subseteq s => t = s
  <2>1. B \in SUBSET SUBSET D OBVIOUS
  <2> HIDE DEF B
  <2> QED BY <1>1, <2>1, MinimalSubset
<1> DEFINE H(t) == CHOOSE g : IsFold(g, f, t)
           V(t) == IF t = {} THEN 0
                   ELSE f[CHOOSE x \in t : TRUE]
                          + H(t \ {CHOOSE x \in t : TRUE})[t \ {CHOOSE x \in t : TRUE}]
           G == [t \in SUBSET s |-> V(t)]
<1>3. ASSUME NEW t, t \subseteq s, t # s PROVE IsFold(H(t), f, t)
  <2>1. t \notin B BY <1>2, <1>3
  <2>2. \E g : IsFold(g, f, t) BY <1>3, <2>1
  <2>3. QED BY <2>2
<1>4. ASSUME NEW t, t \subseteq s, t # s PROVE G[t] = H(t)[t]
  <2>1. CASE t = {} BY <1>3, <1>4, <2>1, FoldStep
  <2>2. CASE t # {}
    <3>1. PICK x \in t : /\ x = CHOOSE y \in t : TRUE
                         /\ H(t)[t] = f[x] + H(t)[t \ {x}]
      BY <1>3, <1>4, <2>2, FoldStep
    <3>2. IsFold(H(t), f, t) /\ IsFold(H(t \ {x}), f, t \ {x})
      BY <1>3, <1>4
    <3>3. IsFiniteSet(t \ {x})
      <4>1. t \ {x} \subseteq D BY <1>4
      <4>2. QED BY <4>1, FS_Subset
    <3> HIDE DEF H
    <3>4. H(t)[t \ {x}] = H(t \ {x})[t \ {x}]
      BY <3>2, <3>3, FoldUnique
    <3>5. G[t] = f[x] + H(t \ {x})[t \ {x}] BY <2>2, <3>1, <1>4
    <3>6. QED BY <3>1, <3>4, <3>5
  <2>3. QED BY <2>1, <2>2
<1>5. ASSUME NEW t \in SUBSET s, t # {}
      PROVE  V(t) = f[CHOOSE x \in t : TRUE] + G[t \ {CHOOSE x \in t : TRUE}]
  <2>1. PICK x \in t : x = CHOOSE y \in t : TRUE BY <1>5
  <2>2. t \ {x} \subseteq s /\ t \ {x} # s OBVIOUS
  <2>3. G[t \ {x}] = H(t \ {x})[t \ {x}] BY <1>4, <2>2
  <2> HIDE DEF H, G
  <2>4. QED BY <1>5, <2>1, <2>3
<1>6. G = [t \in SUBSET s |-> IF t = {} THEN 0
                              ELSE f[CHOOSE x \in t : TRUE]
                                     + G[t \ {CHOOSE x \in t : TRUE}]]
  <2>1. \A t \in SUBSET s : V(t) = IF t = {} THEN 0
                              ELSE f[CHOOSE x \in t : TRUE]
                                     + G[t \ {CHOOSE x \in t : TRUE}]
    <3>1. V({}) = 0 OBVIOUS
    <3> HIDE DEF V, H, G
    <3>2. QED BY <1>5, <3>1
  <2> DEFINE W(t) == IF t = {} THEN 0
                     ELSE f[CHOOSE x \in t : TRUE] + G[t \ {CHOOSE x \in t : TRUE}]
  <2>2. \A t \in SUBSET s : V(t) = W(t) BY <2>1
  <2> HIDE DEF V, W
  <2>3. [t \in SUBSET s |-> V(t)] = [t \in SUBSET s |-> W(t)] BY <2>2
  <2>4. G = [t \in SUBSET s |-> W(t)] BY <2>3 DEF G
  <2> QED BY <2>4 DEF W
<1>7. IsFold(G, f, s) BY <1>6 DEF IsFold
<1>8. QED BY <1>7

\* The recursion has one solution.
LEMMA FoldSame ==
  ASSUME NEW D, IsFiniteSet(D), NEW f, NEW g, NEW h, IsFold(g, f, D), IsFold(h, f, D)
  PROVE  g[D] = h[D]
<1> DEFINE B == {s \in SUBSET D : g[s] # h[s]}
<1>1. SUFFICES ASSUME B # {} PROVE FALSE OBVIOUS
<1>2. PICK s \in B : \A t \in B : t \subseteq s => t = s
  <2>1. B \in SUBSET SUBSET D OBVIOUS
  <2> HIDE DEF B
  <2> QED BY <1>1, <2>1, MinimalSubset
<1>3. s # {} BY FoldStep
<1>4. PICK x \in s : /\ x = CHOOSE y \in s : TRUE
                    /\ g[s] = f[x] + g[s \ {x}]
  BY <1>3, FoldStep
<1>5. h[s] = f[x] + h[s \ {x}]
  <2>1. PICK z \in s : z = (CHOOSE y \in s : TRUE) /\ h[s] = f[z] + h[s \ {z}]
    BY <1>3, FoldStep
  <2>2. QED BY <1>4, <2>1
<1>6. s \ {x} \notin B BY <1>2
<1>7. g[s \ {x}] = h[s \ {x}] BY <1>6
<1>8. QED BY <1>4, <1>5, <1>7

\* Whatever evaluates the recursion evaluates the sum.
LEMMA SumOfFold ==
  ASSUME NEW f, IsFiniteSet(DOMAIN f), NEW g, IsFold(g, f, DOMAIN f)
  PROVE  SumFunction(f) = g[DOMAIN f]
<1>1. PICK h : IsFold(h, f, DOMAIN f) /\ SumFunction(f) = h[DOMAIN f] BY SumIsFold
<1>2. g[DOMAIN f] = h[DOMAIN f] BY <1>1, FoldSame
<1>3. QED BY <1>1, <1>2

\* A sum of integers is an integer.
LEMMA FoldInt ==
  ASSUME NEW D, IsFiniteSet(D), NEW f \in [D -> Int], NEW g, IsFold(g, f, D)
  PROVE  \A s \in SUBSET D : g[s] \in Int
<1> DEFINE B == {s \in SUBSET D : g[s] \notin Int}
<1>1. SUFFICES ASSUME B # {} PROVE FALSE OBVIOUS
<1>2. PICK s \in B : \A t \in B : t \subseteq s => t = s
  <2>1. B \in SUBSET SUBSET D OBVIOUS
  <2> HIDE DEF B
  <2> QED BY <1>1, <2>1, MinimalSubset
<1>3. CASE s = {} BY <1>3, FoldStep
<1>4. CASE s # {}
  <2>1. PICK x \in s : g[s] = f[x] + g[s \ {x}] BY <1>4, FoldStep
  <2>2. g[s \ {x}] \in Int BY <1>2
  <2>3. f[x] \in Int OBVIOUS
  <2>4. QED BY <2>1, <2>2, <2>3
<1>5. QED BY <1>3, <1>4

\* A sum of naturals is a natural.
LEMMA FoldNat ==
  ASSUME NEW D, IsFiniteSet(D), NEW f \in [D -> Nat], NEW g, IsFold(g, f, D)
  PROVE  \A s \in SUBSET D : g[s] \in Nat
<1> DEFINE B == {s \in SUBSET D : g[s] \notin Nat}
<1>1. SUFFICES ASSUME B # {} PROVE FALSE OBVIOUS
<1>2. PICK s \in B : \A t \in B : t \subseteq s => t = s
  <2>1. B \in SUBSET SUBSET D OBVIOUS
  <2> HIDE DEF B
  <2> QED BY <1>1, <2>1, MinimalSubset
<1>3. CASE s = {} BY <1>3, FoldStep
<1>4. CASE s # {}
  <2>1. PICK x \in s : g[s] = f[x] + g[s \ {x}] BY <1>4, FoldStep
  <2>2. g[s \ {x}] \in Nat BY <1>2
  <2>3. f[x] \in Nat OBVIOUS
  <2>4. QED BY <2>1, <2>2, <2>3
<1>5. QED BY <1>3, <1>4

\* Any element may be added first.
LEMMA FoldTake ==
  ASSUME NEW D, IsFiniteSet(D), NEW f \in [D -> Int], NEW g, IsFold(g, f, D)
  PROVE  \A s \in SUBSET D : \A x \in s : g[s] = f[x] + g[s \ {x}]
<1> DEFINE B == {s \in SUBSET D : \E x \in s : g[s] # f[x] + g[s \ {x}]}
<1>1. SUFFICES ASSUME B # {} PROVE FALSE OBVIOUS
<1>2. PICK s \in B : \A t \in B : t \subseteq s => t = s
  <2>1. B \in SUBSET SUBSET D OBVIOUS
  <2> HIDE DEF B
  <2> QED BY <1>1, <2>1, MinimalSubset
<1>3. PICK x \in s : g[s] # f[x] + g[s \ {x}] OBVIOUS
<1>4. PICK y \in s : g[s] = f[y] + g[s \ {y}] BY FoldStep
<1>5. x # y BY <1>3, <1>4
<1>6. g[s \ {y}] = f[x] + g[(s \ {y}) \ {x}]
  <2>1. s \ {y} \notin B BY <1>2
  <2>2. QED BY <1>5, <2>1
<1>7. g[s \ {x}] = f[y] + g[(s \ {x}) \ {y}]
  <2>1. s \ {x} \notin B BY <1>2
  <2>2. QED BY <1>5, <2>1
<1>8. (s \ {x}) \ {y} = (s \ {y}) \ {x} OBVIOUS
<1>9. f[x] \in Int /\ f[y] \in Int /\ g[(s \ {y}) \ {x}] \in Int BY FoldInt
<1>10. g[s \ {y}] = f[x] + g[(s \ {y}) \ {x}] /\ g[s \ {x}] = f[y] + g[(s \ {y}) \ {x}]
  BY <1>6, <1>7, <1>8
<1> HIDE DEF B
<1>11. QED BY ONLY <1>3, <1>4, <1>9, <1>10

\* The same of the sum of a function.
LEMMA SumInt ==
  ASSUME NEW D, IsFiniteSet(D), NEW f \in [D -> Int]
  PROVE  SumFunction(f) \in Int
<1>1. DOMAIN f = D OBVIOUS
<1>2. PICK g : IsFold(g, f, D) /\ SumFunction(f) = g[D]
  BY <1>1, FoldExists, SumIsFold
<1>3. QED BY <1>2, FoldInt

\* A sum of natural numbers is a natural number.
LEMMA SumNat ==
  ASSUME NEW D, IsFiniteSet(D), NEW f \in [D -> Nat]
  PROVE  SumFunction(f) \in Nat
<1>1. DOMAIN f = D OBVIOUS
<1>2. PICK g : IsFold(g, f, D) /\ SumFunction(f) = g[D]
  BY <1>1, FoldExists, SumIsFold
<1>3. QED BY <1>2, FoldNat

\* A sum of naturals is at least each of them.
LEMMA SumBounds ==
  ASSUME NEW D, IsFiniteSet(D), NEW f \in [D -> Nat], NEW x \in D
  PROVE  f[x] <= SumFunction(f)
<1>1. DOMAIN f = D /\ f \in [D -> Int] OBVIOUS
<1>2. PICK g : IsFold(g, f, D) /\ SumFunction(f) = g[D]
  BY <1>1, FoldExists, SumIsFold
<1>3. g[D] = f[x] + g[D \ {x}] BY <1>1, <1>2, FoldTake
<1>4. g[D \ {x}] \in Nat /\ f[x] \in Nat BY <1>2, FoldNat
<1>5. QED BY <1>2, <1>3, <1>4

\* Without one element, a fold has the value of the fold over the rest.
LEMMA FoldRest ==
  ASSUME NEW D, IsFiniteSet(D), NEW x, NEW f, NEW e, \A y \in D \ {x} : f[y] = e[y],
         NEW g, NEW h, IsFold(g, f, D), IsFold(h, e, D \ {x})
  PROVE  g[D \ {x}] = h[D \ {x}]
<1> DEFINE U == D \ {x}
<1>1. U \subseteq D /\ IsFiniteSet(U) BY FS_Subset
<1>2. IsFold(h, e, U) /\ \A y \in U : f[y] = e[y] OBVIOUS
<1> HIDE DEF U
<1>3. \A s \in SUBSET U : g[s] = h[s] BY ONLY <1>1, <1>2, IsFold(g, f, D), FoldUnique
<1>4. QED BY <1>3 DEF U

\* One summand and the rest.
LEMMA SumTake ==
  ASSUME NEW D, IsFiniteSet(D), NEW f \in [D -> Int], NEW x \in D
  PROVE  SumFunction(f) = f[x] + SumFunction([y \in D \ {x} |-> f[y]])
<1> DEFINE e == [y \in D \ {x} |-> f[y]]
<1>1. DOMAIN f = D /\ DOMAIN e = D \ {x} /\ IsFiniteSet(D \ {x})
  BY FS_Subset
<1>2. PICK g : IsFold(g, f, D) /\ SumFunction(f) = g[D]
  BY <1>1, FoldExists, SumIsFold
<1>3. PICK h : IsFold(h, e, D \ {x}) /\ SumFunction(e) = h[D \ {x}]
  BY <1>1, FoldExists, SumIsFold
<1>4. g[D] = f[x] + g[D \ {x}] BY <1>2, FoldTake
<1>5. \A y \in D \ {x} : f[y] = e[y] OBVIOUS
<1> HIDE DEF e
<1>6. g[D \ {x}] = h[D \ {x}] BY <1>1, <1>2, <1>3, <1>5, FoldRest
<1>7. QED BY <1>2, <1>3, <1>4, <1>6 DEF e

\* The sum over a sequence that has grown by one.
LEMMA SumAppend ==
  ASSUME NEW n \in Nat, NEW f \in [1 .. n + 1 -> Int]
  PROVE  SumFunction(f) = SumFunction([i \in 1 .. n |-> f[i]]) + f[n + 1]
<1> DEFINE r == [i \in 1 .. n |-> f[i]]
<1>1. IsFiniteSet(1 .. n + 1) /\ IsFiniteSet(1 .. n) BY FS_Interval
<1>2. (1 .. n + 1) \ {n + 1} = 1 .. n OBVIOUS
<1>3. n + 1 \in 1 .. n + 1 OBVIOUS
<1>4. SumFunction(f) = f[n + 1] + SumFunction(r)
  <2>1. SumFunction(f) = f[n + 1]
          + SumFunction([i \in (1 .. n + 1) \ {n + 1} |-> f[i]])
    BY <1>1, <1>3, SumTake
  <2>2. QED BY <1>2, <2>1
<1>5. SumFunction(r) \in Int
  <2>1. r \in [1 .. n -> Int] OBVIOUS
  <2>2. QED BY <1>1, <2>1, SumInt
<1>6. f[n + 1] \in Int OBVIOUS
<1> HIDE DEF r
<1>7. SumFunction(f) = SumFunction(r) + f[n + 1] BY <1>4, <1>5, <1>6
<1>8. QED BY <1>7 DEF r

\* A sum over more summands, each at least as large, is at least as large.
LEMMA SumMonotone ==
  ASSUME NEW D, IsFiniteSet(D), NEW e \in [D -> Nat],
         NEW C, C \subseteq D, NEW f \in [C -> Nat],
         \A x \in C : f[x] <= e[x]
  PROVE  SumFunction(f) <= SumFunction(e)
<1>1. DOMAIN f = C /\ DOMAIN e = D /\ IsFiniteSet(C) BY FS_Subset
<1>2. PICK g : IsFold(g, f, C) /\ SumFunction(f) = g[C]
  BY <1>1, FoldExists, SumIsFold
<1>3. PICK h : IsFold(h, e, D) /\ SumFunction(e) = h[D]
  BY <1>1, FoldExists, SumIsFold
<1> DEFINE B == {s \in SUBSET D : ~ (g[s \cap C] <= h[s])}
<1>4. SUFFICES ASSUME B # {} PROVE FALSE
  <2>1. D \cap C = C OBVIOUS
  <2>2. D \notin B => g[D \cap C] <= h[D] OBVIOUS
  <2>3. QED BY <1>2, <1>3, <2>1, <2>2
<1>5. PICK s \in B : \A t \in B : t \subseteq s => t = s
  <2>1. B \in SUBSET SUBSET D OBVIOUS
  <2> HIDE DEF B
  <2> QED BY <1>4, <2>1, MinimalSubset
<1>6. /\ \A t \in SUBSET D : g[t \cap C] \in Nat /\ h[t] \in Nat
      /\ \A x \in C : f[x] \in Nat
      /\ \A x \in D : e[x] \in Nat
  <2>1. \A t \in SUBSET C : g[t] \in Nat BY <1>1, <1>2, FoldNat
  <2>2. \A t \in SUBSET D : h[t] \in Nat BY <1>3, FoldNat
  <2>3. QED BY <2>1, <2>2
<1>7. CASE s = {}
  <2>1. g[{}] = 0 BY <1>2, FoldStep
  <2>2. h[{}] = 0 BY <1>3, FoldStep
  <2>3. s \cap C = {} BY <1>7
  <2>4. QED BY <1>7, <2>1, <2>2, <2>3
<1>8. CASE s # {}
  <2>1. PICK x \in s : TRUE BY <1>8
  <2>2. h[s] = e[x] + h[s \ {x}] BY <1>3, FoldTake
  <2>3. s \ {x} \notin B BY <1>5
  <2>4. g[(s \ {x}) \cap C] <= h[s \ {x}] BY <2>3
  <2>5. CASE x \in C
    <3>1. s \cap C \in SUBSET C /\ x \in s \cap C BY <2>5
    <3>2. g[s \cap C] = f[x] + g[(s \cap C) \ {x}]
      BY <1>1, <1>2, <3>1, FoldTake
    <3>3. (s \cap C) \ {x} = (s \ {x}) \cap C OBVIOUS
    <3>4. f[x] <= e[x] BY <2>5
    <3>5. g[s \cap C] <= h[s]
      <4>1. /\ g[(s \ {x}) \cap C] \in Nat /\ h[s \ {x}] \in Nat
            /\ f[x] \in Nat /\ e[x] \in Nat
        BY <1>6, <2>5
      <4>2. g[s \cap C] = f[x] + g[(s \ {x}) \cap C] BY <3>2, <3>3
      <4>3. QED BY ONLY <2>2, <2>4, <3>4, <4>1, <4>2
    <3>6. QED BY <3>5
  <2>6. CASE x \notin C
    <3>1. s \cap C = (s \ {x}) \cap C BY <2>6
    <3>2. g[s \cap C] <= h[s]
      <4>1. g[(s \ {x}) \cap C] \in Nat /\ h[s \ {x}] \in Nat /\ e[x] \in Nat
        BY <1>6
      <4>2. g[s \cap C] = g[(s \ {x}) \cap C] BY <3>1
      <4>3. QED BY ONLY <2>2, <2>4, <4>1, <4>2
    <3>3. QED BY <3>2
  <2>7. QED BY <2>5, <2>6
<1>9. QED BY <1>7, <1>8

\* Changing one summand changes the sum by as much.
LEMMA SumReplace ==
  ASSUME NEW D, IsFiniteSet(D), NEW f \in [D -> Nat], NEW e \in [D -> Nat],
         NEW x \in D, \A y \in D \ {x} : f[y] = e[y]
  PROVE  SumFunction(e) + f[x] = SumFunction(f) + e[x]
<1> DEFINE r == [y \in D \ {x} |-> f[y]]
<1>1. SumFunction(f) = f[x] + SumFunction(r) BY SumTake
<1>2. r = [y \in D \ {x} |-> e[y]] OBVIOUS
<1>3. SumFunction(e) = e[x] + SumFunction(r) BY <1>2, SumTake
<1>4. SumFunction(r) \in Nat
  <2>1. IsFiniteSet(D \ {x}) BY FS_Subset
  <2>2. QED BY <2>1, SumNat
<1> HIDE DEF r
<1>5. QED BY <1>1, <1>3, <1>4

\* Adding a summand, perhaps one that is there already.
LEMMA SumAdd ==
  ASSUME NEW D, IsFiniteSet(D), NEW x, NEW e \in [D \cup {x} -> Nat]
  PROVE  SumFunction(e) <= SumFunction([y \in D |-> e[y]]) + e[x]
<1> DEFINE d == [y \in D |-> e[y]]
           r == [y \in (D \cup {x}) \ {x} |-> e[y]]
<1>1. IsFiniteSet(D \cup {x}) BY FS_AddElement
<1>2. SumFunction(e) = e[x] + SumFunction(r) BY <1>1, SumTake
<1>3. SumFunction(r) <= SumFunction(d)
  <2>1. (D \cup {x}) \ {x} \subseteq D /\ d \in [D -> Nat] OBVIOUS
  <2>2. r \in [(D \cup {x}) \ {x} -> Nat] OBVIOUS
  <2>3. \A y \in (D \cup {x}) \ {x} : r[y] <= d[y] OBVIOUS
  <2> HIDE DEF d, r
  <2>4. QED BY <2>1, <2>2, <2>3, SumMonotone
<1>4. SumFunction(r) \in Nat /\ SumFunction(d) \in Nat
  <2>1. IsFiniteSet((D \cup {x}) \ {x}) BY FS_Subset
  <2>2. QED BY <2>1, SumNat
<1> HIDE DEF r
<1>5. QED BY <1>2, <1>3, <1>4

\* A sum of zeros.
LEMMA SumZero ==
  ASSUME NEW D, IsFiniteSet(D), NEW f \in [D -> Nat], \A x \in D : f[x] = 0
  PROVE  SumFunction(f) = 0
<1>1. DOMAIN f = D OBVIOUS
<1>2. PICK g : IsFold(g, f, D) /\ SumFunction(f) = g[D]
  BY <1>1, FoldExists, SumIsFold
<1> DEFINE B == {s \in SUBSET D : g[s] # 0}
<1>3. SUFFICES ASSUME B # {} PROVE FALSE
  <2>1. D \notin B => g[D] = 0 OBVIOUS
  <2>2. QED BY <1>2, <2>1
<1>4. PICK s \in B : \A t \in B : t \subseteq s => t = s
  <2>1. B \in SUBSET SUBSET D OBVIOUS
  <2> HIDE DEF B
  <2> QED BY <1>3, <2>1, MinimalSubset
<1>5. s # {} BY <1>2, FoldStep
<1>6. PICK x \in s : g[s] = f[x] + g[s \ {x}] BY <1>2, <1>5, FoldStep
<1>7. g[s \ {x}] = 0 BY <1>4
<1>8. QED BY <1>6, <1>7

\* Scaling by a natural keeps the order and distributes over sums.
LEMMA Scaling ==
  ASSUME NEW k \in Nat, NEW a \in Nat, NEW b \in Nat
  PROVE  /\ k * a \in Nat
         /\ a <= b => k * a <= k * b
         /\ k * (a + b) = k * a + k * b
<1>1. k * a \in Nat OBVIOUS
<1>2. k * (a + b) = k * a + k * b OBVIOUS
<1>3. ASSUME a <= b PROVE k * a <= k * b
  <2>1. PICK d \in Nat : b = a + d
    <3>1. b - a \in Nat /\ b = a + (b - a) BY <1>3
    <3>2. QED BY <3>1
  <2>2. k * b = k * a + k * d BY <2>1
  <2>3. k * d \in Nat OBVIOUS
  <2>4. QED BY <1>1, <2>2, <2>3
<1>4. QED BY <1>1, <1>2, <1>3

-----------------------------------------------------------------------------
(* Numbers and finite sets *)

\* A set of naturals that is not empty has a least member.
LEMMA LeastNat ==
  ASSUME NEW B \in SUBSET Nat, B # {}
  PROVE  \E k \in B : \A l \in B : k <= l
<1>1. PICK b \in B : TRUE OBVIOUS
<1> DEFINE D == 0 .. b
           F == {t \in SUBSET D : \E k \in B : t = 0 .. k}
<1>2. IsFiniteSet(D) /\ F \in SUBSET SUBSET D /\ D \in F
  <2>1. IsFiniteSet(D) BY FS_Interval
  <2>2. QED BY <2>1
<1>3. PICK s \in F : \A t \in F : t \subseteq s => t = s
  <2> HIDE DEF D, F
  <2>1. F # {} BY <1>2
  <2>2. QED BY <1>2, <2>1, MinimalSubset
<1>4. PICK k \in B : s = 0 .. k OBVIOUS
<1>5. ASSUME NEW l \in B, l < k PROVE FALSE
  <2>1. 0 .. l \subseteq 0 .. k /\ k \in 0 .. k /\ k \notin 0 .. l BY <1>5
  <2>2. 0 .. l \in F BY <1>4, <2>1
  <2>3. QED BY <1>3, <1>4, <2>1, <2>2
<1>6. \A l \in B : k <= l BY <1>5
<1>7. QED BY <1>6

\* A set of naturals with 0 in it that is closed under the next one has them all.
LEMMA AllNaturals ==
  ASSUME NEW A, 0 \in A, NEW n \in Nat,
         \A k \in 1 .. n : k - 1 \in A => k \in A
  PROVE  \A k \in 0 .. n : k \in A
<1> DEFINE B == {k \in 0 .. n : k \notin A}
<1>1. SUFFICES ASSUME B # {} PROVE FALSE OBVIOUS
<1>2. PICK k \in B : \A l \in B : k <= l
  <2>1. B \in SUBSET Nat OBVIOUS
  <2> HIDE DEF B
  <2>2. QED BY <1>1, <2>1, LeastNat
<1>3. k \in 1 .. n /\ k - 1 \in 0 .. n /\ k \notin A OBVIOUS
<1>4. k - 1 \in A
  <2>1. k - 1 \notin B BY <1>2, <1>3
  <2>2. QED BY <1>3, <2>1
<1>5. QED BY <1>3, <1>4

\* Among the first numbers, a set that is not empty has its maximum.
LEMMA MaxOfIndices ==
  ASSUME NEW n \in Nat, NEW s \in SUBSET (1 .. n), s # {}
  PROVE  Max(s) \in s /\ \A i \in s : Max(s) >= i
<1> DEFINE B == {n - i : i \in s}
<1>1. B \in SUBSET Nat /\ B # {}
  <2>1. \A i \in s : n - i \in Nat
    <3>1. \A i \in 1 .. n : n - i \in Nat OBVIOUS
    <3>2. QED BY <3>1
  <2>2. QED BY <2>1
<1>2. PICK k \in B : \A l \in B : k <= l
  <2> HIDE DEF B
  <2>1. QED BY <1>1, LeastNat
<1>3. PICK x \in s : k = n - x OBVIOUS
<1>4. \A y \in s : x >= y
  <2>1. ASSUME NEW y \in s PROVE x >= y
    <3>1. n - y \in B OBVIOUS
    <3>2. n - x <= n - y BY <1>2, <1>3, <3>1
    <3>3. x \in Nat /\ y \in Nat OBVIOUS
    <3>4. QED BY <3>2, <3>3
  <2>2. QED BY <2>1
<1>5. QED BY <1>4 DEF Max

\* Finitely many integers have a least and a greatest.
LEMMA FiniteMinMax ==
  ASSUME NEW s \in SUBSET Int, s # {}, IsFiniteSet(s)
  PROVE  /\ Min(s) \in s /\ \A x \in s : Min(s) <= x
         /\ Max(s) \in s /\ \A x \in s : Max(s) >= x
<1> DEFINE B == {t \in SUBSET s : \E x \in s : t = {y \in s : y <= x}}
           C == {t \in SUBSET s : \E x \in s : t = {y \in s : y >= x}}
<1>1. B # {} /\ B \in SUBSET SUBSET s /\ C # {} /\ C \in SUBSET SUBSET s
  <2>1. PICK x \in s : TRUE OBVIOUS
  <2>2. {y \in s : y <= x} \in B /\ {y \in s : y >= x} \in C OBVIOUS
  <2>3. QED BY <2>2
<1>2. \E x \in s : \A y \in s : x <= y
  <2>1. PICK t \in B : \A u \in B : u \subseteq t => u = t
    <3> DEFINE D == s
    <3>1. IsFiniteSet(D) /\ B \in SUBSET SUBSET D /\ B # {} BY <1>1
    <3> HIDE DEF B, C, D
    <3>2. QED BY ONLY <3>1, MinimalSubset
  <2>2. PICK x \in s : t = {y \in s : y <= x} OBVIOUS
  <2>3. ASSUME NEW y \in s, y < x PROVE FALSE
    <3> DEFINE u == {z \in s : z <= y}
    <3>1. u \in B OBVIOUS
    <3>2. x \in Int /\ y \in Int /\ \A z \in s : z \in Int OBVIOUS
    <3>3. x \in t /\ x \notin u BY <2>2, <2>3, <3>2
    <3>4. \A z \in u : z \in t BY <2>2, <2>3, <3>2
    <3>5. u \subseteq t BY <3>4
    <3> HIDE DEF u, B
    <3>6. QED BY <2>1, <3>1, <3>3, <3>5
  <2>4. QED BY <2>3
<1>3. \E x \in s : \A y \in s : x >= y
  <2>1. PICK t \in C : \A u \in C : u \subseteq t => u = t
    <3> DEFINE D == s
    <3>1. IsFiniteSet(D) /\ C \in SUBSET SUBSET D /\ C # {} BY <1>1
    <3> HIDE DEF B, C, D
    <3>2. QED BY ONLY <3>1, MinimalSubset
  <2>2. PICK x \in s : t = {y \in s : y >= x} OBVIOUS
  <2>3. ASSUME NEW y \in s, y > x PROVE FALSE
    <3> DEFINE u == {z \in s : z >= y}
    <3>1. u \in C OBVIOUS
    <3>2. x \in Int /\ y \in Int /\ \A z \in s : z \in Int OBVIOUS
    <3>3. x \in t /\ x \notin u BY <2>2, <2>3, <3>2
    <3>4. \A z \in u : z \in t BY <2>2, <2>3, <3>2
    <3>5. u \subseteq t BY <3>4
    <3> HIDE DEF u, C
    <3>6. QED BY <2>1, <3>1, <3>3, <3>5
  <2>4. QED BY <2>3
<1>4. QED BY <1>2, <1>3 DEF Min, Max

\* The values of a function on a finite set are finitely many.
LEMMA FiniteValues ==
  ASSUME NEW f, IsFiniteSet(DOMAIN f)
  PROVE  IsFiniteSet({f[x] : x \in DOMAIN f})
<1> DEFINE T == {f[x] : x \in DOMAIN f}
           g == [x \in DOMAIN f |-> f[x]]
<1>1. g \in Surjection(DOMAIN f, T) BY DEF Surjection
<1> HIDE DEF g, T
<1>2. IsFiniteSet(T) BY <1>1, FS_Surjection
<1>3. QED BY <1>2 DEF T

\* As many values as places, if no two are the same.
LEMMA DistinctCount ==
  ASSUME NEW n \in Nat, NEW g, DOMAIN g = 1 .. n,
         \A k, l \in 1 .. n : k # l => g[k] # g[l]
  PROVE  IsFiniteSet({g[k] : k \in 1 .. n}) /\ Cardinality({g[k] : k \in 1 .. n}) = n
<1> DEFINE S == {g[k] : k \in 1 .. n}
           h == [k \in 1 .. n |-> g[k]]
<1>1. h \in Bijection(1 .. n, S)
  BY DEF Bijection, Injection, Surjection, IsInjective
<1> HIDE DEF h, S
<1>2. ExistsBijection(1 .. n, S) BY <1>1 DEF ExistsBijection
<1>3. IsFiniteSet(S) /\ Cardinality(S) = n BY <1>2, FS_CountingElements, FS_NatBijection
<1>4. QED BY <1>3 DEF S
===============================================================================
