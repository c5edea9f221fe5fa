---------------------------- MODULE HistoryProofs ----------------------------
(***************************************************************************)
(* What a validation promises, proved for any export, any tolerances and   *)
(* windows, and any replays: the matching of a regime is the best there    *)
(* is, the pairs of all regimes are pairs of the cycles they name, and the *)
(* groups of the rows are the positions.                                   *)
(*                                                                         *)
(* The table of a matching is a recursive function, which exists and is    *)
(* right cell by cell: a best matching of two prefixes either leaves out   *)
(* the last cycle or the last close, or it can be changed to end with the  *)
(* pair of them.  The folds that group the rows, split the cycles into     *)
(* regimes and compare greedily are runs of their steps.  The sections go  *)
(* from the table over the folds, the sorting and the types of an export's *)
(* cycles to the invariant, the totals, and the groups.                    *)
(***************************************************************************)
EXTENDS History, SumTheorems, SequenceTheorems

-----------------------------------------------------------------------------
(* The table of the matching *)

\* The value at p of a table, from those before it.
CellOf(best, cycles, closes, p) ==
  IF p[1] = 0 \/ p[2] = 0 THEN [n |-> 0, error |-> 0, pairs |-> <<>>]
  ELSE LET i == p[1]
           j == p[2]
           skipActual == best[<<i - 1, j>>]
           skipSimulated == best[<<i, j - 1>>]
           skip == IF Better(skipSimulated, skipActual) THEN skipSimulated
                   ELSE skipActual
           error == Error(cycles[i], closes[j])
           previous == best[<<i - 1, j - 1>>]
           match == [n |-> previous.n + 1, error |-> previous.error + error,
                     pairs |-> Append(previous.pairs, <<i, j>>)]
       IN IF error <= CloseWindow /\ Better(match, skip) THEN match ELSE skip

\* Its places.
Places(m, n) == (0 .. m) \X (0 .. n)

\* Tables that agree before p have the same value there.
LEMMA CellAgrees ==
  ASSUME NEW g, NEW h, NEW c, NEW s, NEW i \in Nat, NEW j \in Nat,
         i # 0 /\ j # 0 =>
           \A p \in {<<i - 1, j>>, <<i, j - 1>>, <<i - 1, j - 1>>} : g[p] = h[p]
  PROVE  CellOf(g, c, s, <<i, j>>) = CellOf(h, c, s, <<i, j>>)
BY DEF CellOf

\* There is a table.
LEMMA TableExists ==
  ASSUME NEW c, NEW s, NEW m \in Nat, NEW n \in Nat
  PROVE  \E g : g = [p \in Places(m, n) |-> CellOf(g, c, s, p)]
<1> DEFINE D == Places(m, n)
           A == {k \in Nat : \E g : \A i \in 0 .. m, j \in 0 .. n :
                   i + j <= k => g[<<i, j>>] = CellOf(g, c, s, <<i, j>>)}
           N == m + n
<1>1. 0 \in A
  <2> DEFINE e == [n |-> 0, error |-> 0, pairs |-> <<>>]
             g == [p \in D |-> e]
  <2>1. ASSUME NEW i \in 0 .. m, NEW j \in 0 .. n, i + j <= 0
        PROVE  g[<<i, j>>] = CellOf(g, c, s, <<i, j>>)
    <3>1. i = 0 /\ j = 0 BY <2>1
    <3>2. <<i, j>> \in D BY DEF Places
    <3>3. QED BY <3>1, <3>2 DEF CellOf
  <2> HIDE DEF g
  <2>2. QED BY <2>1
<1>2. ASSUME NEW k \in 1 .. N, k - 1 \in A PROVE k \in A
  <2>1. PICK g : \A i \in 0 .. m, j \in 0 .. n :
                   i + j <= k - 1 => g[<<i, j>>] = CellOf(g, c, s, <<i, j>>)
    BY <1>2
  <2> DEFINE h == [p \in D |-> CellOf(g, c, s, p)]
  <2>2. ASSUME NEW i \in 0 .. m, NEW j \in 0 .. n, i + j <= k
        PROVE  h[<<i, j>>] = CellOf(h, c, s, <<i, j>>)
    <3>1. <<i, j>> \in D BY DEF Places
    <3>2. h[<<i, j>>] = CellOf(g, c, s, <<i, j>>) BY <3>1
    <3>3. ASSUME i # 0 /\ j # 0
          PROVE  \A p \in {<<i - 1, j>>, <<i, j - 1>>, <<i - 1, j - 1>>} : g[p] = h[p]
      <4>1. ASSUME NEW a \in 0 .. m, NEW b \in 0 .. n, a + b <= k - 1
            PROVE  g[<<a, b>>] = h[<<a, b>>]
        <5>1. <<a, b>> \in D BY DEF Places
        <5>2. QED BY <2>1, <4>1, <5>1
      <4>2. /\ i - 1 \in 0 .. m /\ j - 1 \in 0 .. n
            /\ i - 1 + j <= k - 1 /\ i + (j - 1) <= k - 1 /\ i - 1 + (j - 1) <= k - 1
        BY <2>2, <3>3
      <4> HIDE DEF h
      <4>3. QED BY <4>1, <4>2
    <3> HIDE DEF h
    <3>4. CellOf(g, c, s, <<i, j>>) = CellOf(h, c, s, <<i, j>>) BY <3>3, CellAgrees
    <3>5. QED BY <3>2, <3>4
  <2> HIDE DEF h
  <2>3. QED BY <2>2
<1>3. N \in Nat OBVIOUS
<1>4. N \in A
  <2> HIDE DEF A, N
  <2>1. \A k \in 0 .. N : k \in A BY <1>1, <1>2, <1>3, AllNaturals
  <2>2. QED BY <1>3, <2>1
<1>5. PICK g : \A i \in 0 .. m, j \in 0 .. n :
                 i + j <= N => g[<<i, j>>] = CellOf(g, c, s, <<i, j>>)
  BY <1>4
<1> DEFINE h == [p \in D |-> g[p]]
<1>6. ASSUME NEW p \in D PROVE h[p] = CellOf(h, c, s, p)
  <2>1. PICK i \in 0 .. m, j \in 0 .. n : p = <<i, j>> BY DEF Places
  <2>2. h[p] = CellOf(g, c, s, <<i, j>>)
    <3>1. i + j <= N OBVIOUS
    <3>2. QED BY <1>5, <2>1, <3>1
  <2>3. ASSUME i # 0 /\ j # 0
        PROVE  \A q \in {<<i - 1, j>>, <<i, j - 1>>, <<i - 1, j - 1>>} : g[q] = h[q]
    <3>1. i - 1 \in 0 .. m /\ j - 1 \in 0 .. n BY <2>3
    <3>2. QED BY <3>1 DEF Places
  <2> HIDE DEF h
  <2>4. CellOf(g, c, s, <<i, j>>) = CellOf(h, c, s, <<i, j>>) BY <2>3, CellAgrees
  <2>5. QED BY <2>1, <2>2, <2>4
<1>7. h = [p \in D |-> CellOf(h, c, s, p)]
  <2> DEFINE e == [p \in D |-> CellOf(h, c, s, p)]
  <2>1. DOMAIN h = D /\ DOMAIN e = D OBVIOUS
  <2>2. \A p \in D : h[p] = e[p] BY <1>6
  <2>3. h = [p \in D |-> h[p]] OBVIOUS
  <2> HIDE DEF h
  <2>4. [p \in D |-> h[p]] = e BY <2>2
  <2>5. QED BY <2>3, <2>4
<1> HIDE DEF h
<1>8. QED BY <1>7

\* What the matching takes from it.
LEMMA MatchesTable ==
  ASSUME NEW c, NEW s, Len(c) \in Nat, Len(s) \in Nat
  PROVE  \E best : /\ \A i \in 0 .. Len(c), j \in 0 .. Len(s) :
                        best[<<i, j>>] = CellOf(best, c, s, <<i, j>>)
                   /\ OrderedMatches(c, s) = best[<<Len(c), Len(s)>>].pairs
<1> DEFINE m == Len(c)
           n == Len(s)
           best == CHOOSE g : g = [p \in Places(m, n) |-> CellOf(g, c, s, p)]
<1>1. OrderedMatches(c, s) = best[<<m, n>>].pairs
  BY DEF OrderedMatches, CellOf, Places
<1>2. best = [p \in Places(m, n) |-> CellOf(best, c, s, p)] BY TableExists
<1> HIDE DEF best
<1>3. ASSUME NEW i \in 0 .. m, NEW j \in 0 .. n
      PROVE  best[<<i, j>>] = CellOf(best, c, s, <<i, j>>)
  <2>1. <<i, j>> \in Places(m, n) BY DEF Places
  <2>2. QED BY <1>2, <2>1
<1>4. QED BY <1>1, <1>3

-----------------------------------------------------------------------------
(* Matchings *)

\* Sequences of cycles or closes have a time each.
Timed(c) ==
  /\ Len(c) \in Nat /\ DOMAIN c = 1 .. Len(c)
  /\ \A i \in 1 .. Len(c) : c[i].closed \in Int

\* Pairs of the first i cycles and the first j closes that are near enough.
NearPairs(c, s, i, j) ==
  {p \in (1 .. i) \X (1 .. j) : Error(c[p[1]], s[p[2]]) <= CloseWindow}

\* A set of pairs that uses no cycle and no close twice.
Apiece(m) == \A p, q \in m : p # q => p[1] # q[1] /\ p[2] # q[2]

\* One that keeps the order of both as well.
Ordered(m) == \A p, q \in m : p # q => /\ p[1] # q[1] /\ p[2] # q[2]
                                       /\ (p[1] < q[1] <=> p[2] < q[2])

\* The errors of a set of pairs.
ErrorsOf(c, s, m) == [p \in m |-> Error(c[p[1]], s[p[2]])]

\* The error of a pair is a natural number.
LEMMA ErrorNat ==
  ASSUME NEW c, NEW s, NEW a, NEW b, c[a].closed \in Int, s[b].closed \in Int
  PROVE  Error(c[a], s[b]) \in Nat
BY DEF Error, Apart

\* The total error is the sum of the errors.
LEMMA TotalErrorSum ==
  ASSUME NEW c, NEW s, NEW m, IsFiniteSet(m)
  PROVE  TotalError(c, s, m) = SumFunction(ErrorsOf(c, s, m))
<1> DEFINE f == ErrorsOf(c, s, m)
           G == CHOOSE g : g = [t \in SUBSET m |-> IF t = {} THEN 0
                  ELSE Error(c[(CHOOSE x \in t : TRUE)[1]], s[(CHOOSE x \in t : TRUE)[2]])
                         + g[t \ {CHOOSE x \in t : TRUE}]]
<1>1. DOMAIN f = m BY DEF ErrorsOf
<1>2. TotalError(c, s, m) = G[m] BY DEF TotalError, MapThenSumSet, MapThenFoldSet
<1>3. \A t \in SUBSET m : t # {} =>
        f[CHOOSE x \in t : TRUE]
          = Error(c[(CHOOSE x \in t : TRUE)[1]], s[(CHOOSE x \in t : TRUE)[2]])
  BY DEF ErrorsOf
<1>4. PICK h : IsFold(h, f, m) BY FoldExists
<1> HIDE DEF f
<1> DEFINE W(g) == [t \in SUBSET m |-> IF t = {} THEN 0
                     ELSE Error(c[(CHOOSE x \in t : TRUE)[1]], s[(CHOOSE x \in t : TRUE)[2]])
                            + g[t \ {CHOOSE x \in t : TRUE}]]
           V(g) == [t \in SUBSET m |-> IF t = {} THEN 0
                     ELSE f[CHOOSE x \in t : TRUE] + g[t \ {CHOOSE x \in t : TRUE}]]
<1>5. \A g : W(g) = V(g) BY <1>3
<1>6. IsFold(G, f, m)
  <2>1. h = V(h) BY <1>4 DEF IsFold
  <2>2. G = CHOOSE g : g = W(g) OBVIOUS
  <2> HIDE DEF W, G, V
  <2>3. h = W(h) BY <1>5, <2>1
  <2>4. G = W(G) BY <2>2, <2>3
  <2>5. G = V(G) BY <1>5, <2>4
  <2>6. QED BY <2>5 DEF V, IsFold
<1> HIDE DEF G
<1>7. SumFunction(f) = G[m] BY <1>1, <1>6, SumOfFold
<1>8. QED BY <1>2, <1>7 DEF f

\* One pair more.
LEMMA TotalErrorTake ==
  ASSUME NEW c, NEW s, Timed(c), Timed(s), NEW m, IsFiniteSet(m),
         m \subseteq (1 .. Len(c)) \X (1 .. Len(s)), NEW p \in m
  PROVE  /\ TotalError(c, s, m) = Error(c[p[1]], s[p[2]]) + TotalError(c, s, m \ {p})
         /\ TotalError(c, s, m) \in Nat
<1> DEFINE f == ErrorsOf(c, s, m)
           e == ErrorsOf(c, s, m \ {p})
<1>1. f \in [m -> Nat]
  <2>1. \A q \in m : Error(c[q[1]], s[q[2]]) \in Nat BY ErrorNat DEF Timed
  <2>2. QED BY <2>1 DEF ErrorsOf
<1>2. f \in [m -> Int] BY <1>1
<1>3. SumFunction(f) = f[p] + SumFunction([q \in m \ {p} |-> f[q]]) BY <1>2, SumTake
<1>4. [q \in m \ {p} |-> f[q]] = e BY DEF ErrorsOf
<1>5. f[p] = Error(c[p[1]], s[p[2]]) BY DEF ErrorsOf
<1>6. SumFunction(f) \in Nat BY <1>1, SumNat
<1>7. IsFiniteSet(m \ {p}) BY FS_Subset
<1>8. SumFunction(f) = TotalError(c, s, m) BY TotalErrorSum
<1>9. SumFunction(e) = TotalError(c, s, m \ {p}) BY <1>7, TotalErrorSum
<1>10. QED BY <1>3, <1>4, <1>5, <1>6, <1>8, <1>9

\* No pairs have no error, and any have a natural number of it.
LEMMA TotalErrorNat ==
  ASSUME NEW c, NEW s, Timed(c), Timed(s), NEW m, IsFiniteSet(m),
         m \subseteq (1 .. Len(c)) \X (1 .. Len(s))
  PROVE  TotalError(c, s, m) \in Nat /\ (m = {} => TotalError(c, s, m) = 0)
<1>1. ASSUME m = {} PROVE TotalError(c, s, m) = 0
  <2>1. ErrorsOf(c, s, m) \in [m -> Nat] /\ \A x \in m : ErrorsOf(c, s, m)[x] = 0
    BY <1>1 DEF ErrorsOf
  <2>2. SumFunction(ErrorsOf(c, s, m)) = 0 BY <2>1, SumZero
  <2>3. QED BY <2>2, TotalErrorSum
<1>2. ASSUME m # {} PROVE TotalError(c, s, m) \in Nat
  <2>1. PICK p \in m : TRUE BY <1>2
  <2>2. QED BY <2>1, TotalErrorTake
<1>3. QED BY <1>1, <1>2

\* Pairs of prefixes are finitely many.
LEMMA NearFinite ==
  ASSUME NEW c, NEW s, NEW i \in Nat, NEW j \in Nat, NEW m \in SUBSET NearPairs(c, s, i, j)
  PROVE  IsFiniteSet(m) /\ Cardinality(m) \in Nat
<1>1. IsFiniteSet(1 .. i) /\ IsFiniteSet(1 .. j) BY FS_Interval
<1>2. IsFiniteSet((1 .. i) \X (1 .. j)) BY <1>1, FS_Product
<1>3. m \in SUBSET ((1 .. i) \X (1 .. j)) BY DEF NearPairs
<1>4. QED BY <1>2, <1>3, FS_Subset, FS_CardinalityType

-----------------------------------------------------------------------------
(* What a cell promises *)

\* What a cell says of the pairs it has.
Built(r, c, s, i, j) ==
  /\ r.n \in Nat /\ r.error \in Nat
  /\ r.pairs \in Seq(Nat \X Nat) /\ Len(r.pairs) = r.n
  /\ \A k \in 1 .. r.n : r.pairs[k] \in NearPairs(c, s, i, j)
  /\ \A k, l \in 1 .. r.n : k < l => /\ r.pairs[k][1] < r.pairs[l][1]
                                     /\ r.pairs[k][2] < r.pairs[l][2]
  /\ r.error = TotalError(c, s, ToSet(r.pairs))

\* It has as many pairs as k, and as small an error as e if it has no more.
AsGood(r, k, e) == r.n > k \/ (r.n = k /\ r.error <= e)

\* No matching in order of the first i cycles and j closes is better.
Optimal(r, c, s, i, j) ==
  \A m \in SUBSET NearPairs(c, s, i, j) :
    Ordered(m) => AsGood(r, Cardinality(m), TotalError(c, s, m))

\* No matching at all has more pairs.
Most(r, c, s, i, j) ==
  \A m \in SUBSET NearPairs(c, s, i, j) : Apiece(m) => Cardinality(m) <= r.n

\* A time sequence that does not go back.
Rising(c) == \A i, j \in 1 .. Len(c) : i <= j => c[i].closed <= c[j].closed

\* What was built of fewer is built of more.
LEMMA BuiltMore ==
  ASSUME NEW r, NEW c, NEW s, NEW i \in Nat, NEW j \in Nat,
         NEW a \in 0 .. i, NEW b \in 0 .. j,
         Built(r, c, s, a, b)
  PROVE  Built(r, c, s, i, j)
<1>1. NearPairs(c, s, a, b) \subseteq NearPairs(c, s, i, j) BY DEF NearPairs
<1>2. QED BY <1>1 DEF Built

\* One more pair is built onto the last cell.
LEMMA BuiltMatch ==
  ASSUME NEW r, NEW c, NEW s, Timed(c), Timed(s),
         NEW i \in 1 .. Len(c), NEW j \in 1 .. Len(s), Built(r, c, s, i - 1, j - 1),
         Error(c[i], s[j]) <= CloseWindow
  PROVE  Built([n |-> r.n + 1, error |-> r.error + Error(c[i], s[j]),
                pairs |-> Append(r.pairs, <<i, j>>)], c, s, i, j)
<1> DEFINE n == r.n
           f == r.pairs
           p == <<i, j>>
           e == Append(f, p)
           N == NearPairs(c, s, i - 1, j - 1)
<1>1. /\ n \in Nat /\ r.error \in Nat /\ f \in Seq(Nat \X Nat) /\ Len(f) = n
      /\ \A k \in 1 .. n : f[k] \in N
      /\ \A k, l \in 1 .. n : k < l => f[k][1] < f[l][1] /\ f[k][2] < f[l][2]
      /\ r.error = TotalError(c, s, ToSet(f))
  BY DEF Built
<1>2. Len(c) \in Nat /\ Len(s) \in Nat /\ i \in Nat /\ j \in Nat BY DEF Timed
<1>3. p \in Nat \X Nat BY <1>2
<1>4. /\ e \in Seq(Nat \X Nat) /\ Len(e) = n + 1 /\ e[n + 1] = p
      /\ \A k \in 1 .. n : e[k] = f[k]
  BY <1>1, <1>3
<1>5. p \in NearPairs(c, s, i, j) /\ N \subseteq NearPairs(c, s, i, j)
  BY <1>2 DEF NearPairs
<1>6. \A q \in N : q[1] < i /\ q[2] < j BY <1>2 DEF NearPairs
<1> HIDE DEF e, f, n, N
<1>7. \A k \in 1 .. n + 1 : k \in 1 .. n \/ k = n + 1 BY <1>1
<1>8. \A k \in 1 .. n + 1 : e[k] \in NearPairs(c, s, i, j) BY <1>1, <1>4, <1>5, <1>7
<1>9. ASSUME NEW k \in 1 .. n + 1, NEW l \in 1 .. n + 1, k < l
      PROVE  e[k][1] < e[l][1] /\ e[k][2] < e[l][2]
  <2>1. k \in 1 .. n BY <1>1, <1>9
  <2>2. CASE l = n + 1
    <3>1. e[k] \in N BY <1>1, <1>4, <2>1
    <3>2. e[k][1] < i /\ e[k][2] < j BY <1>6, <3>1
    <3>3. e[l] = <<i, j>> BY <1>4, <2>2
    <3>4. QED BY <3>2, <3>3
  <2>3. CASE l \in 1 .. n BY <1>1, <1>4, <1>9, <2>1, <2>3
  <2>4. QED BY <1>7, <2>2, <2>3
<1>10. DOMAIN e = 1 .. n + 1 /\ DOMAIN f = 1 .. n BY <1>1, <1>4
<1>11. ToSet(e) = ToSet(f) \union {p}
  <2>1. n + 1 \in 1 .. n + 1 /\ \A k \in 1 .. n : k \in 1 .. n + 1 BY <1>1
  <2>2. ToSet(e) \subseteq ToSet(f) \union {p} BY <1>4, <1>7, <1>10 DEF ToSet
  <2>3. p \in ToSet(e) BY <1>4, <1>10, <2>1 DEF ToSet
  <2>4. ToSet(f) \subseteq ToSet(e) BY <1>4, <1>10, <2>1 DEF ToSet
  <2>5. QED BY <2>2, <2>3, <2>4
<1>12. ToSet(f) \subseteq N BY <1>1, <1>10 DEF ToSet
<1>13. p \notin ToSet(f)
  <2>1. p \notin N BY <1>2, <1>6
  <2>2. QED BY <1>12, <2>1
<1>14. TotalError(c, s, ToSet(e)) = Error(c[i], s[j]) + r.error
  <2>1. ToSet(e) \in SUBSET NearPairs(c, s, i, j) BY <1>5, <1>11, <1>12
  <2>2. IsFiniteSet(ToSet(e)) BY <1>2, <2>1, NearFinite
  <2>3. ToSet(e) \subseteq (1 .. Len(c)) \X (1 .. Len(s)) BY <1>2, <2>1 DEF NearPairs
  <2>4. ToSet(e) \ {p} = ToSet(f) BY <1>11, <1>13
  <2>5. p \in ToSet(e) /\ p[1] = i /\ p[2] = j BY <1>11
  <2> HIDE DEF p
  <2>6. TotalError(c, s, ToSet(e))
          = Error(c[p[1]], s[p[2]]) + TotalError(c, s, ToSet(e) \ {p})
    BY <2>2, <2>3, <2>5, TotalErrorTake
  <2>7. QED BY <1>1, <2>4, <2>5, <2>6
<1>15. Error(c[i], s[j]) \in Nat BY ErrorNat DEF Timed
<1>16. QED
  <2> DEFINE t == [n |-> n + 1, error |-> r.error + Error(c[i], s[j]), pairs |-> e]
  <2>1. t.n = n + 1 /\ t.error = r.error + Error(c[i], s[j]) /\ t.pairs = e OBVIOUS
  <2> HIDE DEF t
  <2>2. Built(t, c, s, i, j) BY <1>1, <1>4, <1>8, <1>9, <1>14, <1>15, <2>1 DEF Built
  <2>3. QED BY <2>2 DEF t, n, e, f, p

\* The best of a cell's candidates is at least as good as each.
LEMMA CellBest ==
  ASSUME NEW c, NEW s, NEW i, NEW j, NEW x, NEW y, NEW z, NEW w,
         x.n \in Nat, x.error \in Nat, y.n \in Nat, y.error \in Nat,
         w.n \in Nat, w.error \in Nat,
         NEW near \in BOOLEAN,
         z = LET skip == IF Better(y, x) THEN y ELSE x
             IN IF near /\ Better(w, skip) THEN w ELSE skip
  PROVE  /\ z \in {x, y} \/ (z = w /\ near)
         /\ AsGood(z, x.n, x.error) /\ AsGood(z, y.n, y.error)
         /\ near => AsGood(z, w.n, w.error)
BY DEF Better, AsGood

\* What is as good as something as good is as good.
LEMMA AsGoodTrans ==
  ASSUME NEW z, NEW x, NEW k \in Nat, NEW e \in Nat, z.n \in Nat, z.error \in Nat,
         x.n \in Nat, x.error \in Nat, AsGood(z, x.n, x.error), AsGood(x, k, e)
  PROVE  AsGood(z, k, e)
BY DEF AsGood

\* Without its last pair, or when one side's last is unused, a matching is one of
\* a shorter prefix.
LEMMA Shorter ==
  ASSUME NEW c, NEW s, NEW i \in Nat \ {0}, NEW j \in Nat \ {0},
         NEW m \in SUBSET NearPairs(c, s, i, j)
  PROVE  /\ (\A p \in m : p[1] # i) => m \in SUBSET NearPairs(c, s, i - 1, j)
         /\ (\A p \in m : p[2] # j) => m \in SUBSET NearPairs(c, s, i, j - 1)
         /\ (\A p \in m : p[1] # i /\ p[2] # j) =>
              m \in SUBSET NearPairs(c, s, i - 1, j - 1)
BY DEF NearPairs

\* In a matching in order that uses the last of both sides, these are a pair.
LEMMA LastPair ==
  ASSUME NEW c, NEW s, NEW i \in Nat \ {0}, NEW j \in Nat \ {0},
         NEW m \in SUBSET NearPairs(c, s, i, j), Ordered(m),
         NEW p \in m, p[1] = i, NEW q \in m, q[2] = j
  PROVE  p = <<i, j>>
<1>1. /\ p \in (1 .. i) \X (1 .. j) /\ q \in (1 .. i) \X (1 .. j) BY DEF NearPairs
<1>2. CASE p = q BY <1>1, <1>2
<1>3. CASE p # q
  <2>1. /\ p[1] # q[1] /\ p[2] # q[2] /\ (p[1] < q[1] <=> p[2] < q[2])
    BY <1>3 DEF Ordered
  <2>2. QED BY <1>1, <2>1
<1>4. QED BY <1>2, <1>3

\* What a pair adds to a matching.
Adds(c, s, m, r, e) ==
  /\ Cardinality(r) \in Nat /\ Cardinality(m) = Cardinality(r) + 1
  /\ TotalError(c, s, r) \in Nat /\ TotalError(c, s, m) = TotalError(c, s, r) + e
  /\ e \in Nat /\ e <= CloseWindow

\* One pair less.
LEMMA LessPair ==
  ASSUME NEW c, NEW s, Timed(c), Timed(s),
         NEW i \in 1 .. Len(c), NEW j \in 1 .. Len(s),
         NEW m \in SUBSET NearPairs(c, s, i, j), NEW p, p = <<i, j>>, p \in m
  PROVE  Adds(c, s, m, m \ {p}, Error(c[i], s[j]))
<1> DEFINE r == m \ {p}
<1>1. Len(c) \in Nat /\ Len(s) \in Nat /\ i \in Nat /\ j \in Nat BY DEF Timed
<1>2. IsFiniteSet(m) /\ Cardinality(m) \in Nat /\ IsFiniteSet(r) /\ Cardinality(r) \in Nat
  <2>1. r \in SUBSET NearPairs(c, s, i, j) OBVIOUS
  <2>2. QED BY <1>1, <2>1, NearFinite
<1>3. /\ m \subseteq (1 .. Len(c)) \X (1 .. Len(s))
      /\ r \subseteq (1 .. Len(c)) \X (1 .. Len(s))
  BY <1>1 DEF NearPairs
<1>4. p[1] = i /\ p[2] = j OBVIOUS
<1>5. Error(c[i], s[j]) <= CloseWindow BY <1>4 DEF NearPairs
<1>6. Error(c[i], s[j]) \in Nat BY ErrorNat DEF Timed
<1> HIDE DEF r
<1>7. Cardinality(r) = Cardinality(m) - 1 BY <1>2, FS_RemoveElement DEF r
<1>8. TotalError(c, s, m) = Error(c[i], s[j]) + TotalError(c, s, r)
  BY <1>2, <1>3, <1>4, TotalErrorTake DEF r
<1>9. TotalError(c, s, r) \in Nat BY <1>2, <1>3, TotalErrorNat
<1>10. /\ Cardinality(m) = Cardinality(r) + 1
       /\ TotalError(c, s, m) = TotalError(c, s, r) + Error(c[i], s[j])
  BY ONLY <1>2, <1>6, <1>7, <1>8, <1>9
<1>11. QED BY ONLY <1>2, <1>5, <1>6, <1>9, <1>10 DEF r, Adds

\* The best of prefixes makes the best of one more of each.
LEMMA OptimalStep ==
  ASSUME NEW c, NEW s, Timed(c), Timed(s),
         NEW i \in 1 .. Len(c), NEW j \in 1 .. Len(s),
         NEW x, NEW y, NEW w, NEW z, NEW v,
         Built(x, c, s, i - 1, j), Optimal(x, c, s, i - 1, j),
         Built(y, c, s, i, j - 1), Optimal(y, c, s, i, j - 1),
         Built(w, c, s, i - 1, j - 1), Optimal(w, c, s, i - 1, j - 1),
         z.n \in Nat, z.error \in Nat,
         AsGood(z, x.n, x.error), AsGood(z, y.n, y.error),
         v.n = w.n + 1, v.error = w.error + Error(c[i], s[j]),
         Error(c[i], s[j]) <= CloseWindow => AsGood(z, v.n, v.error)
  PROVE  Optimal(z, c, s, i, j)
<1> SUFFICES ASSUME NEW m \in SUBSET NearPairs(c, s, i, j), Ordered(m)
             PROVE  AsGood(z, Cardinality(m), TotalError(c, s, m))
  BY DEF Optimal
<1>1. /\ x.n \in Nat /\ x.error \in Nat /\ y.n \in Nat /\ y.error \in Nat
      /\ w.n \in Nat /\ w.error \in Nat
  BY DEF Built
<1>2. Len(c) \in Nat /\ Len(s) \in Nat /\ i \in Nat \ {0} /\ j \in Nat \ {0} BY DEF Timed
<1>3. IsFiniteSet(m) /\ Cardinality(m) \in Nat BY <1>2, NearFinite
<1>4. TotalError(c, s, m) \in Nat
  <2>1. m \subseteq (1 .. Len(c)) \X (1 .. Len(s)) BY <1>2 DEF NearPairs
  <2>2. QED BY <1>3, <2>1, TotalErrorNat
<1>5. CASE \A p \in m : p[1] # i
  <2>1. m \in SUBSET NearPairs(c, s, i - 1, j) BY <1>2, <1>5, Shorter
  <2>2. AsGood(x, Cardinality(m), TotalError(c, s, m)) BY <2>1 DEF Optimal
  <2>3. QED BY <1>1, <1>3, <1>4, <2>2, AsGoodTrans
<1>6. CASE \A p \in m : p[2] # j
  <2>1. m \in SUBSET NearPairs(c, s, i, j - 1) BY <1>2, <1>6, Shorter
  <2>2. AsGood(y, Cardinality(m), TotalError(c, s, m)) BY <2>1 DEF Optimal
  <2>3. QED BY <1>1, <1>3, <1>4, <2>2, AsGoodTrans
<1>7. CASE (\E p \in m : p[1] = i) /\ (\E p \in m : p[2] = j)
  <2> DEFINE r == m \ {<<i, j>>}
  <2>1. <<i, j>> \in m BY <1>2, <1>7, LastPair
  <2>2. /\ Cardinality(r) \in Nat /\ Cardinality(m) = Cardinality(r) + 1
        /\ TotalError(c, s, r) \in Nat
        /\ TotalError(c, s, m) = TotalError(c, s, r) + Error(c[i], s[j])
        /\ Error(c[i], s[j]) \in Nat /\ Error(c[i], s[j]) <= CloseWindow
    <3>1. Adds(c, s, m, r, Error(c[i], s[j])) BY <2>1, LessPair
    <3>2. QED BY <3>1 DEF Adds
  <2>3. \A p \in r : p[1] # i /\ p[2] # j
    <3>1. ASSUME NEW p \in r PROVE p[1] # i /\ p[2] # j
      <4> DEFINE q == <<i, j>>
      <4>1. p \in m /\ q \in m /\ p # q /\ q[1] = i /\ q[2] = j BY <2>1
      <4> HIDE DEF q, r
      <4>2. QED BY <4>1 DEF Ordered
    <3>2. QED BY <3>1
  <2>4. r \in SUBSET NearPairs(c, s, i - 1, j - 1)
    <3>1. r \in SUBSET NearPairs(c, s, i, j) OBVIOUS
    <3> HIDE DEF r
    <3>2. QED BY <1>2, <2>3, <3>1, Shorter
  <2>5. Ordered(r) BY DEF Ordered
  <2> HIDE DEF r
  <2>6. AsGood(w, Cardinality(r), TotalError(c, s, r)) BY <2>4, <2>5 DEF Optimal
  <2>7. AsGood(v, Cardinality(m), TotalError(c, s, m))
    BY ONLY <1>1, <2>2, <2>6, v.n = w.n + 1, v.error = w.error + Error(c[i], s[j]) DEF AsGood
  <2>8. v.n \in Nat /\ v.error \in Nat
    <3>1. w.error \in Nat /\ w.n \in Nat BY <1>1
    <3>2. Error(c[i], s[j]) \in Nat BY ErrorNat DEF Timed
    <3>3. w.error + Error(c[i], s[j]) \in Nat /\ w.n + 1 \in Nat BY ONLY <3>1, <3>2
    <3>4. QED BY ONLY <3>3, v.n = w.n + 1, v.error = w.error + Error(c[i], s[j])
  <2>9. AsGood(z, v.n, v.error) BY <2>2
  <2>10. QED BY <1>3, <1>4, <2>7, <2>8, <2>9, AsGoodTrans
<1>8. QED BY <1>5, <1>6, <1>7

\* Of rising sequences, two pairs that cross may be swapped: both stay near.
LEMMA SwapNear ==
  ASSUME NEW c, NEW s, Timed(c), Timed(s), Rising(c), Rising(s),
         NEW i \in 1 .. Len(c), NEW j \in 1 .. Len(s), NEW a \in 1 .. i, NEW b \in 1 .. j,
         Error(c[i], s[b]) <= CloseWindow, Error(c[a], s[j]) <= CloseWindow
  PROVE  Error(c[i], s[j]) <= CloseWindow /\ Error(c[a], s[b]) <= CloseWindow
<1>1. Len(c) \in Nat /\ Len(s) \in Nat BY DEF Timed
<1>2. a \in 1 .. Len(c) /\ b \in 1 .. Len(s) /\ a <= i /\ b <= j BY <1>1
<1>3. c[a].closed <= c[i].closed /\ s[b].closed <= s[j].closed BY <1>2 DEF Rising
<1>4. /\ c[a].closed \in Int /\ c[i].closed \in Int
      /\ s[b].closed \in Int /\ s[j].closed \in Int
  BY <1>2 DEF Timed
<1>5. CloseWindow \in Nat BY TraderExportAssumption
<1>6. \A t, u \in Int : (Apart(t, u) <= CloseWindow) <=>
                          (t - u <= CloseWindow /\ u - t <= CloseWindow)
  BY <1>5 DEF Apart
<1>7. \A t, u : Error(t, u) = Apart(t.closed, u.closed) BY DEF Error
<1>8. /\ c[i].closed - s[b].closed <= CloseWindow
      /\ s[j].closed - c[a].closed <= CloseWindow
      /\ c[a].closed - s[j].closed <= CloseWindow
      /\ s[b].closed - c[i].closed <= CloseWindow
  BY <1>4, <1>6, <1>7
<1>9. /\ c[i].closed - s[j].closed <= CloseWindow
      /\ s[j].closed - c[i].closed <= CloseWindow
      /\ c[a].closed - s[b].closed <= CloseWindow
      /\ s[b].closed - c[a].closed <= CloseWindow
  <2> DEFINE early == c[a].closed
             late == c[i].closed
             first == s[b].closed
             last == s[j].closed
             wide == CloseWindow
  <2>1. {early, late, first, last} \subseteq Int /\ wide \in Int /\ early <= late /\ first <= last
    BY <1>3, <1>4, <1>5
  <2>2. late - first <= wide /\ last - early <= wide BY <1>8
  <2> HIDE DEF early, late, first, last, wide
  <2>3. late - last <= wide /\ last - late <= wide BY ONLY <2>1, <2>2
  <2>4. early - first <= wide /\ first - early <= wide BY ONLY <2>1, <2>2
  <2>5. QED BY <2>3, <2>4 DEF early, late, first, last, wide
<1>10. QED BY <1>4, <1>6, <1>7, <1>9

\* One pair more than the last of both, in a prefix of each.
LEMMA MostPair ==
  ASSUME NEW c, NEW s, NEW i \in 1 .. Len(c), NEW j \in 1 .. Len(s), Timed(c), Timed(s),
         NEW m \in SUBSET NearPairs(c, s, i, j), Apiece(m), NEW p \in m, p = <<i, j>>
  PROVE  /\ m \ {p} \in SUBSET NearPairs(c, s, i - 1, j - 1) /\ Apiece(m \ {p})
         /\ Cardinality(m) = Cardinality(m \ {p}) + 1
<1>1. Len(c) \in Nat /\ Len(s) \in Nat /\ i \in Nat \ {0} /\ j \in Nat \ {0} BY DEF Timed
<1>2. IsFiniteSet(m) /\ Cardinality(m) \in Nat BY <1>1, NearFinite
<1>3. Cardinality(m \ {p}) = Cardinality(m) - 1 BY <1>2, FS_RemoveElement
<1>4. Apiece(m \ {p}) BY DEF Apiece
<1>5. p[1] = i /\ p[2] = j OBVIOUS
<1>6. \A q \in m \ {p} : q[1] # i /\ q[2] # j BY <1>5 DEF Apiece
<1>7. m \ {p} \in SUBSET NearPairs(c, s, i, j) OBVIOUS
<1>8. m \ {p} \in SUBSET NearPairs(c, s, i - 1, j - 1)
  <2> DEFINE r == m \ {p}
  <2>1. r \in SUBSET NearPairs(c, s, i, j) /\ \A q \in r : q[1] # i /\ q[2] # j BY <1>6
  <2> HIDE DEF r
  <2>2. r \in SUBSET NearPairs(c, s, i - 1, j - 1) BY <1>1, <2>1, Shorter
  <2>3. QED BY <2>2 DEF r
<1>9. QED BY <1>2, <1>3, <1>4, <1>8

\* Two pairs that cross make the last pair and one of the prefixes.
LEMMA MostCrossed ==
  ASSUME NEW c, NEW s, NEW i \in 1 .. Len(c), NEW j \in 1 .. Len(s), Timed(c), Timed(s),
         Rising(c), Rising(s),
         NEW m \in SUBSET NearPairs(c, s, i, j), Apiece(m),
         NEW p \in m, p[1] = i, p[2] # j, NEW q \in m, q[2] = j, q[1] # i
  PROVE  /\ Error(c[i], s[j]) <= CloseWindow
         /\ \E r \in SUBSET NearPairs(c, s, i - 1, j - 1) :
              Apiece(r) /\ Cardinality(m) = Cardinality(r) + 1
<1> DEFINE a == q[1]
           b == p[2]
           x == <<a, b>>
           n == m \ {p}
           k == n \ {q}
           r == k \union {x}
<1>1. Len(c) \in Nat /\ Len(s) \in Nat /\ i \in Nat \ {0} /\ j \in Nat \ {0} BY DEF Timed
<1>2. p \in (1 .. i) \X (1 .. j) /\ q \in (1 .. i) \X (1 .. j) BY DEF NearPairs
<1>3. a \in 1 .. i /\ b \in 1 .. j /\ a # i /\ b # j BY <1>2
<1>4. Error(c[i], s[b]) <= CloseWindow /\ Error(c[a], s[j]) <= CloseWindow
  BY DEF NearPairs
<1>5. Error(c[i], s[j]) <= CloseWindow /\ Error(c[a], s[b]) <= CloseWindow
  BY <1>3, <1>4, SwapNear
<1>6. IsFiniteSet(m) /\ Cardinality(m) \in Nat BY <1>1, NearFinite
<1>7. p # q BY <1>3
<1>8. IsFiniteSet(n) /\ Cardinality(n) = Cardinality(m) - 1 BY <1>6, FS_RemoveElement
<1>9. q \in n BY <1>7
<1>10. \A t \in k : t \in m /\ t # p /\ t # q OBVIOUS
<1>11. \A t \in k : t[1] # i /\ t[2] # b /\ t[1] # a /\ t[2] # j BY <1>10 DEF Apiece
<1>12. x[1] = a /\ x[2] = b OBVIOUS
<1>13. x \notin k BY <1>11, <1>12
<1>14. x \in NearPairs(c, s, i - 1, j - 1)
  <2>1. x \in (1 .. i - 1) \X (1 .. j - 1) BY <1>1, <1>3
  <2>2. QED BY <1>5, <1>12, <2>1 DEF NearPairs
<1>15. k \in SUBSET NearPairs(c, s, i - 1, j - 1)
  <2>1. k \in SUBSET NearPairs(c, s, i, j) /\ \A t \in k : t[1] # i /\ t[2] # j
    BY <1>10, <1>11
  <2> HIDE DEF k
  <2>2. QED BY ONLY <1>1, <2>1, Shorter
<1>16. Apiece(k) BY DEF Apiece
<1> HIDE DEF n
<1>17. IsFiniteSet(k) /\ Cardinality(k) = Cardinality(n) - 1 BY <1>8, <1>9, FS_RemoveElement
<1>18. Cardinality(n) \in Nat /\ Cardinality(k) \in Nat BY <1>8, <1>17, FS_CardinalityType
<1> HIDE DEF k, x, a, b
<1>19. Cardinality(r) = Cardinality(k) + 1 BY <1>13, <1>17, FS_AddElement
<1>20. Apiece(r) BY <1>11, <1>12, <1>16 DEF Apiece
<1>21. r \in SUBSET NearPairs(c, s, i - 1, j - 1) BY <1>14, <1>15
<1>22. Cardinality(m) = Cardinality(r) + 1 BY <1>6, <1>8, <1>17, <1>18, <1>19
<1>23. QED BY <1>5, <1>20, <1>21, <1>22

\* The most of prefixes makes the most of one more of each.
LEMMA MostStep ==
  ASSUME NEW c, NEW s, Timed(c), Timed(s), Rising(c), Rising(s),
         NEW i \in 1 .. Len(c), NEW j \in 1 .. Len(s),
         NEW x, NEW y, NEW w, NEW z, x.n \in Nat, y.n \in Nat, w.n \in Nat, z.n \in Nat,
         Most(x, c, s, i - 1, j), Most(y, c, s, i, j - 1), Most(w, c, s, i - 1, j - 1),
         z.n >= x.n, z.n >= y.n, Error(c[i], s[j]) <= CloseWindow => z.n >= w.n + 1
  PROVE  Most(z, c, s, i, j)
<1> SUFFICES ASSUME NEW m \in SUBSET NearPairs(c, s, i, j), Apiece(m)
             PROVE  Cardinality(m) <= z.n
  BY DEF Most
<1>1. Len(c) \in Nat /\ Len(s) \in Nat /\ i \in Nat \ {0} /\ j \in Nat \ {0} BY DEF Timed
<1>2. IsFiniteSet(m) /\ Cardinality(m) \in Nat BY <1>1, NearFinite
<1>3. CASE \A p \in m : p[1] # i
  <2>1. m \in SUBSET NearPairs(c, s, i - 1, j) BY <1>1, <1>3, Shorter
  <2>2. Cardinality(m) <= x.n BY <2>1 DEF Most
  <2>3. QED BY <1>2, <2>2
<1>4. CASE \A p \in m : p[2] # j
  <2>1. m \in SUBSET NearPairs(c, s, i, j - 1) BY <1>1, <1>4, Shorter
  <2>2. Cardinality(m) <= y.n BY <2>1 DEF Most
  <2>3. QED BY <1>2, <2>2
<1>5. ASSUME NEW p \in m, NEW q \in m, p[1] = i, q[2] = j
      PROVE  Cardinality(m) <= z.n
  <2>1. PICK r \in SUBSET NearPairs(c, s, i - 1, j - 1) :
          Apiece(r) /\ Cardinality(m) = Cardinality(r) + 1 /\ Error(c[i], s[j]) <= CloseWindow
    <3>1. p \in (1 .. i) \X (1 .. j) /\ q \in (1 .. i) \X (1 .. j) BY DEF NearPairs
    <3>2. CASE p[2] = j
      <4>1. p = <<i, j>> BY <1>5, <3>1, <3>2
      <4>2. Error(c[i], s[j]) <= CloseWindow BY <1>5, <3>2 DEF NearPairs
      <4>3. QED BY <4>1, <4>2, MostPair
    <3>3. CASE p[2] # j
      <4>1. CASE q[1] = i
        <5>1. q = <<i, j>> BY <1>5, <3>1, <4>1
        <5>2. Error(c[i], s[j]) <= CloseWindow BY <1>5, <4>1 DEF NearPairs
        <5>3. QED BY <5>1, <5>2, MostPair
      <4>2. CASE q[1] # i BY <1>5, <3>3, <4>2, MostCrossed
      <4>3. QED BY <4>1, <4>2
    <3>4. QED BY <3>2, <3>3
  <2>2. Cardinality(r) <= w.n BY <2>1 DEF Most
  <2>3. Cardinality(r) \in Nat
    <3>1. i - 1 \in Nat /\ j - 1 \in Nat BY <1>1
    <3>2. QED BY <3>1, NearFinite
  <2>4. QED BY ONLY <2>1, <2>2, <2>3, w.n \in Nat, z.n \in Nat,
              Error(c[i], s[j]) <= CloseWindow => z.n >= w.n + 1
<1>6. QED BY <1>3, <1>4, <1>5

-----------------------------------------------------------------------------
(* The table, cell by cell *)

\* What the table of the matching holds at a pair of prefixes.
Sound(r, c, s, i, j) ==
  /\ Built(r, c, s, i, j) /\ Optimal(r, c, s, i, j)
  /\ Rising(c) /\ Rising(s) => Most(r, c, s, i, j)

\* No cycles or no closes have no pairs.
LEMMA SoundEmpty ==
  ASSUME NEW c, NEW s, Timed(c), Timed(s),
         NEW i \in 0 .. Len(c), NEW j \in 0 .. Len(s), i = 0 \/ j = 0
  PROVE  Sound([n |-> 0, error |-> 0, pairs |-> <<>>], c, s, i, j)
<1> DEFINE e == <<>>
           r == [n |-> 0, error |-> 0, pairs |-> e]
<1>1. r.n = 0 /\ r.error = 0 /\ r.pairs = e OBVIOUS
<1>2. e \in Seq(Nat \X Nat) /\ Len(e) = 0 /\ ToSet(e) = {} BY DEF ToSet
<1>3. IsFiniteSet({}) /\ Cardinality({}) = 0 BY FS_EmptySet
<1>4. TotalError(c, s, {}) = 0 BY <1>3, TotalErrorNat
<1> HIDE DEF r, e
<1>5. Built(r, c, s, i, j) BY <1>1, <1>2, <1>4 DEF Built
<1>6. ASSUME NEW m \in SUBSET NearPairs(c, s, i, j) PROVE m = {}
  BY DEF NearPairs
<1>7. Optimal(r, c, s, i, j) BY <1>1, <1>3, <1>4, <1>6 DEF Optimal, AsGood
<1>8. Most(r, c, s, i, j)
  <2>1. \A m \in SUBSET NearPairs(c, s, i, j) : Cardinality(m) = 0 BY <1>3, <1>6
  <2>2. QED BY ONLY <1>1, <2>1 DEF Most
<1>9. QED BY <1>5, <1>7, <1>8 DEF Sound, r, e

\* The cells of a table whose neighbours hold what they should, hold it too.
LEMMA SoundCell ==
  ASSUME NEW c, NEW s, Timed(c), Timed(s),
         NEW i \in 1 .. Len(c), NEW j \in 1 .. Len(s), NEW best,
         Sound(best[<<i - 1, j>>], c, s, i - 1, j),
         Sound(best[<<i, j - 1>>], c, s, i, j - 1),
         Sound(best[<<i - 1, j - 1>>], c, s, i - 1, j - 1)
  PROVE  Sound(CellOf(best, c, s, <<i, j>>), c, s, i, j)
<1> DEFINE x == best[<<i - 1, j>>]
           y == best[<<i, j - 1>>]
           u == best[<<i - 1, j - 1>>]
           e == Error(c[i], s[j])
           near == e <= CloseWindow
           w == [n |-> u.n + 1, error |-> u.error + e, pairs |-> Append(u.pairs, <<i, j>>)]
           z == CellOf(best, c, s, <<i, j>>)
<1>1. Len(c) \in Nat /\ Len(s) \in Nat /\ i \in Nat \ {0} /\ j \in Nat \ {0} BY DEF Timed
<1>2. Sound(x, c, s, i - 1, j) /\ Sound(y, c, s, i, j - 1) /\ Sound(u, c, s, i - 1, j - 1)
  OBVIOUS
<1>3. z = LET skip == IF Better(y, x) THEN y ELSE x
          IN IF near /\ Better(w, skip) THEN w ELSE skip
  BY <1>1 DEF CellOf
<1>4. w.n = u.n + 1 /\ w.error = u.error + e OBVIOUS
<1>5. e \in Nat BY ErrorNat DEF Timed
<1>6. near => Built(w, c, s, i, j) BY <1>2, BuiltMatch DEF Sound
<1> HIDE DEF x, y, u, z, w, e
<1>7. /\ x.n \in Nat /\ x.error \in Nat /\ y.n \in Nat /\ y.error \in Nat
      /\ u.n \in Nat /\ u.error \in Nat
  BY <1>2 DEF Sound, Built
<1>8. w.n \in Nat /\ w.error \in Nat
  <2>1. u.n + 1 \in Nat /\ u.error + e \in Nat BY ONLY <1>5, <1>7
  <2>2. QED BY ONLY <1>4, <2>1
<1>9. near \in BOOLEAN OBVIOUS
<1> HIDE DEF near
<1>10. /\ z \in {x, y} \/ (z = w /\ near)
       /\ AsGood(z, x.n, x.error) /\ AsGood(z, y.n, y.error)
       /\ near => AsGood(z, w.n, w.error)
  BY <1>3, <1>7, <1>8, <1>9, CellBest
<1>11. Built(z, c, s, i, j)
  <2>1. Built(x, c, s, i, j)
    <3>1. i - 1 \in 0 .. i /\ j \in 0 .. j /\ i \in Nat /\ j \in Nat BY <1>1
    <3>2. QED BY <1>2, <3>1, BuiltMore DEF Sound
  <2>2. Built(y, c, s, i, j)
    <3>1. i \in 0 .. i /\ j - 1 \in 0 .. j /\ i \in Nat /\ j \in Nat BY <1>1
    <3>2. QED BY <1>2, <3>1, BuiltMore DEF Sound
  <2>3. QED BY <1>6, <1>10, <2>1, <2>2
<1>12. z.n \in Nat /\ z.error \in Nat BY <1>11 DEF Built
<1>13. Optimal(z, c, s, i, j)
  <2>1. /\ Built(x, c, s, i - 1, j) /\ Optimal(x, c, s, i - 1, j)
        /\ Built(y, c, s, i, j - 1) /\ Optimal(y, c, s, i, j - 1)
        /\ Built(u, c, s, i - 1, j - 1) /\ Optimal(u, c, s, i - 1, j - 1)
    BY <1>2 DEF Sound
  <2>2. w.n = u.n + 1 /\ w.error = u.error + Error(c[i], s[j]) BY <1>4 DEF e
  <2>3. Error(c[i], s[j]) <= CloseWindow => AsGood(z, w.n, w.error) BY <1>10 DEF near, e
  <2>4. QED BY <1>10, <1>12, <2>1, <2>2, <2>3, OptimalStep
<1>14. ASSUME Rising(c), Rising(s) PROVE Most(z, c, s, i, j)
  <2>1. /\ Most(x, c, s, i - 1, j) /\ Most(y, c, s, i, j - 1)
        /\ Most(u, c, s, i - 1, j - 1)
    BY <1>2, <1>14 DEF Sound
  <2>2. z.n >= x.n /\ z.n >= y.n /\ (near => z.n >= u.n + 1)
    BY ONLY <1>4, <1>7, <1>8, <1>10, <1>12 DEF AsGood
  <2>3. Error(c[i], s[j]) <= CloseWindow => z.n >= u.n + 1 BY <2>2 DEF near, e
  <2>4. QED BY <1>7, <1>12, <1>14, <2>1, <2>2, <2>3, MostStep
<1>15. Sound(z, c, s, i, j) BY <1>11, <1>13, <1>14 DEF Sound
<1>16. QED BY <1>15 DEF z

\* Every cell of the table holds what it should, by the sum of its indices.
LEMMA SoundTable ==
  ASSUME NEW c, NEW s, Timed(c), Timed(s), NEW best,
         \A i \in 0 .. Len(c), j \in 0 .. Len(s) :
           best[<<i, j>>] = CellOf(best, c, s, <<i, j>>)
  PROVE  \A i \in 0 .. Len(c), j \in 0 .. Len(s) : Sound(best[<<i, j>>], c, s, i, j)
<1> DEFINE m == Len(c)
           n == Len(s)
           A == {k \in Nat : \A i \in 0 .. m, j \in 0 .. n :
                   i + j <= k => Sound(best[<<i, j>>], c, s, i, j)}
           N == m + n
<1>1. m \in Nat /\ n \in Nat /\ N \in Nat BY DEF Timed
<1>2. ASSUME NEW i \in 0 .. m, NEW j \in 0 .. n, i = 0 \/ j = 0
      PROVE  Sound(best[<<i, j>>], c, s, i, j)
  <2>1. CellOf(best, c, s, <<i, j>>) = [n |-> 0, error |-> 0, pairs |-> <<>>]
    BY <1>2 DEF CellOf
  <2>2. QED BY <1>2, <2>1, SoundEmpty
<1>3. 0 \in A
  <2>1. \A i \in 0 .. m, j \in 0 .. n : i + j <= 0 => i = 0 BY <1>1
  <2>2. QED BY <1>2, <2>1
<1>4. ASSUME NEW k \in 1 .. N, k - 1 \in A PROVE k \in A
  <2>1. SUFFICES ASSUME NEW i \in 0 .. m, NEW j \in 0 .. n, i + j <= k
                 PROVE  Sound(best[<<i, j>>], c, s, i, j)
    BY <1>1
  <2>2. CASE i = 0 \/ j = 0 BY <1>2, <2>2
  <2>3. CASE ~ (i = 0 \/ j = 0)
    <3>1. i \in 1 .. m /\ j \in 1 .. n /\ i - 1 \in 0 .. m /\ j - 1 \in 0 .. n
      BY <1>1, <2>3
    <3>2. i - 1 + j <= k - 1 /\ i + (j - 1) <= k - 1 /\ i - 1 + (j - 1) <= k - 1
      BY <1>1, <2>1
    <3>3. \A a \in 0 .. m, b \in 0 .. n : a + b <= k - 1 => Sound(best[<<a, b>>], c, s, a, b)
      BY <1>4
    <3>4. /\ Sound(best[<<i - 1, j>>], c, s, i - 1, j)
          /\ Sound(best[<<i, j - 1>>], c, s, i, j - 1)
          /\ Sound(best[<<i - 1, j - 1>>], c, s, i - 1, j - 1)
      BY <3>1, <3>2, <3>3
    <3>5. Sound(CellOf(best, c, s, <<i, j>>), c, s, i, j) BY <3>1, <3>4, SoundCell
    <3>6. QED BY <3>5
  <2>4. QED BY <2>2, <2>3
<1>5. \A k \in 0 .. N : k \in A
  <2> HIDE DEF A, N
  <2>1. QED BY <1>1, <1>3, <1>4, AllNaturals
<1>6. ASSUME NEW i \in 0 .. m, NEW j \in 0 .. n PROVE Sound(best[<<i, j>>], c, s, i, j)
  <2>1. N \in A BY <1>1, <1>5
  <2>2. i + j <= N BY <1>1
  <2>3. QED BY <2>1, <2>2
<1>7. QED BY <1>6

\* The pairs _ordered_close_matches returns are a matching in order, of the most
\* pairs any matching in order has, of the least total error among those; of
\* sequences in the order of their closes, no matching has more pairs.
THEOREM OrderedMatchesBest ==
  ASSUME NEW c, NEW s, Timed(c), Timed(s)
  PROVE  \E r : /\ OrderedMatches(c, s) = r.pairs
                /\ Sound(r, c, s, Len(c), Len(s))
<1>1. Len(c) \in Nat /\ Len(s) \in Nat BY DEF Timed
<1>2. PICK best : /\ \A i \in 0 .. Len(c), j \in 0 .. Len(s) :
                        best[<<i, j>>] = CellOf(best, c, s, <<i, j>>)
                  /\ OrderedMatches(c, s) = best[<<Len(c), Len(s)>>].pairs
  BY <1>1, MatchesTable
<1>3. Len(c) \in 0 .. Len(c) /\ Len(s) \in 0 .. Len(s) BY <1>1
<1>4. Sound(best[<<Len(c), Len(s)>>], c, s, Len(c), Len(s)) BY <1>2, <1>3, SoundTable
<1>5. QED BY <1>2, <1>4

-----------------------------------------------------------------------------
(* The folds of the export and of the greedy comparison *)

\* A step of one of the three folds.
Step(kind, closes, state, x) ==
  CASE kind = "place" -> Place(state, x)
    [] kind = "split" -> Split(state, x)
    [] kind = "greedy" -> GreedyStep(state, x, closes)

\* The value of a fold at a set of indices, from the values at smaller ones.
ValueAt(g, kind, closes, base, f, s) ==
  IF s = {} THEN base ELSE Step(kind, closes, g[s \ {Max(s)}], f[Max(s)])

\* The recursive function that FoldLeft evaluates.
IsLeftFold(g, kind, closes, base, f, n) ==
  g = [s \in SUBSET (1 .. n) |-> ValueAt(g, kind, closes, base, f, s)]

\* The recursion has a solution.
LEMMA LeftFoldExists ==
  ASSUME NEW n \in Nat, NEW kind, NEW closes, NEW base, NEW f
  PROVE  \E g : IsLeftFold(g, kind, closes, base, f, n)
<1> DEFINE V(g, s) == ValueAt(g, kind, closes, base, f, s)
           A == {k \in 0 .. n : \E g : \A s \in SUBSET (1 .. k) : g[s] = V(g, s)}
<1>1. 0 \in A
  <2> DEFINE g == [s \in SUBSET (1 .. 0) |-> base]
  <2>1. \A s \in SUBSET (1 .. 0) : s = {} OBVIOUS
  <2>2. \A s \in SUBSET (1 .. 0) : g[s] = V(g, s) BY <2>1 DEF ValueAt
  <2>3. 0 \in 0 .. n OBVIOUS
  <2> HIDE DEF g, V
  <2>4. QED BY <2>2, <2>3
<1>2. ASSUME NEW k \in 1 .. n, k - 1 \in A PROVE k \in A
  <2> DEFINE j == k - 1
  <2>1. j \in Nat /\ k \in Nat /\ (1 .. k) = (1 .. j) \union {k} /\ k \in 0 .. n OBVIOUS
  <2>2. PICK g : \A s \in SUBSET (1 .. j) : g[s] = V(g, s) BY <1>2
  <2> DEFINE h == [s \in SUBSET (1 .. k) |-> V(g, s)]
  <2>3. ASSUME NEW s \in SUBSET (1 .. k) PROVE h[s] = V(h, s)
    <3> DEFINE r == s \ {Max(s)}
    <3>1. h[s] = V(g, s) OBVIOUS
    <3>2. CASE s = {} BY <3>1, <3>2 DEF ValueAt
    <3>3. CASE s # {}
      <4>1. Max(s) \in s /\ \A i \in s : Max(s) >= i BY <2>1, <3>3, MaxOfIndices
      <4>2. \A i \in r : i \in 1 .. j
        <5>1. ASSUME NEW i \in r PROVE i \in 1 .. j
          <6>1. i \in 1 .. k /\ Max(s) \in 1 .. k /\ Max(s) >= i /\ i # Max(s)
            BY <4>1
          <6>2. QED BY <2>1, <6>1
        <5>2. QED BY <5>1
      <4>3. r \in SUBSET (1 .. j) /\ r \in SUBSET (1 .. k) BY <2>1, <4>2
      <4>4. g[r] = V(g, r) /\ h[r] = V(g, r)
        <5> HIDE DEF V, r
        <5>1. QED BY <2>2, <4>3
      <4>5. h[r] = g[r] BY <4>4
      <4> HIDE DEF h
      <4>6. V(g, s) = Step(kind, closes, g[r], f[Max(s)]) BY <3>3 DEF ValueAt
      <4>7. V(h, s) = Step(kind, closes, h[r], f[Max(s)]) BY <3>3 DEF ValueAt
      <4>8. QED BY <3>1, <4>5, <4>6, <4>7
    <3>4. QED BY <3>2, <3>3
  <2> HIDE DEF h, V
  <2>4. QED BY <2>1, <2>3
<1>3. n \in A
  <2> HIDE DEF A
  <2>1. n \in 0 .. n OBVIOUS
  <2>2. QED BY <1>1, <1>2, <2>1, AllNaturals
<1>4. PICK g : \A s \in SUBSET (1 .. n) : g[s] = V(g, s) BY <1>3
<1> DEFINE h == [s \in SUBSET (1 .. n) |-> V(g, s)]
<1>5. ASSUME NEW s \in SUBSET (1 .. n) PROVE V(g, s) = V(h, s)
  <2>1. CASE s = {} BY <2>1 DEF ValueAt
  <2>2. CASE s # {}
    <3> DEFINE r == s \ {Max(s)}
    <3>1. r \in SUBSET (1 .. n) OBVIOUS
    <3>2. g[r] = V(g, r) /\ h[r] = V(g, r)
      <4> HIDE DEF V, r
      <4>1. QED BY <1>4, <3>1
    <3>3. h[r] = g[r] BY <3>2
    <3> HIDE DEF h
    <3>4. V(g, s) = Step(kind, closes, g[r], f[Max(s)]) BY <2>2 DEF ValueAt
    <3>5. V(h, s) = Step(kind, closes, h[r], f[Max(s)]) BY <2>2 DEF ValueAt
    <3>6. QED BY <3>3, <3>4, <3>5
  <2>3. QED BY <2>1, <2>2
<1>6. h = [s \in SUBSET (1 .. n) |-> V(h, s)]
  <2> HIDE DEF V
  <2>1. [s \in SUBSET (1 .. n) |-> V(g, s)] = [s \in SUBSET (1 .. n) |-> V(h, s)]
    <3> HIDE DEF h
    <3>1. QED BY <1>5
  <2>2. QED BY <2>1 DEF h
<1> HIDE DEF h
<1>7. IsLeftFold(h, kind, closes, base, f, n) BY <1>6 DEF IsLeftFold
<1>8. QED BY <1>7

\* A run of a fold: the states after each of the first k.
IsRun(h, kind, closes, base, f, n) ==
  /\ h[0] = base
  /\ \A k \in 1 .. n : h[k] = Step(kind, closes, h[k - 1], f[k])

\* A solution is a run.
LEMMA LeftFoldRuns ==
  ASSUME NEW n \in Nat, NEW kind, NEW closes, NEW base, NEW f,
         NEW g, IsLeftFold(g, kind, closes, base, f, n)
  PROVE  \E h : IsRun(h, kind, closes, base, f, n) /\ h[n] = g[1 .. n]
<1> DEFINE h == [k \in 0 .. n |-> g[1 .. k]]
<1>1. \A s \in SUBSET (1 .. n) : g[s] = ValueAt(g, kind, closes, base, f, s)
  BY DEF IsLeftFold
<1>2. h[0] = base
  <2>1. 1 .. 0 = {} /\ 0 \in 0 .. n /\ {} \in SUBSET (1 .. n) OBVIOUS
  <2>2. g[{}] = base BY <1>1, <2>1 DEF ValueAt
  <2>3. QED BY <2>1, <2>2
<1>3. ASSUME NEW k \in 1 .. n PROVE h[k] = Step(kind, closes, h[k - 1], f[k])
  <2> DEFINE s == 1 .. k
             r == 1 .. (k - 1)
  <2>1. /\ k \in Nat /\ k \in s /\ s \in SUBSET (1 .. n) /\ r = s \ {k} /\ s # {}
        /\ k \in 0 .. n /\ k - 1 \in 0 .. n /\ \A i \in s : i <= k
    <3>1. k \in Nat /\ k \in 0 .. n /\ k - 1 \in 0 .. n OBVIOUS
    <3>2. k \in s /\ s \in SUBSET (1 .. n) /\ \A i \in s : i <= k OBVIOUS
    <3>3. r = s \ {k} OBVIOUS
    <3>4. QED BY <3>1, <3>2, <3>3
  <2>2. Max(s) = k
    <3>1. s \in SUBSET (1 .. k) OBVIOUS
    <3> HIDE DEF s
    <3>2. Max(s) \in s /\ \A i \in s : Max(s) >= i BY <2>1, <3>1, MaxOfIndices
    <3>3. Max(s) \in Nat /\ Max(s) <= k /\ Max(s) >= k BY <2>1, <3>1, <3>2
    <3>4. QED BY <2>1, <3>3
  <2>3. h[k] = g[s] /\ h[k - 1] = g[r] BY <2>1
  <2> HIDE DEF h, s, r
  <2>4. g[s] = Step(kind, closes, g[s \ {Max(s)}], f[Max(s)])
    <3>1. g[s] = ValueAt(g, kind, closes, base, f, s) BY <1>1, <2>1
    <3>2. QED BY <2>1, <3>1 DEF ValueAt
  <2>5. QED BY <2>1, <2>2, <2>3, <2>4
<1>4. h[n] = g[1 .. n] OBVIOUS
<1> HIDE DEF h
<1>5. IsRun(h, kind, closes, base, f, n) BY <1>2, <1>3 DEF IsRun
<1>6. QED BY <1>4, <1>5

\* The greedy comparison is a run.
LEMMA GreedyRun ==
  ASSUME NEW c, NEW s, NEW n \in Nat, DOMAIN c = 1 .. n
  PROVE  \E h : /\ IsRun(h, "greedy", s, [available |-> DOMAIN s, matched |-> 0], c, n)
                /\ GreedyMatched(c, s) = h[n].matched
<1> DEFINE base == [available |-> DOMAIN s, matched |-> 0]
           G == CHOOSE g : g = [t \in SUBSET DOMAIN c |-> IF t = {} THEN base
                  ELSE GreedyStep(g[t \ {Max(t)}], c[Max(t)], s)]
<1>1. GreedyMatched(c, s) = G[DOMAIN c].matched
  BY DEF GreedyMatched, FoldLeft, MapThenFoldSet
<1>2. PICK k : IsLeftFold(k, "greedy", s, base, c, n) BY LeftFoldExists
<1>3. k = [t \in SUBSET DOMAIN c |-> IF t = {} THEN base
             ELSE GreedyStep(k[t \ {Max(t)}], c[Max(t)], s)]
  BY <1>2 DEF IsLeftFold, ValueAt, Step
<1>4. G = [t \in SUBSET DOMAIN c |-> IF t = {} THEN base
             ELSE GreedyStep(G[t \ {Max(t)}], c[Max(t)], s)]
  BY <1>3
<1> HIDE DEF G
<1>5. IsLeftFold(G, "greedy", s, base, c, n) BY <1>4 DEF IsLeftFold, ValueAt, Step
<1> HIDE DEF base
<1>6. PICK h : IsRun(h, "greedy", s, base, c, n) /\ h[n] = G[1 .. n] BY <1>5, LeftFoldRuns
<1>7. QED BY <1>1, <1>6 DEF base

\* The components of a bucket are a run.
LEMMA PlaceRun ==
  ASSUME NEW f, NEW n \in Nat, DOMAIN f = 1 .. n
  PROVE  \E h : IsRun(h, "place", 0, <<>>, f, n) /\ FoldLeft(Place, <<>>, f) = h[n]
<1> DEFINE G == CHOOSE g : g = [t \in SUBSET DOMAIN f |-> IF t = {} THEN <<>>
                  ELSE Place(g[t \ {Max(t)}], f[Max(t)])]
<1>1. FoldLeft(Place, <<>>, f) = G[DOMAIN f] BY DEF FoldLeft, MapThenFoldSet
<1>2. PICK k : IsLeftFold(k, "place", 0, <<>>, f, n) BY LeftFoldExists
<1>3. k = [t \in SUBSET DOMAIN f |-> IF t = {} THEN <<>>
             ELSE Place(k[t \ {Max(t)}], f[Max(t)])]
  BY <1>2 DEF IsLeftFold, ValueAt, Step
<1>4. G = [t \in SUBSET DOMAIN f |-> IF t = {} THEN <<>>
             ELSE Place(G[t \ {Max(t)}], f[Max(t)])]
  BY <1>3
<1> HIDE DEF G
<1>5. IsLeftFold(G, "place", 0, <<>>, f, n) BY <1>4 DEF IsLeftFold, ValueAt, Step
<1>6. PICK h : IsRun(h, "place", 0, <<>>, f, n) /\ h[n] = G[1 .. n] BY <1>5, LeftFoldRuns
<1>7. QED BY <1>1, <1>6

\* The regimes are a run.
LEMMA SplitRun ==
  ASSUME NEW f, NEW n \in Nat, DOMAIN f = 1 .. n
  PROVE  \E h : IsRun(h, "split", 0, <<>>, f, n) /\ Regimes(f) = h[n]
<1> DEFINE G == CHOOSE g : g = [t \in SUBSET DOMAIN f |-> IF t = {} THEN <<>>
                  ELSE Split(g[t \ {Max(t)}], f[Max(t)])]
<1>1. Regimes(f) = G[DOMAIN f] BY DEF Regimes, FoldLeft, MapThenFoldSet
<1>2. PICK k : IsLeftFold(k, "split", 0, <<>>, f, n) BY LeftFoldExists
<1>3. k = [t \in SUBSET DOMAIN f |-> IF t = {} THEN <<>>
             ELSE Split(k[t \ {Max(t)}], f[Max(t)])]
  BY <1>2 DEF IsLeftFold, ValueAt, Step
<1>4. G = [t \in SUBSET DOMAIN f |-> IF t = {} THEN <<>>
             ELSE Split(G[t \ {Max(t)}], f[Max(t)])]
  BY <1>3
<1> HIDE DEF G
<1>5. IsLeftFold(G, "split", 0, <<>>, f, n) BY <1>4 DEF IsLeftFold, ValueAt, Step
<1>6. PICK h : IsRun(h, "split", 0, <<>>, f, n) /\ h[n] = G[1 .. n] BY <1>5, LeftFoldRuns
<1>7. QED BY <1>1, <1>6

-----------------------------------------------------------------------------
(* The greedy comparison *)

\* A set of positive numbers that is not empty has its minimum.
LEMMA MinMember ==
  ASSUME NEW s \in SUBSET Nat, s # {}
  PROVE  Min(s) \in s
<1>1. \E x \in s : \A y \in s : x <= y BY LeastNat
<1>2. QED BY <1>1 DEF Min

\* Distance is the same from both ends.
LEMMA ApartSymmetric ==
  ASSUME NEW a \in Int, NEW b \in Int
  PROVE  Apart(a, b) \in Nat /\ Apart(a, b) = Apart(b, a)
BY DEF Apart

\* The nearest of the closes still available is one of them, and is taken only if
\* it is near enough.
LEMMA GreedyStepTakes ==
  ASSUME NEW s, Timed(s), NEW x, x.closed \in Int,
         NEW state, state.available \in SUBSET (1 .. Len(s))
  PROVE  \/ GreedyStep(state, x, s) = state
         \/ \E j \in state.available :
              /\ Apart(x.closed, s[j].closed) <= CloseWindow
              /\ GreedyStep(state, x, s)
                   = [available |-> state.available \ {j}, matched |-> state.matched + 1]
<1> DEFINE A == state.available
           apart(j) == Apart(s[j].closed, x.closed)
           N == {j \in A : \A k \in A : apart(j) <= apart(k)}
           near == Min(N)
<1>1. GreedyStep(state, x, s) =
        IF A = {} \/ apart(near) > CloseWindow THEN state
        ELSE [available |-> A \ {near}, matched |-> state.matched + 1]
  BY DEF GreedyStep
<1>2. Len(s) \in Nat /\ A \in SUBSET Nat /\ \A j \in A : s[j].closed \in Int
  BY DEF Timed
<1>3. \A j \in A : apart(j) \in Nat /\ apart(j) = Apart(x.closed, s[j].closed)
  BY <1>2, ApartSymmetric
<1>4. CASE A = {} BY <1>1, <1>4
<1>5. CASE A # {}
  <2> DEFINE D == {apart(j) : j \in A}
  <2>1. D \in SUBSET Nat /\ D # {} BY <1>3, <1>5
  <2>2. PICK d \in D : \A e \in D : d <= e
    <3> HIDE DEF D
    <3>1. QED BY <2>1, LeastNat
  <2>3. PICK j \in A : d = apart(j) OBVIOUS
  <2>4. \A k \in A : apart(j) <= apart(k) BY <2>2, <2>3
  <2>5. N # {} /\ N \in SUBSET Nat BY <1>2, <2>4
  <2>6. near \in N
    <3> HIDE DEF N
    <3>1. QED BY <2>5, MinMember
  <2>7. near \in A BY <2>6
  <2> HIDE DEF near, A
  <2>8. CASE apart(near) > CloseWindow BY <1>1, <2>8
  <2>9. CASE ~ (apart(near) > CloseWindow)
    <3>1. apart(near) \in Nat /\ apart(near) = Apart(x.closed, s[near].closed)
      BY <1>3, <2>7
    <3>2. CloseWindow \in Nat BY TraderExportAssumption
    <3> HIDE DEF apart
    <3>3. Apart(x.closed, s[near].closed) <= CloseWindow BY <2>9, <3>1, <3>2
    <3>4. GreedyStep(state, x, s)
            = [available |-> A \ {near}, matched |-> state.matched + 1]
      BY <1>1, <1>5, <2>9
    <3>5. QED BY <2>7, <3>3, <3>4 DEF A
  <2>10. QED BY <2>8, <2>9
<1>6. QED BY <1>4, <1>5

\* The cycles seen and the closes taken make a matching.
GreedyState(state, c, s, k) ==
  /\ state.available \in SUBSET (1 .. Len(s)) /\ state.matched \in Nat
  /\ \E m \in SUBSET NearPairs(c, s, k, Len(s)) :
       /\ Apiece(m) /\ Cardinality(m) = state.matched
       /\ \A p \in m : p[2] \notin state.available

\* One cycle more keeps it so.
LEMMA GreedyStateStep ==
  ASSUME NEW c, NEW s, Timed(c), Timed(s), NEW k \in 1 .. Len(c),
         NEW state, GreedyState(state, c, s, k - 1)
  PROVE  GreedyState(GreedyStep(state, c[k], s), c, s, k)
<1> DEFINE n == Len(s)
           next == GreedyStep(state, c[k], s)
<1>1. n \in Nat /\ Len(c) \in Nat /\ k \in Nat /\ k - 1 \in Nat BY DEF Timed
<1>2. PICK m \in SUBSET NearPairs(c, s, k - 1, n) :
        /\ Apiece(m) /\ Cardinality(m) = state.matched
        /\ \A p \in m : p[2] \notin state.available
  BY DEF GreedyState
<1>3. state.available \in SUBSET (1 .. n) /\ state.matched \in Nat BY DEF GreedyState
<1>4. m \in SUBSET NearPairs(c, s, k, n) BY <1>1 DEF NearPairs
<1>5. CASE next = state BY <1>2, <1>3, <1>4, <1>5 DEF GreedyState
<1>6. ASSUME NEW j \in state.available, Apart(c[k].closed, s[j].closed) <= CloseWindow,
             next = [available |-> state.available \ {j}, matched |-> state.matched + 1]
      PROVE  GreedyState(next, c, s, k)
  <2> DEFINE p == <<k, j>>
             r == m \union {p}
  <2>1. j \in 1 .. n BY <1>3
  <2>2. p[1] = k /\ p[2] = j OBVIOUS
  <2>3. p \in NearPairs(c, s, k, n)
    <3>1. p \in (1 .. k) \X (1 .. n) BY <1>1, <2>1
    <3>2. QED BY <1>6, <2>2, <3>1 DEF NearPairs, Error
  <2>4. \A q \in m : q[1] # k /\ q[2] # j
    <3>1. \A q \in m : q[1] \in 1 .. k - 1 BY DEF NearPairs
    <3>2. QED BY <1>1, <1>2, <1>6, <3>1
  <2>5. p \notin m BY <2>2, <2>4
  <2> HIDE DEF p
  <2>6. Apiece(r) BY <1>2, <2>2, <2>4 DEF Apiece
  <2>7. IsFiniteSet(m) /\ Cardinality(m) \in Nat BY <1>1, <1>4, NearFinite
  <2>8. Cardinality(r) = Cardinality(m) + 1 BY <2>5, <2>7, FS_AddElement
  <2>9. r \in SUBSET NearPairs(c, s, k, n) BY <1>4, <2>3
  <2>10. \A q \in r : q[2] \notin state.available \ {j} BY <1>2, <2>2
  <2>11. /\ next.available = state.available \ {j} /\ next.matched = state.matched + 1
    BY <1>6
  <2> HIDE DEF next, r
  <2>12. next.available \in SUBSET (1 .. n) /\ next.matched \in Nat
    <3>1. next.matched \in Nat BY ONLY <1>3, <2>11
    <3>2. QED BY <1>3, <2>11, <3>1
  <2>13. Cardinality(r) = next.matched BY <1>2, <2>8, <2>11
  <2>14. QED BY <2>6, <2>9, <2>10, <2>11, <2>12, <2>13 DEF GreedyState
<1>7. c[k].closed \in Int BY DEF Timed
<1>8. QED BY <1>3, <1>5, <1>6, <1>7, GreedyStepTakes

\* The greedy comparison finds no more pairs than a matching can have.
THEOREM GreedyIsMatching ==
  ASSUME NEW c, NEW s, Timed(c), Timed(s)
  PROVE  \E m \in SUBSET NearPairs(c, s, Len(c), Len(s)) :
           Apiece(m) /\ GreedyMatched(c, s) = Cardinality(m)
<1> DEFINE n == Len(c)
           base == [available |-> DOMAIN s, matched |-> 0]
<1>1. n \in Nat /\ DOMAIN c = 1 .. n /\ DOMAIN s = 1 .. Len(s) /\ Len(s) \in Nat
  BY DEF Timed
<1>2. PICK h : IsRun(h, "greedy", s, base, c, n) /\ GreedyMatched(c, s) = h[n].matched
  BY <1>1, GreedyRun
<1>3. base.available = 1 .. Len(s) /\ base.matched = 0 BY <1>1
<1> DEFINE A == {k \in 0 .. n : GreedyState(h[k], c, s, k)}
<1>4. 0 \in A
  <2>1. h[0] = base BY <1>2 DEF IsRun
  <2>2. {} \in SUBSET NearPairs(c, s, 0, Len(s)) /\ Cardinality({}) = 0 /\ Apiece({})
    BY FS_EmptySet DEF Apiece
  <2> HIDE DEF base
  <2>3. GreedyState(base, c, s, 0) BY <1>3, <2>2 DEF GreedyState
  <2>4. QED BY <1>1, <2>1, <2>3
<1>5. ASSUME NEW k \in 1 .. n, k - 1 \in A PROVE k \in A
  <2>1. h[k] = Step("greedy", s, h[k - 1], c[k]) BY <1>2 DEF IsRun
  <2>2. h[k] = GreedyStep(h[k - 1], c[k], s) BY <2>1 DEF Step
  <2>3. GreedyState(h[k - 1], c, s, k - 1) BY <1>5
  <2>4. GreedyState(h[k], c, s, k) BY <2>2, <2>3, GreedyStateStep
  <2>5. QED BY <1>1, <2>4
<1>6. n \in A
  <2> HIDE DEF A, base
  <2>1. n \in 0 .. n BY <1>1
  <2>2. QED BY <1>1, <1>4, <1>5, <2>1, AllNaturals
<1>7. GreedyState(h[n], c, s, n) BY <1>6
<1>8. QED BY <1>2, <1>7 DEF GreedyState

-----------------------------------------------------------------------------
(* Sorting *)

\* The order of InOrder: by key, then as the positions stand.
Earlier(keys, i, j) == Before(keys[i], keys[j]) \/ (keys[i] = keys[j] /\ i < j)

\* Where InOrder puts a position.
PlaceIn(I, keys, i) == Cardinality({j \in I : Earlier(keys, j, i)}) + 1

\* Positions with keys that can be compared.
Keyed(I, keys) ==
  IsFiniteSet(I) /\ I \subseteq Int /\ \A i \in I : keys[i] \in Int \X Int

\* The order is strict, transitive and total.
LEMMA EarlierOrders ==
  ASSUME NEW I, NEW keys, Keyed(I, keys)
  PROVE  /\ \A i \in I : ~ Earlier(keys, i, i)
         /\ \A i, j \in I : i # j => Earlier(keys, i, j) \/ Earlier(keys, j, i)
         /\ \A i, j, k \in I :
              Earlier(keys, i, j) /\ Earlier(keys, j, k) => Earlier(keys, i, k)
<1>1. \A i \in I : keys[i][1] \in Int /\ keys[i][2] \in Int BY DEF Keyed
<1>2. \A i, j \in I :
        keys[i] = keys[j] <=> keys[i][1] = keys[j][1] /\ keys[i][2] = keys[j][2]
  BY DEF Keyed
<1>3. \A i, j \in I : Earlier(keys, i, j) <=>
        \/ keys[i][1] < keys[j][1]
        \/ keys[i][1] = keys[j][1] /\ keys[i][2] < keys[j][2]
        \/ keys[i][1] = keys[j][1] /\ keys[i][2] = keys[j][2] /\ i < j
  BY <1>2 DEF Earlier, Before
<1>4. \A i \in I : i \in Int BY DEF Keyed
<1>5. \A i \in I : ~ Earlier(keys, i, i) BY ONLY <1>1, <1>3, <1>4
<1>6. \A i, j \in I : i # j => Earlier(keys, i, j) \/ Earlier(keys, j, i)
  BY ONLY <1>1, <1>3, <1>4
<1>7. \A i, j, k \in I : Earlier(keys, i, j) /\ Earlier(keys, j, k) => Earlier(keys, i, k)
  BY ONLY <1>1, <1>3, <1>4
<1>8. QED BY <1>5, <1>6, <1>7

\* An earlier position has an earlier place, and all places are among the first.
LEMMA PlaceRises ==
  ASSUME NEW I, NEW keys, Keyed(I, keys)
  PROVE  /\ \A i \in I : PlaceIn(I, keys, i) \in 1 .. Cardinality(I)
         /\ \A i, j \in I : Earlier(keys, i, j) => PlaceIn(I, keys, i) < PlaceIn(I, keys, j)
<1> DEFINE B(i) == {j \in I : Earlier(keys, j, i)}
<1>1. /\ \A i \in I : ~ Earlier(keys, i, i)
      /\ \A i, j, k \in I :
           Earlier(keys, i, j) /\ Earlier(keys, j, k) => Earlier(keys, i, k)
  BY EarlierOrders
<1>2. IsFiniteSet(I) /\ Cardinality(I) \in Nat BY FS_CardinalityType DEF Keyed
<1>3. \A i \in I : IsFiniteSet(B(i)) /\ Cardinality(B(i)) \in Nat
  <2>1. ASSUME NEW i \in I PROVE IsFiniteSet(B(i)) /\ Cardinality(B(i)) \in Nat
    <3>1. B(i) \in SUBSET I OBVIOUS
    <3> HIDE DEF B
    <3>2. QED BY <1>2, <3>1, FS_Subset, FS_CardinalityType
  <2>2. QED BY <2>1
<1>4. \A i \in I : PlaceIn(I, keys, i) = Cardinality(B(i)) + 1 BY DEF PlaceIn
<1>5. ASSUME NEW i \in I PROVE PlaceIn(I, keys, i) \in 1 .. Cardinality(I)
  <2>1. B(i) \in SUBSET I /\ i \notin B(i) BY <1>1
  <2> HIDE DEF B
  <2>2. Cardinality(B(i)) <= Cardinality(I) /\ Cardinality(B(i)) # Cardinality(I)
    BY <1>2, <2>1, FS_Subset
  <2>3. QED BY <1>2, <1>3, <1>4, <2>2
<1>6. ASSUME NEW i \in I, NEW j \in I, Earlier(keys, i, j)
      PROVE  PlaceIn(I, keys, i) < PlaceIn(I, keys, j)
  <2>1. B(i) \in SUBSET B(j) /\ i \in B(j) /\ i \notin B(i) BY <1>1, <1>6
  <2> HIDE DEF B
  <2>2. Cardinality(B(i)) <= Cardinality(B(j)) /\ Cardinality(B(i)) # Cardinality(B(j))
    BY <1>3, <2>1, FS_Subset
  <2>3. QED BY <1>3, <1>4, <2>2
<1>7. QED BY <1>5, <1>6

\* InOrder lists each position once, none before an earlier one.
LEMMA InOrderSorts ==
  ASSUME NEW I, NEW keys, Keyed(I, keys)
  PROVE  /\ InOrder(I, keys) \in [1 .. Cardinality(I) -> I]
         /\ \A i \in I : \E r \in 1 .. Cardinality(I) : InOrder(I, keys)[r] = i
         /\ \A r, q \in 1 .. Cardinality(I) :
              r < q => Earlier(keys, InOrder(I, keys)[r], InOrder(I, keys)[q])
<1> DEFINE n == Cardinality(I)
           place == [i \in I |-> PlaceIn(I, keys, i)]
           order == InOrder(I, keys)
<1>1. /\ \A i \in I : ~ Earlier(keys, i, i)
      /\ \A i, j \in I : i # j => Earlier(keys, i, j) \/ Earlier(keys, j, i)
  BY EarlierOrders
<1>2. /\ \A i \in I : PlaceIn(I, keys, i) \in 1 .. n
      /\ \A i, j \in I : Earlier(keys, i, j) => PlaceIn(I, keys, i) < PlaceIn(I, keys, j)
  BY PlaceRises
<1>3. n \in Nat /\ IsFiniteSet(I) BY FS_CardinalityType DEF Keyed
<1>4. \A i, j \in I : PlaceIn(I, keys, i) = PlaceIn(I, keys, j) => i = j
  <2>1. ASSUME NEW i \in I, NEW j \in I, PlaceIn(I, keys, i) = PlaceIn(I, keys, j), i # j
        PROVE  FALSE
    <3>1. PlaceIn(I, keys, i) \in Nat /\ PlaceIn(I, keys, j) \in Nat BY <1>2, <1>3
    <3>2. QED BY <1>1, <1>2, <2>1, <3>1
  <2>2. QED BY <2>1
<1>5. place \in Injection(I, 1 .. n)
  BY <1>2, <1>4 DEF Injection, IsInjective
<1>6. IsFiniteSet(1 .. n) /\ Cardinality(1 .. n) = n
  <2>1. 1 \in Int /\ n \in Int BY <1>3
  <2>2. IsFiniteSet(1 .. n) /\ Cardinality(1 .. n) = IF 1 > n THEN 0 ELSE n - 1 + 1
    BY <2>1, FS_Interval
  <2>3. QED BY <1>3, <2>2
<1>7. place \in Surjection(I, 1 .. n) BY <1>5, <1>6, FS_Injection
<1>8. \A r \in 1 .. n : \E i \in I : PlaceIn(I, keys, i) = r
  BY <1>7 DEF Surjection
<1>9. order = [r \in 1 .. n |-> CHOOSE i \in I : PlaceIn(I, keys, i) = r]
  BY DEF InOrder, PlaceIn, Earlier
<1>10. \A r \in 1 .. n : order[r] \in I /\ PlaceIn(I, keys, order[r]) = r
  <2>1. ASSUME NEW r \in 1 .. n PROVE order[r] \in I /\ PlaceIn(I, keys, order[r]) = r
    <3>1. order[r] = CHOOSE i \in I : PlaceIn(I, keys, i) = r BY <1>9
    <3> HIDE DEF order
    <3>2. QED BY <1>8, <3>1
  <2>2. QED BY <2>1
<1>11. order \in [1 .. n -> I]
  <2>1. order = [r \in 1 .. n |-> order[r]] BY <1>9
  <2> HIDE DEF order
  <2>2. QED BY <1>10, <2>1
<1>12. ASSUME NEW i \in I PROVE \E r \in 1 .. n : order[r] = i
  <2>1. PlaceIn(I, keys, i) \in 1 .. n BY <1>2
  <2>2. QED BY <1>4, <1>10, <2>1
<1>13. ASSUME NEW r \in 1 .. n, NEW q \in 1 .. n, r < q
       PROVE  Earlier(keys, order[r], order[q])
  <2> HIDE DEF order
  <2>1. /\ order[r] \in I /\ order[q] \in I
        /\ PlaceIn(I, keys, order[r]) = r /\ PlaceIn(I, keys, order[q]) = q
    BY <1>10
  <2>2. order[r] # order[q] BY <1>3, <1>13, <2>1
  <2>3. ~ Earlier(keys, order[q], order[r])
    <3>1. SUFFICES ASSUME Earlier(keys, order[q], order[r]) PROVE FALSE OBVIOUS
    <3>2. q < r BY <1>2, <2>1, <3>1
    <3>3. QED BY <1>3, <1>13, <3>2
  <2>4. QED BY <1>1, <2>1, <2>2, <2>3
<1>14. QED BY <1>11, <1>12, <1>13

-----------------------------------------------------------------------------
(* Sequences, whatever of *)

\* A sequence of some set.
IsSeq(c) == \E S : c \in Seq(S)

\* The indices of a sequence.
LEMMA SeqIndex ==
  ASSUME NEW c, IsSeq(c)
  PROVE  Len(c) \in Nat /\ DOMAIN c = 1 .. Len(c)
BY DEF IsSeq

\* A function on the first numbers is a sequence.
LEMMA SeqOfFunction ==
  ASSUME NEW n \in Nat, NEW S, NEW f \in [1 .. n -> S]
  PROVE  IsSeq(f) /\ Len(f) = n
<1>1. f \in Seq(S) BY SeqDef
<1>2. Len(f) = n
  <2>1. Len(f) \in Nat /\ DOMAIN f = 1 .. Len(f) /\ DOMAIN f = 1 .. n BY <1>1
  <2>2. \A m \in Nat : 1 .. m = 1 .. n => m = n
    <3>1. ASSUME NEW m \in Nat, 1 .. m = 1 .. n PROVE m = n
      <4>1. m \in 1 .. m \/ m = 0 OBVIOUS
      <4>2. n \in 1 .. n \/ n = 0 OBVIOUS
      <4>3. m <= n /\ n <= m BY <3>1, <4>1, <4>2
      <4>4. QED BY <4>3
    <3>2. QED BY <3>1
  <2>3. QED BY <2>1, <2>2
<1>3. QED BY <1>1, <1>2 DEF IsSeq

\* One more.
LEMMA SeqAppend ==
  ASSUME NEW c, IsSeq(c), NEW x
  PROVE  /\ IsSeq(Append(c, x)) /\ Len(Append(c, x)) = Len(c) + 1
         /\ \A i \in 1 .. Len(c) : Append(c, x)[i] = c[i]
         /\ Append(c, x)[Len(c) + 1] = x /\ Append(c, x) # <<>>
<1>1. PICK S : c \in Seq(S) BY DEF IsSeq
<1> DEFINE T == S \union {x}
<1>2. c \in Seq(T) BY <1>1, SeqMonotonic
<1>3. x \in T OBVIOUS
<1> HIDE DEF T
<1>4. QED BY <1>2, <1>3, AppendProperties DEF IsSeq

\* The rest.
LEMMA SeqTail ==
  ASSUME NEW c, IsSeq(c), c # <<>>
  PROVE  /\ IsSeq(Tail(c)) /\ Len(Tail(c)) = Len(c) - 1 /\ Len(c) \in Nat \ {0}
         /\ \A i \in 1 .. Len(c) - 1 : Tail(c)[i] = c[i + 1]
<1>1. PICK S : c \in Seq(S) BY DEF IsSeq
<1>2. /\ Tail(c) \in Seq(S) /\ Len(Tail(c)) = Len(c) - 1
      /\ \A i \in 1 .. Len(Tail(c)) : Tail(c)[i] = c[i + 1]
  BY <1>1, HeadTailProperties
<1>3. Len(c) \in Nat \ {0} BY <1>1
<1>4. QED BY <1>2, <1>3 DEF IsSeq

\* Two in one.
LEMMA SeqConcat ==
  ASSUME NEW c, IsSeq(c), NEW d, IsSeq(d)
  PROVE  /\ IsSeq(c \o d) /\ Len(c \o d) = Len(c) + Len(d)
         /\ \A i \in 1 .. Len(c) : (c \o d)[i] = c[i]
         /\ \A i \in 1 .. Len(d) : (c \o d)[Len(c) + i] = d[i]
<1>1. PICK S : c \in Seq(S) BY DEF IsSeq
<1>2. PICK R : d \in Seq(R) BY DEF IsSeq
<1> DEFINE T == S \union R
<1>3. c \in Seq(T) /\ d \in Seq(T) BY <1>1, <1>2, SeqMonotonic
<1> HIDE DEF T
<1>4. /\ c \o d \in Seq(T) /\ Len(c \o d) = Len(c) + Len(d)
      /\ \A i \in 1 .. Len(c) + Len(d) :
           (c \o d)[i] = IF i <= Len(c) THEN c[i] ELSE d[i - Len(c)]
  BY <1>3, ConcatProperties
<1>5. Len(c) \in Nat /\ Len(d) \in Nat BY <1>3
<1>6. ASSUME NEW i \in 1 .. Len(c) PROVE (c \o d)[i] = c[i] BY <1>4, <1>5
<1>7. ASSUME NEW i \in 1 .. Len(d) PROVE (c \o d)[Len(c) + i] = d[i]
  <2>1. Len(c) + i \in 1 .. Len(c) + Len(d) /\ ~ (Len(c) + i <= Len(c))
        /\ Len(c) + i - Len(c) = i
    BY <1>5
  <2>2. QED BY <1>4, <2>1
<1>8. QED BY <1>4, <1>6, <1>7 DEF IsSeq

\* One replaced.
LEMMA SeqExcept ==
  ASSUME NEW c, IsSeq(c), NEW i \in 1 .. Len(c), NEW x
  PROVE  /\ IsSeq([c EXCEPT ![i] = x]) /\ Len([c EXCEPT ![i] = x]) = Len(c)
         /\ \A j \in 1 .. Len(c) : [c EXCEPT ![i] = x][j] = IF j = i THEN x ELSE c[j]
<1> DEFINE d == [c EXCEPT ![i] = x]
           n == Len(c)
<1>1. PICK S : c \in Seq(S) BY DEF IsSeq
<1>2. n \in Nat /\ c \in [1 .. n -> S] BY <1>1
<1>3. d \in [1 .. n -> S \union {x}] BY <1>2
<1>4. \A j \in 1 .. n : d[j] = IF j = i THEN x ELSE c[j] BY <1>2
<1> HIDE DEF d, n
<1>5. IsSeq(d) /\ Len(d) = n BY <1>2, <1>3, SeqOfFunction
<1>6. QED BY <1>4, <1>5 DEF d, n

-----------------------------------------------------------------------------
(* Listing a set *)

\* What SetToSeq lists is of the set, and all of it.
LEMMA SetToSeqLists ==
  ASSUME NEW S, IsFiniteSet(S)
  PROVE  SetToSeq(S) \in [1 .. Cardinality(S) -> S]
<1> DEFINE n == Cardinality(S)
<1>1. \E f \in [1 .. n -> S] : IsInjective(f)
  <2>1. ExistsBijection(1 .. n, S) BY FS_CardinalityType
  <2>2. QED BY <2>1 DEF ExistsBijection, Bijection, Injection
<1>2. QED BY <1>1 DEF SetToSeq

-----------------------------------------------------------------------------
(* The cycles of an export *)

\* Groups of rows, none empty.
GroupSet == Seq(ExportRows) \ {<<>>}

\* What the grouping makes of a bucket.
ComponentsSet == Seq(GroupSet) \union {Ambiguous}

\* No sequence of groups is the mark of an ambiguous bucket.
LEMMA AmbiguousApart == Ambiguous \notin Seq(GroupSet)
<1>1. SUFFICES ASSUME Ambiguous \in Seq(GroupSet) PROVE FALSE OBVIOUS
<1>2. Len(Ambiguous) = 1 /\ Ambiguous[1] = <<>> BY DEF Ambiguous
<1>3. Ambiguous[1] \in GroupSet BY <1>1, <1>2, ElementOfSeq
<1>4. QED BY <1>2, <1>3 DEF GroupSet

\* A row placed keeps the components groups of rows.
LEMMA PlaceTyped ==
  ASSUME NEW state \in ComponentsSet, NEW row \in ExportRows
  PROVE  Place(state, row) \in ComponentsSet
<1> DEFINE C == {i \in DOMAIN state : Fits(row, state[i])}
           x == CHOOSE i \in C : TRUE
<1>1. CASE state = Ambiguous \/ Cardinality(C) > 1
  BY <1>1 DEF Place, ComponentsSet
<1>2. CASE ~ (state = Ambiguous \/ Cardinality(C) > 1) /\ C = {}
  <2>1. Place(state, row) = Append(state, <<row>>) BY <1>2 DEF Place
  <2>2. state \in Seq(GroupSet) BY <1>2 DEF ComponentsSet
  <2>3. <<row>> \in GroupSet BY DEF GroupSet
  <2>4. Append(state, <<row>>) \in Seq(GroupSet) BY <2>2, <2>3
  <2>5. QED BY <2>1, <2>4 DEF ComponentsSet
<1>3. CASE ~ (state = Ambiguous \/ Cardinality(C) > 1) /\ C # {}
  <2> DEFINE g == Append(state[x], row)
             d == [state EXCEPT ![x] = g]
             n == Len(state)
  <2>1. Place(state, row) = d BY <1>3 DEF Place
  <2>2. state \in Seq(GroupSet) BY <1>3 DEF ComponentsSet
  <2>3. x \in C BY <1>3
  <2>4. n \in Nat /\ state \in [1 .. n -> GroupSet] /\ x \in 1 .. n BY <2>2, <2>3
  <2>5. state[x] \in Seq(ExportRows) BY <2>4 DEF GroupSet
  <2>6. g \in GroupSet
    <3> DEFINE h == state[x]
    <3>1. h \in Seq(ExportRows) BY <2>5
    <3> HIDE DEF h
    <3>2. Append(h, row) \in Seq(ExportRows) /\ Append(h, row) # <<>>
      BY <3>1, AppendProperties
    <3>3. QED BY <3>2 DEF GroupSet, h
  <2> HIDE DEF g, x, n, C
  <2>7. d \in [1 .. n -> GroupSet] BY <2>4, <2>6
  <2>8. d \in Seq(GroupSet)
    <3> HIDE DEF d
    <3>1. QED BY <2>4, <2>7, SeqDef
  <2>9. QED BY <2>1, <2>8 DEF ComponentsSet
<1>4. QED BY <1>1, <1>2, <1>3

\* The components of a bucket are groups of rows.
LEMMA ComponentsTyped ==
  ASSUME NEW f \in Seq(ExportRows), NEW bucket \in SUBSET DOMAIN f
  PROVE  Components(f, bucket) \in ComponentsSet
<1> DEFINE keys == [i \in DOMAIN f |-> Close(f[i])]
           order == InOrder(bucket, keys)
           n == Cardinality(bucket)
           e == [r \in DOMAIN order |-> f[order[r]]]
<1>1. Len(f) \in Nat /\ DOMAIN f = 1 .. Len(f) /\ \A i \in DOMAIN f : f[i] \in ExportRows
  OBVIOUS
<1>2. IsFiniteSet(bucket) /\ n \in Nat
  <2>1. IsFiniteSet(DOMAIN f) BY <1>1, FS_Interval
  <2>2. QED BY <2>1, FS_Subset, FS_CardinalityType
<1>3. Keyed(bucket, keys)
  <2>1. bucket \subseteq Int BY <1>1
  <2>2. \A i \in bucket : keys[i] \in Int \X Int
    <3>1. ASSUME NEW i \in bucket PROVE keys[i] \in Int \X Int
      <4>1. f[i] \in ExportRows /\ keys[i] = Close(f[i]) BY <1>1
      <4>2. QED BY <4>1, HistoryAssumption DEF Close
    <3>2. QED BY <3>1
  <2>3. QED BY <1>2, <2>1, <2>2 DEF Keyed
<1>4. Components(f, bucket) = FoldLeft(Place, <<>>, e) BY DEF Components
<1> HIDE DEF keys
<1>5. order \in [1 .. n -> bucket] BY <1>3, InOrderSorts
<1> HIDE DEF order
<1>6. DOMAIN e = 1 .. n /\ \A r \in 1 .. n : e[r] \in ExportRows BY <1>1, <1>5
<1> HIDE DEF e, n
<1>7. PICK h : IsRun(h, "place", 0, <<>>, e, n) /\ FoldLeft(Place, <<>>, e) = h[n]
  BY <1>2, <1>6, PlaceRun
<1> DEFINE A == {k \in 0 .. n : h[k] \in ComponentsSet}
<1>8. 0 \in A
  <2>1. h[0] = <<>> /\ 0 \in 0 .. n BY <1>2, <1>7 DEF IsRun
  <2>2. QED BY <2>1, EmptySeq DEF ComponentsSet
<1>9. ASSUME NEW k \in 1 .. n, k - 1 \in A PROVE k \in A
  <2>1. h[k] = Place(h[k - 1], e[k])
    <3>1. h[k] = Step("place", 0, h[k - 1], e[k]) BY <1>7 DEF IsRun
    <3>2. QED BY <3>1 DEF Step
  <2>2. h[k] \in ComponentsSet BY <1>6, <1>9, <2>1, PlaceTyped
  <2>3. QED BY <1>2, <2>2
<1>10. n \in A
  <2> HIDE DEF A
  <2>1. n \in 0 .. n BY <1>2
  <2>2. QED BY <1>2, <1>8, <1>9, <2>1, AllNaturals
<1>11. QED BY <1>4, <1>7, <1>10

\* A cycle that closes no earlier than it opens.
CycleOK(x) == x.opened \in Int /\ x.closed \in Int /\ x.opened <= x.closed

\* A cycle built of a group is one.
LEMMA BuiltCycleOK ==
  ASSUME NEW group \in GroupSet
  PROVE  CycleOK(BuiltCycle(group))
<1> DEFINE n == Len(group)
           o == [i \in 1 .. n |-> group[i].opened]
           c == [i \in 1 .. n |-> group[i].closed]
           S == {group[i].opened : i \in DOMAIN group}
           T == {group[i].closed : i \in DOMAIN group}
<1>1. /\ n \in Nat /\ n # 0 /\ DOMAIN group = 1 .. n
      /\ \A i \in 1 .. n : group[i] \in ExportRows
  BY DEF GroupSet
<1>2. \A i \in 1 .. n : /\ group[i].opened \in Int /\ group[i].closed \in Int
                        /\ group[i].opened <= group[i].closed
  BY <1>1, HistoryAssumption
<1>3. IsFiniteSet(1 .. n) BY <1>1, FS_Interval
<1>4. IsFiniteSet(S) /\ IsFiniteSet(T)
  <2>1. S = {o[i] : i \in DOMAIN o} /\ T = {c[i] : i \in DOMAIN c} BY <1>1
  <2>2. IsFiniteSet(DOMAIN o) /\ IsFiniteSet(DOMAIN c) BY <1>3
  <2> HIDE DEF o, c, S, T
  <2>3. QED BY <2>1, <2>2, FiniteValues
<1>5. 1 \in 1 .. n BY <1>1
<1>6. group[1].opened \in S /\ group[1].closed \in T BY <1>1, <1>5
<1>7. S \in SUBSET Int /\ T \in SUBSET Int BY <1>1, <1>2
<1>8. BuiltCycle(group).opened = Min(S) /\ BuiltCycle(group).closed = Max(T)
  BY DEF BuiltCycle
<1> HIDE DEF S, T
<1>9. Min(S) \in S /\ Min(S) <= group[1].opened BY <1>4, <1>6, <1>7, FiniteMinMax
<1>10. Max(T) \in T /\ Max(T) >= group[1].closed BY <1>4, <1>6, <1>7, FiniteMinMax
<1>11. Min(S) \in Int /\ Max(T) \in Int BY <1>7, <1>9, <1>10
<1>12. Min(S) <= Max(T) BY ONLY <1>2, <1>5, <1>9, <1>10, <1>11
<1>13. QED BY <1>8, <1>11, <1>12 DEF CycleOK

\* The groups of all buckets.
GroupsOf(f) == UNION {ToSet(Grouped(f)[b]) : b \in DOMAIN Grouped(f)}

\* The groups of all buckets are finitely many groups of rows.
LEMMA GroupsTyped ==
  ASSUME NEW f \in Seq(ExportRows),
         \A b \in DOMAIN Grouped(f) : Grouped(f)[b] # Ambiguous
  PROVE  IsFiniteSet(GroupsOf(f)) /\ GroupsOf(f) \subseteq GroupSet
<1> DEFINE grouped == Grouped(f)
           groups == GroupsOf(f)
           buckets == [i \in DOMAIN f |-> Bucket(f[i])]
           sets == [b \in DOMAIN grouped |-> ToSet(grouped[b])]
<1>1. DOMAIN f = 1 .. Len(f) /\ Len(f) \in Nat OBVIOUS
<1>2. DOMAIN grouped = {buckets[i] : i \in DOMAIN buckets} BY DEF Grouped
<1>3. IsFiniteSet(DOMAIN grouped)
  <2>1. IsFiniteSet(DOMAIN buckets) BY <1>1, FS_Interval
  <2> HIDE DEF buckets
  <2>2. QED BY <1>2, <2>1, FiniteValues
<1>4. ASSUME NEW b \in DOMAIN grouped PROVE grouped[b] \in Seq(GroupSet)
  <2> DEFINE bucket == {i \in DOMAIN f : Bucket(f[i]) = b}
  <2>1. grouped[b] = Components(f, bucket) BY DEF Grouped
  <2>2. bucket \in SUBSET DOMAIN f OBVIOUS
  <2> HIDE DEF bucket
  <2>3. Components(f, bucket) \in ComponentsSet BY <2>2, ComponentsTyped
  <2>4. QED BY <2>1, <2>3 DEF ComponentsSet
<1>5. ASSUME NEW b \in DOMAIN grouped
      PROVE  IsFiniteSet(ToSet(grouped[b])) /\ ToSet(grouped[b]) \subseteq GroupSet
  <2> DEFINE g == grouped[b]
  <2>1. g \in Seq(GroupSet) BY <1>4
  <2> HIDE DEF g
  <2>2. DOMAIN g = 1 .. Len(g) /\ Len(g) \in Nat /\ \A i \in DOMAIN g : g[i] \in GroupSet
    BY <2>1
  <2>3. IsFiniteSet(DOMAIN g) BY <2>2, FS_Interval
  <2>4. ToSet(g) = {g[i] : i \in DOMAIN g} BY DEF ToSet
  <2>5. IsFiniteSet(ToSet(g)) BY <2>3, <2>4, FiniteValues
  <2>6. ToSet(g) \subseteq GroupSet BY <2>2, <2>4
  <2>7. QED BY <2>5, <2>6 DEF g
<1> DEFINE F == {sets[b] : b \in DOMAIN sets}
<1>6. IsFiniteSet(F)
  <2>1. IsFiniteSet(DOMAIN sets) BY <1>3
  <2> HIDE DEF sets
  <2>2. QED BY <2>1, FiniteValues
<1>7. F = {ToSet(grouped[b]) : b \in DOMAIN grouped} OBVIOUS
<1>8. \A t \in F : IsFiniteSet(t) /\ t \subseteq GroupSet BY <1>5, <1>7
<1>9. groups = UNION F BY <1>7 DEF GroupsOf
<1> HIDE DEF F
<1>10. IsFiniteSet(groups) BY <1>6, <1>8, <1>9, FS_UNION
<1>11. QED BY <1>8, <1>9, <1>10

\* The cycles of an export are cycles in the order of their closes.
CyclesOK(c) ==
  /\ IsSeq(c) /\ \A i \in 1 .. Len(c) : CycleOK(c[i])
  /\ \A i \in 2 .. Len(c) : c[i - 1].closed <= c[i].closed

\* The cycles of rows are cycles.
LEMMA CyclesTyped ==
  ASSUME NEW f \in Seq(ExportRows)
  PROVE  CyclesOK(Cycles(f))
<1> DEFINE grouped == Grouped(f)
           groups == UNION {ToSet(grouped[b]) : b \in DOMAIN grouped}
           n == Cardinality(groups)
           built == [i \in 1 .. n |-> BuiltCycle(SetToSeq(groups)[i])]
           keys == [i \in DOMAIN built |-> <<built[i].closed, built[i].opened>>]
           order == InOrder(DOMAIN built, keys)
           sorted == [r \in DOMAIN order |-> built[order[r]]]
           unclear == \E b \in DOMAIN grouped : grouped[b] = Ambiguous
<1>1. Cycles(f) = IF unclear \/ Overlap(sorted) THEN Rejected ELSE sorted BY DEF Cycles
<1>2. CASE unclear \/ Overlap(sorted)
  <2> DEFINE none == <<>>
  <2>1. Cycles(f) = none BY <1>1, <1>2 DEF Rejected
  <2>2. none \in Seq({}) /\ Len(none) = 0 BY EmptySeq
  <2> HIDE DEF none
  <2>3. CyclesOK(none) BY <2>2 DEF CyclesOK, IsSeq
  <2>4. QED BY <2>1, <2>3
<1>3. CASE ~ (unclear \/ Overlap(sorted))
  <2>1. IsFiniteSet(groups) /\ groups \subseteq GroupSet
    <3>1. \A b \in DOMAIN grouped : grouped[b] # Ambiguous BY <1>3
    <3>2. groups = GroupsOf(f) BY DEF GroupsOf
    <3> HIDE DEF groups
    <3>3. QED BY <3>1, <3>2, GroupsTyped
  <2>2. ~ Overlap(sorted) /\ Cycles(f) = sorted BY <1>1, <1>3
  <2> HIDE DEF groups, grouped
  <2>3. n \in Nat /\ SetToSeq(groups) \in [1 .. n -> groups]
    BY <2>1, SetToSeqLists, FS_CardinalityType
  <2> HIDE DEF n
  <2>4. DOMAIN built = 1 .. n /\ \A i \in 1 .. n : CycleOK(built[i])
    <3>1. \A i \in 1 .. n : SetToSeq(groups)[i] \in GroupSet BY <2>1, <2>3
    <3>2. QED BY <3>1, BuiltCycleOK
  <2> HIDE DEF built
  <2>5. Keyed(1 .. n, keys)
    <3>1. IsFiniteSet(1 .. n) BY <2>3, FS_Interval
    <3>2. \A i \in 1 .. n : keys[i] \in Int \X Int BY <2>4 DEF CycleOK
    <3>3. QED BY <3>1, <3>2 DEF Keyed
  <2> HIDE DEF keys
  <2>6. Cardinality(1 .. n) = n
    <3>1. 1 \in Int /\ n \in Int BY <2>3
    <3>2. Cardinality(1 .. n) = IF 1 > n THEN 0 ELSE n - 1 + 1 BY <3>1, FS_Interval
    <3>3. QED BY <2>3, <3>2
  <2>7. order \in [1 .. n -> 1 .. n] BY <2>4, <2>5, <2>6, InOrderSorts
  <2> HIDE DEF order
  <2>8. \A r \in 1 .. n : CycleOK(sorted[r]) BY <2>4, <2>7
  <2>9. sorted \in [1 .. n -> {built[i] : i \in 1 .. n}] BY <2>7
  <2> HIDE DEF sorted
  <2>10. IsSeq(sorted) /\ Len(sorted) = n BY <2>3, <2>9, SeqOfFunction
  <2>11. ASSUME NEW i \in 2 .. n PROVE sorted[i - 1].closed <= sorted[i].closed
    <3>1. i \in 1 .. n /\ i - 1 \in 1 .. n BY <2>3
    <3>2. CycleOK(sorted[i]) /\ CycleOK(sorted[i - 1]) BY <2>8, <3>1
    <3>3. ~ (sorted[i].opened < sorted[i - 1].closed) BY <2>2, <2>10 DEF Overlap
    <3>4. QED BY <3>2, <3>3 DEF CycleOK
  <2>12. CyclesOK(sorted) BY <2>8, <2>10, <2>11 DEF CyclesOK
  <2>13. QED BY <2>2, <2>12
<1>4. QED BY <1>2, <1>3

\* What is in order from each to the next is in order.
LEMMA StepsRise ==
  ASSUME NEW c, IsSeq(c), \A i \in 1 .. Len(c) : c[i].closed \in Int,
         \A i \in 2 .. Len(c) : c[i - 1].closed <= c[i].closed
  PROVE  Rising(c)
<1> DEFINE n == Len(c)
           A == {k \in 0 .. n : \A i \in 1 .. n, j \in 1 .. n :
                                  i <= j /\ j <= k => c[i].closed <= c[j].closed}
<1>1. n \in Nat BY SeqIndex
<1>2. 0 \in A BY <1>1
<1>3. ASSUME NEW k \in 1 .. n, k - 1 \in A PROVE k \in A
  <2>1. SUFFICES ASSUME NEW i \in 1 .. n, NEW j \in 1 .. n, i <= j, j <= k
                 PROVE  c[i].closed <= c[j].closed
    BY <1>1
  <2>2. CASE j <= k - 1
    <3>1. \A a \in 1 .. n, b \in 1 .. n : a <= b /\ b <= k - 1 => c[a].closed <= c[b].closed
      BY <1>3
    <3>2. QED BY <2>1, <2>2, <3>1
  <2>3. CASE j = k /\ i = k BY <2>3
  <2>4. CASE j = k /\ i # k
    <3>1. k - 1 \in 1 .. n /\ i <= k - 1 /\ k \in 2 .. n BY <1>1, <2>1, <2>4
    <3>2. \A a \in 1 .. n, b \in 1 .. n : a <= b /\ b <= k - 1 => c[a].closed <= c[b].closed
      BY <1>3
    <3>3. c[i].closed <= c[k - 1].closed BY <3>1, <3>2
    <3>4. c[k - 1].closed <= c[k].closed BY <3>1
    <3>5. c[i].closed \in Int /\ c[k - 1].closed \in Int /\ c[k].closed \in Int BY <3>1
    <3>6. QED BY <2>4, <3>3, <3>4, <3>5
  <2>5. QED BY <1>1, <2>1, <2>2, <2>3, <2>4
<1>4. n \in A
  <2> HIDE DEF A
  <2>1. n \in 0 .. n BY <1>1
  <2>2. QED BY <1>1, <1>2, <1>3, <2>1, AllNaturals
<1>5. \A i \in 1 .. n, j \in 1 .. n : i <= j => c[i].closed <= c[j].closed
  <2>1. \A j \in 1 .. n : j <= n BY <1>1
  <2>2. QED BY <1>4, <2>1
<1>6. QED BY <1>5 DEF Rising

-----------------------------------------------------------------------------
(* The regimes *)

\* Cycles in order, and at least one.
RunOK(c) == CyclesOK(c) /\ Len(c) >= 1

\* Runs in a sequence.
RegimesOK(runs) == IsSeq(runs) /\ \A k \in 1 .. Len(runs) : RunOK(runs[k])

\* A run is timed and rising.
LEMMA RunTimed ==
  ASSUME NEW c, CyclesOK(c)
  PROVE  Timed(c) /\ Rising(c)
<1>1. IsSeq(c) /\ \A i \in 1 .. Len(c) : c[i].closed \in Int BY DEF CyclesOK, CycleOK
<1>2. Timed(c) BY <1>1, SeqIndex DEF Timed
<1>3. Rising(c) BY <1>1, StepsRise DEF CyclesOK
<1>4. QED BY <1>2, <1>3

\* One cycle is a run.
LEMMA RunOfOne ==
  ASSUME NEW x, CycleOK(x)
  PROVE  RunOK(<<x>>) /\ Len(<<x>>) = 1 /\ <<x>>[1] = x
<1> DEFINE c == <<x>>
<1>1. c \in Seq({x}) /\ Len(c) = 1 /\ c[1] = x OBVIOUS
<1> HIDE DEF c
<1>2. RunOK(c) BY <1>1 DEF RunOK, CyclesOK, IsSeq
<1>3. QED BY <1>1, <1>2 DEF c

\* A run goes on with a cycle that closes no earlier.
LEMMA RunAppend ==
  ASSUME NEW c, RunOK(c), NEW x, CycleOK(x), c[Len(c)].closed <= x.closed
  PROVE  RunOK(Append(c, x)) /\ Append(c, x)[Len(Append(c, x))] = x
<1> DEFINE d == Append(c, x)
           n == Len(c)
<1>1. IsSeq(c) /\ n \in Nat /\ n >= 1 BY SeqIndex DEF RunOK, CyclesOK
<1>2. /\ IsSeq(d) /\ Len(d) = n + 1 /\ \A i \in 1 .. n : d[i] = c[i]
      /\ d[n + 1] = x
  BY <1>1, SeqAppend
<1>3. /\ \A i \in 1 .. n : CycleOK(c[i])
      /\ \A i \in 2 .. n : c[i - 1].closed <= c[i].closed
  BY DEF RunOK, CyclesOK
<1> HIDE DEF d
<1>4. ASSUME NEW i \in 1 .. n + 1 PROVE CycleOK(d[i])
  <2>1. i \in 1 .. n \/ i = n + 1 BY <1>1
  <2>2. QED BY <1>2, <1>3, <2>1
<1>5. ASSUME NEW i \in 2 .. n + 1 PROVE d[i - 1].closed <= d[i].closed
  <2>1. CASE i = n + 1
    <3>1. i - 1 = n /\ n \in 1 .. n BY <1>1, <2>1
    <3>2. QED BY <1>2, <2>1, <3>1
  <2>2. CASE i # n + 1
    <3>1. i \in 2 .. n /\ i \in 1 .. n /\ i - 1 \in 1 .. n BY <1>1, <2>2
    <3>2. QED BY <1>2, <1>3, <3>1
  <2>3. QED BY <2>1, <2>2
<1> HIDE DEF n
<1>6. RunOK(d) BY <1>1, <1>2, <1>4, <1>5 DEF RunOK, CyclesOK
<1>7. d[Len(d)] = x BY <1>2
<1>8. QED BY <1>6, <1>7 DEF d

\* Runs that end with a cycle.
EndsWith(runs, x) ==
  /\ RegimesOK(runs) /\ Len(runs) >= 1
  /\ runs[Len(runs)][Len(runs[Len(runs)])] = x

\* A cycle splits what is before it or goes on with it: it is then the last.
LEMMA SplitTyped ==
  ASSUME NEW runs, RegimesOK(runs), NEW x, CycleOK(x),
         runs # <<>> => \E y : EndsWith(runs, y) /\ y.closed <= x.closed
  PROVE  EndsWith(Split(runs, x), x)
<1> DEFINE n == Len(runs)
           run == runs[n]
           more == Append(runs, <<x>>)
           longer == Append(run, x)
           last == [runs EXCEPT ![n] = longer]
<1>1. IsSeq(runs) /\ n \in Nat /\ DOMAIN runs = 1 .. n
      /\ \A k \in 1 .. n : RunOK(runs[k])
  BY SeqIndex DEF RegimesOK
<1>2. Split(runs, x) = more \/ (runs # <<>> /\ Split(runs, x) = last) BY DEF Split
<1>3. EndsWith(more, x)
  <2> DEFINE one == <<x>>
  <2>1. RunOK(one) /\ Len(one) = 1 /\ one[1] = x BY RunOfOne
  <2>2. more = Append(runs, one) OBVIOUS
  <2> HIDE DEF one
  <2>3. /\ IsSeq(more) /\ Len(more) = n + 1 /\ \A i \in 1 .. n : more[i] = runs[i]
        /\ more[n + 1] = one
    BY <1>1, <2>2, SeqAppend
  <2> HIDE DEF more
  <2>4. ASSUME NEW k \in 1 .. n + 1 PROVE RunOK(more[k])
    <3>1. k \in 1 .. n \/ k = n + 1 BY <1>1
    <3>2. QED BY <1>1, <2>1, <2>3, <3>1
  <2>5. n + 1 >= 1 BY <1>1
  <2> HIDE DEF n
  <2>6. QED BY <2>1, <2>3, <2>4, <2>5 DEF EndsWith, RegimesOK
<1>4. ASSUME runs # <<>> PROVE EndsWith(last, x)
  <2>1. PICK y : EndsWith(runs, y) /\ y.closed <= x.closed BY <1>4
  <2>2. n >= 1 /\ n \in 1 .. n /\ run[Len(run)] = y BY <1>1, <2>1 DEF EndsWith
  <2>3. RunOK(run) BY <1>1, <2>2
  <2> HIDE DEF run
  <2>4. RunOK(longer) /\ longer[Len(longer)] = x BY <2>1, <2>2, <2>3, RunAppend
  <2> HIDE DEF longer
  <2>5. /\ IsSeq(last) /\ Len(last) = n
        /\ \A j \in 1 .. n : last[j] = IF j = n THEN longer ELSE runs[j]
    BY <1>1, <2>2, SeqExcept
  <2> HIDE DEF last, n
  <2>6. QED BY <1>1, <2>2, <2>4, <2>5 DEF EndsWith, RegimesOK
<1>5. QED BY <1>2, <1>3, <1>4

\* The regimes of cycles in order are runs of them.
LEMMA RegimesTyped ==
  ASSUME NEW c, CyclesOK(c)
  PROVE  RegimesOK(Regimes(c))
<1> DEFINE n == Len(c)
           none == <<>>
<1>1. n \in Nat /\ DOMAIN c = 1 .. n BY SeqIndex DEF CyclesOK
<1>2. PICK h : IsRun(h, "split", 0, none, c, n) /\ Regimes(c) = h[n] BY <1>1, SplitRun
<1>3. none \in Seq({}) /\ Len(none) = 0 BY EmptySeq
<1> DEFINE A == {k \in 0 .. n : /\ RegimesOK(h[k])
                                /\ h[k] # none => k # 0 /\ EndsWith(h[k], c[k])}
<1>4. 0 \in A
  <2>1. h[0] = none BY <1>2 DEF IsRun
  <2> HIDE DEF none
  <2>2. RegimesOK(none) BY <1>3 DEF RegimesOK, IsSeq
  <2>3. QED BY <1>1, <2>1, <2>2
<1>5. ASSUME NEW k \in 1 .. n, k - 1 \in A PROVE k \in A
  <2>1. h[k] = Split(h[k - 1], c[k])
    <3>1. h[k] = Step("split", 0, h[k - 1], c[k]) BY <1>2 DEF IsRun
    <3>2. QED BY <3>1 DEF Step
  <2>2. /\ RegimesOK(h[k - 1])
        /\ h[k - 1] # none => k - 1 # 0 /\ EndsWith(h[k - 1], c[k - 1])
    BY <1>5
  <2>3. CycleOK(c[k]) BY DEF CyclesOK
  <2>4. k - 1 # 0 => c[k - 1].closed <= c[k].closed
    <3>1. k - 1 # 0 => k \in 2 .. n BY <1>1
    <3>2. QED BY <3>1 DEF CyclesOK
  <2>5. h[k - 1] # <<>> => \E y : EndsWith(h[k - 1], y) /\ y.closed <= c[k].closed
    BY <2>2, <2>4
  <2>6. EndsWith(h[k], c[k]) BY <2>1, <2>2, <2>3, <2>5, SplitTyped
  <2>7. k # 0 /\ k \in 0 .. n BY <1>1
  <2>8. QED BY <2>6, <2>7 DEF EndsWith
<1>6. n \in A
  <2> HIDE DEF A
  <2>1. n \in 0 .. n BY <1>1
  <2>2. QED BY <1>1, <1>4, <1>5, <2>1, AllNaturals
<1>7. QED BY <1>2, <1>6

\* What is left of the regimes when their first cycle is taken.
LEMMA RestTyped ==
  ASSUME NEW runs, RegimesOK(runs), runs # <<>>
  PROVE  /\ CycleOK(runs[1][1]) /\ RunOK(runs[1])
         /\ RegimesOK(Tail(runs))
         /\ Len(runs[1]) > 1 => RegimesOK(<<Tail(runs[1])>> \o Tail(runs))
<1> DEFINE run == runs[1]
           n == Len(run)
           t == Tail(run)
           one == <<t>>
           rest == Tail(runs)
           all == one \o rest
<1>1. IsSeq(runs) /\ \A k \in 1 .. Len(runs) : RunOK(runs[k]) BY DEF RegimesOK
<1>2. /\ IsSeq(rest) /\ Len(rest) = Len(runs) - 1 /\ Len(runs) \in Nat \ {0}
      /\ \A i \in 1 .. Len(runs) - 1 : rest[i] = runs[i + 1]
  BY <1>1, SeqTail
<1>3. RunOK(run) BY <1>1, <1>2
<1>4. RegimesOK(rest)
  <2> HIDE DEF rest
  <2>1. \A i \in 1 .. Len(rest) : i + 1 \in 1 .. Len(runs) BY <1>2
  <2>2. QED BY <1>1, <1>2, <2>1 DEF RegimesOK
<1> HIDE DEF run
<1>5. /\ IsSeq(run) /\ n \in Nat /\ n >= 1 /\ \A i \in 1 .. n : CycleOK(run[i])
      /\ \A i \in 2 .. n : run[i - 1].closed <= run[i].closed
  BY <1>3, SeqIndex DEF RunOK, CyclesOK
<1>6. CycleOK(run[1]) BY <1>5
<1>7. ASSUME n > 1 PROVE RegimesOK(all)
  <2>1. run # <<>>
    <3>1. Len(<<>>) = 0 BY EmptySeq
    <3>2. QED BY <1>5, <1>7, <3>1
  <2>2. /\ IsSeq(t) /\ Len(t) = n - 1 /\ \A i \in 1 .. n - 1 : t[i] = run[i + 1]
    BY <1>5, <2>1, SeqTail
  <2> HIDE DEF t
  <2>3. ASSUME NEW i \in 1 .. n - 1 PROVE CycleOK(t[i])
    <3>1. i + 1 \in 1 .. n BY <1>5
    <3>2. QED BY <1>5, <2>2, <3>1
  <2>4. ASSUME NEW i \in 2 .. n - 1 PROVE t[i - 1].closed <= t[i].closed
    <3>1. i + 1 \in 2 .. n /\ i \in 1 .. n - 1 /\ i - 1 \in 1 .. n - 1 /\ i - 1 + 1 = i
          /\ i + 1 - 1 = i
      BY <1>5
    <3>2. run[i + 1 - 1].closed <= run[i + 1].closed BY <1>5, <3>1
    <3>3. t[i] = run[i + 1] /\ t[i - 1] = run[i] BY <2>2, <3>1
    <3>4. QED BY <3>1, <3>2, <3>3
  <2>5. RunOK(t) BY <1>5, <1>7, <2>2, <2>3, <2>4 DEF RunOK, CyclesOK
  <2>6. one \in Seq({t}) /\ Len(one) = 1 /\ one[1] = t OBVIOUS
  <2> HIDE DEF one, rest
  <2>7. IsSeq(one) BY <2>6 DEF IsSeq
  <2>8. /\ IsSeq(all) /\ Len(all) = Len(one) + Len(rest)
        /\ \A i \in 1 .. Len(one) : all[i] = one[i]
        /\ \A i \in 1 .. Len(rest) : all[Len(one) + i] = rest[i]
    BY <1>4, <2>7, SeqConcat DEF RegimesOK
  <2> HIDE DEF all
  <2>9. ASSUME NEW k \in 1 .. Len(all) PROVE RunOK(all[k])
    <3>1. Len(rest) \in Nat BY <1>2
    <3>2. CASE k = 1 BY <2>5, <2>6, <2>8, <3>2
    <3>3. CASE k # 1
      <4>1. k - 1 \in 1 .. Len(rest) /\ Len(one) + (k - 1) = k BY <2>6, <2>8, <3>1, <3>3
      <4>2. all[k] = rest[k - 1] BY <2>8, <4>1
      <4>3. QED BY <1>4, <4>1, <4>2 DEF RegimesOK
    <3>4. QED BY <3>2, <3>3
  <2>10. QED BY <2>8, <2>9 DEF RegimesOK
<1>8. QED BY <1>3, <1>4, <1>6, <1>7 DEF run

\* What a replay has is timed and rising.
LEMMA ReplaysTyped ==
  ASSUME NEW opened \in Int, NEW closed \in Int, NEW s \in Replays(opened, closed)
  PROVE  IsSeq(s) /\ Timed(s) /\ Rising(s)
<1> DEFINE C == {ReplayedAt(t, depth) : t \in Starts(opened, closed), depth \in Depths}
<1>1. /\ s \in UNION {[1 .. n -> C] : n \in 0 .. MaxReplayed}
      /\ \A i \in 2 .. Len(s) : s[i - 1].closed <= s[i].closed
  BY DEF Replays
<1>2. MinuteOf(opened) \in Int /\ MinuteOf(closed) \in Int /\ CloseWindow \in Nat
  BY HistoryAssumption, TraderExportAssumption DEF MinuteOf
<1>3. \A x \in C : x.closed \in Int
  <2>1. ASSUME NEW t \in Starts(opened, closed), NEW depth \in Depths
        PROVE  ReplayedAt(t, depth).closed \in Int
    BY <1>2 DEF ReplayedAt, Starts
  <2>2. QED BY <2>1
<1> HIDE DEF C
<1>4. PICK n \in 0 .. MaxReplayed : s \in [1 .. n -> C] BY <1>1
<1>5. n \in Nat BY HistoryAssumption
<1>6. IsSeq(s) /\ Len(s) = n BY <1>4, <1>5, SeqOfFunction
<1>7. \A i \in 1 .. Len(s) : s[i].closed \in Int BY <1>3, <1>4, <1>6
<1>8. Timed(s) BY <1>6, <1>7, SeqIndex DEF Timed
<1>9. Rising(s) BY <1>1, <1>6, <1>7, StepsRise
<1>10. QED BY <1>6, <1>8, <1>9

-----------------------------------------------------------------------------
(* The best matching of every regime *)

\* What is kept of a regime that was evaluated.
Evaluation(e) ==
  /\ CyclesOK(e.actual) /\ IsSeq(e.simulated) /\ Timed(e.simulated) /\ Rising(e.simulated)
  /\ e.pairs = OrderedMatches(e.actual, e.simulated)

\* What MatchesOptimal says of it.
BestOf(e) ==
  LET found == ToSet(e.pairs)
      all == Matchings(e.actual, e.simulated)
  IN /\ found \in all
     /\ \A m \in all :
          /\ Cardinality(m) <= Len(e.pairs)
          /\ Cardinality(m) = Len(e.pairs) =>
               TotalError(e.actual, e.simulated, found)
                 <= TotalError(e.actual, e.simulated, m)
     /\ GreedyMatched(e.actual, e.simulated) <= Len(e.pairs)

\* The matchings of two sequences are those of all of both, in order.
LEMMA MatchingsAre ==
  ASSUME NEW c, NEW s, Timed(c), Timed(s), NEW m
  PROVE  m \in Matchings(c, s) <=>
           m \in SUBSET NearPairs(c, s, Len(c), Len(s)) /\ Ordered(m)
<1>1. DOMAIN c = 1 .. Len(c) /\ DOMAIN s = 1 .. Len(s) BY DEF Timed
<1>2. NearPairs(c, s, Len(c), Len(s))
        = {p \in (DOMAIN c) \X (DOMAIN s) : Error(c[p[1]], s[p[2]]) <= CloseWindow}
  BY <1>1 DEF NearPairs
<1>3. QED BY <1>2 DEF Matchings, Ordered

\* Pairs in order of both are a matching in order.
LEMMA PairsOrdered ==
  ASSUME NEW f, NEW n \in Nat, DOMAIN f = 1 .. n,
         NEW c, NEW s, NEW i \in Nat, NEW j \in Nat,
         \A k \in 1 .. n : f[k] \in NearPairs(c, s, i, j),
         \A k, l \in 1 .. n : k < l => f[k][1] < f[l][1] /\ f[k][2] < f[l][2]
  PROVE  ToSet(f) \in SUBSET NearPairs(c, s, i, j) /\ Ordered(ToSet(f))
<1>1. \A p \in ToSet(f) : \E k \in 1 .. n : p = f[k] BY DEF ToSet
<1>2. ToSet(f) \in SUBSET NearPairs(c, s, i, j) BY <1>1
<1>3. ASSUME NEW p \in ToSet(f), NEW q \in ToSet(f), p # q
      PROVE  p[1] # q[1] /\ p[2] # q[2] /\ (p[1] < q[1] <=> p[2] < q[2])
  <2>1. PICK k \in 1 .. n : p = f[k] BY <1>1
  <2>2. PICK l \in 1 .. n : q = f[l] BY <1>1
  <2>3. /\ f[k][1] \in Int /\ f[k][2] \in Int /\ f[l][1] \in Int /\ f[l][2] \in Int
    BY DEF NearPairs
  <2>4. k # l /\ k \in Int /\ l \in Int BY <1>3, <2>1, <2>2
  <2>5. CASE k < l BY <2>1, <2>2, <2>3, <2>5
  <2>6. CASE l < k BY <2>1, <2>2, <2>3, <2>6
  <2>7. QED BY <2>4, <2>5, <2>6
<1>4. QED BY <1>2, <1>3 DEF Ordered

\* The matching of a regime that was evaluated is the best.
LEMMA EvaluationBest ==
  ASSUME NEW e, Evaluation(e)
  PROVE  BestOf(e)
<1> DEFINE c == e.actual
           s == e.simulated
           i == Len(c)
           j == Len(s)
           found == ToSet(e.pairs)
<1>1. Timed(c) /\ Rising(c) /\ Timed(s) /\ Rising(s) BY RunTimed DEF Evaluation
<1>2. e.pairs = OrderedMatches(c, s) BY DEF Evaluation
<1> HIDE DEF c, s
<1>3. PICK r : OrderedMatches(c, s) = r.pairs /\ Sound(r, c, s, i, j)
  BY <1>1, OrderedMatchesBest
<1>4. e.pairs = r.pairs BY <1>2, <1>3
<1>5. i \in Nat /\ j \in Nat BY <1>1 DEF Timed
<1>6. Built(r, c, s, i, j) /\ Optimal(r, c, s, i, j) /\ Most(r, c, s, i, j)
  BY <1>1, <1>3 DEF Sound
<1>7. /\ r.n \in Nat /\ r.error \in Nat /\ Len(e.pairs) = r.n /\ DOMAIN e.pairs = 1 .. r.n
      /\ \A k \in 1 .. r.n : e.pairs[k] \in NearPairs(c, s, i, j)
      /\ \A k, l \in 1 .. r.n : k < l => /\ e.pairs[k][1] < e.pairs[l][1]
                                         /\ e.pairs[k][2] < e.pairs[l][2]
      /\ r.error = TotalError(c, s, found)
  <2>1. r.pairs \in Seq(Nat \X Nat) /\ Len(r.pairs) = r.n BY <1>6 DEF Built
  <2>2. DOMAIN r.pairs = 1 .. r.n BY <2>1
  <2>3. QED BY <1>4, <1>6, <2>1, <2>2 DEF Built
<1>8. found \in SUBSET NearPairs(c, s, i, j) /\ Ordered(found)
  BY <1>5, <1>7, PairsOrdered
<1>9. found \in Matchings(c, s) BY <1>1, <1>8, MatchingsAre
<1>10. ASSUME NEW m \in Matchings(c, s)
       PROVE  /\ Cardinality(m) <= Len(e.pairs)
              /\ Cardinality(m) = Len(e.pairs) =>
                   TotalError(c, s, found) <= TotalError(c, s, m)
  <2>1. m \in SUBSET NearPairs(c, s, i, j) /\ Ordered(m) BY <1>1, <1>10, MatchingsAre
  <2>2. AsGood(r, Cardinality(m), TotalError(c, s, m)) BY <1>6, <2>1 DEF Optimal
  <2>3. Cardinality(m) \in Nat BY <1>5, <2>1, NearFinite
  <2>4. QED BY <1>7, <2>2, <2>3 DEF AsGood
<1>11. GreedyMatched(c, s) <= Len(e.pairs)
  <2>1. PICK m \in SUBSET NearPairs(c, s, i, j) :
          Apiece(m) /\ GreedyMatched(c, s) = Cardinality(m)
    BY <1>1, GreedyIsMatching
  <2>2. Cardinality(m) <= r.n BY <1>6, <2>1 DEF Most
  <2>3. QED BY <1>7, <2>1, <2>2
<1>12. QED BY <1>9, <1>10, <1>11 DEF BestOf, c, s

-----------------------------------------------------------------------------
(* The invariant *)

\* What the evaluation has so far: regimes to evaluate, and what was found of
\* those that are.
Evaluated ==
  /\ rows \in Seq(ExportRows) /\ RegimesOK(regimes)
  /\ IsSeq(evaluated) /\ \A k \in 1 .. Len(evaluated) : Evaluation(evaluated[k])

\* Nothing is evaluated at first.
LEMMA EvaluatedInit == Init => Evaluated
<1> DEFINE none == <<>>
<1>1. none \in Seq({}) /\ Len(none) = 0 /\ none \in Seq(ExportRows) BY EmptySeq
<1>2. Init => rows = none /\ regimes = none /\ evaluated = none BY DEF Init
<1> HIDE DEF none
<1>3. QED BY <1>1, <1>2 DEF Evaluated, RegimesOK, IsSeq

\* A regime evaluated adds what was found of it to what there is.
LEMMA ContinuousFinds ==
  ASSUME Evaluated, Continuous
  PROVE  /\ rows' = rows /\ mode' = mode /\ mode = "continuous" /\ diagnosed' = diagnosed
         /\ RegimesOK(regimes')
         /\ \E e : /\ Evaluation(e) /\ evaluated' = Append(evaluated, e)
                   /\ actual' = actual \o e.actual /\ simulated' = simulated \o e.simulated
                   /\ pairs' = pairs \o Shifted(e.pairs, e.actual, e.simulated)
<1> DEFINE run == regimes[1]
<1>1. /\ rows' = rows /\ mode' = mode /\ mode = "continuous" /\ diagnosed' = diagnosed
      /\ regimes # <<>> /\ regimes' = Tail(regimes) /\ actual' = actual \o run
  BY DEF Continuous
<1>2. RunOK(run) /\ RegimesOK(regimes') BY <1>1, RestTyped DEF Evaluated
<1>3. PICK replay \in Replays(run[1].opened, run[Len(run)].closed) :
        /\ evaluated' = Append(evaluated, [actual |-> run, simulated |-> replay,
                                           pairs |-> OrderedMatches(run, replay)])
        /\ pairs' = pairs \o Shifted(OrderedMatches(run, replay), run, replay)
        /\ simulated' = simulated \o replay
  BY DEF Continuous
<1> DEFINE e == [actual |-> run, simulated |-> replay,
                 pairs |-> OrderedMatches(run, replay)]
<1> HIDE DEF run
<1>4. run[1].opened \in Int /\ run[Len(run)].closed \in Int
  <2>1. Len(run) \in Nat /\ Len(run) >= 1 BY <1>2, SeqIndex DEF RunOK, CyclesOK
  <2>2. 1 \in 1 .. Len(run) /\ Len(run) \in 1 .. Len(run) BY <2>1
  <2>3. QED BY <1>2, <2>2 DEF RunOK, CyclesOK, CycleOK
<1>5. IsSeq(replay) /\ Timed(replay) /\ Rising(replay) BY <1>4, ReplaysTyped
<1>6. e.actual = run /\ e.simulated = replay /\ e.pairs = OrderedMatches(run, replay)
  OBVIOUS
<1>7. evaluated' = Append(evaluated, e) BY <1>3
<1> HIDE DEF e
<1>8. Evaluation(e) BY <1>2, <1>5, <1>6 DEF Evaluation, RunOK
<1>9. QED BY <1>1, <1>2, <1>3, <1>6, <1>7, <1>8

\* Each action keeps it so.
LEMMA EvaluatedStep == Evaluated /\ [Next]_vars => Evaluated'
<1> SUFFICES ASSUME Evaluated, [Next]_vars PROVE Evaluated' OBVIOUS
<1>1. ASSUME NEW row \in ExportRows, ReadRow(row) PROVE Evaluated'
  <2>1. rows' \in Seq(ExportRows) BY <1>1 DEF ReadRow, Evaluated
  <2>2. UNCHANGED <<regimes, evaluated>> BY <1>1 DEF ReadRow
  <2>3. QED BY <2>1, <2>2 DEF Evaluated
<1>2. ASSUME NEW kind \in {"anchored", "continuous"}, Parse(kind) PROVE Evaluated'
  <2> DEFINE none == <<>>
  <2>1. none \in Seq({}) /\ Len(none) = 0 /\ none \in Seq(ExportRows) BY EmptySeq
  <2>2. rows' = none /\ evaluated' = evaluated BY <1>2 DEF Parse
  <2>3. regimes' = none \/ regimes' = Regimes(Cycles(rows)) BY <1>2 DEF Parse
  <2>4. RegimesOK(Regimes(Cycles(rows)))
    <3>1. CyclesOK(Cycles(rows)) BY CyclesTyped DEF Evaluated
    <3>2. QED BY <3>1, RegimesTyped
  <2> HIDE DEF none
  <2>5. RegimesOK(none) BY <2>1 DEF RegimesOK, IsSeq
  <2>6. RegimesOK(regimes') BY <2>3, <2>4, <2>5
  <2>7. QED BY <2>1, <2>2, <2>6 DEF Evaluated
<1>3. ASSUME Anchored PROVE Evaluated'
  <2>1. rows' = rows /\ evaluated' = evaluated /\ regimes # <<>> BY <1>3 DEF Anchored
  <2>2. regimes' = IF Len(regimes[1]) > 1 THEN <<Tail(regimes[1])>> \o Tail(regimes)
                   ELSE Tail(regimes)
    BY <1>3 DEF Anchored
  <2>3. RegimesOK(regimes') BY <2>1, <2>2, RestTyped DEF Evaluated
  <2>4. QED BY <2>1, <2>3 DEF Evaluated
<1>4. ASSUME Continuous PROVE Evaluated'
  <2>1. /\ rows' = rows /\ RegimesOK(regimes')
        /\ \E e : Evaluation(e) /\ evaluated' = Append(evaluated, e)
    BY <1>4, ContinuousFinds
  <2>2. PICK e : Evaluation(e) /\ evaluated' = Append(evaluated, e) BY <2>1
  <2>3. /\ IsSeq(evaluated') /\ Len(evaluated') = Len(evaluated) + 1
        /\ \A k \in 1 .. Len(evaluated) : evaluated'[k] = evaluated[k]
        /\ evaluated'[Len(evaluated) + 1] = e
    BY <2>2, SeqAppend DEF Evaluated
  <2>4. ASSUME NEW k \in 1 .. Len(evaluated') PROVE Evaluation(evaluated'[k])
    <3>1. Len(evaluated) \in Nat BY SeqIndex DEF Evaluated
    <3>2. k \in 1 .. Len(evaluated) \/ k = Len(evaluated) + 1 BY <2>3, <3>1
    <3>3. QED BY <2>2, <2>3, <3>2 DEF Evaluated
  <2>5. QED BY <2>1, <2>3, <2>4 DEF Evaluated
<1>5. CASE UNCHANGED vars BY <1>5 DEF Evaluated, vars
<1>6. QED BY <1>1, <1>2, <1>3, <1>4, <1>5 DEF Next

\* Every regime that was evaluated has the best matching.
LEMMA EvaluatedBest == Evaluated => MatchesOptimal
<1> SUFFICES ASSUME Evaluated, NEW k \in DOMAIN evaluated PROVE BestOf(evaluated[k])
  BY DEF MatchesOptimal, BestOf
<1>1. k \in 1 .. Len(evaluated) BY SeqIndex DEF Evaluated
<1>2. QED BY <1>1, EvaluationBest DEF Evaluated

\* The matching of every regime is the best: no matching in order has more
\* pairs, nor as many with less total error, and the greedy comparison of the
\* same sequences finds no more (historical_validation.py, _ordered_close_matches).
THEOREM MatchesAreOptimal == Spec => []MatchesOptimal
<1>1. Init => Evaluated BY EvaluatedInit
<1>2. Evaluated /\ [Next]_vars => Evaluated' BY EvaluatedStep
<1>3. Evaluated => MatchesOptimal BY EvaluatedBest
<1>4. QED BY <1>1, <1>2, <1>3, PTL DEF Spec

-----------------------------------------------------------------------------
(* The pairs of all regimes together *)

\* Pairs of two sequences, in the order of both.
Paired(f, c, s) ==
  /\ IsSeq(f) /\ IsSeq(c) /\ IsSeq(s) /\ Timed(c) /\ Timed(s)
  /\ \A k \in 1 .. Len(f) : f[k] \in NearPairs(c, s, Len(c), Len(s))
  /\ \A k, l \in 1 .. Len(f) : k < l => f[k][1] < f[l][1] /\ f[k][2] < f[l][2]

\* Two timed sequences in one.
LEMMA TimedConcat ==
  ASSUME NEW c, NEW d, IsSeq(c), IsSeq(d), Timed(c), Timed(d)
  PROVE  /\ IsSeq(c \o d) /\ Timed(c \o d) /\ Len(c \o d) = Len(c) + Len(d)
         /\ \A i \in 1 .. Len(c) : (c \o d)[i] = c[i]
         /\ \A i \in 1 .. Len(d) : (c \o d)[Len(c) + i] = d[i]
<1> DEFINE e == c \o d
           m == Len(c)
           n == Len(d)
<1>1. IsSeq(e) /\ Len(e) = m + n BY SeqConcat
<1>2. m \in Nat /\ n \in Nat BY DEF Timed
<1>3. \A i \in 1 .. m : c[i].closed \in Int BY DEF Timed
<1>4. \A i \in 1 .. n : d[i].closed \in Int BY DEF Timed
<1>5. \A i \in 1 .. m : e[i] = c[i] BY SeqConcat
<1>6. \A i \in 1 .. n : e[m + i] = d[i] BY SeqConcat
<1> HIDE DEF e
<1>7. ASSUME NEW i \in 1 .. m + n PROVE e[i].closed \in Int
  <2>1. CASE i <= m
    <3>1. i \in 1 .. m BY <1>2, <2>1
    <3>2. QED BY <1>3, <1>5, <3>1
  <2>2. CASE i > m
    <3>1. i - m \in 1 .. n /\ m + (i - m) = i BY <1>2, <2>2
    <3>2. QED BY <1>4, <1>6, <3>1
  <2>3. QED BY <1>2, <2>1, <2>2
<1>8. Timed(e) BY <1>1, <1>7, SeqIndex DEF Timed
<1>9. QED BY <1>1, <1>8, <1>5, <1>6 DEF e

\* The pairs of a regime, moved to where its cycles and closes are.
LEMMA PairedConcat ==
  ASSUME NEW f, NEW c, NEW s, Paired(f, c, s), NEW g, NEW d, NEW t, Paired(g, d, t),
         NEW h, IsSeq(h), Len(h) = Len(g),
         \A k \in 1 .. Len(g) : h[k] = <<Len(c) + g[k][1], Len(s) + g[k][2]>>
  PROVE  Paired(f \o h, c \o d, s \o t) /\ Len(f \o h) = Len(f) + Len(g)
<1> DEFINE C == c \o d
           S == s \o t
           F == f \o h
           m == Len(f)
           n == Len(g)
           i == Len(c)
           j == Len(s)
           a == Len(d)
           b == Len(t)
<1>1. /\ IsSeq(C) /\ Timed(C) /\ Len(C) = i + a
      /\ IsSeq(S) /\ Timed(S) /\ Len(S) = j + b
  BY TimedConcat DEF Paired
<1>2. \A k \in 1 .. i : C[k] = c[k] BY TimedConcat DEF Paired
<1>3. \A k \in 1 .. a : C[i + k] = d[k] BY TimedConcat DEF Paired
<1>4. \A k \in 1 .. j : S[k] = s[k] BY TimedConcat DEF Paired
<1>5. \A k \in 1 .. b : S[j + k] = t[k] BY TimedConcat DEF Paired
<1>6. IsSeq(F) /\ Len(F) = m + n BY SeqConcat DEF Paired
<1>7. \A k \in 1 .. m : F[k] = f[k] BY SeqConcat DEF Paired
<1>8. \A k \in 1 .. n : F[m + k] = h[k]
  <2>1. IsSeq(f) /\ IsSeq(h) /\ Len(h) = n BY DEF Paired
  <2>2. \A k \in 1 .. Len(h) : F[m + k] = h[k] BY <2>1, SeqConcat
  <2>3. QED BY <2>1, <2>2
<1>9. i \in Nat /\ j \in Nat /\ a \in Nat /\ b \in Nat BY DEF Paired, Timed
<1>10. m \in Nat /\ n \in Nat BY SeqIndex DEF Paired
<1>11. ASSUME NEW k \in 1 .. m
       PROVE  /\ f[k] \in (1 .. i) \X (1 .. j)
              /\ Error(c[f[k][1]], s[f[k][2]]) <= CloseWindow
  BY DEF Paired, NearPairs
<1>12. ASSUME NEW k \in 1 .. n
       PROVE  /\ g[k] \in (1 .. a) \X (1 .. b)
              /\ Error(d[g[k][1]], t[g[k][2]]) <= CloseWindow
  BY DEF Paired, NearPairs
<1>13. /\ \A k, l \in 1 .. m : k < l => f[k][1] < f[l][1] /\ f[k][2] < f[l][2]
       /\ \A k, l \in 1 .. n : k < l => g[k][1] < g[l][1] /\ g[k][2] < g[l][2]
  BY DEF Paired
<1>14. \A k \in 1 .. n : h[k] = <<i + g[k][1], j + g[k][2]>> OBVIOUS
<1> HIDE DEF C, S, F, m, n, i, j, a, b
<1>15. ASSUME NEW k \in 1 .. m PROVE F[k] \in NearPairs(C, S, i + a, j + b)
  <2>1. f[k][1] \in 1 .. i /\ f[k][2] \in 1 .. j /\ f[k] = <<f[k][1], f[k][2]>> BY <1>11
  <2>2. f[k] \in (1 .. i + a) \X (1 .. j + b)
    <3>1. f[k][1] \in 1 .. i + a /\ f[k][2] \in 1 .. j + b BY ONLY <1>9, <2>1
    <3>2. QED BY <2>1, <3>1
  <2>3. C[f[k][1]] = c[f[k][1]] /\ S[f[k][2]] = s[f[k][2]] BY <1>2, <1>4, <2>1
  <2>4. QED BY <1>7, <1>11, <2>2, <2>3 DEF NearPairs
<1>16. ASSUME NEW k \in 1 .. n PROVE F[m + k] \in NearPairs(C, S, i + a, j + b)
  <2>1. g[k][1] \in 1 .. a /\ g[k][2] \in 1 .. b BY <1>12
  <2> DEFINE p == <<i + g[k][1], j + g[k][2]>>
  <2>2. p[1] = i + g[k][1] /\ p[2] = j + g[k][2] /\ F[m + k] = p BY <1>8, <1>14
  <2>3. p \in (1 .. i + a) \X (1 .. j + b)
    <3>1. i + g[k][1] \in 1 .. i + a /\ j + g[k][2] \in 1 .. j + b BY ONLY <1>9, <2>1
    <3>2. QED BY <3>1
  <2> HIDE DEF p
  <2>4. C[p[1]] = d[g[k][1]] /\ S[p[2]] = t[g[k][2]] BY <1>3, <1>5, <2>1, <2>2
  <2>5. Error(C[p[1]], S[p[2]]) <= CloseWindow BY <1>12, <2>4
  <2>6. QED BY <2>2, <2>3, <2>5 DEF NearPairs
<1>17. \A k \in 1 .. m + n : k \in 1 .. m \/ (k - m \in 1 .. n /\ k = m + (k - m))
  BY <1>10
<1>18. \A k \in 1 .. m + n : F[k] \in NearPairs(C, S, i + a, j + b)
  BY <1>15, <1>16, <1>17
<1>19. ASSUME NEW k \in 1 .. m + n, NEW l \in 1 .. m + n, k < l
       PROVE  F[k][1] < F[l][1] /\ F[k][2] < F[l][2]
  <2>1. CASE l \in 1 .. m
    <3>1. k \in 1 .. m BY <1>10, <1>19, <2>1
    <3>2. QED BY <1>7, <1>13, <1>19, <2>1, <3>1
  <2>2. CASE l \notin 1 .. m
    <3> DEFINE q == l - m
    <3>1. q \in 1 .. n /\ l = m + q BY <1>17, <2>2
    <3>2. F[l] = <<i + g[q][1], j + g[q][2]>> BY <1>8, <1>14, <3>1
    <3>3. g[q][1] \in 1 .. a /\ g[q][2] \in 1 .. b BY <1>12, <3>1
    <3> HIDE DEF q
    <3>4. F[l][1] = i + g[q][1] /\ F[l][2] = j + g[q][2] BY <3>2
    <3>5. CASE k \in 1 .. m
      <4>1. f[k][1] \in 1 .. i /\ f[k][2] \in 1 .. j /\ F[k] = f[k] BY <1>7, <1>11, <3>5
      <4>2. f[k][1] < i + g[q][1] /\ f[k][2] < j + g[q][2] BY ONLY <1>9, <3>3, <4>1
      <4>3. QED BY <3>4, <4>1, <4>2
    <3>6. CASE k \notin 1 .. m
      <4> DEFINE r == k - m
      <4>1. r \in 1 .. n /\ k = m + r BY <1>17, <3>6
      <4>2. F[k] = <<i + g[r][1], j + g[r][2]>> BY <1>8, <1>14, <4>1
      <4>3. g[r][1] \in 1 .. a /\ g[r][2] \in 1 .. b BY <1>12, <4>1
      <4> HIDE DEF r
      <4>4. F[k][1] = i + g[r][1] /\ F[k][2] = j + g[r][2] BY <4>2
      <4>5. r < q BY <1>10, <1>19, <3>1, <4>1
      <4>6. g[r][1] < g[q][1] /\ g[r][2] < g[q][2] BY <1>13, <3>1, <4>1, <4>5
      <4>7. /\ i + g[r][1] < i + g[q][1] /\ j + g[r][2] < j + g[q][2]
        BY ONLY <1>9, <3>3, <4>3, <4>6
      <4>8. QED BY <3>4, <4>4, <4>7
    <3>7. QED BY <3>5, <3>6
  <2>3. QED BY <2>1, <2>2
<1>20. Paired(F, C, S)
  <2>1. Len(F) = m + n /\ Len(C) = i + a /\ Len(S) = j + b BY <1>1, <1>6
  <2>2. QED BY <1>1, <1>6, <1>18, <1>19, <2>1 DEF Paired
<1>21. QED BY <1>6, <1>20 DEF F, C, S, m, n

\* Nothing paired with nothing.
LEMMA PairedEmpty == Paired(<<>>, <<>>, <<>>)
<1> DEFINE none == <<>>
<1>1. none \in Seq({}) /\ Len(none) = 0 /\ DOMAIN none = 1 .. 0 BY EmptySeq
<1> HIDE DEF none
<1>2. IsSeq(none) /\ Timed(none) BY <1>1 DEF IsSeq, Timed
<1>3. Paired(none, none, none) BY <1>1, <1>2 DEF Paired
<1>4. QED BY <1>3 DEF none

\* The pairs of an evaluation are pairs of its sequences.
LEMMA EvaluationPaired ==
  ASSUME NEW e, Evaluation(e)
  PROVE  Paired(e.pairs, e.actual, e.simulated)
<1> DEFINE c == e.actual
           s == e.simulated
<1>1. /\ Timed(c) /\ Timed(s) /\ IsSeq(c) /\ IsSeq(s) /\ e.pairs = OrderedMatches(c, s)
  BY RunTimed DEF Evaluation, CyclesOK
<1> HIDE DEF c, s
<1>2. PICK r : OrderedMatches(c, s) = r.pairs /\ Sound(r, c, s, Len(c), Len(s))
  BY <1>1, OrderedMatchesBest
<1>3. Built(r, c, s, Len(c), Len(s)) BY <1>2 DEF Sound
<1>4. /\ IsSeq(r.pairs) /\ Len(r.pairs) = r.n
      /\ \A k \in 1 .. r.n : r.pairs[k] \in NearPairs(c, s, Len(c), Len(s))
      /\ \A k, l \in 1 .. r.n : k < l => /\ r.pairs[k][1] < r.pairs[l][1]
                                         /\ r.pairs[k][2] < r.pairs[l][2]
  BY <1>3 DEF Built, IsSeq
<1>5. Paired(r.pairs, c, s) BY <1>1, <1>4 DEF Paired
<1>6. QED BY <1>1, <1>2, <1>5 DEF c, s

-----------------------------------------------------------------------------
(* What is counted *)

\* The pairs use as many cycles, and as many closes, as there are pairs.
LEMMA SidesCounted ==
  ASSUME NEW f, NEW c, NEW s, Paired(f, c, s)
  PROVE  /\ Cardinality({m[1] : m \in ToSet(f)}) = Len(f)
         /\ Cardinality({m[2] : m \in ToSet(f)}) = Len(f)
<1> DEFINE n == Len(f)
           g == [k \in 1 .. n |-> f[k][1]]
           h == [k \in 1 .. n |-> f[k][2]]
<1>1. n \in Nat /\ DOMAIN f = 1 .. n BY SeqIndex DEF Paired
<1>2. \A k \in 1 .. n : f[k][1] \in Int /\ f[k][2] \in Int BY DEF Paired, NearPairs
<1>3. \A k, l \in 1 .. n : k < l => f[k][1] < f[l][1] /\ f[k][2] < f[l][2]
  BY DEF Paired
<1>4. \A k, l \in 1 .. n : k # l => f[k][1] # f[l][1] /\ f[k][2] # f[l][2]
  BY <1>1, <1>2, <1>3
<1>5. {m[1] : m \in ToSet(f)} = {g[k] : k \in 1 .. n}
      /\ {m[2] : m \in ToSet(f)} = {h[k] : k \in 1 .. n}
  BY <1>1 DEF ToSet
<1>6. /\ DOMAIN g = 1 .. n /\ \A k, l \in 1 .. n : k # l => g[k] # g[l]
      /\ DOMAIN h = 1 .. n /\ \A k, l \in 1 .. n : k # l => h[k] # h[l]
  BY <1>4
<1> HIDE DEF g, h
<1>7. Cardinality({g[k] : k \in 1 .. n}) = n BY <1>1, <1>6, DistinctCount
<1>8. Cardinality({h[k] : k \in 1 .. n}) = n BY <1>1, <1>6, DistinctCount
<1>9. QED BY <1>5, <1>7, <1>8

\* Half of the values at least are not above the median, and so not above what it
\* is not above.
LEMMA MedianHalf ==
  ASSUME NEW n \in Nat, n # 0, NEW values \in [1 .. n -> Nat],
         NEW limit \in Nat, TwiceMedian(values) <= 2 * limit
  PROVE  2 * Cardinality({k \in 1 .. n : values[k] <= limit}) >= n
<1> DEFINE keys == [i \in 1 .. n |-> <<values[i], 0>>]
           order == InOrder(1 .. n, keys)
           lower == (n + 1) \div 2
           upper == n + 1 - lower
           near == {k \in 1 .. n : values[k] <= limit}
           first == {order[r] : r \in 1 .. lower}
<1>1. Len(values) = n /\ DOMAIN values = 1 .. n BY SeqOfFunction
<1>2. TwiceMedian(values) = values[order[lower]] + values[order[upper]]
  BY <1>1 DEF TwiceMedian
<1>3. lower \in 1 .. n /\ upper \in 1 .. n /\ lower <= upper /\ 2 * lower >= n
  OBVIOUS
<1>4. IsFiniteSet(1 .. n) /\ Cardinality(1 .. n) = n
  <2>1. 1 \in Int /\ n \in Int OBVIOUS
  <2>2. IsFiniteSet(1 .. n) /\ Cardinality(1 .. n) = IF 1 > n THEN 0 ELSE n - 1 + 1
    BY <2>1, FS_Interval
  <2>3. QED BY <2>2
<1>5. Keyed(1 .. n, keys) BY <1>4 DEF Keyed
<1>6. /\ order \in [1 .. n -> 1 .. n]
      /\ \A r, q \in 1 .. n : r < q => Earlier(keys, order[r], order[q])
  <2> HIDE DEF keys
  <2>1. QED BY <1>4, <1>5, InOrderSorts
<1>7. \A i, j \in 1 .. n : Earlier(keys, i, j) => values[i] <= values[j]
  BY DEF Earlier, Before
<1>8. \A r \in 1 .. n : ~ Earlier(keys, r, r) BY <1>5, EarlierOrders
<1> HIDE DEF order, keys, lower, upper
<1>9. \A r, q \in 1 .. n : r <= q => values[order[r]] <= values[order[q]]
  <2>1. ASSUME NEW r \in 1 .. n, NEW q \in 1 .. n, r <= q
        PROVE  values[order[r]] <= values[order[q]]
    <3>1. CASE r = q
      <4>1. values[order[r]] \in Nat BY <1>6
      <4>2. QED BY <3>1, <4>1
    <3>2. CASE r < q BY <1>6, <1>7, <3>2
    <3>3. QED BY <2>1, <3>1, <3>2
  <2>2. QED BY <2>1
<1>10. values[order[lower]] <= limit
  <2>1. values[order[lower]] \in Nat /\ values[order[upper]] \in Nat BY <1>3, <1>6
  <2>2. values[order[lower]] <= values[order[upper]] BY <1>3, <1>9
  <2>3. values[order[lower]] + values[order[upper]] <= 2 * limit BY <1>2
  <2>4. QED BY ONLY <2>1, <2>2, <2>3, limit \in Nat
<1>11. \A r \in 1 .. lower : order[r] \in near
  <2>1. ASSUME NEW r \in 1 .. lower PROVE order[r] \in near
    <3>1. r \in 1 .. n /\ r <= lower BY <1>3
    <3>2. order[r] \in 1 .. n /\ values[order[r]] \in Nat /\ values[order[lower]] \in Nat
      BY <1>3, <1>6, <3>1
    <3>3. values[order[r]] <= values[order[lower]] BY <1>3, <1>9, <3>1
    <3>4. values[order[r]] <= limit BY ONLY <1>10, <3>2, <3>3, limit \in Nat
    <3>5. QED BY <3>2, <3>4
  <2>2. QED BY <2>1
<1>12. \A r, q \in 1 .. lower : r # q => order[r] # order[q]
  <2>1. ASSUME NEW r \in 1 .. lower, NEW q \in 1 .. lower, r # q PROVE order[r] # order[q]
    <3>1. r \in 1 .. n /\ q \in 1 .. n /\ (r < q \/ q < r) BY <1>3, <2>1
    <3>2. order[r] \in 1 .. n BY <1>6, <3>1
    <3>3. QED BY <1>6, <1>8, <3>1, <3>2
  <2>2. QED BY <2>1
<1>13. Cardinality(first) = lower
  <2> DEFINE g == [r \in 1 .. lower |-> order[r]]
  <2>1. DOMAIN g = 1 .. lower /\ \A r, q \in 1 .. lower : r # q => g[r] # g[q]
    BY <1>12
  <2>2. first = {g[r] : r \in 1 .. lower} OBVIOUS
  <2>3. lower \in Nat BY <1>3
  <2> HIDE DEF g, first
  <2>4. QED BY <2>1, <2>2, <2>3, DistinctCount
<1>14. first \in SUBSET near BY <1>11
<1>15. IsFiniteSet(near) /\ Cardinality(near) \in Nat BY <1>4, FS_Subset, FS_CardinalityType
<1> HIDE DEF near, first
<1>16. lower <= Cardinality(near) BY <1>13, <1>14, <1>15, FS_Subset
<1>17. 2 * Cardinality(near) >= n
  <2>1. lower \in Nat BY <1>3
  <2>2. QED BY ONLY <1>3, <1>15, <1>16, <2>1, n \in Nat
<1>18. QED BY <1>17 DEF near

-----------------------------------------------------------------------------
(* The totals of a validation *)

\* How many pairs each evaluated regime has.
Counts(e) == [k \in 1 .. Len(e) |-> Len(e[k].pairs)]

\* Their total is a sum.
LEMMA CountsSum ==
  ASSUME NEW e, IsSeq(e)
  PROVE  MapThenSumSet(LAMBDA k : Len(e[k].pairs), DOMAIN e) = SumFunction(Counts(e))
<1> DEFINE m == DOMAIN e
           f == Counts(e)
           G == CHOOSE g : g = [t \in SUBSET m |-> IF t = {} THEN 0
                  ELSE Len(e[CHOOSE x \in t : TRUE].pairs) + g[t \ {CHOOSE x \in t : TRUE}]]
<1>1. m = 1 .. Len(e) /\ Len(e) \in Nat /\ DOMAIN f = m BY SeqIndex DEF Counts
<1>2. MapThenSumSet(LAMBDA k : Len(e[k].pairs), m) = G[m]
  BY DEF MapThenSumSet, MapThenFoldSet
<1>3. \A t \in SUBSET m : t # {} =>
        f[CHOOSE x \in t : TRUE] = Len(e[CHOOSE x \in t : TRUE].pairs)
  BY <1>1 DEF Counts
<1>4. IsFiniteSet(m) BY <1>1, FS_Interval
<1>5. PICK h : IsFold(h, f, m) BY <1>4, FoldExists
<1> HIDE DEF f
<1> DEFINE W(g) == [t \in SUBSET m |-> IF t = {} THEN 0
                     ELSE Len(e[CHOOSE x \in t : TRUE].pairs) + g[t \ {CHOOSE x \in t : TRUE}]]
           V(g) == [t \in SUBSET m |-> IF t = {} THEN 0
                     ELSE f[CHOOSE x \in t : TRUE] + g[t \ {CHOOSE x \in t : TRUE}]]
<1>6. \A g : W(g) = V(g) BY <1>3
<1>7. IsFold(G, f, m)
  <2>1. h = V(h) BY <1>5 DEF IsFold
  <2>2. G = CHOOSE g : g = W(g) OBVIOUS
  <2> HIDE DEF W, G, V
  <2>3. h = W(h) BY <1>6, <2>1
  <2>4. G = W(G) BY <2>2, <2>3
  <2>5. G = V(G) BY <1>6, <2>4
  <2>6. QED BY <2>5 DEF V, IsFold
<1> HIDE DEF G
<1>8. SumFunction(f) = G[m] BY <1>1, <1>4, <1>7, SumOfFold
<1>9. QED BY <1>2, <1>8 DEF f

\* One regime more adds its pairs.
LEMMA CountsAppend ==
  ASSUME NEW e, IsSeq(e), \A k \in 1 .. Len(e) : Evaluation(e[k]),
         NEW x, Evaluation(x)
  PROVE  SumFunction(Counts(Append(e, x))) = SumFunction(Counts(e)) + Len(x.pairs)
<1> DEFINE d == Append(e, x)
           n == Len(e)
<1>1. /\ Len(d) = n + 1 /\ \A k \in 1 .. n : d[k] = e[k] /\ d[n + 1] = x BY SeqAppend
<1>2. n \in Nat BY SeqIndex
<1>3. \A k \in 1 .. n : Len(e[k].pairs) \in Nat
  BY EvaluationPaired, SeqIndex DEF Paired
<1>4. Len(x.pairs) \in Nat BY EvaluationPaired, SeqIndex DEF Paired
<1>5. Len(d) = n + 1 /\ d[n + 1] = x BY SeqAppend
<1>6. \A k \in 1 .. n : d[k] = e[k] BY SeqAppend
<1> HIDE DEF d
<1>7. Counts(d) \in [1 .. n + 1 -> Int] /\ Counts(d)[n + 1] = Len(x.pairs)
  <2>1. \A k \in 1 .. n + 1 : Len(d[k].pairs) \in Int
    <3>1. \A k \in 1 .. n + 1 : k \in 1 .. n \/ k = n + 1 BY <1>2
    <3>2. QED BY <1>3, <1>4, <1>5, <1>6, <3>1
  <2>2. n + 1 \in 1 .. n + 1 BY <1>2
  <2>3. QED BY <1>5, <2>1, <2>2 DEF Counts
<1>8. [k \in 1 .. n |-> Counts(d)[k]] = Counts(e)
  <2>1. \A k \in 1 .. n : k \in 1 .. n + 1 BY <1>2
  <2>2. \A k \in 1 .. n : Counts(d)[k] = Len(e[k].pairs) BY <1>5, <1>6, <2>1 DEF Counts
  <2>3. QED BY <2>2 DEF Counts
<1> HIDE DEF n
<1>9. SumFunction(Counts(d))
        = SumFunction([k \in 1 .. n |-> Counts(d)[k]]) + Counts(d)[n + 1]
  BY <1>2, <1>7, SumAppend
<1>10. QED BY <1>7, <1>8, <1>9 DEF d

\* No regimes have no pairs.
LEMMA CountsNone == SumFunction(Counts(<<>>)) = 0
<1> DEFINE none == <<>>
<1>1. Len(none) = 0 BY EmptySeq
<1> HIDE DEF none
<1>2. Counts(none) \in [1 .. 0 -> Nat] /\ \A k \in 1 .. 0 : Counts(none)[k] = 0
  BY <1>1 DEF Counts
<1>3. IsFiniteSet(1 .. 0) BY FS_Interval
<1>4. SumFunction(Counts(none)) = 0 BY <1>2, <1>3, SumZero
<1>5. QED BY <1>4 DEF none

-----------------------------------------------------------------------------
(* One cycle at a time *)

\* To add one at the end is to add a sequence of one.
LEMMA OneMore ==
  ASSUME NEW c, IsSeq(c), NEW x
  PROVE  /\ Append(c, x) = c \o <<x>> /\ c \o <<>> = c
<1>1. PICK S : c \in Seq(S) BY DEF IsSeq
<1> DEFINE T == S \union {x}
<1>2. c \in Seq(T) /\ x \in T BY <1>1, SeqMonotonic
<1> HIDE DEF T
<1>3. QED BY <1>2, AppendIsConcat, ConcatEmptySeq

\* One cycle or one close is a timed sequence, and so is none.
LEMMA TimedOne ==
  ASSUME NEW x, x.closed \in Int
  PROVE  /\ IsSeq(<<x>>) /\ Timed(<<x>>) /\ Len(<<x>>) = 1 /\ <<x>>[1] = x
         /\ IsSeq(<<>>) /\ Timed(<<>>) /\ Len(<<>>) = 0
<1> DEFINE c == <<x>>
           none == <<>>
<1>1. c \in Seq({x}) /\ Len(c) = 1 /\ c[1] = x /\ DOMAIN c = 1 .. 1 OBVIOUS
<1>2. none \in Seq({}) /\ Len(none) = 0 /\ DOMAIN none = 1 .. 0 BY EmptySeq
<1> HIDE DEF c, none
<1>3. IsSeq(c) /\ Timed(c) /\ IsSeq(none) /\ Timed(none)
  BY <1>1, <1>2 DEF IsSeq, Timed
<1>4. QED BY <1>1, <1>2, <1>3 DEF c, none

\* Sequences without a pair, and the pair of one cycle and one close.
LEMMA PairedOne ==
  ASSUME NEW x, x.closed \in Int, NEW y, y.closed \in Int
  PROVE  /\ Paired(<<>>, <<x>>, <<>>) /\ Paired(<<>>, <<x>>, <<y>>)
         /\ Error(x, y) <= CloseWindow => Paired(<< <<1, 1>> >>, <<x>>, <<y>>)
<1> DEFINE none == <<>>
           c == <<x>>
           s == <<y>>
           f == << <<1, 1>> >>
<1>1. /\ IsSeq(c) /\ Timed(c) /\ Len(c) = 1 /\ c[1] = x
      /\ IsSeq(none) /\ Timed(none) /\ Len(none) = 0
  BY TimedOne
<1>2. IsSeq(s) /\ Timed(s) /\ Len(s) = 1 /\ s[1] = y BY TimedOne
<1>3. f \in Seq({<<1, 1>>}) /\ Len(f) = 1 /\ f[1] = <<1, 1>> OBVIOUS
<1> HIDE DEF none, c, s, f
<1>4. Paired(none, c, none) /\ Paired(none, c, s) BY <1>1, <1>2 DEF Paired
<1>5. ASSUME Error(x, y) <= CloseWindow PROVE Paired(f, c, s)
  <2> DEFINE p == <<1, 1>>
  <2>1. p \in (1 .. 1) \X (1 .. 1) /\ p[1] = 1 /\ p[2] = 1 OBVIOUS
  <2>2. f[1] = p BY <1>3
  <2> HIDE DEF p
  <2>3. p \in NearPairs(c, s, 1, 1) BY <1>1, <1>2, <1>5, <2>1 DEF NearPairs
  <2>4. IsSeq(f) BY <1>3 DEF IsSeq
  <2>5. \A k, l \in 1 .. Len(f) : ~ (k < l) BY <1>3
  <2>6. \A k \in 1 .. Len(f) : f[k] = p BY <1>3, <2>2
  <2>7. QED BY <1>1, <1>2, <2>3, <2>4, <2>5, <2>6 DEF Paired
<1>6. QED BY <1>4, <1>5 DEF none, c, s, f

\* What the evaluated cycles add up to.
Totals ==
  /\ Paired(pairs, actual, simulated)
  /\ diagnosed \in Nat
  /\ mode = "export" => /\ actual = <<>> /\ pairs = <<>> /\ evaluated = <<>>
                        /\ diagnosed = 0
  /\ mode = "anchored" => diagnosed + Len(pairs) = Len(actual)
  /\ mode = "continuous" => Len(pairs) = SumFunction(Counts(evaluated))

\* There are none at first.
LEMMA TotalsInit == Init => Totals
<1> SUFFICES ASSUME Init PROVE Totals OBVIOUS
<1>1. /\ mode = "export" /\ diagnosed = 0 /\ evaluated = <<>>
      /\ actual = <<>> /\ simulated = <<>> /\ pairs = <<>>
  BY DEF Init
<1>2. Paired(pairs, actual, simulated) BY <1>1, PairedEmpty
<1>3. QED BY <1>1, <1>2 DEF Totals

\* A pair added is one of the cycle and the close added with it.
LEMMA PairedAdd ==
  ASSUME NEW f, NEW c, NEW s, Paired(f, c, s),
         NEW x, x.closed \in Int, NEW y, y.closed \in Int
  PROVE  /\ Paired(f, Append(c, x), s) /\ Len(Append(c, x)) = Len(c) + 1
         /\ Paired(f, Append(c, x), Append(s, y))
         /\ Error(x, y) <= CloseWindow =>
              /\ Paired(Append(f, <<Len(c) + 1, Len(s) + 1>>), Append(c, x), Append(s, y))
              /\ Len(Append(f, <<Len(c) + 1, Len(s) + 1>>)) = Len(f) + 1
<1> DEFINE none == <<>>
           one == << <<1, 1>> >>
           cx == <<x>>
           sy == <<y>>
           z == <<Len(c) + 1, Len(s) + 1>>
           h == <<z>>
<1>1. IsSeq(f) /\ IsSeq(c) /\ IsSeq(s) BY DEF Paired
<1>2. /\ Append(c, x) = c \o cx /\ Append(s, y) = s \o sy /\ Append(f, z) = f \o h
      /\ f \o none = f /\ s \o none = s
  BY <1>1, OneMore
<1>3. /\ Paired(none, cx, none) /\ Paired(none, cx, sy)
      /\ Error(x, y) <= CloseWindow => Paired(one, cx, sy)
  BY PairedOne
<1>4. IsSeq(none) /\ Len(none) = 0
  <2>1. none \in Seq({}) /\ Len(none) = 0 BY EmptySeq
  <2>2. QED BY <2>1 DEF IsSeq
<1>5. IsSeq(h) /\ Len(h) = 1 /\ h[1] = z
  <2>1. h \in Seq({z}) /\ Len(h) = 1 /\ h[1] = z OBVIOUS
  <2>2. QED BY <2>1 DEF IsSeq
<1>6. Len(one) = 1 /\ one[1] = <<1, 1>> OBVIOUS
<1>7. Len(Append(c, x)) = Len(c) + 1 BY <1>1, SeqAppend
<1>8. Len(Append(f, z)) = Len(f) + 1 BY <1>1, SeqAppend
<1>9. z = <<Len(c) + 1, Len(s) + 1>> OBVIOUS
<1> HIDE DEF none, one, cx, sy, z, h
<1>10. Paired(f \o none, c \o cx, s \o none)
  <2>1. \A k \in 1 .. Len(none) : none[k] = <<Len(c) + none[k][1], Len(s) + none[k][2]>>
    BY <1>4
  <2>2. QED BY <1>3, <1>4, <2>1, PairedConcat
<1>11. Paired(f \o none, c \o cx, s \o sy)
  <2>1. \A k \in 1 .. Len(none) : none[k] = <<Len(c) + none[k][1], Len(s) + none[k][2]>>
    BY <1>4
  <2>2. QED BY <1>3, <1>4, <2>1, PairedConcat
<1>12. ASSUME Error(x, y) <= CloseWindow PROVE Paired(f \o h, c \o cx, s \o sy)
  <2>1. \A k \in 1 .. Len(one) : k = 1 BY <1>6
  <2>2. one[1][1] = 1 /\ one[1][2] = 1 BY <1>6
  <2>3. \A k \in 1 .. Len(one) : h[k] = <<Len(c) + one[k][1], Len(s) + one[k][2]>>
    BY <1>5, <1>9, <2>1, <2>2
  <2>4. Paired(one, cx, sy) /\ IsSeq(h) /\ Len(h) = Len(one) BY <1>3, <1>5, <1>6, <1>12
  <2>5. QED BY <2>3, <2>4, PairedConcat
<1>13. QED BY <1>2, <1>7, <1>8, <1>10, <1>11, <1>12 DEF z

\* An anchored replay adds its cycle, and a pair or a diagnosis.
LEMMA TotalsAnchored ==
  ASSUME Evaluated, Totals, Anchored
  PROVE  Totals'
<1> DEFINE cycle == regimes[1][1]
           z == <<Len(actual) + 1, Len(simulated) + 1>>
<1>1. /\ mode = "anchored" /\ mode' = mode /\ regimes # <<>>
      /\ actual' = Append(actual, cycle) /\ evaluated' = evaluated
  BY DEF Anchored
<1>2. cycle.opened \in Int /\ cycle.closed \in Int
  <2>1. RegimesOK(regimes) BY DEF Evaluated
  <2>2. QED BY <1>1, <2>1, RestTyped DEF CycleOK
<1>3. /\ Paired(pairs, actual, simulated) /\ diagnosed \in Nat
      /\ diagnosed + Len(pairs) = Len(actual) /\ Len(pairs) \in Nat /\ Len(actual) \in Nat
  BY <1>1, SeqIndex DEF Totals, Paired
<1>4. \/ diagnosed' = diagnosed + 1 /\ simulated' = simulated /\ pairs' = pairs
      \/ \E t \in Starts(cycle.opened, cycle.closed), depth \in Depths :
           LET candidate == ReplayedAt(t, depth)
               near == Error(cycle, candidate) <= CloseWindow
           IN /\ simulated' = Append(simulated, candidate)
              /\ pairs' = IF near THEN Append(pairs, z) ELSE pairs
              /\ diagnosed' = IF near THEN diagnosed ELSE diagnosed + 1
  BY DEF Anchored
<1> HIDE DEF cycle, z
<1>5. SUFFICES /\ Paired(pairs', actual', simulated') /\ diagnosed' \in Nat
               /\ diagnosed' + Len(pairs') = Len(actual')
  BY <1>1 DEF Totals
<1>6. CASE diagnosed' = diagnosed + 1 /\ simulated' = simulated /\ pairs' = pairs
  <2>1. /\ Paired(pairs, Append(actual, cycle), simulated)
        /\ Len(Append(actual, cycle)) = Len(actual) + 1
    BY <1>2, <1>3, PairedAdd
  <2>2. QED BY <1>1, <1>3, <1>6, <2>1
<1>7. ASSUME NEW t \in Starts(cycle.opened, cycle.closed), NEW depth \in Depths,
             LET candidate == ReplayedAt(t, depth)
                 near == Error(cycle, candidate) <= CloseWindow
             IN /\ simulated' = Append(simulated, candidate)
                /\ pairs' = IF near THEN Append(pairs, z) ELSE pairs
                /\ diagnosed' = IF near THEN diagnosed ELSE diagnosed + 1
      PROVE  /\ Paired(pairs', actual', simulated') /\ diagnosed' \in Nat
             /\ diagnosed' + Len(pairs') = Len(actual')
  <2> DEFINE candidate == ReplayedAt(t, depth)
             near == Error(cycle, candidate) <= CloseWindow
  <2>1. candidate.closed \in Int
    <3>1. MinuteOf(cycle.opened) \in Int /\ MinuteOf(cycle.closed) \in Int
          /\ CloseWindow \in Nat
      BY <1>2, HistoryAssumption, TraderExportAssumption DEF MinuteOf
    <3>2. t \in Int BY <3>1 DEF Starts
    <3>3. QED BY <3>2 DEF ReplayedAt
  <2>2. /\ simulated' = Append(simulated, candidate)
        /\ near => pairs' = Append(pairs, z) /\ diagnosed' = diagnosed
        /\ ~ near => pairs' = pairs /\ diagnosed' = diagnosed + 1
    BY <1>7
  <2> HIDE DEF candidate
  <2>3. /\ Paired(pairs, Append(actual, cycle), Append(simulated, candidate))
        /\ Len(Append(actual, cycle)) = Len(actual) + 1
        /\ near => /\ Paired(Append(pairs, z), Append(actual, cycle),
                             Append(simulated, candidate))
                   /\ Len(Append(pairs, z)) = Len(pairs) + 1
    BY <1>2, <1>3, <2>1, PairedAdd DEF z
  <2> HIDE DEF near
  <2>4. CASE near
    <3>1. /\ diagnosed' = diagnosed /\ Len(pairs') = Len(pairs) + 1
          /\ Len(actual') = Len(actual) + 1
      BY <1>1, <2>2, <2>3, <2>4
    <3>2. diagnosed + (Len(pairs) + 1) = Len(actual) + 1 BY <1>3
    <3>3. diagnosed' + Len(pairs') = Len(actual') BY <3>1, <3>2
    <3>4. QED BY <1>1, <1>3, <2>2, <2>3, <2>4, <3>3
  <2>5. CASE ~ near
    <3>1. diagnosed' + Len(pairs') = Len(actual') BY <1>1, <1>3, <2>2, <2>3, <2>5
    <3>2. QED BY <1>1, <1>3, <2>2, <2>3, <2>5, <3>1
  <2>6. QED BY <2>4, <2>5
<1>8. QED BY <1>4, <1>6, <1>7

\* A regime adds its cycles, the closes of its replay and the pairs of them.
LEMMA TotalsContinuous ==
  ASSUME Evaluated, Totals, Continuous
  PROVE  Totals'
<1>1. /\ mode = "continuous" /\ mode' = mode /\ diagnosed' = diagnosed
      /\ \E e : /\ Evaluation(e) /\ evaluated' = Append(evaluated, e)
                /\ actual' = actual \o e.actual /\ simulated' = simulated \o e.simulated
                /\ pairs' = pairs \o Shifted(e.pairs, e.actual, e.simulated)
  BY ContinuousFinds
<1>2. PICK e : /\ Evaluation(e) /\ evaluated' = Append(evaluated, e)
               /\ actual' = actual \o e.actual /\ simulated' = simulated \o e.simulated
               /\ pairs' = pairs \o Shifted(e.pairs, e.actual, e.simulated)
  BY <1>1
<1> DEFINE g == e.pairs
           d == e.actual
           s == e.simulated
           h == Shifted(g, d, s)
<1>3. Paired(g, d, s) BY <1>2, EvaluationPaired
<1>4. Len(g) \in Nat /\ DOMAIN g = 1 .. Len(g) BY <1>3, SeqIndex DEF Paired
<1>5. /\ IsSeq(h) /\ Len(h) = Len(g)
      /\ \A k \in 1 .. Len(g) : h[k] = <<Len(actual) + g[k][1], Len(simulated) + g[k][2]>>
  <2>1. h = [k \in 1 .. Len(g) |-> <<Len(actual) + g[k][1], Len(simulated) + g[k][2]>>]
    BY <1>4 DEF Shifted
  <2> DEFINE S == {h[k] : k \in 1 .. Len(g)}
  <2>2. h \in [1 .. Len(g) -> S] BY <2>1
  <2> HIDE DEF h, S
  <2>3. IsSeq(h) /\ Len(h) = Len(g) BY <1>4, <2>2, SeqOfFunction
  <2>4. QED BY <2>1, <2>3
<1>6. /\ Paired(pairs, actual, simulated) /\ diagnosed \in Nat
      /\ Len(pairs) = SumFunction(Counts(evaluated))
  BY <1>1 DEF Totals
<1> HIDE DEF g, d, s, h
<1>7. /\ Paired(pairs \o h, actual \o d, simulated \o s)
      /\ Len(pairs \o h) = Len(pairs) + Len(g)
  <2>1. Paired(pairs, actual, simulated) BY <1>6
  <2>2. IsSeq(h) /\ Len(h) = Len(g) BY <1>5
  <2>3. \A k \in 1 .. Len(g) : h[k] = <<Len(actual) + g[k][1], Len(simulated) + g[k][2]>>
    BY <1>5
  <2>4. QED BY ONLY <1>3, <2>1, <2>2, <2>3, PairedConcat
<1>8. SumFunction(Counts(evaluated')) = SumFunction(Counts(evaluated)) + Len(g)
  <2>1. IsSeq(evaluated) /\ \A k \in 1 .. Len(evaluated) : Evaluation(evaluated[k])
    BY DEF Evaluated
  <2>2. QED BY <1>2, <2>1, CountsAppend DEF g
<1>9. pairs' = pairs \o h /\ actual' = actual \o d /\ simulated' = simulated \o s
  BY <1>2 DEF g, d, s, h
<1>10. Counts(evaluated)' = Counts(evaluated') BY DEF Counts
<1>11. QED BY <1>1, <1>6, <1>7, <1>8, <1>9, <1>10 DEF Totals

\* Each action keeps the totals.
LEMMA TotalsStep == Evaluated /\ Totals /\ [Next]_vars => Totals'
<1> SUFFICES ASSUME Evaluated, Totals, [Next]_vars PROVE Totals' OBVIOUS
<1>1. ASSUME NEW row \in ExportRows, ReadRow(row) PROVE Totals'
  BY <1>1 DEF ReadRow, Totals, Counts
<1>2. ASSUME NEW kind \in {"anchored", "continuous"}, Parse(kind) PROVE Totals'
  <2>1. /\ mode = "export" /\ mode' \in {"rejected", "anchored", "continuous"}
        /\ UNCHANGED <<actual, simulated, pairs, diagnosed, evaluated>>
    BY <1>2 DEF Parse
  <2>2. actual = <<>> /\ pairs = <<>> /\ evaluated = <<>> /\ diagnosed = 0
    BY <2>1 DEF Totals
  <2>3. Len(<<>>) = 0 BY EmptySeq
  <2>4. SumFunction(Counts(evaluated')) = 0 /\ Counts(evaluated)' = Counts(evaluated')
    BY <2>1, <2>2, CountsNone DEF Counts
  <2>5. Paired(pairs', actual', simulated') BY <2>1 DEF Totals
  <2>6. QED BY <2>1, <2>2, <2>3, <2>4, <2>5 DEF Totals
<1>3. ASSUME Anchored PROVE Totals' BY <1>3, TotalsAnchored
<1>4. ASSUME Continuous PROVE Totals' BY <1>4, TotalsContinuous
<1>5. CASE UNCHANGED vars BY <1>5 DEF Totals, vars, Counts
<1>6. QED BY <1>1, <1>2, <1>3, <1>4, <1>5 DEF Next

\* The pairs of the totals are those of their cycles.
LEMMA TotalsPaired == Evaluated /\ Totals => PairsOfTheirCycles
<1> SUFFICES ASSUME Evaluated, Totals PROVE PairsOfTheirCycles OBVIOUS
<1> DEFINE c == actual
           s == simulated
           f == pairs
           n == Len(f)
           errors == [k \in DOMAIN f |-> Error(c[f[k][1]], s[f[k][2]])]
           near == {k \in DOMAIN f : Error(c[f[k][1]], s[f[k][2]]) <= CloseTarget}
           metrics == Metrics(c, s, f)
<1>1. Paired(f, c, s) /\ diagnosed \in Nat BY DEF Totals
<1>2. /\ n \in Nat /\ DOMAIN f = 1 .. n /\ Len(c) \in Nat /\ DOMAIN c = 1 .. Len(c)
      /\ Len(s) \in Nat /\ DOMAIN s = 1 .. Len(s) /\ Timed(c) /\ Timed(s)
  BY <1>1, SeqIndex DEF Paired
<1>3. /\ \A k \in 1 .. n : f[k] \in NearPairs(c, s, Len(c), Len(s))
      /\ \A k, l \in 1 .. n : k < l => f[k][1] < f[l][1] /\ f[k][2] < f[l][2]
  BY <1>1 DEF Paired
<1>4. /\ metrics.unmatchedActual = Len(c) - n /\ metrics.unmatchedSimulated = Len(s) - n
      /\ metrics.matched = n /\ metrics.cycles = Len(c)
      /\ f # <<>> => metrics.twiceMedian = <<TwiceMedian(errors)>>
  <2>1. /\ Cardinality({m[1] : m \in ToSet(f)}) = n
        /\ Cardinality({m[2] : m \in ToSet(f)}) = n
    BY <1>1, SidesCounted
  <2>2. QED BY <2>1 DEF Metrics
<1>5. ToSet(f) \in Matchings(c, s)
  <2>1. ToSet(f) \in SUBSET NearPairs(c, s, Len(c), Len(s)) /\ Ordered(ToSet(f))
    BY <1>2, <1>3, PairsOrdered
  <2>2. QED BY <1>2, <2>1, MatchingsAre
<1>6. errors \in [1 .. n -> Nat]
  <2>1. \A k \in 1 .. n : f[k][1] \in 1 .. Len(c) /\ f[k][2] \in 1 .. Len(s)
    BY <1>3 DEF NearPairs
  <2>2. ASSUME NEW k \in 1 .. n PROVE Error(c[f[k][1]], s[f[k][2]]) \in Nat
    <3>1. c[f[k][1]].closed \in Int /\ s[f[k][2]].closed \in Int
      BY <1>2, <2>1 DEF Timed
    <3>2. QED BY <3>1, ErrorNat
  <2>3. QED BY <1>2, <2>2
<1>7. CloseTarget \in Nat BY HistoryAssumption
<1>8. near = {k \in 1 .. n : errors[k] <= CloseTarget} BY <1>2
<1>9. IsFiniteSet(near) /\ Cardinality(near) \in Nat
  <2>1. IsFiniteSet(1 .. n) /\ near \in SUBSET (1 .. n) BY <1>2, FS_Interval
  <2>2. QED BY <2>1, FS_Subset, FS_CardinalityType
<1>10. ASSUME MeetsTargets(metrics)
       PROVE  10 * n >= 9 * Len(c) /\ 2 * Cardinality(near) >= n
  <2>1. /\ 100 * metrics.matched >= 90 * metrics.cycles /\ metrics.matched # 0
        /\ metrics.twiceMedian[1] <= 2 * CloseTarget
    BY <1>10 DEF MeetsTargets
  <2> HIDE DEF errors, near, metrics
  <2>2. 10 * n >= 9 * Len(c)
    <3>1. 100 * n >= 90 * Len(c) BY <1>4, <2>1
    <3>2. QED BY ONLY <1>2, <3>1
  <2>3. n # 0 BY <1>4, <2>1
  <2>4. f # <<>> BY <2>3, EmptySeq
  <2>5. TwiceMedian(errors) <= 2 * CloseTarget
    <3>1. metrics.twiceMedian = <<TwiceMedian(errors)>> BY <1>4, <2>4
    <3>2. metrics.twiceMedian[1] = TwiceMedian(errors) BY <3>1
    <3>3. QED BY <2>1, <3>2
  <2>6. 2 * Cardinality({k \in 1 .. n : errors[k] <= CloseTarget}) >= n
    BY <1>2, <1>6, <1>7, <2>3, <2>5, MedianHalf
  <2>7. QED BY <1>8, <2>2, <2>6
<1>11. \A k \in DOMAIN f : f[k] \in (DOMAIN c) \X (DOMAIN s)
  BY <1>2, <1>3 DEF NearPairs
<1>12. \A k \in 2 .. n : f[k - 1][1] < f[k][1]
  <2>1. \A k \in 2 .. n : k - 1 \in 1 .. n /\ k \in 1 .. n /\ k - 1 < k BY <1>2
  <2>2. QED BY <1>3, <2>1
<1> HIDE DEF metrics, errors, near
<1>13. /\ metrics.unmatchedActual + metrics.matched = Len(c)
       /\ metrics.unmatchedSimulated + metrics.matched = Len(s)
  BY <1>2, <1>4
<1>14. mode = "anchored" => diagnosed = metrics.unmatchedActual
  <2>1. SUFFICES ASSUME mode = "anchored" PROVE diagnosed = Len(c) - n BY <1>4
  <2>2. diagnosed + n = Len(c) /\ diagnosed \in Nat BY <1>1, <2>1 DEF Totals
  <2>3. n \in Nat /\ Len(c) \in Nat BY <1>2
  <2>4. QED BY ONLY <2>2, <2>3
<1>15. mode = "continuous" =>
         metrics.matched
           = MapThenSumSet(LAMBDA k : Len(evaluated[k].pairs), DOMAIN evaluated)
  <2>1. mode = "continuous" => n = SumFunction(Counts(evaluated)) BY DEF Totals
  <2>2. IsSeq(evaluated) BY DEF Evaluated
  <2>3. QED BY <1>4, <2>1, <2>2, CountsSum
<1>16. QED BY <1>5, <1>10, <1>11, <1>12, <1>13, <1>14, <1>15
  DEF PairsOfTheirCycles, metrics, near

\* Evaluated in either way, cycle by cycle or regime by regime, the pairs are
\* pairs of the cycles they name, near, in order and none twice; the counts of
\* _comparison_metrics add up, and a verdict that all targets are met is of nearly
\* all cycles (historical_validation.py, _validate_anchored, _validate_continuous).
THEOREM PairsAreOfTheirCycles == Spec => []PairsOfTheirCycles
<1>1. Init => Evaluated /\ Totals BY EvaluatedInit, TotalsInit
<1>2. Evaluated /\ Totals /\ [Next]_vars => (Evaluated /\ Totals)'
  BY EvaluatedStep, TotalsStep
<1>3. Evaluated /\ Totals => PairsOfTheirCycles BY TotalsPaired
<1>4. QED BY <1>1, <1>2, <1>3, PTL DEF Spec

-----------------------------------------------------------------------------
(* The same positions in another order *)

\* The order of keys is one of pairs of integers.
LEMMA BeforeOrders ==
  /\ \A a \in Int \X Int : ~ Before(a, a)
  /\ \A a, b \in Int \X Int : a # b => Before(a, b) \/ Before(b, a)
  /\ \A a, b, c \in Int \X Int : ~ Before(b, a) /\ Before(b, c) => Before(a, c)
  /\ \A a, b \in Int \X Int : Before(a, b) => ~ Before(b, a)
<1>1. \A a \in Int \X Int : a[1] \in Int /\ a[2] \in Int /\ a = <<a[1], a[2]>> OBVIOUS
<1>2. \A a \in Int \X Int : ~ Before(a, a) BY <1>1 DEF Before
<1>3. \A a, b \in Int \X Int : a # b => Before(a, b) \/ Before(b, a)
  <2>1. \A a, b \in Int \X Int : a # b => a[1] # b[1] \/ a[2] # b[2] BY <1>1
  <2>2. QED BY <1>1, <2>1 DEF Before
<1>4. \A a, b, c \in Int \X Int : ~ Before(b, a) /\ Before(b, c) => Before(a, c)
  BY <1>1 DEF Before
<1>5. \A a, b \in Int \X Int : Before(a, b) => ~ Before(b, a) BY <1>1 DEF Before
<1>6. QED BY <1>2, <1>3, <1>4, <1>5

\* The keys InOrder lists never fall, and no position is listed twice.
LEMMA InOrderRises ==
  ASSUME NEW I, NEW keys, Keyed(I, keys)
  PROVE  \A r, q \in 1 .. Cardinality(I) :
           r < q => /\ ~ Before(keys[InOrder(I, keys)[q]], keys[InOrder(I, keys)[r]])
                    /\ InOrder(I, keys)[r] # InOrder(I, keys)[q]
<1> DEFINE n == Cardinality(I)
           order == InOrder(I, keys)
<1>1. /\ order \in [1 .. n -> I]
      /\ \A r, q \in 1 .. n : r < q => Earlier(keys, order[r], order[q])
  BY InOrderSorts
<1>2. \A i \in I : ~ Earlier(keys, i, i) BY EarlierOrders
<1>3. \A i \in I : keys[i] \in Int \X Int BY DEF Keyed
<1> HIDE DEF order, n
<1>4. SUFFICES ASSUME NEW r \in 1 .. n, NEW q \in 1 .. n, r < q
               PROVE  ~ Before(keys[order[q]], keys[order[r]]) /\ order[r] # order[q]
  BY DEF order, n
<1>5. order[r] \in I /\ order[q] \in I /\ Earlier(keys, order[r], order[q])
  BY <1>1, <1>4
<1>6. order[r] # order[q] BY <1>2, <1>5
<1>7. \/ Before(keys[order[r]], keys[order[q]])
      \/ keys[order[r]] = keys[order[q]]
  BY <1>5 DEF Earlier
<1>8. QED BY <1>3, <1>5, <1>6, <1>7, BeforeOrders

\* If each position has one of its own with the same key among others, the key
\* listed at a place is not before the one listed there of the others.
LEMMA InOrderNotBefore ==
  ASSUME NEW I, NEW keys, Keyed(I, keys), NEW J, NEW others, Keyed(J, others),
         NEW move \in [I -> J], \A i, j \in I : i # j => move[i] # move[j],
         \A i \in I : others[move[i]] = keys[i],
         Cardinality(I) = Cardinality(J), NEW r \in 1 .. Cardinality(I)
  PROVE  ~ Before(keys[InOrder(I, keys)[r]], others[InOrder(J, others)[r]])
<1> DEFINE n == Cardinality(I)
           order == InOrder(I, keys)
           other == InOrder(J, others)
           v == keys[order[r]]
           w == others[other[r]]
<1>1. order \in [1 .. n -> I] BY InOrderSorts
<1>2. /\ other \in [1 .. n -> J] /\ \A j \in J : \E t \in 1 .. n : other[t] = j
  BY InOrderSorts
<1>3. \A p, q \in 1 .. n :
        p < q => ~ Before(keys[order[q]], keys[order[p]]) /\ order[p] # order[q]
  BY InOrderRises
<1>4. \A p, q \in 1 .. n : p < q => ~ Before(others[other[q]], others[other[p]])
  BY InOrderRises
<1>5. n \in Nat BY FS_CardinalityType DEF Keyed
<1>6. \A i \in I : keys[i] \in Int \X Int BY DEF Keyed
<1>7. \A j \in J : others[j] \in Int \X Int BY DEF Keyed
<1> HIDE DEF order, other, n
<1>8. SUFFICES ASSUME Before(v, w) PROVE FALSE BY DEF order, other
<1>9. r \in 1 .. n /\ r \in Nat BY <1>5 DEF n
<1>10. ASSUME NEW q \in 1 .. r
      PROVE  \E t \in 1 .. r - 1 : other[t] = move[order[q]]
  <2>1. q \in 1 .. n /\ q \in Nat /\ q <= r BY <1>5, <1>9
  <2>2. order[q] \in I /\ move[order[q]] \in J /\ order[r] \in I /\ other[r] \in J
    BY <1>1, <1>2, <1>9, <2>1
  <2>3. PICK t \in 1 .. n : other[t] = move[order[q]] BY <1>2, <2>2
  <2>4. others[other[t]] = keys[order[q]] BY <2>2, <2>3
  <2>5. ~ Before(v, keys[order[q]])
    <3>1. CASE q = r BY <1>6, <2>2, <3>1, BeforeOrders
    <3>2. CASE q < r BY <1>3, <1>9, <2>1, <3>2
    <3>3. QED BY <1>9, <2>1, <3>1, <3>2
  <2>6. v \in Int \X Int /\ w \in Int \X Int /\ keys[order[q]] \in Int \X Int
    BY <1>6, <1>7, <2>2
  <2>7. Before(keys[order[q]], w) BY <1>8, <2>5, <2>6, BeforeOrders
  <2>8. t # r BY <2>4, <2>6, <2>7, BeforeOrders
  <2>9. ~ (r < t) BY <1>4, <1>9, <2>4, <2>7
  <2>10. t \in 1 .. r - 1 BY <1>5, <1>9, <2>8, <2>9
  <2>11. QED BY <2>3, <2>10
<1> DEFINE h == [q \in 1 .. r |-> CHOOSE t \in 1 .. r - 1 : other[t] = move[order[q]]]
<1>11. \A q \in 1 .. r : h[q] \in 1 .. r - 1 /\ other[h[q]] = move[order[q]] BY <1>10
<1>12. h \in [1 .. r -> 1 .. r - 1] BY <1>10
<1> HIDE DEF h
<1>13. /\ IsFiniteSet(1 .. r) /\ Cardinality(1 .. r) = r
       /\ IsFiniteSet(1 .. r - 1) /\ Cardinality(1 .. r - 1) = r - 1
  <2>1. IsFiniteSet(1 .. r) /\ Cardinality(1 .. r) = IF 1 > r THEN 0 ELSE r - 1 + 1
    BY <1>9, FS_Interval
  <2>2. /\ IsFiniteSet(1 .. r - 1)
        /\ Cardinality(1 .. r - 1) = IF 1 > r - 1 THEN 0 ELSE (r - 1) - 1 + 1
    <3> DEFINE s == r - 1
    <3>1. s \in Int /\ 1 \in Int BY <1>9
    <3> HIDE DEF s
    <3>2. IsFiniteSet(1 .. s) /\ Cardinality(1 .. s) = IF 1 > s THEN 0 ELSE s - 1 + 1
      BY <3>1, FS_Interval
    <3>3. QED BY <3>2 DEF s
  <2>3. r >= 1 BY <1>5, <1>9
  <2>4. QED BY <1>9, <2>1, <2>2, <2>3
<1>14. PICK p \in 1 .. r, q \in 1 .. r : p # q /\ h[p] = h[q]
  <2> DEFINE A == 1 .. r
             B == 1 .. r - 1
  <2>1. /\ IsFiniteSet(A) /\ IsFiniteSet(B) /\ Cardinality(B) < Cardinality(A)
        /\ h \in [A -> B]
    BY <1>9, <1>12, <1>13
  <2> HIDE DEF A, B
  <2>2. \E p, q \in A : p # q /\ h[p] = h[q] BY ONLY <2>1, FS_PigeonHole
  <2>3. QED BY <2>2 DEF A
<1>15. move[order[p]] = move[order[q]] BY <1>11, <1>14
<1>16. p \in 1 .. n /\ q \in 1 .. n BY <1>5, <1>9
<1>17. order[p] \in I /\ order[q] \in I BY <1>1, <1>16
<1>18. order[p] = order[q] BY <1>15, <1>17
<1>19. p < q \/ q < p BY <1>14
<1>20. QED BY <1>3, <1>16, <1>18, <1>19

\* Positions moved are listed with the same keys.
LEMMA InOrderMoved ==
  ASSUME NEW I, NEW keys, Keyed(I, keys), NEW J, NEW others, Keyed(J, others),
         NEW move \in [I -> J], NEW back \in [J -> I],
         \A i \in I : back[move[i]] = i, \A j \in J : move[back[j]] = j,
         \A i \in I : others[move[i]] = keys[i]
  PROVE  /\ Cardinality(I) = Cardinality(J)
         /\ \A r \in 1 .. Cardinality(I) :
              keys[InOrder(I, keys)[r]] = others[InOrder(J, others)[r]]
<1>1. Cardinality(I) = Cardinality(J)
  <2>1. move \in Bijection(I, J)
    BY DEF Bijection, Injection, Surjection, IsInjective
  <2>2. ExistsBijection(I, J) BY <2>1 DEF ExistsBijection
  <2>3. IsFiniteSet(I) BY DEF Keyed
  <2>4. QED BY <2>2, <2>3, FS_Bijection
<1>2. ASSUME NEW r \in 1 .. Cardinality(I)
      PROVE  keys[InOrder(I, keys)[r]] = others[InOrder(J, others)[r]]
  <2>1. \A i, j \in I : i # j => move[i] # move[j]
    <3>1. \A i, j \in I : move[i] = move[j] => back[move[i]] = back[move[j]] OBVIOUS
    <3>2. QED BY <3>1
  <2>2. \A i, j \in J : i # j => back[i] # back[j]
    <3>1. \A i, j \in J : back[i] = back[j] => move[back[i]] = move[back[j]] OBVIOUS
    <3>2. QED BY <3>1
  <2>3. \A j \in J : keys[back[j]] = others[j] OBVIOUS
  <2>4. ~ Before(keys[InOrder(I, keys)[r]], others[InOrder(J, others)[r]])
    BY <1>1, <2>1, InOrderNotBefore
  <2>5. ~ Before(others[InOrder(J, others)[r]], keys[InOrder(I, keys)[r]])
    BY <1>1, <2>2, <2>3, InOrderNotBefore
  <2>6. InOrder(I, keys)[r] \in I /\ InOrder(J, others)[r] \in J
    <3>1. InOrder(I, keys) \in [1 .. Cardinality(I) -> I] BY InOrderSorts
    <3>2. InOrder(J, others) \in [1 .. Cardinality(J) -> J] BY InOrderSorts
    <3>3. QED BY <1>1, <3>1, <3>2
  <2>7. /\ keys[InOrder(I, keys)[r]] \in Int \X Int
        /\ others[InOrder(J, others)[r]] \in Int \X Int
    BY <2>6 DEF Keyed
  <2>8. QED BY <2>4, <2>5, <2>7, BeforeOrders
<1>3. QED BY <1>1, <1>2

-----------------------------------------------------------------------------
(* The groups of a bucket *)

\* The groups a row fits.
FitsOf(row, state) == {k \in DOMAIN state : \A x \in ToSet(state[k]) : Within(row, x)}

\* The groups of the rows of a: each row is in one, rows of a group are within
\* both tolerances of each other, those of two groups are not, and the same close
\* is not in two.
Settled(state, a) ==
  /\ \A k \in DOMAIN state : ToSet(state[k]) \subseteq a
  /\ \A x \in a : \E k \in DOMAIN state : x \in ToSet(state[k])
  /\ \A k \in DOMAIN state : \A x, y \in ToSet(state[k]) : Within(x, y)
  /\ \A k, l \in DOMAIN state :
       k # l => \E x \in ToSet(state[k]), y \in ToSet(state[l]) : ~ Within(x, y)
  /\ \A k, l \in DOMAIN state : \A x \in ToSet(state[k]), y \in ToSet(state[l]) :
       Close(x) = Close(y) => k = l

\* The tolerances are of the closes alone, and go both ways.
LEMMA WithinCloses ==
  /\ \A x \in ExportRows : Within(x, x)
  /\ \A x, y \in ExportRows : Within(x, y) => Within(y, x)
  /\ \A x, y, z : Close(x) = Close(y) => /\ Within(x, z) <=> Within(y, z)
                                         /\ Within(z, x) <=> Within(z, y)
<1>1. \A x \in ExportRows : x.closed \in Int /\ x.price \in Int BY HistoryAssumption
<1>2. TimeTolerance \in Nat /\ PriceTolerance \in Nat BY TraderExportAssumption
<1>3. \A a \in Int : Apart(a, a) = 0 BY DEF Apart
<1>4. \A a, b \in Int : Apart(a, b) = Apart(b, a) BY DEF Apart
<1>5. \A x \in ExportRows : Within(x, x) BY <1>1, <1>2, <1>3 DEF Within
<1>6. \A x, y \in ExportRows : Within(x, y) => Within(y, x) BY <1>1, <1>4 DEF Within
<1>7. \A x, y : Close(x) = Close(y) => x.closed = y.closed /\ x.price = y.price
  BY DEF Close
<1>8. \A x, y, z : Close(x) = Close(y) => /\ Within(x, z) <=> Within(y, z)
                                          /\ Within(z, x) <=> Within(z, y)
  BY <1>7 DEF Within
<1>9. QED BY <1>5, <1>6, <1>8

\* What placing a row does: it joins the one group it fits, or is one of its own.
LEMMA PlaceJoins ==
  ASSUME NEW state \in Seq(GroupSet), NEW row \in ExportRows
  PROVE  LET n == Len(state)
             next == Place(state, row)
         IN \/ next = Ambiguous /\ ~ \E k : FitsOf(row, state) \subseteq {k}
            \/ /\ next \in Seq(GroupSet) /\ Len(next) = n + 1 /\ FitsOf(row, state) = {}
               /\ \A k \in 1 .. n : next[k] = state[k]
               /\ ToSet(next[n + 1]) = {row}
            \/ \E i \in 1 .. n :
                 /\ next \in Seq(GroupSet) /\ Len(next) = n /\ FitsOf(row, state) = {i}
                 /\ \A k \in 1 .. n : k # i => next[k] = state[k]
                 /\ ToSet(next[i]) = ToSet(state[i]) \union {row}
<1> DEFINE n == Len(state)
           next == Place(state, row)
           C == {i \in DOMAIN state : Fits(row, state[i])}
           x == CHOOSE i \in C : TRUE
<1>1. n \in Nat /\ DOMAIN state = 1 .. n /\ \A k \in 1 .. n : state[k] \in GroupSet
  OBVIOUS
<1>2. state # Ambiguous BY AmbiguousApart
<1>3. FitsOf(row, state) = C
  <2>1. \A k \in DOMAIN state :
          Fits(row, state[k]) <=> \A y \in ToSet(state[k]) : Within(row, y)
    BY DEF Fits, ToSet
  <2>2. QED BY <2>1 DEF FitsOf
<1>4. IsFiniteSet(C) /\ Cardinality(C) \in Nat
  <2>1. IsFiniteSet(1 .. n) /\ C \in SUBSET (1 .. n) BY <1>1, FS_Interval
  <2> HIDE DEF C
  <2>2. QED BY <2>1, FS_Subset, FS_CardinalityType
<1>5. CASE Cardinality(C) > 1
  <2>1. next = Ambiguous BY <1>5 DEF Place
  <2>2. ASSUME NEW k, C \subseteq {k} PROVE FALSE
    <3> HIDE DEF C
    <3>1. IsFiniteSet({k}) /\ Cardinality({k}) = 1 BY FS_Singleton
    <3>2. Cardinality(C) <= Cardinality({k}) BY <2>2, <3>1, FS_Subset
    <3>3. QED BY <1>4, <1>5, <3>1, <3>2
  <2>3. QED BY <1>3, <2>1, <2>2
<1>6. CASE ~ (Cardinality(C) > 1) /\ C = {}
  <2> DEFINE g == <<row>>
  <2>1. next = Append(state, g) BY <1>2, <1>6 DEF Place
  <2>2. g \in GroupSet /\ ToSet(g) = {row}
    <3>1. g \in Seq(ExportRows) /\ g # <<>> OBVIOUS
    <3>2. DOMAIN g = {1} /\ g[1] = row OBVIOUS
    <3>3. QED BY <3>1, <3>2 DEF GroupSet, ToSet
  <2> HIDE DEF g
  <2>3. /\ next \in Seq(GroupSet) /\ Len(next) = n + 1 /\ next[n + 1] = g
        /\ \A k \in 1 .. n : next[k] = state[k]
    BY <2>1, <2>2, AppendProperties
  <2>4. QED BY <1>3, <1>6, <2>2, <2>3
<1>7. CASE ~ (Cardinality(C) > 1) /\ C # {}
  <2> DEFINE g == state[x]
             h == Append(g, row)
             d == [state EXCEPT ![x] = h]
  <2>1. next = d BY <1>2, <1>7 DEF Place
  <2>2. x \in C /\ x \in 1 .. n BY <1>1, <1>7
  <2>3. C = {x}
    <3> HIDE DEF x
    <3>1. Cardinality(C) # 0 BY <1>4, <1>7, FS_EmptySet
    <3>2. Cardinality(C) = 1 BY <1>4, <1>7, <3>1
    <3> HIDE DEF C
    <3>3. PICK y : C = {y} BY <1>4, <3>2, FS_Singleton
    <3>4. QED BY <2>2, <3>3
  <2>4. g \in Seq(ExportRows) BY <1>1, <2>2 DEF GroupSet
  <2> HIDE DEF x, g
  <2>5. /\ h \in Seq(ExportRows) /\ h # <<>> /\ Len(h) = Len(g) + 1 /\ h[Len(g) + 1] = row
        /\ \A i \in 1 .. Len(g) : h[i] = g[i]
    BY <2>4, AppendProperties
  <2>6. h \in GroupSet BY <2>5 DEF GroupSet
  <2>7. ToSet(h) = ToSet(g) \union {row}
    <3>1. DOMAIN g = 1 .. Len(g) /\ DOMAIN h = 1 .. Len(g) + 1 /\ Len(g) \in Nat
      BY <2>4, <2>5
    <3>2. \A i \in 1 .. Len(g) + 1 : i \in 1 .. Len(g) \/ i = Len(g) + 1 BY <3>1
    <3>3. \A i \in 1 .. Len(g) : i \in 1 .. Len(g) + 1 BY <3>1
    <3>4. Len(g) + 1 \in 1 .. Len(g) + 1 BY <3>1
    <3> HIDE DEF h
    <3>5. QED BY <2>5, <3>1, <3>2, <3>3, <3>4 DEF ToSet
  <2> HIDE DEF h, C
  <2>8. d \in [1 .. n -> GroupSet] BY <1>1, <2>6
  <2>9. d[x] = h /\ \A k \in 1 .. n : k # x => d[k] = state[k] BY <1>1, <2>2
  <2> HIDE DEF d
  <2>10. d \in Seq(GroupSet) /\ Len(d) = n
    <3>1. d \in Seq(GroupSet) BY <1>1, <2>8, SeqDef
    <3>2. Len(d) = n BY <1>1, <2>8, SeqOfFunction
    <3>3. QED BY <3>1, <3>2
  <2>11. QED BY <1>3, <2>1, <2>2, <2>3, <2>7, <2>9, <2>10 DEF g
<1>8. QED BY <1>5, <1>6, <1>7

\* No group of rows has rows other than those of the export.
LEMMA GroupRows ==
  ASSUME NEW state \in Seq(GroupSet), NEW k \in 1 .. Len(state)
  PROVE  ToSet(state[k]) \subseteq ExportRows
<1> DEFINE g == state[k]
<1>1. g \in Seq(ExportRows) BY DEF GroupSet
<1> HIDE DEF g
<1>2. ToSet(g) \subseteq ExportRows BY <1>1 DEF ToSet
<1>3. QED BY <1>2 DEF g

\* A row placed leaves the groups settled.
LEMMA PlaceSettles ==
  ASSUME NEW state \in Seq(GroupSet), NEW a, Settled(state, a),
         NEW row \in ExportRows, Place(state, row) # Ambiguous
  PROVE  Settled(Place(state, row), a \union {row})
<1> DEFINE n == Len(state)
           next == Place(state, row)
           G(k) == ToSet(state[k])
           H(k) == ToSet(next[k])
           b == a \union {row}
<1>1. n \in Nat /\ DOMAIN state = 1 .. n BY DEF GroupSet
<1>2. \A k \in 1 .. n : G(k) \subseteq ExportRows BY GroupRows
<1>3. /\ \A k \in 1 .. n : G(k) \subseteq a
      /\ \A x \in a : \E k \in 1 .. n : x \in G(k)
      /\ \A k \in 1 .. n : \A x, y \in G(k) : Within(x, y)
      /\ \A k, l \in 1 .. n : k # l => \E x \in G(k), y \in G(l) : ~ Within(x, y)
      /\ \A k, l \in 1 .. n : \A x \in G(k), y \in G(l) : Close(x) = Close(y) => k = l
  BY <1>1 DEF Settled
<1>4. \A k \in 1 .. n : k \in FitsOf(row, state) <=> \A x \in G(k) : Within(row, x)
  BY <1>1 DEF FitsOf
<1>5. \A k \in 1 .. n : \A y \in G(k) : Close(row) = Close(y) => k \in FitsOf(row, state)
  <2>1. ASSUME NEW k \in 1 .. n, NEW y \in G(k), Close(row) = Close(y)
        PROVE  k \in FitsOf(row, state)
    <3>1. \A x \in G(k) : Within(y, x) BY <1>3
    <3>2. \A x \in G(k) : Within(row, x) BY <2>1, <3>1, WithinCloses
    <3>3. QED BY <1>4, <3>2
  <2>2. QED BY <2>1
<1>6. SUFFICES
        /\ \A k \in DOMAIN next : H(k) \subseteq b
        /\ \A x \in b : \E k \in DOMAIN next : x \in H(k)
        /\ \A k \in DOMAIN next : \A x, y \in H(k) : Within(x, y)
        /\ \A k, l \in DOMAIN next : k # l => \E x \in H(k), y \in H(l) : ~ Within(x, y)
        /\ \A k, l \in DOMAIN next :
             \A x \in H(k), y \in H(l) : Close(x) = Close(y) => k = l
  BY DEF Settled
<1>7. \/ /\ next \in Seq(GroupSet) /\ Len(next) = n + 1 /\ FitsOf(row, state) = {}
         /\ \A k \in 1 .. n : next[k] = state[k]
         /\ ToSet(next[n + 1]) = {row}
      \/ \E i \in 1 .. n :
           /\ next \in Seq(GroupSet) /\ Len(next) = n /\ FitsOf(row, state) = {i}
           /\ \A k \in 1 .. n : k # i => next[k] = state[k]
           /\ ToSet(next[i]) = ToSet(state[i]) \union {row}
  BY PlaceJoins
<1>8. Within(row, row) BY WithinCloses
<1>9. CASE /\ next \in Seq(GroupSet) /\ Len(next) = n + 1 /\ FitsOf(row, state) = {}
           /\ \A k \in 1 .. n : next[k] = state[k]
           /\ ToSet(next[n + 1]) = {row}
  <2>1. DOMAIN next = 1 .. n + 1 BY <1>9
  <2>2. \A k \in 1 .. n : H(k) = G(k) BY <1>9
  <2>3. H(n + 1) = {row} BY <1>9
  <2>4. /\ \A k \in 1 .. n + 1 : k \in 1 .. n \/ k = n + 1
        /\ \A k \in 1 .. n : k \in 1 .. n + 1 /\ k # n + 1
        /\ n + 1 \in 1 .. n + 1
    BY <1>1
  <2>5. \A k \in 1 .. n : \E x \in G(k) : ~ Within(row, x) /\ ~ Within(x, row)
    <3>1. \A k \in 1 .. n : \E x \in G(k) : ~ Within(row, x) BY <1>4, <1>9
    <3>2. QED BY <1>2, <3>1, WithinCloses
  <2>6. \A k \in 1 .. n : \A y \in G(k) : Close(row) # Close(y) BY <1>5, <1>9
  <2> DEFINE N == n + 1
  <2> HIDE DEF next, G, H, n, N
  <2>7. \A k \in 1 .. N : \/ k \in 1 .. n /\ H(k) = G(k)
                          \/ k = N /\ H(k) = {row}
    BY <2>2, <2>3, <2>4 DEF N
  <2>8. \A k \in 1 .. n : k \in 1 .. N /\ H(k) = G(k) BY <2>2, <2>4 DEF N
  <2>9. N \in 1 .. N /\ H(N) = {row} BY <2>3, <2>4 DEF N
  <2>10. \A k \in 1 .. N : H(k) \subseteq b BY <1>3, <2>7
  <2>11. \A x \in b : \E k \in 1 .. N : x \in H(k) BY <1>3, <2>8, <2>9
  <2>12. \A k \in 1 .. N : \A x, y \in H(k) : Within(x, y) BY <1>3, <1>8, <2>7
  <2>13. \A k, l \in 1 .. N : k # l => \E x \in H(k), y \in H(l) : ~ Within(x, y)
    <3>1. ASSUME NEW k \in 1 .. N, NEW l \in 1 .. N, k # l
          PROVE  \E x \in H(k), y \in H(l) : ~ Within(x, y)
      <4>1. CASE k \in 1 .. n /\ H(k) = G(k) /\ l \in 1 .. n /\ H(l) = G(l)
        BY <1>3, <3>1, <4>1
      <4>2. CASE k = N /\ H(k) = {row} /\ l \in 1 .. n /\ H(l) = G(l) BY <2>5, <4>2
      <4>3. CASE k \in 1 .. n /\ H(k) = G(k) /\ l = N /\ H(l) = {row} BY <2>5, <4>3
      <4>4. QED BY <2>7, <3>1, <4>1, <4>2, <4>3
    <3>2. QED BY <3>1
  <2>14. \A k, l \in 1 .. N : \A x \in H(k), y \in H(l) : Close(x) = Close(y) => k = l
    BY <1>3, <2>6, <2>7
  <2>15. QED BY <2>1, <2>10, <2>11, <2>12, <2>13, <2>14 DEF N
<1>10. ASSUME NEW i \in 1 .. n,
              /\ next \in Seq(GroupSet) /\ Len(next) = n /\ FitsOf(row, state) = {i}
              /\ \A k \in 1 .. n : k # i => next[k] = state[k]
              /\ ToSet(next[i]) = ToSet(state[i]) \union {row}
       PROVE  /\ \A k \in DOMAIN next : H(k) \subseteq b
              /\ \A x \in b : \E k \in DOMAIN next : x \in H(k)
              /\ \A k \in DOMAIN next : \A x, y \in H(k) : Within(x, y)
              /\ \A k, l \in DOMAIN next :
                   k # l => \E x \in H(k), y \in H(l) : ~ Within(x, y)
              /\ \A k, l \in DOMAIN next :
                   \A x \in H(k), y \in H(l) : Close(x) = Close(y) => k = l
  <2>1. DOMAIN next = 1 .. n BY <1>10
  <2>2. \A k \in 1 .. n : k # i => H(k) = G(k) BY <1>10
  <2>3. H(i) = G(i) \union {row} BY <1>10
  <2>4. \A k \in 1 .. n : G(k) \subseteq H(k) BY <2>2, <2>3
  <2>5. \A x \in G(i) : Within(row, x) /\ Within(x, row)
    <3>1. i \in FitsOf(row, state) BY <1>10
    <3>2. \A x \in G(i) : Within(row, x) BY <1>4, <3>1
    <3>3. QED BY <1>2, <3>2, WithinCloses
  <2>6. \A k \in 1 .. n : \A y \in G(k) : Close(row) = Close(y) => k = i BY <1>5, <1>10
  <2> HIDE DEF next, G, H, n
  <2>7. \A k \in 1 .. n : \/ H(k) = G(k)
                          \/ k = i /\ H(k) = G(k) \union {row}
    BY <2>2, <2>3
  <2>8. \A k \in 1 .. n : H(k) \subseteq b BY <1>3, <2>7
  <2>9. \A x \in b : \E k \in 1 .. n : x \in H(k) BY <1>3, <2>3, <2>4
  <2>10. \A k \in 1 .. n : \A x, y \in H(k) : Within(x, y) BY <1>3, <1>8, <2>5, <2>7
  <2>11. \A k, l \in 1 .. n : k # l => \E x \in H(k), y \in H(l) : ~ Within(x, y)
    BY <1>3, <2>4
  <2>12. \A k, l \in 1 .. n : \A x \in H(k), y \in H(l) : Close(x) = Close(y) => k = l
    BY <1>3, <2>6, <2>7
  <2>13. QED BY <2>1, <2>8, <2>9, <2>10, <2>11, <2>12
<1>11. QED BY <1>6, <1>7, <1>9, <1>10

\* The closes of a group.
Closes(group) == {Close(x) : x \in ToSet(group)}

\* Groups of the same closes, or none clear.
Alike(a, b) ==
  /\ a = Ambiguous <=> b = Ambiguous
  /\ a # Ambiguous => /\ Len(a) = Len(b)
                      /\ \A k \in 1 .. Len(a) : Closes(a[k]) = Closes(b[k])

\* A row fits the same groups as another with the same close.
LEMMA FitsAlike ==
  ASSUME NEW a \in Seq(GroupSet), NEW b \in Seq(GroupSet), Len(a) = Len(b),
         \A k \in 1 .. Len(a) : Closes(a[k]) = Closes(b[k]),
         NEW x, NEW y, Close(x) = Close(y)
  PROVE  FitsOf(x, a) \subseteq FitsOf(y, b)
<1>1. DOMAIN a = 1 .. Len(a) /\ DOMAIN b = 1 .. Len(a) OBVIOUS
<1>2. SUFFICES ASSUME NEW k \in FitsOf(x, a) PROVE k \in FitsOf(y, b) OBVIOUS
<1>3. k \in 1 .. Len(a) /\ \A w \in ToSet(a[k]) : Within(x, w) BY <1>1, <1>2 DEF FitsOf
<1>4. ASSUME NEW z \in ToSet(b[k]) PROVE Within(y, z)
  <2>1. Close(z) \in Closes(a[k]) BY <1>3 DEF Closes
  <2>2. PICK w \in ToSet(a[k]) : Close(w) = Close(z) BY <2>1 DEF Closes
  <2>3. Within(x, w) BY <1>3, <2>2
  <2>4. Within(x, z) BY <2>2, <2>3, WithinCloses
  <2>5. QED BY <2>4, WithinCloses
<1>5. QED BY <1>1, <1>3, <1>4 DEF FitsOf

\* Nothing more is placed once the grouping is not clear.
LEMMA PlaceUnclear == \A row : Place(Ambiguous, row) = Ambiguous
BY DEF Place

\* Rows of the same close make groups of the same closes.
LEMMA PlaceAlike ==
  ASSUME NEW a \in ComponentsSet, NEW b \in ComponentsSet, Alike(a, b),
         NEW x \in ExportRows, NEW y \in ExportRows, Close(x) = Close(y)
  PROVE  Alike(Place(a, x), Place(b, y))
<1>1. CASE a = Ambiguous
  <2>1. Place(a, x) = Ambiguous /\ Place(b, y) = Ambiguous
    BY <1>1, PlaceUnclear DEF Alike
  <2>2. QED BY <2>1 DEF Alike
<1>2. CASE a # Ambiguous
  <2> DEFINE n == Len(a)
             c == Place(a, x)
             d == Place(b, y)
             F == FitsOf(x, a)
  <2>1. /\ a \in Seq(GroupSet) /\ b \in Seq(GroupSet) /\ Len(b) = n
        /\ \A k \in 1 .. n : Closes(a[k]) = Closes(b[k])
    BY <1>2 DEF Alike, ComponentsSet
  <2>2. n \in Nat BY <2>1
  <2>3. FitsOf(y, b) = F
    <3>1. F \subseteq FitsOf(y, b) BY <2>1, FitsAlike
    <3>2. FitsOf(y, b) \subseteq F BY <2>1, FitsAlike
    <3>3. QED BY <3>1, <3>2
  <2>4. \/ c = Ambiguous /\ ~ \E k : F \subseteq {k}
        \/ /\ c \in Seq(GroupSet) /\ Len(c) = n + 1 /\ F = {}
           /\ \A k \in 1 .. n : c[k] = a[k]
           /\ ToSet(c[n + 1]) = {x}
        \/ \E i \in 1 .. n :
             /\ c \in Seq(GroupSet) /\ Len(c) = n /\ F = {i}
             /\ \A k \in 1 .. n : k # i => c[k] = a[k]
             /\ ToSet(c[i]) = ToSet(a[i]) \union {x}
    BY <2>1, PlaceJoins
  <2>5. \/ d = Ambiguous /\ ~ \E k : F \subseteq {k}
        \/ /\ d \in Seq(GroupSet) /\ Len(d) = n + 1 /\ F = {}
           /\ \A k \in 1 .. n : d[k] = b[k]
           /\ ToSet(d[n + 1]) = {y}
        \/ \E i \in 1 .. n :
             /\ d \in Seq(GroupSet) /\ Len(d) = n /\ F = {i}
             /\ \A k \in 1 .. n : k # i => d[k] = b[k]
             /\ ToSet(d[i]) = ToSet(b[i]) \union {y}
    <3>1. LET m == Len(b) IN
          \/ d = Ambiguous /\ ~ \E k : FitsOf(y, b) \subseteq {k}
          \/ /\ d \in Seq(GroupSet) /\ Len(d) = m + 1 /\ FitsOf(y, b) = {}
             /\ \A k \in 1 .. m : d[k] = b[k]
             /\ ToSet(d[m + 1]) = {y}
          \/ \E i \in 1 .. m :
               /\ d \in Seq(GroupSet) /\ Len(d) = m /\ FitsOf(y, b) = {i}
               /\ \A k \in 1 .. m : k # i => d[k] = b[k]
               /\ ToSet(d[i]) = ToSet(b[i]) \union {y}
      BY <2>1, PlaceJoins
    <3> HIDE DEF d, F
    <3>2. QED BY <2>1, <2>3, <3>1
  <2> HIDE DEF c, d, F, n
  <2>6. CASE ~ \E k : F \subseteq {k}
    <3>1. F # {} /\ \A i : F # {i} BY <2>6
    <3>2. c = Ambiguous BY <2>4, <3>1
    <3>3. d = Ambiguous BY <2>5, <3>1
    <3>4. QED BY <3>2, <3>3 DEF Alike, c, d
  <2>7. CASE F = {}
    <3>1. F \subseteq {0} /\ \A i : F # {i} BY <2>7
    <3>2. c \in Seq(GroupSet) /\ Len(c) = n + 1 BY <2>4, <3>1
    <3>3. ToSet(c[n + 1]) = {x} /\ \A k \in 1 .. n : c[k] = a[k] BY <2>4, <3>1
    <3>4. d \in Seq(GroupSet) /\ Len(d) = n + 1 BY <2>5, <3>1
    <3>5. ToSet(d[n + 1]) = {y} /\ \A k \in 1 .. n : d[k] = b[k] BY <2>5, <3>1
    <3>6. c # Ambiguous /\ d # Ambiguous BY <3>2, <3>4, AmbiguousApart
    <3>7. Closes(c[n + 1]) = Closes(d[n + 1]) BY <3>3, <3>5 DEF Closes
    <3>8. \A k \in 1 .. n : Closes(c[k]) = Closes(d[k]) BY <2>1, <3>3, <3>5
    <3>9. \A k \in 1 .. n + 1 : k \in 1 .. n \/ k = n + 1 BY <2>2
    <3>10. QED BY <3>2, <3>4, <3>6, <3>7, <3>8, <3>9 DEF Alike, c, d
  <2>8. ASSUME NEW i, F = {i} PROVE Alike(c, d)
    <3>1. F \subseteq {i} /\ F # {} /\ \A j : F = {j} => j = i BY <2>8
    <3>2. /\ c \in Seq(GroupSet) /\ Len(c) = n /\ i \in 1 .. n
          /\ \A k \in 1 .. n : k # i => c[k] = a[k]
      BY <2>4, <3>1
    <3>3. ToSet(c[i]) = ToSet(a[i]) \union {x} BY <2>4, <3>1
    <3>4. /\ d \in Seq(GroupSet) /\ Len(d) = n
          /\ \A k \in 1 .. n : k # i => d[k] = b[k]
      BY <2>5, <3>1
    <3>5. ToSet(d[i]) = ToSet(b[i]) \union {y} BY <2>5, <3>1
    <3>6. c # Ambiguous /\ d # Ambiguous BY <3>2, <3>4, AmbiguousApart
    <3>7. Closes(c[i]) = Closes(a[i]) \union {Close(x)} BY <3>3 DEF Closes
    <3>8. Closes(d[i]) = Closes(b[i]) \union {Close(y)} BY <3>5 DEF Closes
    <3>9. Closes(c[i]) = Closes(d[i]) BY <2>1, <3>2, <3>7, <3>8
    <3>10. \A k \in 1 .. n : Closes(c[k]) = Closes(d[k]) BY <2>1, <3>2, <3>4, <3>9
    <3>11. QED BY <3>2, <3>4, <3>6, <3>10 DEF Alike
  <2>9. F = {} \/ (\E i : F = {i}) \/ ~ \E k : F \subseteq {k} OBVIOUS
  <2>10. QED BY <2>6, <2>7, <2>8, <2>9 DEF c, d
<1>3. QED BY <1>1, <1>2

\* Rows in an order make groups that are settled.
LEMMA RunSettles ==
  ASSUME NEW n \in Nat, NEW f, \A r \in 1 .. n : f[r] \in ExportRows,
         NEW h, IsRun(h, "place", 0, <<>>, f, n)
  PROVE  /\ \A k \in 0 .. n : h[k] \in ComponentsSet
         /\ h[n] # Ambiguous => Settled(h[n], {f[r] : r \in 1 .. n})
<1> DEFINE S(k) == {f[r] : r \in 1 .. k}
           A == {k \in 0 .. n : /\ \A j \in 0 .. k : h[j] \in ComponentsSet
                                /\ h[k] # Ambiguous => Settled(h[k], S(k))}
           none == <<>>
<1>1. 0 \in A
  <2>1. h[0] = none /\ none \in Seq(GroupSet) /\ DOMAIN none = {} /\ S(0) = {}
    BY EmptySeq DEF IsRun
  <2> HIDE DEF none
  <2>2. Settled(h[0], S(0)) BY <2>1 DEF Settled
  <2>3. h[0] \in ComponentsSet BY <2>1 DEF ComponentsSet
  <2>4. \A j \in 0 .. 0 : j = 0 OBVIOUS
  <2>5. 0 \in 0 .. n OBVIOUS
  <2> HIDE DEF S
  <2>6. QED BY <2>2, <2>3, <2>4, <2>5
<1>2. ASSUME NEW k \in 1 .. n, k - 1 \in A PROVE k \in A
  <2> DEFINE j == k - 1
  <2>1. /\ \A m \in 0 .. j : h[m] \in ComponentsSet
        /\ h[j] # Ambiguous => Settled(h[j], S(j))
    BY <1>2
  <2>2. \A r \in 1 .. j : r \in 1 .. k OBVIOUS
  <2>3. k \in 0 .. n /\ j \in 0 .. j /\ k \in 1 .. k OBVIOUS
  <2>4. \A m \in 0 .. k : m \in 0 .. j \/ m = k OBVIOUS
  <2>5. \A r \in 1 .. k : r \in 1 .. j \/ r = k OBVIOUS
  <2>6. h[k] = Place(h[j], f[k])
    <3>1. h[k] = Step("place", 0, h[k - 1], f[k]) BY DEF IsRun
    <3>2. QED BY <3>1 DEF Step
  <2>7. S(k) = S(j) \union {f[k]}
    <3> HIDE DEF j
    <3>1. QED BY <2>2, <2>3, <2>5
  <2> HIDE DEF S, j
  <2>8. h[j] \in ComponentsSet /\ f[k] \in ExportRows BY <2>1, <2>3
  <2>9. h[k] \in ComponentsSet BY <2>6, <2>8, PlaceTyped
  <2>10. ASSUME h[k] # Ambiguous PROVE Settled(h[k], S(k))
    <3>1. h[j] # Ambiguous BY <2>6, <2>10, PlaceUnclear
    <3>2. h[j] \in Seq(GroupSet) BY <2>8, <3>1 DEF ComponentsSet
    <3>3. Settled(h[j], S(j)) BY <2>1, <3>1
    <3>4. QED BY <2>6, <2>7, <2>8, <2>10, <3>2, <3>3, PlaceSettles
  <2>11. \A m \in 0 .. k : h[m] \in ComponentsSet BY <2>1, <2>9, <2>4
  <2>12. QED BY <2>10, <2>11, <2>3
<1>3. n \in A
  <2> HIDE DEF A
  <2>1. n \in 0 .. n OBVIOUS
  <2>2. QED BY <1>1, <1>2, <2>1, AllNaturals
<1>4. QED BY <1>3

\* Two lists with the same closes make groups of the same closes.
LEMMA RunsAlike ==
  ASSUME NEW n \in Nat, NEW f, \A r \in 1 .. n : f[r] \in ExportRows,
         NEW e, \A r \in 1 .. n : e[r] \in ExportRows,
         \A r \in 1 .. n : Close(f[r]) = Close(e[r]),
         NEW h, IsRun(h, "place", 0, <<>>, f, n), NEW g, IsRun(g, "place", 0, <<>>, e, n)
  PROVE  Alike(h[n], g[n])
<1> DEFINE A == {k \in 0 .. n : Alike(h[k], g[k])}
<1>1. \A k \in 0 .. n : h[k] \in ComponentsSet /\ g[k] \in ComponentsSet
  BY RunSettles
<1>2. 0 \in A
  <2>1. h[0] = g[0] /\ 0 \in 0 .. n BY DEF IsRun
  <2>2. QED BY <2>1 DEF Alike
<1>3. ASSUME NEW k \in 1 .. n, k - 1 \in A PROVE k \in A
  <2>1. k \in 0 .. n /\ k - 1 \in 0 .. n OBVIOUS
  <2>2. h[k] = Place(h[k - 1], f[k]) /\ g[k] = Place(g[k - 1], e[k])
    <3>1. /\ h[k] = Step("place", 0, h[k - 1], f[k])
          /\ g[k] = Step("place", 0, g[k - 1], e[k])
      BY DEF IsRun
    <3>2. QED BY <3>1 DEF Step
  <2>3. Alike(h[k - 1], g[k - 1]) BY <1>3
  <2>4. h[k - 1] \in ComponentsSet /\ g[k - 1] \in ComponentsSet BY <1>1, <2>1
  <2>5. Alike(h[k], g[k]) BY <2>2, <2>3, <2>4, PlaceAlike
  <2>6. QED BY <2>1, <2>5
<1>4. n \in A
  <2> HIDE DEF A
  <2>1. n \in 0 .. n OBVIOUS
  <2>2. QED BY <1>2, <1>3, <2>1, AllNaturals
<1>5. QED BY <1>4

\* The closes of rows.
ClosesOf(f) == [i \in DOMAIN f |-> Close(f[i])]

\* The rows at some positions in the order of their closes.
Listed(f, I) == [r \in 1 .. Cardinality(I) |-> f[InOrder(I, ClosesOf(f))[r]]]

\* The components of a bucket are a run over its rows, in that order.
LEMMA ComponentsRun ==
  ASSUME NEW f \in Seq(ExportRows), NEW I \in SUBSET DOMAIN f
  PROVE  /\ Keyed(I, ClosesOf(f)) /\ Cardinality(I) \in Nat
         /\ \A r \in 1 .. Cardinality(I) : Listed(f, I)[r] \in ExportRows
         /\ {Listed(f, I)[r] : r \in 1 .. Cardinality(I)} = {f[i] : i \in I}
         /\ \E h : /\ IsRun(h, "place", 0, <<>>, Listed(f, I), Cardinality(I))
                   /\ Components(f, I) = h[Cardinality(I)]
<1> DEFINE keys == ClosesOf(f)
           n == Cardinality(I)
           order == InOrder(I, keys)
           e == Listed(f, I)
<1>1. /\ Len(f) \in Nat /\ DOMAIN f = 1 .. Len(f)
      /\ \A i \in DOMAIN f : f[i] \in ExportRows
  OBVIOUS
<1>2. IsFiniteSet(I) /\ n \in Nat
  <2>1. IsFiniteSet(DOMAIN f) BY <1>1, FS_Interval
  <2>2. QED BY <2>1, FS_Subset, FS_CardinalityType
<1>3. Keyed(I, keys)
  <2>1. I \subseteq Int BY <1>1
  <2>2. ASSUME NEW i \in I PROVE keys[i] \in Int \X Int
    <3>1. f[i] \in ExportRows /\ keys[i] = Close(f[i]) BY <1>1 DEF ClosesOf
    <3>2. QED BY <3>1, HistoryAssumption DEF Close
  <2>3. QED BY <1>2, <2>1, <2>2 DEF Keyed
<1> HIDE DEF keys
<1>4. order \in [1 .. n -> I] /\ \A i \in I : \E r \in 1 .. n : order[r] = i
  BY <1>3, InOrderSorts
<1>5. e = [r \in 1 .. n |-> f[order[r]]] BY DEF Listed, keys
<1>6. Components(f, I) = FoldLeft(Place, <<>>, e)
  <2>1. DOMAIN order = 1 .. n BY <1>4
  <2>2. Components(f, I) = FoldLeft(Place, <<>>, [r \in DOMAIN order |-> f[order[r]]])
    BY DEF Components, keys, ClosesOf
  <2> HIDE DEF order, e
  <2>3. QED BY <1>5, <2>1, <2>2
<1> HIDE DEF order, e, n
<1>7. \A r \in 1 .. n : e[r] \in ExportRows BY <1>1, <1>4, <1>5
<1>8. {e[r] : r \in 1 .. n} = {f[i] : i \in I} BY <1>4, <1>5
<1>9. DOMAIN e = 1 .. n BY <1>5
<1>10. \E h : IsRun(h, "place", 0, <<>>, e, n) /\ FoldLeft(Place, <<>>, e) = h[n]
  BY <1>2, <1>9, PlaceRun
<1>11. QED BY <1>2, <1>3, <1>6, <1>7, <1>8, <1>10 DEF e, n, keys

\* The components of a bucket are groups of its rows, settled if they are clear.
LEMMA ComponentsSettled ==
  ASSUME NEW f \in Seq(ExportRows), NEW I \in SUBSET DOMAIN f
  PROVE  /\ Components(f, I) \in ComponentsSet
         /\ Components(f, I) # Ambiguous => Settled(Components(f, I), {f[i] : i \in I})
<1> DEFINE n == Cardinality(I)
           e == Listed(f, I)
           S == {f[i] : i \in I}
<1>1. /\ n \in Nat /\ \A r \in 1 .. n : e[r] \in ExportRows
      /\ {e[r] : r \in 1 .. n} = S
      /\ \E h : IsRun(h, "place", 0, <<>>, e, n) /\ Components(f, I) = h[n]
  BY ComponentsRun
<1> HIDE DEF n, e, S
<1>2. PICK h : IsRun(h, "place", 0, <<>>, e, n) /\ Components(f, I) = h[n] BY <1>1
<1>3. /\ \A k \in 0 .. n : h[k] \in ComponentsSet
      /\ h[n] # Ambiguous => Settled(h[n], {e[r] : r \in 1 .. n})
  BY <1>1, <1>2, RunSettles
<1>4. n \in 0 .. n BY <1>1
<1>5. QED BY <1>1, <1>2, <1>3, <1>4 DEF S

\* The rows at positions I of f and at J of g are the same, moved there and back.
Mirrors(f, I, g, J, move, back) ==
  /\ f \in Seq(ExportRows) /\ I \in SUBSET DOMAIN f
  /\ g \in Seq(ExportRows) /\ J \in SUBSET DOMAIN g
  /\ move \in [I -> J] /\ back \in [J -> I]
  /\ \A i \in I : back[move[i]] = i /\ g[move[i]] = f[i]
  /\ \A j \in J : move[back[j]] = j

\* The same groups, or none clear.
SameGroups(c, d) ==
  /\ c = Ambiguous <=> d = Ambiguous
  /\ c # Ambiguous => SetsOf(c) = SetsOf(d)

\* The same rows at other positions make the same groups.
LEMMA ComponentsMoved ==
  ASSUME NEW f, NEW I, NEW g, NEW J, NEW move, NEW back,
         Mirrors(f, I, g, J, move, back)
  PROVE  SameGroups(Components(f, I), Components(g, J))
<1>1. /\ f \in Seq(ExportRows) /\ I \in SUBSET DOMAIN f
      /\ g \in Seq(ExportRows) /\ J \in SUBSET DOMAIN g
      /\ move \in [I -> J] /\ back \in [J -> I]
      /\ \A i \in I : back[move[i]] = i /\ g[move[i]] = f[i]
      /\ \A j \in J : move[back[j]] = j
  BY DEF Mirrors
<1> USE <1>1
<1> DEFINE n == Cardinality(I)
           c == Components(f, I)
           d == Components(g, J)
           S == {f[i] : i \in I}
<1>2. {g[j] : j \in J} = S
  <2>1. \A j \in J : g[j] = f[back[j]]
    <3>1. \A j \in J : g[move[back[j]]] = f[back[j]] OBVIOUS
    <3>2. QED BY <3>1
  <2>2. QED BY <2>1
<1>3. /\ n \in Nat /\ Keyed(I, ClosesOf(f))
      /\ \A r \in 1 .. n : Listed(f, I)[r] \in ExportRows
      /\ \E h : IsRun(h, "place", 0, <<>>, Listed(f, I), n) /\ c = h[n]
  BY ComponentsRun
<1>4. Keyed(J, ClosesOf(g)) BY ComponentsRun
<1>5. /\ Cardinality(J) = n
      /\ \A r \in 1 .. n : ClosesOf(f)[InOrder(I, ClosesOf(f))[r]]
                             = ClosesOf(g)[InOrder(J, ClosesOf(g))[r]]
  <2>1. \A i \in I : ClosesOf(g)[move[i]] = ClosesOf(f)[i]
    <3>1. \A i \in I : i \in DOMAIN f /\ move[i] \in DOMAIN g OBVIOUS
    <3>2. QED BY <3>1 DEF ClosesOf
  <2> DEFINE keys == ClosesOf(f)
             others == ClosesOf(g)
  <2>2. /\ Keyed(I, keys) /\ Keyed(J, others) /\ move \in [I -> J] /\ back \in [J -> I]
        /\ \A i \in I : others[move[i]] = keys[i]
    BY <1>3, <1>4, <2>1
  <2>3. \A i \in I : back[move[i]] = i OBVIOUS
  <2>4. \A j \in J : move[back[j]] = j OBVIOUS
  <2> HIDE DEF keys, others
  <2>5. /\ Cardinality(I) = Cardinality(J)
        /\ \A r \in 1 .. Cardinality(I) :
             keys[InOrder(I, keys)[r]] = others[InOrder(J, others)[r]]
    BY ONLY <2>2, <2>3, <2>4, InOrderMoved
  <2>6. QED BY <2>5 DEF keys, others
<1>6. /\ \A r \in 1 .. n : Listed(g, J)[r] \in ExportRows
      /\ \E h : IsRun(h, "place", 0, <<>>, Listed(g, J), n) /\ d = h[n]
  <2>1. /\ \A r \in 1 .. Cardinality(J) : Listed(g, J)[r] \in ExportRows
        /\ \E h : IsRun(h, "place", 0, <<>>, Listed(g, J), Cardinality(J))
                  /\ d = h[Cardinality(J)]
    BY ComponentsRun
  <2>2. Cardinality(J) = n BY <1>5
  <2> HIDE DEF d, n
  <2>3. QED BY <2>1, <2>2
<1>7. \A r \in 1 .. n : Close(Listed(f, I)[r]) = Close(Listed(g, J)[r])
  <2>1. ASSUME NEW r \in 1 .. n PROVE Close(Listed(f, I)[r]) = Close(Listed(g, J)[r])
    <3> DEFINE i == InOrder(I, ClosesOf(f))[r]
               j == InOrder(J, ClosesOf(g))[r]
    <3>1. i \in I BY <1>3, InOrderSorts
    <3>2. j \in J
      <4>1. InOrder(J, ClosesOf(g)) \in [1 .. Cardinality(J) -> J] BY <1>4, InOrderSorts
      <4>2. QED BY <1>5, <4>1
    <3>3. ClosesOf(f)[i] = ClosesOf(g)[j] BY <1>5
    <3>4. Listed(f, I)[r] = f[i] BY DEF Listed
    <3>5. Listed(g, J)[r] = g[j] BY <1>5 DEF Listed
    <3> HIDE DEF i, j
    <3>6. ClosesOf(f)[i] = Close(f[i]) /\ ClosesOf(g)[j] = Close(g[j])
      BY <3>1, <3>2 DEF ClosesOf
    <3>7. QED BY <3>3, <3>4, <3>5, <3>6
  <2>2. QED BY <2>1
<1>8. Alike(c, d)
  <2> DEFINE u == Listed(f, I)
             v == Listed(g, J)
  <2>1. PICK h : IsRun(h, "place", 0, <<>>, u, n) /\ c = h[n] BY <1>3
  <2>2. PICK k : IsRun(k, "place", 0, <<>>, v, n) /\ d = k[n] BY <1>6
  <2>3. /\ n \in Nat /\ \A r \in 1 .. n : u[r] \in ExportRows BY <1>3
  <2>4. \A r \in 1 .. n : v[r] \in ExportRows BY <1>6
  <2>5. \A r \in 1 .. n : Close(u[r]) = Close(v[r]) BY <1>7
  <2> HIDE DEF u, v, n, c, d
  <2>6. Alike(h[n], k[n]) BY <2>1, <2>2, <2>3, <2>4, <2>5, RunsAlike
  <2>7. QED BY <2>1, <2>2, <2>6
<1>9. c = Ambiguous <=> d = Ambiguous BY <1>8 DEF Alike
<1>10. ASSUME c # Ambiguous PROVE SetsOf(c) = SetsOf(d)
  <2>1. c \in ComponentsSet /\ Settled(c, S) BY <1>10, ComponentsSettled
  <2>2. d \in ComponentsSet /\ Settled(d, S)
    <3>1. /\ d \in ComponentsSet
          /\ d # Ambiguous => Settled(d, {g[j] : j \in J})
      BY ComponentsSettled
    <3> HIDE DEF d, c, S
    <3>2. QED BY <1>2, <1>9, <1>10, <3>1
  <2> HIDE DEF c, d, S
  <2>3. /\ c \in Seq(GroupSet) /\ d \in Seq(GroupSet) /\ Len(c) = Len(d)
        /\ \A k \in 1 .. Len(c) : Closes(c[k]) = Closes(d[k])
    BY <1>8, <1>9, <1>10, <2>1, <2>2 DEF ComponentsSet, Alike
  <2>4. DOMAIN c = 1 .. Len(c) /\ DOMAIN d = 1 .. Len(c) BY <2>3
  <2>5. ASSUME NEW k \in 1 .. Len(c), NEW x \in ToSet(c[k]) PROVE x \in ToSet(d[k])
    <3>1. x \in S BY <2>1, <2>4 DEF Settled
    <3>2. PICK l \in 1 .. Len(c) : x \in ToSet(d[l]) BY <2>2, <2>4, <3>1 DEF Settled
    <3>3. Close(x) \in Closes(c[l]) BY <2>3, <3>2 DEF Closes
    <3>4. PICK y \in ToSet(c[l]) : Close(y) = Close(x) BY <3>3 DEF Closes
    <3>5. k = l BY <2>1, <2>4, <2>5, <3>4 DEF Settled
    <3>6. QED BY <3>2, <3>5
  <2>6. ASSUME NEW k \in 1 .. Len(c), NEW x \in ToSet(d[k]) PROVE x \in ToSet(c[k])
    <3>1. x \in S BY <2>2, <2>4 DEF Settled
    <3>2. PICK l \in 1 .. Len(c) : x \in ToSet(c[l]) BY <2>1, <2>4, <3>1 DEF Settled
    <3>3. Close(x) \in Closes(d[l]) BY <2>3, <3>2 DEF Closes
    <3>4. PICK y \in ToSet(d[l]) : Close(y) = Close(x) BY <3>3 DEF Closes
    <3>5. k = l BY <2>2, <2>4, <2>6, <3>4 DEF Settled
    <3>6. QED BY <3>2, <3>5
  <2>7. \A k \in 1 .. Len(c) : ToSet(c[k]) = ToSet(d[k]) BY <2>5, <2>6
  <2>8. QED BY <2>4, <2>7 DEF SetsOf
<1>11. QED BY <1>9, <1>10 DEF SameGroups

\* Where two rows that are swapped come to stand.
Moved(i, j) == IF j = i THEN i + 1 ELSE IF j = i + 1 THEN i ELSE j

\* Swapping two rows moves them.
LEMMA SwapMoves ==
  ASSUME rows \in Seq(ExportRows), NEW i \in 1 .. Len(rows) - 1
  PROVE  /\ Swapped(i) \in Seq(ExportRows) /\ DOMAIN Swapped(i) = DOMAIN rows
         /\ \A j \in DOMAIN rows : /\ Moved(i, j) \in DOMAIN rows
                                   /\ Moved(i, Moved(i, j)) = j
                                   /\ Swapped(i)[Moved(i, j)] = rows[j]
<1> DEFINE n == Len(rows)
           f == rows
           a == f[i]
           b == f[i + 1]
           g == [f EXCEPT ![i] = b, ![i + 1] = a]
<1>1. n \in Nat /\ DOMAIN f = 1 .. n /\ f \in [1 .. n -> ExportRows] OBVIOUS
<1>2. i \in 1 .. n /\ i + 1 \in 1 .. n /\ i # i + 1 BY <1>1
<1>3. a \in ExportRows /\ b \in ExportRows BY <1>1, <1>2
<1>4. Swapped(i) = g BY DEF Swapped
<1> HIDE DEF n, a, b
<1>5. /\ g \in [1 .. n -> ExportRows] /\ g[i] = b /\ g[i + 1] = a
      /\ \A j \in 1 .. n : j # i /\ j # i + 1 => g[j] = f[j]
  BY <1>1, <1>2, <1>3
<1> HIDE DEF g
<1>6. g \in Seq(ExportRows) /\ DOMAIN g = 1 .. n BY <1>1, <1>5, SeqDef
<1>7. ASSUME NEW j \in 1 .. n
      PROVE  Moved(i, j) \in 1 .. n /\ Moved(i, Moved(i, j)) = j /\ g[Moved(i, j)] = f[j]
  <2>1. CASE j = i BY <1>2, <1>5, <2>1 DEF Moved, a
  <2>2. CASE j = i + 1 BY <1>2, <1>5, <2>2 DEF Moved, b
  <2>3. CASE j # i /\ j # i + 1 BY <1>5, <2>3 DEF Moved
  <2>4. QED BY <2>1, <2>2, <2>3
<1>8. QED BY <1>1, <1>4, <1>6, <1>7

\* The groups of the rows of an export, whatever rows it has.
LEMMA GroupsOfRows == rows \in Seq(ExportRows) => GroupsArePositions
<1> SUFFICES ASSUME rows \in Seq(ExportRows) PROVE GroupsArePositions OBVIOUS
<1> DEFINE B(f, b) == {j \in DOMAIN f : Bucket(f[j]) = b}
           grouped == Grouped(rows)
<1>1. \A f : /\ DOMAIN Grouped(f) = {Bucket(f[j]) : j \in DOMAIN f}
             /\ \A b \in DOMAIN Grouped(f) : Grouped(f)[b] = Components(f, B(f, b))
  BY DEF Grouped
<1>2. ASSUME NEW b \in DOMAIN grouped, NEW i \in 1 .. Len(rows) - 1
      PROVE  LET other == Grouped(Swapped(i))[b] IN
             /\ grouped[b] = Ambiguous <=> other = Ambiguous
             /\ grouped[b] # Ambiguous => SetsOf(grouped[b]) = SetsOf(other)
  <2> DEFINE g == Swapped(i)
             I == B(rows, b)
             J == B(g, b)
             move == [j \in I |-> Moved(i, j)]
             back == [j \in J |-> Moved(i, j)]
  <2>1. /\ g \in Seq(ExportRows) /\ DOMAIN g = DOMAIN rows
        /\ \A j \in DOMAIN rows : /\ Moved(i, j) \in DOMAIN rows
                                  /\ Moved(i, Moved(i, j)) = j
                                  /\ g[Moved(i, j)] = rows[j]
    BY SwapMoves
  <2> HIDE DEF g
  <2>2. \A j \in I : Moved(i, j) \in J BY <2>1
  <2>3. \A j \in J : Moved(i, j) \in I
    <3>1. ASSUME NEW j \in J PROVE Moved(i, j) \in I
      <4>1. j \in DOMAIN rows /\ Bucket(g[j]) = b BY <2>1
      <4>2. Moved(i, j) \in DOMAIN rows /\ Moved(i, Moved(i, j)) = j BY <2>1, <4>1
      <4>3. g[Moved(i, Moved(i, j))] = rows[Moved(i, j)] BY <2>1, <4>2
      <4>4. g[j] = rows[Moved(i, j)] BY <4>2, <4>3
      <4>5. QED BY <4>1, <4>2, <4>4
    <3>2. QED BY <3>1
  <2>4. b \in DOMAIN Grouped(g)
    <3>1. DOMAIN grouped = {Bucket(rows[j]) : j \in DOMAIN rows} BY DEF Grouped
    <3>2. PICK j \in DOMAIN rows : b = Bucket(rows[j]) BY <3>1
    <3>3. Moved(i, j) \in DOMAIN g /\ g[Moved(i, j)] = rows[j] BY <2>1, <3>2
    <3>4. QED BY <1>1, <3>2, <3>3
  <2>5. Grouped(g)[b] = Components(g, J) /\ grouped[b] = Components(rows, I) BY <1>1, <2>4
  <2>6. /\ I \in SUBSET DOMAIN rows /\ J \in SUBSET DOMAIN g
        /\ move \in [I -> J] /\ back \in [J -> I]
    BY <2>2, <2>3
  <2>7. \A j \in I : back[move[j]] = j BY <2>1, <2>2
  <2>8. \A j \in I : g[move[j]] = rows[j] BY <2>1
  <2>9. rows \in Seq(ExportRows) OBVIOUS
  <2>10. \A j \in J : move[back[j]] = j BY <2>1, <2>3
  <2> HIDE DEF I, J, move, back, grouped
  <2>11. Mirrors(rows, I, g, J, move, back) BY <2>1, <2>6, <2>8, <2>7, <2>10 DEF Mirrors
  <2>12. SameGroups(Components(rows, I), Components(g, J)) BY <2>11, ComponentsMoved
  <2>13. QED BY <2>5, <2>12 DEF g, SameGroups
<1>3. ASSUME NEW b \in DOMAIN grouped, grouped[b] # Ambiguous
      PROVE  LET c == grouped[b] IN
             /\ \A k, l \in DOMAIN c :
                  LET together == \A x \in ToSet(c[k]), y \in ToSet(c[l]) : Within(x, y)
                  IN together <=> k = l
             /\ \A k, l \in DOMAIN c :
                  k # l => {Close(x) : x \in ToSet(c[k])}
                             \intersect {Close(y) : y \in ToSet(c[l])} = {}
  <2> DEFINE I == B(rows, b)
             c == grouped[b]
  <2>1. c = Components(rows, I) /\ I \in SUBSET DOMAIN rows BY <1>1
  <2> DEFINE S == {rows[j] : j \in I}
  <2>2. Settled(c, S)
    <3> HIDE DEF I
    <3>1. QED BY <1>3, <2>1, ComponentsSettled
  <2> HIDE DEF c, S
  <2>3. /\ \A k \in DOMAIN c : \A x, y \in ToSet(c[k]) : Within(x, y)
        /\ \A k, l \in DOMAIN c :
             k # l => \E x \in ToSet(c[k]), y \in ToSet(c[l]) : ~ Within(x, y)
        /\ \A k, l \in DOMAIN c : \A x \in ToSet(c[k]), y \in ToSet(c[l]) :
             Close(x) = Close(y) => k = l
    BY <2>2 DEF Settled
  <2>4. QED BY <2>3 DEF c
<1>4. QED BY <1>2, <1>3 DEF GroupsArePositions

\* Whatever the export and the order of its rows, the groups are the positions
\* (trader_export.py, _close_components).
THEOREM GroupsAreThePositions == Spec => []GroupsArePositions
<1>1. Init => Evaluated BY EvaluatedInit
<1>2. Evaluated /\ [Next]_vars => Evaluated' BY EvaluatedStep
<1>3. Evaluated => GroupsArePositions BY GroupsOfRows DEF Evaluated
<1>4. QED BY <1>1, <1>2, <1>3, PTL DEF Spec
===============================================================================
