------------------------- MODULE Retrievers_proofs -------------------------
(***************************************************************************)
(* Theorems about the retrievers, for every collection, every scale of     *)
(* scores, every depth and every alpha.                                    *)
(***************************************************************************)
EXTENDS Retrievers, FiniteSetTheorems, FunctionTheorems, SequenceTheorems, TLAPS

(***************************************************************************)
(* Sorting.  Place numbers the rows without gaps, so that the order built  *)
(* from it is a permutation, and a row that scores more has the smaller    *)
(* number.                                                                 *)
(***************************************************************************)
Ahead(score, j) ==
    {i \in DOMAIN score : score[i] > score[j] \/ (score[i] = score[j] /\ i < j)}

LEMMA AheadIsFinite ==
    ASSUME NEW n \in Nat, NEW score \in [1 .. n -> Int], NEW j \in 1 .. n
    PROVE  /\ IsFiniteSet(Ahead(score, j))
           /\ Cardinality(Ahead(score, j)) \in Nat
           /\ Place(score, j) = 1 + Cardinality(Ahead(score, j))
           /\ Place(score, j) \in 1 .. n
<1>1. IsFiniteSet(1 .. n) /\ Cardinality(1 .. n) = n
  BY FS_Interval
<1>2. Ahead(score, j) \subseteq (1 .. n) \ {j}
  BY DEF Ahead
<1>3. IsFiniteSet((1 .. n) \ {j}) /\ Cardinality((1 .. n) \ {j}) = n - 1
  BY <1>1, FS_RemoveElement
<1>4. IsFiniteSet(Ahead(score, j)) /\ Cardinality(Ahead(score, j)) <= n - 1
  BY <1>2, <1>3, FS_Subset
<1>5. Cardinality(Ahead(score, j)) \in Nat
  BY <1>4, FS_CardinalityType
<1>6. Place(score, j) = 1 + Cardinality(Ahead(score, j))
  BY DEF Place, Ahead
<1> QED
  BY <1>4, <1>5, <1>6

LEMMA AheadComesFirst ==
    ASSUME NEW n \in Nat, NEW score \in [1 .. n -> Int],
           NEW i \in 1 .. n, NEW j \in 1 .. n, i \in Ahead(score, j)
    PROVE  Place(score, i) < Place(score, j)
<1>1. Ahead(score, i) \subseteq Ahead(score, j)
  BY DEF Ahead
<1>2. i \notin Ahead(score, i)
  BY DEF Ahead
<1>3. Cardinality(Ahead(score, i)) <= Cardinality(Ahead(score, j))
  BY <1>1, AheadIsFinite, FS_Subset
<1>4. Cardinality(Ahead(score, i)) # Cardinality(Ahead(score, j))
  BY <1>1, <1>2, AheadIsFinite, FS_Subset
<1> QED
  BY <1>3, <1>4, AheadIsFinite

LEMMA PlacesAreFilled ==
    ASSUME NEW n \in Nat, NEW score \in [1 .. n -> Int], NEW p \in 1 .. n
    PROVE  \E j \in 1 .. n : Place(score, j) = p
<1> DEFINE f == [j \in 1 .. n |-> Place(score, j)]
<1>1. f \in [1 .. n -> 1 .. n]
  BY AheadIsFinite
<1>2. ASSUME NEW i \in 1 .. n, NEW j \in 1 .. n, i # j
      PROVE  f[i] # f[j]
  <2>1. i \in Ahead(score, j) \/ j \in Ahead(score, i)
    BY <1>2 DEF Ahead
  <2>2. Place(score, i) \in Int /\ Place(score, j) \in Int
    BY AheadIsFinite
  <2>3. Place(score, i) < Place(score, j) \/ Place(score, j) < Place(score, i)
    BY <2>1, AheadComesFirst
  <2> QED
    BY <2>2, <2>3
<1>3. f \in Injection(1 .. n, 1 .. n)
  <2> HIDE DEF f
  <2> QED
    BY <1>1, <1>2, Fun_IsInj
<1>4. f \in Surjection(1 .. n, 1 .. n)
  BY <1>3, FS_Interval, FS_Injection
<1>5. \E j \in 1 .. n : f[j] = p
  <2> HIDE DEF f
  <2> QED
    BY <1>4 DEF Surjection
<1> QED
  BY <1>5

\* The order is that of descending scores, and every row is at its place.
LEMMA StableDescendingSorts ==
    ASSUME NEW n \in Nat, NEW score \in [1 .. n -> Int]
    PROVE  LET order == StableDescending(score)
           IN  /\ order \in [1 .. n -> 1 .. n]
               /\ \A j \in 1 .. n : order[Place(score, j)] = j
               /\ \A p \in 1 .. n : Place(score, order[p]) = p
<1> DEFINE order == StableDescending(score)
<1>1. order = [p \in 1 .. n |-> CHOOSE j \in 1 .. n : Place(score, j) = p]
  BY DEF StableDescending
<1>2. ASSUME NEW p \in 1 .. n
      PROVE  order[p] \in 1 .. n /\ Place(score, order[p]) = p
  <2>1. order[p] = CHOOSE j \in 1 .. n : Place(score, j) = p
    BY <1>1
  <2> HIDE DEF order
  <2> QED
    BY <2>1, PlacesAreFilled
<1>3. ASSUME NEW j \in 1 .. n
      PROVE  order[Place(score, j)] = j
  <2> DEFINE p == Place(score, j)
             i == order[p]
  <2>1. p \in 1 .. n
    BY AheadIsFinite
  <2>2. i \in 1 .. n /\ Place(score, i) = p
    BY <1>2, <2>1
  <2>3. i = j \/ i \in Ahead(score, j) \/ j \in Ahead(score, i)
    <3> HIDE DEF i
    <3> QED
      BY <2>2 DEF Ahead
  <2>4. ~(i \in Ahead(score, j)) /\ ~(j \in Ahead(score, i))
    <3> HIDE DEF i
    <3> QED
      BY <2>1, <2>2, AheadComesFirst
  <2> QED
    BY <2>3, <2>4
<1>4. order \in [1 .. n -> 1 .. n]
  <2> HIDE DEF order
  <2>1. DOMAIN order = 1 .. n /\ order = [p \in 1 .. n |-> order[p]]
    BY <1>1
  <2> QED
    BY <1>2, <2>1
<1> QED
  BY <1>2, <1>3, <1>4

\* Behind a row that scores less there is no row that scores more.
LEMMA PlaceSorts ==
    ASSUME NEW n \in Nat, NEW score \in [1 .. n -> Int],
           NEW i \in 1 .. n, NEW j \in 1 .. n
    PROVE  /\ score[i] > score[j] => Place(score, i) < Place(score, j)
           /\ Place(score, i) < Place(score, j) => score[i] >= score[j]
<1>1. score[i] \in Int /\ score[j] \in Int
  OBVIOUS
<1>2. score[i] > score[j] => i \in Ahead(score, j)
  BY DEF Ahead
<1>3. score[j] > score[i] => j \in Ahead(score, i)
  BY DEF Ahead
<1>4. Place(score, i) \in Int /\ Place(score, j) \in Int
  BY AheadIsFinite
<1>5. score[i] > score[j] => Place(score, i) < Place(score, j)
  BY <1>2, AheadComesFirst
<1>6. score[j] > score[i] => Place(score, j) < Place(score, i)
  BY <1>3, AheadComesFirst
<1> QED
  BY <1>1, <1>4, <1>5, <1>6

-----------------------------------------------------------------------------
(* The smallest and the largest score: those of the rows sorted last and   *)
(* first.                                                                  *)

LEMMA LargestScore ==
    ASSUME NEW n \in Nat \ {0}, NEW f \in [1 .. n -> Int]
    PROVE  \E j \in 1 .. n : \A i \in 1 .. n : f[i] <= f[j]
<1>1. PICK j \in 1 .. n : Place(f, j) = 1
  BY PlacesAreFilled, 1 \in 1 .. n
<1>2. ASSUME NEW i \in 1 .. n
      PROVE  ~(f[i] > f[j])
  <2>1. f[i] > f[j] => Place(f, i) < Place(f, j)
    BY PlaceSorts
  <2>2. Place(f, i) \in 1 .. n
    BY AheadIsFinite
  <2> QED
    BY <1>1, <2>1, <2>2
<1>3. \A i \in 1 .. n : f[i] \in Int
  OBVIOUS
<1> QED
  BY <1>2, <1>3

LEMMA SmallestScore ==
    ASSUME NEW n \in Nat \ {0}, NEW f \in [1 .. n -> Int]
    PROVE  \E j \in 1 .. n : \A i \in 1 .. n : f[j] <= f[i]
<1> DEFINE g == [i \in 1 .. n |-> - f[i]]
<1>1. g \in [1 .. n -> Int]
  OBVIOUS
<1>2. PICK j \in 1 .. n : \A i \in 1 .. n : g[i] <= g[j]
  <2> HIDE DEF g
  <2> QED
    BY <1>1, LargestScore
<1>3. ASSUME NEW i \in 1 .. n
      PROVE  f[j] <= f[i]
  <2>1. g[i] <= g[j]
    BY <1>2
  <2>2. - f[i] <= - f[j] /\ f[i] \in Int /\ f[j] \in Int
    BY <2>1
  <2> QED
    BY <2>2
<1> QED
  BY <1>3

\* What Extent finds over the rows of one side.
LEMMA ExtentOfScores ==
    ASSUME NEW n \in Nat \ {0}, NEW f \in [1 .. n -> Int],
           NEW S, S = {f[i] : i \in 1 .. n}
    PROVE  /\ Extent(S) = << Min(S), Max(S) >>
           /\ Min(S) \in Int
           /\ Max(S) \in Int
           /\ Min(S) \in S
           /\ Max(S) \in S
           /\ \A i \in 1 .. n : Min(S) <= f[i] /\ f[i] <= Max(S)
<1>1. f[1] \in S /\ S \subseteq Int
  BY 1 \in 1 .. n
<1>2. Extent(S) = << Min(S), Max(S) >>
  BY <1>1 DEF Extent
<1>3. Min(S) \in S /\ \A y \in S : Min(S) <= y
  <2>1. PICK j \in 1 .. n : \A i \in 1 .. n : f[j] <= f[i]
    BY SmallestScore
  <2>2. \E x \in S : \A y \in S : x <= y
    <3>1. f[j] \in S /\ \A y \in S : f[j] <= y
      BY <2>1
    <3> QED
      BY <3>1
  <2> QED
    BY <2>2 DEF Min
<1>4. Max(S) \in S /\ \A y \in S : Max(S) >= y
  <2>1. PICK j \in 1 .. n : \A i \in 1 .. n : f[i] <= f[j]
    BY LargestScore
  <2>2. \E x \in S : \A y \in S : x >= y
    <3>1. f[j] \in S /\ \A y \in S : f[j] >= y
      BY <2>1
    <3> QED
      BY <3>1
  <2> QED
    BY <2>2 DEF Max
<1> QED
  BY <1>1, <1>2, <1>3, <1>4

-----------------------------------------------------------------------------
(* Blending: a row that is better on a side that counts, and not worse on  *)
(* the other one that counts, has the larger blend.                        *)

LEMMA ProductsKeepOrder ==
    ASSUME NEW w \in Nat, NEW s \in Nat \ {0}, NEW p \in Int, NEW q \in Int
    PROVE  /\ w * p * s \in Int
           /\ p >= q => w * p * s >= w * q * s
           /\ p > q /\ w > 0 => w * p * s > w * q * s
           /\ w = 0 => w * p * s = 0
<1>1. ASSUME NEW a \in Int, NEW b \in Int, NEW t \in Nat
      PROVE  a >= b => a * t >= b * t
  <2>1. a * t - b * t = (a - b) * t
    OBVIOUS
  <2>2. ASSUME a >= b
        PROVE  (a - b) * t >= 0
    <3>1. a - b \in Nat
      BY <2>2
    <3> QED
      BY <3>1
  <2>3. a * t \in Int /\ b * t \in Int
    OBVIOUS
  <2> QED
    BY <2>1, <2>2, <2>3
<1>2. ASSUME NEW a \in Int, NEW b \in Int, NEW t \in Nat \ {0}
      PROVE  a > b => a * t > b * t
  <2>1. a * t - b * t = (a - b) * t
    OBVIOUS
  <2>2. ASSUME a > b
        PROVE  (a - b) * t > 0
    <3>1. a - b \in Nat \ {0}
      BY <2>2
    <3> QED
      BY <3>1
  <2>3. a * t \in Int /\ b * t \in Int
    OBVIOUS
  <2> QED
    BY <2>1, <2>2, <2>3
<1>3. w * p \in Int /\ w * q \in Int /\ w * p = p * w /\ w * q = q * w
  OBVIOUS
<1>4. p >= q => w * p * s >= w * q * s
  <2>1. p >= q => p * w >= q * w
    BY <1>1
  <2>2. w * p >= w * q => w * p * s >= w * q * s
    BY <1>1, <1>3
  <2> QED
    BY <2>1, <2>2, <1>3
<1>5. p > q /\ w > 0 => w * p * s > w * q * s
  <2>1. p > q /\ w > 0 => p * w > q * w
    BY <1>2
  <2>2. w * p > w * q => w * p * s > w * q * s
    BY <1>2, <1>3
  <2> QED
    BY <2>1, <2>2, <1>3
<1>6. w * p * s \in Int
  BY <1>3
<1>7. w = 0 => w * p * s = 0
  OBVIOUS
<1> QED
  BY <1>4, <1>5, <1>6, <1>7

\* A side's scores are measured upwards from its lowest.
LEMMA NormaliseKeepsOrder ==
    ASSUME NEW lo \in Int, NEW hi \in Int, NEW x \in Int, NEW y \in Int,
           lo <= x, x <= hi, lo <= y, y <= hi
    PROVE  /\ Normalise(x, << lo, hi >>) \in Nat
           /\ Scale(<< lo, hi >>) \in Nat \ {0}
           /\ x >= y => Normalise(x, << lo, hi >>) >= Normalise(y, << lo, hi >>)
           /\ x > y => Normalise(x, << lo, hi >>) > Normalise(y, << lo, hi >>)
<1>1. Spread(<< lo, hi >>) = hi - lo
  BY DEF Spread
<1> QED
  BY <1>1 DEF Normalise, Scale

Scored == [id : Ids, v : Int, k : Int]

\* What FuseAlpha measures over rows that have been joined.
LEMMA SidesOfRows ==
    ASSUME NEW n \in Nat \ {0}, NEW rows \in [1 .. n -> Scored]
    PROVE  \E vlo, vhi, klo, khi \in Int :
              /\ Extent({r.v : r \in Range(rows)}) = << vlo, vhi >>
              /\ Extent({r.k : r \in Range(rows)}) = << klo, khi >>
              /\ \A i \in 1 .. n : /\ vlo <= rows[i].v
                                   /\ rows[i].v <= vhi
                                   /\ klo <= rows[i].k
                                   /\ rows[i].k <= khi
<1> DEFINE fv == [i \in 1 .. n |-> rows[i].v]
           fk == [i \in 1 .. n |-> rows[i].k]
           V == {r.v : r \in Range(rows)}
           K == {r.k : r \in Range(rows)}
<1>1. fv \in [1 .. n -> Int] /\ fk \in [1 .. n -> Int]
  BY DEF Scored
<1>2. Range(rows) = {rows[i] : i \in 1 .. n}
  BY DEF Range
<1>3. V = {fv[i] : i \in 1 .. n} /\ K = {fk[i] : i \in 1 .. n}
  BY <1>2
<1>4. \A i \in 1 .. n : fv[i] = rows[i].v /\ fk[i] = rows[i].k
  OBVIOUS
<1>5. /\ Extent(V) = << Min(V), Max(V) >>
      /\ Min(V) \in Int
      /\ Max(V) \in Int
      /\ \A i \in 1 .. n : Min(V) <= fv[i] /\ fv[i] <= Max(V)
  <2> HIDE DEF fv, fk, V, K
  <2> QED
    BY <1>1, <1>3, ExtentOfScores
<1>6. /\ Extent(K) = << Min(K), Max(K) >>
      /\ Min(K) \in Int
      /\ Max(K) \in Int
      /\ \A i \in 1 .. n : Min(K) <= fk[i] /\ fk[i] <= Max(K)
  <2> HIDE DEF fv, fk, V, K
  <2> QED
    BY <1>1, <1>3, ExtentOfScores
<1> HIDE DEF fv, fk, V, K
<1>7. \A i \in 1 .. n : /\ Min(V) <= rows[i].v /\ rows[i].v <= Max(V)
                        /\ Min(K) <= rows[i].k /\ rows[i].k <= Max(K)
  BY <1>4, <1>5, <1>6
<1>8. /\ Extent(V) = << Min(V), Max(V) >>
      /\ Extent(K) = << Min(K), Max(K) >>
      /\ \A i \in 1 .. n : /\ Min(V) <= rows[i].v
                           /\ rows[i].v <= Max(V)
                           /\ Min(K) <= rows[i].k
                           /\ rows[i].k <= Max(K)
  BY <1>5, <1>6, <1>7
<1> QED
  BY <1>5, <1>6, <1>8 DEF V, K

\* Measured on another scale, each side is as wide in proportion.
LEMMA SidesRescaled ==
    ASSUME NEW n \in Nat \ {0}, NEW rows \in [1 .. n -> Scored],
           NEW vlo \in Int, NEW vhi \in Int,
           Extent({r.v : r \in Range(rows)}) = << vlo, vhi >>
    PROVE  /\ Rescaled(rows) \in [1 .. n -> Scored]
           /\ Extent({r.v : r \in Range(Rescaled(rows))}) = << 2 * vlo + 3, 2 * vhi + 3 >>
           /\ {r.k : r \in Range(Rescaled(rows))} = {r.k : r \in Range(rows)}
           /\ \A i \in 1 .. n : /\ Rescaled(rows)[i].v = 2 * rows[i].v + 3
                                /\ Rescaled(rows)[i].k = rows[i].k
                                /\ Rescaled(rows)[i].id = rows[i].id
<1> DEFINE more == Rescaled(rows)
           fv == [i \in 1 .. n |-> rows[i].v]
           gv == [i \in 1 .. n |-> 2 * rows[i].v + 3]
           V == {r.v : r \in Range(rows)}
           W == {r.v : r \in Range(more)}
<1>1. /\ DOMAIN more = 1 .. n
      /\ \A i \in 1 .. n :
            more[i] = [id |-> rows[i].id, v |-> 2 * rows[i].v + 3, k |-> rows[i].k]
  BY DEF Rescaled, Scored
<1>2. more \in [1 .. n -> Scored]
  <2>1. \A i \in 1 .. n : rows[i].id \in Ids /\ rows[i].v \in Int /\ rows[i].k \in Int
    BY DEF Scored
  <2>2. more = [i \in 1 .. n |-> more[i]]
    BY DEF Rescaled
  <2> HIDE DEF more
  <2> QED
    BY <1>1, <2>1, <2>2 DEF Scored
<1>3. fv \in [1 .. n -> Int] /\ gv \in [1 .. n -> Int]
  BY DEF Scored
<1>4. Range(rows) = {rows[i] : i \in 1 .. n} /\ Range(more) = {more[i] : i \in 1 .. n}
  <2> HIDE DEF more
  <2> QED
    BY <1>1 DEF Range
<1>5. \A i \in 1 .. n : gv[i] = 2 * fv[i] + 3 /\ fv[i] = rows[i].v /\ gv[i] = more[i].v
  BY <1>1
<1> HIDE DEF more
<1>6. V = {fv[i] : i \in 1 .. n} /\ W = {gv[i] : i \in 1 .. n}
  BY <1>4, <1>5
<1>7. {r.k : r \in Range(more)} = {r.k : r \in Range(rows)}
  <2>1. \A i \in 1 .. n : more[i].k = rows[i].k
    BY <1>1
  <2> QED
    BY <1>4, <2>1
<1> HIDE DEF fv, gv, V, W
<1>8. /\ Extent(V) = << Min(V), Max(V) >>
      /\ Min(V) \in V /\ Max(V) \in V
      /\ \A i \in 1 .. n : Min(V) <= fv[i] /\ fv[i] <= Max(V)
  BY <1>3, <1>6, ExtentOfScores
<1>9. /\ Extent(W) = << Min(W), Max(W) >>
      /\ Min(W) \in W /\ Max(W) \in W
      /\ \A i \in 1 .. n : Min(W) <= gv[i] /\ gv[i] <= Max(W)
  BY <1>3, <1>6, ExtentOfScores
<1>10. vlo = Min(V) /\ vhi = Max(V)
  BY <1>8 DEF V
<1>11. PICK a, b, c, d \in 1 .. n :
          Min(V) = fv[a] /\ Max(V) = fv[b] /\ Min(W) = gv[c] /\ Max(W) = gv[d]
  BY <1>6, <1>8, <1>9
<1>12. /\ gv[c] <= gv[a] /\ fv[a] <= fv[c]
       /\ gv[b] <= gv[d] /\ fv[d] <= fv[b]
       /\ fv[a] \in Int /\ fv[b] \in Int /\ fv[c] \in Int /\ fv[d] \in Int
       /\ gv[a] = 2 * fv[a] + 3 /\ gv[b] = 2 * fv[b] + 3
       /\ gv[c] = 2 * fv[c] + 3 /\ gv[d] = 2 * fv[d] + 3
  BY <1>3, <1>5, <1>8, <1>9, <1>11
<1>13. gv[c] = 2 * fv[a] + 3 /\ gv[d] = 2 * fv[b] + 3
  <2>1. 2 * fv[c] + 3 <= 2 * fv[a] + 3 /\ 2 * fv[b] + 3 <= 2 * fv[d] + 3
    BY <1>12
  <2>2. \A x, y \in Int : x <= y /\ 2 * y + 3 <= 2 * x + 3 => x = y
    OBVIOUS
  <2>3. fv[a] = fv[c]
    BY <1>12, <2>1, <2>2
  <2>4. fv[d] = fv[b]
    BY <1>12, <2>1, <2>2
  <2> QED
    BY <1>12, <2>3, <2>4
<1>14. Extent(W) = << 2 * vlo + 3, 2 * vhi + 3 >>
  BY <1>9, <1>10, <1>11, <1>13
<1>15. \A i \in 1 .. n : /\ more[i].v = 2 * rows[i].v + 3
                         /\ more[i].k = rows[i].k
                         /\ more[i].id = rows[i].id
  BY <1>1
<1> QED
  BY <1>2, <1>7, <1>14, <1>15 DEF more, W

LEMMA BlendIsInt ==
    ASSUME NEW n \in Nat, NEW rows \in [1 .. n -> Scored],
           NEW alpha \in 0 .. Den, NEW a \in 1 .. n
    PROVE  Blend(rows, alpha, rows[a]) \in Int
<1>1. n \in Nat \ {0} /\ rows[a].v \in Int /\ rows[a].k \in Int
  BY DEF Scored
<1>2. PICK vlo, vhi, klo, khi \in Int :
          /\ Extent({r.v : r \in Range(rows)}) = << vlo, vhi >>
          /\ Extent({r.k : r \in Range(rows)}) = << klo, khi >>
          /\ \A i \in 1 .. n : /\ vlo <= rows[i].v
                               /\ rows[i].v <= vhi
                               /\ klo <= rows[i].k
                               /\ rows[i].k <= khi
  BY <1>1, SidesOfRows
<1>3. /\ Normalise(rows[a].v, << vlo, vhi >>) \in Nat
      /\ Normalise(rows[a].k, << klo, khi >>) \in Nat
      /\ Scale(<< vlo, vhi >>) \in Nat \ {0}
      /\ Scale(<< klo, khi >>) \in Nat \ {0}
  BY <1>1, <1>2, NormaliseKeepsOrder
<1>4. alpha \in Nat /\ Den - alpha \in Nat
  BY BoundsAssumption
<1> DEFINE N1 == Normalise(rows[a].v, << vlo, vhi >>)
           N2 == Normalise(rows[a].k, << klo, khi >>)
           S1 == Scale(<< vlo, vhi >>)
           S2 == Scale(<< klo, khi >>)
<1>5. Blend(rows, alpha, rows[a]) = alpha * N1 * S2 + (Den - alpha) * N2 * S1
  BY <1>2 DEF Blend
<1> HIDE DEF N1, N2, S1, S2
<1>6. alpha * N1 * S2 \in Int /\ (Den - alpha) * N2 * S1 \in Int
  BY <1>3, <1>4, ProductsKeepOrder DEF N1, N2, S1, S2
<1> QED
  BY <1>5, <1>6

LEMMA BetterBlendsHigher ==
    ASSUME NEW n \in Nat, NEW rows \in [1 .. n -> Scored],
           NEW alpha \in 0 .. Den, NEW a \in 1 .. n, NEW b \in 1 .. n,
           alpha > 0 => rows[a].v >= rows[b].v,
           alpha < Den => rows[a].k >= rows[b].k,
           \/ alpha > 0 /\ rows[a].v > rows[b].v
           \/ alpha < Den /\ rows[a].k > rows[b].k
    PROVE  Blend(rows, alpha, rows[a]) > Blend(rows, alpha, rows[b])
<1>1. /\ n \in Nat \ {0}
      /\ rows[a].v \in Int /\ rows[a].k \in Int
      /\ rows[b].v \in Int /\ rows[b].k \in Int
  BY DEF Scored
<1>2. PICK vlo, vhi, klo, khi \in Int :
          /\ Extent({r.v : r \in Range(rows)}) = << vlo, vhi >>
          /\ Extent({r.k : r \in Range(rows)}) = << klo, khi >>
          /\ \A i \in 1 .. n : /\ vlo <= rows[i].v
                               /\ rows[i].v <= vhi
                               /\ klo <= rows[i].k
                               /\ rows[i].k <= khi
  BY <1>1, SidesOfRows
<1> DEFINE S1 == Scale(<< vlo, vhi >>)
           S2 == Scale(<< klo, khi >>)
           N1(c) == Normalise(c.v, << vlo, vhi >>)
           N2(c) == Normalise(c.k, << klo, khi >>)
           weight == Den - alpha
<1>3. /\ N1(rows[a]) \in Nat /\ N1(rows[b]) \in Nat
      /\ rows[a].v >= rows[b].v => N1(rows[a]) >= N1(rows[b])
      /\ rows[a].v > rows[b].v => N1(rows[a]) > N1(rows[b])
      /\ S1 \in Nat \ {0}
  BY <1>1, <1>2, NormaliseKeepsOrder
<1>4. /\ N2(rows[a]) \in Nat /\ N2(rows[b]) \in Nat
      /\ rows[a].k >= rows[b].k => N2(rows[a]) >= N2(rows[b])
      /\ rows[a].k > rows[b].k => N2(rows[a]) > N2(rows[b])
      /\ S2 \in Nat \ {0}
  BY <1>1, <1>2, NormaliseKeepsOrder
<1>5. /\ alpha \in Nat /\ weight \in Nat
      /\ alpha > 0 \/ alpha = 0
      /\ weight > 0 <=> alpha < Den
      /\ weight > 0 \/ weight = 0
  BY BoundsAssumption
<1>6. /\ Blend(rows, alpha, rows[a]) = alpha * N1(rows[a]) * S2 + weight * N2(rows[a]) * S1
      /\ Blend(rows, alpha, rows[b]) = alpha * N1(rows[b]) * S2 + weight * N2(rows[b]) * S1
  BY <1>2 DEF Blend
<1> DEFINE A1 == alpha * N1(rows[a]) * S2
           B1 == alpha * N1(rows[b]) * S2
           A2 == weight * N2(rows[a]) * S1
           B2 == weight * N2(rows[b]) * S1
<1> HIDE DEF S1, S2, N1, N2, weight
<1>7. /\ A1 \in Int /\ B1 \in Int
      /\ alpha > 0 => A1 >= B1
      /\ alpha > 0 /\ rows[a].v > rows[b].v => A1 > B1
      /\ alpha = 0 => A1 = 0 /\ B1 = 0
  BY <1>3, <1>4, <1>5, ProductsKeepOrder
<1>8. /\ A2 \in Int /\ B2 \in Int
      /\ weight > 0 => A2 >= B2
      /\ weight > 0 /\ rows[a].k > rows[b].k => A2 > B2
      /\ weight = 0 => A2 = 0 /\ B2 = 0
  BY <1>3, <1>4, <1>5, ProductsKeepOrder
<1> HIDE DEF A1, A2, B1, B2
<1>9. A1 >= B1 /\ A2 >= B2 /\ (A1 > B1 \/ A2 > B2)
  BY <1>5, <1>7, <1>8
<1>10. /\ Blend(rows, alpha, rows[a]) = A1 + A2
       /\ Blend(rows, alpha, rows[b]) = B1 + B2
  BY <1>6 DEF A1, A2, B1, B2
<1> QED
  BY <1>7, <1>8, <1>9, <1>10

-----------------------------------------------------------------------------
(* FuseAlpha returns the first rows of the blended order.                  *)

Blended(rows, alpha) == [i \in DOMAIN rows |-> Blend(rows, alpha, rows[i])]

LEMMA CutRows ==
    ASSUME NEW n \in Nat, NEW s \in [1 .. n -> Scored], NEW k \in Nat
    PROVE  /\ Len(Cut(s, k)) = IF k > 0 /\ n > k THEN k ELSE n
           /\ Cut(s, k) \in [1 .. Len(Cut(s, k)) -> Scored]
           /\ \A i \in 1 .. Len(Cut(s, k)) : Cut(s, k)[i] = s[i]
<1>1. s \in Seq(Scored) /\ Len(s) = n
  BY SeqDef
<1>2. CASE k > 0 /\ n > k
  <2>1. Cut(s, k) = SubSeq(s, 1, k)
    BY <1>1, <1>2 DEF Cut
  <2>2. \A i \in 1 .. k : s[i] \in Scored
    BY <1>2
  <2>3. /\ SubSeq(s, 1, k) \in Seq(Scored)
        /\ Len(SubSeq(s, 1, k)) = k
        /\ \A i \in 1 .. k : SubSeq(s, 1, k)[i] = s[i]
    BY <1>2, <2>2, SubSeqProperties
  <2> QED
    BY <1>2, <2>1, <2>3, LenProperties
<1>3. CASE ~(k > 0 /\ n > k)
  BY <1>1, <1>3 DEF Cut
<1> QED
  BY <1>2, <1>3

LEMMA FusedRows ==
    ASSUME NEW n \in Nat, NEW rows \in [1 .. n -> Scored],
           NEW alpha \in 0 .. Den, NEW k \in Nat
    PROVE  LET fused == FuseAlpha(rows, alpha, k)
               score == Blended(rows, alpha)
           IN  /\ score \in [1 .. n -> Int]
               /\ Len(fused) = IF k > 0 /\ n > k THEN k ELSE n
               /\ fused \in [1 .. Len(fused) -> Scored]
               /\ \A i \in 1 .. Len(fused) :
                     \E q \in 1 .. n : fused[i] = rows[q] /\ Place(score, q) = i
               /\ \A q \in 1 .. n :
                     Place(score, q) <= Len(fused) => fused[Place(score, q)] = rows[q]
<1> DEFINE fused == FuseAlpha(rows, alpha, k)
           score == Blended(rows, alpha)
           order == StableDescending(score)
           sorted == [i \in 1 .. n |-> rows[order[i]]]
<1>1. score \in [1 .. n -> Int]
  BY BlendIsInt DEF Blended
<1>2. fused = Cut(sorted, k)
  BY DEF FuseAlpha, Blended
<1> HIDE DEF score, fused
<1>3. /\ order \in [1 .. n -> 1 .. n]
      /\ \A j \in 1 .. n : order[Place(score, j)] = j
      /\ \A p \in 1 .. n : Place(score, order[p]) = p
  BY <1>1, StableDescendingSorts
<1> HIDE DEF order
<1>4. sorted \in [1 .. n -> Scored]
  BY <1>3
<1>5. \A i \in 1 .. n : sorted[i] = rows[order[i]]
  OBVIOUS
<1> HIDE DEF sorted
<1>6. /\ Len(fused) = IF k > 0 /\ n > k THEN k ELSE n
      /\ fused \in [1 .. Len(fused) -> Scored]
      /\ \A i \in 1 .. Len(fused) : fused[i] = sorted[i]
  <2>1. /\ Len(Cut(sorted, k)) = IF k > 0 /\ n > k THEN k ELSE n
        /\ Cut(sorted, k) \in [1 .. Len(Cut(sorted, k)) -> Scored]
        /\ \A i \in 1 .. Len(Cut(sorted, k)) : Cut(sorted, k)[i] = sorted[i]
    BY <1>4, CutRows
  <2> QED
    BY <1>2, <2>1
<1>7. Len(fused) \in Nat /\ Len(fused) <= n
  BY <1>6
<1>8. ASSUME NEW i \in 1 .. Len(fused)
      PROVE  \E q \in 1 .. n : fused[i] = rows[q] /\ Place(score, q) = i
  <2>1. i \in 1 .. n
    BY <1>7
  <2> QED
    BY <2>1, <1>3, <1>5, <1>6
<1>9. ASSUME NEW q \in 1 .. n, Place(score, q) <= Len(fused)
      PROVE  fused[Place(score, q)] = rows[q]
  <2>1. Place(score, q) \in 1 .. n
    BY <1>1, AheadIsFinite
  <2>2. Place(score, q) \in 1 .. Len(fused)
    BY <1>7, <1>9, <2>1
  <2> QED
    BY <2>1, <2>2, <1>3, <1>5, <1>6
<1> QED
  BY <1>1, <1>6, <1>8, <1>9 DEF fused, score

-----------------------------------------------------------------------------
(* The rows of the database: the best of one side, and the join of both.   *)

LEMMA SmallerOfTwo ==
    ASSUME NEW a \in Int, NEW b \in Int
    PROVE  Min({a, b}) = IF a <= b THEN a ELSE b
<1>1. PICK m \in {a, b} : m = IF a <= b THEN a ELSE b
  OBVIOUS
<1>2. \A y \in {a, b} : m <= y
  BY <1>1
<1>3. \A x \in {a, b} : (\A y \in {a, b} : x <= y) => x = m
  BY <1>1
<1> QED
  BY <1>1, <1>2, <1>3 DEF Min

LEMMA BestRows ==
    ASSUME NEW S, IsFiniteSet(S), NEW score, \A x \in S : score[x] \in Int, NEW n \in Nat,
           NEW T \in Top(S, score, n)
    PROVE  /\ T \subseteq S
           /\ IsFiniteSet(T)
           /\ Cardinality(S) \in Nat
           /\ Cardinality(T) = IF n <= Cardinality(S) THEN n ELSE Cardinality(S)
           /\ \A a \in S, b \in T : score[a] > score[b] => a \in T
           /\ \A a \in S, b \in T : a \notin T => score[b] >= score[a]
<1>1. T \subseteq S /\ \A a \in T, b \in S \ T : score[a] >= score[b]
  BY DEF Top
<1>2. Cardinality(S) \in Nat
  BY FS_CardinalityType
<1>3. Cardinality(T) = IF n <= Cardinality(S) THEN n ELSE Cardinality(S)
  BY <1>2, SmallerOfTwo DEF Top
<1>4. IsFiniteSet(T)
  BY <1>1, FS_Subset
<1>5. \A a \in S, b \in T : score[a] \in Int /\ score[b] \in Int
  BY <1>1
<1>6. \A a \in S, b \in T : score[a] > score[b] => a \in T
  BY <1>1, <1>5
<1> QED
  BY <1>1, <1>2, <1>3, <1>4, <1>6

\* SetToSeqs lists every element of a finite set once.
LEMMA ListsOfSet ==
    ASSUME NEW S, IsFiniteSet(S), NEW s \in SetToSeqs(S)
    PROVE  /\ Cardinality(S) \in Nat
           /\ s \in [1 .. Cardinality(S) -> S]
           /\ Len(s) = Cardinality(S)
           /\ \A i, j \in 1 .. Cardinality(S) : i # j => s[i] # s[j]
           /\ \A x \in S : \E i \in 1 .. Cardinality(S) : s[i] = x
<1> DEFINE n == Cardinality(S)
<1>1. n \in Nat
  BY FS_CardinalityType
<1>2. s \in [1 .. n -> S] /\ \A i, j \in 1 .. n : i # j => s[i] # s[j]
  BY DEF SetToSeqs
<1>3. Len(s) = n
  BY <1>1, <1>2
<1>4. s \in Injection(1 .. n, S)
  <2> HIDE DEF n
  <2> QED
    BY <1>2, Fun_IsInj
<1>5. IsFiniteSet(1 .. n) /\ Cardinality(1 .. n) = n
  BY <1>1, FS_Interval
<1>6. s \in Surjection(1 .. n, S)
  BY <1>4, <1>5, FS_Injection
<1>7. \A x \in S : \E i \in 1 .. n : s[i] = x
  BY <1>6 DEF Surjection
<1> QED
  BY <1>1, <1>2, <1>3, <1>7

\* A set of rows made from a set of ids, one for each, listed in any order.
LEMMA ListsOfRows ==
    ASSUME NEW S, IsFiniteSet(S), NEW row, DOMAIN row = S,
           row = [id \in S |-> row[id]],
           \A id \in S : row[id].id = id,
           NEW s \in SetToSeqs({row[id] : id \in S})
    PROVE  LET n == Cardinality(S)
           IN  /\ n \in Nat
               /\ Len(s) = n
               /\ DOMAIN s = 1 .. n
               /\ s = [i \in 1 .. n |-> s[i]]
               /\ \A i \in 1 .. n : s[i].id \in S /\ s[i] = row[s[i].id]
               /\ \A i, j \in 1 .. n : i # j => s[i].id # s[j].id
               /\ \A id \in S : \E i \in 1 .. n : s[i].id = id
<1> DEFINE R == {row[id] : id \in S}
           n == Cardinality(S)
<1>1. row \in [S -> R]
  OBVIOUS
<1>2. row \in Surjection(S, R)
  BY <1>1 DEF Surjection
<1>3. row \in Injection(S, R)
  <2> HIDE DEF R
  <2> QED
    BY <1>1, Fun_IsInj
<1>4. IsFiniteSet(R) /\ Cardinality(R) = n
  BY <1>2, <1>3, FS_Surjection
<1>5. /\ n \in Nat
      /\ s \in [1 .. n -> R]
      /\ Len(s) = n
      /\ \A i, j \in 1 .. n : i # j => s[i] # s[j]
      /\ \A x \in R : \E i \in 1 .. n : s[i] = x
  <2> HIDE DEF R, n
  <2>1. s \in SetToSeqs(R)
    BY DEF R
  <2> QED
    BY <1>4, <2>1, ListsOfSet
<1>6. \A x \in R : x.id \in S /\ x = row[x.id]
  OBVIOUS
<1>7. \A id \in S : row[id] \in R
  OBVIOUS
<1> HIDE DEF R, n
<1>8. \A i \in 1 .. n : s[i].id \in S /\ s[i] = row[s[i].id]
  BY <1>5, <1>6
<1>9. \A i, j \in 1 .. n : i # j => s[i].id # s[j].id
  BY <1>5, <1>8
<1>10. ASSUME NEW id \in S
       PROVE  \E i \in 1 .. n : s[i].id = id
  <2>1. PICK i \in 1 .. n : s[i] = row[id]
    BY <1>5, <1>7
  <2> QED
    BY <2>1
<1> QED
  BY <1>5, <1>8, <1>9, <1>10 DEF n

-----------------------------------------------------------------------------
(* What SearchCandidates found, and what a vector search returned.         *)

Gathered(vec, kw) ==
    /\ vec \in Top(Ids, corpus.v, Depth)
    /\ kw \in Top(Matching, corpus.k, Depth)
    /\ cands \in SetToSeqs(Join(vec, kw))

VectorRow(id) == [id |-> id, v |-> corpus.v[id], k |-> 0]

Nearest(T) ==
    /\ T \in Top(Ids \ UnderFloor(asked.floor), corpus.v, asked.k)
    /\ out \in Ranked({VectorRow(id) : id \in T}, corpus.v)

(***************************************************************************)
(* TypeOK says nothing of where the rows of cands and out come from.       *)
(***************************************************************************)
Origin ==
    /\ stage = "fusing" => asked.by = "hybrid"
    /\ stage = "fusing" \/ Fused => \E vec, kw \in SUBSET Ids : Gathered(vec, kw)
    /\ Fused => out = FuseAlpha(cands, asked.alpha, asked.k)
    /\ stage = "returned" /\ asked.by = "vector" => \E T \in SUBSET Ids : Nearest(T)

LEMMA QueryTypes ==
    ASSUME TypeOK
    PROVE  /\ asked.k \in Nat
           /\ asked.by \in {"vector", "keyword", "hybrid"}
           /\ asked.by = "hybrid" => asked.alpha \in 0 .. Den
           /\ asked.by = "vector" => asked.floor \in Floors
  BY BoundsAssumption DEF TypeOK, Queries

LEMMA CorpusTypes ==
    ASSUME TypeOK
    PROVE  /\ corpus.v \in [Ids -> Int]
           /\ corpus.k \in [Ids -> Int]
           /\ \A id \in Ids : corpus.v[id] \in VectorScores
           /\ \A id \in Ids : corpus.k[id] = NoMatch \/ corpus.k[id] \in KeywordScores
           /\ \A id \in Matching : corpus.k[id] \in KeywordScores /\ corpus.k[id] >= 0
           /\ Candidates \subseteq Scored
<1>1. /\ corpus.v \in [Ids -> VectorScores]
      /\ corpus.k \in [Ids -> KeywordScores \cup {NoMatch}]
  BY DEF TypeOK, Corpora
<1>2. /\ VectorScores \subseteq Int
      /\ KeywordScores \subseteq Nat
      /\ VectorScores \cup {0} \subseteq Int
      /\ KeywordScores \cup {0} \subseteq Int
      /\ KeywordScores \cup {NoMatch} \subseteq Int
  BY BoundsAssumption DEF NoMatch
<1>3. \A id \in Ids : corpus.k[id] = NoMatch \/ corpus.k[id] \in KeywordScores
  BY <1>1
<1>4. \A id \in Matching : corpus.k[id] \in KeywordScores /\ corpus.k[id] >= 0
  BY <1>2, <1>3 DEF Matching
<1>5. corpus.v \in [Ids -> Int] /\ corpus.k \in [Ids -> Int]
  <2>1. ASSUME NEW id \in Ids
        PROVE  corpus.v[id] \in Int /\ corpus.k[id] \in Int
    <3>1. corpus.v[id] \in VectorScores /\ corpus.k[id] \in KeywordScores \cup {NoMatch}
      BY <1>1
    <3> QED
      BY <1>2, <3>1, Zenon
  <2> QED
    BY <1>1, <2>1
<1>6. Candidates \subseteq Scored
  BY <1>2 DEF Candidates, Scored
<1>7. \A id \in Ids : corpus.v[id] \in VectorScores
  BY <1>1
<1> QED
  BY <1>3, <1>4, <1>5, <1>6, <1>7

\* The candidates list every row of the two sides once, each with its scores.
Listing(vec, kw, n) ==
    /\ vec \subseteq Ids
    /\ kw \subseteq Matching
    /\ IsFiniteSet(vec \cup kw)
    /\ n \in Nat
    /\ Len(cands) = n
    /\ cands \in [1 .. n -> Candidates]
    /\ cands \in [1 .. n -> Scored]
    /\ \A i \in 1 .. n :
          /\ cands[i].id \in vec \cup kw
          /\ cands[i].v = IF cands[i].id \in vec THEN corpus.v[cands[i].id] ELSE 0
          /\ cands[i].k = IF cands[i].id \in kw THEN corpus.k[cands[i].id] ELSE 0
    /\ \A i, j \in 1 .. n : i # j => cands[i].id # cands[j].id
    /\ \A id \in vec \cup kw : \E i \in 1 .. n : cands[i].id = id

LEMMA GatheredRows ==
    ASSUME TypeOK, NEW vec, NEW kw, Gathered(vec, kw)
    PROVE  Listing(vec, kw, Cardinality(vec \cup kw))
<1> DEFINE S == vec \cup kw
           n == Cardinality(S)
           row == [id \in S |->
                     [id |-> id,
                      v |-> IF id \in vec THEN corpus.v[id] ELSE 0,
                      k |-> IF id \in kw THEN corpus.k[id] ELSE 0]]
<1>1. vec \subseteq Ids /\ kw \subseteq Matching /\ Matching \subseteq Ids
  BY DEF Gathered, Top, Matching
<1>2. IsFiniteSet(S)
  BY <1>1, BoundsAssumption, FS_Subset
<1>3. DOMAIN row = S /\ row = [id \in S |-> row[id]] /\ \A id \in S : row[id].id = id
  OBVIOUS
<1>4. Join(vec, kw) = {row[id] : id \in S}
  BY DEF Join
<1>5. cands \in SetToSeqs({row[id] : id \in S})
  BY <1>4 DEF Gathered
<1>6. \A id \in S : row[id] \in Candidates
  <2>1. /\ \A id \in Ids : corpus.v[id] \in VectorScores
        /\ \A id \in kw : corpus.k[id] \in KeywordScores
    BY <1>1, CorpusTypes
  <2> QED
    BY <1>1, <2>1 DEF Candidates
<1>7. \A id \in S : /\ row[id].v = IF id \in vec THEN corpus.v[id] ELSE 0
                    /\ row[id].k = IF id \in kw THEN corpus.k[id] ELSE 0
  OBVIOUS
<1> HIDE DEF row, n, S
<1>8. LET m == Cardinality(S)
      IN  /\ m \in Nat
          /\ Len(cands) = m
          /\ DOMAIN cands = 1 .. m
          /\ cands = [i \in 1 .. m |-> cands[i]]
          /\ \A i \in 1 .. m : cands[i].id \in S /\ cands[i] = row[cands[i].id]
          /\ \A i, j \in 1 .. m : i # j => cands[i].id # cands[j].id
          /\ \A id \in S : \E i \in 1 .. m : cands[i].id = id
  BY <1>2, <1>3, <1>5, ListsOfRows
<1>9. cands \in [1 .. n -> Candidates] /\ cands \in [1 .. n -> Scored]
  BY <1>6, <1>8, CorpusTypes DEF n
<1>10. \A i \in 1 .. n :
          /\ cands[i].id \in S
          /\ cands[i].v = IF cands[i].id \in vec THEN corpus.v[cands[i].id] ELSE 0
          /\ cands[i].k = IF cands[i].id \in kw THEN corpus.k[cands[i].id] ELSE 0
  BY <1>7, <1>8 DEF n
<1> QED
  BY <1>1, <1>2, <1>8, <1>9, <1>10 DEF n, S, Listing

-----------------------------------------------------------------------------
LEMMA InitHolds == Init => TypeOK /\ Origin
<1> SUFFICES ASSUME Init PROVE TypeOK /\ Origin
  OBVIOUS
<1>1. Range(<< >>) = {}
  BY DEF Range
<1>2. TypeOK
  BY <1>1 DEF Init, TypeOK
<1>3. Origin
  BY DEF Init, Origin, Fused
<1> QED
  BY <1>2, <1>3

\* Rows that one search lists are candidates, whatever their order.
LEMMA RankedRows ==
    ASSUME TypeOK, NEW R, R \subseteq Candidates, NEW score, NEW s \in Ranked(R, score)
    PROVE  Range(s) \subseteq Candidates
<1>1. s \in [1 .. Cardinality(R) -> R]
  BY DEF Ranked, SetToSeqs
<1> QED
  BY <1>1 DEF Range

LEMMA TypeStep == TypeOK /\ Origin /\ [Next]_vars => TypeOK'
<1> SUFFICES ASSUME TypeOK, Origin, [Next]_vars PROVE TypeOK'
  OBVIOUS
<1>1. CASE SearchVector
  <2>1. PICK T \in Top(Ids \ UnderFloor(asked.floor), corpus.v, asked.k) :
           out' \in Ranked({VectorRow(id) : id \in T}, corpus.v)
    BY <1>1 DEF SearchVector, VectorRow
  <2>2. {VectorRow(id) : id \in T} \subseteq Candidates
    <3>1. T \subseteq Ids
      BY <2>1 DEF Top
    <3>2. \A id \in Ids : corpus.v[id] \in VectorScores
      BY CorpusTypes
    <3> QED
      BY <3>1, <3>2 DEF VectorRow, Candidates
  <2>3. Range(out') \subseteq Candidates
    BY <2>1, <2>2, RankedRows
  <2> QED
    BY <1>1, <2>3 DEF SearchVector, TypeOK, Corpora, Candidates, Queries
<1>2. CASE SearchKeyword
  <2>1. PICK T \in Top(Matching, corpus.k, asked.k) :
           out' \in Ranked({[id |-> id, v |-> 0, k |-> corpus.k[id]] : id \in T}, corpus.k)
    BY <1>2 DEF SearchKeyword
  <2>2. {[id |-> id, v |-> 0, k |-> corpus.k[id]] : id \in T} \subseteq Candidates
    <3>1. T \subseteq Matching /\ Matching \subseteq Ids
      BY <2>1 DEF Top, Matching
    <3>2. \A id \in T : corpus.k[id] \in KeywordScores
      BY <3>1, CorpusTypes
    <3> QED
      BY <3>1, <3>2 DEF Candidates
  <2>3. Range(out') \subseteq Candidates
    BY <2>1, <2>2, RankedRows
  <2> QED
    BY <1>2, <2>3 DEF SearchKeyword, TypeOK, Corpora, Candidates, Queries
<1>3. CASE SearchCandidates
  <2>1. PICK vec \in Top(Ids, corpus.v, Depth), kw \in Top(Matching, corpus.k, Depth) :
           cands' \in SetToSeqs(Join(vec, kw))
    BY <1>3 DEF SearchCandidates
  <2>2. cands' \in [1 .. Cardinality(Join(vec, kw)) -> Join(vec, kw)]
    BY <2>1 DEF SetToSeqs
  <2>3. vec \subseteq Ids /\ kw \subseteq Matching /\ Matching \subseteq Ids
    BY <2>1 DEF Top, Matching
  <2>4. Join(vec, kw) \subseteq Candidates
    <3>1. /\ \A id \in Ids : corpus.v[id] \in VectorScores
          /\ \A id \in kw : corpus.k[id] \in KeywordScores
      BY <2>3, CorpusTypes
    <3> QED
      BY <2>3, <3>1 DEF Join, Candidates
  <2>5. Range(cands') \subseteq Candidates
    BY <2>2, <2>4 DEF Range
  <2> QED
    BY <1>3, <2>5 DEF SearchCandidates, TypeOK, Corpora, Candidates, Queries
<1>4. CASE SearchFails
  BY <1>4 DEF SearchFails, TypeOK, Corpora, Candidates, Queries
<1>5. CASE Fuse
  <2>1. PICK vec, kw \in SUBSET Ids : Gathered(vec, kw)
    BY <1>5 DEF Fuse, Origin
  <2>2. asked.by = "hybrid"
    BY <1>5 DEF Fuse, Origin
  <2> DEFINE n == Cardinality(vec \cup kw)
             fused == FuseAlpha(cands, asked.alpha, asked.k)
  <2>3. n \in Nat /\ cands \in [1 .. n -> Candidates] /\ cands \in [1 .. n -> Scored]
    BY <2>1, GatheredRows DEF Listing
  <2>4. asked.alpha \in 0 .. Den /\ asked.k \in Nat
    BY <2>2, QueryTypes
  <2> HIDE DEF n
  <2>5. /\ fused \in [1 .. Len(fused) -> Scored]
        /\ \A i \in 1 .. Len(fused) : \E q \in 1 .. n : fused[i] = cands[q]
    BY <2>3, <2>4, FusedRows
  <2>6. Range(out') \subseteq Candidates
    <3> HIDE DEF fused
    <3>1. \A i \in DOMAIN fused : fused[i] \in Candidates
      BY <2>3, <2>5
    <3>2. out' = fused
      BY <1>5 DEF Fuse, fused
    <3> QED
      BY <3>1, <3>2 DEF Range
  <2> QED
    BY <1>5, <2>6 DEF Fuse, TypeOK, Corpora, Candidates, Queries
<1>6. CASE Ask
  <2>1. Range(<< >>) = {}
    BY DEF Range
  <2> QED
    BY <1>6, <2>1 DEF Ask, TypeOK, Corpora, Candidates, Queries
<1>7. CASE UNCHANGED vars
  BY <1>7 DEF vars, TypeOK, Corpora, Candidates, Queries
<1> QED
  BY <1>1, <1>2, <1>3, <1>4, <1>5, <1>6, <1>7 DEF Next

LEMMA OriginStep == TypeOK /\ Origin /\ [Next]_vars => Origin'
<1> SUFFICES ASSUME TypeOK, Origin, [Next]_vars PROVE Origin'
  OBVIOUS
<1>1. CASE SearchVector
  <2>1. PICK T \in Top(Ids \ UnderFloor(asked.floor), corpus.v, asked.k) :
           out' \in Ranked({VectorRow(id) : id \in T}, corpus.v)
    BY <1>1 DEF SearchVector, VectorRow
  <2>2. T \in SUBSET Ids
    BY <2>1 DEF Top
  <2>3. corpus' = corpus /\ asked' = asked /\ asked.by = "vector" /\ stage' = "returned"
    BY <1>1 DEF SearchVector
  <2>4. Nearest(T)'
    BY <2>1, <2>3 DEF Nearest, UnderFloor, VectorRow
  <2> QED
    BY <2>2, <2>3, <2>4 DEF Origin, Fused
<1>2. CASE SearchKeyword
  BY <1>2 DEF SearchKeyword, Origin, Fused
<1>3. CASE SearchCandidates
  <2>1. PICK vec \in Top(Ids, corpus.v, Depth), kw \in Top(Matching, corpus.k, Depth) :
           cands' \in SetToSeqs(Join(vec, kw))
    BY <1>3 DEF SearchCandidates
  <2>2. vec \in SUBSET Ids /\ kw \in SUBSET Ids
    BY <2>1 DEF Top, Matching
  <2>3. corpus' = corpus /\ asked' = asked /\ asked.by = "hybrid" /\ stage' = "fusing"
    BY <1>3 DEF SearchCandidates
  <2>4. Gathered(vec, kw)'
    BY <2>1, <2>3 DEF Gathered, Matching, Join
  <2> QED
    BY <2>2, <2>3, <2>4 DEF Origin, Fused
<1>4. CASE SearchFails
  BY <1>4 DEF SearchFails, Origin, Fused
<1>5. CASE Fuse
  <2>1. PICK vec, kw \in SUBSET Ids : Gathered(vec, kw)
    BY <1>5 DEF Fuse, Origin
  <2>2. /\ corpus' = corpus /\ asked' = asked /\ cands' = cands
        /\ asked.by = "hybrid" /\ stage' = "returned"
        /\ out' = FuseAlpha(cands, asked.alpha, asked.k)
    BY <1>5 DEF Fuse, Origin
  <2>3. Gathered(vec, kw)'
    BY <2>1, <2>2 DEF Gathered, Matching, Join
  <2> QED
    BY <2>2, <2>3 DEF Origin, Fused
<1>6. CASE Ask
  BY <1>6 DEF Ask, Origin, Fused
<1>7. CASE UNCHANGED vars
  <2>1. \A vec, kw : Gathered(vec, kw)' = Gathered(vec, kw)
    BY <1>7 DEF vars, Gathered, Matching, Join
  <2>2. \A T : Nearest(T)' = Nearest(T)
    BY <1>7 DEF vars, Nearest, UnderFloor, VectorRow
  <2> QED
    BY <1>7, <2>1, <2>2 DEF vars, Origin, Fused
<1> QED
  BY <1>1, <1>2, <1>3, <1>4, <1>5, <1>6, <1>7 DEF Next

\* The invariant the theorems below rest on.
THEOREM RowsHaveAnOrigin == Spec => [](TypeOK /\ Origin)
<1>1. Init => TypeOK /\ Origin
  BY InitHolds
<1>2. TypeOK /\ Origin /\ [Next]_vars => (TypeOK /\ Origin)'
  BY TypeStep, OriginStep
<1> QED
  BY <1>1, <1>2, PTL DEF Spec

\* TypeOK for every collection and every scale of scores.
THEOREM TypeCorrect == Spec => []TypeOK
  BY RowsHaveAnOrigin, PTL

-----------------------------------------------------------------------------
(***************************************************************************)
(* A fused result, position by position: it holds the candidates by        *)
(* descending blend, and a candidate that is better on a side that counts  *)
(* and not worse on the other stands before.                               *)
(***************************************************************************)
StandsAt(n, i, b) ==
    LET score == Blended(cands, asked.alpha)
    IN  /\ out[i] = cands[b]
        /\ Place(score, b) = i
        /\ \A a \in 1 .. n :
              /\ asked.alpha > 0 => cands[a].v >= cands[b].v
              /\ asked.alpha < Den => cands[a].k >= cands[b].k
              /\ \/ asked.alpha > 0 /\ cands[a].v > cands[b].v
                 \/ asked.alpha < Den /\ cands[a].k > cands[b].k
              => a \in Ahead(score, b) /\ \E j \in 1 .. i-1 : out[j] = cands[a]

LEMMA BetterStandsBefore ==
    ASSUME TypeOK, Origin, Fused,
           NEW vec, NEW kw, Gathered(vec, kw)
    PROVE  LET n == Cardinality(vec \cup kw)
           IN  /\ Listing(vec, kw, n)
               /\ Blended(cands, asked.alpha) \in [1 .. n -> Int]
               /\ Len(out) = IF asked.k > 0 /\ n > asked.k THEN asked.k ELSE n
               /\ Len(out) \in Nat
               /\ DOMAIN out = 1 .. Len(out)
               /\ \A i \in DOMAIN out : \E b \in 1 .. n : StandsAt(n, i, b)
<1> DEFINE n == Cardinality(vec \cup kw)
           score == Blended(cands, asked.alpha)
<1>1. asked.alpha \in 0 .. Den /\ asked.k \in Nat
  BY QueryTypes DEF Fused
<1>2. Listing(vec, kw, n) /\ n \in Nat /\ cands \in [1 .. n -> Scored]
  <2>1. Listing(vec, kw, n)
    BY GatheredRows
  <2> HIDE DEF n
  <2> QED
    BY <2>1 DEF Listing
<1>3. out = FuseAlpha(cands, asked.alpha, asked.k)
  BY DEF Origin
<1>4. \A q \in 1 .. n : score[q] = Blend(cands, asked.alpha, cands[q])
  BY <1>2 DEF Blended
<1> HIDE DEF n
<1>5. /\ score \in [1 .. n -> Int]
      /\ Len(out) = IF asked.k > 0 /\ n > asked.k THEN asked.k ELSE n
      /\ out \in [1 .. Len(out) -> Scored]
      /\ \A p \in 1 .. Len(out) :
            \E q \in 1 .. n : out[p] = cands[q] /\ Place(score, q) = p
      /\ \A q \in 1 .. n :
            Place(score, q) <= Len(out) => out[Place(score, q)] = cands[q]
  <2> DEFINE fused == FuseAlpha(cands, asked.alpha, asked.k)
  <2>1. /\ score \in [1 .. n -> Int]
        /\ Len(fused) = IF asked.k > 0 /\ n > asked.k THEN asked.k ELSE n
        /\ fused \in [1 .. Len(fused) -> Scored]
        /\ \A p \in 1 .. Len(fused) :
              \E q \in 1 .. n : fused[p] = cands[q] /\ Place(score, q) = p
        /\ \A q \in 1 .. n :
              Place(score, q) <= Len(fused) => fused[Place(score, q)] = cands[q]
    BY <1>1, <1>2, FusedRows
  <2>2. out = fused
    BY <1>3
  <2> HIDE DEF fused, score
  <2> QED
    BY <2>1, <2>2
<1> HIDE DEF score
<1>6. Len(out) \in Nat /\ DOMAIN out = 1 .. Len(out)
  BY <1>1, <1>2, <1>5
<1>7. ASSUME NEW i \in DOMAIN out
      PROVE  \E b \in 1 .. n : StandsAt(n, i, b)
  <2>1. i \in 1 .. Len(out)
    BY <1>6
  <2>2. PICK b \in 1 .. n : out[i] = cands[b] /\ Place(score, b) = i
    BY <1>5, <2>1
  <2>3. ASSUME NEW a \in 1 .. n,
               asked.alpha > 0 => cands[a].v >= cands[b].v,
               asked.alpha < Den => cands[a].k >= cands[b].k,
               \/ asked.alpha > 0 /\ cands[a].v > cands[b].v
               \/ asked.alpha < Den /\ cands[a].k > cands[b].k
        PROVE  a \in Ahead(score, b) /\ \E j \in 1 .. i-1 : out[j] = cands[a]
    <3>1. Blend(cands, asked.alpha, cands[a]) > Blend(cands, asked.alpha, cands[b])
      BY <1>1, <1>2, <2>3, BetterBlendsHigher
    <3>2. score[a] > score[b]
      BY <1>4, <3>1
    <3>3. a \in Ahead(score, b)
      BY <1>5, <3>2 DEF Ahead
    <3>4. Place(score, a) < i /\ Place(score, a) \in 1 .. n
      BY <1>2, <1>5, <2>2, <3>3, AheadComesFirst, AheadIsFinite
    <3>5. Place(score, a) \in 1 .. i-1 /\ Place(score, a) <= Len(out)
      BY <1>6, <2>1, <3>4
    <3>6. out[Place(score, a)] = cands[a]
      BY <1>5, <3>5
    <3> QED
      BY <3>3, <3>5, <3>6
  <2>4. StandsAt(n, i, b)
    BY <2>2, <2>3 DEF StandsAt, score
  <2> QED
    BY <2>4
<1> QED
  BY <1>2, <1>5, <1>6, <1>7 DEF n, score

(***************************************************************************)
(* BetterOnBothSidesFirst: neither the cut at Depth nor the 0 for a side   *)
(* that has not found a row can invert two rows on which both sides agree. *)
(***************************************************************************)
LEMMA BetterRowsFirst ==
    ASSUME TypeOK, Origin
    PROVE  BetterOnBothSidesFirst
<1> SUFFICES ASSUME Fused, asked.alpha \in 1 .. Den-1,
                    NEW i \in DOMAIN out, NEW a \in Ids, Dominates(a, out[i].id)
             PROVE  \E j \in 1 .. i-1 : out[j].id = a
  BY DEF BetterOnBothSidesFirst
<1>1. PICK vec, kw \in SUBSET Ids : Gathered(vec, kw)
  BY DEF Origin
<1> DEFINE n == Cardinality(vec \cup kw)
<1>2. asked.alpha > 0 /\ asked.alpha < Den
  BY BoundsAssumption
<1>3. PICK b \in 1 .. n :
         /\ out[i] = cands[b]
         /\ \A c \in 1 .. n :
               /\ cands[c].v >= cands[b].v
               /\ cands[c].k >= cands[b].k
               /\ cands[c].v > cands[b].v \/ cands[c].k > cands[b].k
               => \E j \in 1 .. i-1 : out[j] = cands[c]
  <2>1. n \in Nat /\ cands \in [1 .. n -> Scored]
    BY <1>1, GatheredRows DEF Listing
  <2>2. \E b \in 1 .. n : StandsAt(n, i, b)
    BY <1>1, BetterStandsBefore
  <2> HIDE DEF n
  <2> QED
    BY <1>2, <2>1, <2>2 DEF StandsAt, Scored
<1>4. /\ vec \subseteq Ids
      /\ kw \subseteq Matching
      /\ \A c \in 1 .. n :
            /\ cands[c].id \in vec \cup kw
            /\ cands[c].v = IF cands[c].id \in vec THEN corpus.v[cands[c].id] ELSE 0
            /\ cands[c].k = IF cands[c].id \in kw THEN corpus.k[cands[c].id] ELSE 0
      /\ \A id \in vec \cup kw : \E c \in 1 .. n : cands[c].id = id
  <2>1. Listing(vec, kw, n)
    BY <1>1, GatheredRows
  <2> HIDE DEF n
  <2> QED
    BY <2>1 DEF Listing
<1> HIDE DEF n
<1> DEFINE x == cands[b].id
<1>5. x \in vec \cup kw /\ x \in Ids
  BY <1>4 DEF Matching
<1>6. /\ corpus.v[a] >= 0
      /\ corpus.v[a] > corpus.v[x]
      /\ corpus.k[a] > corpus.k[x]
  BY <1>3 DEF Dominates
<1>7. /\ corpus.v[a] \in Int /\ corpus.v[x] \in Int
      /\ corpus.k[a] \in Int /\ corpus.k[x] \in Int
      /\ corpus.k[x] >= NoMatch
  <2>1. /\ corpus.v \in [Ids -> Int]
        /\ corpus.k \in [Ids -> Int]
        /\ corpus.k[x] = NoMatch \/ corpus.k[x] \in KeywordScores
    BY <1>5, CorpusTypes
  <2>2. \A y \in KeywordScores : y >= NoMatch
    BY BoundsAssumption DEF NoMatch
  <2> QED
    BY <1>5, <2>1, <2>2 DEF NoMatch
<1>8. x \in vec => a \in vec
  BY <1>1, <1>5, <1>6, <1>7 DEF Gathered, Top
<1>9. a \in Matching /\ corpus.k[a] >= 0
  <2>1. a \in Matching
    BY <1>6, <1>7 DEF Matching, NoMatch
  <2> QED
    BY <2>1, CorpusTypes
<1>10. x \in kw => a \in kw
  BY <1>1, <1>5, <1>6, <1>7, <1>9 DEF Gathered, Top
<1>11. PICK c \in 1 .. n : cands[c].id = a
  BY <1>4, <1>5, <1>8, <1>10
<1>12. /\ cands[c].v = IF a \in vec THEN corpus.v[a] ELSE 0
       /\ cands[c].k = IF a \in kw THEN corpus.k[a] ELSE 0
       /\ cands[b].v = IF x \in vec THEN corpus.v[x] ELSE 0
       /\ cands[b].k = IF x \in kw THEN corpus.k[x] ELSE 0
  BY <1>4, <1>11
<1> HIDE DEF x
<1>13. /\ cands[c].v >= cands[b].v
       /\ cands[c].k >= cands[b].k
       /\ cands[c].v > cands[b].v \/ cands[c].k > cands[b].k
  BY <1>5, <1>6, <1>7, <1>8, <1>9, <1>10, <1>12
<1> QED
  BY <1>3, <1>11, <1>13

\* The blend keeps what both sides agree on, for any alpha between the ends.
THEOREM BlendKeepsAgreement == Spec => []BetterOnBothSidesFirst
<1>1. TypeOK /\ Origin => BetterOnBothSidesFirst
  BY BetterRowsFirst
<1> QED
  BY <1>1, RowsHaveAnOrigin, PTL

-----------------------------------------------------------------------------
(* Counting: a row that a whole set of others stands before is further     *)
(* down than that set is large.                                            *)

LEMMA StandsBehindAll ==
    ASSUME NEW vec, NEW kw, NEW n, Listing(vec, kw, n),
           NEW score \in [1 .. n -> Int], NEW b \in 1 .. n,
           NEW S, S \subseteq vec \cup kw,
           \A c \in 1 .. n : cands[c].id \in S => c \in Ahead(score, b)
    PROVE  Cardinality(S) < Place(score, b)
<1> DEFINE f == [id \in S |-> CHOOSE c \in 1 .. n : cands[c].id = id]
<1>1. ASSUME NEW id \in S
      PROVE  f[id] \in 1 .. n /\ cands[f[id]].id = id
  <2>1. \E c \in 1 .. n : cands[c].id = id
    BY DEF Listing
  <2> QED
    BY <2>1
<1>2. DOMAIN f = S /\ f = [id \in S |-> f[id]]
  OBVIOUS
<1> HIDE DEF f
<1>3. f \in [S -> Ahead(score, b)]
  BY <1>1, <1>2
<1>4. \A x, y \in S : x # y => f[x] # f[y]
  BY <1>1
<1>5. f \in Injection(S, Ahead(score, b))
  BY <1>3, <1>4, Fun_IsInj
<1>6. n \in Nat
  BY DEF Listing
<1>7. /\ IsFiniteSet(Ahead(score, b))
      /\ Cardinality(Ahead(score, b)) \in Nat
      /\ Place(score, b) = 1 + Cardinality(Ahead(score, b))
  BY <1>6, AheadIsFinite
<1>8. IsFiniteSet(S) /\ Cardinality(S) <= Cardinality(Ahead(score, b))
  BY <1>5, <1>7, FS_Injection
<1>9. Cardinality(S) \in Nat
  BY <1>8, FS_CardinalityType
<1> QED
  BY <1>7, <1>8, <1>9

LEMMA LimitIsDepth ==
    ASSUME TypeOK, NEW len \in Nat
    PROVE  /\ Limit \in Nat
           /\ Limit <= Depth
           /\ asked.k > 0 => Limit <= asked.k
           /\ \A i \in 1 .. Min({Limit, len}) : i \in 1 .. len /\ i <= Depth
<1>1. asked.k \in Nat /\ Depth \in Nat
  BY QueryTypes, BoundsAssumption
<1>2. Min({asked.k, Depth}) = IF asked.k <= Depth THEN asked.k ELSE Depth
  BY <1>1, SmallerOfTwo
<1>3. /\ Limit \in Nat
      /\ Limit <= Depth
      /\ asked.k > 0 => Limit <= asked.k
  BY <1>1, <1>2 DEF Limit
<1>4. Min({Limit, len}) = IF Limit <= len THEN Limit ELSE len
  BY <1>3, SmallerOfTwo
<1> QED
  BY <1>1, <1>3, <1>4

\* A fused result lists rows of the collection, none of them twice.
LEMMA FusedRowsDiffer ==
    ASSUME TypeOK, Origin, Fused
    PROVE  /\ \A i \in Places : i \in DOMAIN out /\ i \in Nat /\ out[i].id \in Ids
           /\ \A i, j \in DOMAIN out : i # j => out[i].id # out[j].id
<1>1. PICK vec, kw \in SUBSET Ids : Gathered(vec, kw)
  BY DEF Origin
<1> DEFINE n == Cardinality(vec \cup kw)
           score == Blended(cands, asked.alpha)
<1>2. /\ Listing(vec, kw, n)
      /\ Len(out) \in Nat
      /\ DOMAIN out = 1 .. Len(out)
      /\ \A p \in DOMAIN out : \E b \in 1 .. n : StandsAt(n, p, b)
  BY <1>1, BetterStandsBefore
<1> HIDE DEF n
<1>3. \A i \in Places : i \in DOMAIN out /\ i \in Nat
  BY <1>2, LimitIsDepth DEF Places
<1>4. \A i \in DOMAIN out : out[i].id \in Ids
  BY DEF TypeOK, Candidates, Range
<1>5. ASSUME NEW i \in DOMAIN out, NEW j \in DOMAIN out, out[i].id = out[j].id
      PROVE  i = j
  <2>1. PICK a \in 1 .. n : out[i] = cands[a] /\ Place(score, a) = i
    BY <1>2 DEF StandsAt
  <2>2. PICK b \in 1 .. n : out[j] = cands[b] /\ Place(score, b) = j
    BY <1>2 DEF StandsAt
  <2>3. a = b
    BY <1>2, <1>5, <2>1, <2>2 DEF Listing
  <2> QED
    BY <2>1, <2>2, <2>3
<1> QED
  BY <1>3, <1>4, <1>5

(***************************************************************************)
(* RankedRowsFirst: with alpha = 0 the rows that hold a word of the query  *)
(* come in the order of keyword search, for any similarities, any ranks    *)
(* and any depth.                                                          *)
(***************************************************************************)
LEMMA KeywordRowsFirst ==
    ASSUME TypeOK, Origin
    PROVE  RankedRowsFirst
<1> SUFFICES ASSUME Fused, asked.alpha = 0, NEW i \in Places, NEW id \in Ids,
                    corpus.k[id] > 0, corpus.k[id] > corpus.k[out[i].id]
             PROVE  \E j \in 1 .. i-1 : out[j].id = id
  BY DEF RankedRowsFirst
<1>1. PICK vec, kw \in SUBSET Ids : Gathered(vec, kw)
  BY DEF Origin
<1> DEFINE n == Cardinality(vec \cup kw)
           score == Blended(cands, asked.alpha)
<1>2. Listing(vec, kw, n)
  BY <1>1, GatheredRows
<1>3. /\ Matching \subseteq Ids
      /\ IsFiniteSet(Matching)
      /\ \A x \in Matching : corpus.k[x] \in Int
  <2>1. Matching \subseteq Ids
    BY DEF Matching
  <2> QED
    BY <2>1, BoundsAssumption, CorpusTypes, FS_Subset
<1>4. kw \in Top(Matching, corpus.k, Depth) /\ Depth \in Nat
  BY <1>1, BoundsAssumption DEF Gathered
<1>5. /\ kw \subseteq Matching
      /\ Cardinality(Matching) \in Nat
      /\ Cardinality(kw) = IF Depth <= Cardinality(Matching) THEN Depth ELSE Cardinality(Matching)
      /\ \A x \in Matching, y \in kw : corpus.k[x] > corpus.k[y] => x \in kw
  BY <1>3, <1>4, BestRows
<1>6. asked.alpha < Den /\ ~(asked.alpha > 0)
  BY BoundsAssumption
<1>7. /\ Len(out) \in Nat
      /\ DOMAIN out = 1 .. Len(out)
      /\ score \in [1 .. n -> Int]
      /\ \A p \in DOMAIN out : \E b \in 1 .. n : StandsAt(n, p, b)
  BY <1>1, BetterStandsBefore
<1>8. i \in DOMAIN out /\ i <= Depth
  BY <1>7, LimitIsDepth DEF Places
<1>9. PICK b \in 1 .. n : StandsAt(n, i, b)
  BY <1>7, <1>8
<1>10. /\ out[i] = cands[b]
       /\ Place(score, b) = i
       /\ \A c \in 1 .. n :
             cands[c].k > cands[b].k =>
                 c \in Ahead(score, b) /\ \E j \in 1 .. i-1 : out[j] = cands[c]
  <2> HIDE DEF n
  <2>1. \A c \in 1 .. n : cands[c].k \in Int
    BY <1>2 DEF Listing, Scored
  <2> QED
    BY <1>6, <1>9, <2>1 DEF StandsAt
<1> HIDE DEF n, score
<1> DEFINE x == cands[b].id
<1>11. /\ x \in vec \cup kw
       /\ x \in Ids
       /\ cands[b].k = IF x \in kw THEN corpus.k[x] ELSE 0
  BY <1>2, <1>5, <1>10 DEF Listing
<1>12. /\ corpus.k[id] > corpus.k[x]
       /\ corpus.k[id] \in Int /\ corpus.k[x] \in Int
  BY <1>10, <1>11, CorpusTypes
<1>13. id \in Matching
  BY <1>12 DEF Matching, NoMatch
<1>14. id \in kw /\ corpus.k[id] > cands[b].k
  <2>1. CASE x \in kw
    BY <1>5, <1>11, <1>12, <1>13, <2>1
  <2>2. CASE x \notin kw
    <3> SUFFICES ASSUME id \notin kw
                 PROVE  FALSE
      BY <1>11, <2>2
    <3>1. \A y \in kw : corpus.k[y] > 0
      BY <1>3, <1>5, <1>12, <1>13
    <3>2. \A c \in 1 .. n : cands[c].id \in kw => cands[c].k > 0
      BY <1>2, <3>1 DEF Listing
    <3>3. \A c \in 1 .. n : cands[c].id \in kw => c \in Ahead(score, b)
      BY <3>2, <2>2, <1>10, <1>11
    <3>4. Cardinality(kw) < i
      BY <1>2, <1>7, <1>10, <3>3, StandsBehindAll
    <3>5. Cardinality(kw) = Cardinality(Matching)
      BY <1>4, <1>5, <1>7, <1>8, <3>4
    <3>6. kw = Matching
      BY <1>3, <1>5, <3>5, FS_Subset
    <3> QED
      BY <1>13, <3>6
  <2> QED
    BY <2>1, <2>2
<1>15. PICK c \in 1 .. n : cands[c].id = id
  BY <1>2, <1>14 DEF Listing
<1>16. cands[c].k = corpus.k[id]
  BY <1>2, <1>14, <1>15 DEF Listing
<1> QED
  BY <1>10, <1>14, <1>15, <1>16

\* HybridRetriever with Alpha 0 against KeywordRetriever, at any Depth.
THEOREM AlphaZeroRanksByWords == Spec => []RankedRowsFirst
<1>1. TypeOK /\ Origin => RankedRowsFirst
  BY KeywordRowsFirst
<1> QED
  BY <1>1, RowsHaveAnOrigin, PTL

(***************************************************************************)
(* KeywordEndpoint: as long as every match ranks above 0, which queries    *)
(* with no excluded word give, alpha = 0 is keyword search.                *)
(* retrievers_excluded shows that the assumption is needed.                *)
(***************************************************************************)
THEOREM AlphaZeroIsKeywordSearch ==
    ASSUME 0 \notin KeywordScores
    PROVE  Spec => []KeywordEndpoint
<1>1. ASSUME TypeOK, Origin
      PROVE  KeywordEndpoint
  <2> SUFFICES ASSUME Fused, asked.alpha = 0, NEW i \in Places, NEW id \in Ids,
                      corpus.k[id] > corpus.k[out[i].id]
               PROVE  \E j \in 1 .. i-1 : out[j].id = id
    BY DEF KeywordEndpoint
  <2>1. out[i].id \in Ids
    BY <1>1, FusedRowsDiffer
  <2>2. corpus.k[id] > 0
    <3>1. /\ corpus.k[id] = NoMatch \/ corpus.k[id] \in KeywordScores
          /\ corpus.k[out[i].id] = NoMatch \/ corpus.k[out[i].id] \in KeywordScores
      BY <1>1, <2>1, CorpusTypes
    <3>2. \A y \in KeywordScores : y \in Nat /\ y > 0
      BY BoundsAssumption
    <3> QED
      BY <3>1, <3>2 DEF NoMatch
  <2> QED
    BY <1>1, <2>2, KeywordRowsFirst DEF RankedRowsFirst
<1> QED
  BY <1>1, RowsHaveAnOrigin, PTL

(***************************************************************************)
(* CloseRowsFirst: with alpha = 1 the rows of positive similarity come in  *)
(* the order of vector search, whatever lies under the 0 of a row that     *)
(* only the keyword side has found.                                        *)
(***************************************************************************)
LEMMA ClosestRowsFirst ==
    ASSUME TypeOK, Origin
    PROVE  CloseRowsFirst
<1> SUFFICES ASSUME Fused, asked.alpha = Den
             PROVE  /\ Len(out) >= Min({Limit, Cardinality(Ids)})
                    /\ \A i \in Places, id \in Ids :
                          corpus.v[id] > 0 /\ corpus.v[id] > corpus.v[out[i].id] =>
                              \E j \in 1 .. i-1 : out[j].id = id
  BY DEF CloseRowsFirst
<1>1. PICK vec, kw \in SUBSET Ids : Gathered(vec, kw)
  BY DEF Origin
<1> DEFINE n == Cardinality(vec \cup kw)
           score == Blended(cands, asked.alpha)
<1>2. /\ Listing(vec, kw, n)
      /\ Len(out) = IF asked.k > 0 /\ n > asked.k THEN asked.k ELSE n
      /\ Len(out) \in Nat
      /\ DOMAIN out = 1 .. Len(out)
      /\ score \in [1 .. n -> Int]
      /\ \A p \in DOMAIN out : \E b \in 1 .. n : StandsAt(n, p, b)
  BY <1>1, BetterStandsBefore
<1>3. IsFiniteSet(Ids) /\ \A x \in Ids : corpus.v[x] \in Int
  BY BoundsAssumption, CorpusTypes
<1>4. vec \in Top(Ids, corpus.v, Depth) /\ Depth \in Nat
  BY <1>1, BoundsAssumption DEF Gathered
<1>5. /\ vec \subseteq Ids
      /\ Cardinality(Ids) \in Nat
      /\ Cardinality(vec) = IF Depth <= Cardinality(Ids) THEN Depth ELSE Cardinality(Ids)
      /\ \A x \in Ids, y \in vec : corpus.v[x] > corpus.v[y] => x \in vec
      /\ \A x \in Ids, y \in vec : x \notin vec => corpus.v[y] >= corpus.v[x]
  BY <1>3, <1>4, BestRows
<1>6. asked.alpha > 0 /\ ~(asked.alpha < Den)
  BY BoundsAssumption
<1>7. n \in Nat /\ Cardinality(vec) <= n
  <2>1. IsFiniteSet(vec \cup kw)
    BY <1>2 DEF Listing
  <2> QED
    BY <2>1, FS_Subset, FS_CardinalityType
<1> HIDE DEF n
<1>8. ASSUME NEW i \in Places, NEW id \in Ids,
             corpus.v[id] > 0, corpus.v[id] > corpus.v[out[i].id]
      PROVE  \E j \in 1 .. i-1 : out[j].id = id
  <2>1. i \in DOMAIN out /\ i <= Depth
    BY <1>2, LimitIsDepth DEF Places
  <2>2. PICK b \in 1 .. n : StandsAt(n, i, b)
    BY <1>2, <2>1
  <2>3. /\ out[i] = cands[b]
        /\ Place(score, b) = i
        /\ \A c \in 1 .. n :
              cands[c].v > cands[b].v =>
                  c \in Ahead(score, b) /\ \E j \in 1 .. i-1 : out[j] = cands[c]
    <3>1. \A c \in 1 .. n : cands[c].v \in Int
      BY <1>2 DEF Listing, Scored
    <3> QED
      BY <1>6, <2>2, <3>1 DEF StandsAt
  <2> DEFINE x == cands[b].id
  <2>4. /\ x \in vec \cup kw
        /\ x \in Ids
        /\ cands[b].v = IF x \in vec THEN corpus.v[x] ELSE 0
        /\ corpus.v[id] > corpus.v[x]
    BY <1>2, <1>5, <1>8, <2>3 DEF Listing, Matching
  <2> HIDE DEF x
  \* A row of the keyword side alone stands behind the whole vector side when
  \* all of that is closer than 0.
  <2>5. id \in vec
    <3> SUFFICES ASSUME id \notin vec
                 PROVE  FALSE
      OBVIOUS
    <3>1. \A y \in vec : corpus.v[y] > 0
      BY <1>3, <1>5, <1>8
    <3>2. x \notin vec
      BY <1>3, <1>5, <2>4
    <3>3. ASSUME NEW c \in 1 .. n, cands[c].id \in vec
          PROVE  cands[c].v > cands[b].v
      <4>1. cands[c].v = corpus.v[cands[c].id]
        BY <1>2, <3>3 DEF Listing
      <4>2. cands[b].v = 0
        BY <2>4, <3>2
      <4> QED
        BY <3>1, <3>3, <4>1, <4>2
    <3>4. \A c \in 1 .. n : cands[c].id \in vec => c \in Ahead(score, b)
      BY <2>3, <3>3
    <3>5. Cardinality(vec) < i
      BY <1>2, <2>3, <3>4, StandsBehindAll
    <3>6. Cardinality(vec) = Cardinality(Ids)
      BY <1>2, <1>4, <1>5, <2>1, <3>5
    <3>7. vec = Ids
      BY <1>3, <1>5, <3>6, FS_Subset
    <3> QED
      BY <3>7
  <2>6. PICK c \in 1 .. n : cands[c].id = id
    BY <1>2, <2>5 DEF Listing
  <2>7. cands[c].v = corpus.v[id]
    BY <1>2, <2>5, <2>6 DEF Listing
  <2>8. cands[c].v > cands[b].v
    BY <1>3, <1>8, <2>4, <2>7
  <2> QED
    BY <2>3, <2>6, <2>8
<1>9. Len(out) >= Min({Limit, Cardinality(Ids)})
  <2>1. /\ Limit \in Nat /\ Limit <= Depth
        /\ asked.k > 0 => Limit <= asked.k
        /\ asked.k \in Nat
    BY <1>2, LimitIsDepth, QueryTypes
  <2>2. Min({Limit, Cardinality(Ids)})
           = IF Limit <= Cardinality(Ids) THEN Limit ELSE Cardinality(Ids)
    BY <1>5, <2>1, SmallerOfTwo
  <2> QED
    BY <1>2, <1>4, <1>5, <1>7, <2>1, <2>2
<1> QED
  BY <1>8, <1>9

\* HybridRetriever with Alpha 1 against VectorRetriever, at any Depth.
THEOREM AlphaOneRanksBySimilarity == Spec => []CloseRowsFirst
<1>1. TypeOK /\ Origin => CloseRowsFirst
  BY ClosestRowsFirst
<1> QED
  BY <1>1, RowsHaveAnOrigin, PTL

(***************************************************************************)
(* VectorEndpoint: as long as no similarity lies under 0, alpha = 1 is     *)
(* vector search; retrievers_negative shows that the assumption is needed. *)
(***************************************************************************)
THEOREM AlphaOneIsVectorSearch ==
    ASSUME VectorScores \subseteq Nat
    PROVE  Spec => []VectorEndpoint
<1>1. ASSUME TypeOK, Origin
      PROVE  VectorEndpoint
  <2> SUFFICES ASSUME Fused, asked.alpha = Den
               PROVE  VectorEndpoint
    BY DEF VectorEndpoint
  <2>1. \A x \in Ids : corpus.v[x] \in Int /\ corpus.v[x] >= 0
    BY <1>1, CorpusTypes
  <2>2. /\ \A i \in Places : i \in DOMAIN out /\ i \in Nat /\ out[i].id \in Ids
        /\ \A i, j \in DOMAIN out : i # j => out[i].id # out[j].id
    BY <1>1, FusedRowsDiffer
  <2>3. /\ Len(out) >= Min({Limit, Cardinality(Ids)})
        /\ \A i \in Places, id \in Ids :
              corpus.v[id] > 0 /\ corpus.v[id] > corpus.v[out[i].id] =>
                  \E j \in 1 .. i-1 : out[j].id = id
    BY <1>1, ClosestRowsFirst DEF CloseRowsFirst
  <2>4. \A i \in Places, id \in Ids :
           corpus.v[id] > corpus.v[out[i].id] => \E j \in 1 .. i-1 : out[j].id = id
    <3>1. \A i \in Places, id \in Ids :
             corpus.v[id] > corpus.v[out[i].id] => corpus.v[id] > 0
      BY <2>1, <2>2
    <3> QED
      BY <2>3, <3>1
  <2>5. ASSUME NEW i \in Places, NEW j \in Places, i < j,
               ~(corpus.v[out[i].id] >= corpus.v[out[j].id])
        PROVE  FALSE
    <3>1. out[j].id \in Ids /\ corpus.v[out[j].id] > corpus.v[out[i].id]
      BY <2>1, <2>2, <2>5
    <3>2. PICK p \in 1 .. i-1 : out[p].id = out[j].id
      BY <2>4, <3>1
    <3>3. p \in DOMAIN out /\ p # j
      <4>1. Len(out) \in Nat /\ DOMAIN out = 1 .. Len(out)
        <5>1. PICK vec, kw \in SUBSET Ids : Gathered(vec, kw)
          BY <1>1 DEF Origin
        <5> QED
          BY <1>1, <5>1, BetterStandsBefore
      <4> QED
        BY <2>2, <2>5, <4>1
    <3> QED
      BY <2>2, <3>2, <3>3
  <2> QED
    BY <2>3, <2>4, <2>5 DEF VectorEndpoint
<1> QED
  BY <1>1, RowsHaveAnOrigin, PTL

-----------------------------------------------------------------------------
(* The similarity floor. *)

\* Rounding to the printed decimal moves a distance by half of it at most.
LEMMA PrintedIsClose ==
    ASSUME NEW x \in Int
    PROVE  /\ Printed(x) \in Int
           /\ 2 * Printed(x) <= 2 * x + PrintUnit
           /\ 2 * Printed(x) > 2 * x - PrintUnit
<1> DEFINE d == 2 * PrintUnit
           m == 2 * x + PrintUnit
           q == m \div d
<1>1. d \in Nat \ {0} /\ m \in Int /\ PrintUnit \in Nat \ {0}
  BY BoundsAssumption
<1>2. Printed(x) = PrintUnit * q
  BY DEF Printed
<1> HIDE DEF d, m
<1>3. q \in Int /\ d * q <= m /\ m < d * q + d
  BY <1>1
<1> HIDE DEF q
<1>4. d * q = 2 * (PrintUnit * q) /\ PrintUnit * q \in Int
  BY <1>1, <1>3 DEF d
<1> QED
  BY <1>1, <1>2, <1>3, <1>4 DEF d, m

(***************************************************************************)
(* ClosestOverTheFloor: a vector search returns the closest rows over its  *)
(* floor, for any unit, any printed precision and any floor.               *)
(***************************************************************************)
LEMMA NearestOverTheFloor ==
    ASSUME TypeOK, Origin
    PROVE  ClosestOverTheFloor
<1> SUFFICES ASSUME stage = "returned", asked.by = "vector"
             PROVE  /\ \A i, j \in DOMAIN out :
                          i < j => corpus.v[out[i].id] >= corpus.v[out[j].id]
                    /\ \A i \in DOMAIN out : ~ClearlyUnder(asked.floor, out[i].id)
                    /\ \A id \in Ids :
                          ClearlyOver(asked.floor, id) =>
                              \/ \E i \in DOMAIN out : out[i].id = id
                              \/ /\ Len(out) = asked.k
                                 /\ \A i \in DOMAIN out : corpus.v[out[i].id] >= corpus.v[id]
  BY DEF ClosestOverTheFloor
<1> DEFINE S == Ids \ UnderFloor(asked.floor)
<1>1. PICK T \in SUBSET Ids : Nearest(T)
  BY DEF Origin
<1>2. /\ asked.k \in Nat
      /\ asked.floor \in Int
      /\ Unit \in Int
      /\ PrintUnit \in Nat \ {0}
  <2>1. asked.k \in Nat /\ asked.floor \in Floors
    BY QueryTypes
  <2>2. /\ \A f \in Floors : f \in Int
        /\ Unit \in Int
        /\ PrintUnit \in Nat \ {0}
    BY BoundsAssumption
  <2> QED
    BY <2>1, <2>2
<1>3. IsFiniteSet(S) /\ \A x \in S : corpus.v[x] \in Int
  BY BoundsAssumption, CorpusTypes, FS_Subset
<1>4. T \in Top(S, corpus.v, asked.k)
  BY <1>1 DEF Nearest
<1> HIDE DEF S
<1>5. /\ T \subseteq S
      /\ IsFiniteSet(T)
      /\ Cardinality(S) \in Nat
      /\ Cardinality(T) = IF asked.k <= Cardinality(S) THEN asked.k ELSE Cardinality(S)
      /\ \A a \in S, b \in T : a \notin T => corpus.v[b] >= corpus.v[a]
  BY <1>2, <1>3, <1>4, BestRows
<1> DEFINE row == [id \in T |-> VectorRow(id)]
<1>6. DOMAIN row = T /\ row = [id \in T |-> row[id]] /\ \A id \in T : row[id].id = id
  BY DEF VectorRow
<1>7. out \in SetToSeqs({row[id] : id \in T})
  BY <1>1 DEF Nearest, Ranked
<1> HIDE DEF row
<1>8. /\ Len(out) = Cardinality(T)
      /\ DOMAIN out = 1 .. Cardinality(T)
      /\ \A i \in 1 .. Cardinality(T) : out[i].id \in T
      /\ \A id \in T : \E i \in 1 .. Cardinality(T) : out[i].id = id
  BY <1>5, <1>6, <1>7, ListsOfRows
<1>9. Unit - asked.floor \in Int
  BY <1>2
<1>10. ASSUME NEW id \in Ids, ClearlyUnder(asked.floor, id)
       PROVE  id \notin S
  <2>1. corpus.v[id] \in Int
    BY CorpusTypes
  <2>2. Unit - corpus.v[id] >= Printed(Unit - asked.floor)
    BY <1>2, <1>9, <1>10, <2>1, PrintedIsClose DEF ClearlyUnder
  <2> QED
    BY <1>10, <2>2 DEF S, UnderFloor, ClearlyUnder
<1>11. ASSUME NEW id \in Ids, ClearlyOver(asked.floor, id)
       PROVE  id \in S
  <2>1. corpus.v[id] \in Int
    BY CorpusTypes
  <2>2. asked.floor <= 0 \/ ~(Unit - corpus.v[id] >= Printed(Unit - asked.floor))
    BY <1>2, <1>9, <1>11, <2>1, PrintedIsClose DEF ClearlyOver
  <2> QED
    BY <1>2, <2>2 DEF S, UnderFloor
<1>12. ASSUME NEW i \in DOMAIN out
       PROVE  ~ClearlyUnder(asked.floor, out[i].id)
  BY <1>5, <1>8, <1>10
<1>13. ASSUME NEW id \in Ids, ClearlyOver(asked.floor, id),
              ~ \E i \in DOMAIN out : out[i].id = id
       PROVE  /\ Len(out) = asked.k
              /\ \A i \in DOMAIN out : corpus.v[out[i].id] >= corpus.v[id]
  <2>1. id \in S /\ id \notin T
    BY <1>8, <1>11, <1>13
  <2>2. Cardinality(T) # Cardinality(S)
    BY <1>3, <1>5, <2>1, FS_Subset
  <2>3. Len(out) = asked.k
    BY <1>5, <1>8, <2>2
  <2> QED
    BY <1>5, <1>8, <2>1, <2>3
<1>14. \A i, j \in DOMAIN out : i < j => corpus.v[out[i].id] >= corpus.v[out[j].id]
  BY <1>1 DEF Nearest, Ranked
<1> QED
  BY <1>12, <1>13, <1>14

\* VectorRetriever's MinSimilarity, whatever the printing makes of it.
THEOREM FloorIsKept == Spec => []ClosestOverTheFloor
<1>1. TypeOK /\ Origin => ClosestOverTheFloor
  BY NearestOverTheFloor
<1> QED
  BY <1>1, RowsHaveAnOrigin, PTL

-----------------------------------------------------------------------------
(* Scales. *)

\* On another scale of similarities all blends are multiplied alike.
LEMMA BlendRescaled ==
    ASSUME NEW n \in Nat \ {0}, NEW rows \in [1 .. n -> Scored], NEW alpha \in 0 .. Den
    PROVE  \E t \in {1, 2} : \A a \in 1 .. n :
              Blend(Rescaled(rows), alpha, Rescaled(rows)[a]) = t * Blend(rows, alpha, rows[a])
<1> DEFINE more == Rescaled(rows)
<1>1. PICK vlo, vhi, klo, khi \in Int :
          /\ Extent({r.v : r \in Range(rows)}) = << vlo, vhi >>
          /\ Extent({r.k : r \in Range(rows)}) = << klo, khi >>
          /\ \A i \in 1 .. n : /\ vlo <= rows[i].v
                               /\ rows[i].v <= vhi
                               /\ klo <= rows[i].k
                               /\ rows[i].k <= khi
  BY SidesOfRows
<1> DEFINE vlow == 2 * vlo + 3
           vhigh == 2 * vhi + 3
<1>2. /\ Extent({r.v : r \in Range(more)}) = << vlow, vhigh >>
      /\ {r.k : r \in Range(more)} = {r.k : r \in Range(rows)}
      /\ \A i \in 1 .. n : more[i].v = 2 * rows[i].v + 3 /\ more[i].k = rows[i].k
  BY <1>1, SidesRescaled
<1> HIDE DEF more
<1> DEFINE S2 == Scale(<< klo, khi >>)
           N2(c) == Normalise(c.k, << klo, khi >>)
<1>3. ASSUME NEW a \in 1 .. n
      PROVE  /\ Blend(more, alpha, more[a])
                    = alpha * Normalise(more[a].v, << vlow, vhigh >>) * S2
                          + (Den - alpha) * N2(rows[a]) * Scale(<< vlow, vhigh >>)
             /\ Blend(rows, alpha, rows[a])
                    = alpha * Normalise(rows[a].v, << vlo, vhi >>) * S2
                          + (Den - alpha) * N2(rows[a]) * Scale(<< vlo, vhi >>)
  <2>1. Normalise(more[a].k, << klo, khi >>) = N2(rows[a])
    BY <1>2
  <2> QED
    BY <1>1, <1>2, <2>1 DEF Blend
<1>4. Spread(<< vlow, vhigh >>) = 2 * (vhi - vlo) /\ Spread(<< vlo, vhi >>) = vhi - vlo
  BY DEF Spread
<1>5. \A a \in 1 .. n : rows[a].v \in Int /\ rows[a].k \in Int
  BY DEF Scored
<1>6. alpha \in Int /\ Den - alpha \in Int
  BY BoundsAssumption
<1>7. S2 \in Int /\ \A a \in 1 .. n : N2(rows[a]) \in Int
  <2>1. ASSUME NEW a \in 1 .. n
        PROVE  S2 \in Int /\ N2(rows[a]) \in Int
    <3>1. klo <= rows[a].k /\ rows[a].k <= khi /\ rows[a].k \in Int
      BY <1>1, <1>5
    <3>2. Normalise(rows[a].k, << klo, khi >>) \in Nat /\ Scale(<< klo, khi >>) \in Nat \ {0}
      BY <3>1, NormaliseKeepsOrder
    <3> QED
      BY <3>2
  <2> QED
    BY <2>1, 1 \in 1 .. n
<1> HIDE DEF S2, N2
<1>8. CASE vhi - vlo <= 0
  <2>1. ASSUME NEW a \in 1 .. n
        PROVE  Blend(more, alpha, more[a]) = 1 * Blend(rows, alpha, rows[a])
    <3>1. /\ Normalise(more[a].v, << vlow, vhigh >>) = 0
          /\ Normalise(rows[a].v, << vlo, vhi >>) = 0
          /\ Scale(<< vlow, vhigh >>) = 1
          /\ Scale(<< vlo, vhi >>) = 1
      BY <1>4, <1>8 DEF Normalise, Scale
    <3>2. Blend(rows, alpha, rows[a]) \in Int
      BY BlendIsInt
    <3> QED
      BY <1>3, <3>1, <3>2
  <2> QED
    BY <2>1 DEF more
<1>9. CASE ~(vhi - vlo <= 0)
  <2>1. ASSUME NEW a \in 1 .. n
        PROVE  Blend(more, alpha, more[a]) = 2 * Blend(rows, alpha, rows[a])
    <3> DEFINE x == rows[a].v - vlo
               w == vhi - vlo
               m == N2(rows[a])
               beta == Den - alpha
    <3>1. /\ Normalise(more[a].v, << vlow, vhigh >>) = 2 * x
          /\ Normalise(rows[a].v, << vlo, vhi >>) = x
          /\ Scale(<< vlow, vhigh >>) = 2 * w
          /\ Scale(<< vlo, vhi >>) = w
      BY <1>2, <1>4, <1>5, <1>9 DEF Normalise, Scale
    <3>2. x \in Int /\ w \in Int /\ m \in Int /\ beta \in Int
      BY <1>5, <1>6, <1>7
    <3>3. /\ Blend(more, alpha, more[a]) = alpha * (2 * x) * S2 + beta * m * (2 * w)
          /\ Blend(rows, alpha, rows[a]) = alpha * x * S2 + beta * m * w
      BY <1>3, <3>1
    <3> HIDE DEF x, w, m, beta
    <3>4. alpha * (2 * x) * S2 = 2 * (alpha * x * S2) /\ alpha * x * S2 \in Int
      BY <1>6, <1>7, <3>2
    <3>5. beta * m * (2 * w) = 2 * (beta * m * w) /\ beta * m * w \in Int
      BY <1>6, <1>7, <3>2
    <3> QED
      BY <3>3, <3>4, <3>5
  <2> QED
    BY <2>1 DEF more
<1> QED
  BY <1>8, <1>9

LEMMA SameOrderRescaled ==
    ASSUME NEW n \in Nat, NEW rows \in [1 .. n -> Scored],
           NEW alpha \in 0 .. Den, NEW k \in Nat
    PROVE  IdsOf(FuseAlpha(rows, alpha, k)) = IdsOf(FuseAlpha(Rescaled(rows), alpha, k))
<1> DEFINE more == Rescaled(rows)
           score == Blended(rows, alpha)
           scaled == Blended(more, alpha)
           fused == FuseAlpha(rows, alpha, k)
           again == FuseAlpha(more, alpha, k)
<1>1. /\ more \in [1 .. n -> Scored]
      /\ \A i \in 1 .. n : more[i].id = rows[i].id
  <2>1. CASE n = 0
    BY <2>1 DEF Rescaled
  <2>2. CASE n # 0
    <3>1. n \in Nat \ {0}
      BY <2>2
    <3>2. PICK vlo, vhi, klo, khi \in Int :
              /\ Extent({r.v : r \in Range(rows)}) = << vlo, vhi >>
              /\ Extent({r.k : r \in Range(rows)}) = << klo, khi >>
              /\ \A i \in 1 .. n : /\ vlo <= rows[i].v
                                   /\ rows[i].v <= vhi
                                   /\ klo <= rows[i].k
                                   /\ rows[i].k <= khi
      BY <3>1, SidesOfRows
    <3> QED
      BY <3>1, <3>2, SidesRescaled
  <2> QED
    BY <2>1, <2>2
<1>2. \A q \in 1 .. n : /\ score[q] = Blend(rows, alpha, rows[q])
                        /\ scaled[q] = Blend(more, alpha, more[q])
  <2> HIDE DEF more
  <2> QED
    BY <1>1 DEF Blended
<1>3. \E t \in {1, 2} : \A q \in 1 .. n : scaled[q] = t * score[q]
  <2>1. CASE n = 0
    BY <2>1
  <2>2. CASE n # 0
    <3>1. \E t \in {1, 2} : \A q \in 1 .. n :
             Blend(more, alpha, more[q]) = t * Blend(rows, alpha, rows[q])
      BY <2>2, BlendRescaled
    <3> HIDE DEF score, scaled
    <3> QED
      BY <1>2, <3>1
  <2> QED
    BY <2>1, <2>2
<1> HIDE DEF more
<1>4. /\ score \in [1 .. n -> Int]
      /\ Len(fused) = IF k > 0 /\ n > k THEN k ELSE n
      /\ fused \in [1 .. Len(fused) -> Scored]
      /\ \A i \in 1 .. Len(fused) :
            \E q \in 1 .. n : fused[i] = rows[q] /\ Place(score, q) = i
  BY FusedRows
<1>5. /\ scaled \in [1 .. n -> Int]
      /\ Len(again) = IF k > 0 /\ n > k THEN k ELSE n
      /\ again \in [1 .. Len(again) -> Scored]
      /\ \A q \in 1 .. n :
            Place(scaled, q) <= Len(again) => again[Place(scaled, q)] = more[q]
  BY <1>1, FusedRows
<1> HIDE DEF score, scaled, fused, again
<1>6. ASSUME NEW q \in 1 .. n
      PROVE  Place(scaled, q) = Place(score, q)
  <2>1. PICK t \in {1, 2} : \A i \in 1 .. n : scaled[i] = t * score[i]
    BY <1>3
  <2>2. ASSUME NEW i \in 1 .. n
        PROVE  /\ scaled[i] > scaled[q] <=> score[i] > score[q]
               /\ scaled[i] = scaled[q] <=> score[i] = score[q]
    <3>1. score[i] \in Int /\ score[q] \in Int
      BY <1>4
    <3>2. scaled[i] = t * score[i] /\ scaled[q] = t * score[q]
      BY <2>1
    <3>3. CASE t = 1
      BY <3>1, <3>2, <3>3
    <3>4. CASE t = 2
      BY <3>1, <3>2, <3>4
    <3> QED
      BY <3>3, <3>4
  <2>3. DOMAIN scaled = 1 .. n /\ DOMAIN score = 1 .. n
    BY <1>4, <1>5
  <2>4. Ahead(scaled, q) = Ahead(score, q)
    BY <2>2, <2>3 DEF Ahead
  <2>5. Place(scaled, q) = 1 + Cardinality(Ahead(scaled, q))
    BY <1>5, AheadIsFinite
  <2>6. Place(score, q) = 1 + Cardinality(Ahead(score, q))
    BY <1>4, AheadIsFinite
  <2> QED
    BY <2>4, <2>5, <2>6
<1>7. Len(fused) = Len(again) /\ Len(fused) \in Nat
  BY <1>4, <1>5
<1>8. ASSUME NEW i \in 1 .. Len(fused)
      PROVE  fused[i].id = again[i].id
  <2>1. PICK q \in 1 .. n : fused[i] = rows[q] /\ Place(score, q) = i
    BY <1>4
  <2>2. Place(scaled, q) = i /\ i <= Len(again)
    BY <1>6, <1>7, <2>1
  <2>3. again[i] = more[q]
    BY <1>5, <2>2
  <2> QED
    BY <1>1, <2>1, <2>3
<1>9. DOMAIN fused = 1 .. Len(fused) /\ DOMAIN again = 1 .. Len(fused)
  BY <1>4, <1>5, <1>7
<1>10. IdsOf(fused) = IdsOf(again)
  BY <1>8, <1>9 DEF IdsOf
<1> QED
  BY <1>10 DEF fused, again, more

(***************************************************************************)
(* ScaleDoesNotMatter: the scale of one side's scores never decides the    *)
(* order of a fused result.                                                *)
(***************************************************************************)
THEOREM NormalisingRemovesScale == Spec => []ScaleDoesNotMatter
<1>1. ASSUME TypeOK, Origin
      PROVE  ScaleDoesNotMatter
  <2> SUFFICES ASSUME Fused
               PROVE  IdsOf(out) = IdsOf(FuseAlpha(Rescaled(cands), asked.alpha, asked.k))
    BY DEF ScaleDoesNotMatter
  <2>1. PICK vec, kw \in SUBSET Ids : Gathered(vec, kw)
    BY <1>1 DEF Origin
  <2> DEFINE n == Cardinality(vec \cup kw)
  <2>2. n \in Nat /\ cands \in [1 .. n -> Scored]
    <3>1. Listing(vec, kw, n)
      BY <1>1, <2>1, GatheredRows
    <3> HIDE DEF n
    <3> QED
      BY <3>1 DEF Listing
  <2>3. asked.alpha \in 0 .. Den /\ asked.k \in Nat
    BY <1>1, QueryTypes DEF Fused
  <2>4. out = FuseAlpha(cands, asked.alpha, asked.k)
    BY <1>1 DEF Origin
  <2> HIDE DEF n
  <2> QED
    BY <2>2, <2>3, <2>4, SameOrderRescaled
<1> QED
  BY <1>1, RowsHaveAnOrigin, PTL
=============================================================================
