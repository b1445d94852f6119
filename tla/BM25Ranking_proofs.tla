------------------------- MODULE BM25Ranking_proofs -------------------------
(***************************************************************************)
(* Theorems about the BM25 ranking, for every collection, every text of    *)
(* its rows, every k1 and b, and every query.                              *)
(***************************************************************************)
EXTENDS BM25Ranking, FiniteSetTheorems, FunctionTheorems, SequenceTheorems,
        NaturalsInduction, WellFoundedInduction, TLAPS

-----------------------------------------------------------------------------
(* Folding over a set *)

(***************************************************************************)
(* The induction of this module: of the finite sets for which something    *)
(* fails there is one for which it holds as soon as any element is gone.   *)
(***************************************************************************)
LEMMA LeastNumber ==
    ASSUME NEW T \in SUBSET Nat, T # {}
    PROVE  \E n \in T : \A m \in T : n <= m
<1> DEFINE R == OpToRel(<, Nat)
<1>1. \A x, y \in Nat : y < x => << y, x >> \in R
  BY DEF OpToRel
<1>2. IsWellFoundedOn(R, Nat)
  BY NatLessThanWellFounded
<1> HIDE DEF R
<1>3. PICK x \in T : \A y \in T : ~ (<< y, x >> \in R)
  BY <1>2, WFMin
<1>4. ASSUME NEW y \in T
      PROVE  x <= y
  <2>1. x \in Nat /\ y \in Nat
    OBVIOUS
  <2>2. ~ (y < x)
    BY <1>1, <1>3, <2>1
  <2> QED
    BY <2>1, <2>2
<1> QED
  BY <1>4

LEMMA SmallestSet ==
    ASSUME NEW S, IsFiniteSet(S), NEW Bad \in SUBSET (SUBSET S), Bad # {}
    PROVE  \E s \in Bad : \A x \in s : s \ {x} \notin Bad
<1> DEFINE T == {n \in Nat : \E s \in Bad : Cardinality(s) = n}
<1>1. \A s \in Bad : IsFiniteSet(s) /\ Cardinality(s) \in Nat
  BY FS_Subset, FS_CardinalityType
<1>2. T \in SUBSET Nat /\ T # {}
  BY <1>1
<1>3. PICK n \in T : \A m \in T : n <= m
  <2> HIDE DEF T
  <2> QED
    BY <1>2, LeastNumber
<1>4. PICK s \in Bad : Cardinality(s) = n
  BY <1>3
<1>5. ASSUME NEW x \in s, s \ {x} \in Bad
      PROVE  FALSE
  <2>1. Cardinality(s \ {x}) = n - 1
    BY <1>1, <1>4, FS_RemoveElement
  <2>2. Cardinality(s \ {x}) \in T /\ n \in Nat
    BY <1>1, <1>5
  <2> HIDE DEF T
  <2>3. n <= n - 1
    BY <1>3, <2>1, <2>2
  <2> QED
    BY <2>2, <2>3
<1> QED
  BY <1>5

\* The element a fold takes next.
Chosen(s) == CHOOSE x \in s : TRUE

LEMMA ChosenIsIn == ASSUME NEW s, s # {} PROVE Chosen(s) \in s
BY DEF Chosen

\* What FoldSet computes on its way, subset by subset.
Folds(g, base, h, D) ==
    g = [s \in D |-> IF s = {} THEN base ELSE h[<< Chosen(s), g[s \ {Chosen(s)}] >>]]

Upto(S, n) == {s \in SUBSET S : Cardinality(s) <= n}

LEMMA Smaller ==
    ASSUME NEW S, IsFiniteSet(S)
    PROVE  /\ Upto(S, 0) = {{}}
           /\ Upto(S, Cardinality(S)) = SUBSET S
           /\ \A n \in Nat : \A s \in Upto(S, n + 1) \ {{}} : s \ {Chosen(s)} \in Upto(S, n)
           /\ \A n \in Nat : \A s \in Upto(S, n) \ {{}} : s \ {Chosen(s)} \in Upto(S, n)
           /\ \A n \in Nat : Upto(S, n) \subseteq Upto(S, n + 1)
<1>1. \A s \in SUBSET S : /\ IsFiniteSet(s) /\ Cardinality(s) \in Nat
                          /\ Cardinality(s) <= Cardinality(S)
                          /\ Cardinality(s) = 0 <=> s = {}
  BY FS_Subset, FS_CardinalityType, FS_EmptySet
<1>2. \A s \in SUBSET S : s # {} => /\ s \ {Chosen(s)} \in SUBSET S
                                    /\ Cardinality(s \ {Chosen(s)}) = Cardinality(s) - 1
  BY <1>1, ChosenIsIn, FS_RemoveElement
<1>3. Upto(S, 0) = {{}}
  BY <1>1 DEF Upto
<1>4. Upto(S, Cardinality(S)) = SUBSET S
  BY <1>1 DEF Upto
<1>5. ASSUME NEW n \in Nat, NEW s \in Upto(S, n + 1) \ {{}}
      PROVE  s \ {Chosen(s)} \in Upto(S, n)
  BY <1>1, <1>2 DEF Upto
<1>6. ASSUME NEW n \in Nat
      PROVE  Upto(S, n) \subseteq Upto(S, n + 1)
  BY <1>1 DEF Upto
<1>7. \A n \in Nat : \A s \in Upto(S, n) \ {{}} : s \ {Chosen(s)} \in Upto(S, n)
  BY <1>5, <1>6
<1> QED
  BY <1>3, <1>4, <1>5, <1>6, <1>7

LEMMA FoldsExist ==
    ASSUME NEW S, IsFiniteSet(S), NEW base, NEW h
    PROVE  \E g : Folds(g, base, h, SUBSET S)
<1> DEFINE Bad == {n \in Nat : ~ \E g : Folds(g, base, h, Upto(S, n))}
<1>1. CASE Bad = {}
  <2>1. Cardinality(S) \in Nat
    BY FS_CardinalityType
  <2>2. \E g : Folds(g, base, h, Upto(S, Cardinality(S)))
    BY <1>1, <2>1
  <2>3. Upto(S, Cardinality(S)) = SUBSET S
    BY Smaller
  <2> QED
    BY <2>2, <2>3
<1>2. CASE Bad # {}
  <2>1. PICK m \in Bad : \A k \in Bad : m <= k
    <3>1. Bad \in SUBSET Nat
      OBVIOUS
    <3> HIDE DEF Bad
    <3> QED
      BY <1>2, <3>1, LeastNumber
  <2>2. m # 0
    <3> DEFINE g == [s \in {{}} |-> base]
    <3>1. g = [s \in {{}} |-> IF s = {} THEN base ELSE h[<< Chosen(s), g[s \ {Chosen(s)}] >>]]
      OBVIOUS
    <3> HIDE DEF g
    <3>2. Folds(g, base, h, Upto(S, 0))
      BY <3>1, Smaller DEF Folds
    <3> QED
      BY <2>1, <3>2
  <2> DEFINE n == m - 1
  <2>3. n \in Nat /\ m = n + 1
    BY <2>1, <2>2
  <2>4. PICK d : Folds(d, base, h, Upto(S, n))
    <3>1. n \notin Bad
      BY <2>1, <2>3
    <3> QED
      BY <2>3, <3>1
  <2> DEFINE D == Upto(S, n)
             E == Upto(S, n + 1)
             g == [s \in E |-> IF s = {} THEN base ELSE h[<< Chosen(s), d[s \ {Chosen(s)}] >>]]
  <2>5. /\ D \subseteq E
        /\ \A s \in E \ {{}} : s \ {Chosen(s)} \in D
    BY <2>3, Smaller
  <2>6. d = [s \in D |-> IF s = {} THEN base ELSE h[<< Chosen(s), d[s \ {Chosen(s)}] >>]]
    BY <2>4 DEF Folds
  <2> HIDE DEF D, E, n
  <2>7. \A s \in D : g[s] = d[s]
    <3>1. \A s \in D : d[s] = IF s = {} THEN base ELSE h[<< Chosen(s), d[s \ {Chosen(s)}] >>]
      BY <2>6
    <3> QED
      BY <2>5, <3>1
  <2>8. g = [s \in E |-> IF s = {} THEN base ELSE h[<< Chosen(s), g[s \ {Chosen(s)}] >>]]
    <3>1. \A s \in E : s # {} => g[s \ {Chosen(s)}] = d[s \ {Chosen(s)}]
      BY <2>5, <2>7
    <3> QED
      BY <3>1
  <2> HIDE DEF g
  <2>9. Folds(g, base, h, E)
    BY <2>8 DEF Folds
  <2> QED
    BY <2>1, <2>3, <2>9 DEF E
<1> QED
  BY <1>1, <1>2

(***************************************************************************)
(* A fold whose step keeps to M has a value in M for every subset.         *)
(***************************************************************************)
Folding(g, S, M, base, h) ==
    /\ g \in [SUBSET S -> M]
    /\ g[{}] = base
    /\ \A s \in SUBSET S : s # {} => g[s] = h[<< Chosen(s), g[s \ {Chosen(s)}] >>]

LEMMA FoldsKeepType ==
    ASSUME NEW S, IsFiniteSet(S), NEW M, NEW base \in M, NEW h \in [S \X M -> M],
           NEW g, Folds(g, base, h, SUBSET S)
    PROVE  Folding(g, S, M, base, h)
<1>1. g = [s \in SUBSET S |-> IF s = {} THEN base ELSE h[<< Chosen(s), g[s \ {Chosen(s)}] >>]]
  BY DEF Folds
<1>2. g[{}] = base
  BY <1>1
<1>3. \A s \in SUBSET S : s # {} => g[s] = h[<< Chosen(s), g[s \ {Chosen(s)}] >>]
  BY <1>1
<1>4. DOMAIN g = SUBSET S /\ g = [s \in SUBSET S |-> g[s]]
  BY <1>1
<1> DEFINE Bad == {s \in SUBSET S : g[s] \notin M}
<1>5. Bad = {}
  <2> SUFFICES ASSUME Bad # {} PROVE FALSE
    OBVIOUS
  <2>1. PICK s \in Bad : \A x \in s : s \ {x} \notin Bad
    <3>1. Bad \in SUBSET (SUBSET S)
      OBVIOUS
    <3> HIDE DEF Bad
    <3> QED
      BY <3>1, SmallestSet
  <2>2. s # {} /\ s \in SUBSET S /\ g[s] \notin M
    BY <1>2, <2>1
  <2>3. Chosen(s) \in s
    BY <2>2, ChosenIsIn
  <2>4. g[s \ {Chosen(s)}] \in M /\ Chosen(s) \in S
    BY <2>1, <2>2, <2>3
  <2>5. h[<< Chosen(s), g[s \ {Chosen(s)}] >>] \in M
    BY <2>4
  <2> QED
    BY <1>3, <2>2, <2>5
<1>6. \A s \in SUBSET S : g[s] \in M
  BY <1>5
<1>7. g \in [SUBSET S -> M]
  <2> HIDE DEF Bad
  <2> QED
    BY <1>4, <1>6
<1> QED
  BY <1>2, <1>3, <1>7 DEF Folding

-----------------------------------------------------------------------------
(* Sums *)

\* The sums of the subsets of S, one term after the other.
Sums(g, f, S) ==
    /\ g \in [SUBSET S -> Nat]
    /\ g[{}] = 0
    /\ \A s \in SUBSET S : s # {} => g[s] = f[Chosen(s)] + g[s \ {Chosen(s)}]

LEMMA SumOverIsSum ==
    ASSUME NEW S, IsFiniteSet(S), NEW f, \A x \in S : f[x] \in Nat
    PROVE  \E g : Sums(g, f, S) /\ SumOver(f, S) = g[S]
<1> DEFINE iter[s \in SUBSET S] ==
             IF s = {} THEN 0 ELSE f[CHOOSE x \in s : TRUE] + iter[s \ {CHOOSE x \in s : TRUE}]
           h == [p \in S \X Nat |-> f[p[1]] + p[2]]
<1>1. SumOver(f, S) = iter[S]
  BY DEF SumOver, FoldSet, MapThenFoldSet
<1>2. h \in [S \X Nat -> Nat]
  OBVIOUS
<1>3. \A x \in S, n \in Nat : h[<< x, n >>] = f[x] + n
  OBVIOUS
<1> HIDE DEF h
<1>4. PICK g : Folds(g, 0, h, SUBSET S)
  BY FoldsExist
<1>5. Folding(g, S, Nat, 0, h)
  BY <1>2, <1>4, FoldsKeepType
<1>6. Sums(g, f, S)
  <2>1. ASSUME NEW s \in SUBSET S, s # {}
        PROVE  g[s] = f[Chosen(s)] + g[s \ {Chosen(s)}]
    <3>1. Chosen(s) \in S /\ s \ {Chosen(s)} \in SUBSET S
      BY <2>1, ChosenIsIn
    <3>2. g[s \ {Chosen(s)}] \in Nat
      BY <1>5, <3>1 DEF Folding
    <3> QED
      BY <1>3, <1>5, <2>1, <3>1, <3>2 DEF Folding
  <2> QED
    BY <1>5, <2>1 DEF Sums, Folding
<1>7. g = [s \in SUBSET S |->
              IF s = {} THEN 0
              ELSE f[CHOOSE x \in s : TRUE] + g[s \ {CHOOSE x \in s : TRUE}]]
  BY <1>6 DEF Sums, Chosen
<1>8. iter = [s \in SUBSET S |->
                 IF s = {} THEN 0
                 ELSE f[CHOOSE x \in s : TRUE] + iter[s \ {CHOOSE x \in s : TRUE}]]
  BY <1>7
<1> HIDE DEF iter
<1>9. iter[S] = g[S]
  <2> DEFINE Bad == {s \in SUBSET S : iter[s] # g[s]}
  <2> SUFFICES ASSUME Bad # {} PROVE FALSE
    OBVIOUS
  <2>1. PICK s \in Bad : \A x \in s : s \ {x} \notin Bad
    <3>1. Bad \in SUBSET (SUBSET S)
      OBVIOUS
    <3> HIDE DEF Bad
    <3> QED
      BY <3>1, SmallestSet
  <2>2. s \in SUBSET S /\ iter[s] # g[s]
    BY <2>1
  <2>3. s # {}
    BY <1>7, <1>8, <2>2
  <2>4. Chosen(s) \in s /\ s \ {Chosen(s)} \in SUBSET S
    BY <2>2, <2>3, ChosenIsIn
  <2>5. iter[s \ {Chosen(s)}] = g[s \ {Chosen(s)}]
    BY <2>1, <2>4
  <2>6. /\ iter[s] = f[Chosen(s)] + iter[s \ {Chosen(s)}]
        /\ g[s] = f[Chosen(s)] + g[s \ {Chosen(s)}]
    BY <1>7, <1>8, <2>2, <2>3 DEF Chosen
  <2> QED
    BY <2>2, <2>5, <2>6
<1> QED
  BY <1>1, <1>6, <1>9

LEMMA SumBounds ==
    ASSUME NEW S, IsFiniteSet(S), NEW f, \A x \in S : f[x] \in Nat
    PROVE  /\ SumOver(f, S) \in Nat
           /\ (\A x \in S : f[x] >= 1) => SumOver(f, S) >= Cardinality(S)
<1>1. PICK g : Sums(g, f, S) /\ SumOver(f, S) = g[S]
  BY SumOverIsSum
<1>2. g[S] \in Nat
  BY <1>1 DEF Sums
<1>3. ASSUME \A x \in S : f[x] >= 1
      PROVE  g[S] >= Cardinality(S)
  <2> DEFINE Bad == {s \in SUBSET S : ~ (g[s] >= Cardinality(s))}
  <2> SUFFICES ASSUME Bad # {} PROVE FALSE
    OBVIOUS
  <2>1. PICK s \in Bad : \A x \in s : s \ {x} \notin Bad
    <3>1. Bad \in SUBSET (SUBSET S)
      OBVIOUS
    <3> HIDE DEF Bad
    <3> QED
      BY <3>1, SmallestSet
  <2>2. s \in SUBSET S /\ ~ (g[s] >= Cardinality(s))
    BY <2>1
  <2>3. s # {}
    <3>1. g[{}] = 0 /\ Cardinality({}) = 0
      BY <1>1, FS_EmptySet DEF Sums
    <3> QED
      BY <2>2, <3>1
  <2> DEFINE r == s \ {Chosen(s)}
  <2>4. Chosen(s) \in s /\ r \in SUBSET S
    BY <2>2, <2>3, ChosenIsIn
  <2>5. g[r] >= Cardinality(r)
    BY <2>1, <2>4
  <2>6. Cardinality(r) = Cardinality(s) - 1 /\ Cardinality(s) \in Nat
    BY <2>2, <2>4, FS_Subset, FS_RemoveElement, FS_CardinalityType
  <2>7. g[s] = f[Chosen(s)] + g[r] /\ g[r] \in Nat
    BY <1>1, <2>2, <2>3, <2>4 DEF Sums
  <2>8. f[Chosen(s)] \in Nat /\ f[Chosen(s)] >= 1
    BY <1>3, <2>2, <2>4
  <2> HIDE DEF r, Bad
  <2> QED
    BY <2>2, <2>5, <2>6, <2>7, <2>8
<1> QED
  BY <1>1, <1>2, <1>3

-----------------------------------------------------------------------------
(* Fractions *)

Fractions == Nat \X (Nat \ {0})
Zero == << 0, 1 >>

LEMMA Products ==
    ASSUME NEW a \in Nat, NEW b \in Nat
    PROVE  /\ a * b \in Nat
           /\ a > 0 /\ b > 0 => a * b > 0
OBVIOUS

LEMMA ProductsKeepOrder ==
    ASSUME NEW a \in Nat, NEW b \in Nat, NEW c \in Nat
    PROVE  /\ a <= b => a * c <= b * c
           /\ a < b /\ c > 0 => a * c < b * c
           /\ a * c < b * c => a < b
<1>1. ASSUME NEW x \in Nat, NEW y \in Nat, x <= y
      PROVE  x * c <= y * c
  <2>1. PICK d \in Nat : y = x + d
    <3>1. y - x \in Nat /\ y = x + (y - x)
      BY <1>1
    <3> QED
      BY <3>1
  <2>2. y * c = x * c + d * c
    BY <2>1
  <2>3. d * c \in Nat /\ x * c \in Nat
    BY Products
  <2> QED
    BY <2>2, <2>3
<1>2. ASSUME a < b, c > 0
      PROVE  a * c < b * c
  <2>1. (a + 1) * c <= b * c
    BY <1>1, <1>2
  <2>2. (a + 1) * c = a * c + c
    OBVIOUS
  <2>3. a * c \in Nat /\ b * c \in Nat
    BY Products
  <2> QED
    BY <1>2, <2>1, <2>2, <2>3
<1>3. ASSUME a * c < b * c
      PROVE  a < b
  <2> SUFFICES ASSUME b <= a PROVE FALSE
    OBVIOUS
  <2>1. b * c <= a * c
    BY <1>1
  <2>2. a * c \in Nat /\ b * c \in Nat
    BY Products
  <2> QED
    BY <1>3, <2>1, <2>2
<1> QED
  BY <1>1, <1>2, <1>3

LEMMA FractionParts ==
    ASSUME NEW x \in Fractions
    PROVE  x[1] \in Nat /\ x[2] \in Nat /\ x[2] > 0 /\ x = << x[1], x[2] >>
BY DEF Fractions

\* Greater orders the fractions, up to the ones of the same value.
LEMMA GreaterOrders ==
    ASSUME NEW x \in Fractions, NEW y \in Fractions, NEW z \in Fractions
    PROVE  /\ ~ Greater(x, x)
           /\ Greater(x, y) => ~ Greater(y, x)
           /\ Greater(x, y) /\ ~ Greater(z, y) => Greater(x, z)
           /\ ~ Greater(y, x) /\ Greater(y, z) => Greater(x, z)
<1>1. /\ x[1] * x[2] \in Nat /\ x[1] * y[2] \in Nat /\ y[1] * x[2] \in Nat
      /\ x[1] * z[2] \in Nat /\ z[1] * x[2] \in Nat
      /\ y[1] * z[2] \in Nat /\ z[1] * y[2] \in Nat
  BY FractionParts, Products
<1>2. ~ Greater(x, x) /\ (Greater(x, y) => ~ Greater(y, x))
  BY <1>1 DEF Greater
<1>3. /\ (x[1] * y[2]) * z[2] = (x[1] * z[2]) * y[2]
      /\ (y[1] * x[2]) * z[2] = (y[1] * z[2]) * x[2]
      /\ (z[1] * y[2]) * x[2] = (z[1] * x[2]) * y[2]
  BY FractionParts
<1>4. ASSUME Greater(x, y), ~ Greater(z, y)
      PROVE  Greater(x, z)
  <2>1. (y[1] * x[2]) * z[2] < (x[1] * y[2]) * z[2]
    BY <1>1, <1>4, FractionParts, ProductsKeepOrder DEF Greater
  <2>2. (z[1] * y[2]) * x[2] <= (y[1] * z[2]) * x[2]
    BY <1>1, <1>4, FractionParts, ProductsKeepOrder DEF Greater
  <2>3. (z[1] * x[2]) * y[2] < (x[1] * z[2]) * y[2]
    <3>1. /\ (z[1] * x[2]) * y[2] \in Nat /\ (x[1] * z[2]) * y[2] \in Nat
          /\ (y[1] * x[2]) * z[2] \in Nat
      BY <1>1, FractionParts, Products
    <3> QED
      BY <1>3, <2>1, <2>2, <3>1
  <2>4. z[1] * x[2] < x[1] * z[2]
    BY <1>1, <2>3, FractionParts, ProductsKeepOrder
  <2> QED
    BY <1>1, <2>4 DEF Greater
<1>5. ASSUME ~ Greater(y, x), Greater(y, z)
      PROVE  Greater(x, z)
  <2>1. (y[1] * x[2]) * z[2] <= (x[1] * y[2]) * z[2]
    BY <1>1, <1>5, FractionParts, ProductsKeepOrder DEF Greater
  <2>2. (z[1] * y[2]) * x[2] < (y[1] * z[2]) * x[2]
    BY <1>1, <1>5, FractionParts, ProductsKeepOrder DEF Greater
  <2>3. (z[1] * x[2]) * y[2] < (x[1] * z[2]) * y[2]
    <3>1. /\ (z[1] * x[2]) * y[2] \in Nat /\ (x[1] * z[2]) * y[2] \in Nat
          /\ (y[1] * x[2]) * z[2] \in Nat
      BY <1>1, FractionParts, Products
    <3> QED
      BY <1>3, <2>1, <2>2, <3>1
  <2>4. z[1] * x[2] < x[1] * z[2]
    BY <1>1, <2>3, FractionParts, ProductsKeepOrder
  <2> QED
    BY <1>1, <2>4 DEF Greater
<1> QED
  BY <1>2, <1>4, <1>5

LEMMA PlusZero ==
    ASSUME NEW x \in Fractions
    PROVE  Plus(Zero, x) = x /\ Plus(x, Zero) = x
<1>1. x[1] \in Nat /\ x[2] \in Nat /\ x = << x[1], x[2] >>
  BY FractionParts
<1>2. /\ 0 * x[2] + x[1] * 1 = x[1]
      /\ 1 * x[2] = x[2]
      /\ x[1] * 1 + 0 * x[2] = x[1]
      /\ x[2] * 1 = x[2]
  BY <1>1
<1> QED
  BY <1>1, <1>2 DEF Plus, Zero

LEMMA PlusIsFraction ==
    ASSUME NEW x \in Fractions, NEW y \in Fractions
    PROVE  /\ Plus(x, y) \in Fractions
           /\ Plus(x, y)[1] = x[1] * y[2] + y[1] * x[2]
           /\ Plus(x, y)[2] = x[2] * y[2]
<1>1. x[1] * y[2] \in Nat /\ y[1] * x[2] \in Nat /\ x[2] * y[2] \in Nat /\ x[2] * y[2] > 0
  BY FractionParts, Products
<1>2. x[1] * y[2] + y[1] * x[2] \in Nat
  BY <1>1
<1> QED
  BY <1>1, <1>2 DEF Plus, Fractions

(***************************************************************************)
(* A sum of no lesser fractions is no less, and greater if one of them is. *)
(***************************************************************************)
LEMMA PlusKeepsOrder ==
    ASSUME NEW x \in Fractions, NEW y \in Fractions, NEW v \in Fractions, NEW w \in Fractions,
           ~ Greater(v, x), ~ Greater(w, y)
    PROVE  /\ ~ Greater(Plus(v, w), Plus(x, y))
           /\ Greater(x, v) \/ Greater(y, w) => Greater(Plus(x, y), Plus(v, w))
<1> DEFINE P == y[2] * w[2]
           Q == x[2] * v[2]
           A == (x[1] * v[2]) * P
           B == (y[1] * w[2]) * Q
           C == (v[1] * x[2]) * P
           D == (w[1] * y[2]) * Q
<1>1. /\ P \in Nat /\ P > 0 /\ Q \in Nat /\ Q > 0
      /\ x[1] * v[2] \in Nat /\ v[1] * x[2] \in Nat
      /\ y[1] * w[2] \in Nat /\ w[1] * y[2] \in Nat
  BY FractionParts, Products
<1>2. /\ Plus(x, y)[1] * Plus(v, w)[2] = A + B
      /\ Plus(v, w)[1] * Plus(x, y)[2] = C + D
  <2>1. /\ Plus(x, y)[1] = x[1] * y[2] + y[1] * x[2] /\ Plus(x, y)[2] = x[2] * y[2]
        /\ Plus(v, w)[1] = v[1] * w[2] + w[1] * v[2] /\ Plus(v, w)[2] = v[2] * w[2]
    BY PlusIsFraction
  <2>2. (x[1] * y[2] + y[1] * x[2]) * (v[2] * w[2]) = A + B
    BY FractionParts
  <2>3. (v[1] * w[2] + w[1] * v[2]) * (x[2] * y[2]) = C + D
    BY FractionParts
  <2> QED
    BY <2>1, <2>2, <2>3
<1> HIDE DEF P, Q
<1>3. A \in Nat /\ B \in Nat /\ C \in Nat /\ D \in Nat
  BY <1>1, Products
<1>4. /\ C <= A
      /\ Greater(x, v) => C < A
  BY <1>1, ProductsKeepOrder DEF Greater
<1>5. /\ D <= B
      /\ Greater(y, w) => D < B
  BY <1>1, ProductsKeepOrder DEF Greater
<1> HIDE DEF A, B, C, D
<1>6. ~ (C + D > A + B) /\ (Greater(x, v) \/ Greater(y, w) => A + B > C + D)
  BY <1>3, <1>4, <1>5
<1>7. ~ Greater(Plus(v, w), Plus(x, y))
  BY <1>2, <1>6 DEF Greater
<1>8. A + B > C + D => Greater(Plus(x, y), Plus(v, w))
  BY <1>2 DEF Greater
<1> QED
  BY <1>6, <1>7, <1>8

-----------------------------------------------------------------------------
(* Scores: the fractions of the terms, added one after the other *)

Totals(g, w, S) ==
    /\ g \in [SUBSET S -> Fractions]
    /\ g[{}] = Zero
    /\ \A s \in SUBSET S : s # {} => g[s] = Plus(w[Chosen(s)], g[s \ {Chosen(s)}])

Summands(st, r, terms) == [t \in terms |-> Summand(st, r, t, param)]

LEMMA ScoreIsTotal ==
    ASSUME NEW S, IsFiniteSet(S), NEW st, NEW r, \A t \in S : Summand(st, r, t, param) \in Fractions
    PROVE  \E g : Totals(g, Summands(st, r, S), S) /\ BM25Score(st, r, S, param) = g[S]
<1> DEFINE w == Summands(st, r, S)
           iter[s \in SUBSET S] ==
             IF s = {} THEN << 0, 1 >>
             ELSE Plus(Summand(st, r, CHOOSE x \in s : TRUE, param), iter[s \ {CHOOSE x \in s : TRUE}])
           h == [p \in S \X Fractions |-> Plus(w[p[1]], p[2])]
<1>1. BM25Score(st, r, S, param) = iter[S]
  BY DEF BM25Score, FoldSet, MapThenFoldSet
<1>2. \A t \in S : w[t] = Summand(st, r, t, param) /\ w[t] \in Fractions
  BY DEF Summands
<1> HIDE DEF w
<1>3. \A t \in S, x \in Fractions : h[<< t, x >>] = Plus(w[t], x) /\ Plus(w[t], x) \in Fractions
  BY <1>2, PlusIsFraction
<1>4. h \in [S \X Fractions -> Fractions]
  BY <1>3
<1> HIDE DEF h
<1>5. PICK g : Folds(g, Zero, h, SUBSET S)
  BY FoldsExist
<1>6. Zero \in Fractions
  BY DEF Zero, Fractions
<1>7. Folding(g, S, Fractions, Zero, h)
  BY <1>4, <1>5, <1>6, FoldsKeepType
<1>8. Totals(g, w, S)
  <2>1. ASSUME NEW s \in SUBSET S, s # {}
        PROVE  g[s] = Plus(w[Chosen(s)], g[s \ {Chosen(s)}])
    <3>1. Chosen(s) \in S /\ s \ {Chosen(s)} \in SUBSET S
      BY <2>1, ChosenIsIn
    <3>2. g[s \ {Chosen(s)}] \in Fractions
      BY <1>7, <3>1 DEF Folding
    <3> QED
      BY <1>3, <1>7, <2>1, <3>1, <3>2 DEF Folding
  <2> QED
    BY <1>7, <2>1 DEF Totals, Folding
<1>9. g = [s \in SUBSET S |->
              IF s = {} THEN << 0, 1 >>
              ELSE Plus(Summand(st, r, CHOOSE x \in s : TRUE, param), g[s \ {CHOOSE x \in s : TRUE}])]
  <2>1. g = [s \in SUBSET S |-> g[s]]
    BY <1>7 DEF Folding
  <2>2. ASSUME NEW s \in SUBSET S
        PROVE  g[s] = IF s = {} THEN << 0, 1 >>
                      ELSE Plus(Summand(st, r, Chosen(s), param), g[s \ {Chosen(s)}])
    <3>1. CASE s = {}
      BY <1>8, <3>1 DEF Totals, Zero
    <3>2. CASE s # {}
      <4>1. w[Chosen(s)] = Summand(st, r, Chosen(s), param)
        BY <1>2, <3>2, ChosenIsIn
      <4> QED
        BY <1>8, <3>2, <4>1 DEF Totals
    <3> QED
      BY <3>1, <3>2
  <2> QED
    BY <2>1, <2>2 DEF Chosen
<1>10. iter = [s \in SUBSET S |->
              IF s = {} THEN << 0, 1 >>
              ELSE Plus(Summand(st, r, CHOOSE x \in s : TRUE, param), iter[s \ {CHOOSE x \in s : TRUE}])]
  BY <1>9
<1> HIDE DEF iter
<1>11. iter[S] = g[S]
  <2> DEFINE Bad == {s \in SUBSET S : iter[s] # g[s]}
  <2> SUFFICES ASSUME Bad # {} PROVE FALSE
    OBVIOUS
  <2>1. PICK s \in Bad : \A x \in s : s \ {x} \notin Bad
    <3>1. Bad \in SUBSET (SUBSET S)
      OBVIOUS
    <3> HIDE DEF Bad
    <3> QED
      BY <3>1, SmallestSet
  <2>2. s \in SUBSET S /\ iter[s] # g[s]
    BY <2>1
  <2>3. s # {}
    BY <1>9, <1>10, <2>2
  <2>4. Chosen(s) \in s /\ s \ {Chosen(s)} \in SUBSET S
    BY <2>2, <2>3, ChosenIsIn
  <2>5. iter[s \ {Chosen(s)}] = g[s \ {Chosen(s)}]
    BY <2>1, <2>4
  <2>6. /\ iter[s] = Plus(Summand(st, r, Chosen(s), param), iter[s \ {Chosen(s)}])
        /\ g[s] = Plus(Summand(st, r, Chosen(s), param), g[s \ {Chosen(s)}])
    BY <1>9, <1>10, <2>2, <2>3 DEF Chosen
  <2> QED
    BY <2>2, <2>5, <2>6
<1> QED
  BY <1>1, <1>8, <1>11 DEF w

(***************************************************************************)
(* Terms that each count no less add up to no less, and to more if one     *)
(* counts more.                                                            *)
(***************************************************************************)
LEMMA TotalsKeepOrder ==
    ASSUME NEW S, IsFiniteSet(S), NEW v, NEW w, NEW f, NEW g,
           Totals(f, v, S), Totals(g, w, S),
           \A t \in S : v[t] \in Fractions /\ w[t] \in Fractions /\ ~ Greater(w[t], v[t])
    PROVE  /\ ~ Greater(g[S], f[S])
           /\ (\E t \in S : Greater(v[t], w[t])) => Greater(f[S], g[S])
<1> DEFINE Bad == {s \in SUBSET S : \/ Greater(g[s], f[s])
                                    \/ /\ \E t \in s : Greater(v[t], w[t])
                                       /\ ~ Greater(f[s], g[s])}
<1>1. Bad = {}
  <2> SUFFICES ASSUME Bad # {} PROVE FALSE
    OBVIOUS
  <2>1. PICK s \in Bad : \A x \in s : s \ {x} \notin Bad
    <3>1. Bad \in SUBSET (SUBSET S)
      OBVIOUS
    <3> HIDE DEF Bad
    <3> QED
      BY <3>1, SmallestSet
  <2>2. /\ s \in SUBSET S
        /\ \/ Greater(g[s], f[s])
           \/ (\E t \in s : Greater(v[t], w[t])) /\ ~ Greater(f[s], g[s])
    BY <2>1
  <2>3. s # {}
    <3>1. f[{}] = Zero /\ g[{}] = Zero /\ ~ Greater(Zero, Zero)
      BY DEF Totals, Zero, Greater
    <3> QED
      BY <2>2, <3>1
  <2> DEFINE c == Chosen(s)
             r == s \ {c}
  <2>4. c \in s /\ c \in S /\ r \in SUBSET S
    BY <2>2, <2>3, ChosenIsIn
  <2>5. /\ ~ Greater(g[r], f[r])
        /\ (\E t \in r : Greater(v[t], w[t])) => Greater(f[r], g[r])
    BY <2>1, <2>4
  <2>6. f[s] = Plus(v[c], f[r]) /\ g[s] = Plus(w[c], g[r])
    BY <2>2, <2>3 DEF Totals
  <2>7. f[r] \in Fractions /\ g[r] \in Fractions
    BY <2>4 DEF Totals
  <2> HIDE DEF Bad, c
  <2>8. v[c] \in Fractions /\ w[c] \in Fractions /\ ~ Greater(w[c], v[c])
    BY <2>4
  <2>9. /\ ~ Greater(g[s], f[s])
        /\ Greater(v[c], w[c]) \/ Greater(f[r], g[r]) => Greater(f[s], g[s])
    BY <2>5, <2>6, <2>7, <2>8, PlusKeepsOrder
  <2>10. (\E t \in s : Greater(v[t], w[t])) =>
            Greater(v[c], w[c]) \/ \E t \in r : Greater(v[t], w[t])
    OBVIOUS
  <2> QED
    BY <2>2, <2>5, <2>9, <2>10
<1> QED
  BY <1>1

\* Of terms but one that do not count, the score is what that one counts.
LEMMA TotalOfOne ==
    ASSUME NEW S, IsFiniteSet(S), NEW w, NEW g, Totals(g, w, S),
           NEW t \in S, w[t] \in Fractions, \A u \in S \ {t} : w[u] = Zero
    PROVE  g[S] = w[t]
<1> DEFINE Bad == {s \in SUBSET S : g[s] # IF t \in s THEN w[t] ELSE Zero}
<1>1. Bad = {}
  <2> SUFFICES ASSUME Bad # {} PROVE FALSE
    OBVIOUS
  <2>1. PICK s \in Bad : \A x \in s : s \ {x} \notin Bad
    <3>1. Bad \in SUBSET (SUBSET S)
      OBVIOUS
    <3> HIDE DEF Bad
    <3> QED
      BY <3>1, SmallestSet
  <2>2. s \in SUBSET S /\ g[s] # IF t \in s THEN w[t] ELSE Zero
    BY <2>1
  <2>3. s # {}
    BY <2>2 DEF Totals
  <2> DEFINE c == Chosen(s)
             r == s \ {c}
  <2>4. c \in s /\ c \in S /\ r \in SUBSET S
    BY <2>2, <2>3, ChosenIsIn
  <2>5. g[r] = IF t \in r THEN w[t] ELSE Zero
    BY <2>1, <2>4
  <2>6. g[s] = Plus(w[c], g[r])
    BY <2>2, <2>3 DEF Totals
  <2> HIDE DEF Bad, c
  <2>7. Zero \in Fractions
    BY DEF Zero, Fractions
  <2>8. CASE c = t
    BY <2>2, <2>4, <2>5, <2>6, <2>8, PlusZero
  <2>9. CASE c # t
    <3>1. w[c] = Zero /\ g[r] \in Fractions
      BY <2>4, <2>5, <2>7, <2>9
    <3>2. g[s] = g[r]
      BY <2>6, <3>1, PlusZero
    <3> QED
      BY <2>2, <2>4, <2>5, <2>9, <3>2
  <2> QED
    BY <2>8, <2>9
<1> QED
  BY <1>1

-----------------------------------------------------------------------------
(* One term of the score *)

(***************************************************************************)
(* Saturation: what f times a term counts in a text whose normalised       *)
(* length is M is no less than what fewer of them count in one of L, and   *)
(* more if frequency and length count at all.                              *)
(***************************************************************************)
Saturated(I, S, k, f, M) == << I * f * (k + 1) * S, f * S + k * M >>

LEMMA SaturationKeepsOrder ==
    ASSUME NEW I \in Nat, NEW S \in Nat, NEW k \in Nat, NEW f \in Nat, NEW e \in Nat,
           NEW M \in Nat, NEW L \in Nat,
           I > 0, S > 0, e > 0, e <= f, M <= L
    PROVE  /\ Saturated(I, S, k, f, M) \in Fractions
           /\ ~ Greater(Saturated(I, S, k, e, L), Saturated(I, S, k, f, M))
           /\ k > 0 /\ ((e < f /\ L > 0) \/ M < L)
              => Greater(Saturated(I, S, k, f, M), Saturated(I, S, k, e, L))
<1> DEFINE c == (I * (k + 1)) * S
           U == c * ((f * e) * S)
           X == (c * k) * (f * L)
           Y == (c * k) * (e * M)
<1>1. f > 0 /\ k + 1 \in Nat /\ k + 1 > 0
  OBVIOUS
<1>2. I * (k + 1) \in Nat /\ I * (k + 1) > 0
  BY <1>1, Products
<1>3. c \in Nat /\ c > 0
  BY <1>2, Products
<1>4. f * S \in Nat /\ f * S > 0 /\ k * M \in Nat /\ k * L \in Nat /\ e * S \in Nat
  BY <1>1, Products
<1>5. /\ f * L \in Nat /\ e * M \in Nat /\ e * L \in Nat /\ f * e \in Nat
  BY Products
<1>6. c * k \in Nat /\ (k > 0 => c * k > 0) /\ (f * e) * S \in Nat
  BY <1>3, <1>5, Products
<1>7. U \in Nat /\ X \in Nat /\ Y \in Nat
  BY <1>3, <1>5, <1>6, Products
<1>8. /\ I * f * (k + 1) * S = c * f
      /\ I * e * (k + 1) * S = c * e
  OBVIOUS
<1>9. c * f \in Nat /\ c * e \in Nat /\ f * S + k * M \in Nat /\ f * S + k * M > 0
  BY <1>3, <1>4, Products
<1>10. Saturated(I, S, k, f, M) = << c * f, f * S + k * M >>
  BY <1>8 DEF Saturated
<1>11. Saturated(I, S, k, e, L) = << c * e, e * S + k * L >>
  BY <1>8 DEF Saturated
<1> HIDE DEF c
<1>12. (c * f) * (e * S + k * L) = U + X
  BY <1>3
<1>13. (c * e) * (f * S + k * M) = U + Y
  BY <1>3
<1>14. e * M <= e * L /\ e * L <= f * L
  <2>1. M * e <= L * e
    BY ProductsKeepOrder
  <2>2. e * M = M * e /\ e * L = L * e
    OBVIOUS
  <2> QED
    BY <2>1, <2>2, ProductsKeepOrder
<1>15. (e < f /\ L > 0) \/ M < L => e * M < f * L
  <2>1. ASSUME e < f, L > 0
        PROVE  e * L < f * L
    BY <2>1, ProductsKeepOrder
  <2>2. ASSUME M < L
        PROVE  e * M < e * L
    <3>1. M * e < L * e
      BY <2>2, ProductsKeepOrder
    <3>2. e * M = M * e /\ e * L = L * e
      OBVIOUS
    <3> QED
      BY <3>1, <3>2
  <2> QED
    BY <1>5, <1>14, <2>1, <2>2
<1> DEFINE p == f * L
           q == e * M
           d == c * k
<1>16. p \in Nat /\ q \in Nat /\ d \in Nat /\ q <= p
  BY <1>5, <1>6, <1>14
<1>17. X = d * p /\ Y = d * q /\ d * p = p * d /\ d * q = q * d
  BY <1>16
<1> HIDE DEF p, q, d, U, X, Y
<1>18. Y <= X
  BY <1>16, <1>17, ProductsKeepOrder
<1>19. ASSUME k > 0, (e < f /\ L > 0) \/ M < L
       PROVE  Y < X
  <2>1. d > 0
    BY <1>6, <1>19 DEF d
  <2>2. q < p
    BY <1>15, <1>19 DEF p, q
  <2> QED
    BY <1>16, <1>17, <2>1, <2>2, ProductsKeepOrder
<1>20. Saturated(I, S, k, f, M) \in Fractions
  BY <1>9, <1>10 DEF Fractions
<1>21. ~ Greater(Saturated(I, S, k, e, L), Saturated(I, S, k, f, M))
  BY <1>7, <1>10, <1>11, <1>12, <1>13, <1>18 DEF Greater
<1>22. Y < X => Greater(Saturated(I, S, k, f, M), Saturated(I, S, k, e, L))
  BY <1>7, <1>10, <1>11, <1>12, <1>13 DEF Greater
<1> QED
  BY <1>19, <1>20, <1>21, <1>22

\* A term that is in fewer rows counts more, and no term counts against a row.
LEMMA IdfKeepsOrder ==
    ASSUME NEW I \in Nat, NEW J \in Nat, NEW S \in Nat, NEW k \in Nat, NEW f \in Nat,
           NEW M \in Nat, J > 0, S > 0, f > 0, J < I
    PROVE  Greater(Saturated(I, S, k, f, M), Saturated(J, S, k, f, M))
<1> DEFINE d == f * S + k * M
           g == f * (k + 1) * S
           x == (I * g) * d
           y == (J * g) * d
<1>1. k + 1 \in Nat /\ k + 1 > 0
  OBVIOUS
<1>2. f * S \in Nat /\ f * S > 0 /\ k * M \in Nat /\ f * (k + 1) \in Nat /\ f * (k + 1) > 0
  BY <1>1, Products
<1>3. d \in Nat /\ d > 0
  BY <1>2
<1>4. g \in Nat /\ g > 0
  BY <1>2, Products
<1>5. I * f * (k + 1) * S = I * g /\ J * f * (k + 1) * S = J * g
  OBVIOUS
<1>6. Saturated(I, S, k, f, M) = << I * g, d >> /\ Saturated(J, S, k, f, M) = << J * g, d >>
  BY <1>5 DEF Saturated
<1> HIDE DEF d, g
<1>7. J * g < I * g /\ J * g \in Nat /\ I * g \in Nat
  BY <1>4, ProductsKeepOrder, Products
<1>8. (J * g) * d < (I * g) * d
  BY <1>3, <1>7, ProductsKeepOrder
<1> QED
  BY <1>6, <1>8 DEF Greater

LEMMA SaturatedCounts ==
    ASSUME NEW I \in Nat, NEW S \in Nat, NEW k \in Nat, NEW f \in Nat, NEW M \in Nat,
           I > 0, S > 0, f > 0
    PROVE  Greater(Saturated(I, S, k, f, M), Zero)
<1> DEFINE g == I * f * (k + 1) * S
<1>1. k + 1 \in Nat /\ k + 1 > 0 /\ I * f \in Nat /\ I * f > 0
  BY Products
<1>2. (I * f) * (k + 1) \in Nat /\ (I * f) * (k + 1) > 0
  BY <1>1, Products
<1>3. g \in Nat /\ g > 0
  BY <1>2, Products
<1>4. f * S + k * M \in Nat
  BY Products
<1> HIDE DEF g
<1>5. g * 1 > 0 * (f * S + k * M)
  BY <1>3, <1>4
<1> QED
  BY <1>5 DEF Greater, Zero, Saturated, g

-----------------------------------------------------------------------------
(* The statistics *)

\* What TermStats knows of the rows it returns lines for.
Statistics(st) ==
    /\ DOMAIN st.tf \subseteq Ids
    /\ st.n = Cardinality(DOMAIN st.tf)
    /\ st.n \in Nat /\ st.total \in Nat /\ st.total >= st.n
    /\ \A r \in DOMAIN st.tf : /\ st.n > 0
                               /\ st.tf[r] = tf[r]
                               /\ st.len[r] = Length(tf[r])
                               /\ Length(tf[r]) \in Nat /\ Length(tf[r]) > 0
    /\ \A t \in Lexemes : /\ st.df[t] = Cardinality({r \in DOMAIN st.tf : tf[r][t] > 0})
                          /\ st.df[t] \in Nat /\ st.df[t] <= st.n

LEMMA TextTypes ==
    ASSUME tf \in [Ids -> Frequencies]
    PROVE  \A r \in Ids : /\ \A t \in Lexemes : tf[r][t] \in Nat
                          /\ Length(tf[r]) \in Nat
<1> SUFFICES ASSUME NEW r \in Ids
             PROVE  (\A t \in Lexemes : tf[r][t] \in Nat) /\ Length(tf[r]) \in Nat
  OBVIOUS
<1>1. \A t \in Lexemes : tf[r][t] \in Nat
  BY BoundsAssumption DEF Frequencies
<1>2. SumOver(tf[r], Lexemes) \in Nat
  BY <1>1, BoundsAssumption, SumBounds
<1> QED
  BY <1>1, <1>2 DEF Length

LEMMA TermStatsAreStatistics ==
    ASSUME tf \in [Ids -> Frequencies], NEW T \in SUBSET Ids
    PROVE  Statistics(TermStats(T))
<1> DEFINE st == TermStats(T)
           known == {r \in T : Length(tf[r]) > 0}
           len == [r \in known |-> Length(tf[r])]
<1>1. IsFiniteSet(known) /\ known \subseteq Ids
  <2>1. known \subseteq Ids
    OBVIOUS
  <2> HIDE DEF known
  <2> QED
    BY <2>1, BoundsAssumption, FS_Subset
<1>2. /\ st.tf = [r \in known |-> tf[r]]
      /\ st.len = len
      /\ st.df = [t \in Lexemes |-> Cardinality({r \in known : tf[r][t] > 0})]
      /\ st.n = Cardinality(known)
      /\ st.total = SumOver(len, known)
  BY DEF TermStats
<1> HIDE DEF st
<1>3. \A r \in known : Length(tf[r]) \in Nat /\ Length(tf[r]) > 0 /\ len[r] = Length(tf[r])
  BY TextTypes
<1>4. DOMAIN st.tf = known /\ \A r \in known : st.tf[r] = tf[r]
  BY <1>2
<1> HIDE DEF known, len
<1>5. Cardinality(known) \in Nat
  BY <1>1, FS_CardinalityType
<1>6. SumOver(len, known) \in Nat /\ SumOver(len, known) >= Cardinality(known)
  <2>1. \A r \in known : len[r] \in Nat /\ len[r] >= 1
    BY <1>3
  <2> QED
    BY <1>1, <2>1, SumBounds
<1>7. ASSUME NEW t \in Lexemes
      PROVE  LET with == {r \in known : tf[r][t] > 0}
             IN  Cardinality(with) \in Nat /\ Cardinality(with) <= Cardinality(known)
  <2> DEFINE with == {r \in known : tf[r][t] > 0}
  <2>1. with \subseteq known
    OBVIOUS
  <2> HIDE DEF with
  <2>2. IsFiniteSet(with) /\ Cardinality(with) <= Cardinality(known)
    BY <1>1, <2>1, FS_Subset
  <2>3. Cardinality(with) \in Nat
    BY <2>2, FS_CardinalityType
  <2> QED
    BY <2>2, <2>3 DEF with
<1>8. \A t \in Lexemes : /\ st.df[t] = Cardinality({r \in known : tf[r][t] > 0})
                         /\ st.df[t] \in Nat /\ st.df[t] <= st.n
  BY <1>2, <1>7
<1>9. ASSUME NEW r \in known
      PROVE  Cardinality(known) > 0
  <2>1. Cardinality(known) # 0
    BY <1>1, FS_EmptySet
  <2> QED
    BY <1>5, <2>1
<1>10. \A r \in known : /\ st.n > 0
                        /\ st.tf[r] = tf[r]
                        /\ st.len[r] = Length(tf[r])
                        /\ Length(tf[r]) \in Nat /\ Length(tf[r]) > 0
  BY <1>2, <1>3, <1>4, <1>9
<1>11. st.n = Cardinality(known) /\ st.n \in Nat /\ st.total \in Nat /\ st.total >= st.n
  BY <1>2, <1>5, <1>6
<1> QED
  BY <1>1, <1>4, <1>8, <1>10, <1>11 DEF Statistics, st

-----------------------------------------------------------------------------
(* The score of a row *)

\* The length of a row against the average, times BDen, total and n.
Normalised(st, r) == (BDen - param.b) * st.total + param.b * st.len[r] * st.n

\* What the lemmas on scores take from the state.
Scored == param \in Params /\ tf \in [Ids -> Frequencies]

LEMMA LengthCounts ==
    ASSUME Scored, NEW st, Statistics(st), NEW a \in DOMAIN st.tf, NEW b \in DOMAIN st.tf
    PROVE  /\ param.k1 \in Nat /\ param.b \in Nat
           /\ BDen * st.total \in Nat /\ BDen * st.total > 0
           /\ Normalised(st, a) \in Nat /\ Normalised(st, a) > 0
           /\ st.len[a] <= st.len[b] => Normalised(st, a) <= Normalised(st, b)
           /\ st.len[a] < st.len[b] /\ param.b > 0 => Normalised(st, a) < Normalised(st, b)
           /\ st.len[a] = st.len[b] => Normalised(st, a) = Normalised(st, b)
<1> DEFINE k1 == param.k1
           p == param.b
           c == BDen - p
           n == st.n
           m == st.total
           x == st.len[a]
           y == st.len[b]
<1>1. k1 \in Nat /\ p \in Nat /\ c \in Nat /\ BDen \in Nat /\ BDen > 0 /\ c = BDen - p
  BY BoundsAssumption DEF Scored
<1>2. /\ n \in Nat /\ n > 0 /\ m \in Nat /\ m >= n /\ m > 0
      /\ x \in Nat /\ x > 0 /\ y \in Nat /\ y > 0
  BY DEF Statistics
<1>3. Normalised(st, a) = c * m + (p * x) * n /\ Normalised(st, b) = c * m + (p * y) * n
  BY DEF Normalised
<1>4. BDen * m \in Nat /\ BDen * m > 0
  BY <1>1, <1>2, Products
<1> HIDE DEF k1, p, c, n, m, x, y
<1>5. /\ c * m \in Nat /\ (c > 0 => c * m > 0)
      /\ p * x \in Nat /\ (p > 0 => p * x > 0) /\ p * y \in Nat
  BY <1>1, <1>2, Products
<1>6. /\ (p * x) * n \in Nat /\ (p * x > 0 => (p * x) * n > 0)
      /\ (p * y) * n \in Nat
  BY <1>2, <1>5, Products
<1>7. c > 0 \/ p > 0
  BY <1>1
<1>8. x <= y => (p * x) * n <= (p * y) * n
  <2>1. x <= y => x * p <= y * p
    BY <1>1, <1>2, ProductsKeepOrder
  <2>2. x * p = p * x /\ y * p = p * y
    BY <1>1, <1>2
  <2> QED
    BY <1>2, <1>5, <2>1, <2>2, ProductsKeepOrder
<1>9. x < y /\ p > 0 => (p * x) * n < (p * y) * n
  <2>1. x < y /\ p > 0 => x * p < y * p
    BY <1>1, <1>2, ProductsKeepOrder
  <2>2. x * p = p * x /\ y * p = p * y
    BY <1>1, <1>2
  <2> QED
    BY <1>2, <1>5, <2>1, <2>2, ProductsKeepOrder
<1> DEFINE u == (p * x) * n
           v == (p * y) * n
           w == c * m
<1>10. /\ Normalised(st, a) = w + u /\ Normalised(st, b) = w + v
       /\ w \in Nat /\ u \in Nat /\ v \in Nat /\ w + u > 0
  BY <1>3, <1>5, <1>6, <1>7
<1>11. x = y => u = v
  OBVIOUS
<1> HIDE DEF u, v, w
<1>12. /\ x <= y => u <= v
       /\ x < y /\ p > 0 => u < v
  BY <1>8, <1>9 DEF u, v
<1>13. /\ Normalised(st, a) \in Nat /\ Normalised(st, a) > 0
       /\ x <= y => Normalised(st, a) <= Normalised(st, b)
       /\ x < y /\ p > 0 => Normalised(st, a) < Normalised(st, b)
       /\ x = y => Normalised(st, a) = Normalised(st, b)
  BY <1>10, <1>11, <1>12
<1> QED
  BY <1>1, <1>4, <1>13 DEF k1, p, m, x, y

LEMMA TermScoreIsSaturated ==
    ASSUME Scored, NEW st, Statistics(st), NEW r \in DOMAIN st.tf, NEW t \in Lexemes
    PROVE  /\ TermScore(st, r, t, param) =
                Saturated(Idf(st, t), BDen * st.total, param.k1, tf[r][t], Normalised(st, r))
           /\ Idf(st, t) \in Nat /\ Idf(st, t) > 0
           /\ tf[r][t] \in Nat
<1>1. st.tf[r] = tf[r]
  BY DEF Statistics
<1>2. TermScore(st, r, t, param) =
        Saturated(Idf(st, t), BDen * st.total, param.k1, tf[r][t], Normalised(st, r))
  BY <1>1 DEF TermScore, Saturated, Normalised
<1>3. st.n \in Nat /\ st.df[t] \in Nat /\ st.df[t] <= st.n
  BY DEF Statistics
<1>4. Idf(st, t) \in Nat /\ Idf(st, t) > 0
  BY <1>3 DEF Idf
<1>5. tf[r][t] \in Nat
  BY TextTypes DEF Scored, Statistics
<1> QED
  BY <1>2, <1>4, <1>5

\* A term counts for a row that holds it, and not at all for another.
LEMMA SummandCounts ==
    ASSUME Scored, NEW st, Statistics(st), NEW r, NEW t \in Lexemes
    PROVE  /\ Summand(st, r, t, param) \in Fractions
           /\ ~ Greater(Zero, Summand(st, r, t, param))
           /\ r \in DOMAIN st.tf /\ tf[r][t] > 0 =>
                 Greater(Summand(st, r, t, param), Zero) /\ Summand(st, r, t, param) = TermScore(st, r, t, param)
           /\ ~ (r \in DOMAIN st.tf /\ tf[r][t] > 0) => Summand(st, r, t, param) = Zero
<1>1. r \in DOMAIN st.tf => st.tf[r] = tf[r]
  BY DEF Statistics
<1>2. Zero \in Fractions
  BY DEF Zero, Fractions
<1>3. CASE r \in DOMAIN st.tf /\ tf[r][t] > 0
  <2> DEFINE S == BDen * st.total
             M == Normalised(st, r)
  <2>1. Summand(st, r, t, param) = TermScore(st, r, t, param)
    BY <1>1, <1>3 DEF Summand
  <2>2. /\ TermScore(st, r, t, param) = Saturated(Idf(st, t), S, param.k1, tf[r][t], M)
        /\ Idf(st, t) \in Nat /\ Idf(st, t) > 0
        /\ tf[r][t] \in Nat
    BY <1>3, TermScoreIsSaturated
  <2>3. param.k1 \in Nat /\ S \in Nat /\ S > 0 /\ M \in Nat
    BY <1>3, LengthCounts
  <2> HIDE DEF S, M
  <2>4. TermScore(st, r, t, param) \in Fractions
    BY <1>3, <2>2, <2>3, SaturationKeepsOrder
  <2>5. Greater(TermScore(st, r, t, param), Zero)
    BY <1>3, <2>2, <2>3, SaturatedCounts
  <2>6. ~ Greater(Zero, TermScore(st, r, t, param))
    BY <1>2, <2>4, <2>5, GreaterOrders
  <2> QED
    BY <1>3, <2>1, <2>4, <2>5, <2>6
<1>4. CASE ~ (r \in DOMAIN st.tf /\ tf[r][t] > 0)
  <2>1. Summand(st, r, t, param) = Zero
    BY <1>1, <1>4 DEF Summand, Zero
  <2> QED
    BY <1>2, <1>4, <2>1, GreaterOrders
<1> QED
  BY <1>3, <1>4

\* The scores of two rows are two totals over the terms of the query.
LEMMA ScoresAreTotals ==
    ASSUME Scored, NEW st, Statistics(st), NEW A \in SUBSET Lexemes, NEW a
    PROVE  /\ IsFiniteSet(A)
           /\ \A t \in A : /\ Summands(st, a, A)[t] = Summand(st, a, t, param)
                           /\ Summands(st, a, A)[t] \in Fractions
           /\ \E f : Totals(f, Summands(st, a, A), A) /\ BM25Score(st, a, A, param) = f[A]
           /\ BM25Score(st, a, A, param) \in Fractions
<1>1. IsFiniteSet(A)
  BY BoundsAssumption, FS_Subset
<1>2. \A t \in A : Summand(st, a, t, param) \in Fractions
  BY SummandCounts
<1>3. \A t \in A : /\ Summands(st, a, A)[t] = Summand(st, a, t, param)
                   /\ Summands(st, a, A)[t] \in Fractions
  BY <1>2 DEF Summands
<1>4. \E f : Totals(f, Summands(st, a, A), A) /\ BM25Score(st, a, A, param) = f[A]
  BY <1>1, <1>2, ScoreIsTotal
<1>5. BM25Score(st, a, A, param) \in Fractions
  BY <1>4 DEF Totals
<1> QED
  BY <1>1, <1>3, <1>4, <1>5

LEMMA ScoresMore ==
    ASSUME Scored, NEW st, Statistics(st), NEW A \in SUBSET Lexemes, NEW a, NEW b,
           \A t \in A : ~ Greater(Summand(st, b, t, param), Summand(st, a, t, param)),
           NEW t \in A, Greater(Summand(st, a, t, param), Summand(st, b, t, param))
    PROVE  Greater(BM25Score(st, a, A, param), BM25Score(st, b, A, param))
<1> DEFINE v == Summands(st, a, A)
           w == Summands(st, b, A)
<1>1. PICK f : Totals(f, v, A) /\ BM25Score(st, a, A, param) = f[A]
  BY ScoresAreTotals
<1>2. PICK g : Totals(g, w, A) /\ BM25Score(st, b, A, param) = g[A]
  BY ScoresAreTotals
<1>3. /\ \A u \in A : v[u] = Summand(st, a, u, param) /\ v[u] \in Fractions
      /\ \A u \in A : w[u] = Summand(st, b, u, param) /\ w[u] \in Fractions
      /\ IsFiniteSet(A)
  BY ScoresAreTotals
<1> HIDE DEF v, w
<1>4. /\ \A u \in A : v[u] \in Fractions /\ w[u] \in Fractions /\ ~ Greater(w[u], v[u])
      /\ \E u \in A : Greater(v[u], w[u])
  BY <1>3
<1>5. Greater(f[A], g[A])
  BY <1>1, <1>2, <1>3, <1>4, TotalsKeepOrder
<1> QED
  BY <1>1, <1>2, <1>5

LEMMA DominatingScoresMore ==
    ASSUME Scored, NEW st, Statistics(st), NEW A \in SUBSET Lexemes,
           NEW a \in DOMAIN st.tf, NEW b \in DOMAIN st.tf,
           \A t \in A : tf[a][t] >= tf[b][t],
           Length(tf[a]) <= Length(tf[b]),
           NEW t \in A,
           \/ tf[a][t] > 0 /\ tf[b][t] = 0
           \/ param.k1 > 0 /\ tf[a][t] > tf[b][t]
           \/ /\ param.k1 > 0 /\ param.b > 0
              /\ tf[a][t] > 0 /\ Length(tf[a]) < Length(tf[b])
    PROVE  Greater(BM25Score(st, a, A, param), BM25Score(st, b, A, param))
<1> DEFINE S == BDen * st.total
           M == Normalised(st, a)
           L == Normalised(st, b)
<1>1. st.len[a] = Length(tf[a]) /\ st.len[b] = Length(tf[b])
  BY DEF Statistics
<1>2. /\ param.k1 \in Nat /\ param.b \in Nat
      /\ S \in Nat /\ S > 0
      /\ M \in Nat /\ L \in Nat /\ L > 0
      /\ M <= L
      /\ st.len[a] < st.len[b] /\ param.b > 0 => M < L
  BY <1>1, LengthCounts
<1>3. ASSUME NEW u \in A
      PROVE  /\ tf[a][u] \in Nat /\ tf[b][u] \in Nat
             /\ tf[b][u] > 0 =>
                   /\ Summand(st, a, u, param) = Saturated(Idf(st, u), S, param.k1, tf[a][u], M)
                   /\ Summand(st, b, u, param) = Saturated(Idf(st, u), S, param.k1, tf[b][u], L)
             /\ Idf(st, u) \in Nat /\ Idf(st, u) > 0
  <2>1. u \in Lexemes /\ tf[a][u] >= tf[b][u]
    OBVIOUS
  <2>2. /\ TermScore(st, a, u, param) = Saturated(Idf(st, u), S, param.k1, tf[a][u], M)
        /\ TermScore(st, b, u, param) = Saturated(Idf(st, u), S, param.k1, tf[b][u], L)
        /\ Idf(st, u) \in Nat /\ Idf(st, u) > 0
        /\ tf[a][u] \in Nat /\ tf[b][u] \in Nat
    BY <2>1, TermScoreIsSaturated
  <2>3. tf[b][u] > 0 => tf[a][u] > 0
    BY <2>1, <2>2
  <2>4. tf[b][u] > 0 => Summand(st, a, u, param) = TermScore(st, a, u, param)
                        /\ Summand(st, b, u, param) = TermScore(st, b, u, param)
    BY <2>1, <2>3, SummandCounts
  <2> QED
    BY <2>2, <2>4
<1> HIDE DEF S, M, L
<1>4. ASSUME NEW u \in A
      PROVE  ~ Greater(Summand(st, b, u, param), Summand(st, a, u, param))
  <2>1. CASE tf[b][u] > 0
    <3> DEFINE f == tf[a][u]
               e == tf[b][u]
               I == Idf(st, u)
               k == param.k1
    <3>1. e \in Nat /\ e > 0 /\ f \in Nat /\ e <= f /\ I \in Nat /\ I > 0 /\ k \in Nat
      BY <1>2, <1>3, <2>1
    <3>2. /\ Summand(st, a, u, param) = Saturated(I, S, k, f, M)
          /\ Summand(st, b, u, param) = Saturated(I, S, k, e, L)
      BY <1>3, <2>1
    <3> HIDE DEF f, e, I, k
    <3>3. ~ Greater(Saturated(I, S, k, e, L), Saturated(I, S, k, f, M))
      BY <1>2, <3>1, SaturationKeepsOrder
    <3> QED
      BY <3>2, <3>3
  <2>2. CASE ~ (tf[b][u] > 0)
    <3>1. Summand(st, b, u, param) = Zero
      BY <2>2, SummandCounts
    <3> QED
      BY <3>1, SummandCounts
  <2> QED
    BY <2>1, <2>2
<1>5. Greater(Summand(st, a, t, param), Summand(st, b, t, param))
  <2>1. CASE tf[b][t] > 0
    <3> DEFINE f == tf[a][t]
               e == tf[b][t]
               I == Idf(st, t)
               k == param.k1
    <3>1. e \in Nat /\ e > 0 /\ f \in Nat /\ e <= f /\ I \in Nat /\ I > 0 /\ k \in Nat
      BY <1>2, <1>3, <2>1
    <3>2. k > 0 /\ ((e < f /\ L > 0) \/ M < L)
      BY <1>1, <1>2, <2>1, <3>1
    <3>3. /\ Summand(st, a, t, param) = Saturated(I, S, k, f, M)
          /\ Summand(st, b, t, param) = Saturated(I, S, k, e, L)
      BY <1>3, <2>1
    <3> HIDE DEF f, e, I, k
    <3>4. Greater(Saturated(I, S, k, f, M), Saturated(I, S, k, e, L))
      BY <1>2, <3>1, <3>2, SaturationKeepsOrder
    <3> QED
      BY <3>3, <3>4
  <2>2. CASE ~ (tf[b][t] > 0)
    <3>1. tf[a][t] \in Nat /\ tf[b][t] \in Nat
      BY <1>3
    <3>2. tf[b][t] = 0 /\ tf[a][t] > 0
      BY <2>2, <3>1
    <3>3. t \in Lexemes
      OBVIOUS
    <3>4. Summand(st, b, t, param) = Zero
      BY <2>2, <3>3, SummandCounts
    <3>5. Greater(Summand(st, a, t, param), Zero)
      BY <3>2, <3>3, SummandCounts
    <3> QED
      BY <3>4, <3>5
  <2> QED
    BY <2>1, <2>2
<1> QED
  BY <1>4, <1>5, ScoresMore

LEMMA HolderScoresMore ==
    ASSUME Scored, NEW st, Statistics(st), NEW A \in SUBSET Lexemes,
           NEW a \in DOMAIN st.tf, NEW t \in A, tf[a][t] > 0,
           NEW b, \A u \in A : ~ (b \in DOMAIN st.tf /\ tf[b][u] > 0)
    PROVE  Greater(BM25Score(st, a, A, param), BM25Score(st, b, A, param))
<1>1. \A u \in A : Summand(st, b, u, param) = Zero
  BY SummandCounts
<1>2. \A u \in A : ~ Greater(Summand(st, b, u, param), Summand(st, a, u, param))
  BY <1>1, SummandCounts
<1>3. Greater(Summand(st, a, t, param), Summand(st, b, t, param))
  BY <1>1, SummandCounts
<1> QED
  BY <1>2, <1>3, ScoresMore

LEMMA ScoreOfOne ==
    ASSUME Scored, NEW st, Statistics(st), NEW A \in SUBSET Lexemes,
           NEW a \in DOMAIN st.tf, NEW t \in A,
           tf[a][t] > 0, \A x \in A \ {t} : ~ (tf[a][x] > 0)
    PROVE  BM25Score(st, a, A, param) = TermScore(st, a, t, param)
<1> DEFINE v == Summands(st, a, A)
<1>1. PICK g : Totals(g, v, A) /\ BM25Score(st, a, A, param) = g[A]
  BY ScoresAreTotals
<1>2. /\ IsFiniteSet(A)
      /\ \A x \in A : v[x] = Summand(st, a, x, param) /\ v[x] \in Fractions
  BY ScoresAreTotals
<1>3. \A x \in A \ {t} : v[x] = Zero
  BY <1>2, SummandCounts
<1>4. v[t] = TermScore(st, a, t, param)
  BY <1>2, SummandCounts
<1> HIDE DEF v
<1>5. g[A] = v[t]
  BY <1>1, <1>2, <1>3, TotalOfOne
<1> QED
  BY <1>1, <1>4, <1>5

LEMMA RarerScoresMore ==
    ASSUME Scored, NEW st, Statistics(st), NEW A \in SUBSET Lexemes,
           NEW a \in DOMAIN st.tf, NEW b \in DOMAIN st.tf, NEW t \in A, NEW u \in A,
           {x \in A : tf[a][x] > 0} = {t}, {x \in A : tf[b][x] > 0} = {u},
           tf[a][t] = tf[b][u],
           Length(tf[a]) = Length(tf[b]),
           st.df[t] < st.df[u]
    PROVE  Greater(BM25Score(st, a, A, param), BM25Score(st, b, A, param))
<1> DEFINE S == BDen * st.total
           M == Normalised(st, a)
           f == tf[a][t]
           k == param.k1
<1>1. tf[a][t] > 0 /\ tf[b][u] > 0
  OBVIOUS
<1>2. /\ \A x \in A \ {t} : ~ (tf[a][x] > 0)
      /\ \A x \in A \ {u} : ~ (tf[b][x] > 0)
  OBVIOUS
<1>3. BM25Score(st, a, A, param) = TermScore(st, a, t, param)
  BY <1>1, <1>2, ScoreOfOne
<1>4. BM25Score(st, b, A, param) = TermScore(st, b, u, param)
  BY <1>1, <1>2, ScoreOfOne
<1>5. st.len[a] = st.len[b]
  BY DEF Statistics
<1>6. /\ k \in Nat /\ S \in Nat /\ S > 0 /\ M \in Nat
      /\ Normalised(st, b) = M
  BY <1>5, LengthCounts
<1>7. /\ TermScore(st, a, t, param) = Saturated(Idf(st, t), S, k, f, M)
      /\ Idf(st, t) \in Nat /\ Idf(st, t) > 0
      /\ f \in Nat /\ f > 0
  BY <1>1, TermScoreIsSaturated
<1>8. /\ TermScore(st, b, u, param) = Saturated(Idf(st, u), S, k, f, M)
      /\ Idf(st, u) \in Nat /\ Idf(st, u) > 0
  BY <1>6, TermScoreIsSaturated
<1>9. Idf(st, u) < Idf(st, t)
  <2>1. st.n \in Nat /\ st.df[t] \in Nat /\ st.df[u] \in Nat /\ st.df[t] < st.df[u]
    BY DEF Statistics
  <2> QED
    BY <2>1 DEF Idf
<1> HIDE DEF S, M, f, k
<1>10. Greater(TermScore(st, a, t, param), TermScore(st, b, u, param))
  BY <1>6, <1>7, <1>8, <1>9, IdfKeepsOrder
<1> QED
  BY <1>3, <1>4, <1>10

-----------------------------------------------------------------------------
(* Sorting: Place numbers the rows without gaps, and one that scores more  *)
(* has the smaller number.                                                 *)

Ahead(score, j) ==
    {i \in DOMAIN score : \/ Greater(score[i], score[j])
                          \/ ~ Greater(score[j], score[i]) /\ i < j}

LEMMA AheadIsFinite ==
    ASSUME NEW n \in Nat, NEW score \in [1 .. n -> Fractions], NEW j \in 1 .. n
    PROVE  /\ IsFiniteSet(Ahead(score, j))
           /\ Cardinality(Ahead(score, j)) \in Nat
           /\ Place(score, j) = 1 + Cardinality(Ahead(score, j))
           /\ Place(score, j) \in 1 .. n
<1>1. IsFiniteSet(1 .. n) /\ Cardinality(1 .. n) = n
  BY FS_Interval
<1>2. Ahead(score, j) \subseteq (1 .. n) \ {j}
  BY GreaterOrders DEF Ahead
<1>3. IsFiniteSet((1 .. n) \ {j}) /\ Cardinality((1 .. n) \ {j}) = n - 1
  BY <1>1, FS_RemoveElement
<1>4. IsFiniteSet(Ahead(score, j)) /\ Cardinality(Ahead(score, j)) <= n - 1
  BY <1>2, <1>3, FS_Subset
<1>5. Cardinality(Ahead(score, j)) \in Nat
  BY <1>4, FS_CardinalityType
<1>6. Place(score, j) = 1 + Cardinality(Ahead(score, j))
  BY DEF Place, Ahead
<1> QED
  BY <1>4, <1>5, <1>6

LEMMA AheadComesFirst ==
    ASSUME NEW n \in Nat, NEW score \in [1 .. n -> Fractions],
           NEW i \in 1 .. n, NEW j \in 1 .. n, i \in Ahead(score, j)
    PROVE  Place(score, i) < Place(score, j)
<1>1. ~ Greater(score[j], score[i]) /\ (Greater(score[i], score[j]) \/ i < j)
  BY GreaterOrders DEF Ahead
<1>2. Ahead(score, i) \subseteq Ahead(score, j)
  <2> SUFFICES ASSUME NEW h \in Ahead(score, i)
               PROVE  h \in Ahead(score, j)
    OBVIOUS
  <2>1. /\ h \in 1 .. n
        /\ ~ Greater(score[i], score[h])
        /\ Greater(score[h], score[i]) \/ h < i
    BY GreaterOrders DEF Ahead
  <2> DEFINE x == score[h]
             y == score[i]
             z == score[j]
  <2>2. x \in Fractions /\ y \in Fractions /\ z \in Fractions
    BY <2>1
  <2> HIDE DEF x, y, z
  <2>3. ~ Greater(z, y) /\ ~ Greater(y, x)
    BY <1>1, <2>1 DEF x, y, z
  <2>4. Greater(x, y) => Greater(x, z)
    BY <2>2, <2>3, GreaterOrders
  <2>5. Greater(y, z) => Greater(x, z)
    BY <2>2, <2>3, GreaterOrders
  <2>6. ~ Greater(z, x)
    BY <2>2, <2>3, GreaterOrders
  <2>7. Greater(x, z) \/ (~ Greater(z, x) /\ h < j)
    BY <1>1, <2>1, <2>4, <2>5, <2>6 DEF x, y, z
  <2> QED
    BY <2>1, <2>7 DEF Ahead, x, z
<1>3. i \notin Ahead(score, i)
  BY GreaterOrders DEF Ahead
<1>4. Cardinality(Ahead(score, i)) <= Cardinality(Ahead(score, j))
  BY <1>2, AheadIsFinite, FS_Subset
<1>5. Cardinality(Ahead(score, i)) # Cardinality(Ahead(score, j))
  BY <1>2, <1>3, AheadIsFinite, FS_Subset
<1> QED
  BY <1>4, <1>5, AheadIsFinite

LEMMA PlacesDiffer ==
    ASSUME NEW n \in Nat, NEW score \in [1 .. n -> Fractions],
           NEW i \in 1 .. n, NEW j \in 1 .. n, i # j
    PROVE  Place(score, i) # Place(score, j)
<1>1. i \in Ahead(score, j) \/ j \in Ahead(score, i)
  BY DEF Ahead
<1>2. Place(score, i) \in Int /\ Place(score, j) \in Int
  BY AheadIsFinite
<1>3. Place(score, i) < Place(score, j) \/ Place(score, j) < Place(score, i)
  BY <1>1, AheadComesFirst
<1> QED
  BY <1>2, <1>3

LEMMA PlacesAreFilled ==
    ASSUME NEW n \in Nat, NEW score \in [1 .. n -> Fractions], NEW p \in 1 .. n
    PROVE  \E j \in 1 .. n : Place(score, j) = p
<1> DEFINE f == [j \in 1 .. n |-> Place(score, j)]
<1>1. f \in [1 .. n -> 1 .. n]
  BY AheadIsFinite
<1>2. ASSUME NEW i \in 1 .. n, NEW j \in 1 .. n, i # j
      PROVE  f[i] # f[j]
  BY <1>2, PlacesDiffer
<1>3. f \in Injection(1 .. n, 1 .. n)
  <2> HIDE DEF f
  <2> QED
    BY <1>1, <1>2, Fun_IsInj
<1>4. f \in Surjection(1 .. n, 1 .. n)
  BY <1>3, FS_Interval, FS_Injection
<1>5. \E j \in 1 .. n : f[j] = p
  <2> HIDE DEF f
  <2> QED
    BY <1>4 DEF Surjection
<1> QED
  BY <1>5

\* SetToSeqs lists every element of a finite set once.
LEMMA ListsOfSet ==
    ASSUME NEW S, IsFiniteSet(S), NEW s \in SetToSeqs(S)
    PROVE  /\ Cardinality(S) \in Nat
           /\ s \in [1 .. Cardinality(S) -> S]
           /\ \A i, j \in 1 .. Cardinality(S) : i # j => s[i] # s[j]
           /\ \A x \in S : \E i \in 1 .. Cardinality(S) : s[i] = x
<1> DEFINE n == Cardinality(S)
<1>1. n \in Nat
  BY FS_CardinalityType
<1>2. s \in [1 .. n -> S] /\ \A i, j \in 1 .. n : i # j => s[i] # s[j]
  BY DEF SetToSeqs
<1>3. s \in Injection(1 .. n, S)
  <2> HIDE DEF n
  <2> QED
    BY <1>2, Fun_IsInj
<1>4. IsFiniteSet(1 .. n) /\ Cardinality(1 .. n) = n
  BY <1>1, FS_Interval
<1>5. s \in Surjection(1 .. n, S)
  BY <1>3, <1>4, FS_Injection
<1>6. \A x \in S : \E i \in 1 .. n : s[i] = x
  BY <1>5 DEF Surjection
<1> QED
  BY <1>1, <1>2, <1>6

(***************************************************************************)
(* What a retrieval returns is rows that match, each at most once, and no  *)
(* row that scores more than one of them is left out or comes after it.    *)
(***************************************************************************)
Ranks(st, o, S, q, p) ==
    /\ o \in [1 .. Len(o) -> S]
    /\ Len(o) \in Nat
    /\ \A i, j \in 1 .. Len(o) : i # j => o[i] # o[j]
    /\ \A a \in S : \A i \in 1 .. Len(o) :
          Greater(BM25Score(st, a, QueryTerms(q), p), BM25Score(st, o[i], QueryTerms(q), p))
          => \E j \in 1 .. i - 1 : o[j] = a

LEMMA RankRanks ==
    ASSUME NEW S, IsFiniteSet(S), NEW st, NEW q, q.k \in Nat,
           \A a \in S : BM25Score(st, a, QueryTerms(q), param) \in Fractions,
           NEW s \in SetToSeqs(S)
    PROVE  Ranks(st, Rank(st, s, q, param), S, q, param)
<1> DEFINE n == Cardinality(S)
           o == Rank(st, s, q, param)
           score == [i \in DOMAIN s |-> BM25Score(st, s[i], QueryTerms(q), param)]
           at == [p \in DOMAIN s |-> CHOOSE j \in DOMAIN s : Place(score, j) = p]
           ranked == [p \in DOMAIN s |-> s[at[p]]]
           m == IF q.k > 0 /\ n > q.k THEN q.k ELSE n
<1>1. /\ n \in Nat
      /\ s \in [1 .. n -> S]
      /\ \A i, j \in 1 .. n : i # j => s[i] # s[j]
      /\ \A x \in S : \E i \in 1 .. n : s[i] = x
  BY ListsOfSet
<1> HIDE DEF n
<1>2. DOMAIN s = 1 .. n /\ Len(s) = n
  BY <1>1
<1>3. score \in [1 .. n -> Fractions]
  BY <1>1, <1>2
<1>4. \A i \in 1 .. n : score[i] = BM25Score(st, s[i], QueryTerms(q), param)
  BY <1>2
<1>5. o = IF q.k > 0 /\ n > q.k THEN SubSeq(ranked, 1, q.k) ELSE ranked
  <2>1. ranked = [p \in DOMAIN s |-> s[CHOOSE j \in DOMAIN s : Place(score, j) = p]]
    OBVIOUS
  <2> HIDE DEF ranked
  <2> QED
    BY <1>2, <2>1 DEF Rank
<1> HIDE DEF score, o
<1>6. ASSUME NEW p \in 1 .. n
      PROVE  at[p] \in 1 .. n /\ Place(score, at[p]) = p
  <2>1. at[p] = CHOOSE j \in 1 .. n : Place(score, j) = p
    BY <1>2
  <2> HIDE DEF at
  <2>2. \E j \in 1 .. n : Place(score, j) = p
    BY <1>1, <1>3, PlacesAreFilled
  <2> QED
    BY <2>1, <2>2
<1> HIDE DEF at
<1>7. /\ ranked \in [1 .. n -> S]
      /\ \A p \in 1 .. n : ranked[p] = s[at[p]]
  BY <1>1, <1>2, <1>6
<1> HIDE DEF ranked
<1>8. /\ Len(o) = m
      /\ m \in Nat /\ m <= n
      /\ o \in [1 .. m -> S]
      /\ \A p \in 1 .. m : o[p] = s[at[p]]
  <2>1. ranked \in Seq(S) /\ Len(ranked) = n
    BY <1>1, <1>7, SeqDef
  <2>2. CASE q.k > 0 /\ n > q.k
    <3>1. \A i \in 1 .. q.k : ranked[i] \in S
      BY <1>1, <1>7, <2>2
    <3>2. /\ SubSeq(ranked, 1, q.k) \in Seq(S)
          /\ Len(SubSeq(ranked, 1, q.k)) = q.k
          /\ \A i \in 1 .. q.k : SubSeq(ranked, 1, q.k)[i] = ranked[i]
      BY <2>2, <3>1, SubSeqProperties
    <3>3. o \in Seq(S) /\ Len(o) = q.k /\ \A i \in 1 .. q.k : o[i] = ranked[i]
      BY <1>5, <2>2, <3>2
    <3>4. o \in [1 .. q.k -> S]
      BY <3>3, LenProperties
    <3>5. m = q.k /\ m <= n
      BY <1>1, <2>2
    <3>6. \A i \in 1 .. q.k : i \in 1 .. n
      BY <1>1, <2>2
    <3> QED
      BY <1>7, <3>3, <3>4, <3>5, <3>6
  <2>3. CASE ~ (q.k > 0 /\ n > q.k)
    <3>1. o = ranked /\ m = n
      BY <1>5, <2>3
    <3> QED
      BY <1>1, <1>7, <2>1, <3>1
  <2> QED
    BY <2>2, <2>3
<1> HIDE DEF m
<1>9. ASSUME NEW i \in 1 .. m, NEW j \in 1 .. m, i # j
      PROVE  o[i] # o[j]
  <2>1. i \in 1 .. n /\ j \in 1 .. n
    BY <1>1, <1>8
  <2>2. at[i] # at[j]
    BY <1>6, <1>9, <2>1
  <2> QED
    BY <1>1, <1>6, <1>8, <2>1, <2>2
<1>10. ASSUME NEW a \in S, NEW i \in 1 .. m,
              Greater(BM25Score(st, a, QueryTerms(q), param), BM25Score(st, o[i], QueryTerms(q), param))
       PROVE  \E j \in 1 .. i - 1 : o[j] = a
  <2>1. i \in 1 .. n
    BY <1>1, <1>8
  <2>2. PICK x \in 1 .. n : s[x] = a
    BY <1>1
  <2> DEFINE y == at[i]
             p == Place(score, x)
  <2>3. y \in 1 .. n /\ Place(score, y) = i /\ o[i] = s[y]
    BY <1>6, <1>8, <2>1
  <2>4. p \in 1 .. n
    BY <1>1, <1>3, AheadIsFinite
  <2> HIDE DEF y
  <2>5. Greater(score[x], score[y])
    BY <1>4, <1>10, <2>2, <2>3
  <2>6. x \in Ahead(score, y)
    BY <1>3, <2>2, <2>3, <2>5 DEF Ahead
  <2>7. p < i
    BY <1>1, <1>3, <2>3, <2>6, AheadComesFirst
  <2>8. at[p] = x
    <3>1. at[p] \in 1 .. n /\ Place(score, at[p]) = p
      BY <1>6, <2>4
    <3> QED
      BY <1>1, <1>3, <3>1, PlacesDiffer
  <2> HIDE DEF p
  <2>9. p \in 1 .. i - 1 /\ p \in 1 .. m
    BY <1>8, <2>4, <2>7
  <2>10. o[p] = a
    BY <1>8, <2>2, <2>8, <2>9
  <2> QED
    BY <2>9, <2>10
<1> QED
  BY <1>8, <1>9, <1>10 DEF Ranks, o

-----------------------------------------------------------------------------
(* The invariant: what a retrieval returns is a ranking of the rows that   *)
(* matched, by statistics of rows there may be.                            *)

Outcome ==
    \/ rows = {} /\ out = << >>
    \/ stage = "idle" /\ Ranks(stats, out, rows, asked, param)

IInv ==
    /\ tf \in [Ids -> Frequencies]
    /\ present \subseteq Ids
    /\ param \in Params
    /\ Statistics(stats)
    /\ asked \in Queries
    /\ rows \subseteq Ids
    /\ writes \in 0 .. MaxWrites
    /\ stage \in {"stats", "idle", "matching"}
    /\ Outcome

LEMMA InitInvariant == Init => IInv
<1> SUFFICES ASSUME Init PROVE IInv
  OBVIOUS
<1>1. Statistics(stats)
  <2>1. tf \in [Ids -> Frequencies] /\ stats = TermStats({})
    BY DEF Init
  <2>2. Statistics(TermStats({}))
    BY <2>1, TermStatsAreStatistics
  <2> QED
    BY <2>1, <2>2
<1>2. asked \in Queries
  BY BoundsAssumption DEF Init, NoQuery, Queries
<1>3. writes \in 0 .. MaxWrites
  BY BoundsAssumption DEF Init
<1> QED
  BY <1>1, <1>2, <1>3 DEF Init, IInv, Outcome

LEMMA QueryTermsAreLexemes ==
    ASSUME NEW q \in Queries
    PROVE  QueryTerms(q) \in SUBSET Lexemes /\ q.k \in Nat
BY BoundsAssumption DEF Queries, QueryTerms

LEMMA NextInvariant == IInv /\ [Next]_vars => IInv'
<1> SUFFICES ASSUME IInv, [Next]_vars
             PROVE  IInv'
  OBVIOUS
<1>1. /\ tf \in [Ids -> Frequencies] /\ present \subseteq Ids /\ param \in Params
      /\ Statistics(stats) /\ asked \in Queries /\ rows \subseteq Ids
      /\ writes \in 0 .. MaxWrites /\ Outcome
  BY DEF IInv
<1>2. CASE LoadStats
  <2>1. Statistics(stats)'
    <3>1. Statistics(TermStats(present))
      BY <1>1, TermStatsAreStatistics
    <3>2. tf' = tf /\ stats' = TermStats(present)
      BY <1>2 DEF LoadStats
    <3> QED
      BY <3>1, <3>2 DEF Statistics
  <2>2. Outcome'
    BY <1>1, <1>2 DEF LoadStats, Outcome
  <2> QED
    BY <1>1, <1>2, <2>1, <2>2 DEF LoadStats, IInv
<1>3. CASE Write
  <2>1. Statistics(stats)'
    BY <1>1, <1>3 DEF Write, Statistics
  <2>2. Outcome'
    BY <1>1, <1>3 DEF Write, Outcome
  <2>3. writes' \in 0 .. MaxWrites
    BY <1>1, <1>3, BoundsAssumption DEF Write
  <2>4. present' \subseteq Ids
    BY <1>1, <1>3 DEF Write
  <2> QED
    BY <1>1, <1>3, <2>1, <2>2, <2>3, <2>4 DEF Write, IInv
<1>4. CASE NoTerms
  <2>1. Statistics(stats)'
    BY <1>1, <1>4 DEF NoTerms, Statistics
  <2>2. Outcome'
    BY <1>4 DEF NoTerms, Outcome
  <2> QED
    BY <1>1, <1>4, <2>1, <2>2 DEF NoTerms, IInv
<1>5. CASE Terms
  <2>1. Statistics(stats)'
    BY <1>1, <1>5 DEF Terms, Statistics
  <2>2. Outcome'
    BY <1>5 DEF Terms, Outcome
  <2> QED
    BY <1>1, <1>5, <2>1, <2>2 DEF Terms, IInv
<1>6. CASE MatchAndRank
  <2>1. Statistics(stats)'
    BY <1>1, <1>6 DEF MatchAndRank, Statistics
  <2>2. rows' \subseteq Ids /\ IsFiniteSet(rows')
    <3>1. rows' \subseteq Ids
      BY <1>1, <1>6 DEF MatchAndRank
    <3> QED
      BY <3>1, BoundsAssumption, FS_Subset
  <2>3. PICK s \in SetToSeqs(rows') : out' = Rank(stats, s, asked, param)
    BY <1>6 DEF MatchAndRank
  <2>4. QueryTerms(asked) \in SUBSET Lexemes /\ asked.k \in Nat
    BY <1>1, QueryTermsAreLexemes
  <2>5. \A a \in rows' : BM25Score(stats, a, QueryTerms(asked), param) \in Fractions
    BY <1>1, <2>4, ScoresAreTotals DEF Scored
  <2>6. Ranks(stats, out', rows', asked, param)
    BY <2>2, <2>3, <2>4, <2>5, RankRanks
  <2>7. Outcome'
    <3>1. stats' = stats /\ asked' = asked /\ stage' = "idle" /\ param' = param
      BY <1>6 DEF MatchAndRank
    <3>2. Ranks(stats, out, rows, asked, param)'
      BY <2>6, <3>1
    <3> QED
      BY <3>1, <3>2 DEF Outcome
  <2> QED
    BY <1>1, <1>6, <2>1, <2>2, <2>7 DEF MatchAndRank, IInv
<1>7. CASE UNCHANGED vars
  BY <1>1, <1>7 DEF vars, IInv, Outcome, Statistics
<1> QED
  BY <1>2, <1>3, <1>4, <1>5, <1>6, <1>7 DEF Next

THEOREM Invariant == Spec => []IInv
<1> QED
  BY InitInvariant, NextInvariant, PTL DEF Spec

\* Every state keeps to its types; what is returned matched, no row twice; and
\* the statistics count no row without a length, so that AvgLen is 0 only
\* when there is no row, which guards the division of BM25Score.
THEOREM TypeCorrect == Spec => []TypeOK
<1>1. IInv => TypeOK
  <2> SUFFICES ASSUME IInv PROVE TypeOK
    OBVIOUS
  <2>1. Range(out) \subseteq rows /\ IsInjective(out)
    <3>1. CASE rows = {} /\ out = << >>
      BY <3>1 DEF Range, IsInjective
    <3>2. CASE Ranks(stats, out, rows, asked, param)
      BY <3>2 DEF Ranks, Range, IsInjective
    <3> QED
      BY <3>1, <3>2 DEF IInv, Outcome
  <2> QED
    BY <2>1 DEF IInv, Statistics, TypeOK
<1> QED
  BY <1>1, Invariant, PTL

\* A row that scores more than one of those returned is returned before it.
LEMMA HigherScoreFirst ==
    ASSUME IInv, NEW a \in rows, NEW i \in DOMAIN out,
           Greater(BM25Score(stats, a, Asked, param), BM25Score(stats, out[i], Asked, param))
    PROVE  Before(a, i)
<1>1. Ranks(stats, out, rows, asked, param)
  BY DEF IInv, Outcome
<1>2. i \in 1 .. Len(out)
  BY <1>1 DEF Ranks
<1> QED
  BY <1>1, <1>2 DEF Ranks, Before, Asked

(***************************************************************************)
(* A row that holds every term of the query at least as often, in no       *)
(* longer a text, and is better in something k1 and b let count, comes     *)
(* first: for every k1 and b, whatever else is in the collection and was   *)
(* when the statistics were loaded.                                        *)
(***************************************************************************)
THEOREM Monotone == Spec => []MoreAndShorterFirst
<1>1. IInv => MoreAndShorterFirst
  <2> SUFFICES ASSUME IInv, NEW a \in Known, NEW i \in DOMAIN out,
                      out[i] \in Known, Dominates(a, out[i])
               PROVE  Before(a, i)
    BY DEF MoreAndShorterFirst
  <2> DEFINE b == out[i]
  <2>1. a \in rows /\ a \in DOMAIN stats.tf /\ b \in DOMAIN stats.tf
    BY DEF Known
  <2>2. Scored /\ Statistics(stats) /\ Asked \in SUBSET Lexemes
    BY QueryTermsAreLexemes DEF IInv, Scored, Asked
  <2>3. Dominates(a, b)
    OBVIOUS
  <2> HIDE DEF b
  <2>4. /\ \A t \in Asked : tf[a][t] >= tf[b][t]
        /\ Length(tf[a]) <= Length(tf[b])
    BY <2>3 DEF Dominates
  <2>5. PICK t \in Asked :
          \/ tf[a][t] > 0 /\ tf[b][t] = 0
          \/ param.k1 > 0 /\ tf[a][t] > tf[b][t]
          \/ /\ param.k1 > 0 /\ param.b > 0
             /\ tf[a][t] > 0 /\ Length(tf[a]) < Length(tf[b])
    BY <2>3 DEF Dominates
  <2>6. Greater(BM25Score(stats, a, Asked, param), BM25Score(stats, b, Asked, param))
    BY <2>1, <2>2, <2>4, <2>5, DominatingScoresMore
  <2> QED
    BY <2>1, <2>6, HigherScoreFirst DEF b
<1> QED
  BY <1>1, Invariant, PTL

(***************************************************************************)
(* Of two rows of the same length with one term of the query each, equally *)
(* often, the one whose term fewer counted rows hold comes first.          *)
(***************************************************************************)
THEOREM RarerFirst == Spec => []RarerTermFirst
<1>1. IInv => RarerTermFirst
  <2> SUFFICES ASSUME IInv, NEW a \in Known, NEW i \in DOMAIN out,
                      NEW t \in Asked, NEW u \in Asked,
                      out[i] \in Known,
                      OnlyTerm(a, t), OnlyTerm(out[i], u),
                      tf[a][t] = tf[out[i]][u],
                      Length(tf[a]) = Length(tf[out[i]]),
                      Cardinality(RowsWith(t)) < Cardinality(RowsWith(u))
               PROVE  Before(a, i)
    BY DEF RarerTermFirst
  <2> DEFINE b == out[i]
  <2>1. a \in rows /\ a \in DOMAIN stats.tf /\ b \in DOMAIN stats.tf
    BY DEF Known
  <2>2. Scored /\ Statistics(stats) /\ Asked \in SUBSET Lexemes
    BY QueryTermsAreLexemes DEF IInv, Scored, Asked
  <2>3. /\ {x \in Asked : tf[a][x] > 0} = {t} /\ {x \in Asked : tf[b][x] > 0} = {u}
        /\ tf[a][t] = tf[b][u]
        /\ Length(tf[a]) = Length(tf[b])
    BY DEF OnlyTerm
  <2>4. stats.df[t] < stats.df[u]
    <3>1. t \in Lexemes /\ u \in Lexemes
      BY <2>2
    <3> QED
      BY <2>2, <3>1 DEF Statistics, RowsWith
  <2> HIDE DEF b
  <2>5. Greater(BM25Score(stats, a, Asked, param), BM25Score(stats, b, Asked, param))
    BY <2>1, <2>2, <2>3, <2>4, RarerScoresMore
  <2> QED
    BY <2>1, <2>5, HigherScoreFirst DEF b
<1> QED
  BY <1>1, Invariant, PTL

(***************************************************************************)
(* A row that holds a term of the query comes before every row that holds  *)
(* none or is not counted, however common the term is.                     *)
(***************************************************************************)
THEOREM HeldFirst == Spec => []HeldTermsCount
<1>1. IInv => HeldTermsCount
  <2> SUFFICES ASSUME IInv, NEW a \in rows, NEW i \in DOMAIN out,
                      Holds(a), ~ Holds(out[i])
               PROVE  Before(a, i)
    BY DEF HeldTermsCount
  <2> DEFINE b == out[i]
  <2>1. a \in DOMAIN stats.tf
    BY DEF Holds, Known
  <2>2. Scored /\ Statistics(stats) /\ Asked \in SUBSET Lexemes
    BY QueryTermsAreLexemes DEF IInv, Scored, Asked
  <2>3. PICK t \in Asked : tf[a][t] > 0
    BY DEF Holds
  <2>4. b \in rows
    <3>1. Ranks(stats, out, rows, asked, param)
      BY DEF IInv, Outcome
    <3> QED
      BY <3>1 DEF Ranks
  <2>5. \A u \in Asked : ~ (b \in DOMAIN stats.tf /\ tf[b][u] > 0)
    BY <2>4 DEF Holds, Known
  <2> HIDE DEF b
  <2>6. Greater(BM25Score(stats, a, Asked, param), BM25Score(stats, b, Asked, param))
    BY <2>1, <2>2, <2>3, <2>5, HolderScoresMore
  <2> QED
    BY <2>6, HigherScoreFirst DEF b
<1> QED
  BY <1>1, Invariant, PTL
=============================================================================
