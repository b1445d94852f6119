--------------------------- MODULE Ingest_proofs ---------------------------
(***************************************************************************)
(* Theorems about ingesting, for every corpus, every splitter, and every   *)
(* number of attempts.                                                     *)
(***************************************************************************)
EXTENDS Ingest, SequenceTheorems, FiniteSetTheorems, TLAPS

-----------------------------------------------------------------------------
(* Sequences written one after the other *)

(***************************************************************************)
(* The induction of this module: what fails for some number fails for a    *)
(* smallest one.                                                           *)
(***************************************************************************)
LEMMA LeastNumber ==
    ASSUME NEW T \in SUBSET Nat, T # {}
    PROVE  \E n \in T : \A m \in T : n <= m
<1> DEFINE R == OpToRel(<, Nat)
<1>1. \A x, y \in Nat : y < x => << y, x >> \in R
  BY DEF OpToRel
<1>2. IsWellFoundedOn(R, Nat)
  BY NatLessThanWellFounded
<1> HIDE DEF R
<1>3. PICK x \in T : \A y \in T : ~ (<< y, x >> \in R)
  BY <1>2, WFMin
<1>4. ASSUME NEW y \in T
      PROVE  x <= y
  <2>1. x \in Nat /\ y \in Nat
    OBVIOUS
  <2>2. ~ (y < x)
    BY <1>1, <1>3, <2>1
  <2> QED
    BY <2>1, <2>2
<1> QED
  BY <1>4

\* f holds what the first n blocks of ss hold, and nothing else.
Gathers(f, ss, n) ==
    /\ \A i \in 1 .. n : \A j \in 1 .. Len(ss[i]) : \E k \in 1 .. Len(f) : f[k] = ss[i][j]
    /\ \A k \in 1 .. Len(f) : \E i \in 1 .. n : \E j \in 1 .. Len(ss[i]) : f[k] = ss[i][j]

\* f begins with the first block that is not empty, and ends with the last.
Begins(f, ss, n) ==
    Len(f) > 0 => \E i \in 1 .. n :
        /\ Len(ss[i]) > 0
        /\ f[1] = ss[i][1]
        /\ \A h \in 1 .. i - 1 : Len(ss[h]) = 0

Ends(f, ss, n) ==
    Len(f) > 0 => \E i \in 1 .. n :
        /\ Len(ss[i]) > 0
        /\ f[Len(f)] = ss[i][Len(ss[i])]
        /\ \A h \in i + 1 .. n : Len(ss[h]) = 0

\* Neighbours in f are neighbours in a block, or the last of one block and
\* the first of the next that is not empty.
Inside(f, ss, n, k) ==
    \E i \in 1 .. n : \E j \in 1 .. Len(ss[i]) - 1 :
        f[k] = ss[i][j] /\ f[k + 1] = ss[i][j + 1]

Across(f, ss, n, k) ==
    \E i, h \in 1 .. n :
        /\ i < h /\ Len(ss[i]) > 0 /\ Len(ss[h]) > 0
        /\ f[k] = ss[i][Len(ss[i])] /\ f[k + 1] = ss[h][1]
        /\ \A e \in i + 1 .. h - 1 : Len(ss[e]) = 0

Joins(f, ss, n) ==
    \A k \in 1 .. Len(f) - 1 : Inside(f, ss, n, k) \/ Across(f, ss, n, k)

Concatenates(f, ss, n) ==
    Gathers(f, ss, n) /\ Begins(f, ss, n) /\ Ends(f, ss, n) /\ Joins(f, ss, n)

LEMMA FirstBlock ==
    ASSUME NEW S, NEW ss, ss[1] \in Seq(S)
    PROVE  Concatenates(ss[1], ss, 1)
<1>1. Gathers(ss[1], ss, 1)
  BY DEF Gathers
<1>2. Begins(ss[1], ss, 1)
  BY DEF Begins
<1>3. Ends(ss[1], ss, 1)
  BY DEF Ends
<1>4. Joins(ss[1], ss, 1)
  BY DEF Joins, Inside
<1> QED
  BY <1>1, <1>2, <1>3, <1>4 DEF Concatenates

LEMMA NextBlock ==
    ASSUME NEW S, NEW ss, NEW n \in Nat, n > 0, NEW f \in Seq(S),
           \A i \in 1 .. n + 1 : ss[i] \in Seq(S),
           Concatenates(f, ss, n)
    PROVE  Concatenates(f \o ss[n + 1], ss, n + 1)
<1> DEFINE g == f \o ss[n + 1]
           b == ss[n + 1]
<1>1. /\ Len(f) \in Nat /\ Len(b) \in Nat
      /\ g \in Seq(S)
      /\ Len(g) = Len(f) + Len(b)
      /\ \A k \in 1 .. Len(f) : g[k] = f[k]
      /\ \A k \in 1 .. Len(b) : g[Len(f) + k] = b[k]
  <2>1. b \in Seq(S)
    OBVIOUS
  <2> HIDE DEF b
  <2>2. b = ss[n + 1]
    BY DEF b
  <2> QED
    BY <2>1, <2>2, ConcatProperties, LenProperties
<1>2. \A i \in 1 .. n : Len(ss[i]) \in Nat
  BY LenProperties
<1>3. b = ss[n + 1]
  OBVIOUS
<1>4. g = f \o ss[n + 1]
  OBVIOUS
<1> HIDE DEF g, b
<1>5. Gathers(g, ss, n + 1)
  <2>1. ASSUME NEW i \in 1 .. n + 1, NEW j \in 1 .. Len(ss[i])
        PROVE  \E k \in 1 .. Len(g) : g[k] = ss[i][j]
    <3>1. CASE i = n + 1
      <4>1. Len(f) + j \in 1 .. Len(g) /\ g[Len(f) + j] = ss[i][j]
        BY <1>1, <1>3, <3>1
      <4> QED
        BY <4>1
    <3>2. CASE i \in 1 .. n
      <4>1. PICK k \in 1 .. Len(f) : f[k] = ss[i][j]
        BY <3>2 DEF Concatenates, Gathers
      <4> QED
        BY <1>1, <4>1
    <3> QED
      BY <3>1, <3>2
  <2>2. ASSUME NEW k \in 1 .. Len(g)
        PROVE  \E i \in 1 .. n + 1 : \E j \in 1 .. Len(ss[i]) : g[k] = ss[i][j]
    <3>1. CASE k \in 1 .. Len(f)
      <4>1. PICK i \in 1 .. n : \E j \in 1 .. Len(ss[i]) : f[k] = ss[i][j]
        BY <3>1 DEF Concatenates, Gathers
      <4> QED
        BY <1>1, <3>1, <4>1
    <3>2. CASE k > Len(f)
      <4>1. k - Len(f) \in 1 .. Len(b) /\ Len(f) + (k - Len(f)) = k
        BY <1>1, <3>2
      <4>2. g[k] = b[k - Len(f)]
        BY <1>1, <4>1
      <4> QED
        BY <1>3, <4>1, <4>2
    <3> QED
      BY <1>1, <3>1, <3>2
  <2> QED
    BY <2>1, <2>2 DEF Gathers
<1>6. Begins(g, ss, n + 1)
  <2>1. CASE Len(f) > 0
    <3>1. PICK i \in 1 .. n : /\ Len(ss[i]) > 0
                              /\ f[1] = ss[i][1]
                              /\ \A h \in 1 .. i - 1 : Len(ss[h]) = 0
      BY <2>1 DEF Concatenates, Begins
    <3>2. g[1] = ss[i][1] /\ i \in 1 .. n + 1
      BY <1>1, <2>1, <3>1
    <3> QED
      BY <3>1, <3>2 DEF Begins
  <2>2. CASE Len(f) = 0
    <3>1. \A h \in 1 .. n : Len(ss[h]) = 0
      <4> SUFFICES ASSUME NEW h \in 1 .. n, Len(ss[h]) > 0
                   PROVE  FALSE
        BY <1>2
      <4>1. 1 \in 1 .. Len(ss[h])
        BY <1>2
      <4>2. \E k \in 1 .. Len(f) : f[k] = ss[h][1]
        BY <4>1 DEF Concatenates, Gathers
      <4> QED
        BY <2>2, <4>2
    <3>2. Len(g) > 0 => Len(b) > 0 /\ g[1] = b[1]
      BY <1>1, <2>2
    <3> QED
      BY <1>3, <3>1, <3>2 DEF Begins
  <2> QED
    BY <1>1, <2>1, <2>2
<1>7. Ends(g, ss, n + 1)
  <2>1. CASE Len(b) > 0
    <3>1. g[Len(g)] = b[Len(b)]
      BY <1>1, <2>1
    <3> QED
      BY <1>3, <2>1, <3>1 DEF Ends
  <2>2. CASE Len(b) = 0 /\ Len(f) > 0
    <3>1. PICK i \in 1 .. n : /\ Len(ss[i]) > 0
                              /\ f[Len(f)] = ss[i][Len(ss[i])]
                              /\ \A h \in i + 1 .. n : Len(ss[h]) = 0
      BY <2>2 DEF Concatenates, Ends
    <3>2. g[Len(g)] = f[Len(f)]
      BY <1>1, <2>2
    <3>3. ASSUME NEW h \in i + 1 .. n + 1
          PROVE  Len(ss[h]) = 0
      <4>1. CASE h = n + 1
        BY <1>3, <2>2, <4>1
      <4>2. CASE h # n + 1
        BY <3>1, <4>2
      <4> QED
        BY <4>1, <4>2
    <3> QED
      BY <3>1, <3>2, <3>3 DEF Ends
  <2>3. CASE Len(b) = 0 /\ Len(f) = 0
    BY <1>1, <2>3 DEF Ends
  <2> QED
    BY <1>1, <2>1, <2>2, <2>3
<1>8. Joins(g, ss, n + 1)
  <2> SUFFICES ASSUME NEW k \in 1 .. Len(g) - 1
               PROVE  Inside(g, ss, n + 1, k) \/ Across(g, ss, n + 1, k)
    BY DEF Joins
  <2>1. CASE k < Len(f)
    <3>0. k \in 1 .. Len(f) - 1 /\ g[k] = f[k] /\ g[k + 1] = f[k + 1]
      BY <1>1, <2>1
    <3>1. CASE Inside(f, ss, n, k)
      <4>1. PICK i \in 1 .. n : \E j \in 1 .. Len(ss[i]) - 1 :
                f[k] = ss[i][j] /\ f[k + 1] = ss[i][j + 1]
        BY <3>1 DEF Inside
      <4>2. i \in 1 .. n + 1
        OBVIOUS
      <4>3. \E j \in 1 .. Len(ss[i]) - 1 : g[k] = ss[i][j] /\ g[k + 1] = ss[i][j + 1]
        BY <3>0, <4>1
      <4> QED
        BY <4>2, <4>3 DEF Inside
    <3>2. CASE Across(f, ss, n, k)
      <4>1. PICK i \in 1 .. n, h \in 1 .. n :
                /\ i < h /\ Len(ss[i]) > 0 /\ Len(ss[h]) > 0
                /\ f[k] = ss[i][Len(ss[i])] /\ f[k + 1] = ss[h][1]
                /\ \A e \in i + 1 .. h - 1 : Len(ss[e]) = 0
        BY <3>2 DEF Across
      <4>2. i \in 1 .. n + 1 /\ h \in 1 .. n + 1
        OBVIOUS
      <4> QED
        BY <3>0, <4>1, <4>2 DEF Across
    <3> QED
      BY <3>0, <3>1, <3>2 DEF Concatenates, Joins
  <2>2. CASE k = Len(f)
    <3>1. PICK i \in 1 .. n : /\ Len(ss[i]) > 0
                              /\ f[Len(f)] = ss[i][Len(ss[i])]
                              /\ \A h \in i + 1 .. n : Len(ss[h]) = 0
      BY <2>2 DEF Concatenates, Ends
    <3>2. /\ g[k] = f[Len(f)] /\ g[k + 1] = b[1]
          /\ Len(b) > 0
      BY <1>1, <2>2
    <3>3. /\ i \in 1 .. n + 1 /\ n + 1 \in 1 .. n + 1 /\ i < n + 1
          /\ \A e \in i + 1 .. (n + 1) - 1 : Len(ss[e]) = 0
      BY <3>1
    <3> QED
      BY <1>3, <3>1, <3>2, <3>3 DEF Across
  <2>3. CASE k > Len(f)
    <3>1. /\ k - Len(f) \in 1 .. Len(b) - 1
          /\ Len(f) + (k - Len(f)) = k
          /\ Len(f) + (k - Len(f) + 1) = k + 1
      BY <1>1, <2>3
    <3>2. g[k] = b[k - Len(f)] /\ g[k + 1] = b[k - Len(f) + 1]
      <4>1. k - Len(f) \in 1 .. Len(b) /\ k - Len(f) + 1 \in 1 .. Len(b)
        BY <1>1, <3>1
      <4>2. /\ g[Len(f) + (k - Len(f))] = b[k - Len(f)]
            /\ g[Len(f) + (k - Len(f) + 1)] = b[k - Len(f) + 1]
        BY <1>1, <4>1
      <4> QED
        BY <3>1, <4>2
    <3>3. n + 1 \in 1 .. n + 1
      OBVIOUS
    <3> QED
      BY <1>3, <3>1, <3>2, <3>3 DEF Inside
  <2> QED
    BY <1>1, <2>1, <2>2, <2>3
<1> QED
  BY <1>4, <1>5, <1>6, <1>7, <1>8 DEF Concatenates

\* What FlattenSeq computes on its way, block by block.
Layers(g, ss, n) == g = [i \in 1 .. n |-> IF i = 1 THEN ss[i] ELSE g[i - 1] \o ss[i]]

LEMMA LayersExist ==
    ASSUME NEW ss, NEW n \in Nat, n > 0
    PROVE  \E g : Layers(g, ss, n)
<1> DEFINE T == {m \in Nat : m > 0 /\ ~ \E g : Layers(g, ss, m)}
<1>1. SUFFICES ASSUME T # {} PROVE FALSE
  OBVIOUS
<1>2. T \in SUBSET Nat
  OBVIOUS
<1>3. PICK m \in T : \A k \in T : m <= k
  <2> HIDE DEF T
  <2> QED
    BY <1>1, <1>2, LeastNumber
<1>4. m \in Nat /\ m > 0 /\ ~ \E g : Layers(g, ss, m)
  OBVIOUS
<1>5. CASE m = 1
  <2> DEFINE g == [i \in 1 .. 1 |-> ss[1]]
  <2>1. Layers(g, ss, 1)
    BY DEF Layers
  <2> QED
    BY <1>4, <1>5, <2>1
<1>6. CASE m > 1
  <2>1. m - 1 \notin T
    BY <1>3, <1>4, <1>6
  <2>2. PICK g : Layers(g, ss, m - 1)
    BY <1>4, <1>6, <2>1
  <2> DEFINE h == [i \in 1 .. m |-> IF i = m THEN g[m - 1] \o ss[m] ELSE g[i]]
  <2>3. \A i \in 1 .. m - 1 : h[i] = g[i]
    BY <1>4
  <2>4. \A i \in 1 .. m - 1 : g[i] = IF i = 1 THEN ss[i] ELSE g[i - 1] \o ss[i]
    BY <2>2 DEF Layers
  <2>5. ASSUME NEW i \in 1 .. m
        PROVE  h[i] = IF i = 1 THEN ss[i] ELSE h[i - 1] \o ss[i]
    <3>1. CASE i = m
      <4>1. h[m] = g[m - 1] \o ss[m] /\ i # 1
        <5>1. m \in 1 .. m
          BY <1>4
        <5>2. h[m] = g[m - 1] \o ss[m]
          BY <5>1
        <5>3. i # 1
          BY <1>4, <1>6, <3>1
        <5> QED
          BY <5>2, <5>3
      <4>2. h[i - 1] = g[m - 1]
        BY <1>4, <1>6, <2>3, <3>1
      <4> HIDE DEF h
      <4> QED
        BY <3>1, <4>1, <4>2
    <3>2. CASE i # m
      <4>1. i \in 1 .. m - 1 /\ (i # 1 => i - 1 \in 1 .. m - 1)
        BY <1>4, <3>2
      <4> HIDE DEF h
      <4> QED
        BY <2>3, <2>4, <4>1
    <3> QED
      BY <3>1, <3>2
  <2>6. Layers(h, ss, m)
    <3>1. h = [i \in 1 .. m |-> h[i]]
      OBVIOUS
    <3> HIDE DEF h
    <3> QED
      BY <2>5, <3>1 DEF Layers
  <2> QED
    BY <1>4, <2>6
<1> QED
  BY <1>4, <1>5, <1>6

LEMMA LayersConcatenate ==
    ASSUME NEW S, NEW ss, NEW n \in Nat, n > 0,
           \A i \in 1 .. n : ss[i] \in Seq(S),
           NEW g, Layers(g, ss, n)
    PROVE  \A i \in 1 .. n : g[i] \in Seq(S) /\ Concatenates(g[i], ss, i)
<1> DEFINE Fine(i) == g[i] \in Seq(S) /\ Concatenates(g[i], ss, i)
           T == {i \in Nat : i \in 1 .. n /\ ~ Fine(i)}
<1>1. SUFFICES ASSUME T # {} PROVE FALSE
  OBVIOUS
<1>2. T \in SUBSET Nat
  OBVIOUS
<1>3. PICK m \in T : \A k \in T : m <= k
  <2> HIDE DEF T
  <2> QED
    BY <1>1, <1>2, LeastNumber
<1>4. m \in 1 .. n /\ ~ Fine(m)
  OBVIOUS
<1>5. g[m] = IF m = 1 THEN ss[m] ELSE g[m - 1] \o ss[m]
  BY <1>4 DEF Layers
<1>6. CASE m = 1
  <2>1. ss[1] \in Seq(S) /\ g[m] = ss[1]
    BY <1>4, <1>5, <1>6
  <2>2. Concatenates(ss[1], ss, 1)
    BY <2>1, FirstBlock
  <2> QED
    BY <1>4, <1>6, <2>1, <2>2
<1>7. CASE m # 1
  <2>1. m - 1 \in 1 .. n /\ m - 1 \in Nat /\ m - 1 > 0 /\ (m - 1) + 1 = m
    BY <1>4, <1>7
  <2>2. m - 1 \notin T
    <3> HIDE DEF T
    <3> QED
      BY <1>2, <1>3, <2>1
  <2>3. g[m - 1] \in Seq(S) /\ Concatenates(g[m - 1], ss, m - 1)
    BY <2>1, <2>2
  <2>4. \A i \in 1 .. (m - 1) + 1 : ss[i] \in Seq(S)
    BY <1>4, <2>1
  <2>5. Concatenates(g[m - 1] \o ss[(m - 1) + 1], ss, (m - 1) + 1)
    BY <2>1, <2>3, <2>4, NextBlock
  <2>6. g[m] = g[m - 1] \o ss[m]
    BY <1>5, <1>7
  <2>7. g[m] \in Seq(S)
    BY <1>4, <2>3, <2>6, ConcatProperties
  <2>8. Concatenates(g[m], ss, m)
    BY <2>1, <2>5, <2>6
  <2> QED
    BY <1>4, <2>7, <2>8
<1> QED
  BY <1>6, <1>7

(***************************************************************************)
(* FlattenSeq writes its blocks one after the other, whatever they hold.   *)
(***************************************************************************)
Flat(ss, S) == FlattenSeq(ss) \in Seq(S) /\ Concatenates(FlattenSeq(ss), ss, Len(ss))

LEMMA FlattenSeqConcatenates ==
    ASSUME NEW S, NEW ss \in Seq(Seq(S))
    PROVE  Flat(ss, S)
<1> DEFINE n == Len(ss)
<1>1. n \in Nat /\ \A i \in 1 .. n : ss[i] \in Seq(S)
  BY LenProperties
<1>2. CASE Len(ss) = 0
  <2>1. FlattenSeq(ss) = << >>
    <3>1. ss = << >>
      BY <1>2, EmptySeq
    <3> QED
      BY <1>2, <3>1 DEF FlattenSeq
  <2>2. Concatenates(<< >>, ss, Len(ss))
    BY <1>2 DEF Concatenates, Gathers, Begins, Ends, Joins
  <2> QED
    BY <2>1, <2>2 DEF Flat
<1>3. CASE Len(ss) # 0
  <2> DEFINE F[i \in 1 .. Len(ss)] == IF i = 1 THEN ss[i] ELSE F[i - 1] \o ss[i]
  <2>1. FlattenSeq(ss) = F[Len(ss)]
    BY <1>3 DEF FlattenSeq
  <2>2. Layers(F, ss, Len(ss))
    <3>1. \E g : Layers(g, ss, n)
      <4>1. n > 0
        BY <1>1, <1>3
      <4> HIDE DEF n
      <4> QED
        BY <1>1, <4>1, LayersExist
    <3> QED
      BY <3>1 DEF Layers
  <2> HIDE DEF F
  <2>3. F[Len(ss)] \in Seq(S) /\ Concatenates(F[Len(ss)], ss, Len(ss))
    <3>1. n > 0 /\ n \in 1 .. n /\ Layers(F, ss, n)
      BY <1>1, <1>3, <2>2
    <3>2. F[n] \in Seq(S) /\ Concatenates(F[n], ss, n)
      <4> HIDE DEF n
      <4> QED
        BY <1>1, <3>1, LayersConcatenate
    <3> QED
      BY <3>2
  <2> QED
    BY <2>1, <2>3 DEF Flat
<1> QED
  BY <1>2, <1>3

-----------------------------------------------------------------------------
(* Bytes and characters *)

Characters == {Bullet, NoBreakSpace}

LEMMA ByteClasses ==
    /\ Range(Bullet) = {"bullet1", "bullet2"}
    /\ Range(NoBreakSpace) = {"nbsp1", "nbsp2"}
    /\ WhiteSpace = {"space", "newline", "nbsp1", "nbsp2"}
    /\ Bytes = Letters \cup {"space", "newline", "nbsp1", "nbsp2", "bullet1", "bullet2"}
    /\ Letters \cap {"space", "newline", "nbsp1", "nbsp2", "bullet1", "bullet2"} = {}
<1>1. Range(Bullet) = {"bullet1", "bullet2"}
  BY DEF Range, Bullet
<1>2. Range(NoBreakSpace) = {"nbsp1", "nbsp2"}
  BY DEF Range, NoBreakSpace
<1> QED
  BY <1>1, <1>2, CorpusAssumption DEF WhiteSpace, AsciiSpace, Bytes, Space, NewLine

\* No byte of a two-byte character is a byte of another character.
LEMMA CharactersDiffer ==
    ASSUME NEW c \in Characters, NEW d \in Characters
    PROVE  /\ c[1] # d[2]
           /\ c[1] = d[1] \/ c[2] = d[2] => c = d
           /\ {c[1], c[2]} \subseteq Bytes
           /\ {c[1], c[2]} \cap (Letters \cup AsciiSpace) = {}
           /\ c[1] \in WhiteSpace <=> c[2] \in WhiteSpace
BY ByteClasses DEF Characters, Bullet, NoBreakSpace, AsciiSpace, Space, NewLine

\* What follows, and what precedes, byte j of block i.
NextIs(ss, i, j, y) ==
    \/ j < Len(ss[i]) /\ ss[i][j + 1] = y
    \/ j = Len(ss[i]) /\ i < Len(ss) /\ Len(ss[i + 1]) > 0 /\ ss[i + 1][1] = y

PreviousIs(ss, i, j, y) ==
    \/ j > 1 /\ ss[i][j - 1] = y
    \/ j = 1 /\ i > 1 /\ Len(ss[i - 1]) > 0 /\ ss[i - 1][Len(ss[i - 1])] = y

\* No character is broken, be it inside a block or between two of them.
Unbroken(ss) ==
    \A i \in 1 .. Len(ss) : \A j \in 1 .. Len(ss[i]) :
        \/ ss[i][j] \in Letters \cup AsciiSpace
        \/ \E c \in Characters :
              \/ ss[i][j] = c[1] /\ NextIs(ss, i, j, c[2])
              \/ ss[i][j] = c[2] /\ PreviousIs(ss, i, j, c[1])

LEMMA UnbrokenFirst ==
    ASSUME NEW ss, Unbroken(ss), NEW i \in 1 .. Len(ss), NEW j \in 1 .. Len(ss[i]),
           NEW c \in Characters, ss[i][j] = c[1]
    PROVE  NextIs(ss, i, j, c[2])
<1>1. ss[i][j] \notin Letters \cup AsciiSpace
  BY CharactersDiffer
<1>2. PICK d \in Characters : \/ ss[i][j] = d[1] /\ NextIs(ss, i, j, d[2])
                              \/ ss[i][j] = d[2] /\ PreviousIs(ss, i, j, d[1])
  BY <1>1 DEF Unbroken
<1>3. d = c
  BY <1>2, CharactersDiffer
<1> QED
  BY <1>2, <1>3, CharactersDiffer

LEMMA UnbrokenSecond ==
    ASSUME NEW ss, Unbroken(ss), NEW i \in 1 .. Len(ss), NEW j \in 1 .. Len(ss[i]),
           NEW c \in Characters, ss[i][j] = c[2]
    PROVE  PreviousIs(ss, i, j, c[1])
<1>1. ss[i][j] \notin Letters \cup AsciiSpace
  BY CharactersDiffer
<1>2. PICK d \in Characters : \/ ss[i][j] = d[1] /\ NextIs(ss, i, j, d[2])
                              \/ ss[i][j] = d[2] /\ PreviousIs(ss, i, j, d[1])
  BY <1>1 DEF Unbroken
<1>3. d = c
  BY <1>2, CharactersDiffer
<1> QED
  BY <1>2, <1>3, CharactersDiffer

(***************************************************************************)
(* A text put together from blocks between which no character is broken is *)
(* valid.                                                                  *)
(***************************************************************************)
LEMMA UnbrokenIsValid ==
    ASSUME NEW ss, NEW S, ss \in Seq(Seq(S)), Unbroken(ss)
    PROVE  ValidUTF8(FlattenSeq(ss))
<1> DEFINE f == FlattenSeq(ss)
           n == Len(ss)
<1>1. f \in Seq(S) /\ Concatenates(f, ss, n)
  BY FlattenSeqConcatenates DEF Flat
<1>2. /\ n \in Nat /\ Len(f) \in Nat
      /\ \A i \in 1 .. n : Len(ss[i]) \in Nat
      /\ DOMAIN f = 1 .. Len(f)
  BY <1>1, LenProperties
<1>3. n = Len(ss)
  OBVIOUS
<1> HIDE DEF f, n
<1>4. ASSUME NEW k \in 1 .. Len(f), NEW c \in Characters, f[k] = c[1]
      PROVE  k < Len(f) /\ f[k + 1] = c[2]
  <2>1. CASE k = Len(f)
    <3>1. PICK i \in 1 .. n : /\ Len(ss[i]) > 0
                              /\ f[Len(f)] = ss[i][Len(ss[i])]
                              /\ \A h \in i + 1 .. n : Len(ss[h]) = 0
      BY <1>1, <1>2, <1>4, <2>1 DEF Concatenates, Ends
    <3>2. Len(ss[i]) \in 1 .. Len(ss[i]) /\ ss[i][Len(ss[i])] = c[1]
      BY <1>2, <1>4, <2>1, <3>1
    <3>3. NextIs(ss, i, Len(ss[i]), c[2])
      BY <1>3, <3>2, UnbrokenFirst
    <3>4. i + 1 \in i + 1 .. n /\ Len(ss[i + 1]) > 0
      BY <1>2, <1>3, <3>3 DEF NextIs
    <3> QED
      BY <3>1, <3>4
  <2>2. CASE k # Len(f) /\ Inside(f, ss, n, k)
    <3>1. PICK i \in 1 .. n : \E j \in 1 .. Len(ss[i]) - 1 :
              f[k] = ss[i][j] /\ f[k + 1] = ss[i][j + 1]
      BY <2>2 DEF Inside
    <3>2. PICK j \in 1 .. Len(ss[i]) - 1 : f[k] = ss[i][j] /\ f[k + 1] = ss[i][j + 1]
      BY <3>1
    <3>3. j \in 1 .. Len(ss[i]) /\ j < Len(ss[i])
      BY <1>2
    <3>4. NextIs(ss, i, j, c[2])
      BY <1>3, <1>4, <3>2, <3>3, UnbrokenFirst
    <3>5. ss[i][j + 1] = c[2]
      BY <1>2, <3>3, <3>4 DEF NextIs
    <3>6. k < Len(f)
      <4>1. Len(f) \in Nat /\ k # Len(f)
        BY <1>2, <2>2
      <4> QED
        BY <4>1
    <3> QED
      BY <3>2, <3>5, <3>6
  <2>3. CASE k # Len(f) /\ Across(f, ss, n, k)
    <3>1. PICK i \in 1 .. n, h \in 1 .. n :
              /\ i < h /\ Len(ss[i]) > 0 /\ Len(ss[h]) > 0
              /\ f[k] = ss[i][Len(ss[i])] /\ f[k + 1] = ss[h][1]
              /\ \A e \in i + 1 .. h - 1 : Len(ss[e]) = 0
      BY <2>3 DEF Across
    <3>2. Len(ss[i]) \in 1 .. Len(ss[i]) /\ ss[i][Len(ss[i])] = c[1]
      BY <1>2, <1>4, <3>1
    <3>3. NextIs(ss, i, Len(ss[i]), c[2])
      BY <1>3, <3>2, UnbrokenFirst
    <3>4. i < n /\ Len(ss[i + 1]) > 0 /\ ss[i + 1][1] = c[2]
      BY <1>2, <1>3, <3>3 DEF NextIs
    <3>5. h = i + 1
      <4>1. i + 1 \notin i + 1 .. h - 1
        BY <3>1, <3>4
      <4> QED
        BY <3>1, <4>1
    <3> QED
      BY <2>3, <3>1, <3>4, <3>5
  <2>4. k # Len(f) => k \in 1 .. Len(f) - 1
    <3>1. Len(f) \in Nat
      BY <1>2
    <3> QED
      BY <3>1
  <2> QED
    BY <1>1, <2>1, <2>2, <2>3, <2>4 DEF Concatenates, Joins
<1>5. ASSUME NEW k \in 1 .. Len(f), NEW c \in Characters, f[k] = c[2]
      PROVE  k > 1 /\ f[k - 1] = c[1]
  <2>1. CASE k = 1
    <3>1. PICK i \in 1 .. n : /\ Len(ss[i]) > 0
                              /\ f[1] = ss[i][1]
                              /\ \A h \in 1 .. i - 1 : Len(ss[h]) = 0
      BY <1>1, <1>2, <1>5, <2>1 DEF Concatenates, Begins
    <3>2. 1 \in 1 .. Len(ss[i]) /\ ss[i][1] = c[2]
      BY <1>2, <1>5, <2>1, <3>1
    <3>3. PreviousIs(ss, i, 1, c[1])
      BY <1>3, <3>2, UnbrokenSecond
    <3>4. i - 1 \in 1 .. i - 1 /\ Len(ss[i - 1]) > 0
      BY <1>2, <1>3, <3>3 DEF PreviousIs
    <3> QED
      BY <3>1, <3>4
  <2>2. CASE k # 1 /\ Inside(f, ss, n, k - 1)
    <3>1. PICK i \in 1 .. n : \E j \in 1 .. Len(ss[i]) - 1 :
              f[k - 1] = ss[i][j] /\ f[(k - 1) + 1] = ss[i][j + 1]
      BY <2>2 DEF Inside
    <3>2. PICK j \in 1 .. Len(ss[i]) - 1 :
              f[k - 1] = ss[i][j] /\ f[(k - 1) + 1] = ss[i][j + 1]
      BY <3>1
    <3>3. /\ j + 1 \in 1 .. Len(ss[i]) /\ j + 1 > 1 /\ (j + 1) - 1 = j
          /\ (k - 1) + 1 = k
      BY <1>2
    <3>4. PreviousIs(ss, i, j + 1, c[1])
      BY <1>3, <1>5, <3>2, <3>3, UnbrokenSecond
    <3> QED
      BY <1>2, <2>2, <3>2, <3>3, <3>4 DEF PreviousIs
  <2>3. CASE k # 1 /\ Across(f, ss, n, k - 1)
    <3>1. PICK i \in 1 .. n, h \in 1 .. n :
              /\ i < h /\ Len(ss[i]) > 0 /\ Len(ss[h]) > 0
              /\ f[k - 1] = ss[i][Len(ss[i])] /\ f[(k - 1) + 1] = ss[h][1]
              /\ \A e \in i + 1 .. h - 1 : Len(ss[e]) = 0
      BY <2>3 DEF Across
    <3>2. 1 \in 1 .. Len(ss[h]) /\ ss[h][1] = c[2]
      BY <1>2, <1>5, <3>1
    <3>3. PreviousIs(ss, h, 1, c[1])
      BY <1>3, <3>2, UnbrokenSecond
    <3>4. h > 1 /\ Len(ss[h - 1]) > 0 /\ ss[h - 1][Len(ss[h - 1])] = c[1]
      BY <1>2, <1>3, <3>3 DEF PreviousIs
    <3>5. h - 1 = i
      <4>1. h - 1 \notin i + 1 .. h - 1
        BY <3>1, <3>4
      <4> QED
        BY <3>1, <4>1
    <3> QED
      BY <2>3, <3>1, <3>4, <3>5
  <2>4. k # 1 => k - 1 \in 1 .. Len(f) - 1
    BY <1>2
  <2> QED
    BY <1>1, <2>1, <2>2, <2>3, <2>4 DEF Concatenates, Joins
<1>6. ASSUME NEW k \in 1 .. Len(f)
      PROVE  InCharacter(f, k)
  <2>1. PICK i \in 1 .. n : \E j \in 1 .. Len(ss[i]) : f[k] = ss[i][j]
    BY <1>1 DEF Concatenates, Gathers
  <2>2. PICK j \in 1 .. Len(ss[i]) : f[k] = ss[i][j]
    BY <2>1
  <2>3. \/ f[k] \in Letters \cup AsciiSpace
        \/ \E c \in Characters : f[k] = c[1] \/ f[k] = c[2]
    BY <1>3, <2>2 DEF Unbroken
  <2> QED
    BY <1>4, <1>5, <2>3 DEF InCharacter, Characters
<1> QED
  BY <1>2, <1>6 DEF ValidUTF8, f

LEMMA FunctionIsSeq ==
    ASSUME NEW S, NEW n \in Nat, NEW f \in [1 .. n -> S]
    PROVE  f \in Seq(S) /\ Len(f) = n
OBVIOUS

LEMMA AtMostOne ==
    ASSUME NEW l, l = 0 \/ l = 1, NEW j \in 1 .. l
    PROVE  j = 1 /\ l = 1
<1>1. CASE l = 0
  BY <1>1
<1>2. CASE l = 1
  BY <1>2
<1> QED
  BY <1>1, <1>2

(***************************************************************************)
(* The text read page by page: the bytes of the pages, whole characters    *)
(* only if the pages are, and neighbours on a page or a line break apart.  *)
(***************************************************************************)
Texts == Seq(Bytes)

JoinedPages(pp) ==
    /\ JoinPages(pp) \in Texts
    /\ \A i \in 1 .. Len(pp) : Range(pp[i]) \subseteq Range(JoinPages(pp))
    /\ (\A i \in 1 .. Len(pp) : ValidUTF8(pp[i])) => ValidUTF8(JoinPages(pp))
    /\ \A k \in 1 .. Len(JoinPages(pp)) - 1 :
          {JoinPages(pp)[k], JoinPages(pp)[k + 1]} \subseteq Visible
          => \E i \in 1 .. Len(pp) : SideBySide(pp[i], JoinPages(pp)[k], JoinPages(pp)[k + 1])

LEMMA JoinPagesJoins == ASSUME NEW pp \in Seq(Texts) PROVE JoinedPages(pp)
<1> DEFINE n == Len(pp)
           ss == [i \in DOMAIN pp |-> IF i = 1 THEN pp[i] ELSE << NewLine >> \o pp[i]]
           f == FlattenSeq(ss)
<1>1. /\ n \in Nat /\ DOMAIN pp = 1 .. n
      /\ \A i \in 1 .. n : pp[i] \in Texts /\ Len(pp[i]) \in Nat /\ DOMAIN pp[i] = 1 .. Len(pp[i])
  BY LenProperties DEF Texts
<1>2. << NewLine >> \in Texts
  BY ByteClasses DEF Texts, NewLine
<1>3. ASSUME NEW i \in 1 .. n
      PROVE  /\ ss[i] \in Texts
             /\ i = 1 => ss[i] = pp[i]
             /\ i # 1 => /\ Len(ss[i]) = Len(pp[i]) + 1
                         /\ ss[i][1] = NewLine
                         /\ \A j \in 1 .. Len(pp[i]) : ss[i][j + 1] = pp[i][j]
  <2>1. ss[i] = IF i = 1 THEN pp[i] ELSE << NewLine >> \o pp[i]
    BY <1>1
  <2>2. << NewLine >> \o pp[i] \in Texts
    BY <1>1, <1>2, ConcatProperties DEF Texts
  <2>3. /\ Len(<< NewLine >> \o pp[i]) = Len(pp[i]) + 1
        /\ (<< NewLine >> \o pp[i])[1] = NewLine
        /\ \A j \in 1 .. Len(pp[i]) : (<< NewLine >> \o pp[i])[j + 1] = pp[i][j]
    BY <1>1, <1>2, ConcatProperties DEF Texts
  <2> QED
    BY <1>1, <2>1, <2>2, <2>3
<1>4. ss \in Seq(Texts) /\ Len(ss) = n
  <2>1. ss \in [1 .. n -> Texts]
    BY <1>1, <1>3
  <2> QED
    BY <1>1, <2>1, FunctionIsSeq
<1>5. JoinPages(pp) = f
  BY DEF JoinPages
<1> HIDE DEF ss
<1>6. f \in Texts /\ Concatenates(f, ss, n)
  BY <1>4, FlattenSeqConcatenates DEF Flat, Texts
<1> HIDE DEF f, n
<1>7. /\ DOMAIN f = 1 .. Len(f) /\ Len(f) \in Nat
      /\ n = Len(ss)
  BY <1>4, <1>6, LenProperties DEF Texts
<1>8. NewLine \notin Visible /\ NewLine \in AsciiSpace
  BY DEF Visible, WhiteSpace, AsciiSpace
<1>9. ASSUME NEW i \in 1 .. n
      PROVE  Range(pp[i]) \subseteq Range(f)
  <2> SUFFICES ASSUME NEW j \in 1 .. Len(pp[i])
               PROVE  pp[i][j] \in Range(f)
    BY <1>1 DEF Range
  <2>1. \E l \in 1 .. Len(ss[i]) : ss[i][l] = pp[i][j]
    <3>1. CASE i = 1
      BY <1>3, <3>1
    <3>2. CASE i # 1
      <4>1. j + 1 \in 1 .. Len(ss[i]) /\ ss[i][j + 1] = pp[i][j]
        BY <1>1, <1>3, <3>2
      <4> QED
        BY <4>1
    <3> QED
      BY <3>1, <3>2
  <2>2. \E k \in 1 .. Len(f) : f[k] = pp[i][j]
    BY <1>6, <2>1 DEF Concatenates, Gathers
  <2> QED
    BY <1>7, <2>2 DEF Range
<1>10. ASSUME \A i \in 1 .. n : ValidUTF8(pp[i])
       PROVE  Unbroken(ss)
  <2> SUFFICES ASSUME NEW i \in 1 .. n, NEW j \in 1 .. Len(ss[i]),
                      ss[i][j] \notin Letters \cup AsciiSpace
               PROVE  \E c \in Characters :
                          \/ ss[i][j] = c[1] /\ NextIs(ss, i, j, c[2])
                          \/ ss[i][j] = c[2] /\ PreviousIs(ss, i, j, c[1])
    BY <1>7 DEF Unbroken
  <2>1. CASE i = 1
    <3>1. ss[i] = pp[i] /\ InCharacter(pp[i], j)
      BY <1>1, <1>3, <1>10, <2>1 DEF ValidUTF8
    <3> QED
      BY <3>1 DEF InCharacter, Characters, NextIs, PreviousIs
  <2>2. CASE i # 1
    <3>1. /\ Len(ss[i]) = Len(pp[i]) + 1
          /\ ss[i][1] = NewLine
          /\ \A l \in 1 .. Len(pp[i]) : ss[i][l + 1] = pp[i][l]
      BY <1>3, <2>2
    <3>2. j # 1
      BY <1>8, <3>1
    <3>3. /\ j - 1 \in 1 .. Len(pp[i]) /\ (j - 1) + 1 = j
          /\ Len(pp[i]) \in Nat
      BY <1>1, <3>1, <3>2
    <3>4. ss[i][j] = pp[i][j - 1]
      BY <3>1, <3>3
    <3>5. PICK c \in Characters :
              \/ pp[i][j - 1] = c[1] /\ j - 1 < Len(pp[i]) /\ pp[i][(j - 1) + 1] = c[2]
              \/ pp[i][j - 1] = c[2] /\ j - 1 > 1 /\ pp[i][(j - 1) - 1] = c[1]
      <4>1. InCharacter(pp[i], j - 1)
        BY <1>1, <1>10, <3>3 DEF ValidUTF8
      <4> QED
        BY <3>4, <4>1 DEF InCharacter, Characters
    <3>6. CASE pp[i][j - 1] = c[1] /\ j - 1 < Len(pp[i]) /\ pp[i][(j - 1) + 1] = c[2]
      <4>1. j \in 1 .. Len(pp[i]) /\ j < Len(pp[i]) + 1
        BY <3>3, <3>6
      <4>2. j < Len(ss[i]) /\ ss[i][j + 1] = pp[i][j]
        BY <3>1, <4>1
      <4> QED
        BY <3>3, <3>4, <3>6, <4>2 DEF NextIs
    <3>7. CASE pp[i][j - 1] = c[2] /\ j - 1 > 1 /\ pp[i][(j - 1) - 1] = c[1]
      <4>1. (j - 1) - 1 \in 1 .. Len(pp[i]) /\ ((j - 1) - 1) + 1 = j - 1 /\ j > 1
        BY <3>3, <3>7
      <4>2. ss[i][((j - 1) - 1) + 1] = pp[i][(j - 1) - 1]
        BY <3>1, <4>1
      <4>3. ss[i][j - 1] = c[1]
        BY <3>7, <4>1, <4>2
      <4> QED
        BY <3>4, <3>7, <4>1, <4>3 DEF PreviousIs
    <3> QED
      BY <3>5, <3>6, <3>7
  <2> QED
    BY <2>1, <2>2
<1>11. (\A i \in 1 .. n : ValidUTF8(pp[i])) => ValidUTF8(f)
  <2>1. ss \in Seq(Seq(Bytes))
    BY <1>4 DEF Texts
  <2> QED
    BY <1>10, <2>1, UnbrokenIsValid DEF f
<1>12. ASSUME NEW k \in 1 .. Len(f) - 1, {f[k], f[k + 1]} \subseteq Visible
       PROVE  \E i \in 1 .. n : SideBySide(pp[i], f[k], f[k + 1])
  <2>1. CASE Inside(f, ss, n, k)
    <3>1. PICK i \in 1 .. n : \E j \in 1 .. Len(ss[i]) - 1 :
              f[k] = ss[i][j] /\ f[k + 1] = ss[i][j + 1]
      BY <2>1 DEF Inside
    <3>2. PICK j \in 1 .. Len(ss[i]) - 1 : f[k] = ss[i][j] /\ f[k + 1] = ss[i][j + 1]
      BY <3>1
    <3>3. CASE i = 1
      BY <1>3, <3>2, <3>3 DEF SideBySide
    <3>4. CASE i # 1
      <4>1. /\ Len(ss[i]) = Len(pp[i]) + 1
            /\ ss[i][1] = NewLine
            /\ \A l \in 1 .. Len(pp[i]) : ss[i][l + 1] = pp[i][l]
            /\ Len(pp[i]) \in Nat
        BY <1>1, <1>3, <3>4
      <4>2. j # 1
        BY <1>8, <1>12, <3>2, <4>1
      <4>3. /\ j - 1 \in 1 .. Len(pp[i]) - 1 /\ (j - 1) + 1 = j
            /\ j - 1 \in 1 .. Len(pp[i]) /\ j \in 1 .. Len(pp[i])
        BY <4>1, <4>2
      <4>4. ss[i][(j - 1) + 1] = pp[i][j - 1] /\ ss[i][j + 1] = pp[i][j]
        BY <4>1, <4>3
      <4>5. f[k] = pp[i][j - 1] /\ f[k + 1] = pp[i][(j - 1) + 1]
        BY <3>2, <4>3, <4>4
      <4> QED
        BY <4>3, <4>5 DEF SideBySide
    <3> QED
      BY <3>3, <3>4
  <2>2. CASE Across(f, ss, n, k)
    <3>1. PICK i \in 1 .. n, h \in 1 .. n : i < h /\ f[k + 1] = ss[h][1]
      BY <2>2 DEF Across
    <3>2. ss[h][1] = NewLine
      BY <1>3, <3>1
    <3> QED
      BY <1>8, <1>12, <3>1, <3>2
  <2> QED
    BY <1>6, <2>1, <2>2 DEF Concatenates, Joins
<1>13. n = Len(pp)
  BY DEF n
<1> QED
  BY <1>5, <1>6, <1>9, <1>11, <1>12, <1>13 DEF JoinedPages

(***************************************************************************)
(* Collapsing white space takes no letter along and breaks no character;   *)
(* what is left side by side, and can be seen, was side by side.           *)
(***************************************************************************)
Collapsed(t) ==
    /\ CollapseRuns(t) \in Texts
    /\ Range(t) \cap Letters \subseteq Range(CollapseRuns(t))
    /\ ValidUTF8(t) => ValidUTF8(CollapseRuns(t))
    /\ \A k \in 1 .. Len(CollapseRuns(t)) - 1 :
          {CollapseRuns(t)[k], CollapseRuns(t)[k + 1]} \subseteq Visible
          => SideBySide(t, CollapseRuns(t)[k], CollapseRuns(t)[k + 1])

LEMMA CollapseRunsCollapses == ASSUME NEW t \in Texts PROVE Collapsed(t)
<1> DEFINE n == Len(t)
           ss == [i \in DOMAIN t |->
                     IF t[i] \notin AsciiSpace THEN << t[i] >>
                     ELSE IF i > 1 /\ t[i - 1] \in AsciiSpace THEN << >>
                     ELSE << Space >>]
           f == FlattenSeq(ss)
<1>1. n \in Nat /\ DOMAIN t = 1 .. n /\ \A i \in 1 .. n : t[i] \in Bytes
  BY LenProperties DEF Texts
<1>2. Space \in Bytes /\ Space \in AsciiSpace
  BY ByteClasses DEF Space, AsciiSpace
<1>3. ASSUME NEW i \in 1 .. n
      PROVE  /\ ss[i] \in Texts
             /\ t[i] \notin AsciiSpace => Len(ss[i]) = 1 /\ ss[i][1] = t[i]
             /\ t[i] \in AsciiSpace =>
                   \/ Len(ss[i]) = 1 /\ ss[i][1] = Space
                   \/ Len(ss[i]) = 0 /\ i > 1 /\ t[i - 1] \in AsciiSpace
  <2>1. ss[i] = IF t[i] \notin AsciiSpace THEN << t[i] >>
                ELSE IF i > 1 /\ t[i - 1] \in AsciiSpace THEN << >>
                ELSE << Space >>
    BY <1>1
  <2>2. << t[i] >> \in Texts /\ << >> \in Texts /\ << Space >> \in Texts
    BY <1>1, <1>2 DEF Texts
  <2> HIDE DEF ss
  <2> QED
    BY <2>1, <2>2
<1>4. ss \in Seq(Texts) /\ Len(ss) = n
  <2>1. ss \in [1 .. n -> Texts]
    BY <1>1, <1>3
  <2> QED
    BY <1>1, <2>1, FunctionIsSeq
<1>5. CollapseRuns(t) = f
  BY DEF CollapseRuns
<1> HIDE DEF ss
<1>6. f \in Texts /\ Concatenates(f, ss, n)
  BY <1>4, FlattenSeqConcatenates DEF Flat, Texts
<1>7. \A i \in 1 .. n : Len(ss[i]) \in {0, 1}
  BY <1>3
<1> HIDE DEF f, n
<1>8. /\ DOMAIN f = 1 .. Len(f) /\ Len(f) \in Nat
      /\ n = Len(ss)
  BY <1>4, <1>6, LenProperties DEF Texts
<1>9. Range(t) \cap Letters \subseteq Range(f)
  <2> SUFFICES ASSUME NEW i \in 1 .. n, t[i] \in Letters
               PROVE  t[i] \in Range(f)
    BY <1>1 DEF Range
  <2>1. t[i] \notin AsciiSpace
    BY ByteClasses DEF AsciiSpace, Space, NewLine
  <2>2. 1 \in 1 .. Len(ss[i]) /\ ss[i][1] = t[i]
    BY <1>3, <2>1
  <2>3. \E k \in 1 .. Len(f) : f[k] = t[i]
    BY <1>6, <2>2 DEF Concatenates, Gathers
  <2> QED
    BY <1>8, <2>3 DEF Range
<1>10. ASSUME ValidUTF8(t)
       PROVE  ValidUTF8(f)
  <2>1. ASSUME NEW i \in 1 .. n, NEW j \in 1 .. Len(ss[i]),
               ss[i][j] \notin Letters \cup AsciiSpace
        PROVE  \E c \in Characters :
                   \/ ss[i][j] = c[1] /\ NextIs(ss, i, j, c[2])
                   \/ ss[i][j] = c[2] /\ PreviousIs(ss, i, j, c[1])
    <3>1. j = 1 /\ Len(ss[i]) = 1
      <4>1. Len(ss[i]) = 0 \/ Len(ss[i]) = 1
        BY <1>7
      <4> QED
        BY <4>1, AtMostOne
    <3>2. t[i] \notin AsciiSpace /\ ss[i][1] = t[i]
      BY <1>2, <1>3, <2>1, <3>1
    <3>3. PICK c \in Characters :
              \/ t[i] = c[1] /\ i < n /\ t[i + 1] = c[2]
              \/ t[i] = c[2] /\ i > 1 /\ t[i - 1] = c[1]
      <4>1. InCharacter(t, i)
        BY <1>1, <1>10 DEF ValidUTF8
      <4> QED
        BY <2>1, <3>1, <3>2, <4>1 DEF InCharacter, Characters, n
    <3>4. {c[1], c[2]} \cap AsciiSpace = {}
      BY CharactersDiffer
    <3>5. CASE t[i] = c[1] /\ i < n /\ t[i + 1] = c[2]
      <4>1. i + 1 \in 1 .. n
        BY <1>1, <3>5
      <4>2. Len(ss[i + 1]) = 1 /\ ss[i + 1][1] = c[2]
        BY <1>3, <3>4, <3>5, <4>1
      <4> QED
        BY <1>8, <3>1, <3>2, <3>5, <4>2 DEF NextIs
    <3>6. CASE t[i] = c[2] /\ i > 1 /\ t[i - 1] = c[1]
      <4>1. i - 1 \in 1 .. n
        BY <1>1, <3>6
      <4>2. Len(ss[i - 1]) = 1 /\ ss[i - 1][1] = c[1]
        BY <1>3, <3>4, <3>6, <4>1
      <4> QED
        BY <3>1, <3>2, <3>6, <4>2 DEF PreviousIs
    <3> QED
      BY <3>3, <3>5, <3>6
  <2>2. Unbroken(ss)
    BY <1>8, <2>1 DEF Unbroken
  <2>3. ss \in Seq(Seq(Bytes))
    BY <1>4 DEF Texts
  <2> QED
    BY <2>2, <2>3, UnbrokenIsValid DEF f
<1>11. ASSUME NEW k \in 1 .. Len(f) - 1, {f[k], f[k + 1]} \subseteq Visible
       PROVE  SideBySide(t, f[k], f[k + 1])
  <2>1. ~ Inside(f, ss, n, k)
    <3>1. ASSUME NEW i \in 1 .. n, NEW j \in 1 .. Len(ss[i]) - 1
          PROVE  FALSE
      <4>1. Len(ss[i]) = 0 \/ Len(ss[i]) = 1
        BY <1>7
      <4>2. CASE Len(ss[i]) = 0
        BY <4>2
      <4>3. CASE Len(ss[i]) = 1
        BY <4>3
      <4> QED
        BY <4>1, <4>2, <4>3
    <3> QED
      BY <3>1 DEF Inside
  <2>2. PICK i \in 1 .. n, h \in 1 .. n :
            /\ i < h /\ Len(ss[i]) > 0 /\ Len(ss[h]) > 0
            /\ f[k] = ss[i][Len(ss[i])] /\ f[k + 1] = ss[h][1]
            /\ \A e \in i + 1 .. h - 1 : Len(ss[e]) = 0
    BY <1>6, <2>1 DEF Concatenates, Joins, Across
  <2>3. Space \notin Visible
    BY <1>2 DEF Visible, WhiteSpace
  <2>4. Len(ss[i]) = 1 /\ Len(ss[h]) = 1
    BY <1>7, <2>2
  <2>5. /\ t[i] \notin AsciiSpace /\ f[k] = t[i]
        /\ f[k + 1] = t[h]
    BY <1>3, <1>11, <2>2, <2>3, <2>4
  <2>6. h = i + 1
    <3> SUFFICES ASSUME h # i + 1 PROVE FALSE
      OBVIOUS
    <3>1. i + 1 \in i + 1 .. h - 1 /\ i + 1 \in 1 .. n /\ (i + 1) - 1 = i
      BY <1>1, <2>2
    <3>2. Len(ss[i + 1]) = 0
      BY <2>2, <3>1
    <3>3. t[(i + 1) - 1] \in AsciiSpace
      BY <1>3, <3>1, <3>2
    <3> QED
      BY <2>5, <3>1, <3>3
  <2>7. i \in 1 .. n - 1
    BY <1>1, <2>6
  <2> QED
    BY <2>5, <2>6, <2>7 DEF SideBySide, n
<1> QED
  BY <1>5, <1>6, <1>9, <1>10, <1>11 DEF Collapsed

(***************************************************************************)
(* Dropping broken characters leaves whole ones only, takes no letter      *)
(* along and, when nothing but the ends of a part is broken, moves nothing *)
(* together.                                                               *)
(***************************************************************************)
WholeInside(p) == \A i \in 2 .. Len(p) - 1 : InCharacter(p, i)

Cleaned(p) ==
    /\ ToValidUTF8(p) \in Texts
    /\ ValidUTF8(ToValidUTF8(p))
    /\ Range(p) \cap Letters \subseteq Range(ToValidUTF8(p))
    /\ WholeInside(p) =>
          \A k \in 1 .. Len(ToValidUTF8(p)) - 1 :
              SideBySide(p, ToValidUTF8(p)[k], ToValidUTF8(p)[k + 1])

LEMMA ToValidUTF8Cleans == ASSUME NEW p \in Texts PROVE Cleaned(p)
<1> DEFINE n == Len(p)
           ss == [i \in DOMAIN p |-> IF InCharacter(p, i) THEN << p[i] >> ELSE << >>]
           f == FlattenSeq(ss)
<1>1. n \in Nat /\ DOMAIN p = 1 .. n /\ \A i \in 1 .. n : p[i] \in Bytes
  BY LenProperties DEF Texts
<1>2. ASSUME NEW i \in 1 .. n
      PROVE  /\ ss[i] \in Texts
             /\ InCharacter(p, i) => Len(ss[i]) = 1 /\ ss[i][1] = p[i]
             /\ ~ InCharacter(p, i) => Len(ss[i]) = 0
  <2>1. ss[i] = IF InCharacter(p, i) THEN << p[i] >> ELSE << >>
    BY <1>1
  <2>2. << p[i] >> \in Texts /\ << >> \in Texts
    BY <1>1 DEF Texts
  <2> HIDE DEF ss
  <2> QED
    BY <2>1, <2>2
<1>3. ss \in Seq(Texts) /\ Len(ss) = n
  <2>1. ss \in [1 .. n -> Texts]
    BY <1>1, <1>2
  <2> QED
    BY <1>1, <2>1, FunctionIsSeq
<1>4. ToValidUTF8(p) = f
  BY DEF ToValidUTF8
<1> HIDE DEF ss
<1>5. f \in Texts /\ Concatenates(f, ss, n)
  BY <1>3, FlattenSeqConcatenates DEF Flat, Texts
<1>6. ASSUME NEW i \in 1 .. n, Len(ss[i]) > 0
      PROVE  InCharacter(p, i) /\ Len(ss[i]) = 1 /\ ss[i][1] = p[i]
  BY <1>2, <1>6
<1>7. ASSUME NEW i \in 1 .. n, NEW j \in 1 .. Len(ss[i])
      PROVE  j = 1 /\ InCharacter(p, i) /\ Len(ss[i]) = 1 /\ ss[i][1] = p[i]
  <2>1. CASE InCharacter(p, i)
    BY <1>2, <2>1, AtMostOne
  <2>2. CASE ~ InCharacter(p, i)
    BY <1>2, <2>2, AtMostOne
  <2> QED
    BY <2>1, <2>2
<1> HIDE DEF f, n
<1>8. /\ DOMAIN f = 1 .. Len(f) /\ Len(f) \in Nat
      /\ n = Len(ss)
  BY <1>3, <1>5, LenProperties DEF Texts
<1>9. Range(p) \cap Letters \subseteq Range(f)
  <2> SUFFICES ASSUME NEW i \in 1 .. n, p[i] \in Letters
               PROVE  p[i] \in Range(f)
    BY <1>1 DEF Range
  <2>1. InCharacter(p, i)
    BY DEF InCharacter
  <2>2. 1 \in 1 .. Len(ss[i]) /\ ss[i][1] = p[i]
    BY <1>2, <2>1
  <2>3. \E k \in 1 .. Len(f) : f[k] = p[i]
    BY <1>5, <2>2 DEF Concatenates, Gathers
  <2> QED
    BY <1>8, <2>3 DEF Range
<1>10. ValidUTF8(f)
  <2>1. ASSUME NEW i \in 1 .. n, NEW j \in 1 .. Len(ss[i]),
               ss[i][j] \notin Letters \cup AsciiSpace
        PROVE  \E c \in Characters :
                   \/ ss[i][j] = c[1] /\ NextIs(ss, i, j, c[2])
                   \/ ss[i][j] = c[2] /\ PreviousIs(ss, i, j, c[1])
    <3>1. j = 1 /\ InCharacter(p, i) /\ Len(ss[i]) = 1 /\ ss[i][1] = p[i]
      BY <1>7
    <3>2. PICK c \in Characters :
              \/ p[i] = c[1] /\ i < n /\ p[i + 1] = c[2]
              \/ p[i] = c[2] /\ i > 1 /\ p[i - 1] = c[1]
      BY <2>1, <3>1 DEF InCharacter, Characters, n
    <3>3. CASE p[i] = c[1] /\ i < n /\ p[i + 1] = c[2]
      <4>1. i + 1 \in 1 .. n /\ i + 1 > 1 /\ (i + 1) - 1 = i
        BY <1>1, <3>3
      <4>2. InCharacter(p, i + 1)
        BY <3>3, <4>1 DEF InCharacter, Characters
      <4>3. Len(ss[i + 1]) = 1 /\ ss[i + 1][1] = c[2]
        BY <1>2, <3>3, <4>1, <4>2
      <4> QED
        BY <1>8, <3>1, <3>3, <4>3 DEF NextIs
    <3>4. CASE p[i] = c[2] /\ i > 1 /\ p[i - 1] = c[1]
      <4>1. i - 1 \in 1 .. n /\ i - 1 < n /\ (i - 1) + 1 = i
        BY <1>1, <3>4
      <4>2. InCharacter(p, i - 1)
        BY <3>4, <4>1 DEF InCharacter, Characters, n
      <4>3. Len(ss[i - 1]) = 1 /\ ss[i - 1][1] = c[1]
        BY <1>2, <3>4, <4>1, <4>2
      <4> QED
        BY <3>1, <3>4, <4>3 DEF PreviousIs
    <3> QED
      BY <3>2, <3>3, <3>4
  <2>2. Unbroken(ss)
    BY <1>8, <2>1 DEF Unbroken
  <2>3. ss \in Seq(Seq(Bytes))
    BY <1>3 DEF Texts
  <2> QED
    BY <2>2, <2>3, UnbrokenIsValid DEF f
<1>11. ASSUME WholeInside(p), NEW k \in 1 .. Len(f) - 1
       PROVE  SideBySide(p, f[k], f[k + 1])
  <2>1. ~ Inside(f, ss, n, k)
    <3>1. ASSUME NEW i \in 1 .. n, NEW j \in 1 .. Len(ss[i]) - 1
          PROVE  FALSE
      <4>1. CASE Len(ss[i]) = 0
        BY <4>1
      <4>2. CASE Len(ss[i]) = 1
        BY <4>2
      <4> QED
        BY <1>2, <4>1, <4>2
    <3> QED
      BY <3>1 DEF Inside
  <2>2. PICK i \in 1 .. n, h \in 1 .. n :
            /\ i < h /\ Len(ss[i]) > 0 /\ Len(ss[h]) > 0
            /\ f[k] = ss[i][Len(ss[i])] /\ f[k + 1] = ss[h][1]
            /\ \A e \in i + 1 .. h - 1 : Len(ss[e]) = 0
    BY <1>5, <2>1 DEF Concatenates, Joins, Across
  <2>3. f[k] = p[i] /\ f[k + 1] = p[h]
    BY <1>6, <2>2
  <2>4. h = i + 1
    <3> SUFFICES ASSUME h # i + 1 PROVE FALSE
      OBVIOUS
    <3>1. i + 1 \in i + 1 .. h - 1 /\ i + 1 \in 2 .. n - 1 /\ i + 1 \in 1 .. n
      BY <1>1, <2>2
    <3>2. InCharacter(p, i + 1)
      BY <1>11, <3>1 DEF WholeInside, n
    <3> QED
      BY <1>2, <2>2, <3>1, <3>2
  <2>5. i \in 1 .. n - 1
    BY <1>1, <2>4
  <2> QED
    BY <2>3, <2>4, <2>5 DEF SideBySide, n
<1> QED
  BY <1>4, <1>5, <1>9, <1>10, <1>11 DEF Cleaned

-----------------------------------------------------------------------------
(* Parts of a text *)

LEMMA Extremes ==
    ASSUME NEW T \in SUBSET Nat, T # {}, NEW b \in Nat, \A m \in T : m <= b
    PROVE  /\ Min(T) \in T /\ Max(T) \in T
           /\ \A m \in T : Min(T) <= m /\ m <= Max(T)
<1>1. \E n \in T : \A m \in T : n <= m
  BY LeastNumber
<1>2. \E n \in T : \A m \in T : n >= m
  <2> DEFINE D == {d \in Nat : b - d \in T}
  <2>1. PICK x \in T : TRUE
    OBVIOUS
  <2>2. b - x \in D
    <3>1. x \in Nat /\ x <= b /\ b - (b - x) = x
      BY <2>1
    <3> QED
      BY <3>1
  <2>3. PICK d \in D : \A e \in D : d <= e
    <3>1. D \in SUBSET Nat /\ D # {}
      BY <2>2
    <3> HIDE DEF D
    <3> QED
      BY <3>1, LeastNumber
  <2>4. d \in Nat /\ b - d \in T
    BY <2>3
  <2>5. ASSUME NEW m \in T
        PROVE  b - d >= m
    <3>1. m \in Nat /\ m <= b /\ b - (b - m) = m
      OBVIOUS
    <3>2. b - m \in D
      BY <3>1
    <3>3. d <= b - m
      BY <2>3, <3>2
    <3> QED
      BY <2>4, <3>1, <3>3
  <2> QED
    BY <2>4, <2>5
<1>3. Min(T) \in T /\ \A m \in T : Min(T) <= m
  BY <1>1 DEF Min
<1>4. Max(T) \in T /\ \A m \in T : Max(T) >= m
  BY <1>2 DEF Max
<1>5. Max(T) \in Nat
  BY <1>4
<1> QED
  BY <1>3, <1>4, <1>5

\* p is what t holds behind its first a bytes.
Window(p, t) ==
    \E a \in Nat : a + Len(p) <= Len(t) /\ \A i \in 1 .. Len(p) : p[i] = t[a + i]

LEMMA SubSeqIsWindow ==
    ASSUME NEW t \in Texts, NEW a \in Nat, NEW b \in Nat, 1 <= a, a <= b, b <= Len(t)
    PROVE  /\ SubSeq(t, a, b) \in Texts
           /\ Len(SubSeq(t, a, b)) = b - a + 1
           /\ \A i \in a .. b : SubSeq(t, a, b)[i - a + 1] = t[i]
           /\ \A i \in 1 .. b - a + 1 : SubSeq(t, a, b)[i] = t[a + i - 1]
           /\ Window(SubSeq(t, a, b), t)
<1> DEFINE p == SubSeq(t, a, b)
<1>1. Len(t) \in Nat /\ \A i \in a .. b : t[i] \in Bytes
  BY LenProperties DEF Texts
<1>2. /\ p \in Texts
      /\ Len(p) = b - a + 1
      /\ \A i \in 1 .. b - a + 1 : p[i] = t[a + i - 1]
  BY <1>1, SubSeqProperties DEF Texts
<1> HIDE DEF p
<1>3. ASSUME NEW i \in a .. b
      PROVE  p[i - a + 1] = t[i]
  <2>1. i - a + 1 \in 1 .. b - a + 1 /\ a + (i - a + 1) - 1 = i
    OBVIOUS
  <2> QED
    BY <1>2, <2>1
<1>4. Window(p, t)
  <2>1. a - 1 \in Nat /\ (a - 1) + Len(p) <= Len(t)
    BY <1>1, <1>2
  <2>2. ASSUME NEW i \in 1 .. Len(p)
        PROVE  p[i] = t[(a - 1) + i]
    <3>1. i \in 1 .. b - a + 1 /\ (a - 1) + i = a + i - 1
      BY <1>2
    <3> QED
      BY <1>2, <3>1
  <2> QED
    BY <2>1, <2>2 DEF Window
<1> QED
  BY <1>2, <1>3, <1>4 DEF p

LEMMA EmptyIsWindow == ASSUME NEW t \in Texts PROVE Window(<< >>, t)
<1>1. 0 \in Nat /\ 0 + Len(<< >>) <= Len(t)
  BY LenProperties DEF Texts
<1> QED
  BY <1>1 DEF Window

LEMMA WindowOfWindow ==
    ASSUME NEW p \in Texts, NEW q \in Texts, NEW t \in Texts, Window(p, q), Window(q, t)
    PROVE  Window(p, t)
<1>1. Len(p) \in Nat /\ Len(q) \in Nat /\ Len(t) \in Nat
  BY LenProperties DEF Texts
<1>2. PICK a \in Nat : a + Len(p) <= Len(q) /\ \A i \in 1 .. Len(p) : p[i] = q[a + i]
  BY DEF Window
<1>3. PICK b \in Nat : b + Len(q) <= Len(t) /\ \A i \in 1 .. Len(q) : q[i] = t[b + i]
  BY DEF Window
<1>4. a + b \in Nat /\ a + b + Len(p) <= Len(t)
  BY <1>1, <1>2, <1>3
<1>5. ASSUME NEW i \in 1 .. Len(p)
      PROVE  p[i] = t[(a + b) + i]
  <2>1. a + i \in 1 .. Len(q) /\ b + (a + i) = (a + b) + i
    BY <1>1, <1>2
  <2> QED
    BY <1>2, <1>3, <2>1
<1> QED
  BY <1>4, <1>5 DEF Window

LEMMA WindowKeepsNeighbours ==
    ASSUME NEW p \in Texts, NEW t \in Texts, Window(p, t), NEW x, NEW y, SideBySide(p, x, y)
    PROVE  SideBySide(t, x, y)
<1>1. Len(p) \in Nat /\ Len(t) \in Nat
  BY LenProperties DEF Texts
<1>2. PICK a \in Nat : a + Len(p) <= Len(t) /\ \A i \in 1 .. Len(p) : p[i] = t[a + i]
  BY DEF Window
<1>3. PICK i \in 1 .. Len(p) - 1 : p[i] = x /\ p[i + 1] = y
  BY DEF SideBySide
<1>4. /\ a + i \in 1 .. Len(t) - 1
      /\ i \in 1 .. Len(p) /\ i + 1 \in 1 .. Len(p)
      /\ a + (i + 1) = (a + i) + 1
  BY <1>1, <1>2
<1>5. t[a + i] = x /\ t[(a + i) + 1] = y
  BY <1>2, <1>3, <1>4
<1> QED
  BY <1>4, <1>5 DEF SideBySide

\* A cut breaks no more than the first and the last character of a part.
LEMMA WindowIsWholeInside ==
    ASSUME NEW p \in Texts, NEW t \in Texts, Window(p, t), ValidUTF8(t)
    PROVE  WholeInside(p)
<1>1. Len(p) \in Nat /\ Len(t) \in Nat /\ DOMAIN t = 1 .. Len(t)
  BY LenProperties DEF Texts
<1>2. PICK a \in Nat : a + Len(p) <= Len(t) /\ \A i \in 1 .. Len(p) : p[i] = t[a + i]
  BY DEF Window
<1> SUFFICES ASSUME NEW i \in 2 .. Len(p) - 1
             PROVE  InCharacter(p, i)
  BY DEF WholeInside
<1>3. /\ i \in 1 .. Len(p) /\ i + 1 \in 1 .. Len(p) /\ i - 1 \in 1 .. Len(p)
      /\ i < Len(p) /\ i > 1
      /\ a + i \in 1 .. Len(t)
      /\ a + (i + 1) = (a + i) + 1 /\ a + (i - 1) = (a + i) - 1
  BY <1>1, <1>2
<1>4. p[i] = t[a + i] /\ p[i + 1] = t[(a + i) + 1] /\ p[i - 1] = t[(a + i) - 1]
  BY <1>2, <1>3
<1>5. InCharacter(t, a + i)
  BY <1>1, <1>3 DEF ValidUTF8
<1> QED
  BY <1>3, <1>4, <1>5 DEF InCharacter

(***************************************************************************)
(* Trimming takes nothing along that can be seen, and breaks no character, *)
(* for the two bytes of one are white space both or neither.               *)
(***************************************************************************)
Trimmed(t) ==
    /\ TrimSpace(t) \in Texts
    /\ Window(TrimSpace(t), t)
    /\ Range(t) \ WhiteSpace \subseteq Range(TrimSpace(t))
    /\ Blank(t) <=> Range(t) \subseteq WhiteSpace
    /\ ValidUTF8(t) => ValidUTF8(TrimSpace(t))

LEMMA TrimSpaceTrims == ASSUME NEW t \in Texts PROVE Trimmed(t)
<1> DEFINE seen == {i \in DOMAIN t : t[i] \notin WhiteSpace}
           n == Len(t)
<1>1. n \in Nat /\ DOMAIN t = 1 .. n
  BY LenProperties DEF Texts
<1>2. CASE seen = {}
  <2>1. TrimSpace(t) = << >>
    BY <1>2 DEF TrimSpace
  <2>2. Range(t) \subseteq WhiteSpace
    BY <1>2 DEF Range
  <2>3. ValidUTF8(<< >>) /\ << >> \in Texts
    BY DEF ValidUTF8, Texts
  <2> QED
    BY <2>1, <2>2, <2>3, EmptyIsWindow DEF Trimmed, Blank
<1>3. CASE seen # {}
  <2> DEFINE a == Min(seen)
             b == Max(seen)
             f == SubSeq(t, a, b)
  <2>1. TrimSpace(t) = f
    BY <1>3 DEF TrimSpace
  <2>2. /\ a \in seen /\ b \in seen
        /\ \A m \in seen : a <= m /\ m <= b
    <3>1. seen \in SUBSET Nat /\ \A m \in seen : m <= n
      BY <1>1
    <3> HIDE DEF seen, n
    <3> QED
      BY <1>1, <1>3, <3>1, Extremes
  <2>3. /\ a \in Nat /\ b \in Nat /\ 1 <= a /\ a <= b /\ b <= n
        /\ t[a] \notin WhiteSpace /\ t[b] \notin WhiteSpace
    BY <1>1, <2>2
  <2>4. \A i \in 1 .. n : t[i] \notin WhiteSpace => a <= i /\ i <= b
    BY <1>1, <2>2
  <2> HIDE DEF a, b, f, seen
  <2>5. /\ f \in Texts
        /\ Len(f) = b - a + 1
        /\ \A i \in a .. b : f[i - a + 1] = t[i]
        /\ \A i \in 1 .. b - a + 1 : f[i] = t[a + i - 1]
        /\ Window(f, t)
    BY <2>3, SubSeqIsWindow DEF f
  <2>6. DOMAIN f = 1 .. Len(f)
    BY <2>5, LenProperties DEF Texts
  <2>7. Range(t) \ WhiteSpace \subseteq Range(f)
    <3> SUFFICES ASSUME NEW i \in 1 .. n, t[i] \notin WhiteSpace
                 PROVE  t[i] \in Range(f)
      BY <1>1 DEF Range
    <3>1. i \in a .. b /\ i - a + 1 \in 1 .. Len(f)
      BY <1>1, <2>3, <2>4, <2>5
    <3> QED
      BY <2>5, <2>6, <3>1 DEF Range
  <2>8. ~ Blank(t)
    <3>1. Len(f) # 0
      BY <2>3, <2>5
    <3> QED
      BY <2>1, <3>1 DEF Blank
  <2>9. ~ (Range(t) \subseteq WhiteSpace)
    BY <1>1, <2>3 DEF Range
  <2>10. ASSUME ValidUTF8(t), NEW k \in 1 .. Len(f)
         PROVE  InCharacter(f, k)
    <3> DEFINE x == a + k - 1
    <3>1. /\ x \in 1 .. n /\ x \in a .. b
          /\ f[k] = t[x]
      BY <1>1, <2>3, <2>5
    <3>2. x = a + k - 1
      OBVIOUS
    <3> HIDE DEF x
    <3>3. InCharacter(t, x)
      BY <1>1, <2>10, <3>1 DEF ValidUTF8
    <3>4. ASSUME NEW c \in Characters, t[x] = c[1], x < n, t[x + 1] = c[2]
          PROVE  k < Len(f) /\ f[k + 1] = c[2]
      <4>1. x < b
        <5> SUFFICES ASSUME x = b PROVE FALSE
          BY <2>3, <3>1
        <5>1. t[x + 1] \notin WhiteSpace
          BY <2>3, <3>4, CharactersDiffer
        <5>2. x + 1 \in 1 .. n /\ ~ (x + 1 <= b)
          BY <1>1, <3>1, <3>4
        <5> QED
          BY <2>4, <5>1, <5>2
      <4>2. k + 1 \in 1 .. b - a + 1 /\ a + (k + 1) - 1 = x + 1 /\ k < Len(f)
        BY <2>3, <2>5, <3>2, <4>1
      <4> QED
        BY <2>5, <3>4, <4>2
    <3>5. ASSUME NEW c \in Characters, t[x] = c[2], x > 1, t[x - 1] = c[1]
          PROVE  k > 1 /\ f[k - 1] = c[1]
      <4>1. x > a
        <5> SUFFICES ASSUME x = a PROVE FALSE
          BY <2>3, <3>1
        <5>1. t[x - 1] \notin WhiteSpace
          BY <2>3, <3>5, CharactersDiffer
        <5>2. x - 1 \in 1 .. n /\ ~ (a <= x - 1)
          BY <1>1, <3>1, <3>5
        <5> QED
          BY <2>4, <5>1, <5>2
      <4>2. k - 1 \in 1 .. b - a + 1 /\ a + (k - 1) - 1 = x - 1 /\ k > 1
        BY <2>3, <2>5, <3>2, <4>1
      <4> QED
        BY <2>5, <3>5, <4>2
    <3>6. \/ t[x] \in Letters \cup AsciiSpace
          \/ \E c \in Characters : \/ t[x] = c[1] /\ x < n /\ t[x + 1] = c[2]
                                   \/ t[x] = c[2] /\ x > 1 /\ t[x - 1] = c[1]
      BY <3>3 DEF InCharacter, Characters
    <3> QED
      BY <3>1, <3>4, <3>5, <3>6 DEF InCharacter, Characters
  <2>11. ValidUTF8(t) => ValidUTF8(f)
    BY <2>6, <2>10 DEF ValidUTF8
  <2> QED
    BY <2>1, <2>5, <2>7, <2>8, <2>9, <2>11 DEF Trimmed
<1> QED
  BY <1>2, <1>3

(***************************************************************************)
(* The text of a PDF: it holds every letter of every page, is whole if     *)
(* they are, and what it shows side by side is side by side on a page.     *)
(***************************************************************************)
Normalized(pp) ==
    /\ NormalizeWhitespace(JoinPages(pp)) \in Texts
    /\ \A i \in 1 .. Len(pp) :
           Range(pp[i]) \cap Letters \subseteq Range(NormalizeWhitespace(JoinPages(pp)))
    /\ (\A i \in 1 .. Len(pp) : ValidUTF8(pp[i])) => ValidUTF8(NormalizeWhitespace(JoinPages(pp)))
    /\ \A x, y \in Visible :
           SideBySide(NormalizeWhitespace(JoinPages(pp)), x, y)
           => \E i \in 1 .. Len(pp) : SideBySide(pp[i], x, y)

LEMMA NormalizeWhitespaceNormalizes == ASSUME NEW pp \in Seq(Texts) PROVE Normalized(pp)
<1> DEFINE t == JoinPages(pp)
           u == CollapseRuns(t)
           v == TrimSpace(u)
<1>1. JoinedPages(pp)
  BY JoinPagesJoins
<1>2. t \in Texts
  BY <1>1 DEF JoinedPages
<1> HIDE DEF t
<1>3. Collapsed(t)
  BY <1>2, CollapseRunsCollapses
<1>4. u \in Texts
  BY <1>3 DEF Collapsed
<1> HIDE DEF u
<1>5. Trimmed(u)
  BY <1>4, TrimSpaceTrims
<1>6. v \in Texts /\ Window(v, u)
  BY <1>5 DEF Trimmed
<1> HIDE DEF v
<1>7. NormalizeWhitespace(JoinPages(pp)) = v
  BY DEF NormalizeWhitespace, t, u, v
<1>8. Letters \cap WhiteSpace = {}
  BY ByteClasses
<1>9. ASSUME NEW i \in 1 .. Len(pp)
      PROVE  Range(pp[i]) \cap Letters \subseteq Range(v)
  <2>1. Range(pp[i]) \subseteq Range(t)
    BY <1>1 DEF JoinedPages, t
  <2>2. Range(t) \cap Letters \subseteq Range(u)
    BY <1>3 DEF Collapsed, u
  <2>3. Range(u) \ WhiteSpace \subseteq Range(v)
    BY <1>5 DEF Trimmed, v
  <2> QED
    BY <1>8, <2>1, <2>2, <2>3
<1>10. (\A i \in 1 .. Len(pp) : ValidUTF8(pp[i])) => ValidUTF8(v)
  <2>1. (\A i \in 1 .. Len(pp) : ValidUTF8(pp[i])) => ValidUTF8(t)
    BY <1>1 DEF JoinedPages, t
  <2>2. ValidUTF8(t) => ValidUTF8(u)
    BY <1>3 DEF Collapsed, u
  <2>3. ValidUTF8(u) => ValidUTF8(v)
    BY <1>5 DEF Trimmed, v
  <2> QED
    BY <2>1, <2>2, <2>3
<1>11. ASSUME NEW x \in Visible, NEW y \in Visible, SideBySide(v, x, y)
       PROVE  \E i \in 1 .. Len(pp) : SideBySide(pp[i], x, y)
  <2>1. SideBySide(u, x, y)
    BY <1>4, <1>6, <1>11, WindowKeepsNeighbours
  <2>2. SideBySide(t, x, y)
    <3>1. PICK k \in 1 .. Len(u) - 1 : u[k] = x /\ u[k + 1] = y
      BY <2>1 DEF SideBySide
    <3>2. {u[k], u[k + 1]} \subseteq Visible => SideBySide(t, u[k], u[k + 1])
      BY <1>3 DEF Collapsed, u
    <3> QED
      BY <3>1, <3>2
  <2>3. PICK k \in 1 .. Len(t) - 1 : t[k] = x /\ t[k + 1] = y
    BY <2>2 DEF SideBySide
  <2>4. {t[k], t[k + 1]} \subseteq Visible
        => \E i \in 1 .. Len(pp) : SideBySide(pp[i], t[k], t[k + 1])
    BY <1>1 DEF JoinedPages, t
  <2> QED
    BY <2>3, <2>4
<1> QED
  BY <1>6, <1>7, <1>9, <1>10, <1>11 DEF Normalized

(***************************************************************************)
(* Wherever the splitter cuts, every part is a piece of the text, and what *)
(* can be seen in the text is in some part.                                *)
(***************************************************************************)
Split(s, t) ==
    /\ SplitText(s, t) \in Seq(Texts)
    /\ \A i \in 1 .. Len(SplitText(s, t)) : Window(SplitText(s, t)[i], t)
    /\ \A x \in Range(t) \ WhiteSpace :
           \E i \in 1 .. Len(SplitText(s, t)) : x \in Range(SplitText(s, t)[i])

\* The largest of numbers that one bound is above, and one of which is 1.
LEMMA Latest ==
    ASSUME NEW F \in SUBSET Int, 1 \in F, NEW e \in Nat, \A x \in F : x <= e
    PROVE  Max(F) \in F /\ Max(F) >= 1
<1> DEFINE T == {x \in F : x >= 1}
<1>1. \A x \in F : x \in Int
  OBVIOUS
<1>2. 1 \in T
  BY <1>1
<1>3. T \in SUBSET Nat /\ T # {} /\ \A m \in T : m <= e
  <2>1. \A m \in T : m \in Nat /\ m <= e
    BY <1>1
  <2> HIDE DEF T
  <2> QED
    BY <1>2, <2>1
<1>4. Max(T) \in T /\ \A m \in T : m <= Max(T)
  <2> HIDE DEF T
  <2> QED
    BY <1>3, Extremes
<1>5. \E x \in F : \A y \in F : x >= y
  <2>1. Max(T) \in F /\ Max(T) >= 1 /\ Max(T) \in Int
    BY <1>1, <1>4
  <2>2. ASSUME NEW y \in F
        PROVE  Max(T) >= y
    <3>1. CASE y >= 1
      BY <1>1, <1>4, <2>1, <3>1
    <3>2. CASE ~ (y >= 1)
      BY <1>1, <2>1, <3>2
    <3> QED
      BY <3>1, <3>2
  <2> QED
    BY <2>1, <2>2
<1>6. Max(F) \in F /\ \A y \in F : Max(F) >= y
  BY <1>5 DEF Max
<1> QED
  BY <1>6

LEMMA SplitTextSplits ==
    ASSUME NEW s \in Splitters, NEW t \in Texts
    PROVE  Split(s, t)
<1> DEFINE n == Len(t)
           ends == {e \in s.ends : e < Len(t)} \cup {Len(t)}
           from(e) == Max({1} \cup {d + 1 - s.overlap : d \in {d \in ends : d < e}})
           whole(e) == SubSeq(t, from(e), e)
           part(e) == IF s.trims THEN TrimSpace(whole(e)) ELSE whole(e)
           ss == [e \in DOMAIN t |-> IF e \notin ends THEN << >> ELSE << part(e) >>]
           f == SplitText(s, t)
<1>1. n \in Nat /\ DOMAIN t = 1 .. n
  BY LenProperties DEF Texts
<1>2. s.overlap \in Nat /\ s.ends \in SUBSET Nat
  BY BoundsAssumption DEF Splitters
<1>3. /\ ends \in SUBSET Nat
      /\ n \in ends
      /\ \A e \in ends : e <= n
  BY <1>1, <1>2
<1>4. f = FlattenSeq(ss)
  BY DEF SplitText
<1> HIDE DEF f, ends
<1>5. ASSUME NEW e \in 1 .. n
      PROVE  /\ from(e) \in 1 .. e
             /\ from(e) = 1 \/ \E d \in ends : d < e /\ from(e) = d + 1 - s.overlap
  <2> DEFINE F == {1} \cup {d + 1 - s.overlap : d \in {d \in ends : d < e}}
  <2>1. /\ \A x \in F : x \in Int /\ x <= e
        /\ \A x \in F : x = 1 \/ \E d \in ends : d < e /\ x = d + 1 - s.overlap
        /\ 1 \in F
    BY <1>2, <1>3
  <2>2. from(e) = Max(F)
    OBVIOUS
  <2> HIDE DEF F, from
  <2>3. F \in SUBSET Int /\ e \in Nat
    BY <2>1
  <2>4. Max(F) \in F /\ Max(F) >= 1
    BY <2>1, <2>3, Latest
  <2>5. from(e) \in Int /\ 1 <= from(e) /\ from(e) <= e
    BY <2>1, <2>2, <2>4
  <2>6. from(e) = 1 \/ \E d \in ends : d < e /\ from(e) = d + 1 - s.overlap
    BY <2>1, <2>2, <2>4
  <2> QED
    BY <2>5, <2>6
<1> HIDE DEF from
<1>6. ASSUME NEW e \in 1 .. n
      PROVE  /\ whole(e) \in Texts
             /\ Window(whole(e), t)
             /\ \A i \in from(e) .. e : t[i] \in Range(whole(e))
  <2> DEFINE a == from(e)
             p == SubSeq(t, a, e)
  <2>1. a \in Nat /\ e \in Nat /\ 1 <= a /\ a <= e /\ e <= n
    BY <1>1, <1>5
  <2> HIDE DEF a
  <2>2. /\ p \in Texts
        /\ Len(p) = e - a + 1
        /\ \A i \in a .. e : p[i - a + 1] = t[i]
        /\ Window(p, t)
    BY <2>1, SubSeqIsWindow
  <2>3. p = whole(e)
    BY DEF a
  <2> HIDE DEF p
  <2>4. DOMAIN p = 1 .. Len(p)
    BY <2>2, LenProperties DEF Texts
  <2>5. ASSUME NEW i \in a .. e
        PROVE  t[i] \in Range(p)
    <3>1. i - a + 1 \in 1 .. Len(p)
      BY <2>1, <2>2
    <3> QED
      BY <2>2, <2>4, <3>1 DEF Range
  <2> QED
    BY <2>2, <2>3, <2>5 DEF a
<1> HIDE DEF whole
<1>7. ASSUME NEW e \in 1 .. n
      PROVE  /\ part(e) \in Texts
             /\ Window(part(e), t)
             /\ \A i \in from(e) .. e : t[i] \notin WhiteSpace => t[i] \in Range(part(e))
  <2> DEFINE w == whole(e)
  <2>1. /\ w \in Texts /\ Window(w, t)
        /\ \A i \in from(e) .. e : t[i] \in Range(w)
    BY <1>6
  <2>2. part(e) = IF s.trims THEN TrimSpace(w) ELSE w
    OBVIOUS
  <2> HIDE DEF w
  <2>3. /\ TrimSpace(w) \in Texts
        /\ Window(TrimSpace(w), w)
        /\ Range(w) \ WhiteSpace \subseteq Range(TrimSpace(w))
    BY <2>1, TrimSpaceTrims DEF Trimmed
  <2>4. Window(TrimSpace(w), t)
    BY <2>1, <2>3, WindowOfWindow
  <2> QED
    BY <2>1, <2>2, <2>3, <2>4
<1> HIDE DEF part
<1>8. ss \in Seq(Seq(Texts)) /\ Len(ss) = n
  <2>1. ASSUME NEW e \in 1 .. n
        PROVE  ss[e] \in Seq(Texts)
    BY <1>1, <1>7
  <2>2. ss \in [1 .. n -> Seq(Texts)]
    BY <1>1, <2>1
  <2> HIDE DEF ss
  <2> QED
    BY <1>1, <2>2, FunctionIsSeq
<1>9. \A e \in 1 .. n : \/ ss[e] = << >>
                        \/ e \in ends /\ ss[e] = << part(e) >>
  BY <1>1
<1>10. \A e \in 1 .. n : e \in ends => ss[e] = << part(e) >>
  BY <1>1
<1> HIDE DEF ss
<1>11. f \in Seq(Texts) /\ Gathers(f, ss, n)
  BY <1>4, <1>8, FlattenSeqConcatenates DEF Flat, Concatenates
<1>12. ASSUME NEW k \in 1 .. Len(f)
       PROVE  Window(f[k], t)
  <2>1. PICK e \in 1 .. n : \E j \in 1 .. Len(ss[e]) : f[k] = ss[e][j]
    BY <1>11 DEF Gathers
  <2>2. PICK j \in 1 .. Len(ss[e]) : f[k] = ss[e][j]
    BY <2>1
  <2>3. ss[e] # << >>
    BY <2>2
  <2>4. f[k] = part(e)
    BY <1>9, <2>2, <2>3
  <2> QED
    BY <1>7, <2>4
<1>13. ASSUME NEW x \in Range(t) \ WhiteSpace
       PROVE  \E k \in 1 .. Len(f) : x \in Range(f[k])
  <2>1. PICK i \in 1 .. n : t[i] = x
    BY <1>1 DEF Range
  <2> DEFINE E == {e \in ends : i <= e}
  <2>2. E \in SUBSET Nat /\ E # {}
    <3>1. n \in E
      BY <1>1, <1>3
    <3>2. E \subseteq ends
      OBVIOUS
    <3> HIDE DEF E
    <3> QED
      BY <1>3, <3>1, <3>2
  <2>3. PICK e \in E : \A d \in E : e <= d
    <3> HIDE DEF E
    <3> QED
      BY <2>2, LeastNumber
  <2>4. e \in ends /\ i <= e /\ e \in 1 .. n
    BY <1>1, <1>3, <2>3
  <2>5. \A d \in ends : d < e => d < i
    BY <1>1, <1>3, <2>3
  <2>6. i \in from(e) .. e
    <3>1. from(e) \in 1 .. e
      BY <1>5, <2>4
    <3>2. CASE from(e) = 1
      BY <1>1, <2>4, <3>2
    <3>3. CASE from(e) # 1
      <4>1. PICK d \in ends : d < e /\ from(e) = d + 1 - s.overlap
        BY <1>5, <2>4, <3>3
      <4>2. d < i /\ d \in Nat
        BY <1>3, <2>5, <4>1
      <4> QED
        BY <1>1, <1>2, <2>4, <3>1, <4>1, <4>2
    <3> QED
      BY <3>2, <3>3
  <2>7. x \in Range(part(e))
    BY <1>7, <2>1, <2>4, <2>6
  <2>8. ss[e] = << part(e) >>
    BY <1>10, <2>4
  <2>9. 1 \in 1 .. Len(ss[e]) /\ ss[e][1] = part(e)
    BY <2>8
  <2>10. \E k \in 1 .. Len(f) : f[k] = ss[e][1]
    BY <1>11, <2>4, <2>9 DEF Gathers
  <2> QED
    BY <2>7, <2>9, <2>10
<1> QED
  BY <1>11, <1>12, <1>13 DEF Split, f

-----------------------------------------------------------------------------
(* The chunks of a document *)

Rows(src) == [text : Texts, source : {src}]

(***************************************************************************)
(* Each chunk of a document carries its source and can be stored, together *)
(* they hold every letter of its text, and if that is whole, they show     *)
(* nothing side by side that it does not.                                  *)
(***************************************************************************)
Chunked(src, t, cs) ==
    /\ cs \in Seq(Rows(src))
    /\ \A k \in 1 .. Len(cs) : ValidUTF8(cs[k].text) /\ ~ Blank(cs[k].text)
    /\ \A x \in Range(t) \cap Letters : \E k \in 1 .. Len(cs) : x \in Range(cs[k].text)
    /\ ValidUTF8(t) => \A k \in 1 .. Len(cs) : \A j \in 1 .. Len(cs[k].text) - 1 :
                           SideBySide(t, cs[k].text[j], cs[k].text[j + 1])

LEMMA ChunksAreChunked ==
    ASSUME NEW src, NEW s \in Splitters, NEW t \in Texts
    PROVE  Chunked(src, t, Chunks(src, SplitText(s, t)))
<1> DEFINE parts == SplitText(s, t)
           c(i) == ToValidUTF8(parts[i])
           row(i) == [text |-> c(i), source |-> src]
           ss == [i \in DOMAIN parts |-> IF Blank(c(i)) THEN << >> ELSE << row(i) >>]
           n == Len(parts)
           f == Chunks(src, parts)
<1>1. Split(s, t)
  BY SplitTextSplits
<1>2. parts \in Seq(Texts)
  BY <1>1 DEF Split
<1>3. n \in Nat /\ DOMAIN parts = 1 .. n /\ \A i \in 1 .. n : parts[i] \in Texts
  BY <1>2, LenProperties
<1>4. f = FlattenSeq(ss)
  BY DEF Chunks
<1>5. \A i \in 1 .. n : Window(parts[i], t)
  BY <1>1 DEF Split
<1>6. \A x \in Range(t) \ WhiteSpace : \E i \in 1 .. n : x \in Range(parts[i])
  BY <1>1 DEF Split
<1> HIDE DEF parts, f, n
<1>7. ASSUME NEW i \in 1 .. n
      PROVE  /\ c(i) \in Texts
             /\ ValidUTF8(c(i))
             /\ Range(parts[i]) \cap Letters \subseteq Range(c(i))
             /\ WholeInside(parts[i]) =>
                   \A k \in 1 .. Len(c(i)) - 1 : SideBySide(parts[i], c(i)[k], c(i)[k + 1])
             /\ Blank(c(i)) <=> Range(c(i)) \subseteq WhiteSpace
  <2>1. Cleaned(parts[i])
    BY <1>3, ToValidUTF8Cleans
  <2>2. Trimmed(c(i))
    BY <2>1, TrimSpaceTrims DEF Cleaned
  <2> QED
    BY <2>1, <2>2 DEF Cleaned, Trimmed
<1> HIDE DEF c
<1>8. \A i \in 1 .. n : /\ row(i) \in Rows(src)
                        /\ row(i).text = c(i)
  BY <1>7 DEF Rows
<1> HIDE DEF row
<1>9. \A i \in 1 .. n : /\ Blank(c(i)) => ss[i] = << >>
                        /\ ~ Blank(c(i)) => ss[i] = << row(i) >>
  BY <1>3
<1>10. ss \in Seq(Seq(Rows(src))) /\ Len(ss) = n
  <2>1. ASSUME NEW i \in 1 .. n
        PROVE  ss[i] \in Seq(Rows(src))
    <3>1. ss[i] = << >> \/ ss[i] = << row(i) >>
      BY <1>9
    <3>2. row(i) \in Rows(src)
      BY <1>8
    <3>3. << row(i) >> \in Seq(Rows(src))
      BY <3>2
    <3>4. << >> \in Seq(Rows(src))
      OBVIOUS
    <3> QED
      BY <3>1, <3>3, <3>4
  <2>2. ss \in [1 .. n -> Seq(Rows(src))]
    BY <1>3, <2>1
  <2> HIDE DEF ss
  <2> QED
    BY <1>3, <2>2, FunctionIsSeq
<1> HIDE DEF ss
<1>11. f \in Seq(Rows(src)) /\ Gathers(f, ss, n)
  BY <1>4, <1>10, FlattenSeqConcatenates DEF Flat, Concatenates
<1>12. ASSUME NEW k \in 1 .. Len(f)
       PROVE  \E i \in 1 .. n : f[k].text = c(i) /\ ~ Blank(c(i))
  <2>1. PICK i \in 1 .. n : \E j \in 1 .. Len(ss[i]) : f[k] = ss[i][j]
    BY <1>11 DEF Gathers
  <2>2. PICK j \in 1 .. Len(ss[i]) : f[k] = ss[i][j]
    BY <2>1
  <2>3. ss[i] # << >>
    BY <2>2
  <2>4. f[k] = row(i) /\ ~ Blank(c(i))
    BY <1>9, <2>2, <2>3
  <2> QED
    BY <1>8, <2>4
<1>13. ASSUME NEW x \in Range(t) \cap Letters
       PROVE  \E k \in 1 .. Len(f) : x \in Range(f[k].text)
  <2>1. x \in Letters /\ x \notin WhiteSpace /\ x \in Range(t)
    BY ByteClasses
  <2>2. PICK i \in 1 .. n : x \in Range(parts[i])
    BY <1>6, <2>1
  <2>3. x \in Range(c(i))
    BY <1>7, <2>1, <2>2
  <2>4. ~ Blank(c(i))
    BY <1>7, <2>1, <2>3
  <2>5. 1 \in 1 .. Len(ss[i]) /\ ss[i][1] = row(i)
    BY <1>9, <2>4
  <2>6. PICK k \in 1 .. Len(f) : f[k] = ss[i][1]
    BY <1>11, <2>5 DEF Gathers
  <2> QED
    BY <1>8, <2>3, <2>5, <2>6
<1>14. ASSUME ValidUTF8(t), NEW k \in 1 .. Len(f), NEW j \in 1 .. Len(f[k].text) - 1
       PROVE  SideBySide(t, f[k].text[j], f[k].text[j + 1])
  <2>1. PICK i \in 1 .. n : f[k].text = c(i)
    BY <1>12
  <2>2. parts[i] \in Texts /\ Window(parts[i], t)
    BY <1>3, <1>5
  <2>3. WholeInside(parts[i])
    BY <1>14, <2>2, WindowIsWholeInside
  <2>4. SideBySide(parts[i], f[k].text[j], f[k].text[j + 1])
    BY <1>7, <2>1, <2>3
  <2> QED
    BY <2>2, <2>4, WindowKeepsNeighbours
<1>15. \A k \in 1 .. Len(f) : ValidUTF8(f[k].text) /\ ~ Blank(f[k].text)
  BY <1>7, <1>12
<1> QED
  BY <1>11, <1>13, <1>14, <1>15 DEF Chunked, f, parts

-----------------------------------------------------------------------------
(* The invariant *)

Stages == {"idle", "opening", "reading", "chunking", "building"}

\* How an attempt proceeds: MuPDF has the PDF open while the pages are read,
\* and there are no chunks before the documents have been split.
Control ==
    /\ attempts \in 0 .. MaxAttempts
    /\ stage \in Stages
    /\ result \in {"none", "ok", "failed"}
    /\ open = (stage = "reading")
    /\ stage # "idle" => result = "none"
    /\ stage \in {"opening", "reading", "chunking"} => chunks = << >>

\* The pages read so far are the first ones of the PDF.
Pages ==
    /\ pages \in Seq(Texts)
    /\ Len(pages) <= Len(pdf)
    /\ \A i \in 1 .. Len(pages) : pages[i] = pdf[i]
    /\ stage \in {"idle", "opening"} => pages = << >>

\* Whatever attempt they are from, the chunks are those of the sources.
Data ==
    /\ docs \in {<< >>, Corpus(pdf, file)}
    /\ stage \in {"chunking", "building"} => docs = Corpus(pdf, file)
    /\ chunks \in {<< >>, AllChunks(pdf, file, splitter)}
    /\ stage = "building" => chunks = AllChunks(pdf, file, splitter)
    /\ OnlyWholeDocuments
    /\ result = "ok" => rows = Range(AllChunks(pdf, file, splitter))

IInv ==
    /\ pdf \in PdfPages
    /\ file \in TextFiles
    /\ splitter \in Splitters
    /\ Control
    /\ Pages
    /\ Data

\* The pages a reader sees, and the texts that are whole.
PagesIn(src, p, f) == IF src = "pdf" THEN Range(p) ELSE {f}

CorpusIsWhole ==
    /\ \A p \in PdfPages : \A q \in Range(p) : ValidUTF8(q)
    /\ \A f \in TextFiles : ValidUTF8(f)

AllRows == Rows("pdf") \cup Rows("file")

(***************************************************************************)
(* What all chunks of a corpus are, and what they hold.                    *)
(***************************************************************************)
Indexes(p, f, cs) ==
    /\ cs \in Seq(AllRows)
    /\ \A c \in Range(cs) : ValidUTF8(c.text) /\ ~ Blank(c.text)
    /\ \A src \in Sources : \A q \in PagesIn(src, p, f) : \A x \in Range(q) \cap Letters :
           \E c \in Range(cs) : c.source = src /\ x \in Range(c.text)
    /\ CorpusIsWhole =>
           \A c \in Range(cs) : \A i \in 1 .. Len(c.text) - 1 :
               {c.text[i], c.text[i + 1]} \subseteq Visible =>
                   \E q \in PagesIn(c.source, p, f) : SideBySide(q, c.text[i], c.text[i + 1])

LEMMA AllChunksIndex ==
    ASSUME NEW p \in PdfPages, NEW f \in TextFiles, NEW s \in Splitters
    PROVE  Indexes(p, f, AllChunks(p, f, s))
<1> DEFINE t == NormalizeWhitespace(JoinPages(p))
           a == Chunks("pdf", SplitText(s, t))
           b == Chunks("file", SplitText(s, f))
           ss == << a, b >>
           cs == AllChunks(p, f, s)
<1>1. p \in Seq(Texts) /\ f \in Texts
  BY CorpusAssumption DEF Texts
<1>2. DOMAIN p = 1 .. Len(p) /\ Len(p) \in Nat
  BY <1>1, LenProperties
<1>3. Normalized(p)
  BY <1>1, NormalizeWhitespaceNormalizes
<1>4. t \in Texts
  BY <1>3 DEF Normalized
<1>5. cs = FlattenSeq(ss)
  <2>1. DOMAIN Corpus(p, f) = 1 .. 2
    BY DEF Corpus
  <2>2. [i \in DOMAIN Corpus(p, f) |->
            Chunks(Corpus(p, f)[i].source, SplitText(s, Corpus(p, f)[i].text))] = ss
    BY <2>1 DEF Corpus
  <2> QED
    BY <2>2 DEF AllChunks
<1> HIDE DEF t
<1>6. Chunked("pdf", t, a) /\ Chunked("file", f, b)
  BY <1>1, <1>4, ChunksAreChunked
<1>7. a \in Seq(Rows("pdf")) /\ b \in Seq(Rows("file"))
  BY <1>6 DEF Chunked
<1> HIDE DEF a, b, cs
<1>8. a \in Seq(AllRows) /\ b \in Seq(AllRows)
  BY <1>7 DEF AllRows
<1>9. ss \in Seq(Seq(AllRows)) /\ Len(ss) = 2 /\ ss[1] = a /\ ss[2] = b
  BY <1>8
<1> HIDE DEF ss
<1>10. cs \in Seq(AllRows) /\ Gathers(cs, ss, 2)
  BY <1>5, <1>9, FlattenSeqConcatenates DEF Flat, Concatenates
<1>11. DOMAIN cs = 1 .. Len(cs) /\ Len(a) \in Nat /\ Len(b) \in Nat
  BY <1>7, <1>10, LenProperties
<1>12. ASSUME NEW c \in Range(cs)
       PROVE  \/ \E j \in 1 .. Len(a) : c = a[j]
              \/ \E j \in 1 .. Len(b) : c = b[j]
  <2>1. PICK k \in 1 .. Len(cs) : c = cs[k]
    BY <1>11 DEF Range
  <2>2. PICK i \in 1 .. 2 : \E j \in 1 .. Len(ss[i]) : cs[k] = ss[i][j]
    BY <1>10 DEF Gathers
  <2>3. i = 1 \/ i = 2
    OBVIOUS
  <2> QED
    BY <1>9, <2>1, <2>2, <2>3
<1>13. /\ \A j \in 1 .. Len(a) : a[j] \in Range(cs)
       /\ \A j \in 1 .. Len(b) : b[j] \in Range(cs)
  <2>1. ASSUME NEW i \in 1 .. 2, NEW j \in 1 .. Len(ss[i])
        PROVE  ss[i][j] \in Range(cs)
    <3>1. PICK k \in 1 .. Len(cs) : cs[k] = ss[i][j]
      BY <1>10 DEF Gathers
    <3> QED
      BY <1>11, <3>1 DEF Range
  <2> QED
    BY <1>9, <2>1
<1>14. /\ \A j \in 1 .. Len(a) : a[j] \in Rows("pdf")
       /\ \A j \in 1 .. Len(b) : b[j] \in Rows("file")
  BY <1>7, <1>11
<1>15. \A c \in Range(cs) : ValidUTF8(c.text) /\ ~ Blank(c.text)
  BY <1>6, <1>12 DEF Chunked
<1>16. ASSUME NEW src \in Sources, NEW q \in PagesIn(src, p, f), NEW x \in Range(q) \cap Letters
       PROVE  \E c \in Range(cs) : c.source = src /\ x \in Range(c.text)
  <2>1. CASE src = "pdf"
    <3>1. PICK i \in 1 .. Len(p) : q = p[i]
      BY <1>2, <2>1 DEF PagesIn, Range
    <3>2. x \in Range(t) \cap Letters
      BY <1>3, <1>16, <3>1 DEF Normalized, t
    <3>3. PICK k \in 1 .. Len(a) : x \in Range(a[k].text)
      BY <1>6, <3>2 DEF Chunked
    <3> QED
      BY <1>13, <1>14, <2>1, <3>3 DEF Rows
  <2>2. CASE src = "file"
    <3>1. x \in Range(f) \cap Letters
      BY <1>16, <2>2 DEF PagesIn
    <3>2. PICK k \in 1 .. Len(b) : x \in Range(b[k].text)
      BY <1>6, <3>1 DEF Chunked
    <3> QED
      BY <1>13, <1>14, <2>2, <3>2 DEF Rows
  <2> QED
    BY <2>1, <2>2 DEF Sources
<1>17. ASSUME CorpusIsWhole, NEW c \in Range(cs), NEW i \in 1 .. Len(c.text) - 1,
              {c.text[i], c.text[i + 1]} \subseteq Visible
       PROVE  \E q \in PagesIn(c.source, p, f) : SideBySide(q, c.text[i], c.text[i + 1])
  <2> DEFINE x == c.text[i]
             y == c.text[i + 1]
  <2>1. x \in Visible /\ y \in Visible
    BY <1>17
  <2>2. ASSUME NEW j \in 1 .. Len(a), c = a[j]
        PROVE  \E q \in PagesIn(c.source, p, f) : SideBySide(q, x, y)
    <3>1. ValidUTF8(t)
      <4>1. \A k \in 1 .. Len(p) : ValidUTF8(p[k])
        BY <1>2, <1>17 DEF CorpusIsWhole, Range
      <4> QED
        BY <1>3, <4>1 DEF Normalized, t
    <3>2. SideBySide(t, x, y)
      BY <1>6, <2>2, <3>1 DEF Chunked
    <3>3. PICK k \in 1 .. Len(p) : SideBySide(p[k], x, y)
      BY <1>3, <2>1, <3>2 DEF Normalized, t
    <3>4. p[k] \in PagesIn(c.source, p, f)
      BY <1>2, <1>14, <2>2 DEF PagesIn, Range, Rows
    <3> QED
      BY <3>3, <3>4
  <2>3. ASSUME NEW j \in 1 .. Len(b), c = b[j]
        PROVE  \E q \in PagesIn(c.source, p, f) : SideBySide(q, x, y)
    <3>1. ValidUTF8(f)
      BY <1>17 DEF CorpusIsWhole
    <3>2. SideBySide(f, x, y)
      BY <1>6, <2>3, <3>1 DEF Chunked
    <3>3. f \in PagesIn(c.source, p, f)
      BY <1>14, <2>3 DEF PagesIn, Rows
    <3> QED
      BY <3>2, <3>3
  <2> QED
    BY <1>12, <2>2, <2>3
<1> QED
  BY <1>10, <1>15, <1>16, <1>17 DEF Indexes, cs

LEMMA CorpusTypes ==
    ASSUME IInv
    PROVE  /\ pdf \in Seq(Texts) /\ Len(pdf) \in Nat
           /\ Len(pages) \in Nat
<1>1. pdf \in Seq(Texts) /\ Len(pdf) \in Nat
  BY CorpusAssumption, LenProperties DEF IInv, Texts
<1>2. Len(pages) \in Nat
  BY LenProperties DEF IInv, Pages
<1> QED
  BY <1>1, <1>2

LEMMA InitInvariant == Init => IInv
<1> SUFFICES ASSUME Init PROVE IInv
  OBVIOUS
<1>1. Control
  <2>1. 0 \in 0 .. MaxAttempts
    BY BoundsAssumption
  <2>2. open = FALSE /\ stage = "idle" /\ result = "none" /\ attempts = 0
    BY DEF Init
  <2> QED
    BY <2>1, <2>2 DEF Control, Stages
<1>2. Pages
  <2>1. Len(pdf) \in Nat /\ pages = << >>
    BY CorpusAssumption, LenProperties DEF Init
  <2> QED
    BY <2>1 DEF Init, Pages
<1>3. Data
  BY DEF Init, Data, OnlyWholeDocuments
<1> QED
  BY <1>1, <1>2, <1>3 DEF Init, IInv

LEMMA NextInvariant == IInv /\ [Next]_vars => IInv'
<1> SUFFICES ASSUME IInv, [Next]_vars
             PROVE  IInv'
  OBVIOUS
<1> DEFINE A == AllChunks(pdf, file, splitter)
           C == Corpus(pdf, file)
<1>1. pdf' = pdf /\ file' = file /\ splitter' = splitter
  BY DEF Next, vars, source, Begin, OpenPdf, OpenFails, ReadPage, ReadPageFails, Loaded,
         ChunkDocuments, ChunkDocumentsFails, Build, BuildFails
<1>2. A' = A /\ C' = C
  BY <1>1
<1>3. /\ pdf \in Seq(Texts) /\ Len(pdf) \in Nat
      /\ Len(pages) \in Nat
  BY CorpusTypes
<1>4. Control'
  <2>1. Control
    BY DEF IInv
  <2>2. attempts \in 0 .. MaxAttempts /\ MaxAttempts \in Nat
    BY <2>1, BoundsAssumption DEF Control
  <2>3. CASE Begin
    BY <2>1, <2>2, <2>3 DEF Begin, Control, Stages
  <2>4. CASE OpenPdf
    BY <2>1, <2>4 DEF OpenPdf, Control, Stages
  <2>5. CASE OpenFails
    BY <2>1, <2>5 DEF OpenFails, End, Control, Stages
  <2>6. CASE ReadPage
    BY <2>1, <2>6 DEF ReadPage, Control, Stages
  <2>7. CASE ReadPageFails
    BY <2>1, <2>7 DEF ReadPageFails, End, Control, Stages
  <2>8. CASE Loaded
    BY <2>1, <2>8 DEF Loaded, Control, Stages
  <2>9. CASE ChunkDocuments
    BY <2>1, <2>9 DEF ChunkDocuments, Control, Stages
  <2>10. CASE ChunkDocumentsFails
    BY <2>1, <2>10 DEF ChunkDocumentsFails, End, Control, Stages
  <2>11. CASE Build
    BY <2>1, <2>11 DEF Build, End, Control, Stages
  <2>12. CASE BuildFails
    BY <2>1, <2>12 DEF BuildFails, End, Control, Stages
  <2>13. CASE UNCHANGED vars
    BY <2>1, <2>13 DEF vars, Control
  <2> QED
    BY <2>3, <2>4, <2>5, <2>6, <2>7, <2>8, <2>9, <2>10, <2>11, <2>12, <2>13 DEF Next
<1>5. Pages'
  <2>1. Pages
    BY DEF IInv
  <2>2. CASE ReadPage
    <3>1. Len(pages) + 1 \in 1 .. Len(pdf)
      BY <1>3, <2>2 DEF ReadPage
    <3>2. pages \in Seq(Texts) /\ pdf[Len(pages) + 1] \in Texts
      BY <1>3, <2>1, <3>1 DEF Pages
    <3>3. pages' = Append(pages, pdf[Len(pages) + 1])
      BY <2>2 DEF ReadPage
    <3>4. /\ pages' \in Seq(Texts)
          /\ Len(pages') = Len(pages) + 1
          /\ \A i \in 1 .. Len(pages) : pages'[i] = pages[i]
          /\ pages'[Len(pages) + 1] = pdf[Len(pages) + 1]
      BY <3>2, <3>3, AppendProperties
    <3>5. \A i \in 1 .. Len(pages') : pages'[i] = pdf[i]
      BY <1>3, <2>1, <3>4 DEF Pages
    <3>6. stage' = "reading"
      BY <2>2 DEF ReadPage
    <3> QED
      BY <1>1, <1>3, <3>1, <3>4, <3>5, <3>6 DEF Pages
  <2>3. CASE pages' = pages /\ ~ (stage' \in {"idle", "opening"} /\ stage \notin {"idle", "opening"})
    BY <1>1, <2>1, <2>3 DEF Pages
  <2>4. CASE pages' = << >>
    BY <1>1, <1>3, <2>4 DEF Pages
  <2>5. \/ ReadPage
        \/ pages' = pages /\ ~ (stage' \in {"idle", "opening"} /\ stage \notin {"idle", "opening"})
        \/ pages' = << >>
    BY DEF Next, vars, Begin, OpenPdf, OpenFails, ReadPage, ReadPageFails, Loaded,
           ChunkDocuments, ChunkDocumentsFails, Build, BuildFails, End
  <2> QED
    BY <2>2, <2>3, <2>4, <2>5
<1>6. Data'
  <2> DEFINE Held ==
        /\ docs \in {<< >>, C}
        /\ stage \in {"chunking", "building"} => docs = C
        /\ chunks \in {<< >>, A}
        /\ stage = "building" => chunks = A
        /\ rows \subseteq Range(A)
        /\ result = "ok" => rows = Range(A)
  <2>1. Held
    BY DEF IInv, Data, OnlyWholeDocuments
  <2>2. (Data' <=> Held') /\ (pdf = pages /\ Loaded => docs' = C)
        /\ (docs = C /\ ChunkDocuments => chunks' = A)
    <3>1. Data' <=> Held'
      BY DEF Data, OnlyWholeDocuments
    <3>2. ASSUME pdf = pages, Loaded
          PROVE  docs' = C
      BY <3>2 DEF Loaded
    <3>3. ASSUME docs = C, ChunkDocuments
          PROVE  chunks' = A
      BY <3>3 DEF ChunkDocuments, AllChunks
    <3> QED
      BY <3>1, <3>2, <3>3
  <2> HIDE DEF A, C
  <2>3. Held'
    <3>1. CASE Begin
      BY <1>2, <2>1, <3>1 DEF Begin
    <3>2. CASE OpenPdf
      BY <1>2, <2>1, <3>2 DEF OpenPdf
    <3>3. CASE OpenFails
      BY <1>2, <2>1, <3>3 DEF OpenFails, End
    <3>4. CASE ReadPage
      BY <1>2, <2>1, <3>4 DEF ReadPage
    <3>5. CASE ReadPageFails
      BY <1>2, <2>1, <3>5 DEF ReadPageFails, End
    <3>6. CASE Loaded
      <4>1. pages = pdf
        BY <1>3, <3>6, SeqEqual DEF Loaded, IInv, Pages
      <4> QED
        BY <1>2, <2>1, <2>2, <3>6, <4>1 DEF Loaded
    <3>7. CASE ChunkDocuments
      <4>1. chunks' = A
        BY <2>1, <2>2, <3>7 DEF ChunkDocuments
      <4> QED
        BY <1>2, <2>1, <3>7, <4>1 DEF ChunkDocuments
    <3>8. CASE ChunkDocumentsFails
      BY <1>2, <2>1, <3>8 DEF ChunkDocumentsFails, End
    <3>9. CASE Build
      BY <1>2, <2>1, <3>9 DEF Build, End
    <3>10. CASE BuildFails
      BY <1>2, <2>1, <3>10 DEF BuildFails, End
    <3>11. CASE UNCHANGED vars
      BY <1>2, <2>1, <3>11 DEF vars
    <3> QED
      BY <3>1, <3>2, <3>3, <3>4, <3>5, <3>6, <3>7, <3>8, <3>9, <3>10, <3>11 DEF Next
  <2> QED
    BY <2>2, <2>3
<1> QED
  BY <1>1, <1>4, <1>5, <1>6 DEF IInv

THEOREM Invariant == Spec => []IInv
<1> QED
  BY InitInvariant, NextInvariant, PTL DEF Spec

-----------------------------------------------------------------------------
(* What holds of every ingest *)

LEMMA InvariantType == IInv => TypeOK
<1> SUFFICES ASSUME IInv PROVE TypeOK
  OBVIOUS
<1> DEFINE A == AllChunks(pdf, file, splitter)
<1>1. pdf \in Seq(Texts) /\ file \in Texts
  BY CorpusAssumption DEF IInv, Texts
<1>2. A \in Seq(AllRows)
  BY AllChunksIndex DEF IInv, Indexes
<1>3. ASSUME NEW c \in Rows("pdf") \cup Rows("file")
      PROVE  IsChunk(c)
  <2>1. c.text \in Seq(Bytes) /\ c.source \in Sources
    BY DEF Rows, Texts, Sources
  <2>2. Range(c.text) \subseteq Bytes
    BY <2>1, LenProperties DEF Range
  <2> QED
    BY <2>1, <2>2 DEF IsChunk
<1>4. \A c \in Range(A) : IsChunk(c)
  BY <1>2, <1>3, LenProperties DEF Range, AllRows
<1>5. \A d \in Range(docs) : IsChunk(d)
  <2>1. docs = << >> \/ docs = Corpus(pdf, file)
    BY DEF IInv, Data
  <2>2. Normalized(pdf)
    BY <1>1, NormalizeWhitespaceNormalizes
  <2>3. /\ [source |-> "pdf", text |-> NormalizeWhitespace(JoinPages(pdf))] \in Rows("pdf")
        /\ [source |-> "file", text |-> file] \in Rows("file")
    BY <1>1, <2>2 DEF Normalized, Rows
  <2>4. \A d \in Range(Corpus(pdf, file)) : d \in Rows("pdf") \cup Rows("file")
    BY <2>3 DEF Corpus, Range
  <2> QED
    BY <1>3, <2>1, <2>4 DEF Range
<1> HIDE DEF A
<1>6. Range(chunks) \subseteq Range(A)
  <2>1. chunks = << >> \/ chunks = A
    BY DEF IInv, Data, A
  <2> QED
    BY <2>1 DEF Range
<1>7. rows \subseteq Range(A)
  BY DEF IInv, Data, OnlyWholeDocuments, A
<1> QED
  BY <1>4, <1>5, <1>6, <1>7 DEF TypeOK, IInv, Control, Pages, Stages

\* Every state of an ingest is made of what the types say: bytes in texts and
\* chunks with the source of a document, no page beyond the last, an attempt
\* at one of its stages.
THEOREM TypeCorrect == Spec => []TypeOK
<1> QED
  BY Invariant, InvariantType, PTL

(***************************************************************************)
(* An ingest that succeeds has indexed every letter of every page and of   *)
(* every text document under its source: NormalizeWhitespace, the splitter *)
(* wherever it cuts, the dropping of broken characters and the skipping of *)
(* blank parts lose none, for any corpus and any splitter.                 *)
(***************************************************************************)
THEOREM EveryLetter == Spec => []EveryLetterIsIndexed
<1> DEFINE A == AllChunks(pdf, file, splitter)
<1>1. IInv => EveryLetterIsIndexed
  <2> SUFFICES ASSUME IInv, result = "ok",
                      NEW src \in Sources, NEW q \in PagesOf(src), NEW x \in Range(q) \cap Letters
               PROVE  \E c \in rows : c.source = src /\ x \in Range(c.text)
    BY DEF EveryLetterIsIndexed
  <2>1. Indexes(pdf, file, A)
    BY AllChunksIndex DEF IInv
  <2>2. Range(A) \subseteq rows
    BY DEF IInv, Data
  <2>3. q \in PagesIn(src, pdf, file)
    BY DEF PagesOf, PagesIn
  <2> HIDE DEF A
  <2>4. \E c \in Range(A) : c.source = src /\ x \in Range(c.text)
    BY <2>1, <2>3 DEF Indexes
  <2> QED
    BY <2>2, <2>4
<1> QED
  BY <1>1, Invariant, PTL

(***************************************************************************)
(* Where the pages and the text documents are whole characters, as MuPDF   *)
(* returns them, words keep their edges: what a stored chunk shows side by *)
(* side is side by side on a page, wherever the splitter cut.  (In a text  *)
(* with a broken character of its own, ToValidUTF8 joins what it parted.)  *)
(***************************************************************************)
THEOREM WordEdges == ASSUME CorpusIsWhole PROVE Spec => []WordsKeepTheirEdges
<1> DEFINE A == AllChunks(pdf, file, splitter)
<1>1. IInv => WordsKeepTheirEdges
  <2> SUFFICES ASSUME IInv, NEW c \in rows, NEW i \in 1 .. Len(c.text) - 1,
                      {c.text[i], c.text[i + 1]} \subseteq Visible
               PROVE  \E q \in PagesOf(c.source) : SideBySide(q, c.text[i], c.text[i + 1])
    BY DEF WordsKeepTheirEdges
  <2>1. Indexes(pdf, file, A)
    BY AllChunksIndex DEF IInv
  <2>2. c \in Range(A)
    BY DEF IInv, Data, OnlyWholeDocuments
  <2> HIDE DEF A
  <2>3. \E q \in PagesIn(c.source, pdf, file) : SideBySide(q, c.text[i], c.text[i + 1])
    BY <2>1, <2>2, CorpusIsWhole DEF Indexes
  <2> QED
    BY <2>3 DEF PagesOf, PagesIn
<1> QED
  BY <1>1, Invariant, PTL

(***************************************************************************)
(* Postgres takes every chunk ChunkDocuments returns, and none is blank:   *)
(* for any corpus, valid or not, and wherever the splitter cuts.           *)
(***************************************************************************)
THEOREM Storable == Spec => []ChunksAreStorable
<1> DEFINE A == AllChunks(pdf, file, splitter)
<1>1. IInv => ChunksAreStorable
  <2> SUFFICES ASSUME IInv, NEW c \in Range(chunks)
               PROVE  ValidUTF8(c.text) /\ ~ Blank(c.text)
    BY DEF ChunksAreStorable
  <2>1. Indexes(pdf, file, A)
    BY AllChunksIndex DEF IInv
  <2>2. chunks = << >> \/ chunks = A
    BY DEF IInv, Data
  <2> HIDE DEF A
  <2>3. c \in Range(A)
    BY <2>2 DEF Range
  <2> QED
    BY <2>1, <2>3 DEF Indexes
<1> QED
  BY <1>1, Invariant, PTL

(***************************************************************************)
(* Whatever has failed before, at any page, split or insert, and however   *)
(* often: the collection holds chunks of completely read documents only.   *)
(***************************************************************************)
THEOREM WholeDocumentsOnly == Spec => []OnlyWholeDocuments
<1>1. IInv => OnlyWholeDocuments
  BY DEF IInv, Data
<1> QED
  BY <1>1, Invariant, PTL
=============================================================================
