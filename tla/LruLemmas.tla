----------------------------- MODULE LruLemmas -----------------------------
(***************************************************************************)
(* Facts about the operators of LruOps: what the list operations return,   *)
(* and that every cache operation preserves the agreement of the list, the *)
(* map and the history of uses.  They are about values, not about a        *)
(* behaviour, so LRU and Rewriter cite the same ones.                      *)
(***************************************************************************)
EXTENDS LruOps, SequenceTheorems, FiniteSetTheorems, TLAPS

(***************************************************************************)
(* The inductive relation between a cache and the history of its uses.     *)
(*   - the keys that stand before a key in the list are exactly those used *)
(*     after it;                                                           *)
(*   - a key that was used and is gone has at least MaxEntries later keys. *)
(* WellFormed alone says nothing of which key an eviction takes.           *)
(***************************************************************************)
Before(s, i) == {s[j] : j \in 1 .. i-1}

ListedByRecency(c, since) ==
    \A i \in DOMAIN c.order : since[c.order[i]] = Before(c.order, i)

GoneAreOld(c, used, since) ==
    \A k \in used : ~Has(c, k) =>
        /\ MaxEntries > 0
        /\ IsFiniteSet(since[k])
        /\ Cardinality(since[k]) >= MaxEntries

Recency(c, used, since) ==
    /\ c \in Caches
    /\ WellFormed(c)
    /\ used \subseteq Keys
    /\ since \in [Keys -> SUBSET Keys]
    /\ Cached(c) \subseteq used
    /\ ListedByRecency(c, since)
    /\ GoneAreOld(c, used, since)

-----------------------------------------------------------------------------
(* The list operations, element by element. *)

\* A key that stands once in the list has a position, and only one.
LEMMA PositionOf ==
    ASSUME NEW s \in Seq(Keys), NoDuplicates(s), NEW p \in 1 .. Len(s)
    PROVE  Position(s, s[p]) = p
<1>1. DOMAIN s = 1 .. Len(s)
  BY LenProperties
<1>2. \A i \in DOMAIN s : s[i] = s[p] => i = p
  BY <1>1 DEF NoDuplicates
<1> QED
  BY <1>1, <1>2 DEF Position

\* Moving a key to the front shifts the keys that stood before it.
LEMMA MoveToFrontElements ==
    ASSUME NEW s \in Seq(Keys), NoDuplicates(s), NEW p \in 1 .. Len(s)
    PROVE  LET t == MoveToFront(s, s[p])
           IN  /\ t \in Seq(Keys)
               /\ Len(t) = Len(s)
               /\ \A i \in 1 .. Len(s) :
                     t[i] = IF i = 1 THEN s[p]
                            ELSE IF i <= p THEN s[i-1] ELSE s[i]
<1> DEFINE before == SubSeq(s, 1, p-1)
           after == SubSeq(s, p+1, Len(s))
<1>1. /\ Len(s) \in Nat
      /\ \A i \in 1 .. Len(s) : s[i] \in Keys
  BY LenProperties, ElementOfSeq
<1>2. /\ before \in Seq(Keys)
      /\ Len(before) = p - 1
      /\ \A i \in 1 .. p-1 : before[i] = s[i]
  BY <1>1, SubSeqProperties, \A i \in 1 .. p-1 : s[i] \in Keys
<1>3. /\ after \in Seq(Keys)
      /\ Len(after) = Len(s) - p
      /\ \A i \in 1 .. Len(s) - p : after[i] = s[p+i]
  BY <1>1, SubSeqProperties, \A i \in p+1 .. Len(s) : s[i] \in Keys
<1> HIDE DEF before, after
<1> DEFINE rest == before \o after
<1>4. /\ rest \in Seq(Keys)
      /\ Len(rest) = Len(s) - 1
      /\ \A i \in 1 .. Len(s) - 1 :
            rest[i] = IF i <= p - 1 THEN before[i] ELSE after[i - (p-1)]
  BY <1>1, <1>2, <1>3, ConcatProperties
<1> DEFINE first == << s[p] >>
<1>5. /\ first \in Seq(Keys)
      /\ Len(first) = 1
      /\ first[1] = s[p]
  BY <1>1
<1>6. MoveToFront(s, s[p]) = first \o rest
  BY PositionOf DEF MoveToFront, RemoveAt, before, after
<1> HIDE DEF first, rest
<1>7. /\ first \o rest \in Seq(Keys)
      /\ Len(first \o rest) = Len(s)
      /\ \A i \in 1 .. Len(s) :
            (first \o rest)[i] = IF i <= 1 THEN first[i] ELSE rest[i-1]
  <2>1. Len(first) + Len(rest) = Len(s)
    BY <1>1, <1>4, <1>5
  <2>2. /\ first \o rest \in Seq(Keys)
        /\ Len(first \o rest) = Len(first) + Len(rest)
        /\ \A i \in 1 .. Len(first) + Len(rest) :
              (first \o rest)[i] = IF i <= Len(first) THEN first[i]
                                   ELSE rest[i - Len(first)]
    BY <1>4, <1>5, ConcatProperties
  <2> QED
    BY <2>1, <2>2, <1>5
<1>8. ASSUME NEW i \in 1 .. Len(s)
      PROVE  (first \o rest)[i] = IF i = 1 THEN s[p]
                                  ELSE IF i <= p THEN s[i-1] ELSE s[i]
  <2>1. CASE i = 1
    BY <2>1, <1>5, <1>7
  <2>2. CASE i # 1 /\ i <= p
    BY <2>2, <1>1, <1>2, <1>4, <1>7
  <2>3. CASE i > p
    BY <2>3, <1>1, <1>3, <1>4, <1>7
  <2>4. i = 1 \/ (i # 1 /\ i <= p) \/ i > p
    BY <1>1
  <2> QED
    BY ONLY <2>1, <2>2, <2>3, <2>4
<1> QED
  BY <1>6, <1>7, <1>8

\* Pushing a new key shifts every key by one.
LEMMA PushFrontElements ==
    ASSUME NEW s \in Seq(Keys), NEW k \in Keys
    PROVE  LET t == << k >> \o s
           IN  /\ t \in Seq(Keys)
               /\ Len(t) = Len(s) + 1
               /\ \A i \in 1 .. Len(s) + 1 :
                     t[i] = IF i = 1 THEN k ELSE s[i-1]
<1> DEFINE first == << k >>
<1>1. /\ first \in Seq(Keys)
      /\ Len(first) = 1
      /\ first[1] = k
  OBVIOUS
<1>2. Len(s) \in Nat
  BY LenProperties
<1> HIDE DEF first
<1>3. /\ first \o s \in Seq(Keys)
      /\ Len(first \o s) = Len(first) + Len(s)
      /\ \A i \in 1 .. Len(first) + Len(s) :
            (first \o s)[i] = IF i <= Len(first) THEN first[i]
                              ELSE s[i - Len(first)]
  BY <1>1, ConcatProperties
<1>4. /\ first \o s \in Seq(Keys)
      /\ Len(first \o s) = Len(s) + 1
      /\ \A i \in 1 .. Len(s) + 1 :
            (first \o s)[i] = IF i = 1 THEN k ELSE s[i-1]
  BY <1>1, <1>2, <1>3
<1> QED
  BY <1>4 DEF first

\* Dropping the last key leaves the others where they were.
LEMMA FrontElements ==
    ASSUME NEW s \in Seq(Keys), Len(s) > 0
    PROVE  /\ Front(s) \in Seq(Keys)
           /\ Len(Front(s)) = Len(s) - 1
           /\ \A i \in 1 .. Len(s) - 1 : Front(s)[i] = s[i]
           /\ Last(s) = s[Len(s)]
           /\ Last(s) \in Keys
<1>1. /\ Len(s) \in Nat
      /\ \A i \in 1 .. Len(s) : s[i] \in Keys
  BY LenProperties, ElementOfSeq
<1> DEFINE n == Len(s) - 1
<1>2. n \in Nat /\ \A i \in 1 .. n : s[i] \in Keys
  BY <1>1
<1>3. Front(s) = SubSeq(s, 1, n) /\ Last(s) = s[Len(s)]
  BY DEF Front, Last
<1> HIDE DEF n
<1>4. /\ SubSeq(s, 1, n) \in Seq(Keys)
      /\ Len(SubSeq(s, 1, n)) = n
      /\ \A i \in 1 .. n : SubSeq(s, 1, n)[i] = s[i]
  <2>1. /\ SubSeq(s, 1, n) \in Seq(Keys)
        /\ Len(SubSeq(s, 1, n)) = IF 1 <= n THEN n - 1 + 1 ELSE 0
        /\ \A i \in 1 .. n - 1 + 1 : SubSeq(s, 1, n)[i] = s[1 + i - 1]
    BY <1>2, SubSeqProperties
  <2> QED
    BY <1>2, <2>1
<1> QED
  BY <1>1, <1>3, <1>4 DEF n

-----------------------------------------------------------------------------
(***************************************************************************)
(* Both ways of using a key, moving it and pushing it, bring it to the     *)
(* front and put it before every other key, whose order does not change.   *)
(***************************************************************************)
BroughtToFront(t, s, k) ==
    /\ t \in Seq(Keys)
    /\ NoDuplicates(t)
    /\ Listed(t) = Listed(s) \cup {k}
    /\ \A i \in DOMAIN t : t[i] = k => Before(t, i) = {}
    /\ \A i \in DOMAIN t : t[i] # k =>
          \E j \in DOMAIN s : /\ s[j] = t[i]
                              /\ Before(t, i) = Before(s, j) \cup {k}

LEMMA MoveToFrontBrings ==
    ASSUME NEW s \in Seq(Keys), NoDuplicates(s), NEW k \in Listed(s)
    PROVE  /\ BroughtToFront(MoveToFront(s, k), s, k)
           /\ Len(MoveToFront(s, k)) = Len(s)
<1>1. /\ Len(s) \in Nat
      /\ DOMAIN s = 1 .. Len(s)
  BY LenProperties
<1>2. PICK p \in 1 .. Len(s) : s[p] = k
  BY <1>1 DEF Listed
<1> DEFINE t == MoveToFront(s, k)
<1>3. /\ t \in Seq(Keys)
      /\ Len(t) = Len(s)
      /\ \A i \in 1 .. Len(s) :
            t[i] = IF i = 1 THEN s[p] ELSE IF i <= p THEN s[i-1] ELSE s[i]
  BY <1>2, MoveToFrontElements
<1> HIDE DEF t
<1>4. DOMAIN t = 1 .. Len(s)
  BY <1>3, LenProperties
<1>5. /\ t[1] = s[p]
      /\ \A i \in 2 .. p : t[i] = s[i-1]
      /\ \A i \in p+1 .. Len(s) : t[i] = s[i]
  BY <1>1, <1>3
<1>6. \A i, j \in 1 .. Len(s) : s[i] = s[j] => i = j
  BY <1>1 DEF NoDuplicates
<1>7. NoDuplicates(t)
  <2> SUFFICES ASSUME NEW i \in 1 .. Len(s), NEW j \in 1 .. Len(s), t[i] = t[j]
               PROVE  i = j
    BY <1>4 DEF NoDuplicates
  <2> DEFINE from(m) == IF m = 1 THEN p ELSE IF m <= p THEN m-1 ELSE m
  <2>1. \A m \in 1 .. Len(s) : from(m) \in 1 .. Len(s) /\ t[m] = s[from(m)]
    BY <1>1, <1>3
  <2>2. from(i) = from(j)
    BY <1>6, <2>1
  <2> QED
    BY <1>1, <2>2
<1>8. Listed(t) = Listed(s) \cup {k}
  <2>1. \A i \in 1 .. Len(s) : \E j \in 1 .. Len(s) : t[i] = s[j]
    BY <1>1, <1>3
  <2>2. ASSUME NEW j \in 1 .. Len(s)
        PROVE  \E i \in 1 .. Len(s) : t[i] = s[j]
    <3>1. CASE j = p
      BY <1>1, <1>5, <3>1
    <3>2. CASE j < p
      <4>1. j+1 \in 2 .. p /\ j+1 \in 1 .. Len(s) /\ (j+1)-1 = j
        BY <1>1, <3>2
      <4> QED
        BY <4>1, <1>5
    <3>3. CASE j > p
      BY <1>1, <1>5, <3>3
    <3> QED
      BY <1>1, <3>1, <3>2, <3>3
  <2> QED
    <3>1. Listed(t) \subseteq Listed(s)
      BY <1>1, <1>4, <2>1 DEF Listed
    <3>2. Listed(s) \subseteq Listed(t)
      BY <1>1, <1>4, <2>2 DEF Listed
    <3> QED
      BY <3>1, <3>2
<1>9. ASSUME NEW i \in DOMAIN t, t[i] = k
      PROVE  Before(t, i) = {}
  <2>1. i = 1
    BY <1>1, <1>2, <1>4, <1>5, <1>7, <1>9 DEF NoDuplicates
  <2> QED
    BY <2>1 DEF Before
<1>10. ASSUME NEW i \in DOMAIN t, t[i] # k
       PROVE  \E j \in DOMAIN s : /\ s[j] = t[i]
                                  /\ Before(t, i) = Before(s, j) \cup {k}
  <2>1. i \in 2 .. Len(s)
    BY <1>1, <1>2, <1>4, <1>5, <1>10
  <2>2. CASE i <= p
    <3>1. i-1 \in DOMAIN s /\ s[i-1] = t[i]
      BY <1>1, <1>5, <2>1, <2>2
    <3>2. Before(t, i) \subseteq Before(s, i-1) \cup {k}
      <4> SUFFICES ASSUME NEW j \in 1 .. i-1
                   PROVE  t[j] = k \/ \E m \in 1 .. (i-1)-1 : t[j] = s[m]
        BY DEF Before
      <4>1. CASE j = 1
        BY <1>2, <1>5, <4>1
      <4>2. CASE j # 1
        <5>1. j \in 2 .. p /\ j-1 \in 1 .. (i-1)-1
          BY <1>1, <2>1, <2>2, <4>2
        <5> QED
          BY <1>5, <5>1
      <4> QED
        BY <4>1, <4>2
    <3>3. Before(s, i-1) \cup {k} \subseteq Before(t, i)
      <4>1. k \in Before(t, i)
        BY <1>2, <1>5, <2>1, 1 \in 1 .. i-1 DEF Before
      <4>2. ASSUME NEW m \in 1 .. (i-1)-1
            PROVE  \E j \in 1 .. i-1 : t[j] = s[m]
        <5>1. m+1 \in 2 .. p /\ m+1 \in 1 .. i-1 /\ (m+1)-1 = m
          BY <1>1, <2>1, <2>2
        <5> QED
          BY <1>5, <5>1
      <4> QED
        BY <4>1, <4>2 DEF Before
    <3> QED
      BY <3>1, <3>2, <3>3
  <2>3. CASE i > p
    <3>1. i \in DOMAIN s /\ s[i] = t[i]
      BY <1>1, <1>5, <2>1, <2>3
    <3>2. Before(t, i) \subseteq Before(s, i) \cup {k}
      <4> SUFFICES ASSUME NEW j \in 1 .. i-1
                   PROVE  \E m \in 1 .. i-1 : t[j] = s[m]
        BY DEF Before
      <4>1. CASE j = 1
        BY <1>1, <1>5, <2>1, <2>3, <4>1
      <4>2. CASE j \in 2 .. p
        <5>1. j-1 \in 1 .. i-1
          BY <1>1, <2>1, <2>3, <4>2
        <5> QED
          BY <1>5, <4>2, <5>1
      <4>3. CASE j \in p+1 .. Len(s)
        BY <1>5, <4>3
      <4> QED
        BY <1>1, <2>1, <4>1, <4>2, <4>3
    <3>3. Before(s, i) \cup {k} \subseteq Before(t, i)
      <4>1. k \in Before(t, i)
        BY <1>2, <1>5, <2>1, 1 \in 1 .. i-1 DEF Before
      <4>2. ASSUME NEW m \in 1 .. i-1
            PROVE  \E j \in 1 .. i-1 : t[j] = s[m]
        <5>1. CASE m = p
          BY <1>5, <2>1, <5>1, 1 \in 1 .. i-1
        <5>2. CASE m < p
          <6>1. m+1 \in 2 .. p /\ m+1 \in 1 .. i-1 /\ (m+1)-1 = m
            BY <1>1, <2>1, <2>3, <5>2
          <6> QED
            BY <1>5, <6>1
        <5>3. CASE m > p
          <6>1. m \in p+1 .. Len(s)
            BY <1>1, <2>1, <5>3
          <6> QED
            BY <1>5, <6>1
        <5> QED
          BY <1>1, <2>1, <5>1, <5>2, <5>3
      <4> QED
        BY <4>1, <4>2 DEF Before
    <3> QED
      BY <3>1, <3>2, <3>3
  <2> QED
    BY <1>1, <2>1, <2>2, <2>3
<1> QED
  BY <1>3, <1>7, <1>8, <1>9, <1>10 DEF BroughtToFront, t

LEMMA PushFrontBrings ==
    ASSUME NEW s \in Seq(Keys), NoDuplicates(s), NEW k \in Keys \ Listed(s)
    PROVE  /\ BroughtToFront(<< k >> \o s, s, k)
           /\ Len(<< k >> \o s) = Len(s) + 1
<1>1. /\ Len(s) \in Nat
      /\ DOMAIN s = 1 .. Len(s)
  BY LenProperties
<1> DEFINE t == << k >> \o s
<1>2. /\ t \in Seq(Keys)
      /\ Len(t) = Len(s) + 1
      /\ \A i \in 1 .. Len(s) + 1 : t[i] = IF i = 1 THEN k ELSE s[i-1]
  BY PushFrontElements
<1> HIDE DEF t
<1>3. DOMAIN t = 1 .. Len(s) + 1
  BY <1>2, LenProperties
<1>4. /\ t[1] = k
      /\ \A i \in 2 .. Len(s) + 1 : i-1 \in DOMAIN s /\ t[i] = s[i-1]
      /\ \A i \in 1 .. Len(s) : i+1 \in 2 .. Len(s) + 1 /\ t[i+1] = s[i]
  BY <1>1, <1>2
<1>5. \A i \in 2 .. Len(s) + 1 : t[i] # k
  BY <1>4 DEF Listed
<1>6. NoDuplicates(t)
  <2> SUFFICES ASSUME NEW i \in DOMAIN t, NEW j \in DOMAIN t, t[i] = t[j]
               PROVE  i = j
    BY DEF NoDuplicates
  <2>1. CASE i = 1 \/ j = 1
    BY <1>1, <1>3, <1>4, <1>5, <2>1
  <2>2. CASE i # 1 /\ j # 1
    <3>1. i \in 2 .. Len(s) + 1 /\ j \in 2 .. Len(s) + 1
      BY <1>1, <1>3, <2>2
    <3>2. i-1 = j-1
      BY <1>4, <3>1 DEF NoDuplicates
    <3> QED
      BY <1>1, <3>1, <3>2
  <2> QED
    BY <2>1, <2>2
<1>7. Listed(t) = Listed(s) \cup {k}
  <2>1. \A i \in DOMAIN t : t[i] = k \/ \E j \in DOMAIN s : t[i] = s[j]
    BY <1>1, <1>2, <1>3
  <2>2. \A j \in DOMAIN s : j+1 \in DOMAIN t /\ t[j+1] = s[j]
    BY <1>1, <1>3, <1>4
  <2>3. 1 \in DOMAIN t
    BY <1>1, <1>3
  <2> QED
    BY <1>4, <2>1, <2>2, <2>3 DEF Listed
<1>8. ASSUME NEW i \in DOMAIN t, t[i] = k
      PROVE  Before(t, i) = {}
  <2>1. i = 1
    BY <1>1, <1>3, <1>5, <1>8
  <2> QED
    BY <2>1 DEF Before
<1>9. ASSUME NEW i \in DOMAIN t, t[i] # k
      PROVE  \E j \in DOMAIN s : /\ s[j] = t[i]
                                 /\ Before(t, i) = Before(s, j) \cup {k}
  <2>1. i \in 2 .. Len(s) + 1
    BY <1>1, <1>3, <1>4, <1>9
  <2>2. i-1 \in DOMAIN s /\ s[i-1] = t[i]
    BY <1>4, <2>1
  <2>3. Before(t, i) \subseteq Before(s, i-1) \cup {k}
    <3> SUFFICES ASSUME NEW j \in 1 .. i-1
                 PROVE  t[j] = k \/ \E m \in 1 .. (i-1)-1 : t[j] = s[m]
      BY DEF Before
    <3>1. CASE j = 1
      BY <1>4, <3>1
    <3>2. CASE j # 1
      <4>1. j \in 2 .. Len(s) + 1 /\ j-1 \in 1 .. (i-1)-1
        BY <1>1, <2>1, <3>2
      <4> QED
        BY <1>4, <4>1
    <3> QED
      BY <3>1, <3>2
  <2>4. Before(s, i-1) \cup {k} \subseteq Before(t, i)
    <3>1. k \in Before(t, i)
      BY <1>4, <2>1, 1 \in 1 .. i-1 DEF Before
    <3>2. ASSUME NEW m \in 1 .. (i-1)-1
          PROVE  \E j \in 1 .. i-1 : t[j] = s[m]
      <4>1. m \in 1 .. Len(s) /\ m+1 \in 1 .. i-1
        BY <1>1, <2>1
      <4> QED
        BY <1>4, <4>1
    <3> QED
      BY <3>1, <3>2 DEF Before
  <2> QED
    BY <2>2, <2>3, <2>4
<1> QED
  BY <1>2, <1>6, <1>7, <1>8, <1>9 DEF BroughtToFront, t

-----------------------------------------------------------------------------
(* The cache operations. *)

\* The i-th key of the list has i-1 keys before it.
LEMMA BeforeCardinality ==
    ASSUME NEW s \in Seq(Keys), NoDuplicates(s),
           NEW i \in 1 .. Len(s) + 1
    PROVE  /\ IsFiniteSet(Before(s, i))
           /\ Cardinality(Before(s, i)) = i - 1
<1>1. /\ DOMAIN s = 1 .. Len(s)
      /\ Len(s) \in Nat
  BY LenProperties
<1> DEFINE f == [j \in 1 .. i-1 |-> s[j]]
<1>2. \A j \in 1 .. i-1 : j \in DOMAIN s
  BY <1>1
<1>3. f \in Bijection(1 .. i-1, Before(s, i))
  <2>1. f \in [1 .. i-1 -> Before(s, i)]
    BY DEF Before
  <2>2. \A a, b \in 1 .. i-1 : f[a] = f[b] => a = b
    BY <1>2 DEF NoDuplicates
  <2>3. \A b \in Before(s, i) : \E a \in 1 .. i-1 : f[a] = b
    BY DEF Before
  <2> QED
    BY <2>1, <2>2, <2>3 DEF Bijection, Injection, IsInjective, Surjection
<1>4. ExistsBijection(1 .. i-1, Before(s, i))
  BY <1>3 DEF ExistsBijection
<1>5. i-1 \in Nat
  BY <1>1
<1>6. IsFiniteSet(1 .. i-1)
  BY <1>5, FS_Interval
<1> QED
  BY <1>4, <1>5, <1>6, FS_Bijection, FS_CountingElements

\* Recency without the bound, which a push may pass before it evicts.
RecencyBeforeEviction(c, used, since) ==
    /\ c \in Caches
    /\ NoDuplicates(c.order)
    /\ Listed(c.order) = Cached(c)
    /\ used \subseteq Keys
    /\ since \in [Keys -> SUBSET Keys]
    /\ Cached(c) \subseteq used
    /\ ListedByRecency(c, since)
    /\ GoneAreOld(c, used, since)

\* Bringing a key to the front and storing a value for it is a use of it.
LEMMA UseKeepsRecency ==
    ASSUME NEW c, NEW used, NEW since, RecencyBeforeEviction(c, used, since),
           NEW k \in Keys, NEW v \in Values, NEW t,
           BroughtToFront(t, c.order, k)
    PROVE  RecencyBeforeEviction(
             [order |-> t, items |-> [c.items EXCEPT ![k] = v]],
             used \cup {k}, SinceAfterUse(used, since, k))
<1> DEFINE n == [order |-> t, items |-> [c.items EXCEPT ![k] = v]]
           u == used \cup {k}
           f == SinceAfterUse(used, since, k)
<1>1. /\ n \in Caches
      /\ n.order = t
      /\ n.items[k] = v
      /\ \A j \in Keys : j # k => n.items[j] = c.items[j]
  BY DEF RecencyBeforeEviction, Caches, BroughtToFront
<1>2. /\ \A j \in Keys : j # k => (Has(n, j) <=> Has(c, j))
      /\ Has(n, k)
  BY <1>1, NoValueAssumption DEF Has
<1>3. Cached(n) = Cached(c) \cup {k}
  BY <1>2 DEF Cached
<1>4. /\ f \in [Keys -> SUBSET Keys]
      /\ f[k] = {}
      /\ \A j \in used : j # k => f[j] = since[j] \cup {k}
  BY DEF RecencyBeforeEviction, SinceAfterUse
<1> HIDE DEF n, f
<1>5. ListedByRecency(n, f)
  <2> SUFFICES ASSUME NEW i \in DOMAIN t
               PROVE  f[t[i]] = Before(t, i)
    BY <1>1 DEF ListedByRecency
  <2>1. CASE t[i] = k
    BY <1>4, <2>1 DEF BroughtToFront
  <2>2. CASE t[i] # k
    <3>1. PICK j \in DOMAIN c.order : /\ c.order[j] = t[i]
                                      /\ Before(t, i) = Before(c.order, j) \cup {k}
      BY <2>2 DEF BroughtToFront
    <3>2. since[t[i]] = Before(c.order, j)
      BY <3>1 DEF RecencyBeforeEviction, ListedByRecency
    <3>3. t[i] \in used
      BY <3>1 DEF RecencyBeforeEviction, Listed
    <3> QED
      BY <1>4, <2>2, <3>1, <3>2, <3>3
  <2> QED
    BY <2>1, <2>2
<1>6. GoneAreOld(n, u, f)
  <2> SUFFICES ASSUME NEW j \in used, j # k, ~Has(n, j)
               PROVE  /\ MaxEntries > 0
                      /\ IsFiniteSet(f[j])
                      /\ Cardinality(f[j]) >= MaxEntries
    BY <1>2 DEF GoneAreOld
  <2>1. j \in Keys
    BY DEF RecencyBeforeEviction
  <2>2. /\ MaxEntries > 0
        /\ IsFiniteSet(since[j])
        /\ Cardinality(since[j]) >= MaxEntries
    BY <1>2, <2>1 DEF RecencyBeforeEviction, GoneAreOld
  <2>3. f[j] = since[j] \cup {k}
    BY <1>4
  <2>4. Cardinality(since[j]) \in Nat
    BY <2>2, FS_CardinalityType
  <2>5. /\ IsFiniteSet(since[j] \cup {k})
        /\ Cardinality(since[j] \cup {k}) >= Cardinality(since[j])
    <3> DEFINE S == since[j]
    <3>1. IsFiniteSet(S)
      BY <2>2
    <3> HIDE DEF S
    <3>2. /\ IsFiniteSet(S \cup {k})
          /\ \/ Cardinality(S \cup {k}) = Cardinality(S)
             \/ Cardinality(S \cup {k}) = Cardinality(S) + 1
      BY <3>1, FS_AddElement
    <3> QED
      BY <2>4, <3>2 DEF S
  <2>6. Cardinality(since[j] \cup {k}) \in Nat
    BY <2>5, FS_CardinalityType
  <2> QED
    BY <2>2, <2>3, <2>4, <2>5, <2>6, MaxAssumption
<1>7. /\ u \subseteq Keys
      /\ Cached(n) \subseteq u
      /\ NoDuplicates(n.order)
      /\ Listed(n.order) = Cached(n)
  BY <1>1, <1>3 DEF RecencyBeforeEviction, BroughtToFront
<1>8. RecencyBeforeEviction(n, u, f)
  BY <1>1, <1>4, <1>5, <1>6, <1>7 DEF RecencyBeforeEviction
<1> QED
  BY <1>8 DEF n, f

\* The key an eviction gives up is the one with the most keys used after it.
LEMMA EvictionKeepsRecency ==
    ASSUME NEW c, NEW used, NEW since, RecencyBeforeEviction(c, used, since),
           MaxEntries > 0, Len(c.order) = MaxEntries + 1
    PROVE  Recency(EvictOldest(c), used, since)
<1> DEFINE s == c.order
           n == EvictOldest(c)
           gone == Last(s)
<1>1. s \in Seq(Keys) /\ c.items \in [Keys -> Values \cup {NoValue}]
  BY DEF RecencyBeforeEviction, Caches
<1>2. /\ Len(s) \in Nat
      /\ DOMAIN s = 1 .. Len(s)
      /\ Len(s) - 1 = MaxEntries
      /\ Len(s) \in 1 .. Len(s)
  BY <1>1, LenProperties, MaxAssumption
<1>3. /\ Front(s) \in Seq(Keys)
      /\ Len(Front(s)) = Len(s) - 1
      /\ \A i \in 1 .. Len(s) - 1 : Front(s)[i] = s[i]
      /\ gone = s[Len(s)]
      /\ gone \in Keys
  <2>1. Len(s) > 0
    BY <1>2
  <2> HIDE DEF s
  <2> QED
    BY <1>1, <2>1, FrontElements
<1>4. DOMAIN Front(s) = 1 .. Len(s) - 1
  BY <1>3, LenProperties
<1>5. /\ n \in Caches
      /\ n.order = Front(s)
      /\ n.items[gone] = NoValue
      /\ \A j \in Keys : j # gone => n.items[j] = c.items[j]
  BY <1>1, <1>3 DEF EvictOldest, Caches
<1>6. /\ ~Has(n, gone)
      /\ \A j \in Keys : j # gone => (Has(n, j) <=> Has(c, j))
  BY <1>5 DEF Has
<1>7. Cached(n) = Cached(c) \ {gone}
  BY <1>6 DEF Cached
<1> HIDE DEF n, gone
<1>8. NoDuplicates(Front(s))
  <2>1. \A i \in 1 .. Len(s) - 1 : i \in DOMAIN s
    BY <1>2
  <2> QED
    BY <1>3, <1>4, <2>1 DEF NoDuplicates, RecencyBeforeEviction
<1>9. Listed(Front(s)) = Listed(s) \ {gone}
  <2>1. \A i \in 1 .. Len(s) - 1 : i \in DOMAIN s /\ i # Len(s)
    BY <1>2
  <2>2. \A i \in DOMAIN s : i = Len(s) \/ i \in 1 .. Len(s) - 1
    BY <1>2
  <2>3. \A i \in 1 .. Len(s) - 1 : s[i] # gone
    BY <1>2, <1>3, <2>1 DEF NoDuplicates, RecencyBeforeEviction
  <2> QED
    BY <1>3, <1>4, <2>1, <2>2, <2>3 DEF Listed
<1>10. WellFormed(n)
  <2>1. Listed(n.order) = Cached(n)
    BY <1>5, <1>7, <1>9 DEF RecencyBeforeEviction
  <2>2. Len(n.order) <= MaxEntries
    BY <1>2, <1>3, <1>5
  <2> QED
    BY <1>5, <1>8, <2>1, <2>2 DEF WellFormed
<1>11. ListedByRecency(n, since)
  <2> SUFFICES ASSUME NEW i \in 1 .. Len(s) - 1
               PROVE  since[Front(s)[i]] = Before(Front(s), i)
    BY <1>4, <1>5 DEF ListedByRecency
  <2>1. since[s[i]] = Before(s, i)
    BY <1>2 DEF RecencyBeforeEviction, ListedByRecency
  <2>2. \A j \in 1 .. i-1 : Front(s)[j] = s[j]
    BY <1>2, <1>3
  <2>3. Before(Front(s), i) = Before(s, i)
    BY <2>2 DEF Before
  <2> QED
    BY <1>3, <2>1, <2>3
<1>12. GoneAreOld(n, used, since)
  <2> SUFFICES ASSUME NEW j \in used, ~Has(n, j)
               PROVE  /\ IsFiniteSet(since[j])
                      /\ Cardinality(since[j]) >= MaxEntries
    BY DEF GoneAreOld
  <2>1. CASE j = gone
    <3>1. since[gone] = Before(s, Len(s))
      BY <1>2, <1>3 DEF RecencyBeforeEviction, ListedByRecency
    <3>2. /\ IsFiniteSet(Before(s, Len(s)))
          /\ Cardinality(Before(s, Len(s))) = Len(s) - 1
      BY <1>1, <1>2, BeforeCardinality DEF RecencyBeforeEviction
    <3> QED
      BY <1>2, <2>1, <3>1, <3>2
  <2>2. CASE j # gone
    BY <1>6, <2>2 DEF RecencyBeforeEviction, GoneAreOld
  <2> QED
    BY <2>1, <2>2
<1>13. Cached(n) \subseteq used
  BY <1>7 DEF RecencyBeforeEviction
<1>14. Recency(n, used, since)
  BY <1>5, <1>10, <1>11, <1>12, <1>13 DEF Recency, RecencyBeforeEviction
<1> QED
  BY <1>14 DEF n

\* A cache that has just been made holds nothing and nothing was used.
LEMMA NewLRURecency == Recency(NewLRU, {}, NeverUsed)
<1>1. /\ NewLRU \in Caches
      /\ NewLRU.order = << >>
      /\ \A k \in Keys : NewLRU.items[k] = NoValue
  BY DEF NewLRU, Caches
<1>2. /\ Cached(NewLRU) = {}
      /\ Listed(NewLRU.order) = {}
      /\ NoDuplicates(NewLRU.order)
      /\ Len(NewLRU.order) = 0
  BY <1>1 DEF Cached, Has, Listed, NoDuplicates
<1>3. WellFormed(NewLRU)
  BY <1>2, MaxAssumption DEF WellFormed
<1>4. NeverUsed \in [Keys -> SUBSET Keys]
  BY DEF NeverUsed
<1>5. ListedByRecency(NewLRU, NeverUsed)
  BY <1>1 DEF ListedByRecency
<1> QED
  BY <1>1, <1>2, <1>3, <1>4, <1>5 DEF Recency, GoneAreOld

LEMMA RecencyWeakens ==
    ASSUME NEW c, NEW used, NEW since, Recency(c, used, since)
    PROVE  RecencyBeforeEviction(c, used, since)
BY DEF Recency, RecencyBeforeEviction, WellFormed

LEMMA WithinBoundIsRecency ==
    ASSUME NEW c, NEW used, NEW since, RecencyBeforeEviction(c, used, since),
           MaxEntries > 0 => Len(c.order) <= MaxEntries
    PROVE  Recency(c, used, since)
BY DEF Recency, RecencyBeforeEviction, WellFormed

\* Storing a value for a cached key refreshes it and changes no other key.
LEMMA RefreshKeepsRecency ==
    ASSUME NEW c, NEW used, NEW since, Recency(c, used, since),
           NEW k \in Keys, Has(c, k), NEW v \in Values
    PROVE  Recency(Overwrite(c, k, v),
                   used \cup {k}, SinceAfterUse(used, since, k))
<1> DEFINE t == MoveToFront(c.order, k)
           n == [order |-> t, items |-> [c.items EXCEPT ![k] = v]]
           u == used \cup {k}
           f == SinceAfterUse(used, since, k)
<1>1. /\ c.order \in Seq(Keys)
      /\ NoDuplicates(c.order)
      /\ k \in Listed(c.order)
      /\ MaxEntries > 0 => Len(c.order) <= MaxEntries
  BY DEF Recency, Caches, WellFormed, Cached
<1>2. /\ BroughtToFront(t, c.order, k)
      /\ Len(t) = Len(c.order)
  BY <1>1, MoveToFrontBrings
<1> HIDE DEF t
<1>3. RecencyBeforeEviction(n, u, f)
  BY <1>2, RecencyWeakens, UseKeepsRecency
<1>4. MaxEntries > 0 => Len(n.order) <= MaxEntries
  BY <1>1, <1>2
<1> HIDE DEF n, u, f
<1>5. Recency(n, u, f)
  BY <1>3, <1>4, WithinBoundIsRecency
<1> QED
  BY <1>5 DEF Overwrite, n, t, u, f

LEMMA GetHitKeepsRecency ==
    ASSUME NEW c, NEW used, NEW since, Recency(c, used, since),
           NEW k \in Keys, Has(c, k)
    PROVE  Recency(AfterGet(c, k),
                   used \cup {k}, SinceAfterUse(used, since, k))
<1>1. c \in Caches
  BY DEF Recency
<1>2. c.items[k] \in Values
  BY <1>1 DEF Caches, Has
<1>3. [c.items EXCEPT ![k] = c.items[k]] = c.items
  BY <1>1 DEF Caches
<1>4. AfterGet(c, k) = Overwrite(c, k, c.items[k])
  BY <1>1, <1>3 DEF AfterGet, Overwrite, Caches
<1> QED
  BY <1>2, <1>4, RefreshKeepsRecency

LEMMA PutKeepsRecency ==
    ASSUME NEW c, NEW used, NEW since, Recency(c, used, since),
           NEW k \in Keys, NEW v \in Values
    PROVE  Recency(AfterPut(c, k, v),
                   used \cup {k}, SinceAfterUse(used, since, k))
<1> DEFINE u == used \cup {k}
           f == SinceAfterUse(used, since, k)
           n == PushFront(c, k, v)
<1>1. CASE Has(c, k)
  BY <1>1, RefreshKeepsRecency DEF AfterPut
<1>2. CASE ~Has(c, k)
  <2>1. /\ c.order \in Seq(Keys)
        /\ NoDuplicates(c.order)
        /\ k \notin Listed(c.order)
        /\ MaxEntries > 0 => Len(c.order) <= MaxEntries
    BY <1>2 DEF Recency, Caches, WellFormed, Cached
  <2>2. /\ BroughtToFront(<< k >> \o c.order, c.order, k)
        /\ Len(<< k >> \o c.order) = Len(c.order) + 1
    BY <2>1, PushFrontBrings
  <2>3. Len(c.order) \in Nat
    BY <2>1, LenProperties
  <2>4. RecencyBeforeEviction(n, u, f)
    BY <2>2, RecencyWeakens, UseKeepsRecency DEF PushFront
  <2>5. n.order = << k >> \o c.order
    BY DEF PushFront
  <2> HIDE DEF n, u, f
  <2>6. CASE OverBound(n)
    <3>1. MaxEntries > 0 /\ Len(n.order) = MaxEntries + 1
      BY <2>1, <2>2, <2>3, <2>5, <2>6, MaxAssumption DEF OverBound
    <3>2. Recency(EvictOldest(n), u, f)
      BY <2>4, <3>1, EvictionKeepsRecency
    <3> QED
      BY <1>2, <2>6, <3>2 DEF AfterPut, n, u, f
  <2>7. CASE ~OverBound(n)
    <3>1. MaxEntries > 0 => Len(n.order) <= MaxEntries
      BY <2>2, <2>3, <2>5, <2>7, MaxAssumption DEF OverBound
    <3>2. Recency(n, u, f)
      BY <2>4, <3>1, WithinBoundIsRecency
    <3> QED
      BY <1>2, <2>7, <3>2 DEF AfterPut, n, u, f
  <2> QED
    BY <2>6, <2>7
<1> QED
  BY <1>1, <1>2

\* The relation settles which keys are cached: the recently used ones.
LEMMA RecencyDecides ==
    ASSUME NEW c, NEW used, NEW since, Recency(c, used, since),
           NEW k \in Keys
    PROVE  Has(c, k) <=> RecentlyUsed(used, since, k)
<1>1. /\ c.order \in Seq(Keys)
      /\ WellFormed(c)
      /\ DOMAIN c.order = 1 .. Len(c.order)
      /\ Len(c.order) \in Nat
  BY LenProperties DEF Recency, Caches
<1>2. ASSUME Has(c, k)
      PROVE  RecentlyUsed(used, since, k)
  <2>1. k \in Cached(c)
    BY <1>2 DEF Cached
  <2>2. PICK i \in 1 .. Len(c.order) : c.order[i] = k
    BY <1>1, <2>1 DEF WellFormed, Listed
  <2>3. since[k] = Before(c.order, i)
    BY <1>1, <2>2 DEF Recency, ListedByRecency
  <2>4. Cardinality(Before(c.order, i)) = i - 1
    BY <1>1, BeforeCardinality DEF WellFormed
  <2>5. MaxEntries > 0 => Cardinality(since[k]) < MaxEntries
    BY <1>1, <2>3, <2>4, MaxAssumption DEF WellFormed
  <2> QED
    BY <2>1, <2>5 DEF RecentlyUsed, Recency
<1>3. ASSUME RecentlyUsed(used, since, k), ~Has(c, k)
      PROVE  FALSE
  <2>1. /\ MaxEntries > 0
        /\ IsFiniteSet(since[k])
        /\ Cardinality(since[k]) >= MaxEntries
    BY <1>3 DEF RecentlyUsed, Recency, GoneAreOld
  <2>2. Cardinality(since[k]) \in Nat
    BY <2>1, FS_CardinalityType
  <2> QED
    BY <1>3, <2>1, <2>2, MaxAssumption DEF RecentlyUsed
<1> QED
  BY <1>2, <1>3
=============================================================================
