----------------------------- MODULE LRU_proofs -----------------------------
(***************************************************************************)
(* Theorems about the rewrite cache of rag/rewrite/cache.go, for every set *)
(* of keys and values and every bound, 0 and negative ones included.       *)
(***************************************************************************)
EXTENDS LRU, LruLemmas

IInv == TypeOK /\ Recency(cache, used, since)

LEMMA InitIInv == Init => IInv
<1> SUFFICES ASSUME Init PROVE IInv
  OBVIOUS
<1>1. Recency(cache, used, since)
  BY NewLRURecency DEF Init
<1>2. reply \in Replies
  BY DEF Init, Replies
<1> QED
  BY <1>1, <1>2 DEF IInv, TypeOK, Recency

LEMMA NextIInv == IInv /\ [Next]_vars => IInv'
<1> SUFFICES ASSUME IInv, [Next]_vars
             PROVE  IInv'
  OBVIOUS
<1>1. ASSUME NEW k \in Keys, Get(k)
      PROVE  IInv'
  <2>1. GetValue(cache, k) \in Values \cup {NoValue}
    BY DEF IInv, TypeOK, Caches, GetValue
  <2>2. reply' \in Replies
    BY <1>1, <2>1 DEF Get, Replies
  <2>3. Recency(cache, used, since)'
    <3>1. CASE Has(cache, k)
      BY <1>1, <3>1, GetHitKeepsRecency DEF IInv, Get, Use
    <3>2. CASE ~Has(cache, k)
      BY <1>1, <3>2 DEF IInv, Get, AfterGet
    <3> QED
      BY <3>1, <3>2
  <2> QED
    BY <2>2, <2>3 DEF IInv, TypeOK, Recency
<1>2. ASSUME NEW k \in Keys, NEW v \in Values, Put(k, v)
      PROVE  IInv'
  <2>1. reply' \in Replies
    BY <1>2 DEF Put, Replies
  <2>2. Recency(cache, used, since)'
    BY <1>2, PutKeepsRecency DEF IInv, Put, Use
  <2> QED
    BY <2>1, <2>2 DEF IInv, TypeOK, Recency
<1>3. CASE UNCHANGED vars
  BY <1>3 DEF IInv, TypeOK, vars
<1> QED
  BY <1>1, <1>2, <1>3 DEF Next

LEMMA Inductive == Spec => []IInv
BY InitIInv, NextIInv, PTL DEF Spec

\* Every reachable state has the types the declarations in the code give it.
THEOREM TypeCorrect == Spec => []TypeOK
<1>1. IInv => TypeOK
  BY DEF IInv
<1> QED
  BY <1>1, Inductive, PTL

\* The list and the map agree after every call and the bound is never passed.
THEOREM ListAndMapAgree == Spec => []Consistent
<1>1. IInv => Consistent
  BY DEF IInv, Recency, Consistent
<1> QED
  BY <1>1, Inductive, PTL

\* Eviction by Back of the list is eviction of the least recently used key.
THEOREM EvictsLeastRecentlyUsed == Spec => []ExactlyMostRecent
<1>1. IInv => ExactlyMostRecent
  BY RecencyDecides DEF IInv, ExactlyMostRecent
<1> QED
  BY <1>1, Inductive, PTL

-----------------------------------------------------------------------------
\* The map holds as many keys as the list is long.
LEMMA StoredCardinality ==
    ASSUME NEW c \in Caches, WellFormed(c)
    PROVE  Cardinality(Cached(c)) = Len(c.order)
<1>1. /\ c.order \in Seq(Keys)
      /\ DOMAIN c.order = 1 .. Len(c.order)
      /\ Len(c.order) \in Nat
  BY LenProperties DEF Caches
<1> DEFINE i == Len(c.order) + 1
<1>2. i \in 1 .. Len(c.order) + 1 /\ i - 1 = Len(c.order)
  BY <1>1
<1> HIDE DEF i
<1>3. Cardinality(Before(c.order, i)) = i - 1
  BY <1>1, <1>2, BeforeCardinality DEF WellFormed
<1>4. Before(c.order, i) = Listed(c.order)
  BY <1>1, <1>2 DEF Before, Listed
<1> QED
  BY <1>2, <1>3, <1>4 DEF WellFormed

\* Both modules count with the operator of FiniteSets.
LEMMA AbstractCardinality ==
    ASSUME NEW S
    PROVE  Abstract!Cardinality(S) = Cardinality(S)
BY DEF Abstract!Cardinality, Cardinality

\* A Put of a new key into a cache with room gives up nothing; into a full
\* cache it gives up one key that was there.
LEMMA PutRefines ==
    ASSUME IInv, NEW k \in Keys, NEW v \in Values, Put(k, v)
    PROVE  Abstract!PutKeepingAll(k, v) \/ Abstract!PutForgettingOne(k, v)
<1> DEFINE pushed == PushFront(cache, k, v)
           s == << k >> \o cache.order
<1>1. /\ cache \in Caches
      /\ WellFormed(cache)
      /\ cache.order \in Seq(Keys)
      /\ Len(cache.order) \in Nat
  BY LenProperties DEF IInv, Recency, Caches
<1>2. Abstract!Stored = Cached(cache)
  BY DEF Abstract!Stored, Cached, Has
<1>3. Abstract!Cardinality(Abstract!Stored) = Len(cache.order)
  BY <1>1, <1>2, StoredCardinality, AbstractCardinality
<1>4. /\ cache' = AfterPut(cache, k, v)
      /\ reply' = [op |-> "Put", key |-> k, value |-> v]
  BY DEF Put
<1>5. /\ pushed.order = s
      /\ pushed.items = [cache.items EXCEPT ![k] = v]
  BY DEF PushFront
<1>6. CASE Has(cache, k)
  <2>1. cache'.items = [cache.items EXCEPT ![k] = v]
    BY <1>4, <1>6 DEF AfterPut, Overwrite
  <2>2. k \in Abstract!Stored
    BY <1>2, <1>6 DEF Cached
  <2> QED
    BY <1>4, <2>1, <2>2 DEF Abstract!PutKeepingAll
<1>7. CASE ~Has(cache, k)
  <2>1. k \notin Abstract!Stored
    BY <1>2, <1>7 DEF Cached
  <2>2. /\ s \in Seq(Keys)
        /\ Len(s) = Len(cache.order) + 1
        /\ \A i \in 1 .. Len(cache.order) + 1 :
              s[i] = IF i = 1 THEN k ELSE cache.order[i-1]
    BY <1>1, PushFrontElements
  <2> HIDE DEF pushed, s
  <2>3. CASE OverBound(pushed)
    <3>1. /\ MaxEntries > 0
          /\ Len(cache.order) = MaxEntries
      BY <1>1, <1>5, <2>2, <2>3, MaxAssumption DEF OverBound, WellFormed
    <3>2. Last(s) = cache.order[Len(cache.order)]
      <4>1. Len(s) > 0 /\ Len(s) # 1 /\ Len(s) - 1 = Len(cache.order)
            /\ Len(s) \in 1 .. Len(cache.order) + 1
        BY <1>1, <2>2, <3>1, MaxAssumption
      <4>2. Last(s) = s[Len(s)]
        BY <2>2, <4>1, FrontElements
      <4> QED
        BY <2>2, <4>1, <4>2
    <3>3. Last(s) \in Abstract!Stored
      BY <1>1, <1>2, <3>1, <3>2, LenProperties DEF WellFormed, Listed
    <3>4. cache'.items = [cache.items EXCEPT ![k] = v, ![Last(s)] = NoValue]
      BY <1>4, <1>5, <1>7, <2>3 DEF AfterPut, EvictOldest, pushed
    <3> QED
      BY <1>1, <1>3, <1>4, <2>1, <3>1, <3>3, <3>4, MaxAssumption
         DEF Abstract!PutForgettingOne
  <2>4. CASE ~OverBound(pushed)
    <3>1. MaxEntries <= 0 \/ Len(cache.order) < MaxEntries
      BY <1>1, <1>5, <2>2, <2>4, MaxAssumption DEF OverBound
    <3>2. cache'.items = [cache.items EXCEPT ![k] = v]
      BY <1>4, <1>5, <1>7, <2>4 DEF AfterPut, pushed
    <3> QED
      BY <1>1, <1>3, <1>4, <3>1, <3>2, MaxAssumption
         DEF Abstract!PutKeepingAll
  <2> QED
    BY <2>3, <2>4
<1> QED
  BY <1>6, <1>7

\* The LRU cache keeps the promise of a bounded cache: a Get answers what was
\* last put, and a key is given up only when a new one would pass the bound.
THEOREM RefinesBoundedCache == Spec => ImplementsBoundedCache
<1>1. Init => Abstract!Init
  BY DEF Init, NewLRU, Abstract!Init
<1>2. IInv /\ [Next]_vars => [Abstract!Next]_<< cache.items, reply >>
  <2> SUFFICES ASSUME IInv, [Next]_vars
               PROVE  [Abstract!Next]_<< cache.items, reply >>
    OBVIOUS
  <2>1. ASSUME NEW k \in Keys, Get(k)
        PROVE  Abstract!Get(k)
    BY <2>1 DEF Get, AfterGet, GetValue, Abstract!Get
  <2>2. ASSUME NEW k \in Keys, NEW v \in Values, Put(k, v)
        PROVE  Abstract!PutKeepingAll(k, v) \/ Abstract!PutForgettingOne(k, v)
    BY <2>2, PutRefines
  <2>3. CASE UNCHANGED vars
    BY <2>3 DEF vars
  <2> QED
    BY <2>1, <2>2, <2>3 DEF Next, Abstract!Next
<1> QED
  BY <1>1, <1>2, Inductive, PTL DEF Spec, ImplementsBoundedCache, Abstract!Spec
=============================================================================
