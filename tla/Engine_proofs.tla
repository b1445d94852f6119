--------------------------- MODULE Engine_proofs ---------------------------
(***************************************************************************)
(* Theorems about LLMRewriter.Rewrite, for every number of callers, every  *)
(* set of requests and every bound of the cache; and about the engine over *)
(* it.  The engine drives the rewriter as Rewriter allows, so that what is *)
(* proved of the rewriter alone holds inside the engine, and what the      *)
(* rewriter promises carries over to the answers.                          *)
(***************************************************************************)
EXTENDS Engine, LruLemmas, WellFoundedInduction

-----------------------------------------------------------------------------
(* The rewriter alone *)

(***************************************************************************)
(* The inductive invariant.  The mutex is held exactly inside a critical   *)
(* section; that makes the answer of a probe still true when the store     *)
(* uses it, so that probe and store together are one lru.Put.              *)
(***************************************************************************)
MutexInv == \A c \in Callers : InCriticalSection(c) <=> mu = c

ProbeInv == \A c \in Callers :
    pc[c] = "store" => present[c] = Has(cache, Key(c))

OutInv == \A c \in Callers :
    pc[c] \in {"lockPut", "probe", "store"} =>
        /\ out[c] \in Values
        /\ out[c].sent = Messages(args[c])

IInv ==
    /\ TypeOK
    /\ Recency(cache, used, since)
    /\ MutexInv
    /\ ProbeInv
    /\ OutInv

LEMMA KeyInKeys == TypeOK => \A c \in Callers : Key(c) \in Keys
BY KeysAssumption DEF TypeOK, Key

\* A trimmed text that is not blank, tagged with its messages, is a rewrite.
LEMMA TrimmedIsValue ==
    ASSUME NEW r \in Requests, NEW raw \in RawTexts, TrimSpace(raw) # Blank
    PROVE  [sent |-> Messages(r), text |-> TrimSpace(raw)] \in Values
BY ValuesAssumption DEF RawTexts, TrimSpace, Rewrites

LEMMA InitIInv == Init => IInv
<1> SUFFICES ASSUME Init PROVE IInv
  OBVIOUS
<1>1. Recency(cache, used, since)
  BY NewLRURecency DEF Init
<1>2. TypeOK
  BY <1>1 DEF Init, TypeOK, Recency, Locations, Results
<1>3. MutexInv
  BY CallersAssumption DEF Init, MutexInv, InCriticalSection
<1> QED
  BY <1>1, <1>2, <1>3 DEF IInv, Init, ProbeInv, OutInv

\* A step that leaves the cache and its history alone.
LEMMA CacheUntouched ==
    ASSUME Recency(cache, used, since), UNCHANGED << cache, history >>
    PROVE  Recency(cache, used, since)'
BY DEF history

LEMMA NextIInv == IInv /\ [Next]_vars => IInv'
<1> SUFFICES ASSUME IInv, [Next]_vars
             PROVE  IInv'
  OBVIOUS
<1> USE DEF Goto, Return, InCriticalSection
<1>0. \A c \in Callers : Key(c) \in Keys
  BY KeyInKeys DEF IInv
<1>1. ASSUME NEW c \in Callers, Call(c)
      PROVE  IInv'
  <2>1. TypeOK'
    BY <1>1 DEF IInv, TypeOK, Call, Locations, Results, history
  <2>2. Recency(cache, used, since)'
    BY <1>1, CacheUntouched DEF IInv, Call
  <2>3. MutexInv'
    BY <1>1, CallersAssumption DEF IInv, TypeOK, MutexInv, Call
  <2>4. ProbeInv' /\ OutInv'
    BY <1>1 DEF IInv, TypeOK, ProbeInv, OutInv, Call, Key
  <2> QED
    BY <2>1, <2>2, <2>3, <2>4 DEF IInv
<1>2. ASSUME NEW c \in Callers, NEW from, NEW to, Lock(c, from, to),
             << from, to >> \in {<< "lockGet", "get" >>, << "lockPut", "probe" >>}
      PROVE  IInv'
  <2>1. TypeOK'
    BY <1>2 DEF IInv, TypeOK, Lock, Locations, history
  <2>2. Recency(cache, used, since)'
    BY <1>2, CacheUntouched DEF IInv, Lock
  <2>3. MutexInv'
    BY <1>2, CallersAssumption DEF IInv, TypeOK, MutexInv, Lock
  <2>4. ProbeInv' /\ OutInv'
    BY <1>2 DEF IInv, TypeOK, ProbeInv, OutInv, Lock, Key
  <2> QED
    BY <2>1, <2>2, <2>3, <2>4 DEF IInv
<1>3. ASSUME NEW c \in Callers, GetHit(c)
      PROVE  IInv'
  <2>1. Recency(cache, used, since)'
    BY <1>0, <1>3, GetHitKeepsRecency DEF IInv, GetHit, Use
  <2>2. GetValue(cache, Key(c)) \in Values
    BY <1>0, <1>3 DEF IInv, TypeOK, Caches, GetHit, GetValue, Has
  <2>3. Ok(GetValue(cache, Key(c))) \in Results
    BY <2>2 DEF Results
  <2>4. TypeOK'
    BY <1>3, <2>1, <2>3 DEF IInv, TypeOK, GetHit, Locations, Recency
  <2>5. MutexInv'
    BY <1>3, CallersAssumption DEF IInv, TypeOK, MutexInv, GetHit
  <2>6. mu = c
    BY <1>3 DEF IInv, MutexInv, GetHit
  <2>7. \A d \in Callers : pc'[d] # "store"
    BY <1>3, <2>6, CallersAssumption DEF IInv, TypeOK, MutexInv, GetHit
  <2>8. ProbeInv' /\ OutInv'
    BY <1>3, <2>7 DEF IInv, TypeOK, ProbeInv, OutInv, GetHit
  <2> QED
    BY <2>1, <2>4, <2>5, <2>8 DEF IInv
<1>4. ASSUME NEW c \in Callers, GetMiss(c)
      PROVE  IInv'
  <2>1. TypeOK'
    BY <1>4 DEF IInv, TypeOK, GetMiss, Locations, history
  <2>2. Recency(cache, used, since)'
    BY <1>4, CacheUntouched DEF IInv, GetMiss
  <2>3. MutexInv'
    BY <1>4, CallersAssumption DEF IInv, TypeOK, MutexInv, GetMiss
  <2>4. ProbeInv' /\ OutInv'
    BY <1>4 DEF IInv, TypeOK, ProbeInv, OutInv, GetMiss, Key
  <2> QED
    BY <2>1, <2>2, <2>3, <2>4 DEF IInv
<1>5. ASSUME NEW c \in Callers, Complete(c)
      PROVE  IInv'
  <2>1. PICK raw \in RawTexts :
           /\ TrimSpace(raw) # Blank
           /\ out' = [out EXCEPT ![c] = [sent |-> Messages(args[c]),
                                         text |-> TrimSpace(raw)]]
    BY <1>5 DEF Complete
  <2> DEFINE v == [sent |-> Messages(args[c]), text |-> TrimSpace(raw)]
  <2>2. v \in Values /\ v.sent = Messages(args[c])
    BY <2>1, TrimmedIsValue DEF IInv, TypeOK
  <2> HIDE DEF v
  <2>3. out' = [out EXCEPT ![c] = v]
    BY <2>1 DEF v
  <2>4. TypeOK'
    BY <1>5, <2>2, <2>3 DEF IInv, TypeOK, Complete, Locations, history
  <2>5. Recency(cache, used, since)'
    BY <1>5, CacheUntouched DEF IInv, Complete
  <2>6. MutexInv'
    BY <1>5, CallersAssumption DEF IInv, TypeOK, MutexInv, Complete
  <2>7. ProbeInv'
    BY <1>5 DEF IInv, TypeOK, ProbeInv, Complete, Key
  <2>8. OutInv'
    BY <1>5, <2>2, <2>3 DEF IInv, TypeOK, OutInv, Complete
  <2> QED
    BY <2>4, <2>5, <2>6, <2>7, <2>8 DEF IInv
<1>6. ASSUME NEW c \in Callers, NEW e \in Errors, pc[c] = "complete",
             Return(c, Error(e)), UNCHANGED << mu, cache, args, history >>
      PROVE  IInv'
  <2>1. Error(e) \in Results
    BY DEF Results
  <2>2. TypeOK'
    BY <1>6, <2>1 DEF IInv, TypeOK, Locations, history
  <2>3. Recency(cache, used, since)'
    BY <1>6, CacheUntouched DEF IInv
  <2>4. MutexInv'
    BY <1>6, CallersAssumption DEF IInv, TypeOK, MutexInv
  <2>5. ProbeInv' /\ OutInv'
    BY <1>6 DEF IInv, TypeOK, ProbeInv, OutInv, Key
  <2> QED
    BY <2>2, <2>3, <2>4, <2>5 DEF IInv
<1>7. ASSUME NEW c \in Callers, Probe(c)
      PROVE  IInv'
  <2>1. TypeOK'
    BY <1>7 DEF IInv, TypeOK, Probe, Locations, history, Has
  <2>2. Recency(cache, used, since)'
    BY <1>7, CacheUntouched DEF IInv, Probe
  <2>3. MutexInv'
    BY <1>7, CallersAssumption DEF IInv, TypeOK, MutexInv, Probe
  <2>4. ProbeInv' /\ OutInv'
    BY <1>7 DEF IInv, TypeOK, ProbeInv, OutInv, Probe, Key
  <2> QED
    BY <2>1, <2>2, <2>3, <2>4 DEF IInv
<1>8. ASSUME NEW c \in Callers, Store(c)
      PROVE  IInv'
  <2>1. /\ present[c] = Has(cache, Key(c))
        /\ out[c] \in Values
    BY <1>8 DEF IInv, ProbeInv, OutInv, Store
  <2>2. AfterProbe(c) = AfterPut(cache, Key(c), out[c])
    BY <2>1 DEF AfterProbe, AfterPut
  <2>3. Recency(cache, used, since)'
    BY <1>0, <1>8, <2>1, <2>2, PutKeepsRecency DEF IInv, Store, Use
  <2>4. Ok(out[c]) \in Results
    BY <2>1 DEF Results
  <2>5. TypeOK'
    BY <1>8, <2>3, <2>4 DEF IInv, TypeOK, Store, Locations, Recency
  <2>6. MutexInv'
    BY <1>8, CallersAssumption DEF IInv, TypeOK, MutexInv, Store
  <2>7. \A d \in Callers : pc'[d] # "store"
    BY <1>8, CallersAssumption DEF IInv, TypeOK, MutexInv, Store
  <2>8. ProbeInv' /\ OutInv'
    BY <1>8, <2>7 DEF IInv, TypeOK, ProbeInv, OutInv, Store
  <2> QED
    BY <2>3, <2>5, <2>6, <2>8 DEF IInv
<1>9. CASE UNCHANGED vars
  BY <1>9 DEF IInv, TypeOK, MutexInv, ProbeInv, OutInv, Key, vars, history
<1>10. ASSUME NEW c \in Callers, LockGet(c) \/ LockPut(c)
       PROVE  IInv'
  BY <1>2, <1>10 DEF LockGet, LockPut
<1>11. ASSUME NEW c \in Callers, CompleteBlank(c) \/ CompleteFails(c)
       PROVE  IInv'
  BY <1>6, <1>11 DEF CompleteBlank, CompleteFails, Errors
<1> QED
  BY <1>1, <1>3, <1>4, <1>5, <1>7, <1>8, <1>9, <1>10, <1>11 DEF Next, Rewrite

LEMMA Inductive == Spec => []IInv
BY InitIInv, NextIInv, PTL DEF Spec

\* Every variable keeps its type; in particular no blank rewrite is stored
\* or returned.
THEOREM TypeCorrect == Spec => []TypeOK
<1>1. IInv => TypeOK
  BY DEF IInv
<1> QED
  BY <1>1, Inductive, PTL

\* The mutex makes a cache that takes no lock safe to share.
THEOREM CacheIsSafeToShare == Spec => []CacheSurvivesConcurrency
<1>1. IInv => CacheSurvivesConcurrency
  BY RecencyDecides DEF IInv, CacheSurvivesConcurrency, Recency
<1> QED
  BY <1>1, Inductive, PTL

\* No model call is paid for a key the bound still covers.
THEOREM NoNeedlessModelCall == Spec => PaidOnlyWhenForgotten
<1> DEFINE Step == \A c \in Callers :
        pc[c] = "get" /\ pc'[c] = "complete" => ~RecentlyUsed(used, since, Key(c))
<1>1. IInv /\ [Next]_vars => [Step]_vars
  <2> SUFFICES ASSUME IInv, [Next]_vars, NEW c \in Callers,
                      pc[c] = "get", pc'[c] = "complete"
               PROVE  ~RecentlyUsed(used, since, Key(c))
    OBVIOUS
  <2>1. pc # pc'
    OBVIOUS
  <2>2. PICK d \in Callers : Call(d) \/ Rewrite(d)
    BY <2>1 DEF Next, vars
  <2>3. d = c
    BY <2>2 DEF IInv, TypeOK, Rewrite, Call, LockGet, LockPut, Lock, GetHit,
                GetMiss, Complete, CompleteBlank, CompleteFails, Probe, Store,
                Return, Goto
  <2>4. GetMiss(c)
    BY <2>2, <2>3 DEF IInv, TypeOK, Rewrite, Call, LockGet, LockPut, Lock,
                GetHit, Complete, CompleteBlank, CompleteFails, Probe, Store,
                Return, Goto
  <2> QED
    BY <2>4, KeyInKeys, RecencyDecides DEF IInv, GetMiss
<1> QED
  BY <1>1, Inductive, PTL DEF Spec, PaidOnlyWhenForgotten

-----------------------------------------------------------------------------
(***************************************************************************)
(* What the cache key must do for a caller to get its own rewrite: two     *)
(* requests with the same key would send the model the same messages.      *)
(* Nothing in the code ensures it (the key of a question that spells out   *)
(* an exchange is the key of a follow-up to that exchange), so NoCrossTalk *)
(* takes it as its hypothesis; OneLineKeysTellApart proves it of questions *)
(* without a line break.                                                   *)
(***************************************************************************)
KeysTellApart ==
    \A r, s \in Requests : CacheKey(r) = CacheKey(s) => Messages(r) = Messages(s)

CachedUnderOwnKey ==
    \A r \in Requests :
        Has(cache, CacheKey(r)) => cache.items[CacheKey(r)].sent = Messages(r)

OwnInv == CachedUnderOwnKey /\ ServedOwnRewrite

\* A Put changes no other key's value except by forgetting it.
LEMMA PutElsewhere ==
    ASSUME NEW c \in Caches, NEW k \in Keys, NEW v \in Values, NEW j \in Keys
    PROVE  \/ AfterPut(c, k, v).items[j] = NoValue
           \/ j = k /\ AfterPut(c, k, v).items[j] = v
           \/ j # k /\ AfterPut(c, k, v).items[j] = c.items[j]
BY DEF AfterPut, Overwrite, PushFront, EvictOldest, Caches

LEMMA NextOwnInv == KeysTellApart /\ IInv /\ OwnInv /\ [Next]_vars => OwnInv'
<1> SUFFICES ASSUME KeysTellApart, IInv, OwnInv, [Next]_vars
             PROVE  OwnInv'
  OBVIOUS
<1>1. ASSUME UNCHANGED cache
      PROVE  CachedUnderOwnKey'
  BY <1>1 DEF OwnInv, CachedUnderOwnKey
<1>2. ASSUME NEW c \in Callers, Call(c)
      PROVE  OwnInv'
  BY <1>1, <1>2 DEF OwnInv, IInv, TypeOK, ServedOwnRewrite, Call, NoResult
<1>3. ASSUME UNCHANGED << cache, args, result >>
      PROVE  OwnInv'
  BY <1>1, <1>3 DEF OwnInv, ServedOwnRewrite
<1>4. ASSUME NEW c \in Callers, GetHit(c)
      PROVE  OwnInv'
  <2>1. cache'.items = cache.items
    BY <1>4 DEF GetHit, AfterGet
  <2>2. CachedUnderOwnKey'
    BY <2>1 DEF OwnInv, CachedUnderOwnKey, Has
  <2>3. GetValue(cache, Key(c)).sent = Messages(args[c])
    BY <1>4 DEF IInv, TypeOK, OwnInv, CachedUnderOwnKey, GetHit, GetValue, Key
  <2>4. ServedOwnRewrite'
    BY <1>4, <2>3 DEF IInv, TypeOK, OwnInv, ServedOwnRewrite, GetHit, Return, Ok
  <2> QED
    BY <2>2, <2>4 DEF OwnInv
<1>5. ASSUME NEW c \in Callers, CompleteBlank(c) \/ CompleteFails(c)
      PROVE  OwnInv'
  BY <1>1, <1>5 DEF OwnInv, IInv, TypeOK, ServedOwnRewrite, CompleteBlank,
                    CompleteFails, Return, Error
<1>6. ASSUME NEW c \in Callers, Store(c)
      PROVE  OwnInv'
  <2>1. /\ present[c] = Has(cache, Key(c))
        /\ out[c] \in Values
        /\ out[c].sent = Messages(args[c])
        /\ args[c] \in Requests
        /\ Key(c) \in Keys
    BY <1>6, KeyInKeys DEF IInv, TypeOK, ProbeInv, OutInv, Store
  <2>2. cache' = AfterPut(cache, Key(c), out[c])
    BY <1>6, <2>1 DEF Store, AfterProbe, AfterPut
  <2>3. CachedUnderOwnKey'
    <3> SUFFICES ASSUME NEW r \in Requests, Has(cache', CacheKey(r))
                 PROVE  cache'.items[CacheKey(r)].sent = Messages(r)
      BY DEF CachedUnderOwnKey
    <3>1. CacheKey(r) \in Keys
      BY KeysAssumption
    <3>2. \/ CacheKey(r) = Key(c) /\ cache'.items[CacheKey(r)] = out[c]
          \/ cache'.items[CacheKey(r)] = cache.items[CacheKey(r)]
      BY <2>1, <2>2, <3>1, PutElsewhere DEF IInv, TypeOK, Has
    <3>3. CacheKey(r) = Key(c) => Messages(r) = Messages(args[c])
      BY <2>1 DEF KeysTellApart, Key
    <3> QED
      BY <2>1, <3>2, <3>3 DEF OwnInv, CachedUnderOwnKey, Has
  <2>4. ServedOwnRewrite'
    BY <1>6, <2>1 DEF IInv, TypeOK, OwnInv, ServedOwnRewrite, Store, Return, Ok
  <2> QED
    BY <2>3, <2>4 DEF OwnInv
<1>7. CASE UNCHANGED vars
  BY <1>3, <1>7 DEF vars
<1>8. ASSUME NEW c \in Callers,
             LockGet(c) \/ GetMiss(c) \/ Complete(c) \/ LockPut(c) \/ Probe(c)
      PROVE  OwnInv'
  BY <1>3, <1>8 DEF LockGet, LockPut, Lock, GetMiss, Complete, Probe
<1> QED
  BY <1>2, <1>4, <1>5, <1>6, <1>7, <1>8 DEF Next, Rewrite

\* With keys that tell requests apart, no conversation is served a rewrite
\* the model wrote for another, whatever the callers' steps interleave to.
THEOREM NoCrossTalk ==
    ASSUME KeysTellApart
    PROVE  Spec => []ServedOwnRewrite
<1>1. Init => OwnInv
  BY KeysAssumption DEF Init, OwnInv, CachedUnderOwnKey, ServedOwnRewrite,
                        NewLRU, Has, NoResult
<1>2. IInv /\ OwnInv /\ [Next]_vars => OwnInv'
  BY NextOwnInv
<1>3. OwnInv => ServedOwnRewrite
  BY DEF OwnInv
<1> QED
  BY <1>1, <1>2, <1>3, Inductive, PTL DEF Spec

-----------------------------------------------------------------------------
(***************************************************************************)
(* When the keys do tell requests apart: when no question has a line break *)
(* in it, whatever the turns before it hold.  The last line break of a key *)
(* is then the one between history and question, and a key without one is  *)
(* a question without history.                                             *)
(***************************************************************************)
OneLineQuestions(Tokens) ==
    /\ NL \in Tokens
    /\ Requests \subseteq [history  : Seq([role : Tokens, content : Seq(Tokens)]),
                           question : Seq(Tokens \ {NL})]

\* The induction: what fails for some number fails for a smallest one.
LEMMA LeastNumber ==
    ASSUME NEW T \in SUBSET Nat, T # {}
    PROVE  \E n \in T : \A m \in T : n <= m
<1> DEFINE R == OpToRel(<, Nat)
<1>1. \A x, y \in Nat : y < x => << y, x >> \in R
  BY DEF OpToRel
<1>2. IsWellFoundedOn(R, Nat)
  BY NatLessThanWellFounded
<1> HIDE DEF R
<1>3. PICK x \in T : \A y \in T : ~ (<< y, x >> \in R)
  BY <1>2, WFMin
<1>4. ASSUME NEW y \in T
      PROVE  x <= y
  <2>1. x \in Nat /\ y \in Nat /\ ~ (y < x)
    BY <1>1, <1>3
  <2> QED
    BY <2>1
<1> QED
  BY <1>4

\* What FlattenSeq computes on its way, text by text.
Layers(g, ss, n) == g = [i \in 1 .. n |-> IF i = 1 THEN ss[i] ELSE g[i - 1] \o ss[i]]

LEMMA LayersExist ==
    ASSUME NEW ss, NEW n \in Nat, n > 0
    PROVE  \E g : Layers(g, ss, n)
<1> DEFINE Fine(m) == \E g : Layers(g, ss, m)
           T == {m \in 1 .. n : ~ Fine(m)}
<1>1. SUFFICES ASSUME T # {} PROVE FALSE
  OBVIOUS
<1>2. T \in SUBSET Nat
  OBVIOUS
<1>3. PICK m \in T : \A k \in T : m <= k
  <2> HIDE DEF T
  <2> QED
    BY <1>1, <1>2, LeastNumber
<1>4. m \in 1 .. n /\ ~ Fine(m)
  OBVIOUS
<1>5. CASE m = 1
  <2> DEFINE g == [i \in 1 .. 1 |-> ss[1]]
  <2>1. Layers(g, ss, 1)
    BY DEF Layers
  <2> HIDE DEF g
  <2> QED
    BY <1>4, <1>5, <2>1
<1>6. CASE m # 1
  <2>1. m - 1 \in 1 .. n /\ m \in Nat /\ m > 1
    BY <1>4, <1>6
  <2>2. Fine(m - 1)
    <3>1. m - 1 \notin T
      <4> HIDE DEF T
      <4> QED
        BY <1>3, <2>1
    <3> QED
      BY <2>1, <3>1
  <2>3. PICK g : Layers(g, ss, m - 1)
    BY <2>2
  <2> DEFINE h == [i \in 1 .. m |-> IF i = m THEN g[m - 1] \o ss[m] ELSE g[i]]
  <2>4. h[m] = g[m - 1] \o ss[m] /\ \A i \in 1 .. m - 1 : h[i] = g[i]
    <3>1. m \in 1 .. m
      BY <2>1
    <3>2. h[m] = g[m - 1] \o ss[m]
      BY <3>1
    <3>3. \A i \in 1 .. m - 1 : h[i] = g[i]
      BY <2>1
    <3> QED
      BY <3>2, <3>3
  <2>5. \A i \in 1 .. m - 1 : g[i] = IF i = 1 THEN ss[i] ELSE g[i - 1] \o ss[i]
    BY <2>3 DEF Layers
  <2>6. h = [i \in 1 .. m |-> h[i]]
    OBVIOUS
  <2> HIDE DEF h
  <2>7. ASSUME NEW i \in 1 .. m
        PROVE  h[i] = IF i = 1 THEN ss[i] ELSE h[i - 1] \o ss[i]
    <3>1. CASE i = m
      <4>1. i # 1 /\ i - 1 \in 1 .. m - 1
        BY <2>1, <3>1
      <4> QED
        BY <2>4, <3>1, <4>1
    <3>2. CASE i # m
      <4>1. i \in 1 .. m - 1 /\ (i # 1 => i - 1 \in 1 .. m - 1)
        BY <2>1, <3>2
      <4> QED
        BY <2>4, <2>5, <4>1
    <3> QED
      BY <3>1, <3>2
  <2>8. Layers(h, ss, m)
    BY <2>6, <2>7 DEF Layers
  <2> QED
    BY <1>4, <2>8
<1> QED
  BY <1>5, <1>6

LEMMA LayersAreSequences ==
    ASSUME NEW S, NEW ss \in Seq(Seq(S)), NEW g, Layers(g, ss, Len(ss))
    PROVE  \A m \in 1 .. Len(ss) : g[m] \in Seq(S)
<1> DEFINE T == {m \in 1 .. Len(ss) : g[m] \notin Seq(S)}
<1>1. SUFFICES ASSUME T # {} PROVE FALSE
  OBVIOUS
<1>2. T \in SUBSET Nat /\ Len(ss) \in Nat
  BY LenProperties
<1>3. PICK m \in T : \A k \in T : m <= k
  <2> HIDE DEF T
  <2> QED
    BY <1>1, <1>2, LeastNumber
<1>4. m \in 1 .. Len(ss) /\ g[m] \notin Seq(S) /\ ss[m] \in Seq(S)
  BY ElementOfSeq
<1>5. g[m] = IF m = 1 THEN ss[m] ELSE g[m - 1] \o ss[m]
  BY <1>4 DEF Layers
<1>6. m # 1 => m - 1 \in 1 .. Len(ss) /\ m - 1 \notin T
  BY <1>2, <1>3, <1>4
<1> QED
  BY <1>4, <1>5, <1>6, ConcatProperties

LEMMA FlattenSeqIsSeq ==
    ASSUME NEW S, NEW ss \in Seq(Seq(S))
    PROVE  FlattenSeq(ss) \in Seq(S)
<1>1. CASE Len(ss) = 0
  <2>1. ss = << >>
    BY <1>1, EmptySeq
  <2> QED
    BY <1>1, <2>1 DEF FlattenSeq
<1>2. CASE Len(ss) # 0
  <2> DEFINE F[i \in 1 .. Len(ss)] == IF i = 1 THEN ss[i] ELSE F[i - 1] \o ss[i]
             n == Len(ss)
  <2>1. FlattenSeq(ss) = F[n]
    BY <1>2 DEF FlattenSeq
  <2>2. n \in Nat /\ n > 0 /\ n \in 1 .. n
    BY <1>2, LenProperties
  <2>3. \E g : Layers(g, ss, n)
    <3> HIDE DEF n
    <3> QED
      BY <2>2, LayersExist
  <2>4. Layers(F, ss, n)
    BY <2>3 DEF Layers
  <2> HIDE DEF F
  <2>5. F[n] \in Seq(S)
    BY <2>2, <2>4, LayersAreSequences
  <2> QED
    BY <2>1, <2>5
<1> QED
  BY <1>1, <1>2

\* The last line break tells where the history ends.
LEMMA LastLineBreak ==
    ASSUME NEW Tokens, NL \in Tokens,
           NEW h \in Seq(Tokens), NEW q \in Seq(Tokens \ {NL})
    PROVE  LET key == h \o << NL >> \o q
           IN  /\ key \in Seq(Tokens)
               /\ Len(key) = Len(h) + 1 + Len(q)
               /\ key[Len(h) + 1] = NL
               /\ \A i \in 1 .. Len(h) : key[i] = h[i]
               /\ \A i \in 1 .. Len(q) : /\ key[Len(h) + 1 + i] = q[i]
                                         /\ q[i] # NL
<1> DEFINE g == h \o << NL >>
           key == g \o q
<1>1. << NL >> \in Seq(Tokens) /\ Len(<< NL >>) = 1 /\ << NL >>[1] = NL
  OBVIOUS
<1>2. q \in Seq(Tokens) /\ \A i \in 1 .. Len(q) : q[i] # NL
  BY SeqMonotonic, ElementOfSeq
<1>3. Len(h) \in Nat /\ Len(q) \in Nat
  BY LenProperties
<1>4. /\ g \in Seq(Tokens)
      /\ Len(g) = Len(h) + 1
      /\ \A i \in 1 .. Len(h) : g[i] = h[i]
      /\ g[Len(h) + 1] = NL
  BY <1>1, <1>3, ConcatProperties
<1> HIDE DEF g
<1>5. /\ key \in Seq(Tokens)
      /\ Len(key) = Len(g) + Len(q)
      /\ \A i \in 1 .. Len(g) + Len(q) : key[i] = IF i <= Len(g) THEN g[i] ELSE q[i - Len(g)]
  BY <1>2, <1>4, ConcatProperties
<1> HIDE DEF key
<1>6. /\ key[Len(h) + 1] = NL
      /\ \A i \in 1 .. Len(h) : key[i] = h[i]
  BY <1>3, <1>4, <1>5
<1>7. ASSUME NEW i \in 1 .. Len(q)
      PROVE  key[Len(h) + 1 + i] = q[i]
  <2> DEFINE j == Len(h) + 1 + i
  <2>1. j \in 1 .. Len(g) + Len(q) /\ ~ (j <= Len(g)) /\ j - Len(g) = i
    BY <1>3, <1>4
  <2> HIDE DEF j
  <2>2. key[j] = q[i]
    BY <1>5, <2>1
  <2> QED
    BY <2>2 DEF j
<1>8. Len(key) = Len(h) + 1 + Len(q)
  BY <1>4, <1>5
<1> QED
  BY <1>2, <1>5, <1>6, <1>7, <1>8 DEF key, g

LEMMA SameKeySameParts ==
    ASSUME NEW Tokens, NL \in Tokens,
           NEW h \in Seq(Tokens), NEW q \in Seq(Tokens \ {NL}),
           NEW g \in Seq(Tokens), NEW p \in Seq(Tokens \ {NL}),
           h \o << NL >> \o q = g \o << NL >> \o p
    PROVE  h = g /\ q = p
<1> DEFINE key == h \o << NL >> \o q
<1>1. /\ Len(key) = Len(h) + 1 + Len(q)
      /\ key[Len(h) + 1] = NL
      /\ \A i \in 1 .. Len(h) : key[i] = h[i]
      /\ \A i \in 1 .. Len(q) : key[Len(h) + 1 + i] = q[i] /\ q[i] # NL
  BY LastLineBreak
<1>2. /\ Len(key) = Len(g) + 1 + Len(p)
      /\ key[Len(g) + 1] = NL
      /\ \A i \in 1 .. Len(g) : key[i] = g[i]
      /\ \A i \in 1 .. Len(p) : key[Len(g) + 1 + i] = p[i] /\ p[i] # NL
  BY LastLineBreak
<1> HIDE DEF key
<1>3. /\ Len(h) \in Nat /\ Len(g) \in Nat /\ Len(q) \in Nat /\ Len(p) \in Nat
      /\ q \in Seq(Tokens) /\ p \in Seq(Tokens)
  BY LenProperties, SeqMonotonic
<1>4. ~ (Len(h) < Len(g))
  <2> SUFFICES ASSUME Len(h) < Len(g) PROVE FALSE
    OBVIOUS
  <2> DEFINE d == Len(g) - Len(h)
  <2>1. d \in 1 .. Len(q) /\ Len(h) + 1 + d = Len(g) + 1
    BY <1>1, <1>2, <1>3
  <2> HIDE DEF d
  <2>2. key[Len(h) + 1 + d] # NL
    BY <1>1, <2>1
  <2> QED
    BY <1>2, <2>1, <2>2
<1>5. ~ (Len(g) < Len(h))
  <2> SUFFICES ASSUME Len(g) < Len(h) PROVE FALSE
    OBVIOUS
  <2> DEFINE d == Len(h) - Len(g)
  <2>1. d \in 1 .. Len(p) /\ Len(g) + 1 + d = Len(h) + 1
    BY <1>1, <1>2, <1>3
  <2> HIDE DEF d
  <2>2. key[Len(g) + 1 + d] # NL
    BY <1>2, <2>1
  <2> QED
    BY <1>1, <2>1, <2>2
<1>6. Len(h) = Len(g) /\ Len(q) = Len(p)
  BY <1>1, <1>2, <1>3, <1>4, <1>5
<1>7. h = g
  BY <1>1, <1>2, <1>6, SeqEqual
<1>8. q = p
  BY <1>1, <1>2, <1>3, <1>6, SeqEqual
<1> QED
  BY <1>7, <1>8

\* A history is rendered as a text, whatever it holds.
LEMMA HistoryIsText ==
    ASSUME NEW Tokens, OneLineQuestions(Tokens), NEW r \in Requests
    PROVE  /\ FormatHistory(r.history) \in Seq(Tokens)
           /\ r.question \in Seq(Tokens \ {NL})
<1> DEFINE n == Len(r.history)
           lines == [i \in 1 .. n |-> Line(r.history[i])]
<1>1. /\ NL \in Tokens
      /\ r.history \in Seq([role : Tokens, content : Seq(Tokens)])
      /\ r.question \in Seq(Tokens \ {NL})
  BY DEF OneLineQuestions
<1>2. n \in Nat /\ DOMAIN r.history = 1 .. n
  BY <1>1, LenProperties
<1>3. ASSUME NEW i \in 1 .. n
      PROVE  Line(r.history[i]) \in Seq(Tokens)
  <2> DEFINE turn == r.history[i]
  <2>1. turn \in [role : Tokens, content : Seq(Tokens)]
    BY <1>1, ElementOfSeq
  <2> HIDE DEF turn
  <2>2. turn.role \in Tokens /\ turn.content \in Seq(Tokens)
    BY <2>1
  <2>3. << turn.role >> \in Seq(Tokens) /\ << NL >> \in Seq(Tokens)
    BY <1>1, <2>2
  <2>4. << turn.role >> \o turn.content \in Seq(Tokens)
    BY <2>2, <2>3, ConcatProperties
  <2>5. << turn.role >> \o turn.content \o << NL >> \in Seq(Tokens)
    BY <2>3, <2>4, ConcatProperties
  <2> QED
    BY <2>5 DEF Line, turn
<1>4. lines \in Seq(Seq(Tokens))
  <2>1. lines \in [1 .. n -> Seq(Tokens)]
    BY <1>3
  <2> HIDE DEF lines
  <2> QED
    BY <1>2, <2>1, SeqDef
<1>5. FormatHistory(r.history) = FlattenSeq(lines)
  BY <1>2 DEF FormatHistory
<1> HIDE DEF lines
<1> QED
  BY <1>1, <1>4, <1>5, FlattenSeqIsSeq

(***************************************************************************)
(* Questions of one line cannot collide: the comment on cacheKey is right  *)
(* for them, whatever their histories hold and however long they are.      *)
(***************************************************************************)
THEOREM OneLineKeysTellApart ==
    ASSUME NEW Tokens, OneLineQuestions(Tokens)
    PROVE  KeysTellApart
<1> SUFFICES ASSUME NEW r \in Requests, NEW s \in Requests,
                    CacheKey(r) = CacheKey(s)
             PROVE  Messages(r) = Messages(s)
  BY DEF KeysTellApart
<1> DEFINE h == FormatHistory(r.history)
           g == FormatHistory(s.history)
<1>1. /\ NL \in Tokens
      /\ h \in Seq(Tokens) /\ r.question \in Seq(Tokens \ {NL})
      /\ g \in Seq(Tokens) /\ s.question \in Seq(Tokens \ {NL})
  BY HistoryIsText DEF OneLineQuestions
<1>2. CASE r.history = << >> /\ s.history = << >>
  BY <1>2 DEF CacheKey, Messages
<1>3. CASE r.history # << >> /\ s.history # << >>
  <2>1. h \o << NL >> \o r.question = g \o << NL >> \o s.question
    BY <1>3 DEF CacheKey
  <2> HIDE DEF h, g
  <2>2. h = g /\ r.question = s.question
    BY <1>1, <2>1, SameKeySameParts
  <2> QED
    BY <1>3, <2>2 DEF Messages, h, g
<1>4. ASSUME NEW k \in Seq(Tokens), NEW q \in Seq(Tokens \ {NL}),
             NEW p \in Seq(Tokens \ {NL}), p = k \o << NL >> \o q
      PROVE  FALSE
  <2>1. /\ Len(k) \in Nat /\ Len(q) \in Nat
        /\ Len(p) = Len(k) + 1 + Len(q)
        /\ p[Len(k) + 1] = NL
    BY <1>1, <1>4, LastLineBreak, LenProperties
  <2>2. Len(k) + 1 \in 1 .. Len(p)
    BY <2>1
  <2>3. p[Len(k) + 1] \in Tokens \ {NL}
    BY <2>2, ElementOfSeq
  <2> QED
    BY <2>1, <2>3
<1>5. CASE r.history = << >> /\ s.history # << >>
  <2>1. r.question = g \o << NL >> \o s.question
    BY <1>5 DEF CacheKey
  <2> HIDE DEF g
  <2> QED
    BY <1>1, <1>4, <2>1
<1>6. CASE r.history # << >> /\ s.history = << >>
  <2>1. s.question = h \o << NL >> \o r.question
    BY <1>6 DEF CacheKey
  <2> HIDE DEF h
  <2> QED
    BY <1>1, <1>4, <2>1
<1> QED
  BY <1>2, <1>3, <1>5, <1>6

\* So callers who ask in one line are served their own rewrites, under every
\* interleaving and eviction.
THEOREM OneLineNoCrossTalk ==
    ASSUME NEW Tokens, OneLineQuestions(Tokens)
    PROVE  Spec => []ServedOwnRewrite
BY OneLineKeysTellApart, NoCrossTalk

-----------------------------------------------------------------------------
(* The engine over it *)

LEMMA EngineStep == [EngineNext]_evars => [Next]_vars
<1> SUFFICES ASSUME [EngineNext]_evars
             PROVE  Next \/ UNCHANGED vars
  OBVIOUS
<1>1. ASSUME NEW c \in Callers, Generate(c)
      PROVE  Next
  BY <1>1 DEF Generate, Next
<1>2. ASSUME NEW c \in Callers, RunGenerate(c)
      PROVE  Next \/ UNCHANGED vars
  BY <1>2 DEF RunGenerate, RewriteQuestion, RewriteFailed, Retrieve,
              RetrieveFails, AnswerQuestion, AnswerFails, Next
<1>3. CASE WithInstructions
  BY <1>3 DEF WithInstructions
<1>4. CASE UNCHANGED evars
  BY <1>4 DEF evars
<1> QED
  BY <1>1, <1>2, <1>3, <1>4 DEF EngineNext

\* The engine with its own variables left out of sight is the rewriter under
\* any callers: nothing the engine does reaches into the rewriter.
THEOREM EngineDrivesRewriter == EngineSpec => Spec
<1>1. EngineInit => Init
  BY DEF EngineInit
<1> QED
  BY <1>1, EngineStep, PTL DEF EngineSpec, Spec

-----------------------------------------------------------------------------
(***************************************************************************)
(* What the answering model is sent, message by message: the engine's own  *)
(* system message, the turns in their order, and the prompt at the end.    *)
(***************************************************************************)
LEMMA SentMessages ==
    ASSUME NEW r \in Requests, NEW prompt
    PROVE  LET sent == ToLangchain(ChatMessages(r.history, prompt))
               n    == Len(r.history)
           IN  /\ n \in Nat
               /\ DOMAIN r.history = 1 .. n
               /\ DOMAIN sent = 1 .. n + 2
               /\ Len(sent) = n + 2
               /\ sent[1] = [role |-> "System", content |-> Helpful]
               /\ \A i \in 1 .. n :
                     sent[i + 1] = [TurnMessage(r.history[i]) EXCEPT !.role = LangchainRole(@)]
               /\ sent[n + 2] = [role |-> "Human", content |-> prompt]
<1> DEFINE first == [role |-> "system", content |-> Helpful]
           turns == [i \in DOMAIN r.history |-> TurnMessage(r.history[i])]
           last  == [role |-> "user", content |-> prompt]
           M     == {first, last} \cup {turns[i] : i \in DOMAIN r.history}
           msgs  == ChatMessages(r.history, prompt)
           n     == Len(r.history)
<1>1. n \in Nat /\ DOMAIN r.history = 1 .. n
  BY HistoriesAssumption, LenProperties
<1>2. turns \in Seq(M) /\ Len(turns) = n
  <2>1. turns \in [1 .. n -> M]
    BY <1>1
  <2> QED
    BY <1>1, <2>1, IsASeq
<1>3. << first >> \in Seq(M) /\ << last >> \in Seq(M)
  OBVIOUS
<1>4. /\ << first >> \o turns \in Seq(M)
      /\ Len(<< first >> \o turns) = n + 1
      /\ (<< first >> \o turns)[1] = first
      /\ \A i \in 1 .. n : (<< first >> \o turns)[i + 1] = turns[i]
  <2> HIDE DEF first, turns, M, n
  <2>1. Len(<< first >>) = 1 /\ << first >>[1] = first
    OBVIOUS
  <2>2. /\ << first >> \o turns \in Seq(M)
        /\ Len(<< first >> \o turns) = 1 + n
        /\ \A i \in 1 .. 1 + n :
              (<< first >> \o turns)[i] = IF i <= 1 THEN << first >>[i] ELSE turns[i - 1]
    BY <1>1, <1>2, <1>3, <2>1, ConcatProperties
  <2>3. ASSUME NEW i \in 1 .. n
        PROVE  (<< first >> \o turns)[i + 1] = turns[i]
    <3>1. i + 1 \in 1 .. 1 + n /\ ~(i + 1 <= 1) /\ (i + 1) - 1 = i
      BY <1>1
    <3> QED
      BY <2>2, <3>1
  <2> QED
    BY <1>1, <2>1, <2>2, <2>3
<1>5. msgs = (<< first >> \o turns) \o << last >>
  BY DEF ChatMessages
<1>6. /\ msgs \in Seq(M)
      /\ Len(msgs) = n + 2
      /\ msgs[1] = first
      /\ \A i \in 1 .. n : msgs[i + 1] = turns[i]
      /\ msgs[n + 2] = last
  <2> DEFINE head == << first >> \o turns
  <2>1. Len(<< last >>) = 1 /\ << last >>[1] = last
    OBVIOUS
  <2> HIDE DEF first, turns, last, M, n, msgs, head
  <2>2. head \in Seq(M) /\ Len(head) = n + 1 /\ head[1] = first
    BY <1>4 DEF head
  <2>3. /\ msgs \in Seq(M)
        /\ Len(msgs) = (n + 1) + 1
        /\ \A i \in 1 .. (n + 1) + 1 :
              msgs[i] = IF i <= n + 1 THEN head[i] ELSE << last >>[i - (n + 1)]
    BY <1>1, <1>3, <1>5, <2>1, <2>2, ConcatProperties DEF head
  <2>4. ASSUME NEW i \in 1 .. n
        PROVE  msgs[i + 1] = turns[i]
    <3>1. i + 1 \in 1 .. (n + 1) + 1 /\ i + 1 <= n + 1
      BY <1>1
    <3>2. msgs[i + 1] = head[i + 1]
      BY <2>3, <3>1
    <3> QED
      BY <1>4, <3>2 DEF head
  <2>5. msgs[n + 2] = << last >>[1]
    <3>1. n + 2 \in 1 .. (n + 1) + 1 /\ ~(n + 2 <= n + 1) /\ (n + 2) - (n + 1) = 1
      BY <1>1
    <3> QED
      BY <2>3, <3>1
  <2>6. msgs[1] = head[1]
    BY <1>1, <2>3
  <2> QED
    BY <1>1, <2>1, <2>2, <2>3, <2>4, <2>5, <2>6
<1> DEFINE sent == ToLangchain(msgs)
<1>7. DOMAIN msgs = 1 .. n + 2
  <2> HIDE DEF M, n, msgs
  <2> QED
    BY <1>6, LenProperties
<1>8. sent = [i \in 1 .. n + 2 |-> [msgs[i] EXCEPT !.role = LangchainRole(@)]]
  BY <1>7 DEF ToLangchain
<1>9. Len(sent) = n + 2 /\ DOMAIN sent = 1 .. n + 2
  <2> HIDE DEF msgs, n, sent
  <2> QED
    BY <1>1, <1>8
<1>10. \A i \in 1 .. n + 2 : sent[i] = [msgs[i] EXCEPT !.role = LangchainRole(@)]
  <2> HIDE DEF msgs, n, sent
  <2> QED
    BY <1>8
<1>11. sent[1] = [role |-> "System", content |-> Helpful]
  <2>1. sent[1] = [first EXCEPT !.role = LangchainRole(@)]
    <3> HIDE DEF msgs, n, sent, turns, M, first
    <3>1. 1 \in 1 .. n + 2 /\ msgs[1] = first
      BY <1>1, <1>6
    <3>2. sent[1] = [msgs[1] EXCEPT !.role = LangchainRole(@)]
      BY <1>10, <3>1
    <3> QED
      BY <3>1, <3>2
  <2>2. [first EXCEPT !.role = LangchainRole(@)] = [role |-> "System", content |-> Helpful]
    BY DEF LangchainRole
  <2> QED
    BY <2>1, <2>2
<1>12. sent[n + 2] = [role |-> "Human", content |-> prompt]
  <2>1. sent[n + 2] = [last EXCEPT !.role = LangchainRole(@)]
    <3> HIDE DEF msgs, n, sent, turns, M, last
    <3>1. n + 2 \in 1 .. n + 2 /\ msgs[n + 2] = last
      BY <1>1, <1>6
    <3>2. sent[n + 2] = [msgs[n + 2] EXCEPT !.role = LangchainRole(@)]
      BY <1>10, <3>1
    <3> QED
      BY <3>1, <3>2
  <2>2. [last EXCEPT !.role = LangchainRole(@)] = [role |-> "Human", content |-> prompt]
    BY DEF LangchainRole
  <2> QED
    BY <2>1, <2>2
<1>13. \A i \in 1 .. n :
          sent[i + 1] = [TurnMessage(r.history[i]) EXCEPT !.role = LangchainRole(@)]
  <2> SUFFICES ASSUME NEW i \in 1 .. n
               PROVE  sent[i + 1] = [TurnMessage(r.history[i]) EXCEPT !.role = LangchainRole(@)]
    OBVIOUS
  <2>1. turns[i] = TurnMessage(r.history[i])
    BY <1>1
  <2>2. i + 1 \in 1 .. n + 2
    <3> HIDE DEF n
    <3> QED
      BY <1>1
  <2>3. sent[i + 1] = [turns[i] EXCEPT !.role = LangchainRole(@)]
    <3> HIDE DEF msgs, n, sent, turns
    <3> QED
      BY <1>6, <1>10, <2>2
  <2> QED
    BY <2>1, <2>3
<1> QED
  BY <1>1, <1>9, <1>11, <1>12, <1>13

\* The prompt is what the last message says.
LEMMA PromptIsLast ==
    ASSUME NEW r \in Requests, NEW prompt
    PROVE  Last(ToLangchain(ChatMessages(r.history, prompt))).content = prompt
<1> DEFINE sent == ToLangchain(ChatMessages(r.history, prompt))
<1>1. sent[Len(sent)] = [role |-> "Human", content |-> prompt]
  <2>1. Len(sent) = Len(r.history) + 2
    BY SentMessages
  <2> QED
    BY <2>1, SentMessages
<1> QED
  BY <1>1 DEF Last

\* A turn is the model's own exactly if it is the assistant's, and no turn is
\* a system message.
LEMMA VoiceOfTurn ==
    ASSUME NEW turn
    PROVE  LET sent == [TurnMessage(turn) EXCEPT !.role = LangchainRole(@)]
           IN  /\ sent.content = turn.content
               /\ sent.role # "System"
               /\ sent.role = "AI" <=> turn.role = Assistant
BY DEF TurnMessage, LangchainRole

-----------------------------------------------------------------------------
(***************************************************************************)
(* The inductive invariant: between the retrieval and the answer a caller  *)
(* holds chunks that were retrieved for a rewrite of its own conversation. *)
(***************************************************************************)
SeenInv == DOMAIN seen = Callers

OwnChunks ==
    \A c \in Callers :
        stage[c] = "answering" =>
            /\ chunks[c] \in Chunks
            /\ chunks[c].query.sent = Messages(args[c])

EngineInv == EngineTypeOK /\ SeenInv /\ OwnChunks /\ AnsweredFromOwnContext

\* Only a new call changes what a caller asked.
LEMMA RewriteKeepsArgs == ASSUME NEW c, Rewrite(c) PROVE UNCHANGED args
BY DEF Rewrite, LockGet, LockPut, Lock, GetHit, GetMiss, Complete,
       CompleteBlank, CompleteFails, Probe, Store

\* What an ok result holds is a value of the cache.
LEMMA OkIsValue ==
    ASSUME TypeOK, NEW c \in Callers, result[c].kind = "ok"
    PROVE  result[c].value \in Values
BY DEF TypeOK, Results, NoResult, Ok, Error

LEMMA NextEngineInv ==
    TypeOK /\ ServedOwnRewrite /\ EngineInv /\ [EngineNext]_evars => EngineInv'
<1> SUFFICES ASSUME TypeOK, ServedOwnRewrite, EngineInv, [EngineNext]_evars
             PROVE  EngineInv'
  OBVIOUS
<1> USE DEF EngineInv, EngineTypeOK, SeenInv, OwnChunks, AnsweredFromOwnContext
<1>1. CASE UNCHANGED evars
  BY <1>1 DEF evars, vars, engine
<1>2. CASE WithInstructions
  BY <1>2 DEF WithInstructions, vars
<1>3. ASSUME NEW c \in Callers, Generate(c)
      PROVE  EngineInv'
  BY <1>3 DEF Generate, Call, TypeOK, NoAnswer, Answers
<1>4. ASSUME NEW c \in Callers, RewriteQuestion(c)
      PROVE  EngineInv'
  BY <1>4, RewriteKeepsArgs DEF RewriteQuestion, engine
<1>5. ASSUME NEW c \in Callers, NEW e \in EngineErrors,
             Finish(c, Failure(e)), UNCHANGED << args, instructions >>,
             \A d \in Callers \ {c} : seen'[d] = seen[d],
             DOMAIN seen' = DOMAIN seen
      PROVE  EngineInv'
  BY <1>5 DEF Finish, Failure, Answers
<1>6. ASSUME NEW c \in Callers, RewriteFailed(c) \/ RetrieveFails(c)
      PROVE  EngineInv'
  BY <1>5, <1>6 DEF RewriteFailed, RetrieveFails, EngineErrors, vars
<1>7. ASSUME NEW c \in Callers, AnswerFails(c)
      PROVE  EngineInv'
  BY <1>5, <1>7 DEF AnswerFails, Send, EngineErrors, vars
<1>8. ASSUME NEW c \in Callers, Retrieve(c)
      PROVE  EngineInv'
  <2>1. /\ result[c].value \in Values
        /\ result[c].value.sent = Messages(args[c])
    BY <1>8, OkIsValue DEF Retrieve, Rewritten, ServedOwnRewrite
  <2> QED
    BY <1>8, <2>1 DEF Retrieve, Chunks, vars
<1>9. ASSUME NEW c \in Callers, AnswerQuestion(c)
      PROVE  EngineInv'
  <2> DEFINE prompt == BuildPrompt(instructions, chunks[c], args[c].question)
  <2>1. args[c] \in Requests
    BY DEF TypeOK
  <2>2. /\ seen' = [seen EXCEPT ![c] =
                       ToLangchain(ChatMessages(args[c].history, prompt))]
        /\ answer' = [answer EXCEPT ![c] = Answered(chunks[c])]
        /\ stage' = [stage EXCEPT ![c] = "idle"]
        /\ chunks' = [chunks EXCEPT ![c] = NoChunks]
        /\ UNCHANGED << args, instructions >>
        /\ stage[c] = "answering"
    BY <1>9 DEF AnswerQuestion, Send, Finish, vars
  <2>3. Last(seen'[c]).content = prompt
    BY <2>1, <2>2, PromptIsLast
  <2>4. /\ chunks[c] \in Chunks
        /\ chunks[c].query.sent = Messages(args[c])
    BY <2>2
  <2>5. EngineTypeOK' /\ SeenInv' /\ OwnChunks'
    BY <2>2, <2>4 DEF Answers
  <2>6. AnsweredFromOwnContext'
    BY <2>2, <2>3, <2>4 DEF BuildPrompt, Answered
  <2> QED
    BY <2>5, <2>6
<1> QED
  BY <1>1, <1>2, <1>3, <1>4, <1>6, <1>7, <1>8, <1>9 DEF EngineNext, RunGenerate

\* With keys that tell requests apart, every answer is given from chunks that
\* were retrieved for a rewrite of its own conversation, these are the chunks
\* that are returned, and the question in the prompt is the one asked.
THEOREM AnswersStayApart ==
    ASSUME KeysTellApart
    PROVE  EngineSpec => []AnsweredFromOwnContext
<1>1. EngineInit => EngineInv
  BY DEF EngineInit, EngineInv, EngineTypeOK, SeenInv, OwnChunks,
         AnsweredFromOwnContext, NoAnswer, Answers
<1>2. EngineInv => AnsweredFromOwnContext
  BY DEF EngineInv
<1> QED
  BY <1>1, <1>2, NextEngineInv, EngineDrivesRewriter, TypeCorrect,
     NoCrossTalk, PTL DEF EngineSpec

\* So callers who ask in one line are answered from their own conversations.
THEOREM OneLineAnswersStayApart ==
    ASSUME NEW Tokens, OneLineQuestions(Tokens)
    PROVE  EngineSpec => []AnsweredFromOwnContext
BY OneLineKeysTellApart, AnswersStayApart

-----------------------------------------------------------------------------
(***************************************************************************)
(* The types and the voices, which do not depend on the keys.              *)
(***************************************************************************)
EngineTypeInv ==
    /\ EngineTypeOK
    /\ \A c \in Callers : stage[c] = "answering" => chunks[c] \in Chunks

LEMMA NextEngineTypeInv ==
    TypeOK /\ EngineTypeInv /\ [EngineNext]_evars => EngineTypeInv'
<1> SUFFICES ASSUME TypeOK, EngineTypeInv, [EngineNext]_evars
             PROVE  EngineTypeInv'
  OBVIOUS
<1> USE DEF EngineTypeInv, EngineTypeOK
<1>1. CASE UNCHANGED evars \/ WithInstructions
  BY <1>1 DEF evars, engine, WithInstructions
<1>2. ASSUME NEW c \in Callers, Generate(c) \/ RewriteQuestion(c)
      PROVE  EngineTypeInv'
  BY <1>2 DEF Generate, RewriteQuestion, engine, Answers
<1>3. ASSUME NEW c \in Callers, NEW a \in Answers, Finish(c, a), UNCHANGED instructions
      PROVE  EngineTypeInv'
  BY <1>3 DEF Finish
<1>4. ASSUME NEW c \in Callers,
             \/ RewriteFailed(c) \/ RetrieveFails(c)
             \/ AnswerQuestion(c) \/ AnswerFails(c)
      PROVE  EngineTypeInv'
  BY <1>3, <1>4 DEF RewriteFailed, RetrieveFails, AnswerQuestion, AnswerFails,
                    Answers, EngineErrors
<1>5. ASSUME NEW c \in Callers, Retrieve(c)
      PROVE  EngineTypeInv'
  <2>1. result[c].value \in Values
    BY <1>5, OkIsValue DEF Retrieve, Rewritten
  <2> QED
    BY <1>5, <2>1 DEF Retrieve, Chunks
<1> QED
  BY <1>1, <1>2, <1>4, <1>5 DEF EngineNext, RunGenerate

\* The engine's own variables keep their types, for any number of callers.
THEOREM EngineTypeCorrect == EngineSpec => []EngineTypeOK
<1>1. EngineInit => EngineTypeInv
  BY DEF EngineInit, EngineTypeInv, EngineTypeOK, Answers
<1>2. EngineTypeInv => EngineTypeOK
  BY DEF EngineTypeInv
<1> QED
  BY <1>1, <1>2, NextEngineTypeInv, EngineDrivesRewriter, TypeCorrect, PTL
     DEF EngineSpec

VoicesInv == SeenInv /\ ConversationKeepsItsVoices

\* What Send sends keeps the voices, for the conversation the caller has.
LEMMA SendKeepsVoices ==
    ASSUME TypeOK, VoicesInv, NEW c \in Callers, Send(c), UNCHANGED args
    PROVE  VoicesInv'
<1> DEFINE prompt == BuildPrompt(instructions, chunks[c], args[c].question)
           sent == ToLangchain(ChatMessages(args[c].history, prompt))
           turns == args[c].history
           n == Len(turns)
<1>1. args[c] \in Requests
  BY DEF TypeOK
<1>2. /\ n \in Nat
      /\ DOMAIN turns = 1 .. n
      /\ DOMAIN sent = 1 .. n + 2
      /\ Len(sent) = n + 2
      /\ sent[1] = [role |-> "System", content |-> Helpful]
      /\ \A i \in 1 .. n :
            sent[i + 1] = [TurnMessage(turns[i]) EXCEPT !.role = LangchainRole(@)]
      /\ sent[n + 2] = [role |-> "Human", content |-> prompt]
  BY <1>1, SentMessages
<1>3. \A i \in 1 .. n :
          /\ sent[i + 1].content = turns[i].content
          /\ sent[i + 1].role # "System"
          /\ sent[i + 1].role = "AI" <=> turns[i].role = Assistant
  <2> SUFFICES ASSUME NEW i \in 1 .. n
               PROVE  /\ sent[i + 1].content = turns[i].content
                      /\ sent[i + 1].role # "System"
                      /\ sent[i + 1].role = "AI" <=> turns[i].role = Assistant
    OBVIOUS
  <2>1. sent[i + 1] = [TurnMessage(turns[i]) EXCEPT !.role = LangchainRole(@)]
    BY <1>2
  <2> HIDE DEF sent, turns, n
  <2> QED
    BY <2>1, VoiceOfTurn
<1>4. \A i \in DOMAIN sent : sent[i].role = "System" <=> i = 1
  <2> SUFFICES ASSUME NEW i \in 1 .. n + 2
               PROVE  sent[i].role = "System" <=> i = 1
    BY <1>2
  <2> HIDE DEF sent, turns, n
  <2>1. CASE i = 1
    BY <1>2, <2>1
  <2>2. CASE i = n + 2
    BY <1>2, <2>2
  <2>3. CASE i # 1 /\ i # n + 2
    <3>1. i - 1 \in 1 .. n /\ (i - 1) + 1 = i
      BY <1>2, <2>3
    <3> QED
      BY <1>3, <2>3, <3>1
  <2> QED
    BY <2>1, <2>2, <2>3
<1>5. /\ seen' = [seen EXCEPT ![c] = sent]
      /\ seen'[c] = sent
      /\ DOMAIN seen' = Callers
  BY DEF Send, VoicesInv, SeenInv
<1>6. ASSUME NEW d \in Callers, seen'[d] # << >>
      PROVE  /\ Len(seen'[d]) = Len(args'[d].history) + 2
             /\ \A i \in DOMAIN seen'[d] : seen'[d][i].role = "System" <=> i = 1
             /\ \A i \in DOMAIN args'[d].history :
                   /\ seen'[d][i + 1].content = args'[d].history[i].content
                   /\ seen'[d][i + 1].role = "AI" <=> args'[d].history[i].role = Assistant
  <2>1. CASE d = c
    <3> HIDE DEF sent
    <3> QED
      BY <1>2, <1>3, <1>4, <1>5, <2>1
  <2>2. CASE d # c
    <3>1. seen'[d] = seen[d] /\ args' = args
      BY <1>5, <2>2 DEF VoicesInv, SeenInv
    <3> QED
      BY <1>6, <3>1 DEF VoicesInv, ConversationKeepsItsVoices
  <2> QED
    BY <2>1, <2>2
<1> QED
  BY <1>5, <1>6 DEF VoicesInv, SeenInv, ConversationKeepsItsVoices

\* Through the engine's mapping of roles and the adapter's no stored turn
\* becomes a system message, and only the assistant's are the model's own.
THEOREM VoicesStayApart == EngineSpec => []ConversationKeepsItsVoices
<1>1. EngineInit => VoicesInv
  BY DEF EngineInit, VoicesInv, SeenInv, ConversationKeepsItsVoices
<1>2. TypeOK /\ VoicesInv /\ [EngineNext]_evars => VoicesInv'
  <2> SUFFICES ASSUME TypeOK, VoicesInv, [EngineNext]_evars
               PROVE  VoicesInv'
    OBVIOUS
  <2>1. CASE UNCHANGED << args, seen >>
    BY <2>1 DEF VoicesInv, SeenInv, ConversationKeepsItsVoices
  <2>2. ASSUME NEW c \in Callers, Generate(c)
        PROVE  VoicesInv'
    BY <2>2 DEF Generate, Call, TypeOK, VoicesInv, SeenInv, ConversationKeepsItsVoices
  <2>3. ASSUME NEW c \in Callers,
               \/ RewriteQuestion(c) \/ RewriteFailed(c)
               \/ Retrieve(c) \/ RetrieveFails(c)
        PROVE  VoicesInv'
    BY <2>1, <2>3, RewriteKeepsArgs
       DEF RewriteQuestion, RewriteFailed, Retrieve, RetrieveFails, engine, vars
  <2>4. ASSUME NEW c \in Callers, AnswerQuestion(c) \/ AnswerFails(c)
        PROVE  VoicesInv'
    BY <2>4, SendKeepsVoices DEF AnswerQuestion, AnswerFails, vars
  <2>5. CASE WithInstructions \/ UNCHANGED evars
    BY <2>1, <2>5 DEF WithInstructions, evars, engine, vars
  <2> QED
    BY <2>2, <2>3, <2>4, <2>5 DEF EngineNext, RunGenerate
<1>3. VoicesInv => ConversationKeepsItsVoices
  BY DEF VoicesInv
<1> QED
  BY <1>1, <1>2, <1>3, EngineDrivesRewriter, TypeCorrect, PTL DEF EngineSpec
=============================================================================
