------------------------------- MODULE LruOps -------------------------------
(***************************************************************************)
(* The data structure of rag/rewrite/cache.go: a doubly linked list of     *)
(* keys, most recently used first, beside a map from key to entry.  The    *)
(* two halves are separate here, as they are in the code, so that a step   *)
(* may leave them in disagreement.                                         *)
(*                                                                         *)
(* The operators are pure; LRU drives them alone, Rewriter drives them     *)
(* under its mutex.                                                        *)
(***************************************************************************)
EXTENDS Integers, Sequences, SequencesExt

CONSTANTS
    Keys,     \* the cache keys
    Values,   \* the rewrites that can be stored
    NoValue,  \* what the map holds for a key that is not in it
    MaxEntries \* lru.max: the bound, unbounded when it is 0 or less

ASSUME NoValueAssumption == NoValue \notin Values
ASSUME MaxAssumption == MaxEntries \in Int

Caches == [order : Seq(Keys), items : [Keys -> Values \cup {NoValue}]]

(***************************************************************************)
(* Operators whose comment starts with "Slip:" are plausible mistakes in   *)
(* the operator that follows.  Nothing uses them; each is there to show    *)
(* that a property would notice it.                                        *)
(***************************************************************************)

\* Slip: the map is never made.
NilMapLRU == [order |-> << >>, items |-> << >>]

\* NewLRU: an empty list and an empty map.
NewLRU == [order |-> << >>, items |-> [k \in Keys |-> NoValue]]

Has(c, k) == c.items[k] # NoValue

Cached(c) == {k \in Keys : Has(c, k)}

\* Where k stands in the list.
Position(s, k) == CHOOSE i \in DOMAIN s : s[i] = k

\* list.MoveToFront of the element that holds k.
MoveToFront(s, k) == << k >> \o RemoveAt(s, Position(s, k))

\* What lru.Get answers, and the cache it leaves.
GetValue(c, k) == c.items[k]

\* Slip: a hit does not refresh the key.
AfterGetUnmoved(c, k) == c

AfterGet(c, k) ==
    IF Has(c, k) THEN [c EXCEPT !.order = MoveToFront(c.order, k)] ELSE c

\* Slip: an overwrite does not count as a use.
OverwriteInPlace(c, k, v) == [c EXCEPT !.items[k] = v]

\* lru.Put of a key the map holds: the value is overwritten in place.
Overwrite(c, k, v) ==
    [order |-> MoveToFront(c.order, k), items |-> [c.items EXCEPT ![k] = v]]

\* lru.Put of a new key, before the bound is looked at.
PushFront(c, k, v) ==
    [order |-> << k >> \o c.order, items |-> [c.items EXCEPT ![k] = v]]

\* Slip: the bound is off by one, so the cache never holds MaxEntries.
AtBound(c) == MaxEntries > 0 /\ Len(c.order) >= MaxEntries

OverBound(c) == MaxEntries > 0 /\ Len(c.order) > MaxEntries

\* Slip: the element leaves the list and its key stays in the map.
EvictFromListOnly(c) == [c EXCEPT !.order = Front(c.order)]

\* The last element leaves the list and its key leaves the map.
EvictOldest(c) ==
    [order |-> Front(c.order),
     items |-> [c.items EXCEPT ![Last(c.order)] = NoValue]]

AfterPut(c, k, v) ==
    IF Has(c, k) THEN Overwrite(c, k, v)
    ELSE LET pushed == PushFront(c, k, v)
         IN  IF OverBound(pushed) THEN EvictOldest(pushed) ELSE pushed

(***************************************************************************)
(* When the two halves of the structure agree: each key of the map stands  *)
(* exactly once in the list, nothing else does, and a bounded cache is not *)
(* over its bound.                                                         *)
(***************************************************************************)
NoDuplicates(s) == \A i, j \in DOMAIN s : s[i] = s[j] => i = j

Listed(s) == {s[i] : i \in DOMAIN s}

WellFormed(c) ==
    /\ NoDuplicates(c.order)
    /\ Listed(c.order) = Cached(c)
    /\ MaxEntries > 0 => Len(c.order) <= MaxEntries

(***************************************************************************)
(* What "recently used" means, for stating properties: used is the set of  *)
(* keys ever read with success or written, since[k] the other keys that    *)
(* were used after the last use of k.                                      *)
(***************************************************************************)
NeverUsed == [k \in Keys |-> {}]

SinceAfterUse(used, since, k) ==
    [j \in Keys |-> IF j = k THEN {}
                    ELSE IF j \in used THEN since[j] \cup {k} ELSE {}]

\* Fewer than MaxEntries other keys were used after k.
RecentlyUsed(used, since, k) ==
    /\ k \in used
    /\ MaxEntries > 0 => Cardinality(since[k]) < MaxEntries
=============================================================================
