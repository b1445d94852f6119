-------------------------------- MODULE LRU --------------------------------
(***************************************************************************)
(* One rewrite cache (rag/rewrite/cache.go, NewLRU) driven by any sequence *)
(* of Get and Put calls.  The cache is not safe for concurrent use and     *)
(* says nothing of it: its one caller holds a mutex around each call, which*)
(* is the subject of Rewriter.  Here every call is one step.               *)
(***************************************************************************)
EXTENDS LruOps

VARIABLES
    cache,  \* the list and the map
    reply,  \* the last call and its answer
    used,   \* history: the keys used so far
    since   \* history: the other keys used after each key's last use

vars == << cache, reply, used, since >>

Replies == [op : {"none", "Get", "Put"}, key : Keys \cup {NoValue},
            value : Values \cup {NoValue}]

TypeOK ==
    /\ cache \in Caches
    /\ reply \in Replies
    /\ used \subseteq Keys
    /\ since \in [Keys -> SUBSET Keys]

Init ==
    /\ cache = NewLRU
    /\ reply = [op |-> "none", key |-> NoValue, value |-> NoValue]
    /\ used = {}
    /\ since = NeverUsed

Use(k) ==
    /\ used' = used \cup {k}
    /\ since' = SinceAfterUse(used, since, k)

Get(k) ==
    /\ cache' = AfterGet(cache, k)
    /\ reply' = [op |-> "Get", key |-> k, value |-> GetValue(cache, k)]
    /\ IF Has(cache, k) THEN Use(k) ELSE UNCHANGED << used, since >>

Put(k, v) ==
    /\ cache' = AfterPut(cache, k, v)
    /\ reply' = [op |-> "Put", key |-> k, value |-> v]
    /\ Use(k)

Next == \E k \in Keys : Get(k) \/ \E v \in Values : Put(k, v)

Spec == Init /\ [][Next]_vars

-----------------------------------------------------------------------------
(***************************************************************************)
(* The list and the map describe the same entries: each cached key stands  *)
(* exactly once in the list, nothing else does, and a bounded cache is     *)
(* never over its bound after a call.  If a Put or an eviction updates one *)
(* half only, a key either can never be evicted or is evicted while live.  *)
(***************************************************************************)
Consistent == WellFormed(cache)

(***************************************************************************)
(* The policy the comment on lru names, stated without the list: a key is  *)
(* cached exactly when it was used and fewer than MaxEntries different other keys *)
(* were used after it.  Neither side is a restatement of a branch: it is   *)
(* what Get's and Put's MoveToFront, PushFront and the eviction of Back    *)
(* come to over any sequence of calls.                                     *)
(***************************************************************************)
ExactlyMostRecent ==
    \A k \in Keys : Has(cache, k) <=> RecentlyUsed(used, since, k)

(***************************************************************************)
(* The cache implements a bounded key-value store that forgets one key     *)
(* only when a new key would take it over its bound, and whose Get answers *)
(* what was last put.                                                      *)
(***************************************************************************)
Abstract == INSTANCE BoundedCache WITH store <- cache.items, answer <- reply

ImplementsBoundedCache == Abstract!Spec

=============================================================================
