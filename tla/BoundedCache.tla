---------------------------- MODULE BoundedCache ----------------------------
(***************************************************************************)
(* What a caller may rely on from a cache made by NewLRU, without saying   *)
(* which key is given up: the contract of the interface rewrite.Cache      *)
(* together with the bound.                                                *)
(***************************************************************************)
EXTENDS Integers, FiniteSets

CONSTANTS Keys, Values, NoValue, MaxEntries

VARIABLES
    store,   \* what is stored for each key, NoValue for nothing
    answer   \* the last call and what it answered

Stored == {k \in Keys : store[k] # NoValue}

Init ==
    /\ store = [k \in Keys |-> NoValue]
    /\ answer = [op |-> "none", key |-> NoValue, value |-> NoValue]

\* A Get answers what is stored and stores nothing.
Get(k) ==
    /\ answer' = [op |-> "Get", key |-> k, value |-> store[k]]
    /\ UNCHANGED store

\* A Put that has room for the key forgets nothing.
PutKeepingAll(k, v) ==
    /\ k \in Stored \/ MaxEntries <= 0 \/ Cardinality(Stored) < MaxEntries
    /\ store' = [store EXCEPT ![k] = v]
    /\ answer' = [op |-> "Put", key |-> k, value |-> v]

\* A Put of a new key into a full cache forgets exactly one other key.
PutForgettingOne(k, v) ==
    /\ k \notin Stored
    /\ MaxEntries > 0
    /\ Cardinality(Stored) = MaxEntries
    /\ \E old \in Stored :
          store' = [store EXCEPT ![k] = v, ![old] = NoValue]
    /\ answer' = [op |-> "Put", key |-> k, value |-> v]

Next ==
    \E k \in Keys :
        \/ Get(k)
        \/ \E v \in Values : PutKeepingAll(k, v) \/ PutForgettingOne(k, v)

Spec == Init /\ [][Next]_<< store, answer >>
=============================================================================
