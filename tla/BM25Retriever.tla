--------------------------- MODULE BM25Retriever ---------------------------
(***************************************************************************)
(* BM25Retriever.Retrieve (rag/retrieve/retrieve.go) called by several     *)
(* goroutines over one StatsCache and one pool of database connections     *)
(* (ext/lcpgstore).  A retrieval is up to three statements: the statistics,*)
(* unless they are cached, the terms of the query, and the rows that match *)
(* it.  Each takes a connection from the pool and gives it back; the first *)
(* one waits for its connection with the mutex of the cache held.  The     *)
(* index may be written between any two of them.                           *)
(*                                                                         *)
(* The query matches every row, so that a row is left unscored only when   *)
(* the statistics do not know it.  Which order the scores give is the      *)
(* subject of BM25Ranking.                                                 *)
(***************************************************************************)
EXTENDS StatsCache

CONSTANT PoolSize \* the connections of the pool

ASSUME PoolAssumption == PoolSize \in Nat \ {0}
ASSUME CallersAssumption == IsFiniteSet(Callers)

VARIABLES
    free,    \* the connections nobody uses
    at,      \* where each caller is in Retrieve
    matched, \* the content of the index MatchingRows saw
    found,   \* what each caller's last Retrieve returned
    need     \* history: what the floor was when the caller called

bmvars == << vars, free, at, matched, found, need >>
Own == << at, matched, found, need >>

BMLocations == {"idle", "stats", "terms", "tokenising", "rows", "matching"}

NoResult == [kind |-> "none"]
Nothing == [kind |-> "nothing"]
Error == [kind |-> "error"]
Ranked(rows, scored) == [kind |-> "ranked", rows |-> rows, scored |-> scored]

BMTypeOK ==
    /\ TypeOK
    /\ free \in 0 .. PoolSize
    /\ at \in [Callers -> BMLocations]
    /\ matched \in [Callers -> Contents]
    /\ need \in [Callers -> Nat]
    /\ \A c \in Callers :
          \/ found[c] \in {NoResult, Nothing, Error}
          \/ /\ found[c].kind = "ranked"
             /\ found[c].scored \subseteq found[c].rows

BMInit ==
    /\ Init
    /\ free = PoolSize
    /\ at = [c \in Callers |-> "idle"]
    /\ matched = [c \in Callers |-> FirstBuild]
    /\ found = [c \in Callers |-> NoResult]
    /\ need = [c \in Callers |-> 0]

Acquire == free > 0 /\ free' = free - 1
Release == free' = free + 1

MoveTo(c, l) == at' = [at EXCEPT ![c] = l]

Leave(c, r) ==
    /\ found' = [found EXCEPT ![c] = r]
    /\ matched' = [matched EXCEPT ![c] = FirstBuild]
    /\ MoveTo(c, "idle")

-----------------------------------------------------------------------------
Retrieve(c) ==
    /\ at[c] = "idle"
    /\ CallStats(c)
    /\ need' = [need EXCEPT ![c] = floor]
    /\ found' = [found EXCEPT ![c] = NoResult]
    /\ MoveTo(c, "stats")
    /\ UNCHANGED << free, matched >>

\* r.stats.Stats runs; TermStats holds a connection while it does.
LookUpStats(c) ==
    /\ LockStats(c) \/ Serve(c)
    /\ UNCHANGED << free, Own >>

StartTermStats(c) ==
    /\ BeginLoad(c)
    /\ Acquire
    /\ UNCHANGED Own

FinishTermStats(c) ==
    /\ EndLoad(c) \/ FailLoad(c)
    /\ Release
    /\ UNCHANGED Own

\* The wait for a connection ends with the caller's context, not with one.
NoConnection(c) ==
    /\ pc[c] = "check"
    /\ ~Fresh
    /\ Unlock
    /\ Return(c, Failed)
    /\ UNCHANGED << index, loaded, stats, age, snap, floor, free, Own >>

StatsFailed(c) ==
    /\ at[c] = "stats"
    /\ pc[c] = "idle"
    /\ answer[c] = Failed
    /\ Leave(c, Error)
    /\ UNCHANGED << vars, free, need >>

StatsKnown(c) ==
    /\ at[c] = "stats"
    /\ pc[c] = "idle"
    /\ answer[c] # Failed
    /\ MoveTo(c, "terms")
    /\ UNCHANGED << vars, free, matched, found, need >>

StartQueryTerms(c) ==
    /\ at[c] = "terms"
    /\ Acquire
    /\ MoveTo(c, "tokenising")
    /\ UNCHANGED << vars, matched, found, need >>

\* Slip: a query without terms gives its connection back twice.
NoTermsReleasedTwice(c) ==
    /\ at[c] = "tokenising"
    /\ free' = free + 2
    /\ Leave(c, Nothing)
    /\ UNCHANGED << vars, need >>

\* A query of stop words only has no terms: nothing is found.
NoTerms(c) ==
    /\ at[c] = "tokenising"
    /\ Release
    /\ Leave(c, Nothing)
    /\ UNCHANGED << vars, need >>

Terms(c) ==
    /\ at[c] = "tokenising"
    /\ Release
    /\ MoveTo(c, "rows")
    /\ UNCHANGED << vars, matched, found, need >>

StartMatchingRows(c) ==
    /\ at[c] = "rows"
    /\ Acquire
    /\ matched' = [matched EXCEPT ![c] = index]
    /\ MoveTo(c, "matching")
    /\ UNCHANGED << vars, found, need >>

\* BM25Score is 0 for a row the statistics do not know, and for every row
\* when they are those of an empty collection.
Scored(st, rows) == {row \in rows : row \in st.rows}

MatchingRows(c) ==
    /\ at[c] = "matching"
    /\ Release
    /\ Leave(c, Ranked(matched[c].rows, Scored(answer[c], matched[c].rows)))
    /\ UNCHANGED << vars, need >>

\* Slip: the failed statement keeps its connection.
StatementFailsUnreleased(c) ==
    /\ at[c] \in {"tokenising", "matching"}
    /\ Leave(c, Error)
    /\ UNCHANGED << vars, free, need >>

StatementFails(c) ==
    /\ at[c] \in {"tokenising", "matching"}
    /\ Release
    /\ Leave(c, Error)
    /\ UNCHANGED << vars, need >>

\* The wait for a connection ends with the caller's context.
NoConnectionLater(c) ==
    /\ at[c] \in {"terms", "rows"}
    /\ Leave(c, Error)
    /\ UNCHANGED << vars, free, need >>

Elsewhere ==
    /\ (\E w \in Writers : Reingest(w)) \/ Tick
    /\ UNCHANGED << free, Own >>

-----------------------------------------------------------------------------
RunRetrieve(c) ==
    \/ LookUpStats(c)
    \/ StartTermStats(c)
    \/ FinishTermStats(c)
    \/ StatsFailed(c)
    \/ StatsKnown(c)
    \/ StartQueryTerms(c)
    \/ NoTerms(c)
    \/ Terms(c)
    \/ StartMatchingRows(c)
    \/ MatchingRows(c)
    \/ StatementFails(c)

BMNext ==
    \/ \E c \in Callers :
          Retrieve(c) \/ RunRetrieve(c) \/ NoConnection(c) \/ NoConnectionLater(c)
    \/ Elsewhere

(***************************************************************************)
(* A statement that runs ends, and a caller that waits for the mutex or    *)
(* for a connection gets it if it is free again and again.  No context has *)
(* to expire for a retrieval to get on.                                    *)
(***************************************************************************)
BMFairness ==
    \A c \in Callers :
        /\ WF_bmvars(RunRetrieve(c))
        /\ SF_bmvars(LookUpStats(c))
        /\ SF_bmvars(StartTermStats(c) \/ StartQueryTerms(c) \/ StartMatchingRows(c))

WritersFairness ==
    \A w \in Writers : WF_bmvars(Invalidate(w) /\ UNCHANGED << free, Own >>)

BMSpec == BMInit /\ [][BMNext]_bmvars
BMFairSpec == BMSpec /\ BMFairness /\ WritersFairness

-----------------------------------------------------------------------------
(***************************************************************************)
(* Retrieve promises to score every matching chunk.  A retrieval that      *)
(* began after an Invalidate scores every matching row that was written    *)
(* before that Invalidate; a row is without a score only when it was added *)
(* since.  The statistics are older than the rows whenever they come from  *)
(* the cache, so this is what Invalidate, the mutex and the order of the   *)
(* statements have to bring about together.                                *)
(***************************************************************************)
UnscoredOnlyIfNew ==
    \A c \in Callers :
        found[c].kind = "ranked" =>
            \A row \in found[c].rows \ found[c].scored : row > need[c]

\* Every connection is either free or used by one running statement.
Running ==
    {c \in Callers : pc[c] = "load" \/ at[c] \in {"tokenising", "matching"}}

ConnectionsAccounted == free + Cardinality(Running) = PoolSize

(***************************************************************************)
(* Every retrieval ends, on a pool of any size: the caller that holds the  *)
(* mutex waits for connections, and no caller that holds a connection ever *)
(* waits for the mutex.                                                    *)
(***************************************************************************)
EveryRetrieveReturns == \A c \in Callers : at[c] = "stats" ~> at[c] = "idle"
=============================================================================
