----------------------------- MODULE Retrievers -----------------------------
(***************************************************************************)
(* The retrievers that rank by the database's scores (rag/retrieve, over   *)
(* ext/lcpgstore): VectorRetriever, KeywordRetriever, and HybridRetriever, *)
(* for which Store.SearchCandidates joins the best rows of the vector side *)
(* with the best rows of the keyword side and FuseAlpha blends the two     *)
(* scores of each row.                                                     *)
(*                                                                         *)
(* Scores are integers and alpha is Alpha / Den.  Min-max normalisation    *)
(* divides by the spread of a side; both sides' scores are multiplied by   *)
(* both spreads instead, which orders the rows in the same way.  Rounding  *)
(* of floating point numbers is left out, but for the one place where the  *)
(* code relies on it: the similarity floor is printed into its statement.  *)
(***************************************************************************)
EXTENDS Integers, Sequences, SequencesExt

CONSTANTS
    Ids,            \* the rows of the collection
    VectorScores,   \* the cosine similarities they may have to the query
    KeywordScores,  \* the ts_rank scores of the rows that match the query, 0 for
                    \* a row that matches by lacking an excluded word alone
    Depth,          \* rag.DefaultCandidateDepth: rows each side contributes
    Den,            \* alpha is one of 0/Den .. Den/Den
    MaxK,           \* bound: the largest k asked for
    Unit,           \* the similarity of equal vectors
    PrintUnit,      \* what the last printed decimal of a floor is worth
    Floors          \* the similarity floors; one that is not positive is none

ASSUME BoundsAssumption ==
    /\ IsFiniteSet(Ids)
    /\ Depth \in Nat \ {0}
    /\ Den \in Nat \ {0}
    /\ MaxK \in Nat
    /\ VectorScores \subseteq Int
    /\ KeywordScores \subseteq Nat
    /\ Unit \in Nat \ {0}
    /\ PrintUnit \in Nat \ {0}
    /\ Floors \subseteq Int

VARIABLES
    corpus, \* the two scores of every row, NoMatch for one the words do not match
    asked,  \* the retriever, its settings and k of the running retrieval
    cands,  \* the rows SearchCandidates returned, in the order it did
    out,    \* what Retrieve returned
    stage   \* where Retrieve is

vars == << corpus, asked, cands, out, stage >>

\* Less than any rank.  A match may rank 0: tsqueryAny ORs an excluded word with
\* the others, and ts_rank counts the words a row holds.
NoMatch == -1

Corpora == [v : [Ids -> VectorScores], k : [Ids -> KeywordScores \cup {NoMatch}]]

\* What VectorRetriever, KeywordRetriever and HybridRetriever are asked.
Queries ==
    [by : {"vector"}, floor : Floors, k : 0 .. MaxK]
        \cup [by : {"keyword"}, k : 0 .. MaxK]
        \cup [by : {"hybrid"}, alpha : 0 .. Den, k : 0 .. MaxK]

Candidates == [id : Ids, v : VectorScores \cup {0}, k : KeywordScores \cup {0}]

TypeOK ==
    /\ corpus \in Corpora
    /\ asked \in Queries
    /\ Range(cands) \subseteq Candidates
    /\ Range(out) \subseteq Candidates
    /\ stage \in {"searching", "fusing", "returned", "failed"}

Init ==
    /\ corpus \in Corpora
    /\ asked \in Queries
    /\ cands = << >>
    /\ out = << >>
    /\ stage = "searching"

-----------------------------------------------------------------------------
(* The database *)

\* ORDER BY score DESC LIMIT n: which of several equal rows is left open.
Top(rows, score, n) ==
    {T \in SUBSET rows :
        /\ Cardinality(T) = Min({n, Cardinality(rows)})
        /\ \A a \in T, b \in rows \ T : score[a] >= score[b]}

\* The rows that pass the @@ of the statement.
Matching == {id \in Ids : corpus.k[id] # NoMatch}

\* Slip: a side that has not the row scores it -1.
JoinUnknown(vec, kw) ==
    {[id |-> id,
      v |-> IF id \in vec THEN corpus.v[id] ELSE -1,
      k |-> IF id \in kw THEN corpus.k[id] ELSE -1] : id \in vec \cup kw}

\* Slip: the rows only the keyword side has are joined away.
LeftJoin(vec, kw) ==
    {[id |-> id,
      v |-> corpus.v[id],
      k |-> IF id \in kw THEN corpus.k[id] ELSE 0] : id \in vec}

\* The full outer join on uuid: a side that has not the row scores it 0.
Join(vec, kw) ==
    {[id |-> id,
      v |-> IF id \in vec THEN corpus.v[id] ELSE 0,
      k |-> IF id \in kw THEN corpus.k[id] ELSE 0] : id \in vec \cup kw}

SearchCandidates ==
    /\ stage = "searching"
    /\ asked.by = "hybrid"
    /\ \E vec \in Top(Ids, corpus.v, Depth),
          kw \in Top(Matching, corpus.k, Depth) :
          cands' \in SetToSeqs(Join(vec, kw))
    /\ stage' = "fusing"
    /\ UNCHANGED << corpus, asked, out >>

\* The query cannot be embedded, or its statement fails.
SearchFails ==
    /\ stage = "searching"
    /\ stage' = "failed"
    /\ UNCHANGED << corpus, asked, cands, out >>

-----------------------------------------------------------------------------
(* VectorRetriever and KeywordRetriever *)

\* The rows of one statement, each with one score, best first.
Ranked(rows, score) ==
    {s \in SetToSeqs(rows) :
        \A i, j \in DOMAIN s : i < j => score[s[i].id] >= score[s[j].id]}

\* %f, to the nearest printed decimal.
Printed(x) == PrintUnit * ((2 * x + PrintUnit) \div (2 * PrintUnit))

\* Slip: a floor of 0 is compared with as well.
UnderFloorAlways(floor) ==
    {id \in Ids : Unit - corpus.v[id] >= Printed(Unit - floor)}

\* The rows langchaingo's "distance < %f" leaves out: none without a floor.
UnderFloor(floor) ==
    {id \in Ids : floor > 0 /\ Unit - corpus.v[id] >= Printed(Unit - floor)}

\* One statement that ends in LIMIT k: with k = 0 it returns no row.
SearchVector ==
    /\ stage = "searching"
    /\ asked.by = "vector"
    /\ \E T \in Top(Ids \ UnderFloor(asked.floor), corpus.v, asked.k) :
          out' \in Ranked({[id |-> id, v |-> corpus.v[id], k |-> 0] : id \in T}, corpus.v)
    /\ stage' = "returned"
    /\ UNCHANGED << corpus, asked, cands >>

SearchKeyword ==
    /\ stage = "searching"
    /\ asked.by = "keyword"
    /\ \E T \in Top(Matching, corpus.k, asked.k) :
          out' \in Ranked({[id |-> id, v |-> 0, k |-> corpus.k[id]] : id \in T}, corpus.k)
    /\ stage' = "returned"
    /\ UNCHANGED << corpus, asked, cands >>

-----------------------------------------------------------------------------
(* FuseAlpha *)

Extent(scores) == IF scores = {} THEN << 0, 0 >> ELSE << Min(scores), Max(scores) >>

Spread(extent) == extent[2] - extent[1]

\* What a side counts for, times its spread: 0 when all its scores are equal.
Normalise(s, extent) == IF Spread(extent) <= 0 THEN 0 ELSE s - extent[1]

\* The divisor of a side, 1 for a side that does not count.
Scale(extent) == IF Spread(extent) <= 0 THEN 1 ELSE Spread(extent)

\* Slip: alpha weighs the keyword side.
BlendSwapped(rows, alpha, c) ==
    LET v == Extent({r.v : r \in Range(rows)})
        k == Extent({r.k : r \in Range(rows)})
    IN  (Den - alpha) * Normalise(c.v, v) * Scale(k)
            + alpha * Normalise(c.k, k) * Scale(v)

\* Slip: the raw scores are blended.
BlendRaw(rows, alpha, c) == alpha * c.v + (Den - alpha) * c.k

Blend(rows, alpha, c) ==
    LET v == Extent({r.v : r \in Range(rows)})
        k == Extent({r.k : r \in Range(rows)})
    IN  alpha * Normalise(c.v, v) * Scale(k)
            + (Den - alpha) * Normalise(c.k, k) * Scale(v)

\* The place sort.SliceStable gives to j: behind the rows that score more and
\* the equal ones that stood before it.
Place(score, j) ==
    1 + Cardinality({i \in DOMAIN score :
                        score[i] > score[j] \/ (score[i] = score[j] /\ i < j)})

\* Slip: the lowest scores come first.
StableAscending(score) ==
    LET lowest == [i \in DOMAIN score |-> - score[i]]
    IN  [p \in DOMAIN score |-> CHOOSE j \in DOMAIN score : Place(lowest, j) = p]

\* sort.SliceStable by descending score, as the order of the indices.
StableDescending(score) ==
    [p \in DOMAIN score |-> CHOOSE j \in DOMAIN score : Place(score, j) = p]

\* k is a limit only when it is positive.
Cut(rows, k) == IF k > 0 /\ Len(rows) > k THEN SubSeq(rows, 1, k) ELSE rows

FuseAlpha(rows, alpha, k) ==
    LET order == StableDescending([i \in DOMAIN rows |-> Blend(rows, alpha, rows[i])])
    IN  Cut([i \in DOMAIN rows |-> rows[order[i]]], k)

Fuse ==
    /\ stage = "fusing"
    /\ out' = FuseAlpha(cands, asked.alpha, asked.k)
    /\ stage' = "returned"
    /\ UNCHANGED << corpus, asked, cands >>

\* The next retrieval, over the same collection.
Ask ==
    /\ stage \in {"returned", "failed"}
    /\ asked' \in Queries
    /\ cands' = << >>
    /\ out' = << >>
    /\ stage' = "searching"
    /\ UNCHANGED corpus

Next ==
    \/ SearchVector
    \/ SearchKeyword
    \/ SearchCandidates
    \/ SearchFails
    \/ Fuse
    \/ Ask

Spec == Init /\ [][Next]_vars

-----------------------------------------------------------------------------
Fused == stage = "returned" /\ asked.by = "hybrid"
\* The places the two sides can fill by themselves.
Limit == IF asked.k > 0 THEN Min({asked.k, Depth}) ELSE Depth
Places == 1 .. Min({Limit, Len(out)})

(***************************************************************************)
(* The anchor of fuse_test.go at alpha = 1: exactly as pure vector search. *)
(* The first k rows stand in the order of their similarity, and no row     *)
(* left out is closer than one of them.  When k is over Depth this is      *)
(* asked of the first Depth rows; those behind them come from the keyword  *)
(* side.  A row that only the keyword side found is blended as if its      *)
(* similarity were 0, which breaks the anchor below 0.                     *)
(***************************************************************************)
VectorEndpoint ==
    Fused /\ asked.alpha = Den =>
        /\ Len(out) >= Min({Limit, Cardinality(Ids)})
        /\ \A i, j \in Places : i < j => corpus.v[out[i].id] >= corpus.v[out[j].id]
        /\ \A i \in Places, id \in Ids :
              corpus.v[id] > corpus.v[out[i].id] =>
                  \E j \in 1 .. i-1 : out[j].id = id

(***************************************************************************)
(* The anchor at alpha = 0: exactly as pure keyword search.  The matching  *)
(* rows come first, by rank.  A row the words do not match is blended as   *)
(* if it ranked 0, which ties it with the matches of an excluded word.     *)
(***************************************************************************)
KeywordEndpoint ==
    Fused /\ asked.alpha = 0 =>
        \A i \in Places, id \in Ids :
            corpus.k[id] > corpus.k[out[i].id] =>
                \E j \in 1 .. i-1 : out[j].id = id

(***************************************************************************)
(* What is left of the first anchor at any similarity: alpha = 1 finds as  *)
(* many rows as vector search, and neither the cut at Depth nor a row of   *)
(* the keyword side alone puts a row of positive similarity behind, or out *)
(* for, one that is less close.                                            *)
(***************************************************************************)
CloseRowsFirst ==
    Fused /\ asked.alpha = Den =>
        /\ Len(out) >= Min({Limit, Cardinality(Ids)})
        /\ \A i \in Places, id \in Ids :
              corpus.v[id] > 0 /\ corpus.v[id] > corpus.v[out[i].id] =>
                  \E j \in 1 .. i-1 : out[j].id = id

(***************************************************************************)
(* What is left of the second one with excluded words in the query: alpha  *)
(* = 0 puts no row that holds a word of the query behind, or out for, one  *)
(* that ranks lower or does not match.                                     *)
(***************************************************************************)
RankedRowsFirst ==
    Fused /\ asked.alpha = 0 =>
        \A i \in Places, id \in Ids :
            corpus.k[id] > 0 /\ corpus.k[id] > corpus.k[out[i].id] =>
                \E j \in 1 .. i-1 : out[j].id = id

(***************************************************************************)
(* Blending and cutting off at Depth never rank a row below, or keep it    *)
(* out for, a row that is worse on both sides.                             *)
(* Neither the depth of the two searches, nor the 0 for a missing side,    *)
(* nor the normalisation may turn a better row into a worse one, unless    *)
(* the better row's own similarity is below that 0.                        *)
(***************************************************************************)
Dominates(a, b) ==
    /\ corpus.v[a] >= 0
    /\ corpus.v[a] > corpus.v[b]
    /\ corpus.k[a] > corpus.k[b]

BetterOnBothSidesFirst ==
    Fused /\ asked.alpha \in 1 .. Den-1 =>
        \A i \in DOMAIN out, a \in Ids :
            Dominates(a, out[i].id) => \E j \in 1 .. i-1 : out[j].id = a

(***************************************************************************)
(* Why each side is normalised first: neither may dominate through         *)
(* magnitude alone.  Measuring one side on another scale, twice the        *)
(* numbers and shifted, ranks the same candidates the same way.            *)
(***************************************************************************)
Rescaled(rows) == [i \in DOMAIN rows |-> [rows[i] EXCEPT !.v = 2 * @ + 3]]

IdsOf(rows) == [i \in DOMAIN rows |-> rows[i].id]

ScaleDoesNotMatter ==
    Fused =>
        IdsOf(out) = IdsOf(FuseAlpha(Rescaled(cands), asked.alpha, asked.k))

(***************************************************************************)
(* A vector search returns what is close enough, closest first.  The floor *)
(* goes through a float32, is turned into a distance and printed into the  *)
(* statement: no row lies under it by half the last decimal, and a row     *)
(* that is over it by more is left out only for k rows at least as close.  *)
(* A floor that is not positive keeps no row out, not even one of negative *)
(* similarity.                                                             *)
(***************************************************************************)
ClearlyOver(floor, id) == floor <= 0 \/ 2 * (corpus.v[id] - floor) > PrintUnit
ClearlyUnder(floor, id) == floor > 0 /\ 2 * (floor - corpus.v[id]) >= PrintUnit

ClosestOverTheFloor ==
    stage = "returned" /\ asked.by = "vector" =>
        /\ \A i, j \in DOMAIN out :
              i < j => corpus.v[out[i].id] >= corpus.v[out[j].id]
        /\ \A i \in DOMAIN out : ~ClearlyUnder(asked.floor, out[i].id)
        /\ \A id \in Ids :
              ClearlyOver(asked.floor, id) =>
                  \/ \E i \in DOMAIN out : out[i].id = id
                  \/ /\ Len(out) = asked.k
                     /\ \A i \in DOMAIN out : corpus.v[out[i].id] >= corpus.v[id]
=============================================================================
