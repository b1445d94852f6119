---------------------------- MODULE BM25Ranking ----------------------------
(***************************************************************************)
(* What BM25Retriever.Retrieve returns and in which order: BM25Score over  *)
(* the statistics of TermStats (rag/retrieve, ext/lcpgstore), for the rows *)
(* the full-text query matches.  BM25Retriever has the same calls by       *)
(* several goroutines and leaves the scores out; here there is one caller, *)
(* whose statistics are loaded once, and an index that is written to       *)
(* between his statements.                                                 *)
(*                                                                         *)
(* A row never changes, it is added and removed; its text is the number of *)
(* times it holds each lexeme.  A score is a fraction of integers.  The    *)
(* logarithm of the IDF is not: all that is kept of it is that it is       *)
(* positive and that a lexeme in fewer rows has more of it.                *)
(***************************************************************************)
EXTENDS Integers, FiniteSets, Sequences, SequencesExt

CONSTANTS
    Ids,       \* the rows there may be
    Lexemes,   \* the lexemes they and the queries may hold
    MaxTF,     \* bound: how often a row holds a lexeme
    Params,    \* the k1 and b of the retrievers, b in parts of BDen
    BDen,
    MaxK,      \* bound: the largest k asked for
    MaxWrites  \* bound: the rows added or removed

ASSUME BoundsAssumption ==
    /\ IsFiniteSet(Ids) /\ IsFiniteSet(Lexemes)
    /\ {MaxTF, MaxK, MaxWrites} \subseteq Nat
    /\ BDen \in Nat \ {0}
    /\ Params \subseteq [k1 : Nat, b : 0 .. BDen]

VARIABLES
    tf,      \* the text of every row
    present, \* the rows of the collection
    param,   \* k1 and b of this retriever
    stats,   \* the cached statistics
    asked,   \* the query, whether all of it must match, and k
    rows,    \* the rows the last MatchingRows returned
    out,     \* what the last Retrieve returned
    writes,  \* the writes so far
    stage    \* where Retrieve is

vars == << tf, present, param, stats, asked, rows, out, writes, stage >>

SumOver(f, S) == FoldSet(LAMBDA x, acc : f[x] + acc, 0, S)

Frequencies == [Lexemes -> 0 .. MaxTF]

\* A query of websearch_to_tsquery: what it asks for and what it excludes.
Queries == [for : SUBSET Lexemes, not : SUBSET Lexemes, all : BOOLEAN, k : 0 .. MaxK]

-----------------------------------------------------------------------------
(* TermStats *)

Length(text) == SumOver(text, Lexemes)

\* Slip: every row counts, whether it has a lexeme or not.
TermStatsOfAll(S) ==
    [tf |-> [r \in S |-> tf[r]],
     len |-> [r \in S |-> Length(tf[r])],
     df |-> [t \in Lexemes |-> Cardinality({r \in S : tf[r][t] > 0})],
     n |-> Cardinality(S),
     total |-> SumOver([r \in S |-> Length(tf[r])], S)]

\* The statement returns one line for each lexeme of a row, and so nothing
\* for a row without any.  AvgLen is total / n.
TermStats(S) ==
    LET known == {r \in S : Length(tf[r]) > 0}
    IN  [tf |-> [r \in known |-> tf[r]],
         len |-> [r \in known |-> Length(tf[r])],
         df |-> [t \in Lexemes |-> Cardinality({r \in known : tf[r][t] > 0})],
         n |-> Cardinality(known),
         total |-> SumOver([r \in known |-> Length(tf[r])], known)]

-----------------------------------------------------------------------------
(* QueryTerms and MatchingRows *)

\* to_tsvector of the query does not know what the query excludes.
QueryTerms(q) == q.for \cup q.not

\* Excluding is one more condition, and OR joins it like the others.
Matches(q, text) ==
    LET held == {t \in Lexemes : text[t] > 0}
    IN  IF q.all THEN q.for \subseteq held /\ q.not \cap held = {}
        ELSE q.for \cap held # {} \/ ~(q.not \subseteq held)

-----------------------------------------------------------------------------
(* BM25Score *)

\* Slip: without the 1 inside it the logarithm turns negative at n = 2 df.
IdfUnguarded(st, t) == st.n - 2 * st.df[t]

\* Slip: the fraction inside it is upside down.
IdfUpsideDown(st, t) == st.df[t] + 1

Idf(st, t) == st.n + 1 - st.df[t]

\* Slip: the length is divided into the average.
TermScoreLongFirst(st, r, t, par) ==
    LET f == st.tf[r][t]
        scale == BDen * st.n * st.len[r]
    IN  << Idf(st, t) * f * (par.k1 + 1) * scale,
           f * scale + par.k1 * ((BDen - par.b) * st.n * st.len[r] + par.b * st.total) >>

\* One summand of the score, with both its parts times BDen and total.
TermScore(st, r, t, par) ==
    LET f == st.tf[r][t]
        scale == BDen * st.total
    IN  << Idf(st, t) * f * (par.k1 + 1) * scale,
           f * scale + par.k1 * ((BDen - par.b) * st.total + par.b * st.len[r] * st.n) >>

Plus(x, y) == << x[1] * y[2] + y[1] * x[2], x[2] * y[2] >>
Greater(x, y) == x[1] * y[2] > y[1] * x[2]

\* A term the row does not hold is skipped, as is every term for a row the
\* statistics do not know, and when they know none.
Summand(st, r, t, par) ==
    IF r \in DOMAIN st.tf /\ st.tf[r][t] > 0 THEN TermScore(st, r, t, par) ELSE << 0, 1 >>

BM25Score(st, r, terms, par) ==
    FoldSet(LAMBDA t, acc : Plus(Summand(st, r, t, par), acc), << 0, 1 >>, terms)

\* The place sort.SliceStable gives to j: behind the rows that score more and
\* the equal ones that stood before it.
Place(score, j) ==
    1 + Cardinality({i \in DOMAIN score :
                        \/ Greater(score[i], score[j])
                        \/ ~ Greater(score[j], score[i]) /\ i < j})

\* By descending score, cut off at a positive k.
Rank(st, s, q, par) ==
    LET score == [i \in DOMAIN s |-> BM25Score(st, s[i], QueryTerms(q), par)]
        ranked == [p \in DOMAIN s |-> s[CHOOSE j \in DOMAIN s : Place(score, j) = p]]
    IN  IF q.k > 0 /\ Len(s) > q.k THEN SubSeq(ranked, 1, q.k) ELSE ranked

-----------------------------------------------------------------------------
NoQuery == [for |-> {}, not |-> {}, all |-> FALSE, k |-> 0]

Init ==
    /\ tf \in [Ids -> Frequencies]
    /\ present \in SUBSET Ids
    /\ param \in Params
    /\ stats = TermStats({})
    /\ asked = NoQuery
    /\ rows = {}
    /\ out = << >>
    /\ writes = 0
    /\ stage = "stats"

\* The first retrieval loads the statistics; nobody invalidates them here.
LoadStats ==
    /\ stage = "stats"
    /\ stats' = TermStats(present)
    /\ stage' = "idle"
    /\ UNCHANGED << tf, present, param, asked, rows, out, writes >>

\* A row is added or removed.
Write ==
    /\ stage \in {"idle", "matching"}
    /\ writes < MaxWrites
    /\ \E r \in Ids :
          present' = IF r \in present THEN present \ {r} ELSE present \cup {r}
    /\ writes' = writes + 1
    /\ UNCHANGED << tf, param, stats, asked, rows, out, stage >>

\* A query without terms finds nothing, and no rows are asked for.
NoTerms ==
    /\ stage = "idle"
    /\ \E q \in Queries : QueryTerms(q) = {} /\ asked' = q
    /\ rows' = {}
    /\ out' = << >>
    /\ UNCHANGED << tf, present, param, stats, writes, stage >>

Terms ==
    /\ stage = "idle"
    /\ \E q \in Queries : QueryTerms(q) # {} /\ asked' = q
    /\ rows' = {}
    /\ out' = << >>
    /\ stage' = "matching"
    /\ UNCHANGED << tf, present, param, stats, writes >>

\* The rows come in any order, and the retriever ranks them.
MatchAndRank ==
    /\ stage = "matching"
    /\ rows' = {r \in present : Matches(asked, tf[r])}
    /\ \E s \in SetToSeqs(rows') : out' = Rank(stats, s, asked, param)
    /\ stage' = "idle"
    /\ UNCHANGED << tf, present, param, stats, asked, writes >>

Next == LoadStats \/ Write \/ NoTerms \/ Terms \/ MatchAndRank

Spec == Init /\ [][Next]_vars

-----------------------------------------------------------------------------
(***************************************************************************)
(* The types, and that every row the statistics count has a length: AvgLen *)
(* is 0 only when there is no row, which is what guards the division.      *)
(***************************************************************************)
TypeOK ==
    /\ tf \in [Ids -> Frequencies]
    /\ present \subseteq Ids
    /\ param \in Params
    /\ DOMAIN stats.tf \subseteq Ids
    /\ stats.n = Cardinality(DOMAIN stats.tf)
    /\ stats.total >= stats.n
    /\ asked \in Queries
    /\ rows \subseteq Ids
    /\ Range(out) \subseteq rows
    /\ IsInjective(out)
    /\ writes \in 0 .. MaxWrites
    /\ stage \in {"stats", "idle", "matching"}

Before(a, i) == \E j \in 1 .. i-1 : out[j] = a

Known == rows \cap DOMAIN stats.tf
Asked == QueryTerms(asked)

(***************************************************************************)
(* A row that holds every term of the query at least as often as another   *)
(* in no longer a text, and is better in something k1 and b let count,     *)
(* comes before it and is not cut off for it.  Saturation and length       *)
(* normalisation may order rows that are better in one thing and worse in  *)
(* another, but not turn this around, whatever rows were counted.          *)
(***************************************************************************)
Dominates(a, b) ==
    /\ \A t \in Asked : tf[a][t] >= tf[b][t]
    /\ Length(tf[a]) <= Length(tf[b])
    /\ \E t \in Asked :
          \/ tf[a][t] > 0 /\ tf[b][t] = 0
          \/ param.k1 > 0 /\ tf[a][t] > tf[b][t]
          \/ /\ param.k1 > 0 /\ param.b > 0
             /\ tf[a][t] > 0 /\ Length(tf[a]) < Length(tf[b])

MoreAndShorterFirst ==
    \A a \in Known, i \in DOMAIN out :
        out[i] \in Known /\ Dominates(a, out[i]) => Before(a, i)

(***************************************************************************)
(* The point of BM25 here: of two rows of the same length that hold one    *)
(* term of the query each, equally often, the one whose term is in fewer   *)
(* of the counted rows comes first.                                        *)
(***************************************************************************)
RowsWith(t) == {r \in DOMAIN stats.tf : tf[r][t] > 0}

OnlyTerm(r, t) == {u \in Asked : tf[r][u] > 0} = {t}

RarerTermFirst ==
    \A a \in Known, i \in DOMAIN out, t, u \in Asked :
        /\ out[i] \in Known
        /\ OnlyTerm(a, t) /\ OnlyTerm(out[i], u)
        /\ tf[a][t] = tf[out[i]][u]
        /\ Length(tf[a]) = Length(tf[out[i]])
        /\ Cardinality(RowsWith(t)) < Cardinality(RowsWith(u))
        => Before(a, i)

(***************************************************************************)
(* A row that holds a term of the query is not cut off for, or ranked      *)
(* behind, a row that only matches because it lacks an excluded word, nor  *)
(* a row added since the statistics were loaded: a term in most of the     *)
(* rows still counts for a row and never against it.                       *)
(***************************************************************************)
Holds(r) == r \in Known /\ \E t \in Asked : tf[r][t] > 0

HeldTermsCount ==
    \A a \in rows, i \in DOMAIN out : Holds(a) /\ ~Holds(out[i]) => Before(a, i)
=============================================================================
