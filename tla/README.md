# A verification of jotter-ai in TLA+

jotter-ai is a Go library for retrieval-augmented answers: it rewrites a
question, retrieves chunks of a corpus for it from Postgres with pgvector, and
lets a model answer from them. Each of its packages is small, but several are
meant to be shared by the goroutines of a server, and that is where they are
hard to test: a mutex that is released over a model call, statistics that go
stale under a reingest, a pool that a retrieval waits for while it holds a lock,
two rankings that are joined and blended, texts that are cut in the middle of a
character. The modules here model those parts, TLC checks them on small
instances, and TLAPS proves the central results for every instance.

## Inventory

| component | state | operations | what makes it correct |
|---|---|---|---|
| rewrite cache, `rag/rewrite/cache.go` | a list of keys by recency, a map from key to entry, a bound | `Get`, `Put` | list and map agree; exactly the most recently used keys are kept |
| `LLMRewriter`, `rag/rewrite/rewrite.go` | a mutex and the cache | `Rewrite` | the cache survives concurrent callers; nobody is served another conversation's rewrite; no needless model call; no path keeps the mutex |
| chat adapter, `ext/lcchat`, `llm` | none | `Complete` | an answer without a choice is an error and not an empty text; roles are mapped, never passed on |
| `StatsCache`, `rag/retrieve/stats.go` | a mutex, the statistics, their age | `Stats`, `Invalidate` | an `Invalidate` is final; answers never go back; old statistics expire; a failed load keeps nobody waiting |
| `BM25Retriever`, `rag/retrieve/retrieve.go` | none but its statistics cache | `Retrieve` | every matching chunk is scored; connections are given back; no deadlock of mutex and pool; a row that is better for the query ranks before one that is worse |
| `HybridRetriever`, `FuseAlpha` | none | `Retrieve`, `FuseAlpha` | both ends of alpha are the pure rankings; better on both sides is ranked better |
| `VectorRetriever`, `KeywordRetriever` | none | `Retrieve` | the closest rows over the floor, and no others |
| `Store`, `ext/lcpgstore` | one connection for langchaingo, a pool for its own statements | `New`, `Build`, `Search*`, `TermStats`, `QueryTerms`, `MatchingRows`, `RemoveCollection`, `Close` | nothing leaks from a failed `New` or after `Close`; `Close` returns |
| answer engine, `rag/answer` | its instructions | `GenerateAnswerWithContext` | the chunks returned are those the answer was built from, and were retrieved for this conversation; no stored turn becomes a system message |
| chunking, `ext/lcsplit`, `rag/chunk` | none | `ChunkDocuments`, `NormalizeWhitespace` | no blank or broken chunk; no one-byte letter is lost, no two words are joined |
| PDF extraction, `ext/fitzpdf` | the open document | `Load`, `Extract` | all pages or an error, and the document is closed |
| `ext/lcembed`, `rag/defaults.go`, prompts | none | constructors, constants | |

The README of the repository also lists `rag/corpus`, which is not in it.

How they interact: the engine calls the rewriter, then a retriever with the
rewritten question, then the chat model. The rewriter calls the chat model
outside its mutex. The BM25 retriever asks the statistics cache, which calls the
store *inside* its mutex. The store runs vector search and `Build` on its single
connection and everything else on the pool. Whoever reingests calls
`RemoveCollection`, `Build` and `Invalidate`, three calls that nothing holds
together; before `Build` it extracts the documents and has them chunked. There
are no background goroutines and nothing is persisted outside Postgres, so the
hard behaviours are interleavings, failing steps, stale state and waiting;
crashes and message loss do not occur within the library. `PROJECT.json` lists
each hazard at the line where it bites.

## Modules

| module | models | uses |
|---|---|---|
| `LruOps` | the operations of `lru` as pure operators on a record of list and map | |
| `LRU` | one cache under any sequence of `Get` and `Put` | `LruOps`, `BoundedCache` |
| `BoundedCache` | abstract: a bounded store that forgets only when a new key needs the room | |
| `Rewriter` | `LLMRewriter.Rewrite` by several callers over one cache | `LruOps` |
| `Engine` | `GenerateAnswerWithContext` by several callers of one engine | extends `Rewriter` |
| `StatsCache` | `Stats`, `Invalidate` and the writers of the index | `FreshStats` |
| `FreshStats` | abstract: what a caller of `Stats` may rely on | |
| `BM25Retriever` | `Retrieve` by several callers over one statistics cache and one pool | extends `StatsCache` |
| `BM25Ranking` | what `BM25Retriever` matches, scores and returns, over statistics of another moment | |
| `Retrievers` | the vector, keyword and hybrid retriever: `Search`, `SearchKeyword`, `SearchCandidates`, `FuseAlpha` | |
| `Store` | `New`, `Close`, and statements on both kinds of connection | |
| `Ingest` | `fitzpdf.Load`, `NormalizeWhitespace`, `ChunkDocuments` and `Build`, as a caller strings them together | |
| `MC*` | the constants of the instances TLC checks | |
| `LruLemmas`, `*_proofs` | lemmas and theorems | |

`LruOps` keeps the list and the map as two components because the code does: an
operation that changes one and forgets the other is expressible, and
`Consistent` rejects it. `Position`, `NoDuplicates`, `WellFormed` and the
history operators state properties and model no code.

In `Rewriter` a call is `Call`, `LockGet`, `GetHit` or `GetMiss`, `Complete` or
`CompleteBlank` or `CompleteFails`, `LockPut`, `Probe`, `Store`. The lookup is
one step, for it reads and writes under the mutex. The store is two, so that the
mutex is what keeps them together in the model as in the code. A rewrite
carries the messages that were sent for it, which is how the model tells whose
rewrite a cached text is; the program does not hold them. Texts are sequences of
tokens in which only roles and line breaks mean anything: that is all the cache
key depends on.

In `Engine` a call is `Generate`, the steps of the rewriter (`RewriteQuestion`),
`RewriteFailed`, or `Retrieve` or `RetrieveFails`, and `AnswerQuestion` or
`AnswerFails`. Retrieval and answer are one step each: the engine shares nothing
between their beginning and end, and what a retriever shares inside is the
matter of the modules below. A list of chunks is the rewrite it was found for
and its length; a prompt is a record of its three parts. `WithInstructions`
writes the engine without a lock, so the model calls it between questions only.
`NoRewrite` in place of the rewriter is the case without interleaving.

In `StatsCache` the index is a set of rows named by the write that added them;
the number of writes is how old statistics are. A statement sees the index as it
was when it began (`snap`), so a load is two steps with writes between them.
Time is a counter that stops at the TTL. `LeaveToExpire` is the writer that
relies on the TTL and does not call `Invalidate`; without TTL the comment on
`NewStatsCache` requires the call, and the writers make it.

`BM25Retriever` adds the connections and the two later statements. The query
matches every row, so a row is unscored only when the statistics do not know it;
sorting and the cut at k do not matter to that and are left to `BM25Ranking`.
There one caller retrieves over an index that is written to after its statistics
were loaded and between its statements. A text is the number of times it holds
each lexeme, and a score is a fraction of integers. Of the logarithm in the IDF
it keeps that it is positive and falls with the frequency of the lexeme, which
is all the properties need. The order is given by the place of each row
(`Place`), and the score is a fold over the terms of `Summand`, a term the row
lacks being a summand of zero. `MatchAll` off turns every connector of the query
into OR, that before an excluded word as well, as the rewrite of the tsquery
does: such a row matches for what it lacks, and `HeldTermsCount` says that it
ranks behind the rows that hold a term.

In `Retrievers` scores are integers. A row that the words do not match has
`NoMatch`, which is less than any rank, for a match may rank 0: without
`MatchAll` an excluded word is ORed with the others, and a row that only lacks
it passes the `@@` with a `ts_rank` of 0. Similarities may be negative, and a
floor that is not positive is none. Min-max normalisation divides each side by
its spread; the model multiplies by the other side's spread instead, which
orders rows in the same way and needs no fractions. Floating point rounding is
left out, except in the floor: the store hands it to langchaingo, which prints a
distance with `%f`, so the model rounds it to `PrintUnit`. `LIMIT` takes any of
several equal rows and the join returns its rows in any order, as Postgres may.
The stable sort is defined by the place it gives to each row, one more than the
number of rows that belong before it, which is a definition one can prove about.

In `Ingest` a text is a sequence of bytes and every letter stands at one place
of the corpus, so that a letter tells where it comes from. Two characters of two
bytes are there to be cut: the bullet, and the no-break space, which
`strings.TrimSpace` knows and the regular expression `\s` does not. The
splitters are langchaingo's: the model's cuts anywhere, inside a character as
the token splitter does, with any overlap, and may trim. The caller is not part
of the repository either; it calls the functions in the order their comments ask
for, gives up at the first error and may start again. Of `AddDocuments`, which
stores the chunks, nothing is assumed but that its error is passed on:
`BuildFails` may have stored any of them. `rows` is a set, so a chunk that a
retry stores a second time is not told apart from the first. A character of
several bytes that a cut parts is dropped by the code, unless the overlap holds
the whole of it; the property that no letter is lost is therefore about letters
of one byte. NUL bytes, which Postgres refuses, are not among the bytes.

In `Store` the steps of `New` are one action each, and `GiveUp` is what every
error return after the pool was opened does. What a `*pgx.Conn` and a
`*pgxpool.Pool` do is external and modelled from how the code relies on it; two
statements at once on the single connection are refused, or disturb each other
(its use is not synchronised), and the model allows either. `Close` has an early
return for an error of the inner `Close`, which the comment above it calls a
silent no-op that closes nothing; the model leaves that return out.

Operators whose comment begins with "Slip:" are plausible mistakes in the
operator after them. Nothing uses them; `PROJECT.json` pairs each with a
property that fails when the slip takes the operator's place.

## Runs

| run | instance | shows |
|---|---|---|
| `lru` | bound 2, 4 keys, 2 values | list and map agree, exactly the 2 most recently used keys are kept, the bounded store is implemented |
| `rewriter_collision` | a follow-up and a question over several lines | **fails**: see findings |
| `engine` | 2 callers, 3 requests with different keys, bound 2 | the cache survives concurrency, own rewrites, answers from the caller's own context, roles kept apart, no needless model call, every question returns |
| `stats_cache` | 2 callers, 2 writers, 2 writes, TTL 2 | `FreshStats` is implemented where `Invalidate` is called and where it is left out, old statistics expire, every call returns |
| `stats_halfway` | 2 callers, 1 writer, no TTL | **fails**: see findings |
| `bm25` | 2 callers, 1 writer, 2 writes, TTL 1, pool of 1 | only rows newer than the last `Invalidate` are unscored, connections accounted, every retrieval ends |
| `bm25_ranking` | 3 rows over 2 lexemes, each held up to twice, 1 write, k up to 1 | more of a term and a shorter text rank first, a rarer term does, a held term always counts |
| `retrievers` | 4 rows, depth 2, similarities -1, 0, 3, ranks 0, 1, 2 or no match, alpha 0, 1/2, 1, k up to 3, floors -1, 0, 1, 2 | at either end of alpha a row that counts is not behind a lesser one, dominance, scale does not matter, the floor is kept and the closest are first |
| `retrievers_negative` | 3 rows, similarities -1, 0, 1 | **fails**: see findings |
| `store` | 3 clients, pool of 2 | nothing left open, `Close` returns, statements end |
| `store_recording` | the same | **fails**: see findings |
| `ingest` | a PDF of up to 2 pages and a text, cuts up to byte 5, overlap of 1, 2 attempts | no letter lost, no words joined, chunks are storable, the collection holds chunks of completely read documents only |

Why the bounds are enough: with a bound of 2, three keys evict and a fourth
separates "least recently used" from "first in". Three requests over two entries
make a caller find, miss, overwrite and evict while another is at any point of
its call, and one of the requests has a history with a turn of each kind of
role. Two writes by two writers are a reingest, or two that overlap, and with
TTL 2 a load can be served at every age; without a TTL the cache is in
`stats_halfway`, and `RefinesFreshStats` holds for both. In `bm25` two writes
are a whole reingest, or a write on either side of an `Invalidate`, and one
connection is the tightest pool. In `bm25_ranking` three rows of which any may
be counted make a term rarer than another and a row longer than the average, and
k = 1 cuts rows off. A depth of 2 over 4 rows leaves rows out on each side that
the other side may find, and k = 3 is over it. `PrintUnit` is half of `Unit`, so
a floor of 1 is rounded and one of 2 is not; -1 and 0 are no floor, which the
row of similarity -1 shows. The ranks 0 and no match are told apart by the @@
and tied by the join. Three clients on two connections make one wait; they also
run beside each other on the single connection. In `ingest` the pages have white
space of each kind at their ends and between words, the cuts fall on either side
of and inside every character, and a second attempt meets what the first has
left. `MaxEpoch` and `MaxWrites` bound the writes, `MaxK` the k asked for,
`MaxTF` how often a text holds a lexeme, `MaxHits` the chunks a retrieval finds,
`MaxCut`, `MaxOverlap` and `MaxAttempts` the splitter and the caller of
`Ingest`; nothing else is bounded.

`store`, `store_recording` and `ingest` turn deadlock checking off: a failed
`New` is the end of the behaviour, and so is an ingest that has succeeded or is
not tried again.

## Fairness

A call in progress continues (weak fairness on its steps): a model call, a
retrieval and a statement end, with an answer or an error, as clients with a
context do. A process that waits for a mutex or a connection gets it if it is
free again and again (strong fairness): `sync.Mutex` hands itself to a waiter
after a millisecond, and the pool's semaphore is first in, first out. That
nobody starves at a mutex is thus assumed and not a result; what the runs show
is that no path keeps the mutex or a connection and that nobody waits in a
circle. Nobody has to call anything: no fairness on `Generate`, `CallStats`, the
`Retrieve` of BM25, a writer's next write or `Close`. A context that ends is
possible and never required. "Every call returns" is stated as: again and again
the caller is not in a call. `OldStatsExpire` is stated the same way, for a
clock that goes on (weak fairness on `Tick`). `Rewriter` alone states no
fairness; what its callers need is in that of `Engine`.

## Findings

* `rewriter_collision`. The cache key of a request with history is the history,
  a line break and the question; without history it is the question. A question
  of several lines that reads `user: a`, an empty line and `q` has the key of
  the question `q` after the turn `a`, and is served that rewrite. The comment
  on `cacheKey` says that must not happen. `OneLineKeysTellApart`
  proves that questions of one line cannot collide, and `OneLineNoCrossTalk` that
  they are served their own rewrites.
* `stats_halfway`. The comment on `Stats` says its lock keeps a reingest from
  being observed halfway through. The lock is not taken by `RemoveCollection` or
  `Build`, so a load between them reads an empty collection and caches it.
* `retrievers_negative`. The test of the endpoints says alpha = 1 ranks exactly
  as pure vector search. A row that only the keyword side found scores 0, and
  with negative similarities that is above closer rows. `AlphaOneIsVectorSearch`
  proves that it is not when no similarity is negative, and
  `AlphaOneRanksBySimilarity` what is left otherwise: rows of positive
  similarity are never behind less close ones. The other end of the same
  sentence, alpha = 0 exactly as pure keyword search, does not hold either when
  a word is excluded and `MatchAll` is off. A row may then match by lacking that
  word alone. Keyword search returns it, at rank 0; the join gives the same 0 to
  a row that does not match, and alpha = 0 may return that one instead.
  `KeywordEndpoint` states the sentence, and is no invariant of the `retrievers`
  instance; `RankedRowsFirst`, which the run checks and `AlphaZeroRanksByWords`
  proves for any query, is what is left of it: a row that holds a word is never
  behind one that ranks lower or does not match. Where no match ranks 0 the
  sentence holds (`AlphaZeroIsKeywordSearch`).
* `store_recording`. The comment on `TracerBypass` says connection setup does
  not land in a recording. `New` dials one connection and pings one of the pool
  under the bypass; every further connection of the pool is dialled by the
  statement that waits for it.

## Proofs

All of these hold for every value of the constants.

* `LRU_proofs`. The inductive invariant ties the list to the history: a key
  stands before another exactly if it was used later, and `since[k]` is the keys
  in front of `k`, together with `WellFormed`. It is needed because
  `ExactlyMostRecent` says nothing of the order, and eviction goes by it.
  `LruLemmas` shows that each operator preserves it. `TypeCorrect`,
  `ListAndMapAgree`, `EvictsLeastRecentlyUsed`, `RefinesBoundedCache` follow.
* `Engine_proofs`, the rewriter in it. The same invariant for the shared cache,
  the mutex (a caller is in a critical section exactly if it holds it), and that
  a probe stays true until its store because the mutex is held between them.
  `CacheIsSafeToShare` and `NoNeedlessModelCall` need no more; `NoCrossTalk`
  adds that each cached entry and each local answer was made for its key, and
  assumes `KeysTellApart`. `OneLineKeysTellApart` proves that assumption where no
  question has a line break in it, whatever the histories hold: the last line
  break of a key is then the one before the question. It needs that a rendered
  history is a sequence (`FlattenSeqIsSeq`). `OneLineNoCrossTalk` and
  `OneLineAnswersStayApart` follow.
* `Engine_proofs`, the engine. `EngineDrivesRewriter`: every step of the engine
  is a step of the rewriter or leaves it alone, so the rewriter's invariants
  hold inside it. `AnswersStayApart` adds that the chunks a caller holds were
  retrieved for its own rewrite and that the prompt is the last message sent;
  like `NoCrossTalk` it assumes `KeysTellApart`. `EngineTypeCorrect` and
  `VoicesStayApart` do not: the second follows what is sent from the stored turn
  through both mappings of its role.
* `BM25Retriever_proofs`, the statistics cache in it. The mutex, and that the
  cached statistics, while loaded, and the snapshot of a running load lie
  between the floor and the latest write. The second is what makes an
  `Invalidate` final. `RefinesFreshStats` maps every action to a step of
  `FreshStats` or a stutter.
* `BM25Retriever_proofs`, the retriever. Every step is one of the statistics
  cache or leaves it alone, so the invariant of the cache holds inside it.
  `EveryConnectionAccounted` counts the running statements step by step.
  `ScoresWhatWasInvalidatedFor` needs that the statistics a caller has been
  given know every row up to some write, that this write is not before the floor
  at the caller's call, and that the floor only rises.
* `BM25Ranking_proofs`. The invariant says that the statistics are those of some
  rows (`Statistics`: every row they know has a length, counts and sums are
  those of the rows they know, which need not be the rows of today) and that
  what was returned ranks the rows that matched (`Ranks`). The work is in the
  lemmas. A score is a fold over a set: `SmallestSet` picks a smallest set that
  a statement fails for, `FoldsExist` turns the fold into a function on the
  subsets of the terms, and `TotalsKeepOrder` shows that a total grows with its
  summands. `SaturationKeepsOrder` is the algebra of one summand: it grows
  with the frequency, strictly if k1 counts, and falls with the length, strictly
  if b does, but stays positive. `IdfKeepsOrder` is that of two terms. The rows
  are ranked since the places are an injection, so that each is filled once.
  `Monotone`, `RarerFirst` and `HeldFirst` then compare two scores.
* `Store_proofs`. The pool's count covers the statements that run on it and once
  it is closed nothing else; the stages say what has been opened and closed.
  `LeavesNothingBehind` follows.
* `Retrievers_proofs`. `Origin` says which searches the rows of a result come
  from: `TypeOK` alone allows any rows in any order. The stable order is a
  permutation because `Place` is an injection of the rows into as many places
  (`PlacesAreFilled`), and with it the largest and smallest score exist without
  an induction. `BetterBlendsHigher` shows that a blend is larger for a row that
  is better on a side that counts and not worse on the other. The endpoints then
  follow by counting (`StandsBehindAll`): a row that one side has not found
  stands behind all that it has, and those fill the depth unless they are all
  there is. Two theorems have a hypothesis, and need it (see findings):
  `AlphaOneIsVectorSearch` that no similarity is negative, and
  `AlphaZeroIsKeywordSearch` that no match ranks 0. `AlphaOneRanksBySimilarity`,
  `AlphaZeroRanksByWords` and `BlendKeepsAgreement` hold for all scores, and are
  what the passing run checks.
* `Ingest_proofs`. Everything the functions do to a text is concatenated from
  parts by `FlattenSeq`, so the lemmas say for each of them which letters it
  keeps, which neighbours it makes and that whole characters stay whole:
  `JoinPages`, `CollapseRuns`, `TrimSpace`, `SplitText`, `ToValidUTF8`,
  `Chunks`. A letter is in the part that ends at the first cut from it on. Each
  part is a window of its text (`Window`), so if the text is whole only the
  first and the last byte of a part can be half a character
  (`WindowIsWholeInside`), and dropping them joins nothing. `Indexes` gathers
  what holds of all chunks of a corpus, and the invariant ties it to the
  attempt: what was chunked is all chunks of this corpus, and the rows are some
  of these chunks, whatever the store kept of earlier attempts. `WordEdges`
  assumes `CorpusIsWhole`: the pages and texts are valid UTF-8, as MuPDF returns
  them. In a text with a broken character of its own `ToValidUTF8` joins what it
  parted, and the property fails. The corpus of the run is whole; `Storable` and
  `EveryLetter` do not assume it.

The assumptions are those named in the modules: callers are not the empty
holder of the mutex, sentinels are not values, bounds are integers, histories
are sequences, letters are none of the other bytes, clients, callers, rows and
lexemes are finitely many. `Ids` of `BM25Ranking` are the rows there may be in
one behaviour, any finite number, since a statement returns finitely many.

The library's induction theorems take a predicate as a parameter, which the
provers cannot instantiate. Where a proof needs induction it takes the set of
counterexamples instead, which has a smallest member (`LeastNumber` and
`SmallestSet`, from `WFMin` and `NatLessThanWellFounded`). That is how the
folds over sets and sequences are reached.

Only model-checked: all liveness (`EveryCallReturns`, `EveryQuestionReturns`,
`OldStatsExpire`, `EveryRetrieveReturns`, `CloseReturns`, `EveryStatementEnds`),
which rests on fairness and so on ENABLED, out of TLAPS's reach here. Every
safety property and every refinement the passing runs check is also a theorem;
`ServedOwnRewrite`, `AnsweredFromOwnContext` and `WordsKeepTheirEdges` under a
hypothesis named in the theorem, which the instances of the passing runs meet.

## Plan

1. Done: the modules, runs and theorems above.
2. Left: the separators of a recursive splitter, which are langchaingo's and
   would drop text that is not white space; the sizes of chunks.

## Not modelled

* Two rewriters over one cache given by `WithCache`: nothing in the repository
  builds them.
* Constructors of clients, constants, the wording of prompts, token counts and
  options of model calls.
* A BM25 query with an OR that the user types: the model's words are all joined
  by AND or, without `MatchAll`, all by OR.
* Whether langchaingo's `AddDocuments` stores all or nothing when it fails. The
  model lets it store any part.
* Floating point rounding, apart from the floor of a vector search.
* Tokenising, stemming, phrases and `ts_rank` inside Postgres, and the text
  MuPDF sees on a page.
* Crashes of the process: nothing in the library is persisted outside Postgres,
  and what a crash leaves there is what `BuildFails` and the two commits of a
  reingest leave.
