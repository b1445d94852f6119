------------------------------ MODULE Rewriter ------------------------------
(***************************************************************************)
(* LLMRewriter.Rewrite (rag/rewrite/rewrite.go) called by several          *)
(* goroutines that share one rewriter and its LRU cache, over the chat     *)
(* adapter of ext/lcchat.                                                  *)
(*                                                                         *)
(* The mutex covers the lookup and, later, the store; the model is asked   *)
(* between the two with the mutex free.  So two callers may both miss the  *)
(* same key, both pay for an answer, and store different answers.  A store *)
(* is two steps, the probe of the map and the change of list and map, as   *)
(* they would interleave if the mutex did not hold them together.          *)
(*                                                                         *)
(* A text is a sequence of tokens, one of which is the line break.  A role *)
(* is a token too and stands for the role with its ": ".  Everything else  *)
(* about the wording is left out.                                          *)
(***************************************************************************)
EXTENDS LruOps

CONSTANTS
    Callers,     \* the goroutines that call Rewrite
    Nobody,      \* holds the mutex when no caller does
    Requests,    \* what they ask: a history of turns and a question
    Bodies,      \* the texts the model may write, spaces at the ends removed
    Blank,       \* what is left of a text of nothing but spaces
    NL,          \* the line break
    SystemPrompt \* the fixed instruction of this rewriter

ASSUME CallersAssumption == Nobody \notin Callers

(***************************************************************************)
(* formatHistory: one "role: content" line for each turn.                  *)
(***************************************************************************)
Line(turn) == << turn.role >> \o turn.content \o << NL >>

FormatHistory(history) == FlattenSeq([i \in DOMAIN history |-> Line(history[i])])

\* Slip: the key is the question alone, as before there was a history.
QuestionKey(r) == r.question

CacheKey(r) ==
    IF r.history = << >> THEN r.question
    ELSE FormatHistory(r.history) \o << NL >> \o r.question

\* What is sent: the instruction, the history when there is one, the question.
Messages(r) ==
    << SystemPrompt >>
        \o (IF r.history = << >> THEN << >> ELSE << FormatHistory(r.history) >>)
        \o << r.question >>

ASSUME KeysAssumption == \A r \in Requests : CacheKey(r) \in Keys

(***************************************************************************)
(* A rewrite is the trimmed text of the model together with the messages   *)
(* the model was given for it.  The messages are not part of the string    *)
(* the program holds: they say which request the string answers.           *)
(***************************************************************************)
Rewrites == [sent : {Messages(r) : r \in Requests}, text : Bodies]

ASSUME ValuesAssumption == Values = Rewrites /\ Blank \notin Bodies

\* What the model may write: a text, with or without spaces around it.
RawTexts == [padded : BOOLEAN, body : Bodies \cup {Blank}]

\* strings.TrimSpace
TrimSpace(raw) == raw.body

NoResult == [kind |-> "none"]
ChatErrors == {"no response", "failed"}
Errors == ChatErrors \cup {"blank"}
Ok(v) == [kind |-> "ok", value |-> v]
Error(e) == [kind |-> "error", error |-> e]
Results == {NoResult} \cup {Ok(v) : v \in Values} \cup {Error(e) : e \in Errors}

VARIABLES
    mu,      \* who holds r.mu
    cache,   \* r.cache, an LRU
    pc,      \* where each caller is in Rewrite
    args,    \* the request each caller passed
    out,     \* the local variable out of each caller
    present, \* whether the probe of a store found the key
    result,  \* what each caller's last call returned
    used,    \* history: the keys used so far
    since    \* history: the other keys used after each key's last use

history == << used, since >>
vars == << mu, cache, pc, args, out, present, result, history >>

Locations == {"idle", "lockGet", "get", "complete", "lockPut", "probe", "store"}

InCriticalSection(c) == pc[c] \in {"get", "probe", "store"}

TypeOK ==
    /\ mu \in Callers \cup {Nobody}
    /\ cache \in Caches
    /\ pc \in [Callers -> Locations]
    /\ args \in [Callers -> Requests]
    /\ out \in [Callers -> Values \cup {NoValue}]
    /\ present \in [Callers -> BOOLEAN]
    /\ result \in [Callers -> Results]
    /\ used \subseteq Keys
    /\ since \in [Keys -> SUBSET Keys]

Init ==
    /\ mu = Nobody
    /\ cache = NewLRU
    /\ pc = [c \in Callers |-> "idle"]
    /\ args \in [Callers -> Requests]
    /\ out = [c \in Callers |-> NoValue]
    /\ present = [c \in Callers |-> FALSE]
    /\ result = [c \in Callers |-> NoResult]
    /\ used = {}
    /\ since = NeverUsed

Key(c) == CacheKey(args[c])

Goto(c, l) == pc' = [pc EXCEPT ![c] = l]

Return(c, r) ==
    /\ result' = [result EXCEPT ![c] = r]
    /\ out' = [out EXCEPT ![c] = NoValue]
    /\ present' = [present EXCEPT ![c] = FALSE]
    /\ Goto(c, "idle")

Use(k) ==
    /\ used' = used \cup {k}
    /\ since' = SinceAfterUse(used, since, k)

-----------------------------------------------------------------------------
Call(c) ==
    /\ pc[c] = "idle"
    /\ \E r \in Requests : args' = [args EXCEPT ![c] = r]
    /\ result' = [result EXCEPT ![c] = NoResult]
    /\ Goto(c, "lockGet")
    /\ UNCHANGED << mu, cache, out, present, history >>

Lock(c, from, to) ==
    /\ pc[c] = from
    /\ mu = Nobody
    /\ mu' = c
    /\ Goto(c, to)
    /\ UNCHANGED << cache, args, out, present, result, history >>

\* Slip: the store does not take the mutex.
LockNothing(c) ==
    /\ pc[c] = "lockPut"
    /\ Goto(c, "probe")
    /\ UNCHANGED << mu, cache, args, out, present, result, history >>

LockGet(c) == Lock(c, "lockGet", "get")
LockPut(c) == Lock(c, "lockPut", "probe")

\* Slip: the return on a hit leaves the mutex locked.
GetHitStillLocked(c) ==
    /\ pc[c] = "get"
    /\ Has(cache, Key(c))
    /\ cache' = AfterGet(cache, Key(c))
    /\ Use(Key(c))
    /\ Return(c, Ok(GetValue(cache, Key(c))))
    /\ UNCHANGED << mu, args >>

\* The key is cached: refresh it, unlock, return the cached rewrite.
GetHit(c) ==
    /\ pc[c] = "get"
    /\ Has(cache, Key(c))
    /\ cache' = AfterGet(cache, Key(c))
    /\ Use(Key(c))
    /\ mu' = Nobody
    /\ Return(c, Ok(GetValue(cache, Key(c))))
    /\ UNCHANGED args

\* The key is not cached: unlock and go on to ask the model.
GetMiss(c) ==
    /\ pc[c] = "get"
    /\ ~Has(cache, Key(c))
    /\ mu' = Nobody
    /\ Goto(c, "complete")
    /\ UNCHANGED << cache, args, out, present, result, history >>

\* Slip: a blank text counts as a rewrite.
CompleteUnchecked(c) ==
    /\ pc[c] = "complete"
    /\ \E raw \in RawTexts :
          out' = [out EXCEPT ![c] = [sent |-> Messages(args[c]),
                                     text |-> TrimSpace(raw)]]
    /\ Goto(c, "lockPut")
    /\ UNCHANGED << mu, cache, args, present, result, history >>

\* The model answers, and something is left of the text once trimmed.
Complete(c) ==
    /\ pc[c] = "complete"
    /\ \E raw \in RawTexts :
          /\ TrimSpace(raw) # Blank
          /\ out' = [out EXCEPT ![c] = [sent |-> Messages(args[c]),
                                        text |-> TrimSpace(raw)]]
    /\ Goto(c, "lockPut")
    /\ UNCHANGED << mu, cache, args, present, result, history >>

\* The model answers with nothing but spaces: an error, and nothing is stored.
CompleteBlank(c) ==
    /\ pc[c] = "complete"
    /\ \E raw \in RawTexts : TrimSpace(raw) = Blank
    /\ Return(c, Error("blank"))
    /\ UNCHANGED << mu, cache, args, history >>

\* The answer holds no choice (llm.ErrNoResponse) or the call fails.
CompleteFails(c) ==
    /\ pc[c] = "complete"
    /\ \E e \in ChatErrors : Return(c, Error(e))
    /\ UNCHANGED << mu, cache, args, history >>

\* lru.Put looks the key up in the map.
Probe(c) ==
    /\ pc[c] = "probe"
    /\ present' = [present EXCEPT ![c] = Has(cache, Key(c))]
    /\ Goto(c, "store")
    /\ UNCHANGED << mu, cache, args, out, result, history >>

AfterProbe(c) ==
    IF present[c] THEN Overwrite(cache, Key(c), out[c])
    ELSE LET pushed == PushFront(cache, Key(c), out[c])
         IN  IF OverBound(pushed) THEN EvictOldest(pushed) ELSE pushed

\* lru.Put overwrites or pushes and evicts; unlock and return the new rewrite.
Store(c) ==
    /\ pc[c] = "store"
    /\ cache' = AfterProbe(c)
    /\ Use(Key(c))
    /\ mu' = Nobody
    /\ Return(c, Ok(out[c]))
    /\ UNCHANGED args

-----------------------------------------------------------------------------
Rewrite(c) ==
    \/ LockGet(c)
    \/ GetHit(c)
    \/ GetMiss(c)
    \/ Complete(c)
    \/ CompleteBlank(c)
    \/ CompleteFails(c)
    \/ LockPut(c)
    \/ Probe(c)
    \/ Store(c)

Next == \E c \in Callers : Call(c) \/ Rewrite(c)

Spec == Init /\ [][Next]_vars

-----------------------------------------------------------------------------
(***************************************************************************)
(* Callers that share the rewriter never leave the list and the map of the *)
(* cache in disagreement: whenever the mutex is free the cache is well     *)
(* formed, and it is the one the policy asks for.  container/list and the  *)
(* map are not safe for concurrent use, and cache.go takes no lock itself. *)
(***************************************************************************)
CacheSurvivesConcurrency ==
    mu = Nobody =>
        /\ WellFormed(cache)
        /\ \A k \in Keys : Has(cache, k) <=> RecentlyUsed(used, since, k)

(***************************************************************************)
(* Every rewrite that is returned was written by the model for the very    *)
(* messages of the request it is returned for: neither the cache key nor   *)
(* the interleaving hands one conversation the rewrite of another.         *)
(***************************************************************************)
ServedOwnRewrite ==
    \A c \in Callers :
        result[c].kind = "ok" => result[c].value.sent = Messages(args[c])

(***************************************************************************)
(* The model is paid again for a request only when the policy had given    *)
(* its key up: no call goes to the model while fewer than MaxEntries other *)
(* keys were used since its key was.                                       *)
(***************************************************************************)
PaidOnlyWhenForgotten ==
    [][\A c \in Callers :
          pc[c] = "get" /\ pc'[c] = "complete"
              => ~RecentlyUsed(used, since, Key(c))]_vars
=============================================================================
