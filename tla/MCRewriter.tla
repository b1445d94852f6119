----------------------------- MODULE MCRewriter -----------------------------
(***************************************************************************)
(* A small instance of Rewriter for TLC: two callers, and requests that    *)
(* the cache key fails to tell apart (a follow-up after an exchange and a  *)
(* question that spells out that exchange).                                *)
(***************************************************************************)
EXTENDS Rewriter

CONSTANTS user, a, q, c1, c2, t1, t2

First == << [role |-> user, content |-> << a >>] >>

Ask(turns, text) == [history |-> turns, question |-> text]

\* A follow-up, and a question typed over several lines that reads like it.
CollidingText == << user, a, NL, NL, q >>
MultilineRequests == { Ask(First, << q >>), Ask(<< >>, CollidingText) }

MCKeys == {CacheKey(r) : r \in Requests}
=============================================================================
