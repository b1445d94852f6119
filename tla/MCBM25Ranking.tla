--------------------------- MODULE MCBM25Ranking ---------------------------
(***************************************************************************)
(* A small instance of BM25Ranking for TLC.                                *)
(***************************************************************************)
EXTENDS BM25Ranking

CONSTANTS r1, r2, r3, x, y

MCIds == {r1, r2, r3}
MCLexemes == {x, y}
Symmetry == Permutations(MCIds) \cup Permutations(MCLexemes)

\* Saturation and half the length normalisation; and neither frequency nor length.
MCParams == {[k1 |-> 1, b |-> 1], [k1 |-> 0, b |-> 2]}
=============================================================================
