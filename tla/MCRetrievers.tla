---------------------------- MODULE MCRetrievers ----------------------------
(***************************************************************************)
(* Small instances of Retrievers for TLC: four rows and a depth of two, so *)
(* that each side leaves a row out that the other may find.                *)
(***************************************************************************)
EXTENDS Retrievers

CONSTANTS r1, r2, r3, r4

MCIds == {r1, r2, r3, r4}
ThreeIds == {r1, r2, r3}
Symmetry == Permutations(MCIds)

\* Cosine similarity is 1 - distance and reaches down to -1.
WithNegative == {-1, 0, 1}
BelowAndAbove == {-1, 0, 3}

\* A floor below 0 is none, like 0.
MCFloors == {-1, 0, 1, 2}
=============================================================================
