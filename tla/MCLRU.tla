------------------------------- MODULE MCLRU -------------------------------
(***************************************************************************)
(* A small LRU cache for TLC.  Four keys over a bound of two: a key can be *)
(* evicted, put again, and evicted while another is refreshed.             *)
(***************************************************************************)
EXTENDS LRU, TLC

CONSTANTS k1, k2, k3, k4, v1, v2

MCKeys == {k1, k2, k3, k4}
MCValues == {v1, v2}

Symmetry == Permutations(MCKeys) \cup Permutations(MCValues)
=============================================================================
