---------------------------- MODULE MCStatsCache ----------------------------
(***************************************************************************)
(* Small instances of StatsCache for TLC.                                  *)
(***************************************************************************)
EXTENDS StatsCache

CONSTANTS c1, c2, w1, w2
=============================================================================
