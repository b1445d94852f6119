------------------------------ MODULE MCStore ------------------------------
(***************************************************************************)
(* A small instance of Store for TLC.                                      *)
(***************************************************************************)
EXTENDS Store

CONSTANTS c1, c2, c3
=============================================================================
