-------------------------- MODULE MCBM25Retriever --------------------------
(***************************************************************************)
(* A small instance of BM25Retriever for TLC.                              *)
(***************************************************************************)
EXTENDS BM25Retriever

CONSTANTS c1, c2, w1, w2
=============================================================================
