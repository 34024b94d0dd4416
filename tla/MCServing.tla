----------------------------- MODULE MCServing -----------------------------
(***************************************************************************)
(* One streamed query with a dense and a lexical search, and one           *)
(* background job.                                                         *)
(***************************************************************************)
EXTENDS Serving
=============================================================================
