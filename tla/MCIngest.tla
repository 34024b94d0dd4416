------------------------------ MODULE MCIngest ------------------------------
(***************************************************************************)
(* A small instance of Ingest: two files of two documents.                 *)
(***************************************************************************)
EXTENDS Ingest

MCPaths == {1, 2}
OwnDoc == [p \in MCPaths |-> IF p = 1 THEN "a" ELSE "b"]
=============================================================================
