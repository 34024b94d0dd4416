----------------------------- MODULE MCSections -----------------------------
(***************************************************************************)
(* The chunks of HTML and docx texts: at most four blocks, each followed   *)
(* by a blank line, some of them headings, which carry no mark in the text *)
(* and open a labelled span.                                               *)
(***************************************************************************)
EXTENDS Chunking

MCKinds == {"p", "H1", "H2"}
MCLevel == [k \in MCKinds |-> 0]
MCName == [k \in MCKinds |-> IF k = "p" THEN "none" ELSE k]
MCTokens == [k \in MCKinds |-> 1]
MCBodies == UNION {[1..n -> MCKinds] : n \in 0..4}
=============================================================================
