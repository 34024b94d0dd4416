--------------------------- MODULE MCLexicalIndex ---------------------------
(***************************************************************************)
(* Two chunk ids, of which one may be edited in place, and two queries     *)
(* in flight.                                                              *)
(***************************************************************************)
EXTENDS LexicalIndex

MCTextsOf == [id \in Ids |-> IF id = "c1" THEN {"c1", "c1 edited"} ELSE {id}]
=============================================================================
