--------------------------- MODULE DocumentTable ---------------------------
(***************************************************************************)
(* What callers that run at the same time may rely on in a collection      *)
(* (store/base.py): its embedding space is fixed once, and a document is   *)
(* replaced or removed whole, by vectors of that space.  Nothing is said   *)
(* of the order in which overlapping calls take effect.                    *)
(***************************************************************************)
EXTENDS StoreData

VARIABLES
    space,      \* the embedder the collection was created by, or NoSpace
    stored      \* document id -> its hash, metadata and chunks

vars == <<space, stored>>

Init == space = NoSpace /\ stored = <<>>

Create(s) == /\ space = NoSpace
             /\ space' = s
             /\ UNCHANGED stored

Replace(u) ==
    /\ space # NoSpace /\ Fits(u, DimOf[space])
    /\ stored' = Overwrite(stored, [d \in {u.doc} |->
           [hash |-> u.hash, meta |-> u.meta, chunks |-> ChunksOf(u.records)]])
    /\ UNCHANGED space

Remove(d) == stored' = Without(stored, {d}) /\ UNCHANGED space

Next == \/ \E s \in Spaces : Create(s)
        \/ \E u \in Uploads : Replace(u)
        \/ \E d \in Docs : Remove(d)

Spec == Init /\ [][Next]_vars
=============================================================================
