---------------------------- MODULE VectorStore ----------------------------
(***************************************************************************)
(* What a vector store promises to its callers (store/base.py, the         *)
(* VectorStore protocol), with nothing of how a backend keeps it.          *)
(*                                                                         *)
(* A document is stored whole: one call replaces its content hash, its     *)
(* metadata and all of its chunks, one call removes them, and every read   *)
(* is a function of the documents now stored.  "reply" is what the last    *)
(* call returned, so that a backend that implements this module answers    *)
(* as well as stores what is promised here.                                *)
(***************************************************************************)
EXTENDS StoreData

VARIABLES
    space,      \* the embedder the collection was created by, or NoSpace
    stored,     \* document id -> its hash, metadata and chunks
    reply       \* what the last call returned

vars == <<space, stored, reply>>

----------------------------------------------------------------------------

\* A reply names what it carries.
Done == [done |-> TRUE]
Returns(value) == reply' = value
Raises(error) == reply' = [error |-> error]

StoredChunks ==
    {id \in ChunkIds : id[1] \in DOMAIN stored /\ id[2] \in DOMAIN stored[id[1]].chunks}

Candidates(filter) ==
    {Hit(id, stored[id[1]].chunks[id[2]], Score[stored[id[1]].chunks[id[2]]]) :
        id \in {c \in StoredChunks : filter \in {NoFilter, stored[c[1]].meta}}}

----------------------------------------------------------------------------

Init == /\ space = NoSpace
        /\ stored = <<>>
        /\ reply = Done

\* The first caller fixes the embedding space; any other embedder is refused.
EnsureCollection(s) ==
    /\ UNCHANGED stored
    /\ \/ space = NoSpace /\ space' = s /\ Returns(Done)
       \/ space = s /\ Returns(Done) /\ UNCHANGED space
       \/ space \notin {NoSpace, s} /\ Raises("mismatch") /\ UNCHANGED space

\* Replace the document's chunks by the records, or refuse and change nothing.
UpsertDocument(u) ==
    /\ UNCHANGED space
    /\ \/ space = NoSpace /\ Raises("unavailable") /\ UNCHANGED stored
       \/ space # NoSpace /\ ~Fits(u, DimOf[space]) /\ Raises("mismatch") /\ UNCHANGED stored
       \/ /\ space # NoSpace /\ Fits(u, DimOf[space])
          /\ stored' = Overwrite(stored, [d \in {u.doc} |-> [hash |-> u.hash, meta |-> u.meta,
                                                  chunks |-> ChunksOf(u.records)]])
          /\ Returns([count |-> Len(u.records)])

DeleteDocument(d) ==
    /\ stored' = Without(stored, {d})
    /\ Returns([count |-> IF d \in DOMAIN stored
                          THEN Cardinality(DOMAIN stored[d].chunks) ELSE 0])
    /\ UNCHANGED space

\* The top_k best chunks among those of documents the filter admits.
Search(q, k, filter) ==
    /\ UNCHANGED <<space, stored>>
    /\ \/ space = NoSpace /\ Raises("unavailable")
       \/ space # NoSpace /\ (k <= 0 \/ StoredChunks = {} \/ q.zero) /\ Returns([hits |-> {}])
       \/ /\ space # NoSpace /\ k > 0 /\ StoredChunks # {} /\ ~q.zero
          /\ IF q.dim = DimOf[space]
             THEN Returns([hits |-> Best(Candidates(filter), k)])
             ELSE Raises("dimension")

\* The change-detection snapshot.
DocumentHashes == /\ Returns([hashes |-> [d \in DOMAIN stored |-> stored[d].hash]])
                  /\ UNCHANGED <<space, stored>>

\* Every chunk, for the lexical index.
AllChunks == /\ Returns([chunks |-> [id \in StoredChunks |-> stored[id[1]].chunks[id[2]]]])
             /\ UNCHANGED <<space, stored>>

\* Every document with its number of chunks.
ListDocuments ==
    /\ Returns([listing |-> [d \in DOMAIN stored |-> Cardinality(DOMAIN stored[d].chunks)]])
    /\ UNCHANGED <<space, stored>>

CountChunks == /\ Returns([count |-> Cardinality(StoredChunks)])
               /\ UNCHANGED <<space, stored>>

Next == \/ \E s \in Spaces : EnsureCollection(s)
        \/ \E u \in Uploads : UpsertDocument(u)
        \/ \E d \in Docs : DeleteDocument(d)
        \/ \E q \in Queries, k \in Limits, f \in Metas \cup {NoFilter} : Search(q, k, f)
        \/ DocumentHashes
        \/ AllChunks
        \/ ListDocuments
        \/ CountChunks

Spec == Init /\ [][Next]_vars
=============================================================================
