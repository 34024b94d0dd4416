------------------------------ MODULE PgStore ------------------------------
(***************************************************************************)
(* store/pgvector.py: the PostgreSQL backend.  Several processes, each     *)
(* with calls that overlap, work on three tables; a call that writes is a  *)
(* transaction of several statements, and other calls run between any two  *)
(* of them.                                                                *)
(*                                                                         *)
(* The database is read committed: the tables are what is committed, a     *)
(* transaction carries its own writes in "call" until it commits, and a    *)
(* statement that would write a row another transaction has written waits  *)
(* for that one's end.                                                     *)
(***************************************************************************)
EXTENDS StoreData

CONSTANTS
    Processes,      \* API servers and ingestion scripts on one database
    Tasks,          \* the calls a process may have in flight
    ProcessOf,      \* the process of each task
    Collections,    \* collection names
    CollectionOf,   \* the configured collection of each process
    Corpus,         \* the uploads that come for each collection
    Viewed          \* the collection, any of them, that the promise is stated for

ASSUME ProcessAssumption ==
    /\ ProcessOf \in [Tasks -> Processes]
    /\ CollectionOf \in [Processes -> Collections]
    /\ Corpus \in [Collections -> SUBSET Uploads]
    /\ Viewed \in Collections

VARIABLES
    collections,    \* table collections: name -> embedder, or NoSpace
    documents,      \* table documents: doc_id -> collection, hash, metadata
    chunks,         \* table chunks: chunk_id -> collection, text
    info,           \* each process's embedder of its collection (_info)
    call            \* what each task is doing, with its uncommitted writes

tables == <<collections, documents, chunks>>
vars == <<tables, info, call>>

Home(t) == CollectionOf[ProcessOf[t]]
Chunks(d) == {id \in DOMAIN chunks : id[1] = d}
ChunksIn(d, c) == {id \in Chunks(d) : chunks[id].collection = c}

\* What document_hashes and all_chunks of a collection put together.
StoredChunks(d, c) == [s \in {id[2] : id \in ChunksIn(d, c)} |-> chunks[<<d, s>>].text]
StoredIn(c) == [d \in {e \in DOMAIN documents : documents[e].collection = c} |->
    [hash |-> documents[d].hash, meta |-> documents[d].meta, chunks |-> StoredChunks(d, c)]]

Table == INSTANCE DocumentTable WITH space <- collections[Viewed], stored <- StoredIn(Viewed)

----------------------------------------------------------------------------

Idle == [op |-> "idle"]
Free(t) == call[t].op \in {"idle", "returned"}
Becomes(t, state) == call' = [call EXCEPT ![t] = state]

Init == /\ collections = [c \in Collections |-> NoSpace]
        /\ documents = <<>> /\ chunks = <<>>
        /\ info = [p \in Processes |-> NoSpace]
        /\ call = [t \in Tasks |-> Idle]

\* ensure_collection finds the row: the embedder is compared with it.
FindCollection(t, s) ==
    /\ Free(t)
    /\ collections[Home(t)] = s
    /\ info' = [info EXCEPT ![ProcessOf[t]] = s]
    /\ Becomes(t, Idle)
    /\ UNCHANGED tables

\* ensure_collection finds no row.
MissCollection(t, s) ==
    /\ Free(t)
    /\ collections[Home(t)] = NoSpace
    /\ Becomes(t, [op |-> "create", space |-> s, at |-> "missed"])
    /\ UNCHANGED <<tables, info>>

Inserted(t) == call[t].op = "create" /\ call[t].at = "inserted"

\* Mutant: the insert is ON CONFLICT DO UPDATE.
InsertOrReplace(t) ==
    /\ call[t].op = "create" /\ call[t].at = "missed"
    /\ Becomes(t, [call[t] EXCEPT !.at = "inserted"])
    /\ UNCHANGED <<tables, info>>

\* The insert waits for another insert of the name, and raises if that one won.
InsertCollection(t) ==
    /\ call[t].op = "create" /\ call[t].at = "missed"
    /\ \A u \in Tasks : ~(Inserted(u) /\ Home(u) = Home(t))
    /\ Becomes(t, IF collections[Home(t)] = NoSpace THEN [call[t] EXCEPT !.at = "inserted"] ELSE Idle)
    /\ UNCHANGED <<tables, info>>

CommitCollection(t) ==
    /\ Inserted(t)
    /\ collections' = [collections EXCEPT ![Home(t)] = call[t].space]
    /\ info' = [info EXCEPT ![ProcessOf[t]] = call[t].space]
    /\ Becomes(t, Idle)
    /\ UNCHANGED <<documents, chunks>>

----------------------------------------------------------------------------
\* upsert_document.  A caller without the collection's info, or with vectors of
\* another width, is refused before anything is written.

StartUpsert(t, u) ==
    /\ Free(t)
    /\ info[ProcessOf[t]] # NoSpace /\ Fits(u, DimOf[info[ProcessOf[t]]])
    /\ Becomes(t, [op |-> "upsert", upload |-> u, at |-> "begun", gone |-> {}])
    /\ UNCHANGED <<tables, info>>

\* Mutant: nobody waits for the row of a document.
NoWriters(d) == {}

\* The transactions that have written the row of document d.
Writers(d) ==
    {t \in Tasks : \/ call[t].op = "upsert" /\ call[t].at # "begun" /\ call[t].upload.doc = d
                   \/ call[t].op = "delete" /\ call[t].at = "deleted" /\ call[t].doc = d}

\* INSERT INTO documents ... ON CONFLICT DO UPDATE.
WriteDocument(t) ==
    /\ call[t].op = "upsert" /\ call[t].at = "begun"
    /\ Writers(call[t].upload.doc) = {}
    /\ Becomes(t, [call[t] EXCEPT !.at = "written"])
    /\ UNCHANGED <<tables, info>>

\* Mutant: without a transaction the old chunks are gone at once.
DropChunksNow(t) ==
    /\ call[t].op = "upsert" /\ call[t].at = "written"
    /\ Becomes(t, [call[t] EXCEPT !.at = "cleared", !.gone = Chunks(call[t].upload.doc)])
    /\ chunks' = Without(chunks, Chunks(call[t].upload.doc))
    /\ UNCHANGED <<collections, documents, info>>

\* DELETE FROM chunks WHERE doc_id.
DropChunks(t) ==
    /\ call[t].op = "upsert" /\ call[t].at = "written"
    /\ Becomes(t, [call[t] EXCEPT !.at = "cleared", !.gone = Chunks(call[t].upload.doc)])
    /\ UNCHANGED <<tables, info>>

\* The row of the document keeps its collection when it is updated.
Row(t, u) == [collection |-> IF u.doc \in DOMAIN documents
                             THEN documents[u.doc].collection ELSE Home(t),
              hash |-> u.hash, meta |-> u.meta]

NewChunks(t, u) == [id \in {<<u.doc, s>> : s \in DOMAIN ChunksOf(u.records)} |->
                        [collection |-> Home(t), text |-> ChunksOf(u.records)[id[2]]]]

\* The chunks are inserted and all of it is committed.
CommitUpsert(t) ==
    /\ call[t].op = "upsert" /\ call[t].at = "cleared"
    /\ LET u == call[t].upload IN
       /\ documents' = Overwrite(documents, [d \in {u.doc} |-> Row(t, u)])
       /\ chunks' = Overwrite(Without(chunks, call[t].gone), NewChunks(t, u))
    /\ Becomes(t, Idle)
    /\ UNCHANGED <<collections, info>>

----------------------------------------------------------------------------
\* delete_document.

CountForDelete(t, d) ==
    /\ Free(t)
    /\ Becomes(t, [op |-> "delete", doc |-> d, at |-> "counted", gone |-> {},
                   count |-> Cardinality(ChunksIn(d, Home(t)))])
    /\ UNCHANGED <<tables, info>>

Returned(t) == [op |-> "returned", doc |-> call[t].doc, count |-> call[t].count]

\* Mutant: the chunks do not cascade.
CascadeNothing(d) == {}

\* ON DELETE CASCADE.
Cascade(d) == Chunks(d)

Owned(t, d) == d \in DOMAIN documents /\ documents[d].collection = Home(t)

\* DELETE FROM documents WHERE doc_id AND collection: a row of this collection is
\* deleted once no other transaction has written it; with none the call returns.
DeleteDocument(t) ==
    /\ call[t].op = "delete" /\ call[t].at = "counted"
    /\ IF Owned(t, call[t].doc)
       THEN /\ Writers(call[t].doc) = {}
            /\ Becomes(t, [call[t] EXCEPT !.at = "deleted", !.gone = Cascade(call[t].doc)])
       ELSE Becomes(t, Returned(t))
    /\ UNCHANGED <<tables, info>>

CommitDelete(t) ==
    /\ call[t].op = "delete" /\ call[t].at = "deleted"
    /\ documents' = Without(documents, {call[t].doc})
    /\ chunks' = Without(chunks, call[t].gone)
    /\ Becomes(t, Returned(t))
    /\ UNCHANGED <<collections, info>>

----------------------------------------------------------------------------

\* A statement raises, or the connection is lost: the transaction is rolled back.
Fail(t) == /\ ~Free(t)
           /\ Becomes(t, Idle)
           /\ UNCHANGED <<tables, info>>

\* A process ends, and with it its calls and what it knew of its collection.
Crash(p) == /\ info' = [info EXCEPT ![p] = NoSpace]
            /\ call' = [t \in Tasks |-> IF ProcessOf[t] = p THEN Idle ELSE call[t]]
            /\ UNCHANGED tables

Next == \/ \E t \in Tasks :
              \/ \E s \in Spaces : FindCollection(t, s) \/ MissCollection(t, s)
              \/ InsertCollection(t)
              \/ CommitCollection(t)
              \/ \E u \in Corpus[Home(t)] : StartUpsert(t, u)
              \/ WriteDocument(t)
              \/ DropChunks(t)
              \/ CommitUpsert(t)
              \/ \E d \in Docs : CountForDelete(t, d)
              \/ DeleteDocument(t)
              \/ CommitDelete(t)
              \/ Fail(t)
        \/ \E p \in Processes : Crash(p)

Spec == Init /\ [][Next]_vars

----------------------------------------------------------------------------

Calls ==
    [op : {"idle"}]
    \cup [op : {"create"}, space : Spaces, at : {"missed", "inserted"}]
    \cup [op : {"upsert"}, upload : Uploads, at : {"begun", "written", "cleared"},
          gone : SUBSET ChunkIds]
    \cup [op : {"delete"}, doc : Docs, at : {"counted", "deleted"}, gone : SUBSET ChunkIds,
          count : Nat]
    \cup [op : {"returned"}, doc : Docs, count : Nat]

\* The tables and calls have their types, and every chunk has a document, as the
\* foreign key of the chunks table demands.
TypeOK ==
    /\ collections \in [Collections -> Spaces \cup {NoSpace}]
    /\ DOMAIN documents \subseteq Docs
    /\ documents \in [DOMAIN documents -> [collection : Collections, hash : Hashes, meta : Metas]]
    /\ DOMAIN chunks \subseteq ChunkIds
    /\ chunks \in [DOMAIN chunks -> [collection : Collections, text : Texts]]
    /\ \A id \in DOMAIN chunks : id[1] \in DOMAIN documents
    /\ info \in [Processes -> Spaces \cup {NoSpace}]
    /\ call \in [Tasks -> Calls]

\* What a process believes the collection's embedding space to be is what the table
\* says, although two processes with different embedders may create the collection
\* at the same time (ensure_collection, pgvector.py:132-170): upsert_document checks
\* the width of vectors against that belief alone.
InfoAgrees == \A p \in Processes : info[p] # NoSpace => collections[CollectionOf[p]] = info[p]

\* A collection is a table of whole documents: whatever statements of other
\* calls run between those of an upsert or a delete, and wherever one fails, a
\* reader never sees a document half-replaced (pgvector.py:16-17, 218).
ImplementsTable == Table!Spec

\* A delete that returned took the chunks of the document in its collection with it
\* (store/base.py:143, delete_document).
DeleteTakesChunks ==
    [][\A t \in Tasks : call'[t].op = "returned" /\ call[t].op = "delete"
           => ChunksIn(call[t].doc, Home(t))' = {}]_vars
=============================================================================
