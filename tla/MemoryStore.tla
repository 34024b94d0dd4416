---------------------------- MODULE MemoryStore ----------------------------
(***************************************************************************)
(* store/memory.py: the in-process backend.  One document is spread over   *)
(* five containers and a search goes through a normalised matrix that is   *)
(* cached until a write drops it.  Every method runs to its end without an *)
(* await, so each is one step.                                             *)
(*                                                                         *)
(* A vector is represented by the text it is the embedding of, and a row   *)
(* of the matrix by the vector it normalises.                              *)
(***************************************************************************)
EXTENDS StoreData

CONSTANT NoMatrix      \* the cached matrix is None

VARIABLES
    info,       \* the collection's embedder and chunk count (_info)
    chunkIds,   \* the ids in row order (_chunk_ids)
    chunks,     \* chunk id -> text (_chunks)
    vectors,    \* chunk id -> embedding (_vectors)
    docChunks,  \* document id -> its chunk ids (_doc_chunks)
    documents,  \* document id -> hash and metadata (_documents)
    matrix,     \* the cached rows, or NoMatrix (_matrix)
    matrixIds,  \* the ids the cached rows were built for (_matrix_ids)
    reply       \* what the last call returned

index == <<chunkIds, chunks, vectors, docChunks, documents>>
cache == <<matrix, matrixIds>>
memoryVars == <<info, index, cache, reply>>

\* The documents this backend holds, put together from its containers.
StoredChunksOf(d) == [s \in {docChunks[d][i][2] : i \in DOMAIN docChunks[d]} |-> chunks[<<d, s>>]]
StoredDocuments == [d \in DOMAIN documents |->
    [hash |-> documents[d].hash, meta |-> documents[d].meta, chunks |-> StoredChunksOf(d)]]

\* The promise, over those documents.
Promise == INSTANCE VectorStore WITH space <- info.space, stored <- StoredDocuments

----------------------------------------------------------------------------

\* A reply names what it carries.
Done == [done |-> TRUE]
Returns(value) == reply' = value
Raises(error) == reply' = [error |-> error]

\* The chunk ids a call on document d takes away.
Removed(d) == IF d \in DOMAIN docChunks THEN docChunks[d] ELSE <<>>
RemovedIds(d) == Range(Removed(d))

\* Mutant: a chunk's id is made from its position instead of its start offset.
IdsByPosition(u) == [i \in DOMAIN u.records |-> <<u.doc, i>>]

NewIds(u) == [i \in DOMAIN u.records |-> <<u.doc, u.records[i].start>>]
NewTexts(u) == [id \in Range(NewIds(u)) |->
                    u.records[CHOOSE i \in DOMAIN u.records : NewIds(u)[i] = id].text]

MemoryInit ==
    /\ info = [space |-> NoSpace, count |-> 0]
    /\ chunkIds = <<>> /\ chunks = <<>> /\ vectors = <<>>
    /\ docChunks = <<>> /\ documents = <<>>
    /\ matrix = NoMatrix /\ matrixIds = <<>>
    /\ reply = Done

EnsureCollection(s) ==
    /\ UNCHANGED <<index, cache>>
    /\ \/ /\ info.space \in {NoSpace, s}
          /\ info' = [space |-> s, count |-> Cardinality(DOMAIN chunks)]
          /\ Returns(Done)
       \/ info.space \notin {NoSpace, s} /\ Raises("mismatch") /\ UNCHANGED info

\* Mutant: the cache survives a write, as if comparing the ids were enough.
KeepMatrix == UNCHANGED matrix

\* A write drops the cached matrix.
DropMatrix == matrix' = NoMatrix

\* The rows after a replacement: the old ids out, the new ones at the end.
ReplaceRows(u) == chunkIds' = Filtered(chunkIds, RemovedIds(u.doc)) \o NewIds(u)

UpsertDocument(u) ==
    \/ /\ info.space = NoSpace
       /\ Raises("unavailable") /\ UNCHANGED <<info, index, cache>>
    \/ /\ info.space # NoSpace /\ ~Fits(u, DimOf[info.space])
       /\ Raises("mismatch") /\ UNCHANGED <<info, index, cache>>
    \/ /\ info.space # NoSpace /\ Fits(u, DimOf[info.space])
       /\ ReplaceRows(u)
       /\ chunks' = Overwrite(Without(chunks, RemovedIds(u.doc)), NewTexts(u))
       /\ vectors' = Overwrite(Without(vectors, RemovedIds(u.doc)), NewTexts(u))
       /\ docChunks' = Overwrite(docChunks, [d \in {u.doc} |-> NewIds(u)])
       /\ documents' = Overwrite(documents,
                                 [d \in {u.doc} |-> [hash |-> u.hash, meta |-> u.meta]])
       /\ DropMatrix /\ UNCHANGED matrixIds
       /\ info' = [info EXCEPT !.count = Cardinality(DOMAIN chunks')]
       /\ Returns([count |-> Len(u.records)])

\* Mutant: the vectors of a deleted document stay behind.
ForgetNoVectors(d) == UNCHANGED vectors

ForgetVectors(d) == vectors' = Without(vectors, RemovedIds(d))

\* Returns 0 for an unknown document.
DeleteDocument(d) ==
    /\ chunks' = Without(chunks, RemovedIds(d))
    /\ ForgetVectors(d)
    /\ docChunks' = Without(docChunks, {d})
    /\ documents' = Without(documents, {d})
    /\ \/ Removed(d) = <<>> /\ UNCHANGED <<chunkIds, matrix>>
       \/ Removed(d) # <<>> /\ chunkIds' = Filtered(chunkIds, RemovedIds(d)) /\ DropMatrix
    /\ info' = IF info.space = NoSpace THEN info
               ELSE [info EXCEPT !.count = Cardinality(DOMAIN chunks')]
    /\ Returns([count |-> Len(Removed(d))])
    /\ UNCHANGED matrixIds

----------------------------------------------------------------------------
\* Reads.

Rows(ids) == [i \in DOMAIN ids |-> vectors[ids[i]]]

\* The cached matrix if it was built for these ids, else a new one.
BuildMatrix == IF matrix = NoMatrix \/ matrixIds # chunkIds THEN Rows(chunkIds) ELSE matrix

\* A chunk matches through its document's metadata.
Matches(id, filter) == filter \in {NoFilter, documents[id[1]].meta}

\* Mutant: the rows are numbered by position among the matching chunks.
CandidatesByMatch(rows, filter) ==
    LET ids == SelectSeq(chunkIds, LAMBDA id : Matches(id, filter))
    IN  {Hit(ids[i], chunks[ids[i]], Score[rows[i]]) : i \in DOMAIN ids}

\* Row i of the matrix scores the i-th id; the hit carries that id's chunk.
Candidates(rows, filter) ==
    {Hit(chunkIds[i], chunks[chunkIds[i]], Score[rows[i]]) :
        i \in {j \in DOMAIN chunkIds : Matches(chunkIds[j], filter)}}

Search(q, k, filter) ==
    /\ UNCHANGED <<info, index>>
    /\ \/ info.space = NoSpace /\ Raises("unavailable") /\ UNCHANGED cache
       \/ /\ info.space # NoSpace /\ (k <= 0 \/ chunkIds = <<>> \/ q.zero)
          /\ Returns([hits |-> {}]) /\ UNCHANGED cache
       \/ /\ info.space # NoSpace /\ k > 0 /\ chunkIds # <<>> /\ ~q.zero
          /\ matrix' = BuildMatrix
          /\ matrixIds' = chunkIds
          /\ IF q.dim = DimOf[info.space]
             THEN Returns([hits |-> Best(Candidates(matrix', filter), k)])
             ELSE Raises("dimension")

DocumentHashes == /\ Returns([hashes |-> [d \in DOMAIN documents |-> documents[d].hash]])
                  /\ UNCHANGED <<info, index, cache>>

AllChunks == /\ Returns([chunks |-> [id \in Range(chunkIds) |-> chunks[id]]])
             /\ UNCHANGED <<info, index, cache>>

ListDocuments == /\ Returns([listing |-> [d \in DOMAIN documents |-> Len(Removed(d))]])
                 /\ UNCHANGED <<info, index, cache>>

CountChunks == /\ Returns([count |-> Cardinality(DOMAIN chunks)])
               /\ UNCHANGED <<info, index, cache>>

\* Drops the cache; the stored data survives.
Close == /\ matrix' = NoMatrix /\ matrixIds' = <<>>
         /\ UNCHANGED <<info, index, reply>>

MemoryNext ==
    \/ \E s \in Spaces : EnsureCollection(s)
    \/ \E u \in Uploads : UpsertDocument(u)
    \/ \E d \in Docs : DeleteDocument(d)
    \/ \E q \in Queries, k \in Limits, f \in Metas \cup {NoFilter} : Search(q, k, f)
    \/ DocumentHashes
    \/ AllChunks
    \/ ListDocuments
    \/ CountChunks
    \/ Close

MemorySpec == MemoryInit /\ [][MemoryNext]_memoryVars

----------------------------------------------------------------------------

\* The containers have their types; a cached matrix is a list of vectors.
TypeOK ==
    /\ info \in [space : Spaces \cup {NoSpace}, count : Nat]
    /\ chunkIds \in Seq(ChunkIds)
    /\ DOMAIN chunks \subseteq ChunkIds /\ chunks \in [DOMAIN chunks -> Texts]
    /\ DOMAIN vectors \subseteq ChunkIds /\ vectors \in [DOMAIN vectors -> Texts]
    /\ DOMAIN docChunks \subseteq Docs /\ docChunks \in [DOMAIN docChunks -> Seq(ChunkIds)]
    /\ DOMAIN documents \subseteq Docs
    /\ documents \in [DOMAIN documents -> [hash : Hashes, meta : Metas]]
    /\ matrix \in Seq(Texts) \cup {NoMatrix}
    /\ matrixIds \in Seq(ChunkIds)

\* The five containers agree: the rows list every chunk once, every chunk has the
\* embedding of its own text, and each document lists exactly the chunks that are
\* its own, so that no chunk of an earlier ingest is left behind.  upsert_document
\* and delete_document (memory.py:106-143) must keep this over any sequence of calls.
IndexConsistent ==
    /\ Injective(chunkIds) /\ Range(chunkIds) = DOMAIN chunks
    /\ vectors = chunks
    /\ DOMAIN docChunks = DOMAIN documents
    /\ \A d \in DOMAIN docChunks : Injective(docChunks[d])
    /\ \A d \in Docs : RemovedIds(d) = {id \in DOMAIN chunks : id[1] = d}
    /\ info.space # NoSpace => info.count = Cardinality(DOMAIN chunks)

\* A cached matrix that _build_matrix would reuse holds the present vectors row by
\* row (memory.py:149): comparing ids alone would not notice a re-ingest that keeps
\* every chunk id and changes the text.
MatrixCurrent == matrix # NoMatrix /\ matrixIds = chunkIds => matrix = Rows(chunkIds)

\* Every call returns, and leaves, what the store protocol promises: a search
\* through the cached matrix ranks exactly the chunks now stored.
ImplementsPromise == Promise!Spec
=============================================================================
