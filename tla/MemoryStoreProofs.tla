------------------------- MODULE MemoryStoreProofs -------------------------
(***************************************************************************)
(* For every set of documents, offsets, texts, uploads and queries: the    *)
(* containers of the in-memory store agree after any sequence of calls, a  *)
(* cached matrix that a search would reuse is the present one, and every   *)
(* call leaves and returns what the store protocol promises.               *)
(*                                                                         *)
(* The three invariants are inductive only together: a rebuilt matrix is   *)
(* well typed because the rows list existing chunks, and a delete that     *)
(* keeps the cache is sound because a document without chunk ids owns no   *)
(* chunk.                                                                  *)
(***************************************************************************)
EXTENDS MemoryStore, ListLemmas

Inv == TypeOK /\ IndexConsistent /\ MatrixCurrent

\* Everything but reply; the invariants do not look at what was returned.
state == <<info, index, cache>>

\* The invariants hold at the start.
LEMMA InitInv == MemoryInit => Inv
<1>1. ASSUME MemoryInit PROVE TypeOK
  BY <1>1 DEF MemoryInit, TypeOK
<1>2. ASSUME MemoryInit PROVE IndexConsistent
  BY <1>2 DEF MemoryInit, IndexConsistent, Injective, Range, RemovedIds, Removed
<1>3. ASSUME MemoryInit PROVE MatrixCurrent
  BY <1>3 DEF MemoryInit, MatrixCurrent
<1>4. QED  BY <1>1, <1>2, <1>3 DEF Inv

\* A step that changes no container keeps the invariants.
LEMMA SameState == Inv /\ UNCHANGED state => Inv'
<1> SUFFICES ASSUME Inv, UNCHANGED state PROVE Inv'
  OBVIOUS
<1> USE DEF state, index, cache
<1>1. TypeOK'
  BY DEF Inv, TypeOK
<1>2. IndexConsistent'
  BY DEF Inv, IndexConsistent, Injective, Range, RemovedIds, Removed
<1>3. MatrixCurrent'
  BY DEF Inv, MatrixCurrent, Rows
<1>4. QED  BY <1>1, <1>2, <1>3 DEF Inv

\* The chunks are finitely many, so counting them gives a number.
LEMMA ChunksCounted == TypeOK /\ IndexConsistent => Cardinality(DOMAIN chunks) \in Nat
  BY RangeFinite, FS_CardinalityType DEF TypeOK, IndexConsistent

\* Fixing or checking the embedding space preserves the invariants.
LEMMA EnsureCollectionInv ==
    ASSUME Inv, NEW s \in Spaces, EnsureCollection(s)
    PROVE  Inv'
<1> USE DEF index, cache
<1>1. CASE UNCHANGED info
  BY <1>1, SameState DEF EnsureCollection, state
<1>2. CASE info' = [space |-> s, count |-> Cardinality(DOMAIN chunks)]
  <2>1. TypeOK'
    BY <1>2, ChunksCounted DEF EnsureCollection, Inv, TypeOK
  <2>2. IndexConsistent'
    BY <1>2 DEF EnsureCollection, Inv, IndexConsistent, Injective, Range, RemovedIds, Removed
  <2>3. MatrixCurrent'
    BY DEF EnsureCollection, Inv, MatrixCurrent, Rows
  <2>4. QED  BY <2>1, <2>2, <2>3 DEF Inv
<1>3. QED  BY <1>1, <1>2 DEF EnsureCollection

\* What the records of an upload bring: ids of that document alone, each once, with
\* a text each.
LEMMA NewIdsProperties ==
    ASSUME NEW u \in Uploads
    PROVE  /\ u.doc \in Docs /\ u.hash \in Hashes /\ u.meta \in Metas
           /\ NewIds(u) \in Seq(ChunkIds) /\ Injective(NewIds(u))
           /\ Len(NewIds(u)) = Len(u.records)
           /\ \A id \in Range(NewIds(u)) : id \in ChunkIds /\ id[1] = u.doc
           /\ NewTexts(u) \in [Range(NewIds(u)) -> Texts]
<1>1. u \in Upload /\ DistinctStarts(u.records)
  BY UploadsAssumption
<1>2. /\ u.doc \in Docs /\ u.hash \in Hashes /\ u.meta \in Metas
      /\ u.records \in Seq(Record)
  BY <1>1 DEF Upload
<1>3. \A i \in DOMAIN u.records : u.records[i].start \in Starts /\ u.records[i].text \in Texts
  <2>1. \A i \in DOMAIN u.records : u.records[i] \in Record
    BY <1>2
  <2>2. QED  BY <2>1 DEF Record
<1>4. NewIds(u) \in Seq(ChunkIds) /\ Len(NewIds(u)) = Len(u.records)
  BY <1>2, <1>3 DEF NewIds, ChunkIds
<1>5. Injective(NewIds(u))
  BY <1>1, <1>2 DEF NewIds, Injective, DistinctStarts
<1>6. \A id \in Range(NewIds(u)) : id \in ChunkIds /\ id[1] = u.doc
  <2>1. SUFFICES ASSUME NEW i \in DOMAIN NewIds(u)
                 PROVE  NewIds(u)[i] \in ChunkIds /\ NewIds(u)[i][1] = u.doc
    BY DEF Range
  <2>2. i \in DOMAIN u.records /\ NewIds(u)[i] = <<u.doc, u.records[i].start>>
    BY DEF NewIds
  <2>3. QED  BY <1>2, <1>3, <2>2 DEF ChunkIds
<1>7. NewTexts(u) \in [Range(NewIds(u)) -> Texts]
  <2>1. ASSUME NEW id \in Range(NewIds(u))
        PROVE  \E i \in DOMAIN u.records : NewIds(u)[i] = id
    BY <1>2 DEF NewIds, Range
  <2>2. QED  BY <1>3, <2>1 DEF NewTexts
<1>8. QED  BY <1>2, <1>4, <1>5, <1>6, <1>7

\* Replacing a document preserves the invariants.
LEMMA UpsertDocumentInv ==
    ASSUME Inv, NEW u \in Uploads, UpsertDocument(u)
    PROVE  Inv'
<1> USE DEF index, cache
<1>1. CASE UNCHANGED <<info, index, cache>>
  BY <1>1, SameState DEF state
<1>2. CASE /\ info.space # NoSpace
           /\ ReplaceRows(u)
           /\ chunks' = Overwrite(Without(chunks, RemovedIds(u.doc)), NewTexts(u))
           /\ vectors' = Overwrite(Without(vectors, RemovedIds(u.doc)), NewTexts(u))
           /\ docChunks' = Overwrite(docChunks, [d \in {u.doc} |-> NewIds(u)])
           /\ documents' = Overwrite(documents,
                                     [d \in {u.doc} |-> [hash |-> u.hash, meta |-> u.meta]])
           /\ DropMatrix /\ UNCHANGED matrixIds
           /\ info' = [info EXCEPT !.count = Cardinality(DOMAIN chunks')]
  <2> DEFINE old == RemovedIds(u.doc)
             new == Range(NewIds(u))
             rest == Filtered(chunkIds, old)
  <2>1. /\ u.doc \in Docs /\ u.hash \in Hashes /\ u.meta \in Metas
        /\ NewIds(u) \in Seq(ChunkIds) /\ Injective(NewIds(u))
        /\ \A id \in new : id \in ChunkIds /\ id[1] = u.doc
        /\ NewTexts(u) \in [new -> Texts]
    BY NewIdsProperties
  <2>2. old = {id \in DOMAIN chunks : id[1] = u.doc}
    BY <2>1 DEF Inv, IndexConsistent
  <2>3. /\ rest \in Seq(ChunkIds) /\ Injective(rest)
        /\ Range(rest) = DOMAIN chunks \ old
    BY FilteredProperties DEF Inv, TypeOK, IndexConsistent
  <2>4. Range(rest) \cap new = {}
    BY <2>1, <2>2, <2>3
  <2>5. /\ chunkIds' \in Seq(ChunkIds) /\ Injective(chunkIds')
        /\ Range(chunkIds') = (DOMAIN chunks \ old) \cup new
    BY <1>2, <2>1, <2>3, <2>4, ConcatInjective DEF ReplaceRows
  <2>6. /\ DOMAIN chunks' = (DOMAIN chunks \ old) \cup new
        /\ DOMAIN chunks' \subseteq ChunkIds /\ chunks' \in [DOMAIN chunks' -> Texts]
    <3>1. DOMAIN chunks' = (DOMAIN chunks \ old) \cup new
      BY <1>2, <2>1 DEF Overwrite, Without
    <3>2. \A id \in DOMAIN chunks' : id \in ChunkIds /\ chunks'[id] \in Texts
      BY <1>2, <2>1, <3>1 DEF Inv, TypeOK, Overwrite, Without
    <3>3. chunks' = [id \in DOMAIN chunks' |-> chunks'[id]]
      BY <1>2, <3>1 DEF Overwrite
    <3>4. QED  BY <3>1, <3>2, <3>3
  <2>7. vectors' = chunks'
    BY <1>2 DEF Inv, IndexConsistent
  <2>8. /\ DOMAIN docChunks' = DOMAIN docChunks \cup {u.doc}
        /\ docChunks'[u.doc] = NewIds(u)
        /\ \A d \in DOMAIN docChunks \ {u.doc} : docChunks'[d] = docChunks[d]
        /\ docChunks' = [d \in DOMAIN docChunks' |-> docChunks'[d]]
    BY <1>2 DEF Overwrite
  <2>9. /\ DOMAIN documents' = DOMAIN documents \cup {u.doc}
        /\ documents' \in [DOMAIN documents' -> [hash : Hashes, meta : Metas]]
    BY <1>2, <2>1 DEF Inv, TypeOK, Overwrite
  <2>10. \A d \in Docs : RemovedIds(d)' = {id \in DOMAIN chunks' : id[1] = d}
    <3>1. TAKE d \in Docs
    <3>2. CASE d = u.doc
      BY <2>1, <2>2, <2>6, <2>8, <3>2 DEF RemovedIds, Removed
    <3>3. CASE d # u.doc
      <4>1. Removed(d)' = Removed(d)
        BY <2>8, <3>3 DEF Removed
      <4>2. RemovedIds(d) = {id \in DOMAIN chunks : id[1] = d}
        BY DEF Inv, IndexConsistent
      <4>3. QED  BY <2>1, <2>2, <2>6, <3>3, <4>1, <4>2 DEF RemovedIds
    <3>4. QED  BY <3>2, <3>3
  <2>11. Cardinality(DOMAIN chunks') \in Nat
    BY <2>5, <2>6, RangeFinite, FS_CardinalityType
  <2>12. info' \in [space : Spaces \cup {NoSpace}, count : Nat] /\ info'.count = Cardinality(DOMAIN chunks')
    BY <1>2, <2>11 DEF Inv, TypeOK
  <2>13. TypeOK'
    <3>1. docChunks' \in [DOMAIN docChunks' -> Seq(ChunkIds)] /\ DOMAIN docChunks' \subseteq Docs
      BY <2>1, <2>8 DEF Inv, TypeOK
    <3>2. DOMAIN documents' \subseteq Docs
      BY <2>1, <2>9 DEF Inv, TypeOK
    <3>3. matrix' = NoMatrix /\ matrixIds' \in Seq(ChunkIds)
      BY <1>2 DEF Inv, TypeOK, DropMatrix
    <3>4. QED  BY <2>5, <2>6, <2>7, <2>9, <2>12, <3>1, <3>2, <3>3 DEF TypeOK
  <2>14. IndexConsistent'
    <3>1. DOMAIN docChunks' = DOMAIN documents'
      BY <2>8, <2>9 DEF Inv, IndexConsistent
    <3>2. \A d \in DOMAIN docChunks' : Injective(docChunks'[d])
      BY <2>1, <2>8 DEF Inv, IndexConsistent
    <3>3. QED  BY <2>5, <2>6, <2>7, <2>10, <2>12, <3>1, <3>2 DEF IndexConsistent
  <2>15. MatrixCurrent'
    BY <1>2 DEF MatrixCurrent, DropMatrix
  <2>16. QED  BY <2>13, <2>14, <2>15 DEF Inv
<1>3. QED  BY <1>1, <1>2 DEF UpsertDocument

\* Deleting a document preserves the invariants.
LEMMA DeleteDocumentInv ==
    ASSUME Inv, NEW d \in Docs, DeleteDocument(d)
    PROVE  Inv'
<1> USE DEF DeleteDocument, ForgetVectors
<1> DEFINE old == RemovedIds(d)
<1>1. old = {id \in DOMAIN chunks : id[1] = d}
  BY DEF Inv, IndexConsistent
<1>2. Removed(d) \in Seq(ChunkIds) /\ (Removed(d) = <<>> => old = {})
  BY DEF Inv, TypeOK, Removed, RemovedIds, Range
<1>3. /\ DOMAIN chunks' = DOMAIN chunks \ old
      /\ DOMAIN chunks' \subseteq ChunkIds /\ chunks' \in [DOMAIN chunks' -> Texts]
  BY DEF Inv, TypeOK, Without
<1>4. vectors' = chunks'
  BY DEF Inv, IndexConsistent
<1>5. /\ chunkIds' \in Seq(ChunkIds) /\ Injective(chunkIds')
      /\ Range(chunkIds') = DOMAIN chunks'
  <2>1. CASE Removed(d) = <<>>
    BY <1>2, <1>3, <2>1 DEF Inv, TypeOK, IndexConsistent
  <2>2. CASE Removed(d) # <<>>
    BY <1>3, <2>2, FilteredProperties DEF Inv, TypeOK, IndexConsistent
  <2>3. QED  BY <2>1, <2>2
<1>6. /\ docChunks' = [e \in DOMAIN docChunks \ {d} |-> docChunks[e]]
      /\ documents' = [e \in DOMAIN documents \ {d} |-> documents[e]]
  BY DEF Without
<1>7. \A e \in Docs : RemovedIds(e)' = {id \in DOMAIN chunks' : id[1] = e}
  <2>1. TAKE e \in Docs
  <2>2. CASE e = d
    <3>1. Removed(e)' = <<>>
      BY <1>6, <2>2 DEF Removed
    <3>2. RemovedIds(e)' = {}
      BY <3>1 DEF RemovedIds, Range
    <3>3. QED  BY <1>1, <1>3, <2>2, <3>2
  <2>3. CASE e # d
    <3>1. Removed(e)' = Removed(e)
      BY <1>6, <2>3 DEF Removed
    <3>2. RemovedIds(e) = {id \in DOMAIN chunks : id[1] = e}
      BY DEF Inv, IndexConsistent
    <3>3. QED  BY <1>1, <1>3, <2>3, <3>1, <3>2 DEF RemovedIds
  <2>4. QED  BY <2>2, <2>3
<1>8. Cardinality(DOMAIN chunks') \in Nat
  BY <1>5, RangeFinite, FS_CardinalityType
<1>9. /\ info' \in [space : Spaces \cup {NoSpace}, count : Nat]
      /\ info'.space # NoSpace => info'.count = Cardinality(DOMAIN chunks')
  BY <1>8 DEF Inv, TypeOK
<1>10. TypeOK'
  <2>1. matrix' \in Seq(Texts) \cup {NoMatrix} /\ matrixIds' \in Seq(ChunkIds)
    BY DEF Inv, TypeOK, DropMatrix
  <2>2. DOMAIN docChunks' \subseteq Docs /\ docChunks' \in [DOMAIN docChunks' -> Seq(ChunkIds)]
    BY <1>6 DEF Inv, TypeOK
  <2>3. /\ DOMAIN documents' \subseteq Docs
        /\ documents' \in [DOMAIN documents' -> [hash : Hashes, meta : Metas]]
    BY <1>6 DEF Inv, TypeOK
  <2>4. QED  BY <1>3, <1>4, <1>5, <1>9, <2>1, <2>2, <2>3 DEF TypeOK
<1>11. IndexConsistent'
  BY <1>3, <1>4, <1>5, <1>6, <1>7, <1>9 DEF Inv, IndexConsistent
<1>12. MatrixCurrent'
  <2>1. CASE Removed(d) = <<>>
    <3>1. vectors' = vectors
      BY <1>2, <2>1 DEF Inv, TypeOK, Without
    <3>2. QED  BY <2>1, <3>1 DEF Inv, MatrixCurrent, Rows
  <2>2. CASE Removed(d) # <<>>
    BY <2>2 DEF MatrixCurrent, DropMatrix
  <2>3. QED  BY <2>1, <2>2
<1>13. QED  BY <1>10, <1>11, <1>12 DEF Inv

\* The rows of the present ids are vectors.
LEMMA RowsType == Inv => Rows(chunkIds) \in Seq(Texts)
<1>1. ASSUME Inv, NEW i \in DOMAIN chunkIds
      PROVE  vectors[chunkIds[i]] \in Texts
  BY <1>1 DEF Inv, TypeOK, IndexConsistent, Range
<1>2. ASSUME Inv PROVE DOMAIN chunkIds = 1..Len(chunkIds) /\ Len(chunkIds) \in Nat
  BY <1>2 DEF Inv, TypeOK
<1>3. QED  BY <1>1, <1>2 DEF Rows

\* What a search uses as its matrix is always the present vectors, row by row.
LEMMA BuildMatrixCurrent == Inv => BuildMatrix = Rows(chunkIds)
  BY DEF Inv, MatrixCurrent, BuildMatrix

\* A search, which may build the matrix, preserves the invariants.
LEMMA SearchInv ==
    ASSUME Inv, NEW q \in Queries, NEW k \in Limits, NEW f \in Metas \cup {NoFilter},
           Search(q, k, f)
    PROVE  Inv'
<1>1. CASE UNCHANGED cache
  BY <1>1, SameState DEF Search, state
<1>2. CASE matrix' = BuildMatrix /\ matrixIds' = chunkIds
  <2> USE DEF Search, index
  <2>1. TypeOK'
    BY <1>2, RowsType, BuildMatrixCurrent DEF Inv, TypeOK
  <2>2. IndexConsistent'
    BY DEF Inv, IndexConsistent, Injective, Range, RemovedIds, Removed
  <2>3. MatrixCurrent'
    BY <1>2, BuildMatrixCurrent DEF MatrixCurrent, Rows
  <2>4. QED  BY <2>1, <2>2, <2>3 DEF Inv
<1>3. QED  BY <1>1, <1>2 DEF Search

\* Closing the store preserves the invariants.
LEMMA CloseInv == Inv /\ Close => Inv'
<1> SUFFICES ASSUME Inv, Close PROVE Inv'
  OBVIOUS
<1> USE DEF Close, index
<1>1. TypeOK'
  BY DEF Inv, TypeOK
<1>2. IndexConsistent'
  BY DEF Inv, IndexConsistent, Injective, Range, RemovedIds, Removed
<1>3. MatrixCurrent'
  BY DEF MatrixCurrent
<1>4. QED  BY <1>1, <1>2, <1>3 DEF Inv

\* The invariants are inductive together.
LEMMA NextInv == Inv /\ [MemoryNext]_memoryVars => Inv'
<1> SUFFICES ASSUME Inv, [MemoryNext]_memoryVars PROVE Inv'
  OBVIOUS
<1>1. ASSUME NEW s \in Spaces, EnsureCollection(s) PROVE Inv'
  BY <1>1, EnsureCollectionInv
<1>2. ASSUME NEW u \in Uploads, UpsertDocument(u) PROVE Inv'
  BY <1>2, UpsertDocumentInv
<1>3. ASSUME NEW d \in Docs, DeleteDocument(d) PROVE Inv'
  BY <1>3, DeleteDocumentInv
<1>4. ASSUME NEW q \in Queries, NEW k \in Limits, NEW f \in Metas \cup {NoFilter},
             Search(q, k, f)
      PROVE  Inv'
  BY <1>4, SearchInv
<1>5. CASE DocumentHashes \/ AllChunks \/ ListDocuments \/ CountChunks
  BY <1>5, SameState DEF DocumentHashes, AllChunks, ListDocuments, CountChunks, state
<1>6. CASE Close
  BY <1>6, CloseInv
<1>7. CASE UNCHANGED memoryVars
  BY <1>7, SameState DEF memoryVars, state
<1>8. QED  BY <1>1, <1>2, <1>3, <1>4, <1>5, <1>6, <1>7 DEF MemoryNext

\* The three invariants of the run hold in every reachable state.
THEOREM InvHolds == MemorySpec => []Inv
  BY InitInv, NextInv, PTL DEF MemorySpec

\* The containers keep their types (memory.py:52-61) whatever the calls.
THEOREM TypeCorrect == MemorySpec => []TypeOK
<1>1. Inv => TypeOK
  BY DEF Inv
<1>2. QED  BY InvHolds, <1>1, PTL

\* No sequence of upserts and deletes (memory.py:106-143) leaves a chunk without its
\* document, a document without its chunks, or a row too many or too few.
THEOREM IndexAlwaysConsistent == MemorySpec => []IndexConsistent
<1>1. Inv => IndexConsistent
  BY DEF Inv
<1>2. QED  BY InvHolds, <1>1, PTL

\* A matrix that _build_matrix (memory.py:149) would reuse is never out of date.
THEOREM MatrixAlwaysCurrent == MemorySpec => []MatrixCurrent
<1>1. Inv => MatrixCurrent
  BY DEF Inv
<1>2. QED  BY InvHolds, <1>1, PTL

----------------------------------------------------------------------------
\* The refinement: each call takes the documents put together from the containers
\* where the protocol takes its own, and returns the same.

\* The instance counts as this module does.
LEMMA SameCardinality == \A S : Promise!Cardinality(S) = Cardinality(S)
  BY DEF Promise!Cardinality, Cardinality

\* The documents together hold exactly the chunks.
LEMMA StoredChunksAreChunks ==
    ASSUME TypeOK, IndexConsistent
    PROVE  /\ DOMAIN StoredDocuments = DOMAIN docChunks
           /\ \A d \in DOMAIN docChunks :
                DOMAIN StoredDocuments[d].chunks = {s \in Starts : <<d, s>> \in DOMAIN chunks}
           /\ Promise!StoredChunks = DOMAIN chunks
           /\ \A id \in DOMAIN chunks : /\ id[1] \in DOMAIN documents
                                         /\ StoredDocuments[id[1]].chunks[id[2]] = chunks[id]
<1>1. DOMAIN StoredDocuments = DOMAIN docChunks /\ DOMAIN docChunks \subseteq Docs
  BY DEF StoredDocuments, IndexConsistent, TypeOK
<1>2. \A d \in DOMAIN docChunks : Range(docChunks[d]) = {id \in DOMAIN chunks : id[1] = d}
  BY <1>1 DEF IndexConsistent, RemovedIds, Removed
<1>3. ASSUME NEW d \in DOMAIN docChunks
      PROVE  DOMAIN StoredDocuments[d].chunks = {s \in Starts : <<d, s>> \in DOMAIN chunks}
  <2>1. DOMAIN StoredDocuments[d].chunks = {id[2] : id \in Range(docChunks[d])}
    <3>1. d \in DOMAIN documents
      BY DEF IndexConsistent
    <3>2. StoredDocuments[d].chunks = StoredChunksOf(d)
      BY <3>1 DEF StoredDocuments
    <3>3. DOMAIN StoredChunksOf(d) = {id[2] : id \in Range(docChunks[d])}
      BY DEF StoredChunksOf, Range
    <3>4. QED  BY <3>2, <3>3
  <2>2. \A id \in DOMAIN chunks : id \in Docs \X Starts
    BY DEF TypeOK, ChunkIds
  <2>3. \A id \in Range(docChunks[d]) : id[2] \in Starts /\ <<d, id[2]>> = id /\ id \in DOMAIN chunks
    BY <1>2, <2>2
  <2>4. \A s \in Starts : <<d, s>> \in DOMAIN chunks => <<d, s>> \in Range(docChunks[d])
    BY <1>2
  <2>5. QED  BY <2>1, <2>3, <2>4
<1>4. ASSUME NEW id \in DOMAIN chunks
      PROVE  id \in ChunkIds /\ id = <<id[1], id[2]>> /\ id[1] \in DOMAIN docChunks
  <2>1. id \in ChunkIds /\ id[1] \in Docs /\ id = <<id[1], id[2]>>
    BY DEF TypeOK, ChunkIds
  <2>2. id \in RemovedIds(id[1])
    BY <2>1 DEF IndexConsistent
  <2>3. QED  BY <2>1, <2>2 DEF RemovedIds, Removed, Range
<1>5. Promise!StoredChunks = DOMAIN chunks
  <2>1. \A id \in ChunkIds : id[1] \in Docs /\ id[2] \in Starts /\ id = <<id[1], id[2]>>
    BY DEF ChunkIds
  <2>2. \A id \in ChunkIds : id[1] \in DOMAIN docChunks =>
            (id[2] \in DOMAIN StoredDocuments[id[1]].chunks <=> id \in DOMAIN chunks)
    BY <1>3, <2>1
  <2>3. Promise!StoredChunks = {id \in ChunkIds : /\ id[1] \in DOMAIN docChunks
                                                 /\ id[2] \in DOMAIN StoredDocuments[id[1]].chunks}
    BY <1>1 DEF Promise!StoredChunks, Promise!ChunkIds, ChunkIds
  <2>4. QED  BY <1>4, <2>2, <2>3
<1>6. ASSUME NEW id \in DOMAIN chunks
      PROVE  StoredDocuments[id[1]].chunks[id[2]] = chunks[id]
  <2>1. id[1] \in DOMAIN documents /\ id[2] \in DOMAIN StoredDocuments[id[1]].chunks
    <3>1. id[1] \in DOMAIN docChunks /\ id[2] \in Starts /\ <<id[1], id[2]>> \in DOMAIN chunks
      BY <1>4 DEF ChunkIds
    <3>2. QED  BY <1>3, <3>1 DEF IndexConsistent
  <2>2. QED  BY <1>1, <1>3, <1>4, <2>1 DEF StoredDocuments, StoredChunksOf
<1>7. QED  BY <1>1, <1>3, <1>4, <1>5, <1>6 DEF IndexConsistent

\* A document has as many chunks as its list has places.
LEMMA DocumentSize ==
    ASSUME TypeOK, IndexConsistent, NEW d \in DOMAIN docChunks
    PROVE  Cardinality(DOMAIN StoredDocuments[d].chunks) = Len(docChunks[d])
<1> DEFINE ids == docChunks[d]
           starts == [i \in DOMAIN ids |-> ids[i][2]]
<1>1. ids \in Seq(ChunkIds) /\ Injective(ids) /\ d \in Docs /\ d \in DOMAIN documents
  BY DEF TypeOK, IndexConsistent
<1>2. \A i \in DOMAIN ids : ids[i] \in ChunkIds /\ ids[i][1] = d
  <2>1. \A id \in RemovedIds(d) : id \in DOMAIN chunks /\ id[1] = d
    BY <1>1 DEF IndexConsistent
  <2>2. QED  BY <2>1 DEF RemovedIds, Removed, Range, TypeOK
<1>3. starts \in Seq(Starts) /\ Len(starts) = Len(ids)
  <2>1. \A i \in DOMAIN ids : ids[i][2] \in Starts
    BY <1>2 DEF ChunkIds
  <2>2. QED  BY <1>1, <2>1
<1>4. Injective(starts)
  <2>1. \A i, j \in DOMAIN ids : ids[i][2] = ids[j][2] => ids[i] = ids[j]
    BY <1>2 DEF ChunkIds
  <2>2. QED  BY <1>1, <2>1 DEF Injective
<1>5. DOMAIN StoredDocuments[d].chunks = Range(starts)
  BY <1>1 DEF StoredDocuments, StoredChunksOf, Range
<1> HIDE DEF starts
<1>6. QED  BY <1>3, <1>4, <1>5, InjectiveCardinality

\* The empty backend is the empty store.
LEMMA PromiseInit == MemoryInit => Promise!Init
<1> SUFFICES ASSUME MemoryInit PROVE Promise!Init
  OBVIOUS
<1>1. StoredDocuments = <<>>
  BY DEF MemoryInit, StoredDocuments
<1>2. QED  BY <1>1 DEF MemoryInit, Promise!Init, Done, Promise!Done

\* The backend fixes the embedding space as promised.
LEMMA PromiseEnsureCollection ==
    ASSUME NEW s \in Spaces, EnsureCollection(s)
    PROVE  Promise!EnsureCollection(s)
<1>1. UNCHANGED StoredDocuments
  BY DEF EnsureCollection, StoredDocuments, StoredChunksOf, index
<1>2. QED
  BY <1>1, SpacesAssumption DEF EnsureCollection, Promise!EnsureCollection,
     Returns, Raises, Done, Promise!Returns, Promise!Raises, Promise!Done

\* The texts the store writes for an upload are those of its records.
LEMMA UploadedTexts ==
    ASSUME NEW u \in Uploads, NEW i \in DOMAIN u.records
    PROVE  /\ NewTexts(u)[NewIds(u)[i]] = u.records[i].text
           /\ Promise!ChunksOf(u.records)[u.records[i].start] = u.records[i].text
<1>1. \A j \in DOMAIN u.records : u.records[j].start = u.records[i].start => j = i
  BY UploadsAssumption DEF DistinctStarts
<1>2. NewIds(u)[i] \in Range(NewIds(u))
  BY DEF NewIds, Range
<1>3. (CHOOSE j \in DOMAIN u.records : NewIds(u)[j] = NewIds(u)[i]) = i
  BY <1>1 DEF NewIds
<1>4. (CHOOSE j \in DOMAIN u.records : u.records[j].start = u.records[i].start) = i
  BY <1>1
<1>5. QED  BY <1>2, <1>3, <1>4 DEF NewTexts, Promise!ChunksOf

\* A document's list names ids of that document, each of them a chunk.
LEMMA ListedChunk ==
    ASSUME Inv, NEW d \in DOMAIN documents
    PROVE  /\ d \in Docs /\ d \in DOMAIN docChunks
           /\ \A i \in DOMAIN docChunks[d] :
                /\ docChunks[d][i] \in DOMAIN chunks
                /\ docChunks[d][i] = <<d, docChunks[d][i][2]>>
<1>1. d \in Docs /\ d \in DOMAIN docChunks
  BY DEF Inv, TypeOK, IndexConsistent
<1>2. \A id \in RemovedIds(d) : id \in DOMAIN chunks /\ id = <<d, id[2]>>
  BY <1>1 DEF Inv, TypeOK, IndexConsistent, ChunkIds
<1>3. \A i \in DOMAIN docChunks[d] : docChunks[d][i] \in RemovedIds(d)
  BY <1>1 DEF RemovedIds, Removed, Range
<1>4. QED  BY <1>1, <1>2, <1>3

\* The backend replaces a document as promised.
LEMMA PromiseUpsertDocument ==
    ASSUME Inv, NEW u \in Uploads, UpsertDocument(u)
    PROVE  Promise!UpsertDocument(u)
<1> USE DEF Returns, Raises, Promise!Returns, Promise!Raises, Fits, Promise!Fits
<1>1. CASE /\ info.space = NoSpace
           /\ Raises("unavailable") /\ UNCHANGED <<info, index, cache>>
  BY <1>1 DEF StoredDocuments, StoredChunksOf, index, Promise!UpsertDocument
<1>2. CASE /\ info.space # NoSpace /\ ~Fits(u, DimOf[info.space])
           /\ Raises("mismatch") /\ UNCHANGED <<info, index, cache>>
  BY <1>2 DEF StoredDocuments, StoredChunksOf, index, Promise!UpsertDocument
<1>3. CASE /\ info.space # NoSpace /\ Fits(u, DimOf[info.space])
           /\ chunks' = Overwrite(Without(chunks, RemovedIds(u.doc)), NewTexts(u))
           /\ docChunks' = Overwrite(docChunks, [d \in {u.doc} |-> NewIds(u)])
           /\ documents' = Overwrite(documents,
                                     [d \in {u.doc} |-> [hash |-> u.hash, meta |-> u.meta]])
           /\ info' = [info EXCEPT !.count = Cardinality(DOMAIN chunks')]
           /\ Returns([count |-> Len(u.records)])
  <2> DEFINE uploaded == [hash |-> u.hash, meta |-> u.meta,
                          chunks |-> Promise!ChunksOf(u.records)]
  <2>1. /\ DOMAIN documents' = DOMAIN documents \cup {u.doc}
        /\ documents'[u.doc] = [hash |-> u.hash, meta |-> u.meta]
        /\ \A d \in DOMAIN documents \ {u.doc} : documents'[d] = documents[d]
    BY <1>3 DEF Overwrite
  <2>2. /\ u.doc \in Docs
        /\ \A id \in Range(NewIds(u)) : id[1] = u.doc
        /\ DOMAIN NewTexts(u) = Range(NewIds(u))
    BY NewIdsProperties
  <2>3. docChunks'[u.doc] = NewIds(u)
    BY <1>3 DEF Overwrite
  <2>4. StoredDocuments'[u.doc] = uploaded
    <3>1. {NewIds(u)[i][2] : i \in DOMAIN NewIds(u)} = {u.records[i].start : i \in DOMAIN u.records}
      BY DEF NewIds
    <3>2. ASSUME NEW i \in DOMAIN u.records
          PROVE  chunks'[<<u.doc, u.records[i].start>>] = Promise!ChunksOf(u.records)[u.records[i].start]
      <4>1. NewIds(u)[i] = <<u.doc, u.records[i].start>> /\ NewIds(u)[i] \in Range(NewIds(u))
        BY DEF NewIds, Range
      <4>2. chunks'[NewIds(u)[i]] = NewTexts(u)[NewIds(u)[i]]
        BY <1>3, <2>2, <4>1 DEF Overwrite
      <4>3. QED  BY <4>1, <4>2, UploadedTexts
    <3>3. StoredChunksOf(u.doc)' = Promise!ChunksOf(u.records)
      <4> DEFINE starts == {u.records[i].start : i \in DOMAIN u.records}
                 F == Promise!ChunksOf(u.records)
      <4>1. F = [s \in starts |-> F[s]]
        BY DEF Promise!ChunksOf
      <4>2. StoredChunksOf(u.doc)' = [s \in starts |-> chunks'[<<u.doc, s>>]]
        BY <2>3, <3>1 DEF StoredChunksOf
      <4>3. \A s \in starts : chunks'[<<u.doc, s>>] = F[s]
        BY <3>2
      <4> HIDE DEF F, starts
      <4>4. F = StoredChunksOf(u.doc)'
        BY <4>1, <4>2, <4>3
      <4>5. QED  BY <4>4 DEF F
    <3>4. StoredDocuments'[u.doc] = [hash |-> u.hash, meta |-> u.meta,
                                     chunks |-> StoredChunksOf(u.doc)']
      BY <2>1 DEF StoredDocuments
    <3>5. QED  BY <3>3, <3>4
  <2>5. ASSUME NEW d \in DOMAIN documents, d # u.doc
        PROVE  StoredDocuments'[d] = StoredDocuments[d]
    <3>1. docChunks'[d] = docChunks[d]
      BY <1>3, <2>5, ListedChunk DEF Overwrite
    <3>2. ASSUME NEW i \in DOMAIN docChunks[d]
          PROVE  chunks'[<<d, docChunks[d][i][2]>>] = chunks[<<d, docChunks[d][i][2]>>]
      <4> DEFINE id == <<d, docChunks[d][i][2]>>
      <4>1. id \in DOMAIN chunks /\ id[1] = d
        BY ListedChunk
      <4>2. id \notin RemovedIds(u.doc) /\ id \notin Range(NewIds(u))
        BY <2>2, <2>5, <4>1 DEF Inv, IndexConsistent
      <4> HIDE DEF id
      <4>3. QED  BY <1>3, <2>2, <4>1, <4>2 DEF Overwrite, Without, id
    <3>3. StoredChunksOf(d)' = StoredChunksOf(d)
      BY <3>1, <3>2 DEF StoredChunksOf
    <3>4. QED  BY <2>1, <2>5, <3>3 DEF StoredDocuments
  <2>6. StoredDocuments' = Promise!Overwrite(StoredDocuments, [d \in {u.doc} |-> uploaded])
    <3>1. DOMAIN StoredDocuments = DOMAIN documents
      BY DEF StoredDocuments
    <3>2. StoredDocuments' = [d \in DOMAIN documents \cup {u.doc} |-> StoredDocuments'[d]]
      BY <2>1 DEF StoredDocuments
    <3> HIDE DEF uploaded
    <3>3. QED  BY <2>4, <2>5, <3>1, <3>2 DEF Promise!Overwrite
  <2>7. info'.space = info.space
    BY <1>3 DEF Inv, TypeOK
  <2>8. QED  BY <1>3, <2>6, <2>7 DEF Promise!UpsertDocument
<1>4. QED  BY <1>1, <1>2, <1>3 DEF UpsertDocument

\* The backend deletes a document as promised.
LEMMA PromiseDeleteDocument ==
    ASSUME Inv, NEW d \in Docs, DeleteDocument(d)
    PROVE  Promise!DeleteDocument(d)
<1> USE DEF DeleteDocument, Returns, Promise!Returns
<1>1. /\ DOMAIN documents' = DOMAIN documents \ {d}
      /\ \A e \in DOMAIN documents' : documents'[e] = documents[e] /\ docChunks'[e] = docChunks[e]
  BY DEF Without, Inv, IndexConsistent
<1>2. ASSUME NEW e \in DOMAIN documents, e # d
      PROVE  StoredDocuments'[e] = StoredDocuments[e]
  <2>1. ASSUME NEW i \in DOMAIN docChunks[e]
        PROVE  chunks'[<<e, docChunks[e][i][2]>>] = chunks[<<e, docChunks[e][i][2]>>]
    <3> DEFINE id == <<e, docChunks[e][i][2]>>
    <3>1. id \in DOMAIN chunks /\ id[1] = e
      BY ListedChunk
    <3>2. id \notin RemovedIds(d)
      BY <1>2, <3>1 DEF Inv, IndexConsistent
    <3> HIDE DEF id
    <3>3. QED  BY <3>1, <3>2 DEF Without, id
  <2>2. e \in DOMAIN documents' /\ documents'[e] = documents[e] /\ docChunks'[e] = docChunks[e]
    BY <1>1, <1>2
  <2> HIDE DEF DeleteDocument
  <2>3. StoredChunksOf(e)' = StoredChunksOf(e)
    BY <2>1, <2>2 DEF StoredChunksOf
  <2>4. QED  BY <2>2, <2>3 DEF StoredDocuments
<1>3. StoredDocuments' = Promise!Without(StoredDocuments, {d})
  <2>1. DOMAIN StoredDocuments = DOMAIN documents
    BY DEF StoredDocuments
  <2>2. StoredDocuments' = [e \in DOMAIN documents \ {d} |-> StoredDocuments'[e]]
    BY <1>1 DEF StoredDocuments
  <2>3. QED  BY <1>2, <2>1, <2>2 DEF Promise!Without
<1>4. Len(Removed(d)) = IF d \in DOMAIN StoredDocuments
                        THEN Cardinality(DOMAIN StoredDocuments[d].chunks) ELSE 0
  <2>1. DOMAIN StoredDocuments = DOMAIN docChunks
    BY StoredChunksAreChunks DEF Inv
  <2>2. CASE d \in DOMAIN docChunks
    BY <2>1, <2>2, DocumentSize DEF Inv, Removed
  <2>3. CASE d \notin DOMAIN docChunks
    BY <2>1, <2>3 DEF Removed
  <2>4. QED  BY <2>2, <2>3
<1>5. info'.space = info.space
  BY DEF Inv, TypeOK
<1>6. reply' = [count |-> Len(Removed(d))]
  OBVIOUS
<1> HIDE DEF DeleteDocument
<1>7. QED  BY <1>3, <1>4, <1>5, <1>6, SameCardinality DEF Promise!DeleteDocument
\* The candidates a search enumerates row by row are those of the stored documents.
LEMMA SameCandidates ==
    ASSUME Inv, NEW f \in Metas \cup {NoFilter}
    PROVE  Candidates(Rows(chunkIds), f) = Promise!Candidates(f)
<1> DEFINE admitted == {id \in DOMAIN chunks : Matches(id, f)}
           hit(id) == Hit(id, chunks[id], Score[chunks[id]])
<1>1. Candidates(Rows(chunkIds), f) = {hit(id) : id \in admitted}
  <2>1. \A i \in DOMAIN chunkIds : Rows(chunkIds)[i] = chunks[chunkIds[i]]
    BY DEF Inv, IndexConsistent, Rows
  <2>2. Candidates(Rows(chunkIds), f) =
            {hit(chunkIds[i]) : i \in {j \in DOMAIN chunkIds : Matches(chunkIds[j], f)}}
    BY <2>1 DEF Candidates
  <2>3. Range(chunkIds) = DOMAIN chunks
    BY DEF Inv, IndexConsistent
  <2>4. admitted = {chunkIds[i] : i \in {j \in DOMAIN chunkIds : Matches(chunkIds[j], f)}}
    BY <2>3 DEF Range
  <2> HIDE DEF hit, admitted
  <2>5. QED  BY <2>2, <2>4
<1>2. Promise!StoredChunks = DOMAIN chunks
  BY StoredChunksAreChunks DEF Inv
<1>3. \A id \in DOMAIN chunks : /\ StoredDocuments[id[1]].chunks[id[2]] = chunks[id]
                                /\ StoredDocuments[id[1]].meta = documents[id[1]].meta
  <2>1. \A id \in DOMAIN chunks : id[1] \in DOMAIN documents
    BY StoredChunksAreChunks DEF Inv
  <2>2. \A d \in DOMAIN documents : StoredDocuments[d].meta = documents[d].meta
    BY DEF StoredDocuments
  <2>3. QED  BY <2>1, <2>2, StoredChunksAreChunks DEF Inv
<1>4. {id \in Promise!StoredChunks : f \in {NoFilter, StoredDocuments[id[1]].meta}} = admitted
  BY <1>2, <1>3 DEF Matches
<1>5. Promise!Candidates(f) = {hit(id) : id \in admitted}
  <2>1. \A id \in admitted : hit(id) = Promise!Hit(id, StoredDocuments[id[1]].chunks[id[2]],
                                        Score[StoredDocuments[id[1]].chunks[id[2]]])
    BY <1>3 DEF Promise!Hit, Hit
  <2> HIDE DEF hit, admitted
  <2>2. QED  BY <1>4, <2>1 DEF Promise!Candidates
<1>6. QED  BY <1>1, <1>5

\* The backend returns the hits promised.
LEMMA PromiseSearch ==
    ASSUME Inv, NEW q \in Queries, NEW k \in Limits, NEW f \in Metas \cup {NoFilter},
           Search(q, k, f)
    PROVE  Promise!Search(q, k, f)
<1> USE DEF Returns, Raises, Promise!Returns, Promise!Raises
<1>1. UNCHANGED info /\ UNCHANGED StoredDocuments
  BY DEF Search, index, StoredDocuments, StoredChunksOf
<1>2. chunkIds = <<>> <=> Promise!StoredChunks = {}
  <2>1. Promise!StoredChunks = Range(chunkIds)
    BY StoredChunksAreChunks DEF Inv, IndexConsistent
  <2>2. chunkIds \in Seq(ChunkIds)
    BY DEF Inv, TypeOK
  <2>3. QED  BY <2>1, <2>2 DEF Range
<1>3. CASE info.space = NoSpace
  BY <1>1, <1>3 DEF Search, Promise!Search
<1>4. CASE info.space # NoSpace /\ (k <= 0 \/ chunkIds = <<>> \/ q.zero) /\ Returns([hits |-> {}])
  BY <1>1, <1>2, <1>4 DEF Search, Promise!Search
<1>5. CASE /\ info.space # NoSpace /\ k > 0 /\ chunkIds # <<>> /\ ~q.zero
           /\ matrix' = BuildMatrix
           /\ IF q.dim = DimOf[info.space]
              THEN Returns([hits |-> Best(Candidates(matrix', f), k)])
              ELSE Raises("dimension")
  <2>1. Best(Candidates(Rows(chunkIds), f), k) = Promise!Best(Promise!Candidates(f), k)
    BY SameCandidates, SameCardinality DEF Best, Promise!Best, Outranks, Promise!Outranks
  <2>2. matrix' = Rows(chunkIds)
    BY <1>5, BuildMatrixCurrent
  <2>3. IF q.dim = DimOf[info.space]
        THEN reply' = [hits |-> Promise!Best(Promise!Candidates(f), k)]
        ELSE reply' = [error |-> "dimension"]
    BY <1>5, <2>1, <2>2
  <2>4. QED  BY <1>1, <1>2, <1>5, <2>3 DEF Promise!Search
<1>6. QED  BY <1>3, <1>4, <1>5 DEF Search

\* The other reads return what is promised.
LEMMA PromiseReads ==
    ASSUME Inv
    PROVE  /\ DocumentHashes => Promise!DocumentHashes
           /\ AllChunks => Promise!AllChunks
           /\ ListDocuments => Promise!ListDocuments
           /\ CountChunks => Promise!CountChunks
<1> USE DEF Returns, Promise!Returns
<1>1. /\ DOMAIN StoredDocuments = DOMAIN documents
      /\ DOMAIN StoredDocuments = DOMAIN docChunks
      /\ \A d \in DOMAIN documents : StoredDocuments[d].hash = documents[d].hash
  BY DEF StoredDocuments, Inv, IndexConsistent
<1>2. /\ Promise!StoredChunks = DOMAIN chunks /\ Range(chunkIds) = DOMAIN chunks
      /\ \A id \in DOMAIN chunks : StoredDocuments[id[1]].chunks[id[2]] = chunks[id]
  BY StoredChunksAreChunks DEF Inv, IndexConsistent
<1>3. UNCHANGED <<info, index>> => UNCHANGED <<info.space, StoredDocuments>>
  BY DEF index, StoredDocuments, StoredChunksOf
<1>4. DocumentHashes => Promise!DocumentHashes
  BY <1>1, <1>3 DEF DocumentHashes, Promise!DocumentHashes
<1>5. AllChunks => Promise!AllChunks
  <2>1. [id \in Range(chunkIds) |-> chunks[id]] =
            [id \in Promise!StoredChunks |-> StoredDocuments[id[1]].chunks[id[2]]]
    BY <1>2
  <2>2. QED  BY <1>3, <2>1 DEF AllChunks, Promise!AllChunks
<1>6. ListDocuments => Promise!ListDocuments
  <2>1. \A d \in DOMAIN docChunks :
            Len(Removed(d)) = Promise!Cardinality(DOMAIN StoredDocuments[d].chunks)
    BY DocumentSize, SameCardinality DEF Inv, Removed
  <2>2. QED  BY <1>1, <1>3, <2>1 DEF ListDocuments, Promise!ListDocuments
<1>7. CountChunks => Promise!CountChunks
  BY <1>2, <1>3, SameCardinality DEF CountChunks, Promise!CountChunks
<1>8. QED  BY <1>4, <1>5, <1>6, <1>7

\* Every step of the backend is a step of the promise, or a stutter.
LEMMA PromiseNext == Inv /\ [MemoryNext]_memoryVars => [Promise!Next]_(Promise!vars)
<1> SUFFICES ASSUME Inv, [MemoryNext]_memoryVars PROVE [Promise!Next]_(Promise!vars)
  OBVIOUS
<1> USE DEF Promise!Next
<1>1. ASSUME NEW s \in Spaces, EnsureCollection(s) PROVE Promise!Next
  BY <1>1, PromiseEnsureCollection
<1>2. ASSUME NEW u \in Uploads, UpsertDocument(u) PROVE Promise!Next
  BY <1>2, PromiseUpsertDocument
<1>3. ASSUME NEW d \in Docs, DeleteDocument(d) PROVE Promise!Next
  BY <1>3, PromiseDeleteDocument
<1>4. ASSUME NEW q \in Queries, NEW k \in Limits, NEW f \in Metas \cup {NoFilter},
             Search(q, k, f)
      PROVE  Promise!Next
  BY <1>4, PromiseSearch
<1>5. CASE DocumentHashes \/ AllChunks \/ ListDocuments \/ CountChunks
  BY <1>5, PromiseReads
<1>6. CASE Close \/ UNCHANGED memoryVars
  BY <1>6 DEF Close, memoryVars, index, StoredDocuments, StoredChunksOf, Promise!vars
<1>7. QED  BY <1>1, <1>2, <1>3, <1>4, <1>5, <1>6 DEF MemoryNext

\* The in-memory backend (store/memory.py) implements the store protocol
\* (store/base.py): what is stored, and what every call returns, ranking included.
THEOREM MemoryStoreImplementsPromise == MemorySpec => ImplementsPromise
<1>1. QED  BY InvHolds, PromiseInit, PromiseNext, PTL
           DEF MemorySpec, ImplementsPromise, Promise!Spec
=============================================================================
