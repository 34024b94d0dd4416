--------------------------- MODULE PgStoreProofs ---------------------------
(***************************************************************************)
(* For any number of processes, calls and documents: a process's idea of   *)
(* its collection's embedding space is the table's, and, where collections *)
(* do not share documents, a collection is a table of documents that are   *)
(* replaced and removed whole, and a delete takes the chunks with it.      *)
(***************************************************************************)
EXTENDS PgStore, ListLemmas

\* No document comes for two collections.
CorporaApart ==
    \A c, d \in Collections : \A u \in Corpus[c], v \in Corpus[d] : u.doc = v.doc => c = d

\* At most one transaction has inserted the row of a collection that has none yet.
OneCreator ==
    /\ \A t \in Tasks : Inserted(t) => collections[Home(t)] = NoSpace
    /\ \A t, u \in Tasks : Inserted(t) /\ Inserted(u) /\ Home(t) = Home(u) => t = u

\* An upsert under way brings vectors of the collection's width.
UpsertsFit ==
    \A t \in Tasks : call[t].op = "upsert" =>
        /\ call[t].upload \in Corpus[Home(t)]
        /\ collections[Home(t)] # NoSpace
        /\ Fits(call[t].upload, DimOf[collections[Home(t)]])

\* A transaction that has written the row of a document is the only one.
RowLocked == \A d \in Docs : \A t, u \in Writers(d) : t = u

\* What such a transaction has deleted is still what is there to delete.
GoneCurrent ==
    \A t \in Tasks :
        /\ call[t].op = "upsert" /\ call[t].at = "cleared" => call[t].gone = Chunks(call[t].upload.doc)
        /\ call[t].op = "delete" /\ call[t].at = "deleted" =>
               Owned(t, call[t].doc) /\ call[t].gone = Chunks(call[t].doc)

\* Every document and chunk came for the collection it is in.
FromCorpus ==
    /\ \A d \in DOMAIN documents : \E u \in Corpus[documents[d].collection] : u.doc = d
    /\ \A id \in DOMAIN chunks : \E u \in Corpus[chunks[id].collection] : u.doc = id[1]

IInv == /\ TypeOK /\ InfoAgrees /\ OneCreator /\ UpsertsFit
        /\ RowLocked /\ GoneCurrent /\ FromCorpus
        /\ IsFiniteSet(DOMAIN chunks)

----------------------------------------------------------------------------

\* The invariant holds at the start.
LEMMA InitInv == Init => IInv
<1> SUFFICES ASSUME Init PROVE IInv
  OBVIOUS
<1>1. \A t \in Tasks : call[t] = Idle
  BY DEF Init
<1>2. TypeOK
  BY ProcessAssumption DEF Init, TypeOK, Calls, Idle
<1>3. InfoAgrees /\ FromCorpus
  BY DEF Init, InfoAgrees, FromCorpus
<1>4. OneCreator /\ UpsertsFit /\ RowLocked /\ GoneCurrent
  BY <1>1 DEF OneCreator, UpsertsFit, RowLocked, GoneCurrent, Inserted, Writers, Idle
<1>5. IsFiniteSet(DOMAIN chunks)
  BY FS_EmptySet DEF Init
<1>6. QED  BY <1>2, <1>3, <1>4, <1>5 DEF IInv

\* An inserted chunk has the text of its start offset.
LEMMA NewChunkAt ==
    ASSUME NEW t, NEW u, NEW s \in DOMAIN ChunksOf(u.records)
    PROVE  NewChunks(t, u)[<<u.doc, s>>] =
               [collection |-> Home(t), text |-> ChunksOf(u.records)[s]]
BY DEF NewChunks

\* What an upload brings: ids of its own document, each with a text.
LEMMA NewChunksProperties ==
    ASSUME NEW t \in Tasks, NEW u \in Uploads
    PROVE  /\ u.doc \in Docs /\ u.hash \in Hashes /\ u.meta \in Metas
           /\ Home(t) \in Collections
           /\ ChunksOf(u.records) \in [DOMAIN ChunksOf(u.records) -> Texts]
           /\ DOMAIN ChunksOf(u.records) \subseteq Starts
           /\ DOMAIN NewChunks(t, u) = {<<u.doc, s>> : s \in DOMAIN ChunksOf(u.records)}
           /\ DOMAIN NewChunks(t, u) \subseteq ChunkIds
           /\ \A s \in DOMAIN ChunksOf(u.records) :
                  NewChunks(t, u)[<<u.doc, s>>] =
                      [collection |-> Home(t), text |-> ChunksOf(u.records)[s]]
           /\ \A id \in DOMAIN NewChunks(t, u) : id[1] = u.doc
           /\ IsFiniteSet(DOMAIN NewChunks(t, u))
<1>1. u \in Upload
  BY UploadsAssumption
<1>2. /\ u.doc \in Docs /\ u.hash \in Hashes /\ u.meta \in Metas
      /\ u.records \in Seq(Record)
  BY <1>1 DEF Upload
<1>3. \A i \in DOMAIN u.records : u.records[i].start \in Starts /\ u.records[i].text \in Texts
  <2>1. \A i \in DOMAIN u.records : u.records[i] \in Record
    BY <1>2
  <2>2. QED  BY <2>1 DEF Record
<1>4. /\ ChunksOf(u.records) \in [DOMAIN ChunksOf(u.records) -> Texts]
      /\ DOMAIN ChunksOf(u.records) \subseteq Starts
  BY <1>3 DEF ChunksOf
<1>5. Home(t) \in Collections
  BY ProcessAssumption DEF Home
<1> DEFINE ids == [i \in DOMAIN u.records |-> <<u.doc, u.records[i].start>>]
<1>9. ids \in Seq(ChunkIds) /\ Range(ids) = DOMAIN NewChunks(t, u)
  <2>1. ids \in Seq(ChunkIds)
    BY <1>2, <1>3 DEF ChunkIds
  <2>2. DOMAIN NewChunks(t, u) =
            {<<u.doc, s>> : s \in {u.records[i].start : i \in DOMAIN u.records}}
    BY DEF NewChunks, ChunksOf
  <2>3. Range(ids) = {<<u.doc, u.records[i].start>> : i \in DOMAIN u.records}
    BY DEF Range
  <2>4. Range(ids) \subseteq DOMAIN NewChunks(t, u)
    BY <2>2, <2>3
  <2>5. DOMAIN NewChunks(t, u) \subseteq Range(ids)
    BY <2>2, <2>3
  <2>6. QED  BY <2>1, <2>4, <2>5
<1>10. IsFiniteSet(DOMAIN NewChunks(t, u))
  <2> HIDE DEF ids
  <2>1. QED  BY <1>9, RangeFinite
<1> HIDE DEF ChunksOf
<1>6. DOMAIN NewChunks(t, u) = {<<u.doc, s>> : s \in DOMAIN ChunksOf(u.records)}
  BY DEF NewChunks
<1>7. \A s \in DOMAIN ChunksOf(u.records) :
          NewChunks(t, u)[<<u.doc, s>>] = [collection |-> Home(t), text |-> ChunksOf(u.records)[s]]
  BY NewChunkAt
<1>8. QED  BY <1>2, <1>4, <1>5, <1>6, <1>7, <1>10 DEF ChunkIds

\* A call in this state has written nothing.
HoldsNothing(s) == \/ s.op \in {"idle", "returned"}
                   \/ s.op = "create" /\ s.at = "missed"
                   \/ s.op = "delete" /\ s.at = "counted"

\* A call that holds nothing may come to be, and end, without disturbing the rest.
LEMMA CallChange ==
    ASSUME IInv, NEW t \in Tasks, NEW s \in Calls, call' = [call EXCEPT ![t] = s], UNCHANGED tables,
           HoldsNothing(s)
    PROVE  /\ call' \in [Tasks -> Calls]
           /\ OneCreator' /\ UpsertsFit' /\ RowLocked' /\ GoneCurrent' /\ FromCorpus'
           /\ IsFiniteSet(DOMAIN chunks)'
<1> USE DEF tables, HoldsNothing
<1>1. call' \in [Tasks -> Calls] /\ call'[t] = s /\ \A v \in Tasks \ {t} : call'[v] = call[v]
  BY DEF IInv, TypeOK
<1>2. \A v \in Tasks : Inserted(v)' => Inserted(v)
  BY <1>1 DEF Inserted
<1>3. \A d : Writers(d)' \subseteq Writers(d)
  BY <1>1 DEF Writers
<1>4. OneCreator'
  BY <1>2 DEF IInv, OneCreator, Home
<1>5. UpsertsFit'
  BY <1>1 DEF IInv, UpsertsFit, Home
<1>6. RowLocked'
  BY <1>3 DEF IInv, RowLocked
<1>7. GoneCurrent'
  BY <1>1 DEF IInv, GoneCurrent, Owned, Chunks, Home
<1>8. FromCorpus' /\ IsFiniteSet(DOMAIN chunks)'
  BY DEF IInv, FromCorpus
<1>9. QED  BY <1>1, <1>4, <1>5, <1>6, <1>7, <1>8

\* A step that changes neither tables nor beliefs and only ends or begins such a call.
LEMMA QuietStep ==
    ASSUME IInv, NEW t \in Tasks, NEW s \in Calls, call' = [call EXCEPT ![t] = s], UNCHANGED <<tables, info>>,
           HoldsNothing(s)
    PROVE  IInv'
<1>1. /\ call' \in [Tasks -> Calls]
      /\ OneCreator' /\ UpsertsFit' /\ RowLocked' /\ GoneCurrent' /\ FromCorpus'
      /\ IsFiniteSet(DOMAIN chunks)'
  BY CallChange
<1>2. TypeOK' /\ InfoAgrees'
  BY <1>1 DEF IInv, TypeOK, InfoAgrees, tables
<1>3. QED  BY <1>1, <1>2 DEF IInv

\* Finding the row of the collection preserves the invariant.
LEMMA FindCollectionInv ==
    ASSUME IInv, NEW t \in Tasks, NEW s \in Spaces, FindCollection(t, s)
    PROVE  IInv'
<1>1. Idle \in Calls /\ HoldsNothing(Idle)
  BY DEF Idle, Calls, HoldsNothing
<1>2. call' = [call EXCEPT ![t] = Idle] /\ UNCHANGED tables
  BY DEF FindCollection, Becomes
<1>3. /\ call' \in [Tasks -> Calls]
      /\ OneCreator' /\ UpsertsFit' /\ RowLocked' /\ GoneCurrent' /\ FromCorpus'
      /\ IsFiniteSet(DOMAIN chunks)'
  BY <1>1, <1>2, CallChange
<1>4. ProcessOf[t] \in Processes
  BY ProcessAssumption
<1>5. TypeOK'
  BY <1>3, <1>4 DEF IInv, TypeOK, FindCollection, tables
<1>6. InfoAgrees'
  BY <1>4 DEF IInv, TypeOK, InfoAgrees, FindCollection, tables, Home
<1>7. QED  BY <1>3, <1>5, <1>6 DEF IInv

\* Finding none preserves the invariant.
LEMMA MissCollectionInv ==
    ASSUME IInv, NEW t \in Tasks, NEW s \in Spaces, MissCollection(t, s)
    PROVE  IInv'
<1> DEFINE new == [op |-> "create", space |-> s, at |-> "missed"]
<1>1. new \in Calls /\ HoldsNothing(new)
  BY DEF Calls, HoldsNothing
<1>2. call' = [call EXCEPT ![t] = new] /\ UNCHANGED <<tables, info>>
  BY DEF MissCollection, Becomes
<1> HIDE DEF new
<1>3. QED  BY <1>1, <1>2, QuietStep

\* Inserting the row preserves the invariant: whoever comes second waits.
LEMMA InsertCollectionInv ==
    ASSUME IInv, NEW t \in Tasks, InsertCollection(t)
    PROVE  IInv'
<1>1. CASE collections[Home(t)] # NoSpace
  <2>1. Idle \in Calls /\ HoldsNothing(Idle)
    BY DEF Idle, Calls, HoldsNothing
  <2>2. call' = [call EXCEPT ![t] = Idle] /\ UNCHANGED <<tables, info>>
    BY <1>1 DEF InsertCollection, Becomes
  <2>3. QED  BY <2>1, <2>2, QuietStep
<1>2. CASE collections[Home(t)] = NoSpace
  <2> DEFINE new == [call[t] EXCEPT !.at = "inserted"]
  <2> USE DEF tables
  <2>1. call[t] \in Calls /\ call[t].op = "create" /\ call' = [call EXCEPT ![t] = new]
    BY <1>2 DEF InsertCollection, Becomes, IInv, TypeOK
  <2>2. new \in Calls /\ new.op = "create"
    BY <2>1 DEF Calls
  <2>3. /\ call' \in [Tasks -> Calls] /\ call'[t].op = "create"
        /\ \A v \in Tasks \ {t} : call'[v] = call[v]
    BY <2>1, <2>2 DEF IInv, TypeOK
  <2>4. UNCHANGED <<tables, info>>
    BY DEF InsertCollection
  <2>5. TypeOK' /\ InfoAgrees' /\ FromCorpus' /\ IsFiniteSet(DOMAIN chunks)'
    BY <2>3, <2>4 DEF IInv, TypeOK, InfoAgrees, FromCorpus
  <2>6. OneCreator'
    <3>1. \A v \in Tasks \ {t} : Inserted(v)' <=> Inserted(v)
      BY <2>3 DEF Inserted
    <3>2. \A v \in Tasks : Inserted(v) => Home(v) # Home(t)
      BY DEF InsertCollection
    <3>3. QED  BY <1>2, <2>4, <3>1, <3>2 DEF IInv, OneCreator, Home
  <2>7. UpsertsFit' /\ GoneCurrent'
    BY <2>3, <2>4 DEF IInv, UpsertsFit, GoneCurrent, Owned, Chunks, Home
  <2>8. RowLocked'
    <3>1. \A d : Writers(d)' \subseteq Writers(d)
      BY <2>3 DEF Writers
    <3>2. QED  BY <3>1 DEF IInv, RowLocked
  <2>9. QED  BY <2>5, <2>6, <2>7, <2>8 DEF IInv
<1>3. QED  BY <1>1, <1>2

\* Committing the row preserves the invariant: nobody has another idea of it yet.
LEMMA CommitCollectionInv ==
    ASSUME IInv, NEW t \in Tasks, CommitCollection(t)
    PROVE  IInv'
<1> USE DEF tables, Becomes
<1>1. call[t] \in Calls /\ call[t].op = "create"
  BY DEF CommitCollection, Inserted, IInv, TypeOK
<1>2. call[t].space \in Spaces /\ call[t].space # NoSpace
  BY <1>1, SpacesAssumption DEF Calls
<1>3. ProcessOf[t] \in Processes /\ Home(t) \in Collections
  BY ProcessAssumption DEF Home
<1>4. collections[Home(t)] = NoSpace
  BY DEF CommitCollection, IInv, OneCreator
<1>5. /\ call' \in [Tasks -> Calls] /\ call'[t] = Idle
      /\ \A v \in Tasks \ {t} : call'[v] = call[v]
  BY DEF CommitCollection, IInv, TypeOK, Calls, Idle
<1>6. TypeOK'
  BY <1>2, <1>3, <1>5 DEF CommitCollection, IInv, TypeOK
<1>7. InfoAgrees'
  <2>1. \A p \in Processes : CollectionOf[p] = Home(t) => info[p] = NoSpace
    BY <1>4 DEF IInv, InfoAgrees
  <2>2. \A p \in Processes : p # ProcessOf[t] /\ CollectionOf[p] = Home(t) => info'[p] = NoSpace
    BY <2>1 DEF CommitCollection, IInv, TypeOK
  <2>3. \A p \in Processes : CollectionOf[p] # Home(t) =>
            info'[p] = info[p] /\ collections'[CollectionOf[p]] = collections[CollectionOf[p]]
    BY ProcessAssumption DEF CommitCollection, IInv, TypeOK, Home
  <2>4. info'[ProcessOf[t]] = call[t].space /\ collections'[Home(t)] = call[t].space
    BY <1>3 DEF CommitCollection, IInv, TypeOK
  <2>5. QED  BY <2>2, <2>3, <2>4 DEF IInv, InfoAgrees, Home
<1>8. OneCreator'
  <2>1. \A v \in Tasks : Inserted(v)' => Inserted(v) /\ v # t
    BY <1>5 DEF Inserted, Idle
  <2>2. \A v \in Tasks : Inserted(v)' => Home(v) # Home(t) /\ Home(v) \in Collections
    BY <2>1, ProcessAssumption DEF CommitCollection, IInv, OneCreator, Home
  <2>3. QED  BY <2>1, <2>2 DEF CommitCollection, IInv, TypeOK, OneCreator, Home
<1>9. UpsertsFit'
  BY <1>3, <1>4, <1>5, ProcessAssumption DEF CommitCollection, IInv, TypeOK, UpsertsFit, Home, Idle
<1>10. RowLocked'
  <2>1. \A d : Writers(d)' \subseteq Writers(d)
    BY <1>5 DEF Writers, Idle
  <2>2. QED  BY <2>1 DEF IInv, RowLocked
<1>11. GoneCurrent' /\ FromCorpus' /\ IsFiniteSet(DOMAIN chunks)'
  BY <1>5 DEF CommitCollection, IInv, GoneCurrent, FromCorpus, Owned, Chunks, Home, Idle
<1>12. QED  BY <1>6, <1>7, <1>8, <1>9, <1>10, <1>11 DEF IInv

\* A document is written by one transaction at a time: what a step may add to the
\* writers is a call that found none.
LEMMA LockTaken ==
    ASSUME IInv, NEW t \in Tasks, NEW d \in Docs,
           \A e \in Docs : Writers(e)' \subseteq Writers(e) \cup {t},
           \A e \in Docs : t \in Writers(e)' /\ t \notin Writers(e) => Writers(e) = {}
    PROVE  RowLocked'
BY DEF IInv, RowLocked

\* Starting an upsert preserves the invariant: the width was checked against what
\* the process believes, which is what the table says.
LEMMA StartUpsertInv ==
    ASSUME IInv, NEW t \in Tasks, NEW u \in Corpus[Home(t)], StartUpsert(t, u)
    PROVE  IInv'
<1> DEFINE new == [op |-> "upsert", upload |-> u, at |-> "begun", gone |-> {}]
<1> USE DEF tables
<1>1. ProcessOf[t] \in Processes /\ Home(t) \in Collections /\ u \in Uploads
  BY ProcessAssumption DEF Home
<1>2. new \in Calls
  BY <1>1 DEF Calls
<1>3. call' = [call EXCEPT ![t] = new] /\ UNCHANGED <<tables, info>>
  BY DEF StartUpsert, Becomes
<1>4. /\ call' \in [Tasks -> Calls] /\ call'[t] = new
      /\ \A v \in Tasks \ {t} : call'[v] = call[v]
  BY <1>2, <1>3 DEF IInv, TypeOK
<1>5. TypeOK' /\ InfoAgrees' /\ FromCorpus' /\ IsFiniteSet(DOMAIN chunks)'
  BY <1>3, <1>4 DEF IInv, TypeOK, InfoAgrees, FromCorpus
<1>6. OneCreator'
  <2>1. \A v \in Tasks : Inserted(v)' => Inserted(v)
    BY <1>4 DEF Inserted
  <2>2. QED  BY <1>3, <2>1 DEF IInv, OneCreator, Home
<1>7. UpsertsFit'
  <2>1. collections[Home(t)] # NoSpace /\ Fits(u, DimOf[collections[Home(t)]])
    BY <1>1 DEF StartUpsert, IInv, InfoAgrees, Home
  <2>2. QED  BY <1>3, <1>4, <2>1 DEF IInv, UpsertsFit, Home
<1>8. RowLocked'
  <2>1. \A d : Writers(d)' \subseteq Writers(d)
    BY <1>4 DEF Writers
  <2>2. QED  BY <2>1 DEF IInv, RowLocked
<1>9. GoneCurrent'
  BY <1>3, <1>4 DEF IInv, GoneCurrent, Owned, Chunks, Home
<1>10. QED  BY <1>5, <1>6, <1>7, <1>8, <1>9 DEF IInv

\* A statement of an upsert under way that changes no table preserves the invariant,
\* if it keeps the lock and what it has deleted is what there is.
LEMMA UpsertStatement ==
    ASSUME IInv, NEW t \in Tasks, call[t].op = "upsert",
           NEW at \in {"written", "cleared"}, NEW gone \in SUBSET ChunkIds,
           call' = [call EXCEPT ![t] = [call[t] EXCEPT !.at = at, !.gone = gone]],
           UNCHANGED <<tables, info>>,
           call[t].at # "begun" \/ Writers(call[t].upload.doc) = {},
           at = "cleared" => gone = Chunks(call[t].upload.doc)
    PROVE  IInv'
<1> USE DEF tables
<1>1. call[t] \in Calls /\ call[t].upload \in Uploads /\ call[t].upload.doc \in Docs
  <2>1. call[t] \in Calls
    BY DEF IInv, TypeOK
  <2>2. call[t].upload \in Uploads
    BY <2>1 DEF Calls
  <2>3. QED  BY <2>1, <2>2, NewChunksProperties
<1>2. /\ call'[t] \in Calls /\ call'[t].op = "upsert" /\ call'[t].upload = call[t].upload
      /\ call'[t].at = at /\ call'[t].gone = gone
  BY <1>1 DEF Calls, IInv, TypeOK
<1>3. /\ call' \in [Tasks -> Calls]
      /\ \A v \in Tasks \ {t} : call'[v] = call[v]
  BY <1>2 DEF IInv, TypeOK
<1>4. TypeOK' /\ InfoAgrees' /\ FromCorpus' /\ IsFiniteSet(DOMAIN chunks)'
  BY <1>3 DEF IInv, TypeOK, InfoAgrees, FromCorpus
<1>5. OneCreator'
  <2>1. \A v \in Tasks : Inserted(v)' => Inserted(v)
    BY <1>2, <1>3 DEF Inserted
  <2>2. QED  BY <2>1 DEF IInv, OneCreator, Home
<1>6. UpsertsFit'
  BY <1>2, <1>3 DEF IInv, UpsertsFit, Home
<1>7. RowLocked'
  <2>1. \A d \in Docs : Writers(d)' \subseteq Writers(d) \cup {t}
    BY <1>3 DEF Writers
  <2>2. \A d \in Docs : t \in Writers(d)' /\ t \notin Writers(d) => Writers(d) = {}
    BY <1>2 DEF Writers
  <2>3. QED  BY <1>1, <2>1, <2>2, LockTaken
<1>8. GoneCurrent'
  <2>1. Chunks(call[t].upload.doc)' = Chunks(call[t].upload.doc)
    BY <1>2 DEF Chunks
  <2>2. QED  BY <1>2, <1>3 DEF IInv, GoneCurrent, Owned, Chunks, Home
<1>9. QED  BY <1>4, <1>5, <1>6, <1>7, <1>8 DEF IInv

\* Writing the document's row takes the lock.
LEMMA WriteDocumentInv ==
    ASSUME IInv, NEW t \in Tasks, WriteDocument(t)
    PROVE  IInv'
<1>1. call[t] \in Calls /\ call[t].op = "upsert" /\ call[t].gone \in SUBSET ChunkIds
  BY DEF WriteDocument, IInv, TypeOK, Calls
<1>2. [call[t] EXCEPT !.at = "written", !.gone = call[t].gone] = [call[t] EXCEPT !.at = "written"]
  BY <1>1 DEF Calls
<1>3. /\ call' = [call EXCEPT ![t] = [call[t] EXCEPT !.at = "written", !.gone = call[t].gone]]
      /\ UNCHANGED <<tables, info>> /\ Writers(call[t].upload.doc) = {}
  BY <1>2 DEF WriteDocument, Becomes
<1>4. QED  BY <1>1, <1>3, UpsertStatement

\* Deleting the old chunks finds those that are there until the commit.
LEMMA DropChunksInv ==
    ASSUME IInv, NEW t \in Tasks, DropChunks(t)
    PROVE  IInv'
<1>1. Chunks(call[t].upload.doc) \in SUBSET ChunkIds
  BY DEF Chunks, IInv, TypeOK
<1>2. /\ call[t].op = "upsert" /\ call[t].at # "begun"
      /\ call' = [call EXCEPT ![t] =
             [call[t] EXCEPT !.at = "cleared", !.gone = Chunks(call[t].upload.doc)]]
      /\ UNCHANGED <<tables, info>>
  BY DEF DropChunks, Becomes
<1>3. QED  BY <1>1, <1>2, UpsertStatement

\* Counting the chunks preserves the invariant.
LEMMA CountForDeleteInv ==
    ASSUME IInv, NEW t \in Tasks, NEW d \in Docs, CountForDelete(t, d)
    PROVE  IInv'
<1> DEFINE n == Cardinality(ChunksIn(d, Home(t)))
           new == [op |-> "delete", doc |-> d, at |-> "counted", gone |-> {}, count |-> n]
<1>1. n \in Nat
  BY FS_Subset, FS_CardinalityType DEF IInv, ChunksIn, Chunks
<1>2. call' = [call EXCEPT ![t] = new] /\ UNCHANGED <<tables, info>>
  BY DEF CountForDelete, Becomes
<1> HIDE DEF n
<1>3. new \in Calls /\ HoldsNothing(new)
  BY <1>1 DEF Calls, HoldsNothing
<1>4. QED
  <2> HIDE DEF new
  <2>1. QED  BY <1>2, <1>3, QuietStep

\* The delete of the document's row takes the lock, or finds no row.
LEMMA DeleteDocumentInv ==
    ASSUME IInv, NEW t \in Tasks, DeleteDocument(t)
    PROVE  IInv'
<1> USE DEF tables
<1>1. call[t] \in Calls /\ call[t].op = "delete"
  BY DEF DeleteDocument, IInv, TypeOK
<1>2. call[t].doc \in Docs /\ call[t].count \in Nat
  BY <1>1 DEF Calls
<1>3. UNCHANGED <<tables, info>>
  BY DEF DeleteDocument
<1>4. CASE ~Owned(t, call[t].doc)
  <2>1. Returned(t) \in Calls /\ HoldsNothing(Returned(t))
    BY <1>2 DEF Returned, Calls, HoldsNothing
  <2>2. call' = [call EXCEPT ![t] = Returned(t)]
    BY <1>4 DEF DeleteDocument, Becomes
  <2>3. QED  BY <1>3, <2>1, <2>2, QuietStep
<1>5. CASE Owned(t, call[t].doc)
  <2> DEFINE new == [call[t] EXCEPT !.at = "deleted", !.gone = Cascade(call[t].doc)]
  <2>1. Writers(call[t].doc) = {} /\ call' = [call EXCEPT ![t] = new]
    BY <1>5 DEF DeleteDocument, Becomes
  <2>2. Cascade(call[t].doc) \in SUBSET ChunkIds
    BY DEF Cascade, Chunks, IInv, TypeOK
  <2>3. /\ new \in Calls /\ new.op = "delete" /\ new.doc = call[t].doc
        /\ new.at = "deleted" /\ new.gone = Cascade(call[t].doc)
    BY <1>1, <2>2 DEF Calls
  <2>4. /\ call' \in [Tasks -> Calls] /\ call'[t].op = "delete" /\ call'[t].doc = call[t].doc
        /\ call'[t].at = "deleted" /\ call'[t].gone = Chunks(call[t].doc)
        /\ \A v \in Tasks \ {t} : call'[v] = call[v]
    BY <2>1, <2>3 DEF IInv, TypeOK, Cascade
  <2>5. TypeOK' /\ InfoAgrees' /\ FromCorpus' /\ IsFiniteSet(DOMAIN chunks)'
    BY <1>3, <2>4 DEF IInv, TypeOK, InfoAgrees, FromCorpus
  <2>6. OneCreator'
    <3>1. \A v \in Tasks : Inserted(v)' => Inserted(v)
      BY <2>4 DEF Inserted
    <3>2. QED  BY <1>3, <3>1 DEF IInv, OneCreator, Home
  <2>7. UpsertsFit'
    BY <1>3, <2>4 DEF IInv, UpsertsFit, Home
  <2>8. RowLocked'
    <3>1. \A d \in Docs : Writers(d)' \subseteq Writers(d) \cup {t}
      BY <2>4 DEF Writers
    <3>2. \A d \in Docs : t \in Writers(d)' /\ t \notin Writers(d) => Writers(d) = {}
      BY <2>1, <2>4 DEF Writers
    <3>3. QED  BY <1>2, <3>1, <3>2, LockTaken
  <2>9. GoneCurrent'
    <3>1. Owned(t, call[t].doc)' /\ Chunks(call[t].doc)' = Chunks(call[t].doc)
      BY <1>3, <1>5, <2>4 DEF Owned, Chunks, Home
    <3>2. QED  BY <1>3, <2>4, <3>1 DEF IInv, GoneCurrent, Owned, Chunks, Home
  <2>10. QED  BY <2>5, <2>6, <2>7, <2>8, <2>9 DEF IInv
<1>6. QED  BY <1>4, <1>5

\* A call that fails, having written or not, is rolled back.
LEMMA FailInv ==
    ASSUME IInv, NEW t \in Tasks, Fail(t)
    PROVE  IInv'
<1>1. Idle \in Calls /\ HoldsNothing(Idle)
  BY DEF Idle, Calls, HoldsNothing
<1>2. call' = [call EXCEPT ![t] = Idle] /\ UNCHANGED <<tables, info>>
  BY DEF Fail, Becomes
<1>3. QED  BY <1>1, <1>2, QuietStep

\* The end of a process preserves the invariant.
LEMMA CrashInv ==
    ASSUME IInv, NEW p \in Processes, Crash(p)
    PROVE  IInv'
<1> USE DEF tables
<1>1. UNCHANGED tables
  BY DEF Crash
<1>2. call' \in [Tasks -> Calls] /\ \A v \in Tasks : call'[v] \in {Idle, call[v]}
  BY DEF Crash, IInv, TypeOK, Calls, Idle
<1>3. TypeOK' /\ FromCorpus' /\ IsFiniteSet(DOMAIN chunks)'
  BY <1>1, <1>2 DEF Crash, IInv, TypeOK, FromCorpus
<1>4. InfoAgrees'
  BY <1>1 DEF Crash, IInv, TypeOK, InfoAgrees
<1>5. \A v \in Tasks : call'[v].op # "idle" => call'[v] = call[v]
  BY <1>2 DEF Idle
<1>6. OneCreator'
  <2>1. \A v \in Tasks : Inserted(v)' => Inserted(v)
    BY <1>5 DEF Inserted
  <2>2. QED  BY <1>1, <2>1 DEF IInv, OneCreator, Home
<1>7. UpsertsFit'
  BY <1>1, <1>5 DEF IInv, UpsertsFit, Home
<1>8. RowLocked'
  <2>1. \A d : Writers(d)' \subseteq Writers(d)
    BY <1>5 DEF Writers
  <2>2. QED  BY <2>1 DEF IInv, RowLocked
<1>9. GoneCurrent'
  BY <1>1, <1>5 DEF IInv, GoneCurrent, Owned, Chunks, Home
<1>10. QED  BY <1>3, <1>4, <1>6, <1>7, <1>8, <1>9 DEF IInv

\* What a committed upsert has done to the tables.
UpsertDone(t, u) ==
    /\ u \in Corpus[Home(t)] /\ u \in Uploads
    /\ u.doc \in Docs
    /\ t \in Writers(u.doc)
    /\ DOMAIN documents' = DOMAIN documents \cup {u.doc}
    /\ documents'[u.doc] = Row(t, u)
    /\ \A e \in DOMAIN documents \ {u.doc} : documents'[e] = documents[e]
    /\ DOMAIN chunks' = (DOMAIN chunks \ Chunks(u.doc))
                            \cup DOMAIN NewChunks(t, u)
    /\ \A id \in DOMAIN NewChunks(t, u) :
           chunks'[id] = NewChunks(t, u)[id]
    /\ \A id \in DOMAIN chunks' \ DOMAIN NewChunks(t, u) :
           id[1] # u.doc /\ chunks'[id] = chunks[id]
    /\ \A id : id[1] = u.doc => (id \in DOMAIN chunks' <=> id \in DOMAIN NewChunks(t, u))
    /\ \A id : id[1] # u.doc => (id \in DOMAIN chunks' <=> id \in DOMAIN chunks)

\* A step that commits an upsert has done that.
LEMMA UpsertEffect ==
    ASSUME IInv, NEW t \in Tasks, CommitUpsert(t), NEW u, u = call[t].upload
    PROVE  UpsertDone(t, u)
<1> DEFINE d == u.doc
           new == NewChunks(t, u)
<1>1. call[t].op = "upsert" /\ call[t].at = "cleared" /\ call[t].gone = Chunks(d)
  BY DEF CommitUpsert, IInv, GoneCurrent
<1>2. u \in Corpus[Home(t)] /\ u \in Uploads
  BY <1>1, ProcessAssumption DEF IInv, UpsertsFit, Home
<1>3. d \in Docs /\ \A id \in DOMAIN new : id[1] = d
  BY <1>2, NewChunksProperties
<1>4. t \in Writers(d)
  BY <1>1 DEF Writers
<1>5. /\ documents' = Overwrite(documents, [x \in {d} |-> Row(t, u)])
      /\ chunks' = Overwrite(Without(chunks, Chunks(d)), new)
  BY <1>1 DEF CommitUpsert
<1> HIDE DEF new
<1>6. /\ DOMAIN documents' = DOMAIN documents \cup {d}
      /\ documents'[d] = Row(t, u)
      /\ \A e \in DOMAIN documents \ {d} : documents'[e] = documents[e]
  BY <1>5 DEF Overwrite
<1>7. DOMAIN chunks' = (DOMAIN chunks \ Chunks(d)) \cup DOMAIN new
  BY <1>5 DEF Overwrite, Without
<1>8. \A id \in DOMAIN new : chunks'[id] = new[id]
  BY <1>5 DEF Overwrite, Without
<1>9. \A id \in DOMAIN chunks' \ DOMAIN new : id[1] # d /\ chunks'[id] = chunks[id]
  <2>1. \A id \in DOMAIN chunks' \ DOMAIN new : id \in DOMAIN chunks \ Chunks(d)
    BY <1>7
  <2>2. \A id \in DOMAIN chunks \ Chunks(d) : id[1] # d
    BY DEF Chunks
  <2>3. \A id \in DOMAIN chunks' \ DOMAIN new : chunks'[id] = chunks[id]
    BY <1>5, <2>1 DEF Overwrite, Without
  <2>4. QED  BY <2>1, <2>2, <2>3
<1>10. \A id : id[1] = d => (id \in DOMAIN chunks' <=> id \in DOMAIN new)
  BY <1>7 DEF Chunks
<1>11. \A id : id[1] # d => (id \in DOMAIN chunks' <=> id \in DOMAIN chunks)
  BY <1>3, <1>7 DEF Chunks
<1>12. QED
  BY <1>2, <1>3, <1>4, <1>6, <1>7, <1>8, <1>9, <1>10, <1>11 DEF UpsertDone, new

\* What a call holds is not disturbed by the commit of another one, whose document
\* is another: the rows it has locked and the chunks it has deleted are the same.
LEMMA OthersUndisturbed ==
    ASSUME IInv, NEW t \in Tasks, NEW d \in Docs, t \in Writers(d),
           call' = [call EXCEPT ![t] = call'[t]],
           HoldsNothing(call'[t]),
           \A id : id[1] # d => (id \in DOMAIN chunks' <=> id \in DOMAIN chunks),
           \A e \in DOMAIN documents \ {d} :
               e \in DOMAIN documents' /\ documents'[e].collection = documents[e].collection
    PROVE  RowLocked' /\ GoneCurrent'
<1>1. \A v \in Tasks \ {t} : call'[v] = call[v]
  BY DEF IInv, TypeOK
<1>2. \A e : Writers(e)' \subseteq Writers(e) \ {t}
  BY <1>1 DEF Writers, HoldsNothing
<1>3. RowLocked'
  BY <1>2 DEF IInv, RowLocked
<1>4. ASSUME NEW v \in Tasks \ {t}, call[v].op = "upsert", call[v].at = "cleared"
      PROVE  call[v].gone = Chunks(call[v].upload.doc) /\ call[v].upload.doc # d
  <2>1. call[v].upload.doc \in Docs
    <3>1. call[v] \in Calls
      BY DEF IInv, TypeOK
    <3>2. call[v].upload \in Uploads
      BY <1>4, <3>1 DEF Calls
    <3>3. QED  BY <3>2, NewChunksProperties
  <2>2. v \in Writers(call[v].upload.doc)
    BY <1>4 DEF Writers
  <2>3. QED  BY <1>4, <2>1, <2>2 DEF IInv, RowLocked, GoneCurrent
<1>5. ASSUME NEW v \in Tasks \ {t}, call[v].op = "delete", call[v].at = "deleted"
      PROVE  /\ call[v].gone = Chunks(call[v].doc) /\ call[v].doc # d
             /\ Owned(v, call[v].doc)
  <2>1. call[v].doc \in Docs
    BY <1>5 DEF IInv, TypeOK, Calls
  <2>2. v \in Writers(call[v].doc)
    BY <1>5 DEF Writers
  <2>3. QED  BY <1>5, <2>1, <2>2 DEF IInv, RowLocked, GoneCurrent
<1>6. ASSUME NEW v \in Tasks, call'[v].op = "upsert", call'[v].at = "cleared"
      PROVE  (call[v].gone = Chunks(call[v].upload.doc))'
  <2>1. v # t
    BY <1>6 DEF HoldsNothing
  <2>2. call'[v] = call[v]
    BY <1>1, <2>1
  <2>3. call[v].gone = Chunks(call[v].upload.doc) /\ call[v].upload.doc # d
    BY <1>4, <1>6, <2>1, <2>2
  <2>4. Chunks(call[v].upload.doc)' = Chunks(call[v].upload.doc)
    BY <2>2, <2>3 DEF Chunks
  <2>5. QED  BY <2>2, <2>3, <2>4
<1>7. ASSUME NEW v \in Tasks, call'[v].op = "delete", call'[v].at = "deleted"
      PROVE  (Owned(v, call[v].doc) /\ call[v].gone = Chunks(call[v].doc))'
  <2>1. v # t
    BY <1>7 DEF HoldsNothing
  <2>2. call'[v] = call[v]
    BY <1>1, <2>1
  <2>3. call[v].gone = Chunks(call[v].doc) /\ call[v].doc # d /\ Owned(v, call[v].doc)
    BY <1>5, <1>7, <2>1, <2>2
  <2>4. Chunks(call[v].doc)' = Chunks(call[v].doc) /\ Owned(v, call[v].doc)'
    BY <2>2, <2>3 DEF Chunks, Owned, Home
  <2>5. QED  BY <2>2, <2>3, <2>4
<1>8. GoneCurrent'
  BY <1>6, <1>7 DEF GoneCurrent
<1>9. QED  BY <1>3, <1>8

\* The commit of an upsert preserves the invariant.
LEMMA CommitUpsertInv ==
    ASSUME IInv, NEW t \in Tasks, CommitUpsert(t)
    PROVE  IInv'
<1> SUFFICES ASSUME NEW u, u = call[t].upload
             PROVE  IInv'
  OBVIOUS
<1> DEFINE d == u.doc
           new == NewChunks(t, u)
<1>1. /\ u \in Corpus[Home(t)] /\ u \in Uploads /\ d \in Docs
      /\ t \in Writers(d)
      /\ DOMAIN documents' = DOMAIN documents \cup {d}
      /\ documents'[d] = Row(t, u)
      /\ \A e \in DOMAIN documents \ {d} : documents'[e] = documents[e]
      /\ DOMAIN chunks' = (DOMAIN chunks \ Chunks(d)) \cup DOMAIN new
      /\ \A id \in DOMAIN new : chunks'[id] = new[id]
      /\ \A id \in DOMAIN chunks' \ DOMAIN new : id[1] # d /\ chunks'[id] = chunks[id]
      /\ \A id : id[1] # d => (id \in DOMAIN chunks' <=> id \in DOMAIN chunks)
  <2>1. UpsertDone(t, u)
    BY UpsertEffect
  <2>2. QED  BY <2>1 DEF UpsertDone
<1>2. /\ Home(t) \in Collections /\ u.hash \in Hashes /\ u.meta \in Metas
      /\ DOMAIN new \subseteq ChunkIds /\ IsFiniteSet(DOMAIN new)
      /\ \A id \in DOMAIN new : id[1] = d
      /\ \A id \in DOMAIN new : new[id] \in [collection : {Home(t)}, text : Texts]
  <2>1. /\ ChunksOf(u.records) \in [DOMAIN ChunksOf(u.records) -> Texts]
        /\ DOMAIN new = {<<u.doc, s>> : s \in DOMAIN ChunksOf(u.records)}
        /\ \A s \in DOMAIN ChunksOf(u.records) :
               new[<<u.doc, s>>] = [collection |-> Home(t), text |-> ChunksOf(u.records)[s]]
    <3>1. ChunksOf(u.records) \in [DOMAIN ChunksOf(u.records) -> Texts]
      BY <1>1, NewChunksProperties
    <3>2. DOMAIN new = {<<u.doc, s>> : s \in DOMAIN ChunksOf(u.records)}
      BY DEF new, NewChunks
    <3>3. ASSUME NEW s \in DOMAIN ChunksOf(u.records)
          PROVE  new[<<u.doc, s>>] = [collection |-> Home(t), text |-> ChunksOf(u.records)[s]]
      BY NewChunkAt DEF new
    <3>4. QED  BY <3>1, <3>2, <3>3
  <2>2. ASSUME NEW id \in DOMAIN new
        PROVE  new[id] \in [collection : {Home(t)}, text : Texts]
    <3>1. PICK s \in DOMAIN ChunksOf(u.records) : id = <<u.doc, s>>
      BY <2>1
    <3>2. new[id] = [collection |-> Home(t), text |-> ChunksOf(u.records)[s]]
      BY <2>1, <3>1
    <3>3. ChunksOf(u.records)[s] \in Texts
      BY <2>1
    <3>4. QED  BY <3>2, <3>3
  <2>3. QED  BY <1>1, <2>2, NewChunksProperties
<1>3. Row(t, u) \in [collection : Collections, hash : Hashes, meta : Metas]
  BY <1>2 DEF Row, IInv, TypeOK
<1>4. call'[t] = Idle /\ call' = [call EXCEPT ![t] = Idle] /\ UNCHANGED <<collections, info>>
  BY DEF CommitUpsert, Becomes, IInv, TypeOK
<1>5. /\ call' \in [Tasks -> Calls] /\ \A v \in Tasks \ {t} : call'[v] = call[v]
  BY <1>4 DEF IInv, TypeOK, Calls, Idle
<1> HIDE DEF new, d
<1>6. TypeOK'
  <2>1. DOMAIN documents' \subseteq Docs
    BY <1>1 DEF IInv, TypeOK
  <2>2. \A e \in DOMAIN documents' :
            documents'[e] \in [collection : Collections, hash : Hashes, meta : Metas]
    BY <1>1, <1>3 DEF IInv, TypeOK
  <2>3. documents' = [e \in DOMAIN documents' |-> documents'[e]]
    BY DEF CommitUpsert, Overwrite
  <2>4. DOMAIN chunks' \subseteq ChunkIds
    BY <1>1, <1>2 DEF IInv, TypeOK
  <2>5. \A id \in DOMAIN chunks' : chunks'[id] \in [collection : Collections, text : Texts]
    BY <1>1, <1>2 DEF IInv, TypeOK
  <2>6. chunks' = [id \in DOMAIN chunks' |-> chunks'[id]]
    BY DEF CommitUpsert, Overwrite
  <2>7. \A id \in DOMAIN chunks' : id[1] \in DOMAIN documents'
    BY <1>1, <1>2 DEF IInv, TypeOK
  <2>8. QED
    BY <1>4, <1>5, <2>1, <2>2, <2>3, <2>4, <2>5, <2>6, <2>7 DEF IInv, TypeOK
<1>7. InfoAgrees'
  BY <1>4 DEF IInv, InfoAgrees
<1>8. OneCreator'
  <2>1. \A v \in Tasks : Inserted(v)' => Inserted(v)
    BY <1>4, <1>5 DEF Inserted, Idle
  <2>2. QED  BY <1>4, <2>1 DEF IInv, OneCreator, Home
<1>9. UpsertsFit'
  BY <1>4, <1>5 DEF IInv, UpsertsFit, Home, Idle
<1>10. RowLocked' /\ GoneCurrent'
  <2>1. call' = [call EXCEPT ![t] = call'[t]] /\ HoldsNothing(call'[t])
    BY <1>4 DEF HoldsNothing, Idle
  <2>2. \A e \in DOMAIN documents \ {d} :
            e \in DOMAIN documents' /\ documents'[e].collection = documents[e].collection
    BY <1>1
  <2>3. QED  BY <1>1, <2>1, <2>2, OthersUndisturbed
<1>11. FromCorpus'
  <2>1. ASSUME NEW e \in DOMAIN documents'
        PROVE  \E v \in Corpus[documents'[e].collection] : v.doc = e
    <3>1. CASE e # d
      BY <1>1, <3>1 DEF IInv, FromCorpus
    <3>2. CASE e = d /\ d \in DOMAIN documents
      BY <1>1, <3>2 DEF IInv, FromCorpus, Row, d
    <3>3. CASE e = d /\ d \notin DOMAIN documents
      BY <1>1, <3>3 DEF Row, d
    <3>4. QED  BY <3>1, <3>2, <3>3
  <2>2. ASSUME NEW id \in DOMAIN chunks'
        PROVE  \E v \in Corpus[chunks'[id].collection] : v.doc = id[1]
    <3>1. CASE id \in DOMAIN new
      <4>1. chunks'[id].collection = Home(t) /\ id[1] = d
        BY <1>1, <1>2, <3>1
      <4>2. QED  BY <1>1, <4>1 DEF d
    <3>2. CASE id \notin DOMAIN new
      BY <1>1, <3>2 DEF IInv, FromCorpus
    <3>3. QED  BY <3>1, <3>2
  <2>3. QED  BY <2>1, <2>2 DEF FromCorpus
<1>12. IsFiniteSet(DOMAIN chunks)'
  <2>1. IsFiniteSet(DOMAIN chunks \ Chunks(d))
    BY FS_Difference DEF IInv
  <2>2. IsFiniteSet((DOMAIN chunks \ Chunks(d)) \cup DOMAIN new)
    BY <1>2, <2>1, FS_Union
  <2>3. QED  BY <1>1, <2>2
<1>13. QED  BY <1>6, <1>7, <1>8, <1>9, <1>10, <1>11, <1>12 DEF IInv

LEMMA DeleteClears ==
    ASSUME IInv, NEW t \in Tasks, CommitDelete(t), NEW d, d = call[t].doc
    PROVE  DOMAIN chunks' = {id \in DOMAIN chunks : id[1] # d}
<1>1. call[t].gone = Chunks(d)
  BY DEF CommitDelete, IInv, GoneCurrent
<1>2. chunks' = Without(chunks, Chunks(d))
  BY <1>1 DEF CommitDelete
<1>3. QED  BY <1>2 DEF Without, Chunks

\* What a committed delete has done to the tables.
LEMMA DeleteEffect ==
    ASSUME IInv, NEW t \in Tasks, CommitDelete(t), NEW d, d = call[t].doc
    PROVE  /\ d \in Docs /\ t \in Writers(d) /\ call[t].count \in Nat
           /\ d \in DOMAIN documents /\ documents[d].collection = Home(t)
           /\ DOMAIN documents' = DOMAIN documents \ {d}
           /\ \A e \in DOMAIN documents' : documents'[e] = documents[e]
           /\ DOMAIN chunks' = {id \in DOMAIN chunks : id[1] # d}
           /\ \A id \in DOMAIN chunks' : chunks'[id] = chunks[id]
<1>1. /\ call[t].op = "delete" /\ call[t].at = "deleted"
      /\ Owned(t, d) /\ call[t].gone = Chunks(d)
  BY DEF CommitDelete, IInv, GoneCurrent
<1>2. d \in Docs /\ call[t].count \in Nat
  <2>1. call[t] \in Calls
    BY DEF IInv, TypeOK
  <2>2. QED  BY <1>1, <2>1 DEF Calls
<1>3. t \in Writers(d)
  BY <1>1 DEF Writers
<1>4. documents' = Without(documents, {d}) /\ chunks' = Without(chunks, Chunks(d))
  BY <1>1 DEF CommitDelete
<1>5. /\ DOMAIN documents' = DOMAIN documents \ {d}
      /\ \A e \in DOMAIN documents' : documents'[e] = documents[e]
  BY <1>4 DEF Without
<1>6. /\ DOMAIN chunks' = {id \in DOMAIN chunks : id[1] # d}
      /\ \A id \in DOMAIN chunks' : chunks'[id] = chunks[id]
  BY <1>4 DEF Without, Chunks
<1>7. QED  BY <1>1, <1>2, <1>3, <1>5, <1>6 DEF Owned

\* The commit of a delete preserves the invariant.
LEMMA CommitDeleteInv ==
    ASSUME IInv, NEW t \in Tasks, CommitDelete(t)
    PROVE  IInv'
<1> SUFFICES ASSUME NEW d, d = call[t].doc
             PROVE  IInv'
  OBVIOUS
<1>1. /\ d \in Docs /\ t \in Writers(d) /\ call[t].count \in Nat
      /\ DOMAIN documents' = DOMAIN documents \ {d}
      /\ \A e \in DOMAIN documents' : documents'[e] = documents[e]
      /\ DOMAIN chunks' = {id \in DOMAIN chunks : id[1] # d}
      /\ \A id \in DOMAIN chunks' : chunks'[id] = chunks[id]
  BY DeleteEffect
<1>2. Returned(t) \in Calls /\ HoldsNothing(Returned(t)) /\ Returned(t).op = "returned"
  BY <1>1 DEF Returned, Calls, HoldsNothing
<1>3. call' = [call EXCEPT ![t] = Returned(t)] /\ UNCHANGED <<collections, info>>
  BY DEF CommitDelete, Becomes
<1>4. /\ call' \in [Tasks -> Calls] /\ call'[t] = Returned(t)
      /\ \A v \in Tasks \ {t} : call'[v] = call[v]
  BY <1>2, <1>3 DEF IInv, TypeOK
<1>5. TypeOK'
  <2>1. documents' = [e \in DOMAIN documents' |-> documents'[e]]
    BY DEF CommitDelete, Without
  <2>2. chunks' = [id \in DOMAIN chunks' |-> chunks'[id]]
    BY DEF CommitDelete, Without
  <2>3. documents' \in [DOMAIN documents' -> [collection : Collections, hash : Hashes, meta : Metas]]
    BY <1>1, <2>1 DEF IInv, TypeOK
  <2>4. chunks' \in [DOMAIN chunks' -> [collection : Collections, text : Texts]]
    BY <1>1, <2>2 DEF IInv, TypeOK
  <2>5. \A id \in DOMAIN chunks' : id[1] \in DOMAIN documents'
    BY <1>1 DEF IInv, TypeOK
  <2>6. DOMAIN documents' \subseteq Docs /\ DOMAIN chunks' \subseteq ChunkIds
    BY <1>1 DEF IInv, TypeOK
  <2>7. QED  BY <1>3, <1>4, <2>3, <2>4, <2>5, <2>6 DEF IInv, TypeOK
<1>6. InfoAgrees'
  BY <1>3 DEF IInv, InfoAgrees
<1>7. OneCreator'
  <2>1. \A v \in Tasks : Inserted(v)' => Inserted(v)
    BY <1>2, <1>4 DEF Inserted
  <2>2. QED  BY <1>3, <2>1 DEF IInv, OneCreator, Home
<1>8. UpsertsFit'
  BY <1>2, <1>3, <1>4 DEF IInv, UpsertsFit, Home
<1>9. RowLocked' /\ GoneCurrent'
  <2>1. call' = [call EXCEPT ![t] = call'[t]] /\ HoldsNothing(call'[t])
    BY <1>2, <1>3, <1>4
  <2>2. \A e \in DOMAIN documents \ {d} :
            e \in DOMAIN documents' /\ documents'[e].collection = documents[e].collection
    BY <1>1
  <2>3. \A id : id[1] # d => (id \in DOMAIN chunks' <=> id \in DOMAIN chunks)
    BY <1>1
  <2>4. QED  BY <1>1, <2>1, <2>2, <2>3, OthersUndisturbed
<1>10. FromCorpus'
  BY <1>1 DEF IInv, FromCorpus
<1>11. IsFiniteSet(DOMAIN chunks)'
  <2>1. DOMAIN chunks' \subseteq DOMAIN chunks
    BY <1>1
  <2>2. QED  BY <2>1, FS_Subset DEF IInv
<1>12. QED  BY <1>5, <1>6, <1>7, <1>8, <1>9, <1>10, <1>11 DEF IInv

----------------------------------------------------------------------------

\* Every step preserves the invariant.
LEMMA NextInv == IInv /\ [Next]_vars => IInv'
<1> SUFFICES ASSUME IInv, [Next]_vars PROVE IInv'
  OBVIOUS
<1>1. CASE UNCHANGED vars
  BY <1>1 DEF vars, tables, IInv, TypeOK, InfoAgrees, OneCreator, UpsertsFit, RowLocked,
              GoneCurrent, FromCorpus, Inserted, Writers, Chunks, Owned, Home
<1>2. ASSUME NEW t \in Tasks, NEW s \in Spaces, FindCollection(t, s) \/ MissCollection(t, s)
      PROVE  IInv'
  BY <1>2, FindCollectionInv, MissCollectionInv
<1>3. ASSUME NEW t \in Tasks, InsertCollection(t) \/ CommitCollection(t)
      PROVE  IInv'
  BY <1>3, InsertCollectionInv, CommitCollectionInv
<1>4. ASSUME NEW t \in Tasks, NEW u \in Corpus[Home(t)], StartUpsert(t, u)
      PROVE  IInv'
  BY <1>4, StartUpsertInv
<1>5. ASSUME NEW t \in Tasks, WriteDocument(t) \/ DropChunks(t) \/ CommitUpsert(t)
      PROVE  IInv'
  BY <1>5, WriteDocumentInv, DropChunksInv, CommitUpsertInv
<1>6. ASSUME NEW t \in Tasks, NEW d \in Docs, CountForDelete(t, d)
      PROVE  IInv'
  BY <1>6, CountForDeleteInv
<1>7. ASSUME NEW t \in Tasks, DeleteDocument(t) \/ CommitDelete(t) \/ Fail(t)
      PROVE  IInv'
  BY <1>7, DeleteDocumentInv, CommitDeleteInv, FailInv
<1>8. ASSUME NEW p \in Processes, Crash(p)
      PROVE  IInv'
  BY <1>8, CrashInv
<1>9. QED
  BY <1>1, <1>2, <1>3, <1>4, <1>5, <1>6, <1>7, <1>8 DEF Next

\* The invariant holds in every reachable state.
THEOREM InvHolds == Spec => []IInv
BY InitInv, NextInv, PTL DEF Spec

\* The tables and the calls have their types and every chunk has its document, over
\* any interleaving of the statements of any number of calls (pgvector.py).
THEOREM PgTypeCorrect == Spec => []TypeOK
<1>1. IInv => TypeOK
  BY DEF IInv
<1>2. QED  BY <1>1, InvHolds, PTL

\* No process believes in an embedding space other than the table's, whichever of
\* several created the collection (ensure_collection, pgvector.py:132-170).
THEOREM BeliefsAgree == Spec => []InfoAgrees
<1>1. IInv => InfoAgrees
  BY DEF IInv
<1>2. QED  BY <1>1, InvHolds, PTL

\* Only a delete's own last step returns it.
LEMMA ReturnedFrom ==
    ASSUME IInv, [Next]_vars, NEW t \in Tasks,
           call'[t].op = "returned", call[t].op = "delete"
    PROVE  CommitDelete(t) \/ DeleteDocument(t)
<1>1. \A v \in Tasks \ {t} : \A s : Becomes(v, s) => call'[t] = call[t]
  BY DEF Becomes, IInv, TypeOK
<1>2. \A s : Becomes(t, s) => s.op = "returned"
  BY DEF Becomes, IInv, TypeOK
<1>3. Next
  BY DEF vars
<1>4. ASSUME NEW v \in Tasks, NEW s \in Spaces, FindCollection(v, s) \/ MissCollection(v, s)
      PROVE  FALSE
  BY <1>1, <1>2, <1>4 DEF FindCollection, MissCollection, Idle
<1>5. ASSUME NEW v \in Tasks, InsertCollection(v) \/ CommitCollection(v)
      PROVE  FALSE
  BY <1>1, <1>5 DEF InsertCollection, CommitCollection, Inserted
<1>6. ASSUME NEW v \in Tasks, NEW u \in Corpus[Home(v)], StartUpsert(v, u)
      PROVE  FALSE
  BY <1>1, <1>2, <1>6 DEF StartUpsert
<1>7. ASSUME NEW v \in Tasks, WriteDocument(v) \/ DropChunks(v) \/ CommitUpsert(v)
      PROVE  FALSE
  BY <1>1, <1>7 DEF WriteDocument, DropChunks, CommitUpsert
<1>8. ASSUME NEW v \in Tasks, NEW d \in Docs, CountForDelete(v, d)
      PROVE  FALSE
  BY <1>1, <1>2, <1>8 DEF CountForDelete
<1>9. ASSUME NEW v \in Tasks, v # t, DeleteDocument(v) \/ CommitDelete(v)
      PROVE  FALSE
  <2>1. \E s : Becomes(v, s)
    BY <1>9 DEF DeleteDocument, CommitDelete
  <2>2. QED  BY <1>1, <1>9, <2>1
<1>10. ASSUME NEW v \in Tasks, Fail(v)
       PROVE  FALSE
  BY <1>1, <1>2, <1>10 DEF Fail, Idle
<1>11. ASSUME NEW p \in Processes, Crash(p)
       PROVE  FALSE
  BY <1>11 DEF Crash, Idle
<1>12. QED
  BY <1>3, <1>4, <1>5, <1>6, <1>7, <1>8, <1>9, <1>10, <1>11 DEF Next

\* Where no document comes for two collections, a delete that returned has taken the
\* document's chunks with it (delete_document, pgvector.py:363-381).
THEOREM DeletesAreWhole == CorporaApart /\ Spec => DeleteTakesChunks
<1> DEFINE Taken == \A t \in Tasks : call'[t].op = "returned" /\ call[t].op = "delete"
                        => ChunksIn(call[t].doc, Home(t))' = {}
<1>1. ASSUME CorporaApart, IInv, IInv', [Next]_vars, NEW t \in Tasks,
             call'[t].op = "returned", call[t].op = "delete"
      PROVE  ChunksIn(call[t].doc, Home(t))' = {}
  <2>1. CASE CommitDelete(t)
    <3>1. PICK d : d = call[t].doc
      OBVIOUS
    <3>2. DOMAIN chunks' = {id \in DOMAIN chunks : id[1] # d}
      BY <1>1, <2>1, <3>1, DeleteClears
    <3>3. call'[t].doc = d
      BY <2>1, <3>1, <1>1 DEF CommitDelete, Becomes, Returned, IInv, TypeOK
    <3>4. QED  BY <3>2, <3>3 DEF ChunksIn, Chunks
  <2>2. CASE DeleteDocument(t)
    <3>1. PICK d : d = call[t].doc
      OBVIOUS
    <3>2. ~Owned(t, d) /\ call'[t].doc = d /\ UNCHANGED tables
      <4>1. call[t] \in Calls /\ UNCHANGED tables
        BY <1>1, <2>2 DEF DeleteDocument, IInv, TypeOK
      <4>2. CASE Owned(t, d)
        <5> DEFINE new == [call[t] EXCEPT !.at = "deleted", !.gone = Cascade(call[t].doc)]
        <5>1. call' = [call EXCEPT ![t] = new]
          BY <2>2, <3>1, <4>2 DEF DeleteDocument, Becomes
        <5>2. new.op = "delete"
          BY <1>1, <4>1 DEF Calls
        <5>3. QED  BY <1>1, <5>1, <5>2 DEF IInv, TypeOK
      <4>3. CASE ~Owned(t, d)
        BY <1>1, <2>2, <3>1, <4>1, <4>3 DEF DeleteDocument, Becomes, Returned, IInv, TypeOK
      <4>4. QED  BY <4>2, <4>3
    <3>3. ASSUME NEW id \in DOMAIN chunks, id[1] = d, chunks[id].collection = Home(t)
          PROVE  FALSE
      <4>1. d \in DOMAIN documents
        BY <1>1, <3>3 DEF IInv, TypeOK
      <4>2. PICK u \in Corpus[Home(t)] : u.doc = d
        BY <1>1, <3>3 DEF IInv, FromCorpus
      <4>3. PICK v \in Corpus[documents[d].collection] : v.doc = d
        BY <1>1, <4>1 DEF IInv, FromCorpus
      <4>4. Home(t) \in Collections /\ documents[d].collection \in Collections
        BY <1>1, <4>1, ProcessAssumption DEF IInv, TypeOK, Home
      <4>5. documents[d].collection = Home(t)
        BY <1>1, <4>2, <4>3, <4>4 DEF CorporaApart
      <4>6. QED  BY <3>2, <4>1, <4>5 DEF Owned
    <3>4. QED  BY <3>2, <3>3 DEF ChunksIn, Chunks, Home, tables
  <2>3. QED  BY <1>1, <2>1, <2>2, ReturnedFrom
<1>2. ASSUME CorporaApart PROVE IInv /\ IInv' /\ [Next]_vars => [Taken]_vars
  BY <1>1, <1>2
<1>3. CorporaApart => (Spec => DeleteTakesChunks)
  <2>1. ASSUME CorporaApart PROVE Spec => DeleteTakesChunks
    BY <1>2, <2>1, InvHolds, PTL DEF Spec, DeleteTakesChunks
  <2>2. QED  BY <2>1
<1>4. QED  BY <1>3

----------------------------------------------------------------------------
\* The refinement.

\* What is stored for a document is the same while its chunks are.
LEMMA SameChunks ==
    ASSUME TypeOK, TypeOK', NEW e, NEW c,
           \A id : id[1] = e => (id \in DOMAIN chunks' <=> id \in DOMAIN chunks),
           \A id \in DOMAIN chunks : id[1] = e => chunks'[id] = chunks[id]
    PROVE  StoredChunks(e, c)' = StoredChunks(e, c)
<1> DEFINE S == {id[2] : id \in ChunksIn(e, c)}
<1>1. ChunksIn(e, c)' = ChunksIn(e, c)
  BY DEF ChunksIn, Chunks
<1>2. ASSUME NEW s \in S PROVE <<e, s>> \in DOMAIN chunks
  <2>1. PICK id \in ChunksIn(e, c) : id[2] = s
    OBVIOUS
  <2>2. id \in ChunkIds /\ id[1] = e /\ id \in DOMAIN chunks
    BY DEF ChunksIn, Chunks, TypeOK
  <2>3. id = <<e, s>>
    BY <2>1, <2>2 DEF ChunkIds
  <2>4. QED  BY <2>2, <2>3
<1>3. \A s \in S : chunks'[<<e, s>>] = chunks[<<e, s>>]
  BY <1>2
<1>4. StoredChunks(e, c)' = [s \in S |-> chunks'[<<e, s>>].text]
  BY <1>1 DEF StoredChunks
<1>5. StoredChunks(e, c) = [s \in S |-> chunks[<<e, s>>].text]
  BY DEF StoredChunks
<1> HIDE DEF S
<1>6. QED  BY <1>3, <1>4, <1>5

\* What is stored in the viewed collection is the same while its documents and their
\* chunks are.
LEMMA SameStored ==
    ASSUME TypeOK, TypeOK',
           NEW D, D = {e \in DOMAIN documents : documents[e].collection = Viewed},
           D = {e \in DOMAIN documents' : documents'[e].collection = Viewed},
           \A e \in D : documents'[e] = documents[e],
           \A id : id[1] \in D => (id \in DOMAIN chunks' <=> id \in DOMAIN chunks),
           \A id \in DOMAIN chunks : id[1] \in D => chunks'[id] = chunks[id]
    PROVE  StoredIn(Viewed)' = StoredIn(Viewed)
<1>1. \A e \in D : StoredChunks(e, Viewed)' = StoredChunks(e, Viewed)
  BY SameChunks
<1>2. StoredIn(Viewed) = [e \in D |-> [hash |-> documents[e].hash, meta |-> documents[e].meta,
                                       chunks |-> StoredChunks(e, Viewed)]]
  BY DEF StoredIn
<1>3. StoredIn(Viewed)' = [e \in D |-> [hash |-> documents'[e].hash, meta |-> documents'[e].meta,
                                        chunks |-> StoredChunks(e, Viewed)']]
  BY DEF StoredIn
<1>4. QED  BY <1>1, <1>2, <1>3

\* The commit of an upsert replaces one document of the collection it comes for.
LEMMA UpsertReplaces ==
    ASSUME CorporaApart, IInv, IInv', NEW t \in Tasks, CommitUpsert(t)
    PROVE  Table!Next \/ UNCHANGED Table!vars
<1> SUFFICES ASSUME NEW u, u = call[t].upload
             PROVE  Table!Next \/ UNCHANGED Table!vars
  OBVIOUS
<1> DEFINE d == u.doc
           new == NewChunks(t, u)
           D == {e \in DOMAIN documents : documents[e].collection = Viewed}
           E == {e \in DOMAIN documents' : documents'[e].collection = Viewed}
<1>1. /\ u \in Corpus[Home(t)] /\ u \in Uploads /\ d \in Docs
      /\ DOMAIN documents' = DOMAIN documents \cup {d}
      /\ documents'[d] = Row(t, u)
      /\ \A e \in DOMAIN documents \ {d} : documents'[e] = documents[e]
      /\ \A id \in DOMAIN new : chunks'[id] = new[id]
      /\ \A id \in DOMAIN chunks' \ DOMAIN new : id[1] # d /\ chunks'[id] = chunks[id]
      /\ \A id : id[1] = d => (id \in DOMAIN chunks' <=> id \in DOMAIN new)
      /\ \A id : id[1] # d => (id \in DOMAIN chunks' <=> id \in DOMAIN chunks)
  <2>1. UpsertDone(t, u)
    BY UpsertEffect
  <2>2. QED  BY <2>1 DEF UpsertDone
<1>2. Home(t) \in Collections /\ Viewed \in Collections
  BY ProcessAssumption DEF Home
<1>3. documents'[d].collection = Home(t)
  <2>1. CASE d \in DOMAIN documents
    <3>1. PICK v \in Corpus[documents[d].collection] : v.doc = d
      BY <2>1 DEF IInv, FromCorpus
    <3>2. documents[d].collection \in Collections
      BY <2>1 DEF IInv, TypeOK
    <3>3. documents[d].collection = Home(t)
      BY <1>1, <1>2, <3>1, <3>2 DEF CorporaApart
    <3>4. QED  BY <1>1, <2>1, <3>3 DEF Row
  <2>2. CASE d \notin DOMAIN documents
    BY <1>1, <2>2 DEF Row
  <2>3. QED  BY <2>1, <2>2
<1>4. UNCHANGED collections
  BY DEF CommitUpsert
<1> HIDE DEF new
<1>5. \A id \in DOMAIN chunks : id[1] # d => chunks'[id] = chunks[id]
  <2>1. \A id \in DOMAIN new : id[1] = d
    BY <1>1, NewChunksProperties DEF new
  <2>2. QED  BY <1>1, <2>1
<1>6. CASE Home(t) # Viewed
  <2>1. d \notin D
    <3>1. ASSUME d \in D PROVE FALSE
      <4>1. PICK v \in Corpus[Viewed] : v.doc = d
        BY <3>1 DEF IInv, FromCorpus
      <4>2. QED  BY <1>1, <1>2, <1>6, <4>1 DEF CorporaApart
    <3>2. QED  BY <3>1
  <2>2. E = D
    BY <1>1, <1>3, <1>6, <2>1
  <2>3. \A e \in D : documents'[e] = documents[e]
    BY <1>1, <2>1
  <2>4. \A id : id[1] \in D => (id \in DOMAIN chunks' <=> id \in DOMAIN chunks)
    BY <1>1, <2>1
  <2>5. \A id \in DOMAIN chunks : id[1] \in D => chunks'[id] = chunks[id]
    BY <1>5, <2>1
  <2>6. StoredIn(Viewed)' = StoredIn(Viewed)
    <3> SUFFICES ASSUME NEW F, F = D
                 PROVE  StoredIn(Viewed)' = StoredIn(Viewed)
      OBVIOUS
    <3>1. /\ F = {e \in DOMAIN documents : documents[e].collection = Viewed}
          /\ F = {e \in DOMAIN documents' : documents'[e].collection = Viewed}
      BY <2>2
    <3> HIDE DEF D, E
    <3>2. QED  BY <2>3, <2>4, <2>5, <3>1, SameStored DEF IInv
  <2>7. QED  BY <1>4, <2>6 DEF Table!vars
<1>7. CASE Home(t) = Viewed
  <2>1. /\ ChunksOf(u.records) \in [DOMAIN ChunksOf(u.records) -> Texts]
        /\ DOMAIN new = {<<d, s>> : s \in DOMAIN ChunksOf(u.records)}
        /\ \A s \in DOMAIN ChunksOf(u.records) :
               new[<<d, s>>] = [collection |-> Viewed, text |-> ChunksOf(u.records)[s]]
    <3>1. ChunksOf(u.records) \in [DOMAIN ChunksOf(u.records) -> Texts]
      BY <1>1, NewChunksProperties
    <3>2. DOMAIN new = {<<u.doc, s>> : s \in DOMAIN ChunksOf(u.records)}
      BY DEF new, NewChunks
    <3>3. ASSUME NEW s \in DOMAIN ChunksOf(u.records)
          PROVE  new[<<u.doc, s>>] = [collection |-> Home(t), text |-> ChunksOf(u.records)[s]]
      BY NewChunkAt DEF new
    <3>4. QED  BY <1>7, <3>1, <3>2, <3>3
  <2>2. StoredChunks(d, Viewed)' = ChunksOf(u.records)
    <3>1. ChunksIn(d, Viewed)' = {<<d, s>> : s \in DOMAIN ChunksOf(u.records)}
      <4>1. ASSUME NEW id \in DOMAIN new PROVE id[1] = d /\ chunks'[id].collection = Viewed
        <5>1. PICK s \in DOMAIN ChunksOf(u.records) : id = <<d, s>>
          BY <2>1
        <5>2. chunks'[id] = [collection |-> Viewed, text |-> ChunksOf(u.records)[s]]
          BY <1>1, <2>1, <5>1
        <5>3. QED  BY <5>1, <5>2
      <4>2. ChunksIn(d, Viewed)' = {id \in DOMAIN chunks' : id[1] = d /\ chunks'[id].collection = Viewed}
        BY DEF ChunksIn, Chunks
      <4>3. ChunksIn(d, Viewed)' = DOMAIN new
        BY <1>1, <4>1, <4>2
      <4>4. QED  BY <2>1, <4>3
    <3>2. {id[2] : id \in ChunksIn(d, Viewed)'} = DOMAIN ChunksOf(u.records)
      <4>1. ASSUME NEW s \in DOMAIN ChunksOf(u.records)
            PROVE  s \in {id[2] : id \in ChunksIn(d, Viewed)'}
        <5>1. <<d, s>> \in ChunksIn(d, Viewed)' /\ <<d, s>>[2] = s
          BY <3>1
        <5>2. QED  BY <5>1
      <4>2. ASSUME NEW id \in ChunksIn(d, Viewed)' PROVE id[2] \in DOMAIN ChunksOf(u.records)
        BY <3>1
      <4>3. QED  BY <4>1, <4>2
    <3>3. ASSUME NEW s \in DOMAIN ChunksOf(u.records)
          PROVE  chunks'[<<d, s>>].text = ChunksOf(u.records)[s]
      <4>1. <<d, s>> \in DOMAIN new
        BY <2>1
      <4>2. chunks'[<<d, s>>] = [collection |-> Viewed, text |-> ChunksOf(u.records)[s]]
        BY <1>1, <2>1, <4>1
      <4>3. QED  BY <4>2
    <3>4. StoredChunks(d, Viewed)' =
              [s \in {id[2] : id \in ChunksIn(d, Viewed)'} |-> chunks'[<<d, s>>].text]
      BY DEF StoredChunks
    <3>5. QED  BY <2>1, <3>2, <3>3, <3>4
  <2>3. ASSUME NEW e \in D \ {d} PROVE StoredChunks(e, Viewed)' = StoredChunks(e, Viewed)
    <3>1. \A id : id[1] = e => (id \in DOMAIN chunks' <=> id \in DOMAIN chunks)
      BY <1>1
    <3>2. \A id \in DOMAIN chunks : id[1] = e => chunks'[id] = chunks[id]
      BY <1>5
    <3>3. QED  BY <3>1, <3>2, SameChunks DEF IInv
  <2>4. E = D \cup {d}
    BY <1>1, <1>3, <1>7
  <2>5. documents'[d].hash = u.hash /\ documents'[d].meta = u.meta
    BY <1>1 DEF Row
  <2> DEFINE next == Overwrite(StoredIn(Viewed), [x \in {u.doc} |->
                 [hash |-> u.hash, meta |-> u.meta, chunks |-> ChunksOf(u.records)]])
             Entry(e) == [hash |-> documents'[e].hash, meta |-> documents'[e].meta,
                          chunks |-> StoredChunks(e, Viewed)']
  <2>6. StoredIn(Viewed)' = [e \in E |-> Entry(e)]
    BY DEF StoredIn
  <2>7. next = [e \in D \cup {d} |-> Entry(e)]
    <3>1. DOMAIN StoredIn(Viewed) = D /\ \A e \in D : StoredIn(Viewed)[e] =
              [hash |-> documents[e].hash, meta |-> documents[e].meta,
               chunks |-> StoredChunks(e, Viewed)]
      BY DEF StoredIn
    <3>2. DOMAIN next = D \cup {d} /\ next = [e \in DOMAIN next |-> next[e]]
      BY <3>1 DEF Overwrite
    <3>3. next[d] = Entry(d)
      BY <2>2, <2>5, <3>1 DEF Overwrite
    <3>4. ASSUME NEW e \in D \ {d} PROVE next[e] = Entry(e)
      <4>1. next[e] = StoredIn(Viewed)[e]
        BY <3>1 DEF Overwrite
      <4>2. documents'[e] = documents[e]
        BY <1>1
      <4>3. QED  BY <2>3, <3>1, <4>1, <4>2
    <3> HIDE DEF next, Entry
    <3>5. QED  BY <3>2, <3>3, <3>4
  <2>8. collections[Viewed] # NoSpace /\ Fits(u, DimOf[collections[Viewed]])
    BY <1>7 DEF CommitUpsert, IInv, UpsertsFit
  <2>9. Table!Fits(u, DimOf[collections[Viewed]])
    BY <2>8 DEF Table!Fits, Fits
  <2>10. Table!Replace(u)
    <3> HIDE DEF Entry, D, E
    <3>1. StoredIn(Viewed)' = next
      BY <2>4, <2>6, <2>7
    <3>2. QED
      BY <1>4, <2>8, <2>9, <3>1 DEF Table!Replace, Table!Overwrite, Table!ChunksOf, Overwrite, ChunksOf
  <2>11. QED  BY <1>1, <2>10 DEF Table!Next
<1>8. QED  BY <1>6, <1>7

\* The commit of a delete removes one document of the collection it is called for.
LEMMA DeleteRemoves ==
    ASSUME IInv, IInv', NEW t \in Tasks, CommitDelete(t)
    PROVE  Table!Next \/ UNCHANGED Table!vars
<1> SUFFICES ASSUME NEW d, d = call[t].doc
             PROVE  Table!Next \/ UNCHANGED Table!vars
  OBVIOUS
<1> DEFINE D == {e \in DOMAIN documents : documents[e].collection = Viewed}
           E == {e \in DOMAIN documents' : documents'[e].collection = Viewed}
<1>1. /\ d \in Docs /\ d \in DOMAIN documents /\ documents[d].collection = Home(t)
      /\ DOMAIN documents' = DOMAIN documents \ {d}
      /\ \A e \in DOMAIN documents' : documents'[e] = documents[e]
      /\ DOMAIN chunks' = {id \in DOMAIN chunks : id[1] # d}
      /\ \A id \in DOMAIN chunks' : chunks'[id] = chunks[id]
  BY DeleteEffect
<1>2. UNCHANGED collections
  BY DEF CommitDelete
<1>3. ASSUME NEW e \in D \ {d} PROVE StoredChunks(e, Viewed)' = StoredChunks(e, Viewed)
  <2>1. \A id : id[1] = e => (id \in DOMAIN chunks' <=> id \in DOMAIN chunks)
    BY <1>1
  <2>2. \A id \in DOMAIN chunks : id[1] = e => chunks'[id] = chunks[id]
    BY <1>1
  <2>3. QED  BY <2>1, <2>2, SameChunks DEF IInv
<1>4. E = D \ {d}
  BY <1>1
<1>5. StoredIn(Viewed)' = Without(StoredIn(Viewed), {d})
  <2>1. StoredIn(Viewed) = [e \in D |-> [hash |-> documents[e].hash, meta |-> documents[e].meta,
                                         chunks |-> StoredChunks(e, Viewed)]]
    BY DEF StoredIn
  <2>2. StoredIn(Viewed)' = [e \in E |-> [hash |-> documents'[e].hash, meta |-> documents'[e].meta,
                                          chunks |-> StoredChunks(e, Viewed)']]
    BY DEF StoredIn
  <2>3. \A e \in E : documents'[e] = documents[e]
    BY <1>1
  <2> HIDE DEF D, E
  <2>4. QED  BY <1>3, <1>4, <2>1, <2>2, <2>3 DEF Without
<1>6. Table!Remove(d)
  BY <1>2, <1>5 DEF Table!Remove, Table!Without, Without
<1>7. QED  BY <1>1, <1>6 DEF Table!Next

\* The commit of a new collection fixes the embedding space of one that had none.
LEMMA CommitCreates ==
    ASSUME IInv, IInv', NEW t \in Tasks, CommitCollection(t)
    PROVE  Table!Next \/ UNCHANGED Table!vars
<1>1. call[t].space \in Spaces
  <2>1. call[t] \in Calls /\ call[t].op = "create"
    BY DEF CommitCollection, Inserted, IInv, TypeOK
  <2>2. QED  BY <2>1 DEF Calls
<1>2. UNCHANGED StoredIn(Viewed)
  BY DEF CommitCollection, StoredIn, StoredChunks, ChunksIn, Chunks
<1>3. CASE Home(t) # Viewed
  <2>1. UNCHANGED collections[Viewed]
    BY <1>3, ProcessAssumption DEF CommitCollection, IInv, TypeOK
  <2>2. QED  BY <1>2, <2>1 DEF Table!vars
<1>4. CASE Home(t) = Viewed
  <2>1. collections[Viewed] = NoSpace
    BY <1>4 DEF CommitCollection, IInv, OneCreator
  <2>2. collections'[Viewed] = call[t].space
    BY <1>4, ProcessAssumption DEF CommitCollection, IInv, TypeOK
  <2>3. Table!Create(call[t].space)
    BY <1>2, <2>1, <2>2 DEF Table!Create
  <2>4. QED  BY <1>1, <2>3 DEF Table!Next
<1>5. QED  BY <1>3, <1>4

\* A step that changes no table changes nothing that is promised.
LEMMA QuietStutters == UNCHANGED tables => UNCHANGED Table!vars
BY DEF tables, Table!vars, StoredIn, StoredChunks, ChunksIn, Chunks

\* Every step replaces or removes at most one document, whole.
LEMMA StepImplements ==
    ASSUME CorporaApart, IInv, IInv', [Next]_vars
    PROVE  [Table!Next]_(Table!vars)
<1> SUFFICES Table!Next \/ UNCHANGED Table!vars
  OBVIOUS
<1>1. ASSUME NEW t \in Tasks, CommitCollection(t)
      PROVE  Table!Next \/ UNCHANGED Table!vars
  BY <1>1, CommitCreates
<1>2. ASSUME NEW t \in Tasks, CommitUpsert(t)
      PROVE  Table!Next \/ UNCHANGED Table!vars
  BY <1>2, UpsertReplaces
<1>3. ASSUME NEW t \in Tasks, CommitDelete(t)
      PROVE  Table!Next \/ UNCHANGED Table!vars
  BY <1>3, DeleteRemoves
<1>4. CASE UNCHANGED tables
  BY <1>4, QuietStutters
<1>5. \/ \E t \in Tasks : CommitCollection(t) \/ CommitUpsert(t) \/ CommitDelete(t)
      \/ UNCHANGED tables
  BY DEF Next, vars, FindCollection, MissCollection, InsertCollection, StartUpsert, WriteDocument,
         DropChunks, CountForDelete, DeleteDocument, Fail, Crash
<1>6. QED  BY <1>1, <1>2, <1>3, <1>4, <1>5

\* Where no document comes for two collections, a collection is a table of whole
\* documents in one embedding space, over any interleaving of the statements of any
\* number of upserts and deletes, failing and crashing ones included
\* (pgvector.py:15-16, 217).
THEOREM PgStoreImplementsTable == CorporaApart /\ Spec => ImplementsTable
<1>1. Init => Table!Init
  <2> SUFFICES ASSUME Init PROVE Table!Init
    OBVIOUS
  <2>1. collections[Viewed] = NoSpace
    BY ProcessAssumption DEF Init
  <2>2. StoredIn(Viewed) = <<>>
    BY DEF Init, StoredIn
  <2>3. QED  BY <2>1, <2>2 DEF Table!Init
<1>2. ASSUME CorporaApart PROVE Spec => ImplementsTable
  <2>1. IInv /\ IInv' /\ [Next]_vars => [Table!Next]_(Table!vars)
    BY <1>2, StepImplements
  <2>2. QED  BY <1>1, <2>1, InvHolds, PTL DEF Spec, ImplementsTable, Table!Spec
<1>3. QED  BY <1>2
=============================================================================
