----------------------------- MODULE StoreData -----------------------------
(***************************************************************************)
(* The data both store modules speak of: documents, chunks, embeddings,    *)
(* queries, and the ranking of a search.                                   *)
(*                                                                         *)
(* A chunk id is the pair it is derived from, and an embedding is          *)
(* represented by the text it is computed from: the properties distinguish *)
(* neither from what stands for it.                                        *)
(***************************************************************************)
EXTENDS Integers, FiniteSets, Sequences, Functions, Lists

CONSTANTS
    Docs,       \* document ids
    Hashes,     \* content hashes
    Metas,      \* values of the one metadata key that filters test
    Starts,     \* start offsets of chunks; a chunk id is UUID5(doc_id:start)
    Texts,      \* chunk texts; an embedding is a function of the text
    Spaces,     \* embedders a caller may come with
    DimOf,      \* the dimension of each embedder's vectors
    Score,      \* cosine of the query with the embedding of a text, scaled
    IdRank,     \* the order of chunk ids, which breaks ties between scores
    Uploads,    \* the (document, records) pairs upsert_document is called with
    Queries,    \* the query vectors: their dimension and whether they are zero
    Limits,     \* the values of top_k
    NoSpace,    \* no collection yet
    NoFilter    \* a search without a metadata filter

ChunkIds == Docs \X Starts
Record == [start : Starts, text : Texts]
Upload == [doc : Docs, hash : Hashes, meta : Metas, dim : Nat, records : Seq(Record)]

\* The finaliser of the chunkers emits a start offset once per document.
DistinctStarts(records) ==
    \A i, j \in DOMAIN records : records[i].start = records[j].start => i = j

ASSUME UploadsAssumption ==
    /\ Uploads \subseteq Upload
    /\ \A u \in Uploads : DistinctStarts(u.records)
ASSUME SpacesAssumption == DimOf \in [Spaces -> Nat] /\ NoSpace \notin Spaces
ASSUME FilterAssumption == NoFilter \notin Metas
ASSUME QueriesAssumption == Queries \subseteq [dim : Nat, zero : BOOLEAN]
ASSUME RankAssumption ==
    /\ Score \in [Texts -> Int]
    /\ IdRank \in [ChunkIds -> Int]
    /\ \A a, b \in ChunkIds : IdRank[a] = IdRank[b] => a = b
ASSUME LimitsAssumption == Limits \subseteq Int

\* f with g written over it, as a dict is updated key by key.
Overwrite(f, g) == [x \in DOMAIN f \cup DOMAIN g |-> IF x \in DOMAIN g THEN g[x] ELSE f[x]]
\* f without the keys in S, as a dict after pop.
Without(f, S) == [x \in DOMAIN f \ S |-> f[x]]

\* Every record's vector has the collection's width.
Fits(u, dimension) == u.records = <<>> \/ u.dim = dimension

\* The chunks of a document: start offset -> text.
ChunksOf(records) ==
    [start \in {records[i].start : i \in DOMAIN records} |->
        records[CHOOSE j \in DOMAIN records : records[j].start = start].text]

\* A hit outranks another on its score, then on its chunk id.
Outranks(a, b) == \/ a.score > b.score
                  \/ a.score = b.score /\ IdRank[a.id] < IdRank[b.id]

\* The first k candidates of the ranking; the ranking is total, so the set
\* determines the list a search returns.
Best(candidates, k) == {c \in candidates : Cardinality({b \in candidates : Outranks(b, c)}) < k}

Hit(id, text, score) == [id |-> id, text |-> text, score |-> score]
=============================================================================
