---------------------------- MODULE LexicalIndex ----------------------------
(***************************************************************************)
(* retrieve/lexical.py: the BM25 index over the store's chunks, kept in    *)
(* memory and in a file.  Queries run concurrently: each awaits the list   *)
(* of chunks from the store, then brings the index up to date with that    *)
(* list and scores it without another await.  Meanwhile documents are      *)
(* re-ingested and deleted, writing the file fails, and the process        *)
(* restarts.                                                               *)
(*                                                                         *)
(* A chunk's text is one of the texts of its id, and stands for the terms  *)
(* tokenize makes of it.  A fingerprint is the set of ids it digests.      *)
(***************************************************************************)
EXTENDS Integers, Sequences

CONSTANTS
    Ids,        \* chunk ids
    TextsOf,    \* id -> the texts a chunk with this id may have
    Queries,    \* slots for queries in flight
    NoFile      \* the file is missing, unreadable or corrupt: a cache miss

Texts == UNION {TextsOf[id] : id \in Ids}
Chunk == [id : Ids, text : Texts]

ASSUME TextsAssumption == TextsOf \in [Ids -> SUBSET Texts]

VARIABLES
    rows,       \* the store's chunks, in its order
    chunks,     \* the chunks indexed (_chunks)
    scorer,     \* the terms it scores by, position by position (_scorer); <<>> for None
    print,      \* the fingerprint of the index (_fingerprint; {} until there is one)
    disk,       \* the persisted index
    status,     \* what each query is doing
    listed,     \* the chunks the store listed to it
    scored,     \* the (chunk, terms) pairs the query was scored against
    writeFailed \* history: persisting has raised since the process started

index == <<chunks, scorer, print>>
queries == <<status, listed, scored>>
vars == <<rows, index, disk, queries, writeFailed>>

----------------------------------------------------------------------------

IdsOf(s) == {s[i].id : i \in DOMAIN s}
IdList(s) == [i \in DOMAIN s |-> s[i].id]
TextList(s) == [i \in DOMAIN s |-> s[i].text]

\* chunk_fingerprint sorts, so that it depends on the set of ids alone.
Fingerprint(s) == IdsOf(s)

Init ==
    /\ rows = <<>>
    /\ chunks = <<>> /\ scorer = <<>> /\ print = {}
    /\ disk = NoFile
    /\ status = [q \in Queries |-> "idle"]
    /\ listed = [q \in Queries |-> <<>>]
    /\ scored = [q \in Queries |-> {}]
    /\ writeFailed = FALSE

----------------------------------------------------------------------------
\* The store.

\* The chunk with this id leaves; a re-ingested one comes back at the end.
RowsWithout(id) ==
    LET at == CHOOSE i \in DOMAIN rows : rows[i].id = id
    IN  IF id \notin IdsOf(rows) THEN rows
        ELSE [i \in 1..(Len(rows) - 1) |-> IF i < at THEN rows[i] ELSE rows[i + 1]]

Ingest(id, text) == /\ rows' = Append(RowsWithout(id), [id |-> id, text |-> text])
                    /\ UNCHANGED <<index, disk, queries, writeFailed>>

Remove(id) == /\ id \in IdsOf(rows)
              /\ rows' = RowsWithout(id)
              /\ UNCHANGED <<index, disk, queries, writeFailed>>

----------------------------------------------------------------------------
\* A query.

\* The store has answered all_chunks; the query will go on with that list.
List(q) ==
    /\ status[q] # "listed"
    /\ status' = [status EXCEPT ![q] = "listed"]
    /\ listed' = [listed EXCEPT ![q] = rows]
    /\ scored' = [scored EXCEPT ![q] = {}]
    /\ UNCHANGED <<rows, index, disk, writeFailed>>

\* Mutant: there is an index, so it is used.
AnyIndex(s) == scorer # <<>>

InDate(s) == scorer # <<>> /\ print = Fingerprint(s)

\* The file holds an index of these chunks, each of them under its id.
Persisted(s) == /\ disk # NoFile /\ disk.print = Fingerprint(s)
                /\ Len(disk.tokens) = Len(disk.ids)
                /\ IdsOf(s) \subseteq {disk.ids[i] : i \in DOMAIN disk.ids}

\* Mutant: the persisted terms are taken in the order they were written in.
ByPosition(s) == [i \in DOMAIN s |-> disk.tokens[i]]

\* The persisted terms, looked up by chunk id.
Realigned(s) == [i \in DOMAIN s |->
    disk.tokens[CHOOSE j \in DOMAIN disk.ids : disk.ids[j] = s[i].id]]

\* Mutant: the scorer of the previous index stays.
KeepScorer(s, terms) == chunks' = s /\ UNCHANGED scorer /\ print' = Fingerprint(s)

Use(s, terms) == chunks' = s /\ scorer' = terms /\ print' = Fingerprint(s)

\* The rest of ensure_index, for the chunks listed.
EnsureIndex(s) ==
    \/ InDate(s) /\ UNCHANGED <<index, disk>>
    \/ ~InDate(s) /\ s = <<>> /\ Use(s, <<>>) /\ UNCHANGED disk
    \/ ~InDate(s) /\ s # <<>> /\ Persisted(s) /\ Use(s, Realigned(s)) /\ UNCHANGED disk
    \/ /\ ~InDate(s) /\ s # <<>> /\ ~Persisted(s)
       /\ Use(s, TextList(s))
       /\ disk' = [print |-> Fingerprint(s), ids |-> IdList(s), tokens |-> TextList(s)]

\* What a query is scored against: the scorer's terms, paired with the chunks.
Scored == {[chunk |-> chunks[i], terms |-> scorer[i]] : i \in DOMAIN scorer}

\* The index is brought up to date and the query scored.  A query without a single
\* term returns nothing; a scorer and chunks of different lengths raise.
Answer(q) ==
    /\ status[q] = "listed"
    /\ EnsureIndex(listed[q])
    /\ \/ /\ Len(scorer') = Len(chunks')
          /\ status' = [status EXCEPT ![q] = "scored"] /\ scored' = [scored EXCEPT ![q] = Scored']
       \/ status' = [status EXCEPT ![q] = "idle"] /\ UNCHANGED scored
    /\ UNCHANGED <<rows, listed, writeFailed>>

\* Persisting raises: the file is as it was or cut short, the chunks are replaced,
\* and the scorer and the fingerprint are not.
WriteFails(q) ==
    /\ status[q] = "listed"
    /\ ~InDate(listed[q]) /\ listed[q] # <<>> /\ ~Persisted(listed[q])
    /\ chunks' = listed[q]
    /\ disk' \in {disk, NoFile}
    /\ status' = [status EXCEPT ![q] = "idle"]
    /\ writeFailed' = TRUE
    /\ UNCHANGED <<rows, scorer, print, listed, scored>>

----------------------------------------------------------------------------

\* The process restarts, perhaps in the middle of writing the file; the in-memory
\* store loses its rows, pgvector keeps them.
Restart ==
    /\ rows' \in {rows, <<>>}
    /\ disk' \in {disk, NoFile}
    /\ chunks' = <<>> /\ scorer' = <<>> /\ print' = {}
    /\ status' = [q \in Queries |-> "idle"]
    /\ listed' = [q \in Queries |-> <<>>]
    /\ scored' = [q \in Queries |-> {}]
    /\ writeFailed' = FALSE

Next == \/ \E id \in Ids : Remove(id) \/ \E text \in TextsOf[id] : Ingest(id, text)
        \/ \E q \in Queries : List(q) \/ Answer(q) \/ WriteFails(q)
        \/ Restart

Spec == Init /\ [][Next]_vars

----------------------------------------------------------------------------

\* The variables have their types, and the index and the file pair every chunk
\* with one list of terms, unless writing the file has failed.
TypeOK ==
    /\ rows \in Seq(Chunk) /\ chunks \in Seq(Chunk) /\ scorer \in Seq(Texts)
    /\ print \in SUBSET Ids
    /\ disk \in [print : SUBSET Ids, ids : Seq(Ids), tokens : Seq(Texts)] \cup {NoFile}
    /\ status \in [Queries -> {"idle", "listed", "scored"}]
    /\ listed \in [Queries -> Seq(Chunk)]
    /\ scored \in [Queries -> SUBSET [chunk : Chunk, terms : Texts]]
    /\ writeFailed \in BOOLEAN
    /\ ~writeFailed => Len(scorer) = Len(chunks)
    /\ disk # NoFile => Len(disk.tokens) = Len(disk.ids)

\* A query is scored against exactly the chunk ids the store listed to it, although
\* other queries that were listed other chunks replace the index while it waits
\* (lexical.py:124-128, 182-187).
ScoresWhatWasListed ==
    ~writeFailed => \A q \in Queries :
        status[q] = "scored" => {s.chunk.id : s \in scored[q]} = IdsOf(listed[q])

\* No chunk is scored by the terms of another chunk (lexical.py:80-86).
OwnTermsOnly == \A q \in Queries : \A s \in scored[q] :
    s.chunk.text \in TextsOf[s.chunk.id] /\ s.terms \in TextsOf[s.chunk.id]

\* Unless writing the file fails, OwnTermsOnly holds: documents land in another
\* order in every run and the fingerprint ignores the order, so a reloaded file has
\* to be aligned with the present one (lexical.py:80-86, 137-140).
NoForeignTerms == ~writeFailed => OwnTermsOnly

\* The chunks a query is scored against are those the store listed
\* (lexical.py:53: "the same chunk set the dense retriever searches").
SameChunksAsStore ==
    ~writeFailed => \A q \in Queries : status[q] = "scored" =>
        {s.chunk : s \in scored[q]} = {listed[q][i] : i \in DOMAIN listed[q]}
=============================================================================
