# Formal verification of the Retrieval Engine

TLA+ modules, TLC configurations and TLAPS proofs for the Retrieval Engine, a
retrieval-augmented question-answering service in Python: documents are ingested
into a vector store, questions are answered from the chunks that dense and lexical
retrieval find. Paths below are relative to `src/src/retrieval_engine/` unless they
start with `src/`.

Everything in the service shares one asyncio event loop, with a few calls in worker
threads (`asyncio.to_thread`). A coroutine is interrupted only where it awaits, so a
method without an await is one atomic step of a model, and every await of a longer
operation is a boundary between steps.

## Inventory

| Component | State | Operations | Hard behaviour | What makes it correct |
| --- | --- | --- | --- | --- |
| Store protocol (`store/base.py`) | embedding space; documents with hash, metadata, chunks | ensure, upsert, delete, search, reads | refuse without changing | whole-document replacement; reads are functions of what is stored |
| In-memory store (`store/memory.py`) | five containers, cached matrix | the same, and close | containers updated one by one; cache reuse | implements the protocol |
| PostgreSQL store (`store/pgvector.py`) | pool, three tables | the same | transactions, first-use races, several processes | implements the protocol |
| Ingestion (`ingest/pipeline.py`) | hash snapshot, semaphore, tasks | `ingest_paths` | overlapping calls, stale snapshot, faults, crash and rerun | store and corpus in step; rerun is a no-op; always returns |
| Loaders, chunker (`ingest/`) | none | parse, split | boundaries, id collisions | chunks cover the text, ids are distinct, cap holds |
| Lexical retriever (`retrieve/lexical.py`) | index, fingerprint, file | `ensure_index`, `retrieve` | concurrent queries, order of documents, stale or torn file, failed write | scores the chunks listed, each by its own terms |
| Retrieval pipeline, fusion (`retrieve/pipeline.py`, `dense.py`, `fusion.py`) | none | expand, dense, lexical, fuse, rerank | searches in any order over a changing store, stage failures, ties, normalisation | no chunk twice, provenance kept, dominance respected |
| Reranker (`retrieve/rerank.py`) | LRU score cache, model, lock | `rerank` | concurrent misses, eviction, stale scores, double load | bounded cache; scores belong to query and text; one thread predicts |
| Answer service, guardrails (`service.py`, `guardrails/`, `generate/`) | none | `answer` | language model away, refusal order, what a model writes | never fails for the language model; grounded means supported; nothing weak is answered |
| Streaming (`api/routes_query.py`) | the shielded task of each stream | `query_stream` | heartbeat races, errors, disconnect | events once and in order; a stream ends in one visible way |
| Jobs and lifecycle (`api/routes_ingest.py`, `deps.py`, `app.py`) | jobs, tasks, connection pool | start, run, shutdown | first callers of the pool, cancellation, close | status is true; jobs reach an outcome; no closed pool is used |
| Rate limiter (`api/app.py`) | buckets | `allow` | lazy refill, eviction | limits hold |
| Embedders (`embed/`) | lazily loaded model | embed, tokenize | unlocked load, response parsing | one vector per text |
| Evaluation (`eval/`, `src/scripts/run_eval.py`) | indexes, counts, result files | run a configuration, report | concurrent questions, failure, kill, boundary arithmetic | rows complete and in order; metrics mean what they say |
| Scripts (`src/scripts/`) | corpus and manifest; `_migrations` | download, migrate | kill, lost requests, two at once | little is lost; nothing is applied twice |
| UI, configuration, logging | none | | none concurrent | |

Interactions: the API starts ingestion jobs and answers queries on one loop.
Ingestion reads files, asks the embedder, and replaces documents in the store.
Retrieval asks the store (dense) and the lexical index, which lists the store's
chunks at each query and keeps an index of its own; the fused list is reranked. So a
chunk exists in the corpus, in the store, in the lexical index, in the index file and
in the score cache, and most of what can go wrong is two of them disagreeing.

## Modules

| Module | Models | Runs | Proofs |
| --- | --- | --- | --- |
| `Lists`, `StoreData`, `VectorStore` | `store/base.py`: the data and the promise of a store | through `MemoryStore` | |
| `MemoryStore` | `store/memory.py` | `standalone` | `ListLemmas`, `MemoryStoreProofs` |
| `DocumentTable` | `store/base.py`: what overlapping callers may rely on | through `PgStore` | |
| `PgStore` | the writes of `store/pgvector.py`, statement by statement | `pg_store`, `pg_collections` | `PgStoreProofs` |
| `Ingest` | `ingest/pipeline.py` over an atomic store | `ingest`, `ingest_blank` | `IngestProofs` |
| `LexicalIndex` | `retrieve/lexical.py` over a changing store | `lexical_index`, `lexical_stale` | `LexicalIndexProofs` |
| `Allowance`, `TokenLimiter` | what the rate limiter promises | through `RateLimiter` | |
| `RateLimiter` | `TokenBucket` and `RateLimiter` of `api/app.py` | `standalone`, `limiter_forgets` | `ApplicationProofs` |
| `Fusion` | `retrieve/fusion.py`, as operators | through `QueryPath` | `ListLemmas`, `QueryProofs` |
| `Reranker` | `retrieve/rerank.py`: a specification of its own | through `QueryPath` | `ListLemmas`, `QueryProofs` |
| `Answering` | `guardrails/`, `generate/extractive.py`, as operators | through `QueryPath` | `QueryProofs` |
| `QueryPath` | a query from request to response; composes the three above | `query`, `extractive_citation` | `QueryProofs` |
| `EventStream` | what a client of a stream is promised | through `Serving` | `ApplicationProofs` |
| `AnswerStream` | `with_heartbeat` and `_stream_answer` of `api/routes_query.py` | through `Serving` | `ApplicationProofs` |
| `Services` | `api/deps.py`, jobs of `api/routes_ingest.py`, the pool of `store/pgvector.py` | through `Serving` | `ApplicationProofs` |
| `Serving` | the running application: composes `AnswerStream` and `Services` | `serving` | `ApplicationProofs` |
| `Chunking` | `ingest/chunker.py` | through `Offline`; `html_sections` | `ListLemmas`, `OfflineProofs` |
| `Loading` | the layout in `ingest/loaders.py` | through `Offline` | `ListLemmas`, `OfflineProofs` |
| `Metrics`, `Evaluation` | `eval/metrics.py`; `eval/runner.py` with `src/scripts/run_eval.py` | through `Offline` | `ListLemmas`, `OfflineProofs` |
| `Download`, `Migrate` | `src/scripts/download_corpus.py`, `src/scripts/migrate.py` | through `Offline` | `ListLemmas`, `OfflineProofs` |
| `Offline` | puts the tools that share no state into one specification | through `Standalone` | `OfflineProofs` |
| `Standalone` | puts `MemoryStore`, `RateLimiter` and `Offline`, which share no state, into one run | `standalone` | |

Every `MC*` module gives the constants of its component small values. Definitions
whose comment starts with "Mutant" are variants of the definition after them, as a
plausible bug would have it; no specification uses them. For each property of a
passing run, `PROJECT.json` names one that TLC finds to violate it.

### Store: `VectorStore` and `MemoryStore`

`VectorStore` keeps a function from document ids to hash, metadata and chunks, and
`reply`, what the last call returned. Each action is a call of the protocol; refused
calls are alternatives of it that change nothing. `MemoryStore` has the attributes of
`MemoryVectorStore`: `info` (`_info`), `chunkIds` (`_chunk_ids`), `chunks`,
`vectors`, `docChunks`, `documents`, and the cache `matrix` with `matrixIds`. The
whole of `_drop_document` is part of both the upsert and the delete, as in the code,
and only a delete of a document with chunks drops the cache there.

Data: a chunk id is the pair (document, start offset) it is the UUID5 of; a vector is
the text it embeds, because the embedder is a function of the text; a score is an
integer per text; `Metas` are the values of the one metadata key a filter tests. A
search returns a set: its ranking is a total order, so the set determines the list.
`matrix` is an input of scoring, so a stale or misaligned row gives a wrong hit in the
model as in the code. Metadata is a document's (chunks inherit it). `collection_info`
and `health` change nothing that is observed and are left out; paging of
`list_documents` too.

`ImplementsPromise` maps the containers to documents (`StoredDocuments`) and includes
every reply. `IndexConsistent` relates the five containers. `MatrixCurrent` says that
the condition under which `_build_matrix` reuses the cache implies that the cache is
right: comparing ids alone would not be enough, since a re-ingest may keep all ids and
change the text; the uploads of the instance do exactly that.

### PostgreSQL: `DocumentTable` and `PgStore`

`collections`, `documents` and `chunks` are the tables of
`src/migrations/001_initial_schema.sql` as committed; `info` is `_info` of each
process. `call` is where each call is between two statements, with what it has
written and not committed. The database (external to the code) is taken at its
default isolation, read committed: a statement sees what is committed when it runs,
and one that would write a row with an uncommitted write waits for it (`Writers`,
and `InsertCollection`, the primary keys). `Fail` rolls one transaction back, at any
statement; `Crash` all those of a process.

- `ensure_collection`: `FindCollection`, or `MissCollection`, `InsertCollection` and
  `CommitCollection`. A mismatching embedder is refused and changes nothing.
- `upsert_document`: `StartUpsert`, `WriteDocument`, `DropChunks` and `CommitUpsert`,
  the last with the inserts of the chunks, which touch nothing that another call can
  while the document's row is locked. An update keeps the row's collection, because
  `ON CONFLICT DO UPDATE` does not set it.
- `delete_document`: `CountForDelete`, `DeleteDocument` (`Owned` is its WHERE clause,
  `Cascade` the foreign key's action) and `CommitDelete`.

Properties: `InfoAgrees`, `DeleteTakesChunks` and `ImplementsTable`. The last maps
one collection (`Viewed`, any of them) to `DocumentTable`, in which a document is
replaced or removed in one step and always by vectors of the collection's embedding
space. `VectorStore` is not the abstraction here, because it has no overlapping calls
and its replies are those of the state they are made in. Reads and the count's staleness
are not modelled (a search is one statement); the pool is in `Services`.

### Ingestion: `Ingest`

`Start`, `Spawn`, `Finish` and `Abort` are the stretches of `ingest_paths` between
awaits; `Acquire`, `Load`, `Upsert`, `Fail` and `Crash` those of `_process`. Several
calls (`Runs`) overlap, as background jobs and requests may. `known` is the snapshot
`known_hashes`. A task that embeds has read its version earlier (`loaded`), and stores
that one whatever happened since. `Edit`, `Delete` and `Restart` are the environment:
files change, `DELETE /documents/{id}` runs, the process is replaced (pgvector keeps
the documents, the in-memory store does not). A slot whose call raised is not reused
before its orphaned tasks are over.

The store is one version per document, because `upsert_document` is atomic to the
rest (`VectorStore`). The summary's counts are the outcomes of `task`. `disturbed` and
`rerun` are history variables: whether anything else touched corpus or store during a
call, and whether the call began when a whole, undisturbed call that reported every
document as changed or unchanged had just ended.

A file of whitespace has no chunks, and `_process` then returns `changed=True` before it
calls the store (`ingest/pipeline.py:101-103`): the outcome in the model is "changed", as in
the code, and the document keeps the chunks and the hash it had. So its hash is never that
of the file, and every call reports it as changed again. `RerunReportsNoChange`, the line
of `src/docs/BUILD_SPEC.md:351`, is violated by that (`ingest_blank`).

- `UndisturbedRunSyncs`: what an undisturbed call reports as changed or unchanged is
  stored as it is on disk, or is blank on disk and stored as the call found it. Other
  calls, deletes and edits before it may have left any mixture behind.
- `NoOpRerun`: a call after an undisturbed one embeds nothing, and reports no change but of
  blank files. It holds when no two files claim one document id, as in the instance; two
  files with one id replace each other at every run, since nothing checks for it
  (`ingest/loaders.py:164-171`).
- `CallReturns` and `Converges`: under fairness a call ends, with a summary or an
  exception; and if calls go on being made, the store ends up in step with the corpus
  and stays so, whatever late upserts and stale snapshots came in between.

Fairness (`Fairness`): weak fairness of every step of a call and of each task. The
loop runs every ready task, and loading, chunking, embedding and the store return or
raise. Nothing is assumed of the environment or that calls are made at all; `Converges`
has the repeated calls as its premise.

### Lexical index: `LexicalIndex`

`List` is `await all_chunks()`; `Answer` is all that follows, without an await:
`ensure_index` from the fingerprint on and the scoring in `retrieve`. `WriteFails` is
the same up to `_persist`, which raises. Meanwhile `Ingest` and `Remove` change the
store (a re-ingested chunk moves to the end, which is what makes the order differ from
that of the file), and `Restart` forgets the index and perhaps tears the file. Terms
are represented by the text they are tokenized from, the fingerprint by the set of ids
it digests, a query by the pairs of chunk and terms it was scored against.
`writeFailed` is a history variable, and both properties of the passing run hold until
it is set: when `_persist` raises, the new chunks are beside the old scorer and
fingerprint, and a later query that finds the old ids again is scored by foreign terms
(`retrieve/lexical.py:84-86, 127-150`). BM25's numbers, filters and the choice of the
best `top_k` are left out: the properties are about what is scored by what.

### Rate limiter: `TokenLimiter` and `RateLimiter`

`Allow` is `RateLimiter.allow` with `TokenBucket.take`, `Tick` the monotonic clock.
Tokens are counted in units that make the refill of a tick a whole number.
`TokenLimiter` has no buckets: every caller's allowance is refilled at every tick, and
nobody is forgotten. `ImplementsLimiter` says that creating buckets on the first request,
refilling them when looked at and dropping the full ones cannot be told apart from that:
each step is one of `TokenLimiter`, except a request that drops a bucket below a full
allowance (`Forgets`), and the limiter comes to that only when `MaxBuckets` callers are
below one (`Crowded`).

What such a request does is outside the promise, and the subject of `LimitedStayLimited`,
the comment of `api/app.py:122-123`: a caller without a request left stays known. `_evict`
clears all buckets when none is full, so it is violated (`limiter_forgets`).

### A query: `Fusion`, `Reranker`, `Answering`, `QueryPath`

`Fusion` has both methods as operators over lists of candidates. A candidate is a record
of id, text, score and `stages` (`StageScores`). Scores are integers in units of one
`Scale`-th, so a comparison of fused scores is exact. `IdRank` is the order of the ids as
strings, which breaks ties.

`Reranker` is a specification: `cache` is `ScoreCache._entries`, oldest use first, `job`
the calls in progress, `lock` and `loaded` the lock and the model. A call goes through
`Begin` (the loop, up to `to_thread`), `FindModel`, `Load`, then for each batch `Acquire`
and `Predict` (the worker thread), and `Settle` and `Return` (the loop again). `Raise` is a
model that cannot be loaded or a batch that fails. A hit or a put moves its entry to the
end; a put evicts. The check and the load are two steps, as nothing locks them: two
threads may both load a model, and only the batches are exclusive.

`Answering` has `Refused` (`guardrails/refusal.py`), `Extract`
(`generate/extractive.py`) and `Verify` with `Citations` (`guardrails/grounding.py`). A
sentence is what it says and the markers in it. `Likeness` stands for every cosine, of a
query or sentence with a text or sentence.

`QueryPath` composes them. `settings` and `clients` are those of one deployment, `store`
the text stored under each id, `request` what each request in flight knows, with the
stage it is at. `Receive` is the route with `resolve_config`; `MultiQuery`, `HyDE` and
`ExpansionUnavailable` the outcomes of the expansion; `Answered` one of the gathered
searches, which read the store whenever they return; `FuseAndRerank`, `FuseOnly`,
`TakeReranked`, `RerankingRaised` the rest of `retrieve`; `Decide`, `Generate`,
`GenerationUnavailable`, `ExtractAnswer` those of `service.answer`; `BackendFails` an
embedder or store that raises. `Edit` changes the store meanwhile. A lexical search
here reads the present store; that it may read an old text is `LexicalIndex`'s subject.

- `Provenance`: the evidence a result carries for a chunk is what the searches found,
  and its places are the ones it had; as many chunks as asked for, each once, also when
  `top_k` exceeds the configured shortlist.
- `Dominance`: the reference for both fusion methods: a chunk ranked above another by
  every list that has the other is fused above it, unless both have the same fused score
  (a retriever whose weight is zero ranks nothing).
- `CacheSound`, `PredictsAlone`, `CacheInvisible`: the cache stays bounded and true, the
  model is used by one thread, and with unchanged texts the cache, the batches and the
  other requests cannot be noticed. The condition is needed: scores are cached by chunk
  id, so a re-ingested chunk keeps the score of its old text (`retrieve/rerank.py:141`).
- `NeverAnswersWeak`: with reranking, an answer has a chunk that the cross-encoder finds
  relevant to this query; a chunk that was edited may be answered on its old score.
- `GroundedIsSupported`: whatever the model writes, a grounded answer says nothing
  without a source and cites none that is not there.
- `Responds`: every request ends, and none fails because the language model is away.
- `ImplementsReranker`: the pipeline uses the reranker as `RerankSpec` allows.
- `ExtractCitesOwn` fails (`extractive_citation`): see the findings.

Fairness: a request whose next step is `Ready` is served: the loop runs ready tasks, the
worker threads run, and the language model, embedder, store and cross-encoder answer or
raise. A thread that waits for the lock is not ready; its holder is. The formula spells
out weak fairness because TLC is slow to evaluate the `ENABLED` of so large an action;
nothing is assumed of `Receive`, `Edit` or `BackendFails`.

### Streams and the life of the service: `EventStream`, `AnswerStream`, `Services`, `Serving`

`EventStream` is the promise: events in order, the done event last, or a stream that is
visibly broken with nothing of the answer sent, or a client that left. `AnswerStream` has
the two generators: `pending` is the shielded task around `__anext__` with how it ended,
`made` what `_stream_answer` has yielded, `Heartbeat` a timeout of `wait_for` at any time,
also in the turn the event arrives. An error of the source is an ordinary one or a
`TimeoutError`, which the loop takes for its own: heartbeats then go on without end, the
stated exception of `StreamEnds` (`api/routes_query.py:104-110`). A client that leaves
cancels the generator and not the shielded task.

`Services` is the service graph from startup to shutdown. `pool` is `_pool`, named after the
caller that opened it; `open` the pools with connections, of which `ready` are usable;
`call` where each caller of the store is. `job`, `tasks` and `cancelled` are the job
statuses, `Services.tasks` and the tasks that `aclose` cancelled. `Serving` composes the
two: the searches of the streamed answer call the store, the answer comes after all of them;
an error comes after the first whose store fails (`AnswerFails`), or when the embedder
raises before a search comes to the store, or the reranker after it (`BackendFails`); the
server waits for responses before the shutdown, though not for the task of a client that
left.

- `PoolUsable`: nobody is handed a pool that is not open, and when startup opened one no
  other is opened. When the store was down at startup, concurrent first callers open one
  each and `close` knows the last (`store/pgvector.py:110-130, 403-406`).
- `StatusTrue`: what a job says is so, up to those a shutdown cancelled, which keep
  reading queued or running (`CancelledError` is not an `Exception`).
- `ImplementsEventStream`, `StreamEnds`, `JobsSettle`: the promise to the client, that a
  stream ends, and that a job has an outcome unless the application stops first.

Fairness: weak fairness of the source, of taking what it yields, of startup, of every
caller of the store and of each job. The loop runs what is ready, and the database
answers or raises (the pool has a timeout). Nothing is assumed of clients, new jobs,
heartbeats or the shutdown.

### Tools: `Chunking`, `Loading`, `Metrics`, `Evaluation`, `Download`, `Migrate`

They share nothing with each other, so `Offline` runs one of them in each behaviour;
`Standalone` does the same with the in-memory store and the rate limiter.

`Chunking` chunks a text, a list of pieces of a few `Kinds`: words, words that end a
sentence or paragraph, headings of two levels, and a rule whose tokens consume no
characters, for which a tokenizer counts more than it can cut at
(`embed/local.py:78-102`). `FixedToken`, `RecursiveStructural` and `Semantic` are the
strategies; `HardSplit` and `Finalise` are shared, and the loops of the recursive strategy
are recursive functions over the list they go through. A loader also records labelled
spans, over each page or from each heading to the next: a kind with a `Label` opens one, and
`Finalise` gives a chunk without a section path the label of the span it starts in
(`Labelled`, `ingest/chunker.py:172-175`). In markdown the kinds that open spans are the
heading lines; in HTML and docx they are blocks without any mark, whose `HeadingLevel` is
0. `ChunksSound` says what ids, coverage, cap and section paths owe to all strategies, for
every text of the bound: a recursive chunk keeps to one section of markdown headings and
carries its path, or the label at its start if that is empty.

That the path is true of all the chunk's text (`ingest/chunker.py:14-16, 231-235`) is
`SectionsHonest`. It is proved where only heading lines open spans
(`MarkdownSectionsHonest`), and violated otherwise (`html_sections`): the recursive chunker
sees no heading in an HTML or docx text, merges blocks across them, and the chunk carries
the first heading or none. Pages of a PDF are merged and labelled in the same way.

Two limits of the code are in `ChunksSound`: tokens without characters may take a chunk
over the cap, though `ingest/chunker.py:126-131` says that none exceeds it; and the section
path is the stack that `_blocks` keeps by depth and not by level, so of two `##` headings
without a `#` before them the second is put under the first (`ingest/chunker.py:270`).

`Loading` lays out blocks or pages with their spans; `SpansExact` compares the running
offsets with the joined text.

`Metrics` has the metrics as fractions, with the discounts of nDCG as scaled integers.
`MetricsSound` says what a number means: recall is perfect exactly when all that is
relevant was retrieved, nDCG exactly when nothing irrelevant comes before. It is of
questions whose spans occur only in the documents they name, because matches elsewhere
count as hits and not in the total (`eval/metrics.py:65-113`). For there to be a chunk to
find (`Findable`), the span has at least `2 * MinOverlap - 1` characters, as a shorter one
may be cut so that no half matches (`eval/metrics.py:25-31`), and the chunks of its document
leave out no character of it and are no shorter than `MinOverlap` (`WellCut`).

`Evaluation` is `run_eval.py` over `runner.py`: configurations in order, an index per
strategy, tasks under a semaphore that end in any order or fail, rows sorted into golden
order, a directory per run, a report rewritten after each, and a kill at any step. Counts
of relevant chunks are cached by question id, so the ids have to be unique for the rows
to be right (`UniqueIds` in `RunComplete`).

`Download` keeps `files` and `manifest` on disk, where a write is two steps and a kill in
between leaves `Half`. A request is retried, answered or given up at any point.
`DownloadLosesOne` is the script's "an interrupted run loses at most one paper", unless
the kill tears the manifest, which the next run then takes for none
(`src/scripts/download_corpus.py:303-313`). `Migrate` has two migrators with a
transaction per file; the database makes an insert of a key wait for the transaction
that inserted it. `MigratedOnce` says that nothing is committed twice or recorded
without being applied.

## Runs and bounds

| Run | Instance | States | Shows |
| --- | --- | --- | --- |
| `standalone` | store: 2 documents, 2 offsets, 2 texts, 5 uploads, 2 embedders, 3 query vectors, `top_k` 0 to 2, a filter; limiter: 4 callers, 2 buckets, 2 requests a minute of 3 ticks, clock up to 7; all texts of up to 4 pieces of 7 markdown kinds or 3 HTML kinds with 2 sizes; all files of up to 3 blocks; 6 evaluation workloads, one without questions; 3 downloads, 2 retries; 2 migrators, 4 starts, 2 files | 155311 | `TypeOK`, `IndexConsistent`, `MatrixCurrent`, `ImplementsPromise` of the store; `LimiterTypeOK`, `ImplementsLimiter`; `ChunksSound`, `SpansExact`, `MetricsSound`, `RunComplete`, `DownloadLosesOne`, `MigratedOnce` |
| `pg_store` | 3 processes with a call each, 2 collections, 2 documents, 4 uploads of 2 widths, 2 embedders | 131929 | types, `InfoAgrees`, `ImplementsTable`, `DeleteTakesChunks` |
| `ingest` | 2 files of 2 documents, 3 contents (one blank) and unreadable, 2 overlapping calls, 1 permit each, 1 event | 114873 | types and semaphore, `UndisturbedRunSyncs`, `NoOpRerun`, `CallReturns`, `Converges` |
| `lexical_index` | 2 chunk ids, one of them edited in place, 2 queries in flight | 1242248 | types, `ScoresWhatWasListed`, `NoForeignTerms` |
| `query` | 3 deployments (hybrid with reranking and a language model; weighted without either; two concurrent requests), 3 chunks, cache of 2, batches of 1, 5 completions | 36540 | the ten properties of `QueryPath` and its parts |
| `serving` | one stream of 1 or 3 events, 2 searches, 1 job, store up or down | 298000 | types, `PoolUsable`, `StatusTrue`, `ImplementsEventStream`, `StreamEnds`, `JobsSettle` |

The bounds are those of the smallest instances in which the interesting cases happen. Two
documents let a delete or re-ingest of one disturb the rows of the other, and two offsets
let a document grow and shrink; no bound limits the number of calls. Two calls and two files
are needed for a stale snapshot and for a sibling that goes on after a crash; one permit
makes the tasks of a call queue, and those of two calls overlap. `MaxEvents` bounds edits,
deletes, faults and restarts together: one of them, at any moment of two calls, is enough
for a stale snapshot, a late upsert, an orphan or a lost store, and the invariants are
proved for any number. In `pg_store` two processes share a collection and may create it with
different embedders, and one upload shrinks the document another grows; nothing bounds the
calls, failures or crashes. Two chunk ids are needed for a different order and for foreign
terms, and two queries for one that replaces the other's index. Two buckets are both needed
for an eviction that frees one and one that frees none, and four callers to refill, evict
and return; seven ticks are more than two full refills (`MaxTime` bounds the clock). In
`query`, a shortlist of three exceeds the cache, so a request evicts what it has just put;
two requests share it, and the third chunk is outside the configured shortlist. A request is
served once, and nothing bounds edits. In `serving` three callers are enough for two first
ones beside a startup that failed. In `standalone`, four pieces have two headings with text
under each, three tokens more than a size, and a merge after a split; three runs of a
download are two interruptions; `MaxRuns`, `MaxRetries` and `MaxStarts` bound restarts and
retries. Deadlock is checked except in `serving`, `standalone` and `html_sections`, where
the application stops and a tool ends.

## Findings

Each is a run with `expect: violation`, whose trace TLC prints.

- `pg_collections`: where two collections of a database have a document of the same id,
  the row keeps the first collection and the chunks are those of the second, whose
  delete returns a count and removes nothing (`store/base.py:144`,
  `store/pgvector.py:228-231, 377-380`).
- `lexical_stale`: a chunk re-ingested with another text under the same id is scored and
  returned with the old one (`retrieve/lexical.py:53`).
- `extractive_citation`: an extractive answer quotes a sentence and appends the marker of
  its source; a bracketed number in the sentence is then read as a marker too, so the
  answer cites a chunk without the sentence, or none, where
  `generate/extractive.py:7-11` calls the citation "exact by construction".
- `ingest_blank`: a blank file is reported as changed by every run over an unchanged corpus
  (`ingest/pipeline.py:101-103`), where `src/docs/BUILD_SPEC.md:351` has "Re-running
  ingestion on an unchanged corpus reports 0 changed".
- `limiter_forgets`: with `max_buckets` callers below a full allowance, one more makes the
  limiter forget them all, those who are being limited too (`api/app.py:135-136`), whom the
  comment of `api/app.py:122-123` says it keeps.
- `html_sections`: a chunk of an HTML or docx text is merged across headings and carries a
  section path that is not true of all its text (`ingest/chunker.py:172-175, 321-327`),
  against `ingest/chunker.py:14-16, 231-235`.

Other places where the code does less than a comment beside it says are conditions of
passing properties, and named with them above: files of one document id (`Ingest`), a failed
write of the index (`LexicalIndex`), scores of old texts (`Reranker`), a source's
`TimeoutError` (`AnswerStream`), several pools and cancelled jobs (`Services`), the token
cap and heading levels (`Chunking`), short spans, duplicate ids and matches elsewhere
(`Metrics`, `Evaluation`), a torn manifest (`Download`).

## Proofs

All theorems hold for every value of the constants that satisfies the named
assumptions of the modules; `tlapm` checks every leaf.

- `MemoryStoreProofs`: `InvHolds` proves `TypeOK`, `IndexConsistent` and `MatrixCurrent`
  together, because they are inductive only together: the rebuilt matrix is well typed
  because the rows list existing chunks, and a delete that keeps the cache is sound because
  a document without listed ids owns no chunk. From them `MemoryStoreImplementsPromise`
  proves that every step maps to a step of `VectorStore` or a stutter, with the same reply.
  `ListLemmas` has what is needed of lists here and below: a list without some members
  (`Filtered`, a recursive function) keeps exactly the others and repeats none, and lists
  without repetition count their members. It assumes that ids tie-break differently
  (`RankAssumption`) and that a document's chunks start at distinct offsets
  (`UploadsAssumption`, which the chunkers' `_finalise` ensures).
- `PgStoreProofs`: the inductive invariant adds to the types and `InfoAgrees` that a
  collection has one creator at a time and no row while it has one (`OneCreator`), that
  an upload in flight fits its collection (`UpsertsFit`), that a document's row has one
  writer (`RowLocked`), and that what a writer will remove is all that is stored of the
  document when it commits (`GoneCurrent`). `DeletesAreWhole` and
  `PgStoreImplementsTable` need the hypothesis that no document comes for two
  collections (`CorporaApart`); `pg_collections` shows that it is necessary.
- `IngestProofs`: the inductive invariant `IInv` adds to `TypeOK` that an undisturbed call
  is alone (`Alone`), that the store is its snapshot except where a file's present content
  was written (`Written`), that what tasks hold and have reported agrees with the files
  (`UpToDate`), and that a rerun knows every hash (`AllKnown`). It needs no bound on the
  environment. `RunsSync` and `RerunIsNoOp` follow, the latter under the hypothesis
  `OneFileEach`: two files of one document replace each other at every run.
- `LexicalIndexProofs`: `IInv` says that every list of chunks anywhere pairs an id with
  a text of its own (`Owned`, `IndexPaired`, `FilePaired`) and that the fingerprint of
  an index is that of its chunks (`PrintCurrent`). `ScoresListed` and `TermsAreOwn`
  follow, and `SameChunksUnlessEdited`: where the text of an id never changes, and no
  write fails, a query is scored against exactly the chunks the store listed. So
  `lexical_stale` and a failed write are the only ways in which that fails.
- `QueryProofs` has two invariants. `RInv` is about the reranker alone and follows a score
  from where it is found to where it is cached. A cache is a bounded list of honest entries
  (`Honest`: some text of the key's chunk scores so with the key's query) with one entry for
  a key; every call in flight carries honest scores, and predictions that are the model's
  for the places that missed (`Request`); who predicts holds the lock (`Locked`).
  `GetType` and `PutType` are the operations of the cache, carried through the loops of
  lookups and puts for any shortlist. `CacheIsSound`, `PredictionsAlone` and
  `CacheIsInvisible` are theorems about `RerankSpec`, and `ReranksAsSpecified` shows that
  the pipeline refines it, so they hold of the pipeline.

  `QInv` follows the data of one request from stage to stage: its body and configuration
  are possible ones (`Asked`), its lists are rankings of the searches it sent (`Searched`),
  the fused list is what fusion promises of them (`Fused`), its call of the reranker has
  the fused list's shortlist (`Calling`), the chunks are traced to the fused list
  (`Traced`) and scored by texts they have had (`Scored`), and an answer was composed from
  them and not refused (`Composed`). `ProvenanceKept` needs all of this: the reranker
  returns what it was called with, so the evidence survives an await of any length beside
  edits of the store. `FusionSound` proves `Fused` for any worth that does not rise with
  the rank, and both methods have one (`Worths`): reciprocals of ranks, and normalised
  scores, because a list is in descending order. It rests on sums being monotone
  (`TotalMonotone`) and on `Listing`: a finite set listed by a strict total order has each
  member once, and in that order. `GroundedAnswers` holds for any completion of the
  language model, and `WeakIsRefused` for any cache.
- `ApplicationProofs`, of the rate limiter: `LimiterTypeCorrect`, and
  `LimiterImplementsPromise`. A tick commutes with the capped refill; an evicted full bucket
  and no bucket map to one level; and a request that drops a bucket below a full allowance
  is made when `MaxBuckets` callers are below one, which needs that no eviction frees less
  than all the full buckets. Of the stream, the pool and the jobs: the stream needs
  `EventsInOrder` alone (every event but the one that the task holds is delivered), which
  also gives `StreamImplements`, the refinement of `EventStream`. `PoolIsUsable` needs to
  know who may still open a pool: such a caller has none that is open or handed out
  (`FreshCallers`), and while the application starts there is one caller (`StartupAlone`),
  so that the startup's pool is never replaced. `StatusIsTrue` needs that a task is of a job
  without an outcome (`TasksUnfinished`). They assume that no job is a search, and neither
  is the startup (`CallersAssumption`).
- `OfflineProofs`: `MigrationsOnce` needs that an open transaction has the statements of the
  file at hand, then its row (`AtHand`), that one open transaction has a row (`OneHolder`,
  which the primary key of the tracking table ensures), and that what a migrator saw is
  recorded or ahead of it (`PlanComplete`). `KillsLoseOne` needs to know, at every stage of
  the script, how disk and memory differ (`Disk`): the manifest in memory is the one on disk
  except for the paper at hand while that is recorded, and every paper once written whole is
  intact in it or was lost before the run. `RunsComplete` needs, beside the bookkeeping of
  tasks, that a count in a cache is right for every question that has the id when ids are
  unique (`CountsOK`), so that a row's total is right whether it came from the cache or from
  a scan of the index (`RowsOK`); that the tasks collected were all done, so that those
  completed are a permutation of the questions (`AllDone`); and how far the report is behind
  what is saved, by phase (`ReportOK`). The sort puts each row in place because the rows of
  unique ids go up through as many places as there are questions (`InPlace`).
  `MetricsAreSound` rests on what sums of discounts can be: of all sets of positions with as
  many members the first ones gain most, and only they do (`BestGain`, by induction on the
  positions, from discounts that go down); and on the cut over the middle of a long span,
  which has half of it whichever way the text is cut (`SpanFound`). `SpansAreExact` follows
  the running offset and the joined text block by block: the offset is always at the end of
  the text and of one separator, what a block adds stays where it is put (`BodyByBlock`),
  and so each block stands in the whole text where its offset says (`Layout`).

  `ChunksAreSound` is proved in two halves. Whatever the candidates, `Finalised` shows that
  what `Finalise` labels (`Picked`) covers the pieces with characters that the candidates
  cover, keeps the cap and each candidate's section; it rests on windows that leave out no
  span (`WindowsOver`, `OneWindow`) and on the spans being in order. The candidates of the
  recursive and the semantic strategy are `Tiles`: each begins behind the one before, and
  together they are the text. Blocks and sentences are tiles (`BetweenTiles`), splitting a
  tile into sentence groups and joining neighbours keep them tiles (`SplitLargeRight`,
  `FlatTiles`, `ExtendedTiles`), so chunks do not overlap. That a candidate's section is
  that of all its pieces (`TrueOf`) holds of blocks, because the stack only changes where a
  block begins, and stays true because merging compares the sections.
  `MarkdownSectionsHonest` adds that a piece without a section has no heading before it
  (`PathStarts`), so that no label is there to be given to it when only headings open spans.
  The windows of the fixed strategy overlap and only go up, so of them no more than the
  order of the starts is said.

Assumptions on constants say what the code's types and validators ensure, or what is true of
any string or number. `SettingsAssumption` has the fields of `RetrievalConfig` with their
bounds, `_at_least_one_retriever` (`models.py:286-318`) and `_check_rerank_budget`
(`config.py:215-223`);
`BackendAssumption` that what is said or stored can be compared, and that an edit stores
one of the texts a chunk may have; `FusionAssumption` that different ids differ as strings
and that `None` is no number; `AnsweringAssumption` that thresholds are numbers and texts
have sentences; `DownloadAssumption` and `MigrateAssumption` the types of what a server
sends and of the list of files; `MetricsAssumption` that discounts are positive and go down
(1 / log2 does); `LoadingAssumption` that a file is a list of blocks of characters;
`ChunkingAssumption` that a token that can be cut at is counted once, and that the overlap is
smaller than the size (`chunker.py:209-214`, `config.py:204-208`);
`EvaluationAssumption` that a run searches finite indexes of lists, that an
answer repeats no chunk and has at most `K`, and that a torn report is no number of runs.

Only model-checked: the liveness properties `CallReturns`, `Converges`, `Responds`,
`StreamEnds` and `JobsSettle`, since liveness under fairness is beyond the prover; and the
findings, which are counterexamples. Every invariant that a passing run checks is a theorem.

## Not modelled, and the plan

Left to prove: that the chunks of a document, as the store's theorems assume of their
uploads, follow from those of `Chunking` for one identifier scheme (`DistinctStarts`).

Not modelled: parsing of formats, prompt wording, BM25 and embedding numbers, logging and
metrics text, error bodies, the rendering of reports, request spacing of the downloads, the
clients of the model server and of the OpenAI API beyond their outcomes, the front end and
the script that drafts golden questions. They keep no state of the system, or compute
floating-point numbers and text no property here is about. `set_seeds` and the event-loop
policy (`config.py`) have no counterpart either. Paging and listings of the stores and
`GET` routes change nothing.
