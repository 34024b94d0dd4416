------------------------------ MODULE Reranker ------------------------------
(***************************************************************************)
(* retrieve/rerank.py: a shortlist is scored by the cross-encoder, whose   *)
(* scores are kept in a bounded LRU cache by query and chunk id.  Requests *)
(* share the cache on the event loop; predictions run in worker threads,   *)
(* one batch at a time under the lock, and the model is loaded by the      *)
(* first of them.                                                          *)
(*                                                                         *)
(* The digest of a query is the query.  A stretch between two awaits is    *)
(* one action; what only reads and writes the request's own data may be an *)
(* action of its own.                                                      *)
(***************************************************************************)
EXTENDS Fusion

CONSTANTS
    Requests,   \* slots for requests in flight
    Queries,
    TextsOf,    \* id -> the texts a chunk with this id may have
    Relevance,  \* query, text -> the model's score
    CacheSize,
    BatchSize,
    Free        \* the lock is not held

Texts == UNION {TextsOf[id] : id \in Ids}

ASSUME RerankerAssumption ==
    /\ TextsOf \in [Ids -> SUBSET Texts]
    /\ Relevance \in [Queries -> [Texts -> Int]]
    /\ CacheSize \in Nat \ {0} /\ BatchSize \in Nat \ {0}
    /\ Free \notin Requests

VARIABLES
    cache,      \* ScoreCache._entries: keys with their scores, the oldest use first
    loaded,     \* the model is loaded
    lock,       \* who holds _lock
    job         \* request -> its call of rerank

rerankVars == <<cache, loaded, lock, job>>

NoJob == [at |-> "none", query |-> None, top |-> 0, shortlist |-> <<>>,
          scores |-> <<>>, pending |-> <<>>, predicted |-> <<>>]

RerankInit ==
    /\ cache = <<>>
    /\ loaded = FALSE
    /\ lock = Free
    /\ job = [r \in Requests |-> NoJob]

----------------------------------------------------------------------------
\* The cache.

Entry(key, score) == [key |-> key, score |-> score]
Keys(c) == {c[i].key : i \in DOMAIN c}
ScoreIn(c, key) == c[CHOOSE i \in DOMAIN c : c[i].key = key].score
Without(c, key) == Filtered(c, {e \in Range(c) : e.key = key})

\* Mutant: one entry more than the limit stays.
EvictLate(c) == IF Len(c) > CacheSize + 1 THEN SubSeq(c, Len(c) - CacheSize, Len(c)) ELSE c

\* The oldest entries leave while there are too many.
Evict(c) == IF Len(c) > CacheSize THEN SubSeq(c, Len(c) - CacheSize + 1, Len(c)) ELSE c

Put(c, key, score) == Evict(Append(Without(c, key), Entry(key, score)))

\* A hit makes its entry the newest.
Get(c, key) ==
    IF key \in Keys(c) THEN Append(Without(c, key), Entry(key, ScoreIn(c, key))) ELSE c

\* The cache after looking up the first n keys, and after putting the first n scores.
AfterGets(c, keys) ==
    LET got[n \in 0..Len(keys)] == IF n = 0 THEN c ELSE Get(got[n - 1], keys[n])
    IN  got[Len(keys)]

AfterPuts(c, keys, scores) ==
    LET put[n \in 0..Len(keys)] == IF n = 0 THEN c ELSE Put(put[n - 1], keys[n], scores[n])
    IN  put[Len(keys)]

----------------------------------------------------------------------------
\* One call of rerank.

KeyOf(query, candidate) == <<query, candidate.id>>
KeysOf(query, list) == [i \in DOMAIN list |-> KeyOf(query, list[i])]

\* The lookups neither add nor drop an entry, so each finds what was there.
CachedScores(c, query, shortlist) ==
    [i \in DOMAIN shortlist |->
        IF KeyOf(query, shortlist[i]) \in Keys(c) THEN ScoreIn(c, KeyOf(query, shortlist[i])) ELSE None]

Misses(scores) ==
    Filtered([i \in DOMAIN scores |-> i], {i \in DOMAIN scores : scores[i] # None})

\* The event loop up to the await: an empty shortlist is not reranked.
Begin(r, query, shortlist, top) ==
    LET scores == CachedScores(cache, query, shortlist)
    IN  /\ job[r].at = "none"
        /\ shortlist # <<>> /\ top > 0
        /\ cache' = AfterGets(cache, KeysOf(query, shortlist))
        /\ job' = [job EXCEPT ![r] =
                     [at |-> IF Misses(scores) = <<>> THEN "scored" ELSE "called",
                      query |-> query, top |-> top, shortlist |-> shortlist,
                      scores |-> scores, pending |-> Misses(scores), predicted |-> <<>>]]
        /\ UNCHANGED <<loaded, lock>>

\* _load in the worker thread: the check and the load are not one step.
FindModel(r) == /\ job[r].at = "called"
                /\ job' = [job EXCEPT ![r].at = IF loaded THEN "waiting" ELSE "loading"]
                /\ UNCHANGED <<cache, loaded, lock>>

Load(r) == /\ job[r].at = "loading"
           /\ loaded' = TRUE
           /\ job' = [job EXCEPT ![r].at = "waiting"]
           /\ UNCHANGED <<cache, lock>>

\* Mutant: the lock is taken whoever holds it.
LockAny(r) == lock' = r
LockFree(r) == lock = Free /\ lock' = r

Acquire(r) == /\ job[r].at = "waiting"
              /\ LockFree(r)
              /\ job' = [job EXCEPT ![r].at = "predicting"]
              /\ UNCHANGED <<cache, loaded>>

Lesser(m, n) == IF m < n THEN m ELSE n

\* The next batch of pairs, scored by the model, and the lock released.
Predict(r) ==
    LET done == Len(job[r].predicted)
        all == Len(job[r].pending)
        upTo == Lesser(done + BatchSize, all)
        pair(n) == job[r].shortlist[job[r].pending[n]]
    IN  /\ job[r].at = "predicting"
        /\ job' = [job EXCEPT
                     ![r].predicted = @ \o [n \in 1..(upTo - done) |->
                                               Relevance[job[r].query][pair(done + n).text]],
                     ![r].at = IF upTo = all THEN "predicted" ELSE "waiting"]
        /\ lock' = Free
        /\ UNCHANGED <<cache, loaded>>

\* Loading or predicting raises; leaving the with block releases the lock.
Raise(r) ==
    /\ job[r].at \in {"loading", "predicting"}
    /\ job' = [job EXCEPT ![r].at = "raised"]
    /\ lock' = IF lock = r THEN Free ELSE lock
    /\ UNCHANGED <<cache, loaded>>

\* Mutant: the scores fill the shortlist from its start, hits included.
FillFromStart(scores, pending, predicted) ==
    [i \in DOMAIN scores |-> IF i <= Len(predicted) THEN predicted[i] ELSE scores[i]]

\* Each predicted score goes to the place that missed.
Filled(scores, pending, predicted) ==
    [i \in DOMAIN scores |->
        IF i \in Range(pending) THEN predicted[CHOOSE n \in DOMAIN pending : pending[n] = i]
        ELSE scores[i]]

\* Back on the event loop: the misses are scored and put in the cache.
Settle(r) ==
    LET missed == [n \in DOMAIN job[r].pending |-> job[r].shortlist[job[r].pending[n]]]
    IN  /\ job[r].at = "predicted"
        /\ cache' = AfterPuts(cache, KeysOf(job[r].query, missed), job[r].predicted)
        /\ job' = [job EXCEPT ![r].scores = Filled(@, job[r].pending, job[r].predicted),
                              ![r].at = "scored"]
        /\ UNCHANGED <<loaded, lock>>

\* The best of the shortlist, with the rerank score and the final rank.
Reranked(j) ==
    LET score == [id \in IdsIn(j.shortlist) |-> j.scores[RankOf(j.shortlist, id)]]
        order == ByScore(DOMAIN score, score)
    IN  [n \in 1..Lesser(j.top, Len(order)) |->
            LET c == j.shortlist[RankOf(j.shortlist, order[n])]
            IN  Candidate(c.id, c.text, score[order[n]],
                          [c.stages EXCEPT !["rerankScore"] = score[order[n]], !["finalRank"] = n])]

\* The caller takes the result, or the exception.
Return(r) == /\ job[r].at \in {"scored", "raised"}
             /\ job' = [job EXCEPT ![r] = NoJob]
             /\ UNCHANGED <<cache, loaded, lock>>

\* The part that needs no caller: the worker thread and the loop after it.
Work(r) == FindModel(r) \/ Load(r) \/ Acquire(r) \/ Predict(r) \/ Settle(r)

----------------------------------------------------------------------------

\* What callers pass: a list of chunks of the store, each id once.
Shortlist(list) ==
    /\ Len(list) \in Nat /\ DOMAIN list = 1..Len(list)
    /\ \A i \in DOMAIN list : list[i].id \in Ids /\ list[i].text \in TextsOf[list[i].id]
    /\ \A i, j \in DOMAIN list : list[i].id = list[j].id => i = j

Call(r) ==
    LET j == job'[r]
    IN  /\ j.query \in Queries /\ Shortlist(j.shortlist)
        /\ Begin(r, j.query, j.shortlist, j.top)

RerankNext == \E r \in Requests : Call(r) \/ Work(r) \/ Raise(r) \/ Return(r)

RerankSpec == RerankInit /\ [][RerankNext]_rerankVars

----------------------------------------------------------------------------

\* The cache is bounded, has no key twice, and only ever scores a text that the
\* chunk of its key has had with the query of its key, whichever requests evict
\* and put concurrently (rerank.py:68-74, 148-150).
CacheSound ==
    /\ Len(cache) <= CacheSize
    /\ \A i, j \in DOMAIN cache : cache[i].key = cache[j].key => i = j
    /\ \A i \in DOMAIN cache : \E t \in TextsOf[cache[i].key[2]] :
          cache[i].score = Relevance[cache[i].key[1]][t]

\* The model, or its tokenizer, is never used by two threads at once, also when
\* two of them have loaded a model each (rerank.py:116-124).
PredictsAlone ==
    \A r, s \in Requests : job[r].at = "predicting" /\ job[s].at = "predicting" => r = s

\* Where a chunk's text never changed, its score is the model's for this query
\* and this text, wherever it came from: the cache, other requests that put,
\* evicted or loaded meanwhile, and the batches, cannot be told from scoring
\* the shortlist at once (rerank.py:136-155).
CacheInvisible ==
    \A r \in Requests : job[r].at = "scored" =>
        \A i \in DOMAIN job[r].shortlist :
            TextsOf[job[r].shortlist[i].id] = {job[r].shortlist[i].text} =>
                job[r].scores[i] = Relevance[job[r].query][job[r].shortlist[i].text]
=============================================================================
