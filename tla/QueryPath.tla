----------------------------- MODULE QueryPath ------------------------------
(***************************************************************************)
(* A query from the request to the response: api/routes_query.py,          *)
(* retrieve/pipeline.py, retrieve/dense.py and service.py, over the        *)
(* reranker and its cache.  Several requests are in flight; the language   *)
(* model, the embedder and the store may fail any of them; chunks are      *)
(* re-ingested and removed meanwhile.                                      *)
(***************************************************************************)
EXTENDS Reranker, Answering

CONSTANTS
    Workloads,      \* the deployment's settings with what each client may ask of it:
                    \* settings.retrieval and whether a language model is configured,
                    \* request -> bodies with the query, mode and top_k
    Editable,       \* the chunks that are re-ingested or removed meanwhile
    Phrasings,      \* completions of the multi-query prompt: lists of lines
    Passages,       \* completions of the HyDE prompt
    Completions,    \* completions of the answer prompt
    EmptyLine,      \* a blank line or passage
    Absent,         \* no chunk with this id is stored
    Waiting         \* a search has not returned

Modes == {"none", "multi_query", "hyde"}
Share == {w \in Nat \X (Nat \ {0}) : w[1] <= w[2]}
Positive == Nat \ {0}

\* RetrievalConfig, and whether there is a language model.
Configs == [expansion : Modes, dense : BOOLEAN, lexical : BOOLEAN, rerank : BOOLEAN, generates : BOOLEAN,
            topDense : Positive, topLexical : Positive, fusion : {"rrf", "weighted"}, rrfK : Positive,
            denseWeight : Share, candidates : Positive, topK : Positive, paraphrases : Positive]

\* QueryRequest.
Bodies == [query : Queries, mode : Modes \cup {None}, topK : Positive \cup {None}]

\* _check_rerank_budget and _at_least_one_retriever.
ASSUME SettingsAssumption ==
    /\ Workloads \subseteq [settings : Configs, clients : [Requests -> SUBSET Bodies]]
    /\ \A w \in Workloads : /\ w.settings.rerank => w.settings.candidates >= w.settings.topK
                            /\ w.settings.dense \/ w.settings.lexical

\* What is said, searched for or written can be compared with what is stored.
ASSUME BackendAssumption ==
    /\ \A id \in Ids : TextsOf[id] # {}
    /\ \A x \in DOMAIN Likeness, t \in Texts : Likeness[x][t] \in Int
    /\ Queries \cup (Passages \ {EmptyLine}) \subseteq DOMAIN Likeness
    /\ Phrasings \subseteq Seq(DOMAIN Likeness \cup {EmptyLine})
    /\ Completions \subseteq Answers /\ Texts \subseteq DOMAIN SentencesOf
    /\ Editable \subseteq Ids /\ Absent \notin Texts

VARIABLES
    settings,       \* the deployment's
    clients,        \* what each client may ask
    store,          \* id -> the text stored
    request         \* each request

vars == <<settings, clients, store, request, rerankVars>>

NoRequest == [at |-> "idle", config |-> None, query |-> None, searches |-> <<>>, lists |-> <<>>,
              fused |-> <<>>, chunks |-> <<>>, response |-> None, blame |-> "none"]

Init ==
    /\ \E w \in Workloads : settings = w.settings /\ clients = w.clients
    /\ store = [id \in Ids |-> CHOOSE t \in TextsOf[id] : TRUE]
    /\ request = [r \in Requests |-> NoRequest]
    /\ RerankInit

Become(r, changes) ==
    request' = [request EXCEPT ![r] = [f \in DOMAIN NoRequest |->
                                          IF f \in DOMAIN changes THEN changes[f] ELSE request[r][f]]]

----------------------------------------------------------------------------
\* The request.

\* Reranking cannot return more than it scores.
Widened(config, topK) == IF topK > config.candidates THEN topK ELSE config.candidates

ResolveConfig(mode, topK) ==
    [settings EXCEPT !.expansion = IF mode = None THEN @ ELSE mode,
                 !.topK = IF topK = None THEN @ ELSE topK,
                 !.candidates = IF topK = None THEN @ ELSE Widened(settings, topK)]

Search(by, text) == [by |-> by, text |-> text]

\* The searches for these query texts, and for the passage of HyDE if there is one:
\* the lexical ones use the texts alone.
Searches(config, texts, passages) ==
    LET dense == IF config.dense THEN [i \in DOMAIN texts |-> Search("dense", texts[i])]
                                      \o [i \in DOMAIN passages |-> Search("dense", passages[i])]
                 ELSE <<>>
        lexical == IF config.lexical THEN [i \in DOMAIN texts |-> Search("lexical", texts[i])] ELSE <<>>
    IN  dense \o lexical

AllWaiting(searches) == [i \in DOMAIN searches |-> Waiting]

SearchWith(config, texts, passages) ==
    LET searches == Searches(config, texts, passages)
    IN  [at |-> "searching", searches |-> searches, lists |-> AllWaiting(searches)]

\* The route, up to the await of the language model or of the searches.
Receive(r, body) ==
    LET config == ResolveConfig(body.mode, body.topK)
        expands == config.expansion # "none" /\ config.generates
        searches == IF expands THEN <<>> ELSE Searches(config, <<body.query>>, <<>>)
    IN  /\ request[r].at = "idle"
        /\ Become(r, [at |-> IF expands THEN "expanding" ELSE "searching",
                      config |-> config, query |-> body.query,
                      searches |-> searches, lists |-> AllWaiting(searches)])
        /\ UNCHANGED <<settings, clients, store, rerankVars>>

\* Mutant: all of them.
AllParaphrases(lines, query, count) == Filtered(lines, {EmptyLine, query})

\* The lines that are neither blank nor the query, up to the number asked for.
Paraphrases(lines, query, count) ==
    LET kept == Filtered(lines, {EmptyLine, query})
    IN  SubSeq(kept, 1, Lesser(count, Len(kept)))

MultiQuery(r, lines) ==
    LET q == request[r]
    IN  /\ q.at = "expanding" /\ q.config.expansion = "multi_query"
        /\ Become(r, SearchWith(q.config, <<q.query>> \o Paraphrases(lines, q.query, q.config.paraphrases), <<>>))
        /\ UNCHANGED <<settings, clients, store, rerankVars>>

\* A passage is embedded as a document, which is awaited in its turn.
HyDE(r, passage) ==
    LET q == request[r]
    IN  /\ q.at = "expanding" /\ q.config.expansion = "hyde"
        /\ Become(r, SearchWith(q.config, <<q.query>>, IF passage = EmptyLine THEN <<>> ELSE <<passage>>))
        /\ UNCHANGED <<settings, clients, store, rerankVars>>

\* Mutant: an unreachable model fails the request.
FailUnexpanded(q) == [at |-> "failed", blame |-> "llm"]
Unexpanded(q) ==
    LET searches == Searches(q.config, <<q.query>>, <<>>)
    IN  [at |-> "searching", blame |-> "llm", searches |-> searches, lists |-> AllWaiting(searches)]

\* LLMUnavailableError: retrieval goes on with the query as it is.
ExpansionUnavailable(r) ==
    /\ request[r].at = "expanding"
    /\ Become(r, Unexpanded(request[r]))
    /\ UNCHANGED <<settings, clients, store, rerankVars>>

----------------------------------------------------------------------------
\* Retrieval.

\* The k stored chunks that score best; BM25 returns none that scores nothing.
Hits(search, k) ==
    LET score == [id \in {i \in Ids : store[i] # Absent} |-> Likeness[search.text][store[id]]]
        found == IF search.by = "dense" THEN DOMAIN score ELSE {id \in DOMAIN score : score[id] > 0}
        order == ByScore(found, score)
        scored == IF search.by = "dense" THEN "denseScore" ELSE "lexicalScore"
        ranked == IF search.by = "dense" THEN "denseRank" ELSE "lexicalRank"
    IN  [n \in 1..Lesser(k, Len(order)) |->
            Candidate(order[n], store[order[n]], score[order[n]],
                      [NoStages EXCEPT ![scored] = score[order[n]], ![ranked] = n])]

\* One of the concurrent searches returns.
Answered(r, i) ==
    LET q == request[r]
        k == IF q.searches[i].by = "dense" THEN q.config.topDense ELSE q.config.topLexical
    IN  /\ q.at = "searching" /\ q.lists[i] = Waiting
        /\ Become(r, [lists |-> [q.lists EXCEPT ![i] = Hits(q.searches[i], k)]])
        /\ UNCHANGED <<settings, clients, store, rerankVars>>

\* The first top_k fused chunks, when they are not reranked.
Numbered(fused, k) ==
    [n \in 1..Lesser(k, Len(fused)) |->
        LET c == fused[n]
        IN  Candidate(c.id, c.text, c.score, [c.stages EXCEPT !["finalRank"] = n])]

AllAnswered(r) == request[r].at = "searching" /\ \A i \in DOMAIN request[r].lists : request[r].lists[i] # Waiting

\* The lists are fused and the best of the fused ones reranked, or
FuseAndRerank(r) ==
    LET q == request[r]
        fused == Fuse(q.lists, q.config)
    IN  /\ AllAnswered(r)
        /\ q.config.rerank /\ fused # <<>>
        /\ Become(r, [at |-> "reranking", fused |-> fused])
        /\ Begin(r, q.query, SubSeq(fused, 1, Lesser(q.config.candidates, Len(fused))), q.config.topK)
        /\ UNCHANGED <<settings, clients, store>>

\* taken as they are.
FuseOnly(r) ==
    LET q == request[r]
        fused == Fuse(q.lists, q.config)
    IN  /\ AllAnswered(r)
        /\ ~(q.config.rerank /\ fused # <<>>)
        /\ Become(r, [at |-> "retrieved", fused |-> fused, chunks |-> Numbered(fused, q.config.topK)])
        /\ UNCHANGED <<settings, clients, store, rerankVars>>

TakeReranked(r) ==
    /\ request[r].at = "reranking" /\ job[r].at = "scored"
    /\ Become(r, [at |-> "retrieved", chunks |-> Reranked(job[r])])
    /\ Return(r)
    /\ UNCHANGED <<settings, clients, store>>

RerankingRaised(r) ==
    /\ request[r].at = "reranking" /\ job[r].at = "raised"
    /\ Become(r, [at |-> "failed", blame |-> "backend"])
    /\ Return(r)
    /\ UNCHANGED <<settings, clients, store>>

RerankStep(r) == /\ Work(r) \/ Raise(r)
                 /\ UNCHANGED <<settings, clients, store, request>>

----------------------------------------------------------------------------
\* The answer.

IdList(chunks) == [n \in DOMAIN chunks |-> chunks[n].id]
TextList(chunks) == [n \in DOMAIN chunks |-> chunks[n].text]
RerankScores(chunks) ==
    [n \in DOMAIN chunks |-> LET s == chunks[n].stages["rerankScore"] IN IF s = None THEN NoScore ELSE s]

Response(kind, answer, q) ==
    [kind |-> kind, answer |-> answer,
     citations |-> IF kind = "refused" THEN <<>> ELSE Citations(answer, IdList(q.chunks)),
     grounding |-> IF kind = "refused" THEN Report(<<>>, <<>>, {}, TRUE)
                   ELSE Verify(answer, IdList(q.chunks), TextList(q.chunks))]

Decide(r) ==
    LET q == request[r]
    IN  /\ q.at = "retrieved"
        /\ Become(r, IF Refused(RerankScores(q.chunks))
                     THEN [at |-> "answered", response |-> Response("refused", Blank, q)]
                     ELSE [at |-> IF q.config.generates THEN "generating" ELSE "extracting"])
        /\ UNCHANGED <<settings, clients, store, rerankVars>>

\* A completion that is not blank is the answer; its verification embeds it.
Generate(r, completion) ==
    LET q == request[r]
    IN  /\ q.at = "generating"
        /\ Become(r, IF completion = Blank THEN [at |-> "extracting"]
                     ELSE [at |-> "answered", response |-> Response("generated", completion, q)])
        /\ UNCHANGED <<settings, clients, store, rerankVars>>

GenerationUnavailable(r) ==
    /\ request[r].at = "generating"
    /\ Become(r, [at |-> "extracting", blame |-> "llm"])
    /\ UNCHANGED <<settings, clients, store, rerankVars>>

ExtractAnswer(r) ==
    LET q == request[r]
    IN  /\ q.at = "extracting"
        /\ Become(r, [at |-> "answered",
                      response |-> Response("extractive", Extract(q.query, TextList(q.chunks)), q)])
        /\ UNCHANGED <<settings, clients, store, rerankVars>>

\* The embedder or the store raises where the request awaits one of them.
BackendFails(r) ==
    /\ \/ request[r].at \in {"searching", "extracting", "generating"}
       \/ request[r].at = "expanding" /\ request[r].config.expansion = "hyde"
    /\ Become(r, [at |-> "failed", blame |-> "backend"])
    /\ UNCHANGED <<settings, clients, store, rerankVars>>

----------------------------------------------------------------------------

\* The chunk is re-ingested, perhaps with another text, or removed.
Edit(id) ==
    /\ \E t \in TextsOf[id] \cup {Absent} : t # store[id] /\ store' = [store EXCEPT ![id] = t]
    /\ UNCHANGED <<settings, clients, request, rerankVars>>

Serve(r) ==
    \/ \E lines \in Phrasings : MultiQuery(r, lines)
    \/ \E passage \in Passages : HyDE(r, passage)
    \/ ExpansionUnavailable(r)
    \/ \E i \in DOMAIN request[r].searches : Answered(r, i)
    \/ FuseAndRerank(r) \/ FuseOnly(r) \/ TakeReranked(r) \/ RerankingRaised(r)
    \/ Decide(r)
    \/ \E completion \in Completions : Generate(r, completion)
    \/ GenerationUnavailable(r) \/ ExtractAnswer(r)

Next ==
    \/ \E r \in Requests :
          \/ \E body \in clients[r] : Receive(r, body)
          \/ Serve(r)
          \/ RerankStep(r)
          \/ BackendFails(r)
    \/ \E id \in Editable : Edit(id)

\* What the request waits for is there: a worker thread waits for the lock.
Ready(r) == /\ request[r].at \notin {"idle", "answered", "failed"}
            /\ ~(job[r].at = "waiting" /\ lock # Free)

\* The loop and the worker threads run what is ready, and backends answer or raise:
\* WF_vars(Serve(r) \/ RerankStep(r)) with its ENABLED, which TLC is slow to find,
\* spelled out.
Fairness == \A r \in Requests : []<>~Ready(r) \/ []<><<Serve(r) \/ RerankStep(r)>>_vars

Safety == Init /\ [][Next]_vars
Spec == Safety /\ Fairness

----------------------------------------------------------------------------

Stages == {"idle", "expanding", "searching", "reranking", "retrieved", "generating",
           "extracting", "answered", "failed"}

TypeOK ==
    /\ [settings |-> settings, clients |-> clients] \in Workloads
    /\ \A id \in Ids : store[id] \in TextsOf[id] \cup {Absent}
    /\ \A r \in Requests :
          LET q == request[r]
          IN  /\ q.at \in Stages
              /\ Len(q.searches) = Len(q.lists)
              /\ q.at # "idle" => Len(q.searches) <= 2 * (1 + q.config.paraphrases)
              /\ IdsIn(q.fused) \subseteq Ids /\ IdsIn(q.chunks) \subseteq IdsIn(q.fused)
              /\ (q.at = "reranking") = (job[r].at # "none")

Retrieved(q) == q.at \in {"retrieved", "generating", "extracting", "answered"}

\* The value that the first of the lists that has this chunk and this field has.
FirstOf(lists, id, field) ==
    LET having == {i \in DOMAIN lists : id \in IdsIn(lists[i]) /\ Held(lists[i], id).stages[field] # None}
        first == CHOOSE i \in having : \A j \in having : i <= j
    IN  IF having = {} THEN None ELSE Held(lists[first], id).stages[field]

\* What a chunk says of how it was found is what happened to it, through fusion,
\* the cache and reranking: the evidence of both retrievers, its place among the
\* fused and its final place.  It comes once, and as many chunks come as were asked
\* for and found, also when that is more than the configured shortlist
\* (fusion.py:25-79, rerank.py:157-168, routes_query.py:44-48).
Provenance ==
    \A r \in Requests : LET q == request[r] IN Retrieved(q) =>
        /\ Len(q.chunks) = Lesser(q.config.topK, Len(q.fused))
        /\ \A n \in DOMAIN q.chunks :
               LET c == q.chunks[n]
               IN  /\ \A f \in {"denseScore", "denseRank", "lexicalScore", "lexicalRank"} :
                         c.stages[f] = FirstOf(q.lists, c.id, f)
                   /\ c.stages["fusedRank"] = RankOf(q.fused, c.id)
                   /\ c.stages["finalRank"] = n
                   /\ \A m \in DOMAIN q.chunks : q.chunks[m].id = c.id => m = n

\* A chunk that every list with the other one ranks above it is fused above it,
\* unless both have the same fused score (fusion.py:82-147).
Dominance ==
    \A r \in Requests : LET q == request[r] IN
        \A m, n \in DOMAIN q.fused :
            (\A i \in DOMAIN q.lists : q.fused[n].id \in IdsIn(q.lists[i]) =>
                /\ q.fused[m].id \in IdsIn(q.lists[i])
                /\ RankOf(q.lists[i], q.fused[m].id) < RankOf(q.lists[i], q.fused[n].id))
            => m < n \/ q.fused[m].score = q.fused[n].score

Said(q) == q.response.answer.sentences

\* An answer called grounded says nothing that no source supports and points at
\* no source that is not there, whatever the model wrote (grounding.py:88-154).
GroundedIsSupported ==
    \A r \in Requests : LET q == request[r] IN
        q.at = "answered" /\ q.response.grounding.grounded =>
            \A n \in DOMAIN Said(q) : q.response.answer.insufficient \/
                /\ ToSet(Said(q)[n].marks) \subseteq DOMAIN q.chunks
                /\ Said(q)[n].says # Nothing =>
                      \E c \in Range(q.chunks) : Likeness[Said(q)[n].says][c.text] >= GroundingThreshold

\* Nothing is answered from chunks that the cross-encoder finds irrelevant to this
\* query, whoever scored them (refusal.py:36-93, rerank.py:141); a chunk that was
\* edited may still have the score of its old text.
NeverAnswersWeak ==
    \A r \in Requests : LET q == request[r] IN
        q.at = "answered" /\ q.config.rerank /\ q.response.kind # "refused" =>
            \E c \in Range(q.chunks) : \/ Relevance[q.query][c.text] >= MinConfidence
                                       \/ TextsOf[c.id] # {c.text}

\* An extractive answer cites the source of each of its sentences and no other:
\* "the citation is exact by construction" (extractive.py:7-11).
ExtractCitesOwn ==
    \A r \in Requests : LET q == request[r] IN
        q.at = "answered" /\ q.response.kind = "extractive" =>
            \A n \in DOMAIN Said(q) : \A m \in ToSet(Said(q)[n].marks) :
                /\ m \in DOMAIN q.chunks
                /\ \E s \in Range(SentencesOf[q.chunks[m].text]) : s.says = Said(q)[n].says

\* Every request is answered, or failed because the embedder, the store or the
\* cross-encoder did: never because the language model is away (pipeline.py:152-159,
\* service.py:70-90).
Responds ==
    \A r \in Requests :
        request[r].at # "idle" ~> \/ request[r].at = "answered"
                                  \/ request[r].at = "failed" /\ request[r].blame = "backend"

\* The pipeline calls the reranker as its own specification allows, with a
\* shortlist of stored chunks without repetition, and touches none of its state.
ImplementsReranker == RerankSpec
=============================================================================
