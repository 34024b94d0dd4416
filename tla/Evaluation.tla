----------------------------- MODULE Evaluation -----------------------------
(***************************************************************************)
(* eval/runner.py under scripts/run_eval.py: a list of configurations, each *)
(* run over the golden set by concurrent tasks and written out when it is  *)
(* through.                                                                *)
(*                                                                         *)
(* A configuration is the chunk strategy whose index it searches; what the *)
(* service answers a question is any ranking of that index.  The process   *)
(* may be killed at any step, and a file it was writing is left torn.      *)
(***************************************************************************)
EXTENDS Metrics

CONSTANTS
    Workloads,      \* [golden, plan, rankings]: the questions, the strategies of the
                    \* configurations in order, strategy -> the rankings it can give
    Corpus,         \* document -> its text
    IndexOf,        \* strategy -> the chunks its ingestion of the corpus makes
    K,              \* how many sources an answer has at most
    Concurrency,    \* questions answered at the same time
    Unknown,        \* no count cached
    Torn            \* a report whose writing was interrupted

ASSUME EvaluationAssumption ==
    /\ K \in 1..Len(Discount) /\ Concurrency \in Nat \ {0} /\ Torn \notin Nat
    /\ \A doc \in DOMAIN Corpus : Corpus[doc] \in Seq(ToSet(Corpus[doc]))
    /\ \A s \in DOMAIN IndexOf : /\ IsFiniteSet(IndexOf[s])
                                 /\ \A c \in IndexOf[s] : c.text \in Seq(ToSet(c.text))
    /\ Workloads # {}
    /\ \A w \in Workloads :
          /\ w.golden \in Seq(ToSet(w.golden)) /\ w.plan \in Seq(DOMAIN IndexOf) \ {<<>>}
          /\ \A entry \in ToSet(w.golden) : /\ entry.negative \in BOOLEAN
                                           /\ \A span \in entry.spans : span \in Seq(ToSet(span))
          /\ \A s \in DOMAIN IndexOf : \A ranking \in w.rankings[s] :
                /\ ranking \in Seq(IndexOf[s]) /\ IsInjective(ranking) /\ Len(ranking) <= K

VARIABLES
    work,           \* the workload
    indexes,        \* the strategies whose index is built
    counts,         \* _Index.relevant_counts: strategy -> question id -> count
    task,           \* question -> "queued", "answering", "embedding", "done" or "failed"
    row,            \* question -> the row scored for it
    completed,      \* the questions whose tasks ended, in that order
    collected,      \* how many of them the main loop has seen
    saved,          \* the runs whose rows and aggregate are on disk
    report,         \* how many runs the report on disk lists
    phase           \* "indexing", "evaluating", "saving", "reporting", "rewriting",
                    \* "closing", "last rewriting", "ended"

evalVars == <<work, indexes, counts, task, row, completed, collected, saved, report, phase>>

Questions == DOMAIN work.golden
Position == Len(saved) + 1
Strategy == work.plan[Position]
NoTasks(w) == [q \in DOMAIN w.golden |-> "queued"]
NoRow == [qid |-> Unknown]

EvalStart(w) ==
    /\ work = w
    /\ indexes = {} /\ counts = [s \in DOMAIN IndexOf |-> <<>>]
    /\ task = NoTasks(w) /\ row = [q \in DOMAIN w.golden |-> NoRow]
    /\ completed = <<>> /\ collected = 0
    /\ saved = <<>> /\ report = 0 /\ phase = "indexing"

EvalInit == \E w \in Workloads : EvalStart(w)

\* index_for, cached per strategy.
BuildIndex ==
    /\ phase = "indexing"
    /\ indexes' = indexes \cup {Strategy}
    /\ task' = NoTasks(work) /\ row' = [q \in Questions |-> NoRow]
    /\ completed' = <<>> /\ collected' = 0
    /\ phase' = IF Questions = {} THEN "saving" ELSE "evaluating"
    /\ UNCHANGED <<work, counts, saved, report>>

----------------------------------------------------------------------------

Inside == {q \in Questions : task[q] \in {"answering", "embedding"}}

\* A task gets the semaphore, in the order the tasks were created.
Enter(q) ==
    /\ phase = "evaluating" /\ task[q] = "queued"
    /\ Cardinality(Inside) < Concurrency
    /\ \A earlier \in 1..(q - 1) : task[earlier] # "queued"
    /\ task' = [task EXCEPT ![q] = "answering"]
    /\ UNCHANGED <<work, indexes, counts, row, completed, collected, saved, report, phase>>

\* _relevant_count: only the documents a question names are scanned.
NamedChunks(strategy, entry) == {c \in IndexOf[strategy] : c.doc \in entry.docs}

\* Mutant: the harness keeps one cache for all its indexes.
OneCache(strategy) ==
    LET filled == {s \in DOMAIN counts : counts[s] # <<>>}
    IN  IF filled = {} THEN <<>> ELSE counts[CHOOSE s \in filled : TRUE]
CountsOf(strategy) == counts[strategy]

Counted(cache, qid, count) == [id \in DOMAIN cache \cup {qid} |-> IF id = qid THEN count ELSE cache[id]]

RelevantCount(strategy, entry) ==
    IF entry.qid \in DOMAIN CountsOf(strategy) THEN CountsOf(strategy)[entry.qid]
    ELSE CountRelevant(NamedChunks(strategy, entry), entry)

EvalRow(entry, ranking, refused, total) ==
    LET flags == RelevanceFlags(ranking, entry)
    IN  [qid |-> entry.qid, negative |-> entry.negative, refused |-> refused,
         ranking |-> ranking, flags |-> flags, total |-> total,
         recall |-> Recall(flags, total, K), precision |-> Precision(flags, K),
         hit |-> HitRate(flags, K), rr |-> ReciprocalRank(flags), ndcg |-> NDCG(flags, total, K)]

\* service.answer returned: the row is scored.
ScoreEntry(q, ranking, refused) ==
    LET entry == work.golden[q]
        total == RelevantCount(Strategy, entry)
    IN  /\ counts' = [counts EXCEPT ![Strategy] = Counted(@, entry.qid, total)]
        /\ row' = [row EXCEPT ![q] = EvalRow(entry, ranking, refused, total)]

Answered(q) ==
    /\ phase = "evaluating" /\ task[q] = "answering"
    /\ \E ranking \in work.rankings[Strategy], refused \in BOOLEAN : ScoreEntry(q, ranking, refused)
    /\ task' = [task EXCEPT ![q] = "embedding"]
    /\ UNCHANGED <<work, indexes, completed, collected, saved, report, phase>>

\* The answer is compared with the reference and the semaphore released, or the
\* service or the embedder raises.
End(q) ==
    /\ phase = "evaluating"
    /\ \/ task[q] = "embedding" /\ task' = [task EXCEPT ![q] = "done"]
       \/ q \in Inside /\ task' = [task EXCEPT ![q] = "failed"]
    /\ completed' = Append(completed, q)
    /\ UNCHANGED <<work, indexes, counts, row, collected, saved, report, phase>>

\* as_completed: the next task that ended.  A failed one ends the program.
Collect ==
    /\ phase = "evaluating" /\ collected < Len(completed)
    /\ collected' = collected + 1
    /\ phase' = IF task[completed[collected + 1]] = "failed" THEN "ended"
                ELSE IF collected' = Len(work.golden) THEN "saving" ELSE phase
    /\ UNCHANGED <<work, indexes, counts, task, row, completed, saved, report>>

----------------------------------------------------------------------------

\* The position of a question id in the golden set, the last one of duplicates.
Order(qid) == Max({q \in Questions : work.golden[q].qid = qid})

\* list.sort is stable: rows of one id stay as their tasks ended.
GoldenOrder(rows) ==
    LET before(m, n) == \/ Order(rows[m].qid) < Order(rows[n].qid)
                        \/ Order(rows[m].qid) = Order(rows[n].qid) /\ m < n
    IN  [i \in DOMAIN rows |->
            rows[CHOOSE n \in DOMAIN rows : Cardinality({m \in DOMAIN rows : before(m, n)}) = i - 1]]

\* What an average is taken of: the answerable questions, or the negative ones.
Aggregate(rows) ==
    LET answerable == Filtered(rows, {r \in ToSet(rows) : r.negative})
        negatives == Filtered(rows, {r \in ToSet(rows) : ~r.negative})
    IN  [recall |-> [n \in DOMAIN answerable |-> answerable[n].recall],
         ndcg |-> [n \in DOMAIN answerable |-> answerable[n].ndcg],
         refusalAccuracy |-> Share([n \in DOMAIN negatives |-> negatives[n].refused]),
         falseRefusals |-> Share([n \in DOMAIN answerable |-> answerable[n].refused])]

\* write_rows and write_run, into a directory of the run's own.
SaveRun ==
    /\ phase = "saving"
    /\ LET rows == GoldenOrder([n \in DOMAIN completed |-> row[completed[n]]])
       IN  saved' = Append(saved, [strategy |-> Strategy, rows |-> rows, aggregate |-> Aggregate(rows)])
    /\ phase' = "reporting"
    /\ UNCHANGED <<work, indexes, counts, task, row, completed, collected, report>>

\* write_ablation: the whole report is written over the one before, after every
\* configuration and once more at the end.
OpenReport ==
    /\ phase \in {"reporting", "closing"}
    /\ phase' = IF phase = "reporting" THEN "rewriting" ELSE "last rewriting"
    /\ report' = Torn
    /\ UNCHANGED <<work, indexes, counts, task, row, completed, collected, saved>>

WriteReport ==
    /\ phase \in {"rewriting", "last rewriting"}
    /\ report' = Len(saved)
    /\ phase' = IF phase = "last rewriting" THEN "ended"
                ELSE IF Len(saved) = Len(work.plan) THEN "closing" ELSE "indexing"
    /\ UNCHANGED <<work, indexes, counts, task, row, completed, collected, saved>>

Kill ==
    /\ phase # "ended" /\ phase' = "ended"
    /\ UNCHANGED <<work, indexes, counts, task, row, completed, collected, saved, report>>

EvalNext ==
    \/ BuildIndex \/ Collect \/ SaveRun \/ OpenReport \/ WriteReport \/ Kill
    \/ \E q \in Questions : Enter(q) \/ Answered(q) \/ End(q)

----------------------------------------------------------------------------

UniqueIds == IsInjective([q \in Questions |-> work.golden[q].qid])

\* A run that is on disk has one row for each golden question whichever order its
\* tasks ended in; with unique ids the rows are in golden order and counted against
\* the chunks of the run's own strategy; the retrieval averages are of all the
\* answerable questions; never more questions than configured are in flight; and a
\* killed evaluation has in its report all runs that were through but the last one,
\* unless it was killed while writing that (runner.py:186-200, 276-303,
\* run_eval.py:152-181).
RunComplete ==
    /\ \A p \in DOMAIN saved :
          LET run == saved[p] IN
          /\ run.strategy = work.plan[p]
          /\ Len(run.rows) = Len(work.golden)
          /\ Len(run.aggregate.recall) = Cardinality({q \in Questions : ~work.golden[q].negative})
          /\ UniqueIds => \A q \in Questions :
                /\ run.rows[q].qid = work.golden[q].qid
                /\ run.rows[q].total
                   = CountRelevant(NamedChunks(run.strategy, work.golden[q]), work.golden[q])
    /\ Cardinality(Inside) <= Concurrency
    /\ report # Torn => Len(saved) - report <= 1
    /\ report = Torn => phase \in {"rewriting", "last rewriting", "ended"}

\* The document's chunks are cuts of its text that leave nothing out, none of them
\* shorter than what has to be shared with a span.
WellCut(strategy, doc) ==
    LET cuts == {c \in IndexOf[strategy] : c.doc = doc}
    IN  /\ \A c \in cuts : /\ c.start \in 0..(Len(Corpus[doc]) - Len(c.text)) /\ Len(c.text) >= MinOverlap
                           /\ c.text = SubSeq(Corpus[doc], c.start + 1, c.start + Len(c.text))
        /\ \A at \in 0..(Len(Corpus[doc]) - 1) : \E c \in cuts : c.start <= at /\ at < c.start + Len(c.text)

\* The question has a span of a document it names that is long enough for any cut.
Findable(strategy, entry) ==
    \E span \in entry.spans, doc \in entry.docs \cap DOMAIN Corpus :
        Len(span) >= 2 * MinOverlap - 1 /\ Within(span, Corpus[doc]) /\ WellCut(strategy, doc)

Whole(fraction) == fraction[1] = fraction[2]

\* The chunks of the index that are relevant to the question.
RelevantIn(strategy, entry) == {c \in IndexOf[strategy] : MatchesGolden(c, entry)}

\* What the numbers of a row mean: no metric leaves 0..1; recall is perfect exactly
\* when every relevant chunk of the corpus was retrieved, and nDCG exactly when
\* nothing irrelevant is ranked before one; a hit, a reciprocal rank and a
\* precision agree; a span long enough for any cut leaves its question a chunk to
\* find.  Perfection is for questions whose spans occur in the documents they name
\* only, and all but the first for unique ids, as counts are cached by id
\* (metrics.py:28-31, 95-183, runner.py:186-200).
MetricsSound ==
    \A q \in Questions : phase \in {"evaluating", "saving"} /\ row[q] # NoRow =>
        LET r == row[q]
            entry == work.golden[q]
            relevant == RelevantIn(Strategy, entry)
            named == UniqueIds /\ relevant \subseteq NamedChunks(Strategy, entry)
            shown == {r.ranking[n] : n \in DOMAIN r.ranking}
        IN  /\ \A m \in {r.recall, r.precision, r.hit, r.rr, r.ndcg} : 0 <= m[1] /\ m[1] <= m[2]
            /\ named /\ relevant # {} => (Whole(r.recall) <=> relevant \subseteq shown)
            /\ named /\ relevant # {} =>
                  (Whole(r.ndcg) <=> \A n \in 1..Min({K, Cardinality(relevant)}) :
                                          n \in DOMAIN r.flags /\ r.flags[n])
            /\ (r.hit[1] = 1) = (r.rr[1] = 1) /\ (r.hit[1] = 1) = (r.precision[1] > 0)
            /\ UniqueIds /\ Findable(Strategy, entry) => r.total > 0
=============================================================================
