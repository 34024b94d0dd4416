------------------------------- MODULE Ingest -------------------------------
(***************************************************************************)
(* ingest/pipeline.py: calls of ingest_paths over one corpus and one       *)
(* store.  A call snapshots the stored content hashes, then runs one task  *)
(* per path under a semaphore; each task reads its file in a thread,       *)
(* compares the hash with the snapshot, embeds, and replaces the document. *)
(* Every await lets other tasks, other calls, DELETE requests and edits of *)
(* the files in between.                                                   *)
(*                                                                         *)
(* A file's content is a version; its content hash is the version itself.  *)
(* The store's calls are atomic (VectorStore), so the store is the version *)
(* each document was last replaced by.                                     *)
(***************************************************************************)
EXTENDS Integers, FiniteSets

CONSTANTS
    Paths,          \* the files of the corpus, in the order sorted() gives them
    Docs,           \* document ids
    DocOf,          \* the id the loader gives a file: front matter or the stem
    Versions,       \* contents a file may have
    Blank,          \* those whose text is only whitespace, so without chunks
    Unreadable,     \* a file the loader refuses
    Absent,         \* no stored version
    Runs,           \* slots for calls of ingest_paths, reused when over
    Concurrency,    \* settings.ingest_concurrency
    MaxEvents       \* bound on edits, deletes, faults and restarts together

ASSUME PathsAssumption == Paths \subseteq Int /\ IsFiniteSet(Paths)
ASSUME DocOfAssumption == DocOf \in [Paths -> Docs]
ASSUME VersionsAssumption == /\ Blank \subseteq Versions
                             /\ Unreadable \notin Versions
                             /\ Absent \notin Versions \cup {Unreadable}
ASSUME ConcurrencyAssumption == Concurrency \in Nat \ {0}
ASSUME MaxEventsAssumption == MaxEvents \in Nat

VARIABLES
    file,       \* path -> its content now
    stored,     \* document id -> the version whose hash and chunks are stored
    phase,      \* what each call is doing
    known,      \* each call's snapshot of the stored hashes (known_hashes)
    task,       \* the state, then the outcome, of each call's task for a path
    loaded,     \* the version a task has read and is embedding
    events,     \* edits, deletes, faults and restarts so far
    disturbed,  \* history: something else may have touched the corpus or the
                \* store since the call began
    rerun       \* history: the call began right after a call that left nothing to do

vars == <<file, stored, phase, known, task, loaded, events, disturbed, rerun>>
corpus == <<file, events>>
history == <<disturbed, rerun>>

----------------------------------------------------------------------------

InSemaphore == {"loading", "embedding"}
Outcomes == {"unchanged", "changed", "unreadable", "failed", "crashed"}
Unfinished == {"queued"} \cup InSemaphore
TaskStates == {"none"} \cup Unfinished \cup Outcomes

Busy(r) == phase[r] \in {"snapshot", "running"}
\* Tasks of a call that raised go on running after it.
Live(r) == Busy(r) \/ \E p \in Paths : task[r][p] \in Unfinished

Holders(r) == {p \in Paths : task[r][p] \in InSemaphore}
Queued(r) == {p \in Paths : task[r][p] = "queued"}
\* What a task may be embedding.
Readings == (Versions \ Blank) \cup {Absent}
Files(d) == {file[p] : p \in {q \in Paths : DocOf[q] = d}}

\* A call that ran alone, over a corpus left alone, and reported every document as
\* changed or unchanged.
Settled == \E r \in Runs : /\ phase[r] = "finished" /\ ~disturbed[r]
                           /\ \A p \in Paths : task[r][p] \in {"unchanged", "changed"}

Init ==
    /\ file \in [Paths -> Versions \cup {Unreadable}]
    /\ stored = [d \in Docs |-> Absent]
    /\ phase = [r \in Runs |-> "idle"]
    /\ known = [r \in Runs |-> [d \in Docs |-> Absent]]
    /\ task = [r \in Runs |-> [p \in Paths |-> "none"]]
    /\ loaded = [r \in Runs |-> [p \in Paths |-> Absent]]
    /\ events = 0
    /\ disturbed = [r \in Runs |-> FALSE]
    /\ rerun = [r \in Runs |-> FALSE]

----------------------------------------------------------------------------
\* A call of ingest_paths.

\* Mutant: the hashes are not read before the tasks compare with them.
NothingKnown == [d \in Docs |-> Absent]

Snapshot == stored

\* ensure_collection, then document_hashes.
Start(r) ==
    /\ ~Live(r)
    /\ phase' = [phase EXCEPT ![r] = "snapshot"]
    /\ known' = [known EXCEPT ![r] = Snapshot]
    /\ task' = [task EXCEPT ![r] = [p \in Paths |-> "none"]]
    /\ rerun' = [rerun EXCEPT ![r] = Settled]
    /\ disturbed' = [x \in Runs |-> x # r \/ \E y \in Runs : Live(y)]
    /\ UNCHANGED <<corpus, stored, loaded>>

\* The awaits that fetch the chunk counts are over; create the tasks.
Spawn(r) ==
    /\ phase[r] = "snapshot"
    /\ phase' = [phase EXCEPT ![r] = "running"]
    /\ task' = [task EXCEPT ![r] = [p \in Paths |-> "queued"]]
    /\ UNCHANGED <<corpus, stored, known, loaded, history>>

\* Mutant: one task too many.
PermitOffByOne(r) == Cardinality(Holders(r)) <= Concurrency

HasPermit(r) == Cardinality(Holders(r)) < Concurrency

\* The semaphore wakes its waiters in the order they came.
Acquire(r, p) ==
    /\ p \in Queued(r) /\ \A q \in Queued(r) : p <= q
    /\ HasPermit(r)
    /\ task' = [task EXCEPT ![r][p] = "loading"]
    /\ UNCHANGED <<corpus, stored, phase, known, loaded, history>>

\* Mutant: a known document is taken to be unchanged.
KnownAtAll(r, p) == known[r][DocOf[p]] # Absent

Unchanged(r, p) == known[r][DocOf[p]] = file[p]

\* The thread has read the file; a task without work to do ends here.  A document
\* without chunks is reported as changed, and the store is not called.
Load(r, p) ==
    /\ task[r][p] = "loading"
    /\ \/ /\ file[p] = Unreadable
          /\ task' = [task EXCEPT ![r][p] = "unreadable"] /\ UNCHANGED loaded
       \/ /\ file[p] # Unreadable /\ Unchanged(r, p)
          /\ task' = [task EXCEPT ![r][p] = "unchanged"] /\ UNCHANGED loaded
       \/ /\ file[p] \in Blank /\ ~Unchanged(r, p)
          /\ task' = [task EXCEPT ![r][p] = "changed"] /\ UNCHANGED loaded
       \/ /\ file[p] \in Versions \ Blank /\ ~Unchanged(r, p)
          /\ task' = [task EXCEPT ![r][p] = "embedding"]
          /\ loaded' = [loaded EXCEPT ![r][p] = file[p]]
    /\ UNCHANGED <<corpus, stored, phase, known, history>>

\* The chunks are embedded; the store replaces the document.
Upsert(r, p) ==
    /\ task[r][p] = "embedding"
    /\ stored' = [stored EXCEPT ![DocOf[p]] = loaded[r][p]]
    /\ task' = [task EXCEPT ![r][p] = "changed"]
    /\ loaded' = [loaded EXCEPT ![r][p] = Absent]
    /\ UNCHANGED <<corpus, phase, known, history>>

\* Mutant: the call waits for the tasks that reported no error.
OverIfNoError(r) == \A p \in Paths : task[r][p] \in {"unchanged", "changed"}

AllOver(r) == \A p \in Paths : task[r][p] \in Outcomes \ {"crashed"}

\* Every result is in: the summary is returned.
Finish(r) ==
    /\ phase[r] = "running" /\ AllOver(r)
    /\ phase' = [phase EXCEPT ![r] = "finished"]
    /\ UNCHANGED <<corpus, stored, known, task, loaded, history>>

\* Awaiting a task's result raises what the task raised; its siblings go on.
Abort(r) ==
    /\ phase[r] = "running" /\ \E p \in Paths : task[r][p] = "crashed"
    /\ phase' = [phase EXCEPT ![r] = "failed"]
    /\ UNCHANGED <<corpus, stored, known, task, loaded, history>>

----------------------------------------------------------------------------
\* The environment.

Event == events < MaxEvents /\ events' = events + 1
DisturbAll == disturbed' = [r \in Runs |-> TRUE] /\ UNCHANGED rerun

\* The chunker, the embedder or the store raises a RetrievalEngineError.
Fail(r, p) ==
    /\ Event /\ task[r][p] = "embedding"
    /\ task' = [task EXCEPT ![r][p] = "failed"]
    /\ loaded' = [loaded EXCEPT ![r][p] = Absent]
    /\ UNCHANGED <<file, stored, phase, known, history>>

\* Anything else is raised.
Crash(r, p) ==
    /\ Event /\ task[r][p] \in InSemaphore
    /\ task' = [task EXCEPT ![r][p] = "crashed"]
    /\ loaded' = [loaded EXCEPT ![r][p] = Absent]
    /\ UNCHANGED <<file, stored, phase, known, history>>

Edit(p, v) ==
    /\ Event /\ v # file[p]
    /\ file' = [file EXCEPT ![p] = v]
    /\ DisturbAll
    /\ UNCHANGED <<stored, phase, known, task, loaded>>

\* DELETE /documents/{doc_id}.
Delete(d) ==
    /\ Event /\ stored[d] # Absent
    /\ stored' = [stored EXCEPT ![d] = Absent]
    /\ DisturbAll
    /\ UNCHANGED <<file, phase, known, task, loaded>>

\* The process ends and another takes over; pgvector keeps the documents, the
\* in-memory store loses them.
Restart ==
    /\ Event
    /\ stored' \in {stored, [d \in Docs |-> Absent]}
    /\ phase' = [r \in Runs |-> "idle"]
    /\ task' = [r \in Runs |-> [p \in Paths |-> "none"]]
    /\ loaded' = [r \in Runs |-> [p \in Paths |-> Absent]]
    /\ DisturbAll
    /\ UNCHANGED <<file, known>>

----------------------------------------------------------------------------

Step(r) == Spawn(r) \/ Finish(r) \/ Abort(r)
TaskStep(r, p) == Acquire(r, p) \/ Load(r, p) \/ Upsert(r, p)
Environment == \/ \E r \in Runs, p \in Paths : Fail(r, p) \/ Crash(r, p)
               \/ \E p \in Paths, v \in Versions \cup {Unreadable} : Edit(p, v)
               \/ \E d \in Docs : Delete(d)
               \/ Restart

Next == \/ \E r \in Runs : Start(r) \/ Step(r)
        \/ \E r \in Runs, p \in Paths : TaskStep(r, p)
        \/ Environment

\* The event loop runs every ready task, and threads and embedders return.
Fairness == /\ \A r \in Runs : WF_vars(Step(r))
            /\ \A r \in Runs, p \in Paths : WF_vars(TaskStep(r, p))

Safety == Init /\ [][Next]_vars
Spec == Safety /\ Fairness

----------------------------------------------------------------------------

\* The variables have their types, a call never has more tasks past its semaphore
\* than ingest_concurrency (pipeline.py:85, 136), orphans of a failed call included,
\* and a task that embeds has read a version with chunks.
TypeOK ==
    /\ file \in [Paths -> Versions \cup {Unreadable}]
    /\ stored \in [Docs -> Versions \cup {Absent}]
    /\ phase \in [Runs -> {"idle", "snapshot", "running", "finished", "failed"}]
    /\ known \in [Runs -> [Docs -> Versions \cup {Absent}]]
    /\ task \in [Runs -> [Paths -> TaskStates]]
    /\ loaded \in [Runs -> [Paths -> Readings]]
    /\ events \in Nat
    /\ disturbed \in [Runs -> BOOLEAN] /\ rerun \in [Runs -> BOOLEAN]
    /\ \A r \in Runs : Cardinality(Holders(r)) <= Concurrency
    /\ \A r \in Runs, p \in Paths : task[r][p] = "embedding" <=> loaded[r][p] # Absent

\* A call that nothing disturbed leaves the store holding, for every file with text
\* that it reports as changed or unchanged, the content of a file of that document now
\* on disk (pipeline.py:93-119): the hash comparison with a snapshot taken before the
\* tasks ran skips nothing that had to be replaced.  A blank file is reported as
\* changed too, and leaves its document as the call found it, old chunks included,
\* unless another file is of the same document (pipeline.py:101-103).
UndisturbedRunSyncs ==
    \A r \in Runs, p \in Paths :
        phase[r] = "finished" /\ ~disturbed[r] /\ task[r][p] \in {"unchanged", "changed"}
        => \/ stored[DocOf[p]] \in Files(DocOf[p])
           \/ file[p] \in Blank /\ stored[DocOf[p]] = known[r][DocOf[p]]

\* Re-running ingestion over an unchanged corpus embeds nothing, and reports no
\* change but of blank files (pipeline.py:3-5, 93-103).
NoOpRerun ==
    \A r \in Runs : rerun[r] /\ ~disturbed[r] => \A p \in Paths :
        \/ task[r][p] \in {"none", "queued", "loading", "unchanged", "crashed"}
        \/ task[r][p] = "changed" /\ file[p] \in Blank

\* Re-running ingestion over an unchanged corpus reports nothing as changed
\* (docs/BUILD_SPEC.md:351: "Re-running ingestion on an unchanged corpus reports 0
\* changed").
RerunReportsNoChange ==
    \A r \in Runs : rerun[r] /\ ~disturbed[r] => \A p \in Paths : task[r][p] # "changed"

\* A call ends: a semaphore permit is given back on every path out of a task, and
\* neither an unreadable file nor a failing sibling keeps the summary waiting.
CallReturns == \A r \in Runs : Busy(r) ~> ~Busy(r)

\* Every document with a readable file that has chunks is stored as it is on disk.
Synced == \A p \in Paths : file[p] \in Versions \ Blank => stored[DocOf[p]] \in Files(DocOf[p])

\* Whatever edits, deletes, failures and restarts came in between, and however the
\* calls overlapped, calls that go on being made bring the store in step with the
\* corpus for good: no stale snapshot or late upsert is left uncorrected.
Converges == []<><<\E r \in Runs : Start(r)>>_vars => <>[]Synced
=============================================================================
