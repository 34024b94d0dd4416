------------------------------ MODULE Services ------------------------------
(***************************************************************************)
(* The life of the service graph (api/app.py, api/deps.py): the lazily     *)
(* opened connection pool of store/pgvector.py that every caller of the    *)
(* store shares, the background ingestion jobs of api/routes_ingest.py,    *)
(* and the shutdown that cancels them and closes the store.                *)
(***************************************************************************)
EXTENDS FiniteSets

CONSTANTS
    Jobs,       \* background ingestion jobs
    Searches,   \* the concurrent searches of a query
    NoPool      \* _pool is None

Startup == "startup"
Callers == Jobs \cup Searches \cup {Startup}

\* Nobody calls the store in two roles.
ASSUME CallersAssumption ==
    /\ Jobs \cap Searches = {}
    /\ Startup \notin Jobs \cup Searches
    /\ NoPool \notin Callers

VARIABLES
    phase,      \* of the application
    pool,       \* PgVectorStore._pool, named after the caller that made it
    open,       \* pools whose connections are open, or being opened
    ready,      \* those that are open
    call,       \* caller -> its call of the store
    using,      \* caller -> the pool it got
    job,        \* job -> its IngestJob.status
    tasks,      \* jobs whose task Services.tasks refers to
    cancelled   \* jobs whose task was cancelled

serviceVars == <<phase, pool, open, ready, call, using, job, tasks, cancelled>>
poolVars == <<pool, open, ready, call, using>>
jobVars == <<job, tasks, cancelled>>

ServicesInit ==
    /\ phase = "starting"
    /\ pool = NoPool /\ open = {} /\ ready = {}
    /\ call = [c \in Callers |-> IF c = Startup THEN "asked" ELSE "none"]
    /\ using = [c \in Callers |-> NoPool]
    /\ job = [j \in Jobs |-> "absent"]
    /\ tasks = {} /\ cancelled = {}

----------------------------------------------------------------------------
\* store/pgvector.py

Ask(c) == call' = [call EXCEPT ![c] = "asked"]

\* Mutant: the pool is assigned before it is open.
AssignAtOnce(c) == pool' = c
AssignLater(c) == UNCHANGED pool

\* _get_pool up to its await: a pool that is there is used.
FindPool(c) ==
    /\ call[c] = "asked" /\ pool # NoPool
    /\ call' = [call EXCEPT ![c] = "using"]
    /\ using' = [using EXCEPT ![c] = pool]
    /\ UNCHANGED <<phase, pool, open, ready, jobVars>>

MakePool(c) ==
    /\ call[c] = "asked" /\ pool = NoPool
    /\ AssignLater(c)
    /\ call' = [call EXCEPT ![c] = "opening"]
    /\ open' = open \cup {c}
    /\ UNCHANGED <<phase, ready, using, jobVars>>

\* pool.open returned; whatever _pool is by now is replaced.
PoolOpens(c) ==
    /\ call[c] = "opening"
    /\ pool' = c
    /\ ready' = ready \cup {c}
    /\ call' = [call EXCEPT ![c] = "using"]
    /\ using' = [using EXCEPT ![c] = c]
    /\ UNCHANGED <<phase, open, jobVars>>

\* StoreUnavailableError; psycopg_pool closes a pool that cannot be opened.
PoolUnavailable(c) ==
    /\ call[c] = "opening"
    /\ open' = open \ {c}
    /\ call' = [call EXCEPT ![c] = "unavailable"]
    /\ UNCHANGED <<phase, pool, ready, using, jobVars>>

\* The statements run, or the database or the closed pool raises.
Execute(c) ==
    /\ call[c] = "using"
    /\ \/ using[c] \in ready /\ call' = [call EXCEPT ![c] = "done"]
       \/ call' = [call EXCEPT ![c] = "failed"]
    /\ UNCHANGED <<phase, pool, open, ready, using, jobVars>>

UseStore(c) == FindPool(c) \/ MakePool(c) \/ PoolOpens(c) \/ PoolUnavailable(c) \/ Execute(c)

----------------------------------------------------------------------------
\* api/app.py, the lifespan up to its yield.

\* A store that is down does not stop the application from starting; a collection
\* of another embedder, or any other error, does.
Started ==
    /\ phase = "starting" /\ call[Startup] \in {"done", "unavailable", "failed"}
    /\ phase' = IF call[Startup] = "failed" THEN "aborted" ELSE "serving"
    /\ UNCHANGED <<poolVars, jobVars>>

----------------------------------------------------------------------------
\* api/routes_ingest.py

\* Mutant: nothing refers to the task.
HoldNothing(j) == UNCHANGED tasks
Hold(j) == tasks' = tasks \cup {j}

StartJob(j) ==
    /\ phase = "serving" /\ job[j] = "absent"
    /\ job' = [job EXCEPT ![j] = "queued"]
    /\ Hold(j)
    /\ UNCHANGED <<phase, poolVars, cancelled>>

Unfinished(j) == job[j] \in {"queued", "running"} /\ j \notin cancelled

RunJob(j) ==
    /\ Unfinished(j) /\ job[j] = "queued"
    /\ job' = [job EXCEPT ![j] = "running"]
    /\ Ask(j)
    /\ UNCHANGED <<phase, pool, open, ready, using, tasks, cancelled>>

\* Mutant: only the errors of the engine are recorded.
RecordedKnown(j) == call[j] = "unavailable"
Recorded(j) == TRUE

\* The task ends: its outcome is on the job, and its reference is dropped.
FinishJob(j) ==
    /\ Unfinished(j) /\ job[j] = "running"
    /\ call[j] \in {"done", "unavailable", "failed"}
    /\ job' = [job EXCEPT ![j] = IF call[j] = "done" THEN "succeeded"
                                 ELSE IF Recorded(j) THEN "failed" ELSE @]
    /\ tasks' = tasks \ {j}
    /\ UNCHANGED <<phase, poolVars, cancelled>>

----------------------------------------------------------------------------
\* api/deps.py, aclose.

\* Every task is cancelled; none is awaited.
Shutdown ==
    /\ phase = "serving"
    /\ phase' = "closing"
    /\ cancelled' = cancelled \cup tasks
    /\ UNCHANGED <<poolVars, job, tasks>>

\* CancelledError arrives at a task's await, and no handler records it.
CancelJob(j) ==
    /\ j \in cancelled \cap tasks
    /\ tasks' = tasks \ {j}
    /\ call' = [call EXCEPT ![j] = "none"]
    /\ UNCHANGED <<phase, pool, open, ready, using, job, cancelled>>

\* store.close awaits the pool's close and then forgets whatever _pool is.
ClosePool ==
    /\ phase = "closing"
    /\ open' = open \ {pool} /\ ready' = ready \ {pool}
    /\ phase' = "closed"
    /\ UNCHANGED <<pool, call, using, jobVars>>

ForgetPool ==
    /\ phase = "closed"
    /\ pool' = NoPool
    /\ phase' = "stopped"
    /\ UNCHANGED <<open, ready, call, using, jobVars>>

----------------------------------------------------------------------------

ServicesTypeOK ==
    /\ phase \in {"starting", "serving", "aborted", "closing", "closed", "stopped"}
    /\ pool \in Callers \cup {NoPool}
    /\ ready \subseteq open /\ open \subseteq Callers
    /\ call \in [Callers -> {"none", "asked", "opening", "using", "done", "unavailable", "failed"}]
    /\ using \in [Callers -> Callers \cup {NoPool}]
    /\ job \in [Jobs -> {"absent", "queued", "running", "succeeded", "failed"}]
    /\ tasks \subseteq Jobs /\ cancelled \subseteq Jobs

\* Until the shutdown, the pool that the store hands out is open, and nobody uses
\* one that is not, however many callers are first; and when the startup opened one,
\* no other is ever opened, so that closing it releases every connection.  A store
\* that was down at startup has no such pool: concurrent first callers then open one
\* each, and close knows the last one assigned only (pgvector.py:110-130, 403-406).
PoolUsable ==
    phase \in {"starting", "serving"} =>
        /\ pool # NoPool => pool \in ready
        /\ \A c \in Callers : call[c] = "using" => using[c] \in ready
        /\ call[Startup] = "done" => open = {Startup}

\* A status is the truth about its job: succeeded means all was written; a job
\* that reads queued or running has a task, unless it was cancelled by the
\* shutdown, whose jobs keep that status (routes_ingest.py:77-103, deps.py:53-56).
StatusTrue ==
    \A j \in Jobs :
        /\ job[j] = "succeeded" => call[j] = "done"
        /\ job[j] = "failed" => call[j] \in {"unavailable", "failed"}
        /\ Unfinished(j) => j \in tasks
        /\ j \in cancelled => phase \in {"closing", "closed", "stopped"}

\* A job that was accepted ends with an outcome, unless the application stops
\* first (routes_ingest.py:77-103).
JobsSettle ==
    \A j \in Jobs : job[j] = "queued" ~>
        job[j] \in {"succeeded", "failed"} \/ phase \in {"closing", "closed", "stopped"}
=============================================================================
