------------------------------ MODULE Serving ------------------------------
(***************************************************************************)
(* The running application: a streamed query whose searches use the store  *)
(* beside the ingestion jobs, from startup to shutdown.                    *)
(***************************************************************************)
EXTENDS AnswerStream, Services

vars == <<streamVars, serviceVars>>

Init == StreamInit /\ ServicesInit

\* The source runs for the first time: its searches are gathered.
Search ==
    /\ phase = "serving" /\ Pull
    /\ call' = [c \in Callers |-> IF c \in Searches /\ made = 0 THEN "asked" ELSE call[c]]
    /\ UNCHANGED <<phase, pool, open, ready, using, jobVars>>

\* Mutant: the first search that is done is enough.
AnySearched == \E s \in Searches : call[s] = "done"
Searched == \A s \in Searches : call[s] = "done"

\* The answer comes after every search, an error after the first whose store fails.
Answer == /\ Searched
          /\ Yield \/ Exhaust
          /\ UNCHANGED serviceVars

AnswerFails(kind) == /\ \E s \in Searches : call[s] \in {"unavailable", "failed"}
                     /\ RaiseError(kind)
                     /\ UNCHANGED serviceVars

\* The embedder raises before a search comes to the store, or what follows a search
\* does: ranking by terms, the reranker.
BackendFails(kind) ==
    /\ RaiseError(kind)
    /\ \E s \in Searches :
          /\ call[s] \in {"asked", "done"}
          /\ call' = [call EXCEPT ![s] = IF @ = "asked" THEN "none" ELSE @]
    /\ UNCHANGED <<phase, pool, open, ready, using, jobVars>>

Respond == /\ phase = "serving"
           /\ Heartbeat \/ Take \/ Finish \/ Disconnect
           /\ UNCHANGED serviceVars

\* The server waits for its responses before the lifespan goes on, though not for
\* the task of a client that left.
Stop == Ended /\ Shutdown /\ UNCHANGED streamVars

Background ==
    /\ \/ \E c \in Callers : UseStore(c)
       \/ Started
       \/ \E j \in Jobs : StartJob(j) \/ RunJob(j) \/ FinishJob(j) \/ CancelJob(j)
       \/ ClosePool \/ ForgetPool
    /\ UNCHANGED streamVars

Next ==
    \/ Search
    \/ Answer
    \/ \E kind \in {"error", "timeout"} : AnswerFails(kind) \/ BackendFails(kind)
    \/ Respond
    \/ Stop
    \/ Background

\* The loop runs what is ready, and the database answers or raises.
Fairness ==
    /\ WF_vars(Search) /\ WF_vars(Answer) /\ WF_vars(AnswerFails("error") \/ AnswerFails("timeout"))
    /\ WF_vars(Respond /\ (Take \/ Finish))
    /\ WF_vars(Started /\ UNCHANGED streamVars)
    /\ \A c \in Callers : WF_vars(UseStore(c) /\ UNCHANGED streamVars)
    /\ \A j \in Jobs : WF_vars((RunJob(j) \/ FinishJob(j)) /\ UNCHANGED streamVars)

Spec == Init /\ [][Next]_vars /\ Fairness

----------------------------------------------------------------------------

TypeOK ==
    /\ ServicesTypeOK
    /\ made \in 0..length
    /\ pending \in {"none", "running", "event", "end", "error", "timeout"}
    /\ delivered \in Seq(1..length) /\ beat \in 0..1
    /\ outcome \in {"open", "complete", "broken", "left"}
    /\ made > 0 => \A s \in Searches : call[s] = "done"

\* A response that the client waits for ends, unless the source itself raised a
\* TimeoutError, which is taken for the heartbeat's own (routes_query.py:104-108).
StreamEnds == (phase = "serving" /\ ~Ended) ~> Ended \/ pending = "timeout"
=============================================================================
