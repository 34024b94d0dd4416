----------------------------- MODULE Standalone -----------------------------
(***************************************************************************)
(* The parts that share no state with the others: the in-memory store, the *)
(* rate limiter, and the tools of Offline.  A behaviour is one of one of   *)
(* them, beside the others in an initial state.                            *)
(***************************************************************************)
EXTENDS Offline, MemoryStore, RateLimiter

VARIABLE part       \* "store", "limiter" or "tools"

standaloneVars == <<part, vars, memoryVars, limiterVars>>

StandaloneInit ==
    /\ part \in {"store", "limiter", "tools"}
    /\ MemoryInit
    /\ LimiterInit
    /\ IF part = "tools" THEN Init ELSE tool = "chunk" /\ Waiting(Tools)

StandaloneNext ==
    /\ UNCHANGED part
    /\ \/ part = "store" /\ MemoryNext /\ UNCHANGED <<vars, limiterVars>>
       \/ part = "limiter" /\ LimiterNext /\ UNCHANGED <<vars, memoryVars>>
       \/ part = "tools" /\ Next /\ UNCHANGED <<memoryVars, limiterVars>>

StandaloneSpec == StandaloneInit /\ [][StandaloneNext]_standaloneVars
=============================================================================
