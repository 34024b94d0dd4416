------------------------------ MODULE Offline ------------------------------
(***************************************************************************)
(* What runs beside the service: the migration and download scripts, the   *)
(* loading and chunking of a document, the evaluation.  They share no      *)
(* state, so a behaviour is one of one tool.                               *)
(***************************************************************************)
EXTENDS Chunking, Loading, Evaluation, Download, Migrate

VARIABLE tool       \* "load", "chunk", "evaluate", "download" or "migrate"

vars == <<tool, chunkVars, loadVars, evalVars, downloadVars, migrateVars>>

AnyOf(set) == CHOOSE x \in set : TRUE

\* The tools that are not run wait in some initial state.
Waiting(tools) ==
    /\ "chunk" \in tools => ChunkStart(AnyOf(Bodies), AnyOf(Strategies), AnyOf(Sizes))
    /\ "load" \in tools => LoadStart(AnyOf(Files), AnyOf(Formats))
    /\ "evaluate" \in tools => EvalStart(AnyOf(Workloads))
    /\ "download" \in tools => DownloadInit
    /\ "migrate" \in tools => MigrateStart(ToSet(SqlFiles))

Tools == {"load", "chunk", "evaluate", "download", "migrate"}

Init ==
    /\ tool \in Tools
    /\ \/ tool = "chunk" /\ ChunkInit
       \/ tool = "load" /\ LoadInit
       \/ tool = "evaluate" /\ EvalInit
       \/ tool = "download" /\ DownloadInit
       \/ tool = "migrate" /\ MigrateInit
    /\ Waiting(Tools \ {tool})

Next ==
    /\ UNCHANGED tool
    /\ \/ tool = "chunk" /\ Chunk /\ UNCHANGED <<loadVars, evalVars, downloadVars, migrateVars>>
       \/ tool = "load" /\ Load /\ UNCHANGED <<chunkVars, evalVars, downloadVars, migrateVars>>
       \/ tool = "evaluate" /\ EvalNext /\ UNCHANGED <<chunkVars, loadVars, downloadVars, migrateVars>>
       \/ tool = "download" /\ DownloadNext /\ UNCHANGED <<chunkVars, loadVars, evalVars, migrateVars>>
       \/ tool = "migrate" /\ MigrateNext /\ UNCHANGED <<chunkVars, loadVars, evalVars, downloadVars>>

Spec == Init /\ [][Next]_vars
=============================================================================
