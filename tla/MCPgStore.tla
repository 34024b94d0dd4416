----------------------------- MODULE MCPgStore -----------------------------
(***************************************************************************)
(* Three processes: an API server and an ingestion script on collection    *)
(* "main", and a process of collection "other" on the same database.  In   *)
(* MCPgStore.cfg the collections have documents of their own; in           *)
(* MCPgStoreShared.cfg both ingest document 1.                             *)
(***************************************************************************)
EXTENDS PgStore

MCDocs == {1, 2}
MCStarts == {0, 5}
MCDimOf == [s \in {"bge", "wide"} |-> IF s = "bge" THEN 3 ELSE 4]
MCTexts == {"x", "y"}
MCScore == [t \in MCTexts |-> 0]
MCIdRank == [c \in MCDocs \X MCStarts |-> 10 * c[1] - c[2]]
Rec(s, t) == [start |-> s, text |-> t]
Up(d, h, n, rs) == [doc |-> d, hash |-> h, meta |-> "m", dim |-> n, records |-> rs]
First == Up(1, "h1", 3, <<Rec(0, "x")>>)
Second == Up(1, "h2", 3, <<Rec(0, "y"), Rec(5, "x")>>)
Wide == Up(1, "h1", 4, <<Rec(0, "x")>>)
Other == Up(2, "h1", 3, <<Rec(0, "x")>>)
MCUploads == {First, Second, Wide, Other}
MCQueries == {}
MCProcesses == {"api", "script", "tenant"}
MCTasks == {"a", "b", "c"}
MCProcessOf == [t \in MCTasks |->
    CASE t = "a" -> "api" [] t = "b" -> "script" [] t = "c" -> "tenant"]
MCCollectionOf == [p \in MCProcesses |-> IF p = "tenant" THEN "other" ELSE "main"]
CorpusApart == [c \in {"main", "other"} |->
    IF c = "main" THEN {First, Second, Wide} ELSE {Other}]
CorpusShared == [c \in {"main", "other"} |-> {First}]
=============================================================================
