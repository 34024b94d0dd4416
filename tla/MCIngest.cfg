CONSTANTS
    Paths <- MCPaths
    Docs = {"a", "b"}
    DocOf <- OwnDoc
    Versions = {"v1", "v2", "blank"}
    Blank = {"blank"}
    Unreadable = Unreadable
    Absent = Absent
    Runs = {"r1", "r2"}
    Concurrency = 1
    MaxEvents = 1
SPECIFICATION Spec
INVARIANTS TypeOK UndisturbedRunSyncs NoOpRerun
PROPERTIES CallReturns Converges
