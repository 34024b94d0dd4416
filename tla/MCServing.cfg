CONSTANTS
    Lengths = {1, 3}
    Jobs = {"job"}
    Searches = {"dense", "lexical"}
    NoPool = NoPool
SPECIFICATION Spec
CHECK_DEADLOCK FALSE
INVARIANTS TypeOK PoolUsable StatusTrue
PROPERTIES ImplementsEventStream StreamEnds JobsSettle
