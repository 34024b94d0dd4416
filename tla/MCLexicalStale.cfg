CONSTANTS
    Ids = {"c1", "c2"}
    TextsOf <- MCTextsOf
    Queries = {"q1", "q2"}
    NoFile = NoFile
SPECIFICATION Spec
INVARIANT SameChunksAsStore
