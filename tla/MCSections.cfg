CONSTANTS
    Kinds <- MCKinds
    HeadingLevel <- MCLevel
    Title <- MCName
    Label <- MCName
    NoLabel = "none"
    EndsSentence = {}
    EndsParagraph <- MCKinds
    Tokens <- MCTokens
    Sliceable <- MCKinds
    Bodies <- MCBodies
    Strategies = {"fixed", "recursive", "semantic"}
    Sizes = {2, 3}
    Overlap = 1
SPECIFICATION ChunkSpec
INVARIANT SectionsHonest
CHECK_DEADLOCK FALSE
