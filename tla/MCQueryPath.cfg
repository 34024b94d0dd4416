CONSTANTS
    Ids <- MCIds
    IdRank <- MCIdRank
    None = None
    Scale = 36
    Requests = {"r1", "r2"}
    Queries <- MCQueries
    TextsOf <- MCTextsOf
    Relevance <- MCRelevance
    CacheSize = 2
    BatchSize = 1
    Free = Free
    Nothing = Nothing
    SentencesOf <- MCSentencesOf
    TooShort = {"short"}
    Likeness <- MCLikeness
    MinConfidence = 1
    MinSources = 1
    ExtractiveSentences = 2
    GroundingThreshold = 2
    NoScore = NoScore
    Workloads <- MCWorkloads
    Editable = {"a"}
    Phrasings <- MCPhrasings
    Passages <- MCPassages
    Completions <- MCCompletions
    EmptyLine = EmptyLine
    Absent = Absent
    Waiting = Waiting
SPECIFICATION Spec
INVARIANTS TypeOK Provenance Dominance GroundedIsSupported NeverAnswersWeak CacheSound PredictsAlone CacheInvisible
PROPERTIES Responds ImplementsReranker
