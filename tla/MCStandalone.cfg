CONSTANTS
    Docs <- MCDocs
    Hashes = {"h1", "h2", "h3"}
    Metas = {"m", "n"}
    Starts <- MCStarts
    Texts <- MCTexts
    Spaces = {"bge", "other"}
    DimOf <- MCDimOf
    Score <- MCScore
    IdRank <- MCIdRank
    Uploads <- MCUploads
    Queries <- MCQueries
    Limits = {0, 1, 2}
    NoSpace = NoSpace
    NoFilter = NoFilter
    NoMatrix = NoMatrix
    Peers = {"a", "b", "c", "d"}
    PerMinute = 2
    Minute = 3
    MaxBuckets = 2
    MaxTime = 7
    Kinds <- MCKinds
    HeadingLevel <- MCLevel
    Title <- MCTitle
    Label <- MCLabel
    NoLabel = "none"
    EndsSentence = {"w."}
    EndsParagraph = {"w|", "H1|", "H2|"}
    Tokens <- MCTokens
    Sliceable <- MCSliceable
    Bodies <- MCBodies
    Strategies = {"fixed", "recursive", "semantic"}
    Sizes = {2, 3}
    Overlap = 1
    Characters <- MCCharacters
    Files <- MCFiles
    Formats = {"docx", "pdf"}
    Separator <- MCSeparator
    MinOverlap = 2
    Discount <- MCDiscount
    Workloads <- MCWorkloads
    IndexOf <- MCIndexOf
    Corpus <- MCCorpus
    K = 3
    Concurrency = 2
    Unknown = Unknown
    Torn = Torn
    Papers = {"p1", "p2", "p3", "other"}
    Wanted = {"p1", "p2", "p3"}
    PageLists <- MCPageLists
    Limit = 2
    WithHtml = TRUE
    MaxRetries = 2
    MaxRuns = 3
    Nothing = Nothing
    Half = Half
    Migrators = {"m1", "m2"}
    SqlFiles <- MCSqlFiles
    MaxStarts = 4
SPECIFICATION StandaloneSpec
INVARIANTS TypeOK IndexConsistent MatrixCurrent LimiterTypeOK ChunksSound SpansExact MetricsSound RunComplete DownloadLosesOne MigratedOnce
PROPERTIES ImplementsPromise ImplementsLimiter
CHECK_DEADLOCK FALSE
