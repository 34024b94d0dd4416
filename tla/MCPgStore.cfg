CONSTANTS
    Docs <- MCDocs
    Hashes = {"h1", "h2"}
    Metas = {"m"}
    Starts <- MCStarts
    Texts <- MCTexts
    Spaces = {"bge", "wide"}
    DimOf <- MCDimOf
    Score <- MCScore
    IdRank <- MCIdRank
    Uploads <- MCUploads
    Queries <- MCQueries
    Limits = {}
    NoSpace = NoSpace
    NoFilter = NoFilter
    Processes <- MCProcesses
    Tasks <- MCTasks
    ProcessOf <- MCProcessOf
    Collections = {"main", "other"}
    CollectionOf <- MCCollectionOf
    Viewed = "main"
    Corpus <- CorpusApart
SPECIFICATION Spec
INVARIANTS TypeOK InfoAgrees
PROPERTIES ImplementsTable DeleteTakesChunks
