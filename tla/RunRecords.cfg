\* Two mutations in a row with a reader that may keep its lease, failures and a
\* crash at any step; two replacements with failures; reports, artifact scans
\* and evidence queries.
SPECIFICATION FairSpec
CONSTANTS
    n1 = n1
    n2 = n2
    n3 = n3
    Nodes = {n1, n2, n3}
    Initial <- TwoInitial
    Readers = {r1}
    MaxGenerations = 2
    MaxFaults = 1
    Requests <- ReplacementChoices
    MaxReplFaults = 2
    MaxReplacements = 2
    FirstNodes = {"n1"}
    LaterNodes = {"n2"}
    MaxSummaries = 1
    MaxSamples = 2
    MaxTail = 3
    ReportBudgets <- ReportBudgetChoices
    Paths <- AllPaths
    Directories <- DirectoryPaths
    TextPaths <- TextFiles
    LogPaths <- LogFiles
    Sensitive = {"token"}
    FirstPaths <- FirstTree
    ArtifactId <- Identifiers
    Volatile <- VolatilePaths
    Wanted <- WantedPaths
    LongPaths <- LongOnes
    MaxEntries = 6
    MaxData = 2
    MaxDepth = 2
    MaxLogs = 1
    ChunkLimit = 1
    MaxSize = 2
    ArtifactBudgets <- ArtifactBudgetChoices
    Queries <- QueryChoices
    EventKinds = {"start_failed", "stdout_tail"}
    EvidenceNodes = {"n1"}
    ScanLimit = 2
    SequenceBase = 8
    MaxLines = 2
    MaxAppendFaults = 1
    MaxCancels = 1
    MaxPolls = 1
INVARIANTS
    ResourcesAreListed
    MutationCorrect
    ReplacementCorrect
    ReportCorrect
    ArtifactsCorrect
    EvidenceCorrect
PROPERTIES
    OutcomeIsTrue
    RecordsSettle
CHECK_DEADLOCK FALSE
