\* Two mutations in a row against a reader that keeps its lease.
SPECIFICATION Spec
CONSTANTS
    n1 = n1
    n2 = n2
    n3 = n3
    Nodes = {n1, n2}
    Initial <- OneInitial
    Readers = {r1}
    MaxGenerations = 3
    MaxFaults = 0
    Requests <- ReplacementChoices
    MaxReplFaults = 0
    MaxReplacements = 1
    FirstNodes = {"n1"}
    LaterNodes = {"n2"}
    MaxSummaries = 1
    MaxSamples = 2
    MaxTail = 3
    ReportBudgets <- OneReportBudget
    Paths <- AllPaths
    Directories <- DirectoryPaths
    TextPaths <- TextFiles
    LogPaths <- LogFiles
    Sensitive = {"token"}
    FirstPaths <- FirstTree
    ArtifactId <- Identifiers
    Volatile <- VolatilePaths
    Wanted <- WantedPaths
    LongPaths <- LongOnes
    MaxEntries = 6
    MaxData = 2
    MaxDepth = 2
    MaxLogs = 1
    ChunkLimit = 1
    MaxSize = 2
    ArtifactBudgets <- OneArtifactBudget
    Queries <- OneQuery
    EventKinds = {"start_failed", "stdout_tail"}
    EvidenceNodes = {"n1"}
    ScanLimit = 2
    SequenceBase = 8
    MaxLines = 1
    MaxAppendFaults = 0
    MaxCancels = 0
    MaxPolls = 0
INVARIANTS
    EveryLeaseHonoured
CHECK_DEADLOCK FALSE
