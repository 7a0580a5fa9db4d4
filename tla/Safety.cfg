\* Two simulators and three runs sharing a cgroup scope; one node network with two faults; two
\* run roots over three starts; a retained history that fills up; two calls
\* of a session that share a history of one record, where a call evicts the
\* operation of the other and joins its worker, or cancels it, while the session
\* is removed or the service is shut down.
SPECIFICATION Spec
CONSTANTS
    Simulators = {p1, p2}
    Runs = {r1, r2, r3}
    NoRun = NoRun
    NoSimulator = NoSimulator
    MaxScopeFaults = 1
    MaxScopeCrashes = 2
    MaxIndex = 3
    MaxNetFaults = 2
    MaxForeign = 1
    Bands = {b1, b2}
    RunIds = {i1, i2}
    MaxRoots = 2
    MaxStarts = 3
    MaxRootFaults = 1
    MaxRootCrashes = 1
    TargetLists <- TLists
    HistRounds <- Rounds
    LegacyDocuments <- Legacies
    DocumentLimit = 12
    SafetyMargin = 2
    JsonOverhead = 2
    MeasurementLimit = 3
    RevisionLimit = 6
    MaxHistStarts = 2
    MaxHistRounds = 1
    MaxHistFaults = 1
    s1 = s1
    Nobody = Nobody
    Ops = {o1, o2}
    Sessions = {s1}
    Requests = {q1, q2}
    MaxRetained = 1
    MaxTasks = 1
    MaxSessions = 1
    ServiceBudgets <- ServiceBudgetChoices
    SessionOf <- CallerOf
INVARIANTS
    ScopeCorrect
    NetworkCorrect
    RootsCorrect
    HistoryCorrect
    ServiceHistoryCorrect
PROPERTIES
    ForeignIsKept
CHECK_DEADLOCK FALSE
