\* Two connections to one worker thread, two sessions and a late third;
\* two calls in hand of one session, or its streams with two notes.
SPECIFICATION FairSpec
CONSTANTS
    Connections = {c1, c2}
    Workers = {w1}
    QueueCapacity = 1
    MaxEndpointFaults = 1
    MaxLaunches = 2
    MaxReplaced = 1
    Ids = {s1, s2, s3}
    Keys = {k1}
    MaxSessions = 2
    MaxCalls = 3
    NoId = NoId
    MaxNotes = 2
    MaxStreams = 1
    MaxEnqueued = 3
    MaxOpened = 2
    Slots = {1, 2}
    ToolCount = 3
    PageSize = 2
INVARIANTS
    EndpointCorrect
    SessionsCorrect
    RequestsCorrect
PROPERTIES
    ClientsAreLetGo
CHECK_DEADLOCK FALSE
