\* A node mutation awaited over MCP with a deadline and a role change queued by the
\* operator, in a queue of one place: cancellation, commit, deadline, shutdown.
SPECIFICATION Spec
CONSTANTS
    add = add
    remove = remove
    resource = resource
    signal = signal
    target = target
    role = role
    kill = kill
    generate = generate
    NoCommand = NoCommand
    Commands = {add, role}
    Mcp = {add}
    Timed = {add}
    Kind <- FleetKind
    QueueCapacity = 1
    CorrelationCapacity = 1
    MaxForeign = 1
INVARIANTS
    TypeOK
    CancelledIsNeverPublished
    DefiniteOutcomeIsTrue
    DefiniteAnswerIsTrue
    OneOutcomeEach
    AnsweredInOrder
    CommittedSuccessIsRecorded
PROPERTIES
    ImplementsContract
