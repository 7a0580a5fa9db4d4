\* A stop that arrives while the run is still starting.
SPECIFICATION Spec
CONSTANTS
    add = add
    remove = remove
    resource = resource
    signal = signal
    target = target
    role = role
    kill = kill
    generate = generate
    NoCommand = NoCommand
    Commands = {generate}
    Mcp = {}
    Timed = {}
    Kind <- FleetKind
    QueueCapacity = 1
    CorrelationCapacity = 1
    MaxForeign = 0
INVARIANTS
    StopAnswersEverything
