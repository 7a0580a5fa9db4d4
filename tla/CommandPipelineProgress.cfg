\* Progress of a resource change awaited over MCP and an operator's kill.
SPECIFICATION FairSpec
CONSTANTS
    add = add
    remove = remove
    resource = resource
    signal = signal
    target = target
    role = role
    kill = kill
    generate = generate
    NoCommand = NoCommand
    Commands = {resource, kill}
    Mcp = {resource}
    Timed = {resource}
    Kind <- FleetKind
    QueueCapacity = 1
    CorrelationCapacity = 1
    MaxForeign = 0
PROPERTIES
    CommandsProgress
