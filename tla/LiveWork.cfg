\* Two workloads with two controls or one with three, loads of two to three transactions, and
\* two instrumentation windows.
SPECIFICATION FairSpec
CONSTANTS
    Workloads = {1, 2}
    Wallets = {a1, a2}
    Targets = {1}
    MaxRetained = 2
    Companions = {"wallet"}
    MaxControls = 3
    MaxJointControls = 2
    MaxWorkloadFaults = 1
    Senders = {1, 2}
    Threads = {1, 2}
    Setups <- LoadSetups
    n1 = n1
    n2 = n2
    c1 = c1
    c2 = c2
    Nodes = {n1, n2}
    CounterConfigs = {c1, c2}
    Unsupported = {}
    FirstConfig = c1
    WindowRequests <- WindowRequestChoices
    Ops = {o1, o2}
    MaxWindows = 2
    MaxRevisions = 2
    MaxCalls = 2
    MaxQuietCalls = 3
    MaxCommands = 1
    MaxInstFaults = 1
INVARIANTS
    WorkloadsCorrect
    LoadCorrect
    InstrumentationCorrect
PROPERTIES
    WorkSettles
CHECK_DEADLOCK FALSE
