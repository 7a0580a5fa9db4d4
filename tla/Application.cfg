\* Runs of the application in the scenarios the module lists, and RPC calls.
SPECIFICATION FairSpec
CONSTANTS
    Requests = {"q1", "q2"}
    LiveBudgets <- LiveBudgetChoices
    first = first
    second = second
    Calls = {first, second}
    Sockets = {s1, s2}
    OfferedLists <- Lists
    RpcSetups <- RpcSetupChoices
INVARIANTS
    ApplicationCorrect
    RpcCorrect
PROPERTIES
    RunsSettle
CHECK_DEADLOCK FALSE
