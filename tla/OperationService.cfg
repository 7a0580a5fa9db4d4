\* One session with a subscription and an operation, under four budgets: a worker
\* that reports its progress to a handler that throws once, and a removal that
\* times out and is tried again; evidence and a handler that throws; evidence and
\* a removal; two calls, one of which may cancel what the other submitted.
SPECIFICATION ServiceFairSpec
CONSTANTS
    s1 = s1
    q1 = q1
    q2 = q2
    Nobody = Nobody
    Ops = {o1}
    Sessions = {s1}
    Requests = {q1, q2}
    MaxRetained = 1
    MaxTasks = 1
    MaxSessions = 1
    ServiceBudgets <- ServiceBudgetChoices
    SessionOf <- CallerOf
INVARIANTS
    ServiceDeliveryCorrect
PROPERTIES
    ServiceProgress
