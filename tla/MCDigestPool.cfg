CONSTANTS
    Callers = {c1, c2}
    NoCaller = NoCaller
    MaxParallelWorkers = 4
    Parallelism = 5
    WorkerCounts = {1, 2, 6}
    JobCounts = {2, 5}
    MaxCalls = 2
    MaxFailures = 1
SPECIFICATION PoolSpec
INVARIANTS
    BudgetConserved
    PoolBuiltOnce
    OkIsComplete
PROPERTIES
    CallsReturn
    NeverWaitsForWorkers
CHECK_DEADLOCK FALSE
