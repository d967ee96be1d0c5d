SPECIFICATION LiveSpec
CONSTANTS
    Workers = {w1, w2}
    Submitters = {s1}
    NoTask = NoTask
    Priorities = {1, 2}
    MaxTasks = 3
    MaxWaiting = 1
    ResultThrows = TRUE
INVARIANTS PoolInv StartOrder DrainedWhenDown
PROPERTIES FuturesSettle ShutdownReturns
