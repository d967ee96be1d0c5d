SPECIFICATION Spec
CONSTANTS
    Workers = {w1, w2}
    Submitters = {s1}
    NoTask = NoTask
    Priorities = {1, 2}
    MaxTasks = 2
    MaxWaiting = 1
    ResultThrows = TRUE
INVARIANTS NoWorkerKilled
