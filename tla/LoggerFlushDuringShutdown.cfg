SPECIFICATION Spec
CONSTANTS
    Producers = {p1}
    Flushers = {f1}
    NumSinks = 1
    Capacity = 1
    Policies = {"block", "drop"}
    MaxRecords = 1
    MaxFlushes = 1
    MaxFailures = 0
INVARIANTS FlushMeansWritten
