SPECIFICATION LiveSpec
CONSTANTS
    Producers = {p1, p2}
    Flushers = {f1}
    NumSinks = 2
    Capacity = 2
    Policies = {"block", "drop"}
    MaxRecords = 2
    MaxFlushes = 1
    MaxFailures = 1
INVARIANTS PumpInv WrittenOnReturn NoSilentLoss
PROPERTIES CallsReturn
