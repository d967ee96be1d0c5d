SPECIFICATION Spec
CONSTANTS
    Threads = {t1, t2}
    Values = {a}
    NoValue = NoValue
    MinCapacity = 1
    Relaxed = FALSE
    MaxPushes = 3
INVARIANTS CapacityBound
