SPECIFICATION LiveSpec
CONSTANTS
    Threads = {t1, t2}
    Values = {a}
    NoValue = NoValue
    MinCapacity = 2
    Relaxed = FALSE
    MaxPushes = 4
PROPERTIES RefusalsTruthful EveryCallReturns
