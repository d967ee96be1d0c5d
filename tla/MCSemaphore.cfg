SPECIFICATION LiveSpec
CONSTANTS
    Threads = {t1, t2, t3, t4}
    Initial = 1
    Updates <- MCUpdates
    MaxCount = 3
INVARIANTS UnitsInv
PROPERTIES SleepersServed
