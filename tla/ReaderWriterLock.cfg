SPECIFICATION LiveSpec
CONSTANTS
    Threads = {t1, t2, t3, t4}
INVARIANTS LockInv NoneStranded
PROPERTIES ImplementsPolicy WritersRun
