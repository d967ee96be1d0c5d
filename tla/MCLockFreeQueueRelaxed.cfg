SPECIFICATION Spec
CONSTANTS
    Threads = {t1, t2}
    Values = {a, b}
    NoValue = NoValue
    MinCapacity = 2
    Relaxed = TRUE
    MaxPushes = 4
SYMMETRY ThreadSymmetry
INVARIANTS NoSlotRace RingInv
PROPERTIES ImplementsBoundedFifo
