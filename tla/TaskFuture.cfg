SPECIFICATION LiveSpec
CONSTANTS
    Values = {v1, v2}
    Errors = {e1}
    Broken = Broken
    BadAccess = BadAccess
    NoOutcome = NoOutcome
    PayloadThrows = TRUE
INVARIANTS StateInv
PROPERTIES ImplementsHandoff GetReturns
