\* Three reservations of two processes, two months, crashes and an operator.
CONSTANTS
    Tokens <- MCTokens
    Procs <- MCProcs
    Limit = 2
    Sizes <- MCSizes
    LastMonth = 2
    Overrun = 1
SPECIFICATION Spec
INVARIANTS
    ChargesWithinLimit
    LiveIsReserved
