\* One order for two shares: executed in parts, cancelled, synchronised.
CONSTANTS
    Bot = Bot
    Operator = Operator
    Nobody = Nobody
    k1 = k1
    k2 = k2
    o1 = o1
    NoOdno = NoOdno
    Procs <- MCProcs
    Keys <- MCOneKey
    Odnos <- MCOdnos
    Quantity <- MCShares
    OrderDate <- MCOneDay
    MaxSessions = 1
    Attempts = 1
    MaxFills = 2
    Disturbances <- MCAll
SPECIFICATION FairHandoffSpec
INVARIANTS
    HeldAtMostExecuted
    IdleMeansSettled
    ProcessedOnce
    CleanEndMeansDelivered
    NoShareLost
PROPERTIES
    HandoffsEnd
