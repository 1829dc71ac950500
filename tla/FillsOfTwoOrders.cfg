\* Two orders of one symbol: a buy against another's unresolved cancellation.
CONSTANTS
    Bot = Bot
    Operator = Operator
    Nobody = Nobody
    k1 = k1
    k2 = k2
    o1 = o1
    NoOdno = NoOdno
    Procs <- MCProcs
    Keys <- MCTwoKeys
    Odnos <- MCOdnos
    Quantity <- MCTwoAndOne
    OrderDate <- MCOwnDays
    MaxSessions = 1
    Attempts = 0
    MaxFills = 2
    Disturbances <- MCNone
SPECIFICATION HandoffSpec
PROPERTIES
    NoBuyOverUnresolvedCancel
