\* The check before a buy's POST against the recording of another's lost answer.
CONSTANTS
    Bot = Bot
    Operator = Operator
    Nobody = Nobody
    k1 = k1
    k2 = k2
    o1 = o1
    NoOdno = NoOdno
    Procs <- MCProcs
    Keys <- MCKeys
    Odnos <- MCOdnos
    Quantity <- MCOneShare
    OrderDate <- MCOwnNumbers
    Kinds <- MCTwoBuys
    MaxSessions = 1
    MaxDay <- MCOneDay
SPECIFICATION SubmissionSpec
PROPERTIES
    NoBuyPastUnknownBuy
