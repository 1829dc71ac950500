\* Every pending is released, though cancellations and inquiries fail.
CONSTANTS
    Orders <- MCTwoOrders
    Initial = 2
    Lot = 1
    Part = 1
    MaxFallbacks = 1
    MaxUnknown = 1
    MaxBuyKeep = 1
    OtherSignals <- MCNone
    Mishaps <- MCFails
SPECIFICATION FairSpec
PROPERTIES
    PendingEnds
CHECK_DEADLOCK FALSE
