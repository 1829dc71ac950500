\* Nothing fails: two partial sells of the same shares are live at once.
CONSTANTS
    Orders <- MCTwoOrders
    Initial = 2
    Lot = 1
    Part = 1
    MaxFallbacks = 2
    MaxUnknown = 1
    MaxBuyKeep = 1
    OtherSignals <- MCNone
    Mishaps <- MCNone
SPECIFICATION Spec
PROPERTIES
    NoPartialOverLive
CHECK_DEADLOCK FALSE
