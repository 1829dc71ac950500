\* Two orders of one symbol, two shares, buys of one: cancellations and inquiries
\* fail and the symbol may become exempt.
CONSTANTS
    Orders <- MCTwoOrders
    Initial = 2
    Lot = 1
    Part = 1
    MaxFallbacks = 2
    MaxUnknown = 1
    MaxBuyKeep = 1
    OtherSignals <- MCBuy
    Mishaps <- MCAll
SPECIFICATION Spec
PROPERTIES
    NoFallbackOverLive
CHECK_DEADLOCK FALSE
