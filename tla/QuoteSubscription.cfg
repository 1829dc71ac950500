\* Channels of one socket, its answers twice and its reconnection.
CONSTANTS
    None = None
    Channels = {a, b}
    Cap = 1
    Headroom = 0
    MaxGen = 2
    MaxRepeats = 1
SPECIFICATION FairSpec
INVARIANTS
    WithinCap
    BeliefIsTrue
PROPERTIES
    NeededIsKept
    PendingSettles
