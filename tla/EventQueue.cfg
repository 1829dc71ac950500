\* A queue that overflows, its loop and the tasks that fill it.
CONSTANTS
    None = None
    Capacity = 2
    Batch = 2
    MaxStamp = 5
SPECIFICATION FairSpec
INVARIANTS
    OverflowIsCritical
PROPERTIES
    CriticalKept
    NoSignalBeforeOrder
    CriticalTaken
CHECK_DEADLOCK FALSE
