\* Two orders of one symbol, sent by coroutines that interleave, over the end
\* and the restart of the run: two buys, or a partial and a protective sell.
CONSTANTS
    Bot = Bot
    Operator = Operator
    Nobody = Nobody
    k1 = k1
    k2 = k2
    o1 = o1
    NoOdno = NoOdno
    Procs <- MCProcs
    Keys <- MCKeys
    Odnos <- MCOdnos
    Quantity <- MCOneShare
    OrderDate <- MCOwnNumbers
    Kinds <- MCPairs
    MaxSessions = 3
    MaxDay <- MCDays
SPECIFICATION SubmissionSpec
INVARIANTS
    SnapshotIsCurrent
    BotIsNeverFenced
    HoldIsSound
    SentAtMostOnce
PROPERTIES
    FaultNeverEndsClean
    UsesHistory
    IntentBeforePost
    NoPostAfterCleanEnd
    BookHolds
    NoBuyOverLostBuy
