\* The ledger slot, its stale release, late answers and refusals.
CONSTANTS
    Nobody = Nobody
    t1 = t1
    t2 = t2
    t3 = t3
    Tasks <- MCTasks
    Tr <- MCTr
    Gap <- MCGap
    LedgerGap = 3
    MaxRps = 2
    Window = 2
    MinGap = 1
    Poll = 1
    Pause = 2
    LedgerPause = 4
    Timeout = 7
    Rounds <- MCRounds
SPECIFICATION FairLimitSpec
INVARIANTS
    LedgerSerial
PROPERTIES
    LedgerRests
    EveryRequestIsSent
