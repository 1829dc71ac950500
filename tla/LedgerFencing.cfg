\* Safety of the execution ledger: two writers fence each other, crash, close
\* and acknowledge in every order; and the executions of two orders, in every
\* cutting of their cumulative reports.
CONSTANTS
    p1 = p1
    p2 = p2
    k1 = k1
    k2 = k2
    o1 = o1
    o2 = o2
    NoOdno = NoOdno
    Procs <- MCProcs
    Keys <- MCTwoKeys
    Odnos <- MCOdnos
    Quantity <- MCTwoAndOne
    OrderDate <- MCOrderDate
    MaxSessions = 2
SPECIFICATION Spec
SYMMETRY MCSymmetry
INVARIANTS
    TypeOK
    NoUnreportedPast
    CleanMeansSettled
    OdnoNamesOneOrder
    SharesHandedOnce
PROPERTIES
    PastIsFrozen
    HistoryOnlyGrows
    ImplementsShareDelivery
