CONSTANTS
    p1 = p1  p2 = p2  n1 = n1  n2 = n2  k1 = k1  k2 = k2
    NoEntry = NoEntry
    Procs <- MCProcs
    Names <- MCNames
    DefaultName = n1
    StoreKeys <- MCStoreKeys
    InitStoreKey = k1
    MaxIds = 3
    MaxKeys = 3
    MaxFailures = 0
    MaxCrashes = 0
    PoolSize = 2

SPECIFICATION Spec
SYMMETRY MCSymmetry

PROPERTY RemoveReportsDeletion
