\* One I/O error, one crash and a pool of one connection, so error returns,
\* panics and pool timeouts interleave with the other task.  Two profile
\* keys: the default profile's and one create_profile (or a re-create after
\* remove_profile).  The create race of CacheEntriesGenuine needs a third
\* key and is checked in MCOdbcProfiles.cfg.
CONSTANTS
    p1 = p1  p2 = p2  n1 = n1  n2 = n2  k1 = k1  k2 = k2
    NoEntry = NoEntry
    Procs <- MCProcs
    Names <- MCNames
    DefaultName = n1
    StoreKeys <- MCStoreKeys
    InitStoreKey = k1
    MaxIds = 2
    MaxKeys = 2
    MaxFailures = 1
    MaxCrashes = 1
    PoolSize = 1

SPECIFICATION Spec
SYMMETRY MCSymmetry

INVARIANTS TypeOK
PROPERTIES RekeyConfigLast ProfileKeysRefined
