SPECIFICATION CleanupFairSpec
CONSTANTS
    Tombstones = {t1, t2}
    Rungs = 2
    Faults = 3
    Nobody = Nobody
INVARIANTS OwedToOne
PROPERTY BackoffEnds
