SPECIFICATION FairSpec
CONSTANTS
    Keys = {k1}
    Rungs = 2
    Faults = 2
INVARIANTS ClaimedIntact NothingLeftBehind EnqueuedNotForgotten
PROPERTY EnqueuedCleaned
