CONSTANTS
    Incarnations = {c1}
    Requests = {r1, r2}
    MaxAttempts = 2
    Free = Free
    Build = Build
    NoOne = NoOne
SPECIFICATION FairSpec
INVARIANTS
    OneDrawing
    OneFace
    NeverBlocked
    NothingRecreated
PROPERTIES
    AttemptsEnd
