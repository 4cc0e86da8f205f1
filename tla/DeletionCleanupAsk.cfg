SPECIFICATION AskSpec
CONSTANTS
    Tombstones = {t1, t2}
    Rungs = 2
    Faults = 0
    Nobody = Nobody
PROPERTY AskHonoured
