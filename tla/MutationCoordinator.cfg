CONSTANTS
    Builds = {b1, b2}
    Platforms = {p1}
    Records = {r1}
    Deletions = {d1}
    NoOne = NoOne
SPECIFICATION FairSpec
CHECK_DEADLOCK FALSE
INVARIANTS
    NoLostWakeup
    Fifo
PROPERTIES
    LeaseImplemented
    Served
