SPECIFICATION Spec
CONSTANTS
    Builds = {b1, b2, b3, b4}
    Capabilities = {c1, c2}
    NoBuild = NoBuild
    Crashes = 3
SYMMETRY Symmetric
INVARIANTS HistoryIntact RowsTellHistory OnlyTornRefuses
\* Every build is made once: the behaviour ends when all are used and no deletion or crash is left.
CHECK_DEADLOCK FALSE
