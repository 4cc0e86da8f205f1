SPECIFICATION Spec
CONSTANTS
    Builds = {b1, b2}
    Capabilities = {c1, c2}
    NoBuild = NoBuild
    Crashes = 2
INVARIANT BootServes
\* Every build is made once: the behaviour ends when all are used and no deletion or crash is left.
CHECK_DEADLOCK FALSE
