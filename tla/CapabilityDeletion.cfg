CONSTANTS
    i1 = i1
    i2 = i2
    i3 = i3
    a = a
    b = b
    f1 = f1
    f3 = f3
    Incarnations = {i1, i2, i3}
    CapabilityOf <- MCCapabilityOf
    Files = {f1, f3}
    OwnerOf <- MCOwnerOf
    Readers = {r1}
    Closers = {c1}
    NoOne = NoOne
    Builder = Builder
    Supervisor = Supervisor
SPECIFICATION FairSpec
INVARIANTS
    DependenciesActive
    OneIntactLife
    NothingRemains
PROPERTIES
    GatesRespected
    LeaseReturned
