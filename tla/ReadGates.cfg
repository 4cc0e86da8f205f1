CONSTANTS
    i1 = i1
    i2 = i2
    i3 = i3
    a = a
    b = b
    Incarnations = {i1, i2, i3}
    CapabilityOf <- MCCapabilityOf
    Readers = {r1, q1}
    Questions = {q1}
    StepBudget = 1
    Closers = {c1, c2}
    NoOne = NoOne
SPECIFICATION QuestionFairSpec
INVARIANTS
    NoReaderOfDropped
    NoThreadLeft
PROPERTIES
    RowsOwned
    ClosingEnds
    ToldLetsGo
