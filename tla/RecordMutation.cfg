SPECIFICATION MCSpec
CONSTANTS
    Requests = {r1, r2, r3}
    WritesEach = 2
    PlatformWrites = 1
    Caps = {"A", "B"}
    Fields = {"a1", "a2", "b"}
    CapOf <- MCCapOf
    Records = {"r", "s", "s2"}
    HomeOf <- MCHomeOf
    Required = {"b"}
    Texts = {"", "rose", "iris"}
    Blank = ""
INVARIANTS AllOrNothing NoForeignWrite LinkedShowsTarget RowsUnderRelations
PROPERTIES LeaseReturned RevivalKeepsTyped
\* Every request is answered, and the platform's writes are bounded.
CHECK_DEADLOCK FALSE
