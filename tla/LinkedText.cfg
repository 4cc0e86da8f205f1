SPECIFICATION LinkSpec
CONSTANTS
    Caps = {"A", "B"}
    Fields = {"a1", "a2", "b", "d"}
    CapOf <- MCCapOf
    Records = {"r", "s"}
    HomeOf <- MCHomeOf
    Required = {"a1", "a2", "b", "d"}
    Texts = {"", "rose", "iris"}
    Blank = ""
INVARIANT LinkedShowsTarget
