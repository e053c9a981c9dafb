SPECIFICATION Spec
CONSTANTS
    Base = 4
    PrefixLen = 2
    Byte = {0, 1}
    MaxLen = 6
    MaxLost = 5
INVARIANTS
    RoundTrip
    GivenUpNotServed
CHECK_DEADLOCK FALSE
