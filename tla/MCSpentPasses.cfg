SPECIFICATION SpentSpec
CONSTANTS
    Passes = {p1, p2, p3}
    COMPACT_AFTER = 2
    MaxFaults = 3
INVARIANTS
    AckedIsSpent
PROPERTIES
    TearIsRepaired
    ImplementsSpentList
