CONSTANTS
    Identity = {alice, bob}
    PerMinute = 2
    WindowArg = 2
    NoBucket = NoBucket
    MaxClock = 5
SYMMETRY Symmetry
SPECIFICATION Spec
INVARIANTS SlidingBudget RefusalJustified
CHECK_DEADLOCK FALSE
