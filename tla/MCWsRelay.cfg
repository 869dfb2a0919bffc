CONSTANTS
    Conn = {c1, c2}
    Identity = {alice}
    PerMinute = 2
    WindowArg = 1
    NoBucket = NoBucket
    PrekeyTTL = 0
    EnvelopeTTL = 0
    Nothing = Nothing
    MaxClock = 1
    MaxMsg = 2
    MaxChallenge = 2
SPECIFICATION FairSpec
INVARIANTS PaidOnce AtMostOnce FailClosed
PROPERTIES WindowsDisjoint StoresRefined EveryRequestAnswered
