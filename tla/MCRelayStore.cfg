CONSTANTS
    Recipient = {alice, bob}
    Envelope = {e1, e2, e3}
    Caller = {t1, t2}
    TTL = 1
    Nothing = Nothing
    MaxClock = 3
SYMMETRY Symmetry
SPECIFICATION Spec
INVARIANT OnePlace
PROPERTY TTLExact
CHECK_DEADLOCK FALSE
