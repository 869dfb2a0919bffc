CONSTANTS
    Op = {p1, p2, p3, l1, s1}
    Write = {s1}
    Lookup = {l1}
    None = None
    Sequential = FALSE
    MaxSock = 2
    Envelope = {good, forged}
    Forged = {forged}
SPECIFICATION Spec
INVARIANTS RenderedOnce
CHECK_DEADLOCK FALSE
