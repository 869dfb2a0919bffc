CONSTANTS
    Op = {w1, l1, p1}
    Write = {w1}
    Lookup = {l1}
    None = None
    Sequential = TRUE
    MaxSock = 4
    Url = {u1, u2}
    Burst = 2
    MaxGen = 3
    MaxSession = 5
SPECIFICATION WebSpec
PROPERTY SessionFollows
CHECK_DEADLOCK FALSE
