CONSTANTS
    None = None
    Member = {alice, eve}
    MaxMembers = 2
    MaxPush = 3
    MaxRoot = 2
    MaxSend = 2
    Identity = {i1, i2}
    PreKey = {k1, k2}
    MaxLinked = 2
    Peer = {n1, n2}
    Call = {c1, c2}
    MaxDial = 3
    Proc = {r1, r2}
    WsPort = {w1}
    MaxStart = 3
    MaxConn = 2
SPECIFICATION NetworkSpec
INVARIANTS
    KeysUsedOnce ReadersAreMembers MembersRead
    FromTheirOwner AnswersWereTrue NeverClearnet BridgeAsAsked
SYMMETRY Symmetry
CHECK_DEADLOCK FALSE
