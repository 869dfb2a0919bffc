CONSTANTS
    None = None
    MaxMsg = 2
    MaxMount = 3
    Conv = {c1, c2}
    Key = {k1, k2}
    MaxWrite = 2
    Tab = {t1, t2}
    MaxId = 3
    MaxKey = 3
    Old = Old
    New = New
    Item = {i1}
    Value = {v}
    Pass = {p1, p2}
    MaxSalt = 2
    MaxFile = 1
    Device = {d1, d2}
    Stranger = Stranger
    Demo = {alice}
    Peer = {bob, carol}
    MaxRoot = 3
    MaxSend = 2
    Thread = {h1, h2}
    View = {s1, s2}
    MaxInput = 4
SPECIFICATION Spec
INVARIANTS
    TypeOK ShownIsSaved VerifiedByUser AddressStable ReadBack LinkedToCompared RosterShown
PROPERTY HistoryGrows
CHECK_DEADLOCK FALSE
