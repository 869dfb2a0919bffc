CONSTANTS
    None = None
    Width = 12
    MaxTarget = 3
    MaxPair = 14
    Party = {p, q}
    MaxBob = 2
    MaxAlice = 2
    MaxSent = 2
    Device = {1, 2}
    Identity = {i1, i2}
    MaxList = 2
    MaxEpoch = 2
    MaxCall = 2
    Opener = {o1, o2}
    Key = {k1, k2}
    Value <- MCValue
    Raw <- MCRaw
    Item = {x, y}
    MaxRequest = 4
SPECIFICATION CoreSpec
INVARIANTS
    CoreTypeOK NeverHandedAgain SentToMeOnce RefusedForAReason RemovedIsOut OpenStoreIsWhole
    OkIsStored DecodersAgree ReadsWhatWasWritten WorkIsLeadingZeros
CHECK_DEADLOCK FALSE
