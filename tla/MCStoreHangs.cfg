SPECIFICATION FairSpec
CONSTANTS
    Keys = {k1, k2}
    k1 = k1
    k2 = k2
    p1 = p1
    p2 = p2
    core = core
    Payloads = {p1, p2}
    Chans = {core}
    ChansOf <- TwoPayloads
    NoRow = NoRow
    NodeDays = 1
    ChanDays = 1
    c1 = c1
    c2 = c2
    Callers = {c1, c2}
    CallsOf <- PeerAndOthers
    NoCall = NoCall
    Free = Free
    Limit = 2
    FirstDay = 1
    MaxDay = 1
PROPERTIES
    ConflictsReturn
