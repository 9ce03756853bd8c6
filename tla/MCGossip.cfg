SPECIFICATION FairSpec
CONSTANTS
    o = o
    a1 = a1
    b1 = b1
    Nodes = {o, a1, b1}
    Origin = o
    Edges <- Triangle
    NoRow = NoRow
    MaxAge = 1
    NodeDays = 1
    QueueCap = 1
    MaxVersions = 2
INVARIANTS
    TypeOK
    RecordsAgeOut
PROPERTIES
    LeftNodeIsForgotten
