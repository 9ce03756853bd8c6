SPECIFICATION FairSpec
CONSTANTS
    Conns = {c1, c2}
    QueueCap = 1
    Other = Other
    MaxVersion = 2
    MaxFaults = 1
    MaxOthers = 1
INVARIANTS
    TypeOK
    FirstIsAnnouncement
    AnnouncementNotMissed
PROPERTIES
    PeersHearCurrent
    ExchangeSpec
