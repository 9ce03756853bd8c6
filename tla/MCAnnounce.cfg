SPECIFICATION FairSpec
CONSTANTS
    Addrs = {a1}
    NoAddr = NoAddr
    Owners = {o1, o2}
    ZeroOwner = ZeroOwner
    Channels = {iden, core}
    Identity = iden
    Handlers = {h1}
    Public = NoAddr
    UseReflector = TRUE
    QueueCap = 1
    Nothing = Nothing
    MaxBinds = 2
    MaxFaults = 1
    MaxCrashes = 1
INVARIANTS
    TypeOK
    TimerIsArmed
    AnnouncedIsCurrent
    OwnerIsStored
    SentIsStored
PROPERTIES
    SendsCurrent
    ChangesAreAnnounced
    HandlersGetThrough
\* Run returns once the context is cancelled.
CHECK_DEADLOCK FALSE
