SPECIFICATION FairSpec
CONSTANTS
    Addrs = {a1}
    NoAddr = NoAddr
    Owners = {o1, o2}
    ZeroOwner = ZeroOwner
    Channels = {iden, core}
    Identity = iden
    Handlers = {h1}
    Public = a1
    UseReflector = FALSE
    QueueCap = 1
    Nothing = Nothing
    MaxBinds = 1
    MaxFaults = 0
    MaxCrashes = 0
PROPERTY
    ChannelsAreAnnounced
\* Run returns once the context is cancelled.
CHECK_DEADLOCK FALSE
