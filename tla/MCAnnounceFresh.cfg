SPECIFICATION Spec
CONSTANTS
    Addrs = {a1, a2}
    NoAddr = NoAddr
    Owners = {o1, o2}
    ZeroOwner = ZeroOwner
    Channels = {iden, core}
    Identity = iden
    Handlers = {h1}
    Public = a1
    UseReflector = FALSE
    QueueCap = 2
    Nothing = Nothing
    MaxBinds = 1
    MaxFaults = 0
    MaxCrashes = 1
INVARIANT
    AnnouncementIsStored
\* Run returns once the context is cancelled.
CHECK_DEADLOCK FALSE
