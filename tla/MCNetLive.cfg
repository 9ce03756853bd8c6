SPECIFICATION FairSpec
CONSTANTS
    Conns = {c1}
    Keys = {self, bob}
    bob = bob
    Self = self
    NoPubKey = NoPubKey
    NoConn = NoConn
    NoNode = NoNode
    Listeners = {l1}
    SeedCount = 1
    IdealPeers = 1
    QueueCap = 1
    AddInputs <- MCNone
    KnownNodes <- MCKnownNodes
PROPERTIES
    ShutdownCompletes
    ClosedPeerLosesSlot
