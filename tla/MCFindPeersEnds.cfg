SPECIFICATION Spec
CONSTANTS
    Conns = {c1, c2}
    Keys = {self, bob}
    bob = bob
    Self = self
    NoPubKey = NoPubKey
    NoConn = NoConn
    NoNode = NoNode
    Listeners = {l1}
    SeedCount = 0
    IdealPeers = 1
    QueueCap = 1
    AddInputs <- MCNone
    KnownNodes <- MCOnlyBob
INVARIANT
    FindPeersKeepsRunning
