SPECIFICATION Spec
CONSTANTS
    Conns = {c1, c2}
    Keys = {self, bob}
    bob = bob
    Self = self
    NoPubKey = NoPubKey
    NoConn = NoConn
    NoNode = NoNode
    Listeners = {}
    SeedCount = 1
    IdealPeers = 1
    QueueCap = 1
    AddInputs <- MCAddInputs
    KnownNodes <- MCKnownNodes
SYMMETRY ConnSymmetry
INVARIANTS
    TypeOK
    NotConnectedToSelf
PROPERTIES
    RegistrySpec
