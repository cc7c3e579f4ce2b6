SPECIFICATION Spec
CONSTANTS
    p1 = p1
    p2 = p2
    p3 = p3
    None = None
    Players = {p1, p2, p3}
    EventIds = {}
    StoredSettings = {}
    MaxIds = 8
    MaxCalls = 2
    MaxConnections = 1
    MaxInvites = 1
    MaxFailures = 0
SYMMETRY Symmetry
CONSTRAINT NobodyDisconnects
INVARIANTS
    PlayersHaveParties
