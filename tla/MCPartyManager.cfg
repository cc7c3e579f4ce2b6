SPECIFICATION Spec
CONSTANTS
    p1 = p1
    p2 = p2
    p3 = p3
    e1 = e1
    None = None
    Players = {p1, p2, p3}
    EventIds = {e1}
    StoredSettings = {p1}
    MaxIds = 8
    MaxCalls = 1
    MaxConnections = 1
    MaxInvites = 1
    MaxFailures = 1
SYMMETRY Others
VIEW WithoutIds
CONSTRAINT EventsApart
INVARIANTS
    TypeOK
    PlayersHaveParties
    ListenersAgree
    EventPartyMatches
    EventsStart
