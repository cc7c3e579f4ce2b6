SPECIFICATION Spec
CONSTANTS
    p1 = p1
    p2 = p2
    s1 = s1
    s2 = s2
    Players = {p1, p2}
    Contacts <- SomeContacts
    Slots = {s1, s2}
    MaxFailures = 1
SYMMETRY Symmetry
INVARIANTS
    TypeOK
    FriendsConsented
    FriendsUnblocked
    OneDocument
    RequestsSettled
    ListenersAgree
