SPECIFICATION SpecBoth
CONSTANTS
    sumo1 = sumo1
    sumo2 = sumo2
    tower = tower
    None = None
    Games = {sumo1, sumo2, tower}
    Mode <- SomeMode
    Players = {"alice"}
    MaxSent = 3
    MaxUpdates = 2
    MaxUnread = 2
    MaxFailures = 1
SYMMETRY Symmetry
CHECK_DEADLOCK FALSE
INVARIANTS
    TypeOK
    AsSent
    FieldsAsSent
PROPERTIES
    FinishedStaysFinished
