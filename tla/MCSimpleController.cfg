SPECIFICATION FairSpec
CONSTANTS
  Players = {p1, p2, p3}
  PlayersPerMatch = 2
INVARIANTS
  TypeOK
  PlacedOnce
  MatchesFilled
PROPERTIES
  RefinesDispatch
  QueuedPlayerIsMatched
