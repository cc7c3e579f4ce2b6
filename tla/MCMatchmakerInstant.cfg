SPECIFICATION Spec
CONSTANTS
  p1 = p1
  p2 = p2
  p3 = p3
  p4 = p4
  Players = {p1, p2, p3, p4}
  PartyIds = {c1, c2}
  TicketIds = {t1, t2, t3}
  PendingMatchIds = {m1, m2}
  Method = "INSTANT"
  Maps = {a1, a2}
  AllowMemberDequeue = {p1, p2, p3, p4}
  MinPlayers = 2
  MaxPlayers = 3
  MaxPartySize = 3
  MaxMessages = 0
  MaxPartyChanges = 0
  MaxRequests = 1
  FaultBudget = 0
SYMMETRY PlayersAndIds
INVARIANT
  TypeOK
PROPERTIES
  MapsFollowVotes
  ImplementsMatchQueue
CHECK_DEADLOCK FALSE
