SPECIFICATION FairSpec
CONSTANTS
  Players = {p1, p2}
  PartyIds = {c1, c2}
  TicketIds = {t1, t2}
  PendingMatchIds = {m1, m2}
  Method = "COUNTDOWN"
  Maps = {}
  AllowMemberDequeue = {p1}
  MinPlayers = 2
  MaxPlayers = 2
  MaxPartySize = 2
  MaxMessages = 1
  MaxPartyChanges = 1
  MaxRequests = 1
  FaultBudget = 0
CONSTRAINT OneNaming
PROPERTIES
  PendingMatchResolves
  TicketIsPlaced
  DequeuedTicketLeaves
CHECK_DEADLOCK FALSE
