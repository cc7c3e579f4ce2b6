SPECIFICATION FairSpec
CONSTANTS
  Players = {p1, p2, p3}
  PartyIds = {c1, c2, c3}
  TicketIds = {t1, t2, t3}
  PendingMatchIds = {m1, m2}
  Method = "COUNTDOWN"
  Maps = {}
  AllowMemberDequeue = {p1}
  MinPlayers = 1
  MaxPlayers = 2
  MaxPartySize = 1
  MaxMessages = 0
  MaxPartyChanges = 0
  MaxRequests = 1
  FaultBudget = 0
INVARIANT
  TicketsPlacedOnce
CHECK_DEADLOCK FALSE
