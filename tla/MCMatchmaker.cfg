SPECIFICATION Spec
CONSTANTS
  Players = {p1, p2}
  PartyIds = {c1, c2, c3}
  TicketIds = {t1, t2, t3}
  PendingMatchIds = {m1, m2}
  Method = "COUNTDOWN"
  Maps = {}
  AllowMemberDequeue = {p1}
  MinPlayers = 2
  MaxPlayers = 3
  MaxPartySize = 2
  MaxMessages = 1
  MaxPartyChanges = 1
  MaxRequests = 2
  FaultBudget = 1
SYMMETRY Ids
INVARIANTS
  NoOrphanQueuedPlayer
  PendingMatchesAgree
  MatchesHaveEnoughPlayers
  AnnouncedOnce
CHECK_DEADLOCK FALSE
