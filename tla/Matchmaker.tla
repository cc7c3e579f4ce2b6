----------------------------- MODULE Matchmaker -----------------------------
(***************************************************************************)
(* The queue of one game mode: the gRPC handlers that create and mark      *)
(* tickets and take votes for maps (matchmaker/internal/service), the      *)
(* consumer of the party topic (internal/kafka) and the director           *)
(* (internal/director), which makes matches of the tickets at once         *)
(* (INSTANT), or pending matches that become matches when their countdown  *)
(* has passed (COUNTDOWN).  They share three Mongo collections; every      *)
(* repository call is one atomic step and the others run between any two   *)
(* of them.                                                                *)
(*                                                                         *)
(* Ids are ObjectIDs, never used twice: an id that nothing names any more  *)
(* may stand for a new one, which keeps the instances finite.              *)
(***************************************************************************)
EXTENDS Integers, Sequences, FiniteSets, Functions, Countdown, Instant, MapVotes

CONSTANTS Players,
          PartyIds, TicketIds, PendingMatchIds,  \* pools of object ids
          Method,              \* MatchmakerInfo.MatchMethod of the game mode
          Maps,                \* GameModeConfig.Maps, none when it has no maps
          AllowMemberDequeue,  \* leaders whose settings let members dequeue
          MaxPartySize,        \* PartyRestrictions.MaxSize of the game mode
          MaxMessages,         \* bound: unread messages of the party topic
          MaxPartyChanges,     \* bound: membership changes of a behaviour
          MaxRequests,         \* bound: QueueByPlayer calls under way at once
          FaultBudget          \* bound: failed calls and crashes of a behaviour

ASSUME MatchmakerAssumption == /\ Method \in {"COUNTDOWN", "INSTANT"}
                               /\ IsFiniteSet(Players)
                               /\ MaxPartySize \in Nat /\ MaxPartySize <= MaxPlayers
                               /\ AllowMemberDequeue \subseteq Players
                               /\ {MaxMessages, MaxPartyChanges, MaxRequests, FaultBudget} \subseteq Nat

VARIABLES
    parties,         \* party id |-> [leader, members], kept by the party service
    partyChanges,    \* how often they changed
    topic,           \* messages of the party topic the consumer has not handled
    requests,        \* player |-> a QueueByPlayer call under way for him
    tickets,         \* collection ticket: id |-> document
    queuedPlayers,   \* collection queuedPlayer: player |-> ticket id
    votes,           \* mapId of the queued players who have voted
    pendingMatches,  \* collection pendingMatch: id |-> its bag of ticket ids
    due,             \* the pending matches whose teleport time has passed
    pc,              \* the repository call the director makes next
    batch,           \* what processDequeues read: [delete, reset, players]
    ticketMap,       \* what runMatchFunction read: ticket id |-> document
    plan,            \* what the match function answered
    announced,       \* tickets that a MatchCreated message named
    faults           \* failed calls and crashes so far

serviceVars == <<parties, partyChanges, topic>>
queued == <<queuedPlayers, votes>>
storeVars == <<tickets, queued, pendingMatches, due>>
directorVars == <<pc, batch, ticketMap, plan>>
vars == <<serviceVars, requests, storeVars, directorVars, announced, faults>>

Empty == [x \in {} |-> x]
Without(f, S) == [x \in DOMAIN f \ S |-> f[x]]
Overlay(f, g) == [x \in DOMAIN f \cup DOMAIN g |-> IF x \in DOMAIN f THEN f[x] ELSE g[x]]

NoBatch == [delete |-> {}, reset |-> {}, players |-> {}]
NoPlan == [flags |-> Empty, updated |-> Empty, created |-> Empty, matches |-> Empty,
           maps |-> Empty, removing |-> {}]

Calls == {"readDequeues", "deleteMarked", "pullMarked", "resetRemovals", "deletePlayers",
          "readTickets", "cancel", "update", "create", "deleteFinished", "flag",
          "maps", "announce", "deleteTickets", "deleteMatched"}

Party == [leader : Players, members : SUBSET Players]

\* Every player is in exactly one party, which its leader is a member of.
PartiesOK ==
    /\ \A c \in DOMAIN parties : parties[c].leader \in parties[c].members
    /\ \A p \in Players : \E c \in DOMAIN parties : p \in parties[c].members
    /\ \A c, d \in DOMAIN parties : c # d => parties[c].members \cap parties[d].members = {}

Init == /\ parties \in UNION {[D -> Party] : D \in SUBSET PartyIds}
        /\ PartiesOK
        /\ partyChanges = 0
        /\ topic = <<>>
        /\ requests = Empty
        /\ tickets = Empty
        /\ queuedPlayers = Empty
        /\ votes = Empty
        /\ pendingMatches = Empty
        /\ due = {}
        /\ pc = "readDequeues"
        /\ batch = NoBatch
        /\ ticketMap = Empty
        /\ plan = NoPlan
        /\ announced = {}
        /\ faults = 0

-----------------------------------------------------------------------------
(* The party service, as far as the matchmaker sees it: what GetParty      *)
(* returns and the messages on the party topic.                            *)

Message(kind, c, p) == [kind |-> kind, party |-> c, player |-> p]

FreshPartyIds ==
    PartyIds \ (DOMAIN parties \cup {tickets[t].party : t \in DOMAIN tickets}
                  \cup {requests[p].party : p \in DOMAIN requests}
                  \cup {topic[i].party : i \in DOMAIN topic})

PartyChange(messages) ==
    /\ partyChanges < MaxPartyChanges
    /\ Len(topic) + Len(messages) <= MaxMessages
    /\ partyChanges' = partyChanges + 1
    /\ topic' = topic \o messages
    /\ UNCHANGED <<requests, storeVars, directorVars, announced, faults>>

\* Party c without p; when p led it, another member leads it now.
Deserted(c, p) ==
    {[leader |-> l, members |-> parties[c].members \ {p}] :
        l \in IF parties[c].leader = p THEN parties[c].members \ {p} ELSE {parties[c].leader}}

\* Party d with p in it: an existing party, or a new one that p leads.
Joined(p, d) ==
    IF d \in DOMAIN parties THEN [parties[d] EXCEPT !.members = @ \cup {p}]
    ELSE [leader |-> p, members |-> {p}]

\* RemovePlayerFromParty: p leaves c (or is kicked) and is in d after it.
LeaveParty(p, c, d) ==
    /\ c # d /\ p \in parties[c].members /\ parties[c].members # {p}
    /\ \E left \in Deserted(c, p) :
          parties' = Overlay([x \in {c, d} |-> IF x = c THEN left ELSE Joined(p, d)], parties)
    /\ PartyChange(<<Message("PartyPlayerLeft", c, p)>>)

\* JoinPartyByMemberID of a player who was alone: his party c is deleted.
JoinParty(p, c, d) ==
    /\ c # d /\ parties[c].members = {p}
    /\ parties' = Overlay([x \in {d} |-> Joined(p, d)], Without(parties, {c}))
    /\ PartyChange(<<Message("PartyDeleted", c, p)>>)

\* EmptyParty: everybody but the leader gets a party of his own; the
\* PartyEmptied message has no handler in the matchmaker.
EmptyParty(c) ==
    LET leader == parties[c].leader
        others == parties[c].members \ {leader}
    IN  /\ others # {}
        /\ \E f \in Injection(others, FreshPartyIds) :
              parties' = Overlay([x \in {c} \cup Range(f) |->
                                     LET p == IF x = c THEN leader
                                              ELSE CHOOSE q \in others : f[q] = x
                                     IN  [leader |-> p, members |-> {p}]], parties)
        /\ PartyChange(<<>>)

-----------------------------------------------------------------------------
(* The repository calls.                                                   *)

TicketsOf(c) == {t \in DOMAIN tickets : tickets[t].party = c}
TicketsWith(p) == {t \in DOMAIN tickets : p \in tickets[t].players}

\* The tickets with a removals document.
AskedToLeave == {t \in DOMAIN tickets : tickets[t].marked \/ tickets[t].leaving # {}}

CreateTicket(t, ticket) == tickets' = Overlay([x \in {t} |-> ticket], tickets)
MarkTicket(t) == tickets' = [tickets EXCEPT ![t].marked = TRUE]
AddLeaving(t, p) == tickets' = [tickets EXCEPT ![t].leaving = @ \cup {p}]
DeleteTicketsById(T) == tickets' = Without(tickets, T) /\ announced' = announced \ T

ResetRemovalsOf(T) ==
    tickets' = [t \in DOMAIN tickets |->
                   IF t \in T THEN [tickets[t] EXCEPT !.marked = FALSE, !.leaving = {}]
                   ELSE tickets[t]]

SetInPendingMatch(flags) ==
    tickets' = [t \in DOMAIN tickets |->
                   IF t \in DOMAIN flags THEN [tickets[t] EXCEPT !.inPendingMatch = flags[t]]
                   ELSE tickets[t]]

CreateQueuedPlayers(S, t, vote) == /\ queuedPlayers' = Overlay([q \in S |-> t], queuedPlayers)
                                   /\ votes' = Overlay(vote, votes)
DeleteQueuedPlayers(S) == /\ queuedPlayers' = Without(queuedPlayers, S)
                          /\ votes' = Without(votes, S)
SetMapIdOfQueuedPlayer(p, map) == votes' = Overlay([q \in {p} |-> map], votes)

\* Of the players of S who are queued only the votes matter.
GetAllQueuedPlayersByIds(S) == Restrict(votes, S \cap DOMAIN votes)

RemoveTicketsFromPendingMatches(T) ==
    pendingMatches' = [m \in DOMAIN pendingMatches |-> Without(pendingMatches[m], T)]

InsertPendingMatches(new) == pendingMatches' = Overlay(new, pendingMatches)
DeletePendingMatches(M) == pendingMatches' = Without(pendingMatches, M)

ReplacePendingMatches(new) ==
    pendingMatches' = [m \in DOMAIN pendingMatches |->
                          IF m \in DOMAIN new THEN new[m] ELSE pendingMatches[m]]

\* The MatchCreated message of a match with these tickets.
MatchCreated(T) == announced' = announced \cup (T \cap DOMAIN tickets)

-----------------------------------------------------------------------------
(* The gRPC handlers and the consumer of the party topic.                  *)

Up == pc # "panicked"

FreshTicketIds ==
    TicketIds \ (DOMAIN tickets \cup Range(queuedPlayers) \cup DOMAIN ticketMap
                   \cup batch.delete \cup batch.reset
                   \cup UNION {DOMAIN pendingMatches[m] : m \in DOMAIN pendingMatches})

\* QueueByPlayer reads the party of its caller; who does not lead it, and a
\* party too large for the mode, is refused.
QueueGetParty(p) ==
    /\ Up /\ p \notin DOMAIN requests /\ Cardinality(DOMAIN requests) < MaxRequests
    /\ \E c \in DOMAIN parties :
          /\ p = parties[c].leader
          /\ Cardinality(parties[c].members) <= MaxPartySize
          /\ requests' = Overlay([q \in {p} |-> [party |-> c, players |-> parties[c].members,
                                                 checked |-> FALSE]], requests)
    /\ UNCHANGED <<serviceVars, storeVars, directorVars, announced, faults>>

\* IsPartyQueued: a party that has a ticket is refused.
QueueCheckParty(p) ==
    /\ p \in DOMAIN requests /\ ~requests[p].checked
    /\ IF TicketsOf(requests[p].party) # {}
       THEN requests' = Without(requests, {p})
       ELSE requests' = [requests EXCEPT ![p].checked = TRUE]
    /\ UNCHANGED <<serviceVars, storeVars, directorVars, announced, faults>>

\* The vote that comes with a request to queue, if any: that of the member who
\* leads the party.
VoteWith(p, members) == {Empty} \cup {[q \in {p} \cap members |-> map] : map \in Maps}

\* The transaction that creates the ticket and its queued players.  The player
\* id is the key of a queued player: one of them queued already refuses all.
QueueCreateTicket(p) ==
    /\ p \in DOMAIN requests /\ requests[p].checked
    /\ requests' = Without(requests, {p})
    /\ LET members == requests[p].players
       IN  IF members \cap DOMAIN queuedPlayers # {}
           THEN UNCHANGED <<tickets, queued>>
           ELSE \E t \in FreshTicketIds, vote \in VoteWith(p, members) :
                   /\ CreateTicket(t, [party |-> requests[p].party, leader |-> p,
                                       players |-> members, inPendingMatch |-> FALSE,
                                       marked |-> FALSE, leaving |-> {}])
                   /\ CreateQueuedPlayers(members, t, vote)
    /\ UNCHANGED <<serviceVars, pendingMatches, due, directorVars, announced, faults>>

\* DequeueByPlayer marks a ticket of the player.  The players and settings of a
\* ticket never change, so the read before is part of the step.
DequeueByPlayer(p) ==
    /\ Up
    /\ \E t \in TicketsWith(p) :
          /\ p = tickets[t].leader \/ tickets[t].leader \in AllowMemberDequeue
          /\ ~tickets[t].marked
          /\ MarkTicket(t)
    /\ UNCHANGED <<serviceVars, requests, queued, pendingMatches, due, directorVars,
                   announced, faults>>

\* Faulty variant: the update inserts what it does not find, a queued player who
\* was matched after his ticket was read.
UpsertMapVote(p, map) ==
    /\ Up
    /\ p \in DOMAIN queuedPlayers \cup plan.removing
    /\ SetMapIdOfQueuedPlayer(p, map)
    /\ UNCHANGED <<serviceVars, requests, tickets, queuedPlayers, pendingMatches, due,
                   directorVars, announced, faults>>

\* ChangePlayerMapVote sets the vote of a queued player.  He had a ticket when
\* it was read before, and the maps of the mode never change, so that read is
\* part of the step.
ChangePlayerMapVote(p, map) ==
    /\ Up
    /\ p \in DOMAIN queuedPlayers
    /\ SetMapIdOfQueuedPlayer(p, map)
    /\ UNCHANGED <<serviceVars, requests, tickets, queuedPlayers, pendingMatches, due,
                   directorVars, announced, faults>>

\* The consumer handles the next message: one ticket of the party, if it has any,
\* is marked for removal, or learns who leaves.
NextMessage(kind) ==
    /\ Up
    /\ topic # <<>> /\ Head(topic).kind = kind
    /\ topic' = Tail(topic)
    /\ UNCHANGED <<parties, partyChanges, requests, queued, pendingMatches, due,
                   directorVars, announced, faults>>

HandlePartyDisband ==
    /\ NextMessage("PartyDeleted")
    /\ LET own == TicketsOf(Head(topic).party)
       IN  \/ own = {} /\ UNCHANGED tickets
           \/ \E t \in own : MarkTicket(t)

HandlePartyPlayerLeft ==
    /\ NextMessage("PartyPlayerLeft")
    /\ LET own == TicketsOf(Head(topic).party)
       IN  \/ own = {} /\ UNCHANGED tickets
           \/ \E t \in own : AddLeaving(t, Head(topic).player)

-----------------------------------------------------------------------------
(* The director: processDequeues.                                          *)

\* The locals of a run are gone when the next one starts.
NextRun == /\ pc' = "readDequeues"
           /\ batch' = NoBatch
           /\ ticketMap' = Empty
           /\ plan' = NoPlan

\* Faulty variant: the players of the tickets to delete are not collected.
ReadDequeuesKeepsPlayers ==
    /\ pc = "readDequeues"
    /\ LET asked == AskedToLeave
           marked == {t \in asked : tickets[t].marked}
       IN  /\ batch' = [delete |-> marked, reset |-> asked \ marked,
                        players |-> UNION {tickets[t].leaving : t \in asked \ marked}]
           /\ pc' = IF asked = {} THEN "readTickets" ELSE "deleteMarked"
    /\ UNCHANGED <<serviceVars, requests, storeVars, ticketMap, plan, announced, faults>>

ReadDequeues ==
    /\ pc = "readDequeues"
    /\ LET asked == AskedToLeave
           marked == {t \in asked : tickets[t].marked}
       IN  /\ batch' = [delete |-> marked, reset |-> asked \ marked,
                        players |-> (UNION {tickets[t].players : t \in marked})
                                      \cup (UNION {tickets[t].leaving : t \in asked \ marked})]
           /\ pc' = IF asked = {} THEN "readTickets" ELSE "deleteMarked"
    /\ UNCHANGED <<serviceVars, requests, storeVars, ticketMap, plan, announced, faults>>

DeleteMarked ==
    /\ pc = "deleteMarked"
    /\ DeleteTicketsById(batch.delete)
    /\ pc' = "pullMarked"
    /\ UNCHANGED <<serviceVars, requests, queued, pendingMatches, due, batch,
                   ticketMap, plan, faults>>

\* Faulty variant: the deleted tickets stay in the pending matches.
SkipPull ==
    /\ pc = "pullMarked"
    /\ pc' = "resetRemovals"
    /\ UNCHANGED <<serviceVars, requests, storeVars, batch, ticketMap, plan, announced,
                   faults>>

PullMarked ==
    /\ pc = "pullMarked"
    /\ RemoveTicketsFromPendingMatches(batch.delete)
    /\ pc' = "resetRemovals"
    /\ UNCHANGED <<serviceVars, requests, tickets, queued, due, batch, ticketMap,
                   plan, announced, faults>>

\* Faulty variant: the requests of every ticket are unset.
ResetAllRemovals ==
    /\ pc = "resetRemovals"
    /\ ResetRemovalsOf(DOMAIN tickets)
    /\ pc' = "deletePlayers"
    /\ UNCHANGED <<serviceVars, requests, queued, pendingMatches, due, batch,
                   ticketMap, plan, announced, faults>>

\* The whole removals document is unset, with what was added since it was read.
ResetRemovals ==
    /\ pc = "resetRemovals"
    /\ ResetRemovalsOf(batch.reset)
    /\ pc' = "deletePlayers"
    /\ UNCHANGED <<serviceVars, requests, queued, pendingMatches, due, batch,
                   ticketMap, plan, announced, faults>>

DeletePlayers ==
    /\ pc = "deletePlayers"
    /\ DeleteQueuedPlayers(batch.players)
    /\ batch' = NoBatch
    /\ pc' = "readTickets"
    /\ UNCHANGED <<serviceVars, requests, tickets, pendingMatches, due, ticketMap, plan,
                   announced, faults>>

-----------------------------------------------------------------------------
(* The director: runMatchFunction.                                         *)

Sizes(ts) == [t \in DOMAIN ts |-> Cardinality(ts[t].players)]

\* What follows the making of matches; a mode may have no maps.
AfterMatching == IF Maps = {} THEN "announce" ELSE "maps"

ReadTickets ==
    /\ Method = "COUNTDOWN"
    /\ pc = "readTickets"
    /\ ticketMap' = tickets
    /\ pc' = "cancel"
    /\ UNCHANGED <<serviceVars, requests, storeVars, batch, plan, announced, faults>>

\* RunInstant is called on the tickets as soon as they are read; the run ends
\* here when it makes no match.
ReadTicketsAndMatch ==
    /\ Method = "INSTANT"
    /\ pc = "readTickets"
    /\ \E order \in SetToSeqs(DOMAIN tickets) :
          LET made == RunInstant(Sizes(tickets), order)
          IN  IF made = <<>> THEN NextRun
              ELSE \E ids \in Injection(DOMAIN made, PendingMatchIds) :
                      /\ plan' = [NoPlan EXCEPT !.matches =
                                     [m \in Range(ids) |->
                                         WithTickets(Empty, made[CHOOSE i \in DOMAIN made : ids[i] = m])]]
                      /\ ticketMap' = tickets
                      /\ pc' = AfterMatching
                      /\ UNCHANGED batch
    /\ UNCHANGED <<serviceVars, requests, storeVars, announced, faults>>

Size == Sizes(ticketMap)

Cancelled == Invalid(Size, pendingMatches)

\* ticketMap holds the tickets that the pending matches of M name.
Known(M) == \A m \in DOMAIN M : DOMAIN M[m] \subseteq DOMAIN ticketMap

\* Reads the pending matches, which nobody else writes, deletes those with too
\* few players and runs RunCountdown on the others.
CancelAndPlan ==
    /\ pc = "cancel"
    /\ Known(Restrict(pendingMatches, Cancelled))
    /\ LET valid == Without(pendingMatches, Cancelled)
           freed == {t \in DOMAIN ticketMap : \E m \in Cancelled : t \in DOMAIN pendingMatches[m]}
           waiting == freed \cup {t \in DOMAIN ticketMap : ~ticketMap[t].inPendingMatch}
       IN  \E added \in Fillings(Size, waiting, valid) :
           \E new \in NewMatches(Size, waiting \ UNION Range(added)) :
           \E ids \in kSubset(new.copies, PendingMatchIds \ DOMAIN pendingMatches) :
              LET filled == [m \in DOMAIN valid |-> WithTickets(valid[m], added[m])]
                  placed == new.tickets \cup UNION Range(added)
                  finished == Restrict(filled, due \cap DOMAIN valid)
              IN  /\ Known(finished)
                  /\ plan' = [flags |-> [t \in freed \cup placed |-> t \in placed],
                              updated |-> Restrict(filled, {m \in DOMAIN valid : added[m] # {}}),
                              created |-> [m \in ids |-> WithTickets(Empty, new.tickets)],
                              matches |-> finished,
                              maps |-> Empty,
                              removing |-> {}]
    /\ DeletePendingMatches(Cancelled)
    /\ due' = due \ Cancelled
    /\ pc' = "update"
    /\ UNCHANGED <<serviceVars, requests, tickets, queued, batch, ticketMap,
                   announced, faults>>

\* A pending match that is cancelled, or that is due, names a ticket that is
\* not there: the nil pointer ends the process and every call under way.
Panic ==
    /\ pc = "cancel"
    /\ \/ /\ ~Known(Restrict(pendingMatches, Cancelled))
          /\ UNCHANGED <<pendingMatches, due>>
       \/ /\ Known(Restrict(pendingMatches, Cancelled))
          /\ ~Known(Restrict(pendingMatches, due \ Cancelled))
          /\ DeletePendingMatches(Cancelled)
          /\ due' = due \ Cancelled
    /\ pc' = "panicked"
    /\ requests' = Empty
    /\ UNCHANGED <<serviceVars, tickets, queued, batch, ticketMap, plan, announced,
                   faults>>

UpdatePendingMatches ==
    /\ pc = "update"
    /\ ReplacePendingMatches(plan.updated)
    /\ pc' = "create"
    /\ UNCHANGED <<serviceVars, requests, tickets, queued, due, batch, ticketMap,
                   plan, announced, faults>>

CreatePendingMatches ==
    /\ pc = "create"
    /\ InsertPendingMatches(plan.created)
    /\ pc' = "deleteFinished"
    /\ UNCHANGED <<serviceVars, requests, tickets, queued, due, batch, ticketMap,
                   plan, announced, faults>>

\* Faulty variant: a finished pending match is not deleted.
KeepFinished ==
    /\ pc = "deleteFinished"
    /\ pc' = "flag"
    /\ UNCHANGED <<serviceVars, requests, storeVars, batch, ticketMap, plan, announced,
                   faults>>

DeleteFinished ==
    /\ pc = "deleteFinished"
    /\ DeletePendingMatches(DOMAIN plan.matches)
    /\ due' = due \ DOMAIN plan.matches
    /\ pc' = "flag"
    /\ UNCHANGED <<serviceVars, requests, tickets, queued, batch, ticketMap, plan,
                   announced, faults>>

\* MassUpdateTicketInPendingMatch, and the run ends here when no match is due.
FlagTickets ==
    /\ pc = "flag"
    /\ SetInPendingMatch(plan.flags)
    /\ IF DOMAIN plan.matches = {} THEN NextRun
       ELSE pc' = AfterMatching /\ UNCHANGED <<batch, ticketMap, plan>>
    /\ UNCHANGED <<serviceVars, requests, queued, pendingMatches, due, announced,
                   faults>>

MatchTickets == UNION {DOMAIN plan.matches[m] : m \in DOMAIN plan.matches}

\* The players of a match, as the run has read its tickets.
PlayersIn(m) == UNION {ticketMap[t].players : t \in DOMAIN plan.matches[m]}

\* calculateMaps reads the queued players of one match after the other, by
\* their own ids, and draws the match's map.
CalculateMap ==
    /\ pc = "maps"
    /\ \E m \in DOMAIN plan.matches \ DOMAIN plan.maps :
       \E pool \in MapPools(CountVotes(GetAllQueuedPlayersByIds(PlayersIn(m))), Maps) :
       \E map \in pool :
          LET maps == Overlay([x \in {m} |-> map], plan.maps)
          IN  /\ plan' = [plan EXCEPT !.maps = maps]
              /\ pc' = IF DOMAIN maps = DOMAIN plan.matches THEN "announce" ELSE "maps"
    /\ UNCHANGED <<serviceVars, requests, storeVars, batch, ticketMap, announced, faults>>

\* Servers are allocated, with or without success, and every match is
\* announced; the asynchronous Kafka writer takes the messages.
AnnounceMatches ==
    /\ pc = "announce"
    /\ MatchCreated(MatchTickets)
    /\ pc' = "deleteTickets"
    /\ UNCHANGED <<serviceVars, requests, storeVars, batch, ticketMap, plan, faults>>

\* The tickets of one match after the other are deleted, ...
DeleteTickets ==
    /\ pc = "deleteTickets"
    /\ \E m \in DOMAIN plan.matches :
          LET own == DOMAIN plan.matches[m]
          IN  /\ DeleteTicketsById(own)
              /\ plan' = [plan EXCEPT !.matches = Without(@, {m}),
                                      !.removing = UNION {ticketMap[t].players : t \in own}]
    /\ pc' = "deleteMatched"
    /\ UNCHANGED <<serviceVars, requests, queued, pendingMatches, due, batch,
                   ticketMap, faults>>

\* ... and its queued players after them.
DeleteMatched ==
    /\ pc = "deleteMatched"
    /\ DeleteQueuedPlayers(plan.removing)
    /\ IF DOMAIN plan.matches = {} THEN NextRun
       ELSE pc' = "deleteTickets" /\ UNCHANGED <<batch, ticketMap, plan>>
    /\ UNCHANGED <<serviceVars, requests, tickets, pendingMatches, due, announced, faults>>

-----------------------------------------------------------------------------
(* Time and failures.                                                      *)

TeleportTimePasses(m) ==
    /\ m \in DOMAIN pendingMatches \ due
    /\ due' = due \cup {m}
    /\ UNCHANGED <<serviceVars, requests, tickets, queued, pendingMatches,
                   directorVars, announced, faults>>

\* The next repository call fails and the run returns its error.
CallFails ==
    /\ Up /\ faults < FaultBudget
    /\ pc # "readDequeues"
    /\ NextRun
    /\ faults' = faults + 1
    /\ UNCHANGED <<serviceVars, requests, storeVars, announced>>

\* The process dies between two calls and is started again.
Crash ==
    /\ Up /\ faults < FaultBudget
    /\ NextRun
    /\ requests' = Empty
    /\ faults' = faults + 1
    /\ UNCHANGED <<serviceVars, storeVars, announced>>

RestartAfterPanic ==
    /\ pc = "panicked"
    /\ NextRun
    /\ UNCHANGED <<serviceVars, requests, storeVars, announced, faults>>

-----------------------------------------------------------------------------
PartyService ==
    \/ \E p \in Players, c \in DOMAIN parties : \E d \in DOMAIN parties \cup FreshPartyIds :
          LeaveParty(p, c, d)
    \/ \E p \in Players, c, d \in DOMAIN parties : JoinParty(p, c, d)
    \/ \E c \in DOMAIN parties : EmptyParty(c)

Handlers == \/ \E p \in Players : QueueGetParty(p)
            \/ \E p \in Players : QueueCheckParty(p)
            \/ \E p \in Players : QueueCreateTicket(p)
            \/ \E p \in Players : DequeueByPlayer(p)
            \/ \E p \in Players, map \in Maps : ChangePlayerMapVote(p, map)

Consumer == HandlePartyDisband \/ HandlePartyPlayerLeft

Director == \/ ReadDequeues \/ DeleteMarked \/ PullMarked \/ ResetRemovals \/ DeletePlayers
            \/ ReadTickets \/ ReadTicketsAndMatch \/ CancelAndPlan \/ Panic
            \/ UpdatePendingMatches \/ CreatePendingMatches \/ DeleteFinished \/ FlagTickets
            \/ CalculateMap \/ AnnounceMatches \/ DeleteTickets \/ DeleteMatched

Faults == CallFails \/ Crash \/ RestartAfterPanic

Next == \/ PartyService
        \/ Handlers
        \/ Consumer
        \/ Director
        \/ \E m \in PendingMatchIds : TeleportTimePasses(m)
        \/ Faults

Spec == Init /\ [][Next]_vars

\* The director's goroutine never stops: every repository call has a timeout.
\* Time passes.
FairSpec == Spec /\ WF_vars(Director)
                 /\ \A m \in PendingMatchIds : WF_vars(TeleportTimePasses(m))

-----------------------------------------------------------------------------
IsMap(f, S, T) == DOMAIN f \subseteq S /\ f \in [DOMAIN f -> T]

\* Pending matches by their ids: each names a ticket some number of times.
IsMatchMap(f) == /\ DOMAIN f \subseteq PendingMatchIds
                 /\ \A m \in DOMAIN f : IsMap(f[m], TicketIds, Nat \ {0})

Ticket == [party : PartyIds, leader : Players, players : SUBSET Players,
           inPendingMatch : BOOLEAN, marked : BOOLEAN, leaving : SUBSET Players]

TopicMessage == [kind : {"PartyDeleted", "PartyPlayerLeft"}, party : PartyIds, player : Players]

TypeOK ==
    /\ IsMap(parties, PartyIds, Party)
    /\ partyChanges \in 0 .. MaxPartyChanges
    /\ topic \in Seq(TopicMessage)
    /\ IsMap(requests, Players, [party : PartyIds, players : SUBSET Players, checked : BOOLEAN])
    /\ IsMap(tickets, TicketIds, Ticket)
    /\ IsMap(queuedPlayers, Players, TicketIds)
    /\ IsMap(votes, Players, Maps) /\ DOMAIN votes \subseteq DOMAIN queuedPlayers
    /\ IsMatchMap(pendingMatches)
    /\ due \subseteq DOMAIN pendingMatches
    /\ pc \in Calls \cup {"panicked"}
    /\ batch \in [delete : SUBSET TicketIds, reset : SUBSET TicketIds, players : SUBSET Players]
    /\ IsMap(ticketMap, TicketIds, Ticket)
    /\ DOMAIN plan = DOMAIN NoPlan
    /\ IsMap(plan.flags, TicketIds, BOOLEAN)
    /\ IsMatchMap(plan.updated) /\ IsMatchMap(plan.created) /\ IsMatchMap(plan.matches)
    /\ IsMap(plan.maps, PendingMatchIds, Maps)
    /\ plan.removing \subseteq Players
    /\ announced \subseteq DOMAIN tickets
    /\ faults \in 0 .. FaultBudget

BetweenRuns == pc = "readDequeues"

\* A queued player whose ticket is gone could never queue again, for his key
\* stays taken: between two runs there is none, unless a call failed
\* (processDequeues, the end of runMatchFunction and QueueByPlayer).
NoOrphanQueuedPlayer ==
    BetweenRuns /\ faults = 0 =>
        \A p \in DOMAIN queuedPlayers :
            /\ queuedPlayers[p] \in DOMAIN tickets
            /\ p \in tickets[queuedPlayers[p]].players

\* The pending matches that name t.
Naming(t) == {m \in DOMAIN pendingMatches : t \in DOMAIN pendingMatches[m]}

\* Pending matches and tickets agree, unless a call failed.  A match that is
\* cancelled or made names only tickets the run has read, or the director would
\* dereference nil (runMatchFunction, finalisePendingMatch); and between two runs
\* a ticket is flagged exactly when a pending match names it
\* (Ticket.InPendingMatch).
PendingMatchesAgree ==
    faults = 0 =>
        /\ pc # "panicked"
        /\ BetweenRuns => \A t \in DOMAIN tickets : tickets[t].inPendingMatch <=> Naming(t) # {}

\* Between two runs a ticket is in one pending match at most, once
\* (fillPendingMatches and createPendingMatches share out the waiting tickets).
TicketsPlacedOnce ==
    faults = 0 /\ BetweenRuns =>
        \A t \in DOMAIN tickets :
            /\ \A m, n \in Naming(t) : m = n
            /\ \A m \in Naming(t) : pendingMatches[m][t] = 1

PlayersOf(bag) == Total(Size, DOMAIN bag)

\* Every match that is announced has enough players, whoever left the queue
\* while it was pending (CountdownRemoveInvalidPendingMatches).
MatchesHaveEnoughPlayers ==
    pc = "announce" /\ faults = 0 =>
        \A m \in DOMAIN plan.matches : PlayersOf(plan.matches[m]) >= MinPlayers

\* No announced match has more players than the game mode allows
\* (fillPendingMatches, createPendingMatches, RunInstant).
MatchesFit ==
    pc = "announce" =>
        \A m \in DOMAIN plan.matches : PlayersOf(plan.matches[m]) <= MaxPlayers

\* A ticket is announced once: not by two matches of a run, and not again by a
\* later run, even when, with a countdown, one call failed or the process died
\* in between (DeletePendingMatches before MatchCreated).
AnnouncedOnce ==
    pc = "announce" /\ (faults = 0 \/ Method = "COUNTDOWN") =>
        /\ MatchTickets \cap announced = {}
        /\ faults = 0 => \A m, n \in DOMAIN plan.matches :
              m # n => DOMAIN plan.matches[m] \cap DOMAIN plan.matches[n] = {}

\* No map got more votes of the players of a match who are queued than the map
\* drawn for it, in whatever order the votes were compared (calculateMaps).
MapsFollowVotes ==
    [][\A m \in DOMAIN plan'.maps \ DOMAIN plan.maps :
          LET For(map) == {p \in PlayersIn(m) \cap DOMAIN votes : votes[p] = map}
          IN  \A map \in Maps : Cardinality(For(map)) <= Cardinality(For(plan'.maps[m]))]_vars

\* Where no call fails, the queue keeps what MatchQueue promises: a ticket that is
\* marked shall leave, and the matches of the run are announced as soon as a
\* MatchCreated message has named their tickets.
queueTickets == [t \in DOMAIN tickets |-> [players |-> tickets[t].players,
                                           asked |-> tickets[t].marked]]
announcedMatches == {DOMAIN plan.matches[m] \cap announced : m \in DOMAIN plan.matches} \ {{}}

Queue == INSTANCE MatchQueue WITH
    queue <- queueTickets,
    matches <- announcedMatches,
    MatchSizes <- IF Method = "INSTANT" THEN 0 .. MaxPlayers
                  ELSE {n \in Nat : n >= MinPlayers}
ImplementsMatchQueue == Queue!Spec

\* A pending match is resolved, as a match or cancelled.
PendingMatchResolves ==
    \A m \in PendingMatchIds : m \in DOMAIN pendingMatches ~> m \notin DOMAIN pendingMatches

\* A ticket does not wait for ever while there are players enough for a match.
TicketIsPlaced ==
    \A t \in TicketIds :
        t \in DOMAIN tickets ~>
            \/ t \notin DOMAIN tickets
            \/ tickets[t].inPendingMatch
            \/ MapThenSumSet(LAMBDA u : Cardinality(tickets[u].players), DOMAIN tickets) < MinPlayers

\* A ticket that was asked to be dequeued leaves the queue, unless the director was
\* about to reset the requests of that very ticket when it was asked
\* (ResetAllDequeueRequestsById): then the mark is lost.
DequeuedTicketLeaves ==
    \A t \in TicketIds :
        t \in DOMAIN tickets /\ tickets[t].marked /\ t \notin batch.reset ~> t \notin DOMAIN tickets

=============================================================================
