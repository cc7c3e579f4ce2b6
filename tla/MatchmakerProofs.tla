--------------------------- MODULE MatchmakerProofs ---------------------------
(***************************************************************************)
(* Proofs about Matchmaker for every set of players and ids, every size of *)
(* a match and every bound: its types; that no queued player is left       *)
(* without his ticket; that the map of a match is one most voted for; of   *)
(* the INSTANT method that no match is too large and none is announced     *)
(* twice; of COUNTDOWN that tickets and pending matches agree, that        *)
(* matches have enough players and that none is announced twice, not even  *)
(* after one failure, as long as createPendingMatches never makes two      *)
(* pending matches in one call, which few waiting players cannot make it   *)
(* do; and that the queue implements MatchQueue where no call fails.       *)
(***************************************************************************)
EXTENDS Matchmaker, FiniteSetTheorems, WellFoundedInduction, TLAPS

\* The names of the repository calls stand for what they do, everywhere.
USE DEF TicketsOf, TicketsWith, AskedToLeave, CreateTicket, MarkTicket, AddLeaving,
        DeleteTicketsById, ResetRemovalsOf, SetInPendingMatch, CreateQueuedPlayers,
        DeleteQueuedPlayers, RemoveTicketsFromPendingMatches, InsertPendingMatches,
        DeletePendingMatches, ReplacePendingMatches, MatchCreated,
        SetMapIdOfQueuedPlayer, queued

\* The queued players that the director is about to delete, their tickets
\* being gone already.
Doomed == IF pc \in {"pullMarked", "resetRemovals", "deletePlayers"} THEN batch.players
          ELSE IF pc = "deleteMatched" THEN plan.removing
          ELSE {}

\* NoOrphanQueuedPlayer, as it is in the middle of a run.
QueuedHaveTickets ==
    faults = 0 => \A p \in DOMAIN queuedPlayers \ Doomed :
                     /\ queuedPlayers[p] \in DOMAIN tickets
                     /\ p \in tickets[queuedPlayers[p]].players

\* processDequeues collected the players of every ticket it deletes.
MarkedCollected ==
    pc = "deleteMarked" =>
        \A t \in batch.delete \cap DOMAIN tickets : tickets[t].players \subseteq batch.players

\* The match function has answered in this run.
Planned == pc \in {"update", "create", "deleteFinished", "flag", "maps", "announce", "deleteTickets",
                   "deleteMatched"}

\* What the run has read of a ticket is still true of its players, and it
\* finishes only pending matches whose tickets it has read.
ReadStillTrue ==
    /\ \A t \in DOMAIN ticketMap \cap DOMAIN tickets : ticketMap[t].players = tickets[t].players
    /\ Planned => \A m \in DOMAIN plan.matches : DOMAIN plan.matches[m] \subseteq DOMAIN ticketMap

IInv == TypeOK /\ QueuedHaveTickets /\ MarkedCollected /\ ReadStillTrue

-----------------------------------------------------------------------------
(* Maps with their domain in one set and their values in another.          *)

LEMMA EmptyIsMap == \A S, T : IsMap(Empty, S, T)
  BY DEF IsMap, Empty

LEMMA WithoutIsMap ==
    ASSUME NEW S, NEW T, NEW f, IsMap(f, S, T), NEW R
    PROVE  IsMap(Without(f, R), S, T)
  BY DEF IsMap, Without

LEMMA OverlayIsMap ==
    ASSUME NEW S, NEW T, NEW f, NEW g, IsMap(f, S, T), IsMap(g, S, T)
    PROVE  IsMap(Overlay(f, g), S, T)
  BY DEF IsMap, Overlay

LEMMA WithoutIsMatchMap ==
    ASSUME NEW f, IsMatchMap(f), NEW R
    PROVE  IsMatchMap(Without(f, R))
  BY DEF IsMatchMap, Without

LEMMA EmptyIsMatchMap == IsMatchMap(Empty)
  BY DEF IsMatchMap, Empty

\* Adding tickets to a pending match leaves it a bag of tickets.
LEMMA WithTicketsIsMap ==
    ASSUME NEW bag, IsMap(bag, TicketIds, Nat \ {0}), NEW X \in SUBSET TicketIds
    PROVE  IsMap(WithTickets(bag, X), TicketIds, Nat \ {0})
  <1> DEFINE more == WithTickets(bag, X)
  <1>1. DOMAIN more = DOMAIN bag \cup X /\ DOMAIN more \subseteq TicketIds
    BY DEF IsMap, WithTickets
  <1>2. \A t \in DOMAIN more : more[t] \in Nat \ {0}
    BY DEF IsMap, WithTickets
  <1> QED
    BY <1>1, <1>2 DEF IsMap, WithTickets

-----------------------------------------------------------------------------
LEMMA InitIInv == Init => IInv
  <1> SUFFICES ASSUME Init PROVE IInv
    OBVIOUS
  <1>1. IsMap(parties, PartyIds, Party)
    BY DEF Init, IsMap
  <1>2. {MaxPartyChanges, FaultBudget} \subseteq Nat
    BY MatchmakerAssumption
  <1>3. TypeOK
    BY <1>1, <1>2, EmptyIsMap, EmptyIsMatchMap
       DEF Init, TypeOK, Calls, NoBatch, NoPlan, Empty
  <1>4. QueuedHaveTickets /\ MarkedCollected /\ ReadStillTrue
    BY DEF Init, QueuedHaveTickets, MarkedCollected, ReadStillTrue, Planned, Empty, NoPlan
  <1> QED
    BY <1>3, <1>4 DEF IInv

-----------------------------------------------------------------------------
(* The party service writes nothing the matchmaker keeps.                  *)

LEMMA PartyChangeIInv ==
    ASSUME IInv, NEW messages \in Seq(TopicMessage), PartyChange(messages), IsMap(parties', PartyIds, Party)
    PROVE  IInv'
  <1>1. partyChanges' \in 0 .. MaxPartyChanges
    BY MatchmakerAssumption DEF IInv, TypeOK, PartyChange
  <1>2. topic' \in Seq(TopicMessage)
    BY DEF IInv, TypeOK, PartyChange
  <1>3. TypeOK'
    BY <1>1, <1>2 DEF IInv, TypeOK, PartyChange, storeVars, directorVars
  <1>4. (QueuedHaveTickets /\ MarkedCollected /\ ReadStillTrue)'
    BY DEF IInv, QueuedHaveTickets, Doomed, MarkedCollected, ReadStillTrue, Planned, PartyChange,
           storeVars, directorVars
  <1> QED
    BY <1>3, <1>4 DEF IInv

\* A party with one member more is a party.
LEMMA JoinedIsParty ==
    ASSUME TypeOK, NEW p \in Players, NEW d \in DOMAIN parties \cup FreshPartyIds
    PROVE  d \in PartyIds /\ Joined(p, d) \in Party
  BY DEF TypeOK, IsMap, Party, Joined, FreshPartyIds

LEMMA PartyServiceIInv ==
    ASSUME IInv, PartyService
    PROVE  IInv'
  <1>0. IsMap(parties, PartyIds, Party)
    BY DEF IInv, TypeOK
  <1>1. ASSUME NEW p \in Players, NEW c \in DOMAIN parties,
               NEW d \in DOMAIN parties \cup FreshPartyIds, LeaveParty(p, c, d)
        PROVE  IInv'
    <2>1. PICK left \in Deserted(c, p) :
             parties' = Overlay([x \in {c, d} |-> IF x = c THEN left ELSE Joined(p, d)], parties)
      BY <1>1 DEF LeaveParty
    <2>2. left \in Party /\ c \in PartyIds
      BY <1>0 DEF Deserted, IsMap, Party
    <2>3. IsMap([x \in {c, d} |-> IF x = c THEN left ELSE Joined(p, d)], PartyIds, Party)
      BY <2>2, JoinedIsParty DEF IsMap, IInv
    <2>4. IsMap(parties', PartyIds, Party)
      BY <1>0, <2>1, <2>3, OverlayIsMap
    <2>5. PartyChange(<<Message("PartyPlayerLeft", c, p)>>)
      BY <1>1 DEF LeaveParty
    <2>6. <<Message("PartyPlayerLeft", c, p)>> \in Seq(TopicMessage)
      BY <2>2 DEF Message, TopicMessage
    <2> QED
      BY <2>4, <2>5, <2>6, PartyChangeIInv
  <1>2. ASSUME NEW p \in Players, NEW c \in DOMAIN parties, NEW d \in DOMAIN parties,
               JoinParty(p, c, d)
        PROVE  IInv'
    <2>1. IsMap([x \in {d} |-> Joined(p, d)], PartyIds, Party)
      BY JoinedIsParty DEF IsMap, IInv
    <2>2. IsMap(parties', PartyIds, Party)
      BY <1>0, <1>2, <2>1, WithoutIsMap, OverlayIsMap DEF JoinParty
    <2>3. PartyChange(<<Message("PartyDeleted", c, p)>>) /\ c \in PartyIds
      BY <1>0, <1>2 DEF JoinParty, IsMap
    <2>4. <<Message("PartyDeleted", c, p)>> \in Seq(TopicMessage)
      BY <2>3 DEF Message, TopicMessage
    <2> QED
      BY <2>2, <2>3, <2>4, PartyChangeIInv
  <1>3. ASSUME NEW c \in DOMAIN parties, EmptyParty(c)
        PROVE  IInv'
    <2> DEFINE leader == parties[c].leader
               others == parties[c].members \ {leader}
               alone(f, x) == IF x = c THEN leader ELSE CHOOSE q \in others : f[q] = x
    <2>1. PICK f \in Injection(others, FreshPartyIds) :
             parties' = Overlay([x \in {c} \cup Range(f) |->
                                    [leader |-> alone(f, x), members |-> {alone(f, x)}]], parties)
      BY <1>3 DEF EmptyParty
    <2>2. leader \in Players /\ others \subseteq Players /\ c \in PartyIds
      BY <1>0 DEF IsMap, Party
    <2>3. f \in [others -> PartyIds]
      BY DEF Injection, FreshPartyIds
    <2>4. \A x \in {c} \cup Range(f) : x \in PartyIds /\ alone(f, x) \in Players
      BY <2>2, <2>3 DEF Range
    <2>5. IsMap([x \in {c} \cup Range(f) |->
                   [leader |-> alone(f, x), members |-> {alone(f, x)}]], PartyIds, Party)
      BY <2>4 DEF IsMap, Party
    <2>6. IsMap(parties', PartyIds, Party)
      BY <1>0, <2>1, <2>5, OverlayIsMap
    <2>7. PartyChange(<<>>)
      BY <1>3 DEF EmptyParty
    <2>8. <<>> \in Seq(TopicMessage)
      OBVIOUS
    <2> QED
      BY <2>6, <2>7, <2>8, PartyChangeIInv
  <1> QED
    BY <1>1, <1>2, <1>3 DEF PartyService

-----------------------------------------------------------------------------
(* The handlers and the consumer change tickets, and add new ones.         *)

Related == QueuedHaveTickets /\ MarkedCollected /\ ReadStillTrue

\* A step that keeps the tickets and their players, and the place the director
\* has reached, keeps the relations between the collections.
LEMMA SameTicketPlayers ==
    ASSUME Related,
           DOMAIN tickets' = DOMAIN tickets,
           \A t \in DOMAIN tickets : tickets'[t].players = tickets[t].players,
           Doomed' = Doomed, pc' = pc \/ pc' # "deleteMarked", Planned' => Planned,
           UNCHANGED <<queued, batch, ticketMap, plan, faults>>
    PROVE  Related'
  <1>1. QueuedHaveTickets'
    BY DEF Related, QueuedHaveTickets
  <1>2. MarkedCollected'
    BY DEF Related, MarkedCollected
  <1>3. ReadStillTrue'
    BY DEF Related, ReadStillTrue
  <1> QED
    BY <1>1, <1>2, <1>3 DEF Related

\* The same step, when the tickets keep their types.
LEMMA TicketUpdateIInv ==
    ASSUME IInv,
           topic' \in Seq(TopicMessage),
           IsMap(tickets', TicketIds, Ticket),
           DOMAIN tickets' = DOMAIN tickets,
           \A t \in DOMAIN tickets : tickets'[t].players = tickets[t].players,
           UNCHANGED <<parties, partyChanges, requests, queued, pendingMatches, due,
                       directorVars, announced, faults>>
    PROVE  IInv'
  <1>1. TypeOK'
    BY DEF IInv, TypeOK, directorVars
  <1>2. Related'
    BY SameTicketPlayers DEF IInv, Related, Doomed, Planned, directorVars
  <1> QED
    BY <1>1, <1>2 DEF IInv, Related

LEMMA DequeueIInv ==
    ASSUME IInv, NEW p \in Players, DequeueByPlayer(p)
    PROVE  IInv'
  <1>1. PICK t \in DOMAIN tickets : tickets' = [tickets EXCEPT ![t].marked = TRUE]
    BY DEF DequeueByPlayer
  <1>2. IsMap(tickets, TicketIds, Ticket)
    BY DEF IInv, TypeOK
  <1>3. IsMap(tickets', TicketIds, Ticket)
    BY <1>1, <1>2 DEF IsMap, Ticket
  <1>4. DOMAIN tickets' = DOMAIN tickets
    BY <1>1
  <1>5. \A u \in DOMAIN tickets : tickets'[u].players = tickets[u].players
    BY <1>1, <1>2 DEF IsMap, Ticket
  <1>6. topic' \in Seq(TopicMessage)
    BY DEF IInv, TypeOK, DequeueByPlayer, serviceVars
  <1> QED
    BY <1>3, <1>4, <1>5, <1>6, TicketUpdateIInv DEF DequeueByPlayer, serviceVars

\* A vote is that of a queued player, for a map of the mode.
LEMMA ChangeVoteIInv ==
    ASSUME IInv, NEW p \in Players, NEW map \in Maps, ChangePlayerMapVote(p, map)
    PROVE  IInv'
  <1>1. /\ p \in DOMAIN queuedPlayers
        /\ votes' = Overlay([q \in {p} |-> map], votes)
        /\ UNCHANGED <<serviceVars, requests, tickets, queuedPlayers, pendingMatches, due,
                       directorVars, announced, faults>>
    BY DEF ChangePlayerMapVote
  <1>2. IsMap(votes, Players, Maps) /\ DOMAIN votes \subseteq DOMAIN queuedPlayers
    BY DEF IInv, TypeOK
  <1>3. IsMap([q \in {p} |-> map], Players, Maps)
    BY DEF IsMap
  <1>4. IsMap(votes', Players, Maps) /\ DOMAIN votes' \subseteq DOMAIN queuedPlayers
    <2>1. DOMAIN votes' = DOMAIN votes \cup {p}
      BY <1>1 DEF Overlay
    <2> QED
      BY <1>1, <1>2, <1>3, <2>1, OverlayIsMap
  <1>5. TypeOK'
    BY <1>1, <1>4 DEF IInv, TypeOK, serviceVars, directorVars
  <1>6. (QueuedHaveTickets /\ MarkedCollected /\ ReadStillTrue)'
    BY <1>1 DEF IInv, QueuedHaveTickets, Doomed, MarkedCollected, ReadStillTrue, Planned,
                directorVars
  <1> QED
    BY <1>5, <1>6 DEF IInv

LEMMA ConsumerIInv ==
    ASSUME IInv, Consumer
    PROVE  IInv'
  <1>1. IsMap(tickets, TicketIds, Ticket) /\ topic \in Seq(TopicMessage)
    BY DEF IInv, TypeOK
  <1>2. /\ topic # <<>> /\ topic' = Tail(topic)
        /\ UNCHANGED <<parties, partyChanges, requests, queued, pendingMatches, due,
                       directorVars, announced, faults>>
    BY DEF Consumer, HandlePartyDisband, HandlePartyPlayerLeft, NextMessage
  <1>3. topic' \in Seq(TopicMessage) /\ Head(topic).player \in Players
    <2>1. topic' \in Seq(TopicMessage) /\ Head(topic) \in TopicMessage
      BY <1>1, <1>2
    <2> QED
      BY <2>1 DEF TopicMessage
  <1>4. CASE UNCHANGED tickets
    BY <1>1, <1>2, <1>3, <1>4, TicketUpdateIInv
  <1>5. CASE \E t \in DOMAIN tickets : MarkTicket(t)
    <2>1. /\ IsMap(tickets', TicketIds, Ticket)
          /\ DOMAIN tickets' = DOMAIN tickets
          /\ \A u \in DOMAIN tickets : tickets'[u].players = tickets[u].players
      BY <1>1, <1>5, ZenonT(60) DEF IsMap, Ticket
    <2> QED
      BY <1>2, <1>3, <2>1, TicketUpdateIInv
  <1>6. CASE \E t \in DOMAIN tickets : AddLeaving(t, Head(topic).player)
    <2>1. PICK t \in DOMAIN tickets : AddLeaving(t, Head(topic).player)
      BY <1>6
    <2> DEFINE leaving == tickets[t].leaving \cup {Head(topic).player}
    <2>2. leaving \in SUBSET Players
      BY <1>1, <1>3 DEF IsMap, Ticket
    <2>3. tickets' = [tickets EXCEPT ![t].leaving = leaving]
      BY <2>1
    <2> HIDE DEF leaving
    <2>4. /\ IsMap(tickets', TicketIds, Ticket)
          /\ DOMAIN tickets' = DOMAIN tickets
          /\ \A u \in DOMAIN tickets : tickets'[u].players = tickets[u].players
      BY <1>1, <2>2, <2>3 DEF IsMap, Ticket
    <2> QED
      BY <1>2, <1>3, <2>4, TicketUpdateIInv
  <1> QED
    BY <1>4, <1>5, <1>6 DEF Consumer, HandlePartyDisband, HandlePartyPlayerLeft

\* Reading the party and the tickets changes only the calls under way.
LEMMA QueueReadsIInv ==
    ASSUME IInv, NEW p \in Players, QueueGetParty(p) \/ QueueCheckParty(p)
    PROVE  IInv'
  <1> DEFINE Request == [party : PartyIds, players : SUBSET Players, checked : BOOLEAN]
  <1>1. IsMap(requests, Players, Request) /\ IsMap(parties, PartyIds, Party)
    BY DEF IInv, TypeOK
  <1>2. UNCHANGED <<serviceVars, storeVars, directorVars, announced, faults>>
    BY DEF QueueGetParty, QueueCheckParty
  <1>3. CASE QueueGetParty(p)
    <2>1. PICK c \in DOMAIN parties :
             requests' = Overlay([q \in {p} |-> [party |-> c, players |-> parties[c].members,
                                                 checked |-> FALSE]], requests)
      BY <1>3 DEF QueueGetParty
    <2>2. IsMap([q \in {p} |-> [party |-> c, players |-> parties[c].members,
                                checked |-> FALSE]], Players, Request)
      BY <1>1 DEF IsMap, Party
    <2>3. IsMap(requests', Players, Request)
      BY <1>1, <2>1, <2>2, OverlayIsMap
    <2> QED
      BY <1>2, <2>3 DEF IInv, TypeOK, QueuedHaveTickets, Doomed, MarkedCollected,
                        ReadStillTrue, Planned, serviceVars, storeVars, directorVars
  <1>4. CASE QueueCheckParty(p)
    <2>1. IsMap(Without(requests, {p}), Players, Request)
      BY <1>1, WithoutIsMap
    <2>2. IsMap([requests EXCEPT ![p].checked = TRUE], Players, Request)
      BY <1>1 DEF IsMap
    <2>3. IsMap(requests', Players, Request)
      BY <1>4, <2>1, <2>2 DEF QueueCheckParty
    <2> QED
      BY <1>2, <2>3 DEF IInv, TypeOK, QueuedHaveTickets, Doomed, MarkedCollected,
                        ReadStillTrue, Planned, serviceVars, storeVars, directorVars
  <1> QED
    BY <1>3, <1>4

\* The new ticket and its queued players appear together, under an id that
\* nothing the director has read names.
LEMMA CreateTicketIInv ==
    ASSUME IInv, NEW p \in Players, QueueCreateTicket(p)
    PROVE  IInv'
  <1> DEFINE Request == [party : PartyIds, players : SUBSET Players, checked : BOOLEAN]
             members == requests[p].players
             new == [party |-> requests[p].party, leader |-> p, players |-> members,
                     inPendingMatch |-> FALSE, marked |-> FALSE, leaving |-> {}]
  <1>1. /\ IsMap(requests, Players, Request) /\ IsMap(tickets, TicketIds, Ticket)
        /\ IsMap(queuedPlayers, Players, TicketIds) /\ p \in DOMAIN requests
        /\ IsMap(votes, Players, Maps) /\ DOMAIN votes \subseteq DOMAIN queuedPlayers
    BY DEF IInv, TypeOK, QueueCreateTicket
  <1>2. /\ UNCHANGED <<serviceVars, pendingMatches, due, directorVars, announced, faults>>
        /\ requests' = Without(requests, {p})
    BY DEF QueueCreateTicket
  <1>3. IsMap(requests', Players, Request) /\ members \subseteq Players /\ new \in Ticket
    <2>1. IsMap(requests', Players, Request)
      BY <1>1, <1>2, WithoutIsMap
    <2>2. requests[p] \in Request /\ p \in Players
      BY <1>1 DEF IsMap
    <2>3. members \subseteq Players /\ new \in Ticket
      BY <2>2 DEF Ticket
    <2> QED
      BY <2>1, <2>3
  <1>4. CASE UNCHANGED <<tickets, queued>>
    <2>1. TypeOK'
      BY <1>2, <1>3, <1>4 DEF IInv, TypeOK, serviceVars, directorVars
    <2>2. Related'
      BY <1>2, <1>4, SameTicketPlayers DEF IInv, Related, Doomed, Planned, directorVars
    <2> QED
      BY <2>1, <2>2 DEF IInv, Related
  <1>5. CASE ~UNCHANGED <<tickets, queued>>
    <2>1. PICK t \in FreshTicketIds, vote \in VoteWith(p, members) :
                /\ tickets' = Overlay([x \in {t} |-> new], tickets)
                /\ queuedPlayers' = Overlay([q \in members |-> t], queuedPlayers)
                /\ votes' = Overlay(vote, votes)
                /\ members \cap DOMAIN queuedPlayers = {}
      BY <1>5 DEF QueueCreateTicket
    <2>2. t \in TicketIds \ (DOMAIN tickets \cup DOMAIN ticketMap \cup batch.delete)
      BY DEF FreshTicketIds
    <2>3. IsMap([x \in {t} |-> new], TicketIds, Ticket)
      BY <1>3, <2>2 DEF IsMap
    <2>4. IsMap([q \in members |-> t], Players, TicketIds)
      BY <1>3, <2>2 DEF IsMap
    <2>5. IsMap(tickets', TicketIds, Ticket) /\ IsMap(queuedPlayers', Players, TicketIds)
      BY <1>1, <2>1, <2>3, <2>4, OverlayIsMap
    <2>6. /\ DOMAIN tickets' = DOMAIN tickets \cup {t} /\ tickets'[t].players = members
          /\ \A u \in DOMAIN tickets : tickets'[u] = tickets[u]
      BY <2>1, <2>2 DEF Overlay
    <2>7. IsMap(votes', Players, Maps) /\ DOMAIN votes' \subseteq DOMAIN queuedPlayers'
      <3>1. IsMap(vote, Players, Maps) /\ DOMAIN vote \subseteq members
        <4>1. CASE vote = Empty
          BY <4>1, EmptyIsMap DEF Empty
        <4>2. CASE \E map \in Maps : vote = [q \in {p} \cap members |-> map]
          BY <1>3, <4>2 DEF IsMap
        <4> QED
          BY <4>1, <4>2 DEF VoteWith
      <3>2. /\ DOMAIN votes' = DOMAIN vote \cup DOMAIN votes
            /\ DOMAIN queuedPlayers' = members \cup DOMAIN queuedPlayers
        BY <2>1 DEF Overlay
      <3>3. IsMap(votes', Players, Maps)
        BY <1>1, <2>1, <3>1, OverlayIsMap
      <3> QED
        BY <1>1, <3>1, <3>2, <3>3
    <2>8. TypeOK'
      BY <1>2, <1>3, <2>5, <2>6, <2>7 DEF IInv, TypeOK, serviceVars, directorVars
    <2>9. QueuedHaveTickets'
      <3>1. /\ DOMAIN queuedPlayers' = DOMAIN queuedPlayers \cup members
            /\ \A q \in members : queuedPlayers'[q] = t
            /\ \A q \in DOMAIN queuedPlayers : queuedPlayers'[q] = queuedPlayers[q]
        BY <2>1 DEF Overlay
      <3> QED
        BY <1>2, <2>6, <3>1 DEF IInv, QueuedHaveTickets, Doomed, directorVars
    <2>10. MarkedCollected' /\ ReadStillTrue'
      BY <1>2, <2>2, <2>6 DEF IInv, MarkedCollected, ReadStillTrue, Planned, directorVars
    <2> QED
      BY <2>8, <2>9, <2>10 DEF IInv
  <1> QED
    BY <1>4, <1>5

-----------------------------------------------------------------------------
(* The director.  TypeOK in three parts: what it never writes, the         *)
(* collections, and the locals of a run.                                   *)

ServiceTypes ==
    /\ IsMap(parties, PartyIds, Party)
    /\ partyChanges \in 0 .. MaxPartyChanges
    /\ topic \in Seq(TopicMessage)
    /\ IsMap(requests, Players, [party : PartyIds, players : SUBSET Players, checked : BOOLEAN])
    /\ faults \in 0 .. FaultBudget

StoreTypes ==
    /\ IsMap(tickets, TicketIds, Ticket)
    /\ IsMap(queuedPlayers, Players, TicketIds)
    /\ IsMap(votes, Players, Maps) /\ DOMAIN votes \subseteq DOMAIN queuedPlayers
    /\ IsMatchMap(pendingMatches)
    /\ due \subseteq DOMAIN pendingMatches
    /\ announced \subseteq DOMAIN tickets

RunTypes ==
    /\ pc \in Calls \cup {"panicked"}
    /\ batch \in [delete : SUBSET TicketIds, reset : SUBSET TicketIds, players : SUBSET Players]
    /\ IsMap(ticketMap, TicketIds, Ticket)
    /\ DOMAIN plan = DOMAIN NoPlan
    /\ IsMap(plan.flags, TicketIds, BOOLEAN)
    /\ IsMatchMap(plan.updated) /\ IsMatchMap(plan.created) /\ IsMatchMap(plan.matches)
    /\ IsMap(plan.maps, PendingMatchIds, Maps)
    /\ plan.removing \subseteq Players

LEMMA TypeParts == /\ TypeOK <=> ServiceTypes /\ StoreTypes /\ RunTypes
                   /\ TypeOK' <=> ServiceTypes' /\ StoreTypes' /\ RunTypes'
  BY DEF TypeOK, ServiceTypes, StoreTypes, RunTypes

LEMMA ServiceTypesKept ==
    ASSUME ServiceTypes, UNCHANGED <<serviceVars, requests, faults>>
    PROVE  ServiceTypes'
  BY DEF ServiceTypes, serviceVars

\* A run that starts has read nothing and is about to delete nobody.
LEMMA NextRunClears ==
    ASSUME NextRun
    PROVE  RunTypes' /\ MarkedCollected' /\ ReadStillTrue' /\ Doomed' = {}
  <1>1. /\ pc' = "readDequeues" /\ batch' = NoBatch /\ ticketMap' = Empty /\ plan' = NoPlan
    BY DEF NextRun
  <1>2. RunTypes'
    BY <1>1, EmptyIsMap, EmptyIsMatchMap DEF RunTypes, Calls, NoBatch, NoPlan
  <1>3. MarkedCollected' /\ Doomed' = {}
    BY <1>1 DEF MarkedCollected, Doomed
  <1>4. ReadStillTrue'
    BY <1>1 DEF ReadStillTrue, Planned, NoPlan, Empty
  <1> QED
    BY <1>2, <1>3, <1>4

LEMMA ReadDequeuesIInv ==
    ASSUME IInv, ReadDequeues
    PROVE  IInv'
  <1> DEFINE asked == {t \in DOMAIN tickets : tickets[t].marked \/ tickets[t].leaving # {}}
             marked == {t \in asked : tickets[t].marked}
             gone == (UNION {tickets[t].players : t \in marked})
                       \cup (UNION {tickets[t].leaving : t \in asked \ marked})
  <1>1. /\ pc = "readDequeues" /\ pc' \in {"readTickets", "deleteMarked"}
        /\ batch' = [delete |-> marked, reset |-> asked \ marked, players |-> gone]
        /\ UNCHANGED <<serviceVars, requests, storeVars, ticketMap, plan, announced, faults>>
    BY DEF ReadDequeues
  <1>2. ServiceTypes /\ StoreTypes /\ RunTypes
    BY TypeParts DEF IInv
  <1>3. \A t \in DOMAIN tickets : /\ t \in TicketIds
                                  /\ tickets[t].players \subseteq Players
                                  /\ tickets[t].leaving \subseteq Players
    BY <1>2 DEF StoreTypes, IsMap, Ticket
  <1>4. marked \subseteq TicketIds /\ asked \subseteq TicketIds
    BY <1>3
  <1>5. gone \subseteq Players
    BY <1>3
  <1>6. \A t \in marked : tickets[t].players \subseteq gone
    OBVIOUS
  <1> HIDE DEF asked, marked, gone
  <1>7. batch' \in [delete : SUBSET TicketIds, reset : SUBSET TicketIds, players : SUBSET Players]
    BY <1>1, <1>4, <1>5
  <1>8. TypeOK'
    BY <1>1, <1>2, <1>7, TypeParts, ServiceTypesKept DEF StoreTypes, RunTypes, Calls, storeVars
  <1>9. MarkedCollected'
    BY <1>1, <1>6 DEF MarkedCollected, storeVars
  <1>10. QueuedHaveTickets'
    BY <1>1 DEF IInv, QueuedHaveTickets, Doomed, storeVars
  <1>11. ReadStillTrue'
    BY <1>1 DEF IInv, ReadStillTrue, Planned, storeVars
  <1> QED
    BY <1>8, <1>9, <1>10, <1>11 DEF IInv

\* The players of the deleted tickets were collected, so they are doomed now.
LEMMA DeleteMarkedIInv ==
    ASSUME IInv, DeleteMarked
    PROVE  IInv'
  <1>1. /\ pc = "deleteMarked" /\ pc' = "pullMarked"
        /\ tickets' = Without(tickets, batch.delete)
        /\ announced' = announced \ batch.delete
        /\ UNCHANGED <<serviceVars, requests, queued, pendingMatches, due, batch,
                       ticketMap, plan, faults>>
    BY DEF DeleteMarked
  <1>2. ServiceTypes /\ StoreTypes /\ RunTypes
    BY TypeParts DEF IInv
  <1>3. /\ DOMAIN tickets' = DOMAIN tickets \ batch.delete
        /\ \A t \in DOMAIN tickets' : tickets'[t] = tickets[t]
    BY <1>1 DEF Without
  <1>4. TypeOK'
    <2>1. StoreTypes'
      BY <1>1, <1>2, <1>3, WithoutIsMap DEF StoreTypes
    <2>2. RunTypes'
      BY <1>1, <1>2 DEF RunTypes, Calls
    <2> QED
      BY <1>1, <1>2, <2>1, <2>2, TypeParts, ServiceTypesKept
  <1>5. QueuedHaveTickets'
    BY <1>1, <1>3 DEF IInv, QueuedHaveTickets, MarkedCollected, Doomed
  <1>6. MarkedCollected' /\ ReadStillTrue'
    BY <1>1, <1>3 DEF IInv, MarkedCollected, ReadStillTrue, Planned
  <1> QED
    BY <1>4, <1>5, <1>6 DEF IInv

LEMMA PullMarkedIInv ==
    ASSUME IInv, PullMarked
    PROVE  IInv'
  <1>1. /\ pc = "pullMarked" /\ pc' = "resetRemovals"
        /\ pendingMatches' = [m \in DOMAIN pendingMatches |->
                                 Without(pendingMatches[m], batch.delete)]
        /\ UNCHANGED <<serviceVars, requests, tickets, queued, due, batch, ticketMap,
                       plan, announced, faults>>
    BY DEF PullMarked
  <1>2. ServiceTypes /\ StoreTypes /\ RunTypes
    BY TypeParts DEF IInv
  <1>3. IsMatchMap(pendingMatches')
    <2>1. \A m \in DOMAIN pendingMatches :
             IsMap(Without(pendingMatches[m], batch.delete), TicketIds, Nat \ {0})
      BY <1>2, WithoutIsMap DEF StoreTypes, IsMatchMap
    <2> QED
      BY <1>1, <1>2, <2>1 DEF StoreTypes, IsMatchMap
  <1>4. TypeOK'
    <2>1. StoreTypes'
      BY <1>1, <1>2, <1>3 DEF StoreTypes
    <2>2. RunTypes'
      BY <1>1, <1>2 DEF RunTypes, Calls
    <2> QED
      BY <1>1, <1>2, <2>1, <2>2, TypeParts, ServiceTypesKept
  <1>5. Related'
    BY <1>1, SameTicketPlayers DEF IInv, Related, Doomed, Planned
  <1> QED
    BY <1>4, <1>5 DEF IInv, Related

LEMMA ResetRemovalsIInv ==
    ASSUME IInv, ResetRemovals
    PROVE  IInv'
  <1>1. /\ pc = "resetRemovals" /\ pc' = "deletePlayers"
        /\ tickets' = [t \in DOMAIN tickets |->
                          IF t \in batch.reset
                          THEN [tickets[t] EXCEPT !.marked = FALSE, !.leaving = {}]
                          ELSE tickets[t]]
        /\ UNCHANGED <<serviceVars, requests, queued, pendingMatches, due, batch,
                       ticketMap, plan, announced, faults>>
    BY DEF ResetRemovals
  <1>2. ServiceTypes /\ StoreTypes /\ RunTypes
    BY TypeParts DEF IInv
  <1>3. IsMap(tickets, TicketIds, Ticket)
    BY <1>2 DEF StoreTypes
  <1>4. IsMap(tickets', TicketIds, Ticket)
    BY <1>1, <1>3 DEF IsMap, Ticket
  <1>5. /\ DOMAIN tickets' = DOMAIN tickets
        /\ \A t \in DOMAIN tickets : tickets'[t].players = tickets[t].players
    BY <1>1, <1>3 DEF IsMap, Ticket
  <1>6. TypeOK'
    <2>1. StoreTypes'
      BY <1>1, <1>2, <1>4, <1>5 DEF StoreTypes
    <2>2. RunTypes'
      BY <1>1, <1>2 DEF RunTypes, Calls
    <2> QED
      BY <1>1, <1>2, <2>1, <2>2, TypeParts, ServiceTypesKept
  <1>7. Related'
    BY <1>1, <1>5, SameTicketPlayers DEF IInv, Related, Doomed, Planned
  <1> QED
    BY <1>6, <1>7 DEF IInv, Related

\* Queued players that are deleted take their votes with them.
LEMMA QueuedWithout ==
    ASSUME NEW R, IsMap(queuedPlayers, Players, TicketIds), IsMap(votes, Players, Maps),
           DOMAIN votes \subseteq DOMAIN queuedPlayers
    PROVE  /\ IsMap(Without(queuedPlayers, R), Players, TicketIds)
           /\ IsMap(Without(votes, R), Players, Maps)
           /\ DOMAIN Without(votes, R) \subseteq DOMAIN Without(queuedPlayers, R)
  <1>1. /\ DOMAIN Without(votes, R) = DOMAIN votes \ R
        /\ DOMAIN Without(queuedPlayers, R) = DOMAIN queuedPlayers \ R
    BY DEF Without
  <1> QED
    BY <1>1, WithoutIsMap

LEMMA DeletePlayersIInv ==
    ASSUME IInv, DeletePlayers
    PROVE  IInv'
  <1>1. /\ pc = "deletePlayers" /\ pc' = "readTickets"
        /\ queuedPlayers' = Without(queuedPlayers, batch.players)
        /\ votes' = Without(votes, batch.players)
        /\ batch' = NoBatch
        /\ UNCHANGED <<serviceVars, requests, tickets, pendingMatches, due, ticketMap, plan,
                       announced, faults>>
    BY DEF DeletePlayers
  <1>2. ServiceTypes /\ StoreTypes /\ RunTypes
    BY TypeParts DEF IInv
  <1>3. TypeOK'
    <2>1. StoreTypes'
      BY <1>1, <1>2, QueuedWithout DEF StoreTypes
    <2>2. RunTypes'
      BY <1>1, <1>2 DEF RunTypes, Calls, NoBatch
    <2> QED
      BY <1>1, <1>2, <2>1, <2>2, TypeParts, ServiceTypesKept
  <1>4. QueuedHaveTickets'
    BY <1>1 DEF IInv, QueuedHaveTickets, Doomed, Without
  <1>5. MarkedCollected' /\ ReadStillTrue'
    BY <1>1 DEF IInv, MarkedCollected, ReadStillTrue, Planned
  <1> QED
    BY <1>3, <1>4, <1>5 DEF IInv

-----------------------------------------------------------------------------
LEMMA ReadTicketsIInv ==
    ASSUME IInv, ReadTickets
    PROVE  IInv'
  <1>1. /\ pc = "readTickets" /\ pc' = "cancel" /\ ticketMap' = tickets
        /\ UNCHANGED <<serviceVars, requests, storeVars, batch, plan, announced, faults>>
    BY DEF ReadTickets
  <1>2. ServiceTypes /\ StoreTypes /\ RunTypes
    BY TypeParts DEF IInv
  <1>3. TypeOK'
    <2>1. StoreTypes' /\ RunTypes'
      BY <1>1, <1>2 DEF StoreTypes, RunTypes, Calls, storeVars
    <2> QED
      BY <1>1, <1>2, <2>1, TypeParts, ServiceTypesKept
  <1>4. QueuedHaveTickets' /\ MarkedCollected'
    BY <1>1 DEF IInv, QueuedHaveTickets, MarkedCollected, Doomed, storeVars
  <1>5. ReadStillTrue'
    BY <1>1 DEF ReadStillTrue, Planned, storeVars
  <1> QED
    BY <1>3, <1>4, <1>5 DEF IInv

\* The matches of RunInstant are sets of the tickets it was given.
LEMMA InstantMatchesAreTickets ==
    ASSUME NEW size, NEW T, NEW order \in SetToSeqs(T)
    PROVE  \A k \in DOMAIN RunInstant(size, order) : RunInstant(size, order)[k] \subseteq T
  <1>1. \A i \in DOMAIN order : order[i] \in T
    BY DEF SetToSeqs
  <1> QED
    BY <1>1 DEF RunInstant

LEMMA ReadTicketsAndMatchIInv ==
    ASSUME IInv, ReadTicketsAndMatch
    PROVE  IInv'
  <1>1. /\ pc = "readTickets"
        /\ UNCHANGED <<serviceVars, requests, storeVars, announced, faults>>
    BY DEF ReadTicketsAndMatch
  <1>2. ServiceTypes /\ StoreTypes /\ RunTypes
    BY TypeParts DEF IInv
  <1>3. StoreTypes'
    BY <1>1, <1>2 DEF StoreTypes, storeVars
  <1> DEFINE Matched(made, ids) ==
                [m \in Range(ids) |->
                    WithTickets(Empty, made[CHOOSE i \in DOMAIN made : ids[i] = m])]
             Answered(made) ==
                IF made = <<>> THEN NextRun
                ELSE \E ids \in Injection(DOMAIN made, PendingMatchIds) :
                        /\ plan' = [NoPlan EXCEPT !.matches = Matched(made, ids)]
                        /\ ticketMap' = tickets
                        /\ pc' = AfterMatching
                        /\ UNCHANGED batch
  <1>4. \E order \in SetToSeqs(DOMAIN tickets) : Answered(RunInstant(Sizes(tickets), order))
    BY DEF ReadTicketsAndMatch
  <1>5. PICK order \in SetToSeqs(DOMAIN tickets) : Answered(RunInstant(Sizes(tickets), order))
    BY <1>4
  <1> DEFINE made == RunInstant(Sizes(tickets), order)
  <1>6. \A k \in DOMAIN made : made[k] \subseteq DOMAIN tickets
    BY InstantMatchesAreTickets
  <1> HIDE DEF made
  <1>7. Answered(made)
    BY <1>5 DEF made
  <1>8. CASE NextRun
    <2>1. RunTypes' /\ MarkedCollected' /\ ReadStillTrue' /\ Doomed' = {}
      BY <1>8, NextRunClears
    <2>2. QueuedHaveTickets'
      BY <1>1, <2>1 DEF IInv, QueuedHaveTickets, Doomed, storeVars
    <2> QED
      BY <1>1, <1>2, <1>3, <2>1, <2>2, TypeParts, ServiceTypesKept DEF IInv
  <1>9. CASE ~NextRun
    <2>1. PICK ids \in Injection(DOMAIN made, PendingMatchIds) :
             /\ plan' = [NoPlan EXCEPT !.matches = Matched(made, ids)]
             /\ ticketMap' = tickets
             /\ pc' \in {"maps", "announce"}
             /\ UNCHANGED batch
      BY <1>7, <1>9 DEF AfterMatching
    <2>2. \A m \in Range(ids) : /\ m \in PendingMatchIds
                                /\ made[CHOOSE i \in DOMAIN made : ids[i] = m]
                                     \subseteq DOMAIN tickets
      BY <1>6 DEF Injection, Range
    <2>3. DOMAIN tickets \subseteq TicketIds
      BY <1>2 DEF StoreTypes, IsMap
    <2>4. \A m \in Range(ids) : /\ IsMap(Matched(made, ids)[m], TicketIds, Nat \ {0})
                                /\ DOMAIN Matched(made, ids)[m] \subseteq DOMAIN tickets
      <3> SUFFICES ASSUME NEW m \in Range(ids),
                          NEW T, T = made[CHOOSE i \in DOMAIN made : ids[i] = m]
                   PROVE  /\ IsMap(WithTickets(Empty, T), TicketIds, Nat \ {0})
                          /\ DOMAIN WithTickets(Empty, T) \subseteq DOMAIN tickets
        OBVIOUS
      <3>1. T \subseteq DOMAIN tickets /\ T \in SUBSET TicketIds
        BY <2>2, <2>3
      <3>2. DOMAIN WithTickets(Empty, T) = T
        BY DEF WithTickets, Empty
      <3> QED
        BY <3>1, <3>2, EmptyIsMap, WithTicketsIsMap
    <2>5. IsMatchMap(Matched(made, ids))
      BY <2>2, <2>4 DEF IsMatchMap
    <2> HIDE DEF Matched
    <2>6. /\ plan'.matches = Matched(made, ids) /\ plan'.flags = Empty
          /\ plan'.updated = Empty /\ plan'.created = Empty /\ plan'.maps = Empty
          /\ plan'.removing = {} /\ DOMAIN plan' = DOMAIN NoPlan
      BY <2>1 DEF NoPlan
    <2>7. RunTypes'
      BY <1>2, <2>1, <2>5, <2>6, EmptyIsMap, EmptyIsMatchMap DEF RunTypes, StoreTypes, Calls
    <2>8. QueuedHaveTickets' /\ MarkedCollected'
      BY <1>1, <2>1 DEF IInv, QueuedHaveTickets, MarkedCollected, Doomed, storeVars
    <2>9. ReadStillTrue'
      <3>1. DOMAIN Matched(made, ids) = Range(ids)
        BY DEF Matched
      <3> QED
        BY <1>1, <2>1, <2>4, <2>6, <3>1 DEF ReadStillTrue, storeVars
    <2> QED
      BY <1>1, <1>2, <1>3, <2>7, <2>8, <2>9, TypeParts, ServiceTypesKept DEF IInv
  <1> QED
    BY <1>8, <1>9

\* What RunCountdown adds are tickets that were waiting.
LEMMA FillingsAreWaiting ==
    ASSUME NEW size, NEW waiting, NEW matches, NEW added \in Fillings(size, waiting, matches)
    PROVE  added \in [DOMAIN matches -> SUBSET waiting]
  BY DEF Fillings

LEMMA NewMatchesAreWaiting ==
    ASSUME NEW size, NEW left, NEW new \in NewMatches(size, left)
    PROVE  new.tickets \subseteq left
  BY DEF NewMatches, Packs

LEMMA CancelAndPlanIInv ==
    ASSUME IInv, CancelAndPlan
    PROVE  IInv'
  <1> DEFINE valid == Without(pendingMatches, Cancelled)
             freed == {t \in DOMAIN ticketMap : \E m \in Cancelled : t \in DOMAIN pendingMatches[m]}
             waiting == freed \cup {t \in DOMAIN ticketMap : ~ticketMap[t].inPendingMatch}
  <1>1. /\ pc = "cancel" /\ pc' = "update" /\ pendingMatches' = valid
        /\ due' = due \ Cancelled
        /\ UNCHANGED <<serviceVars, requests, tickets, queued, batch, ticketMap,
                       announced, faults>>
    BY DEF CancelAndPlan
  <1>2. ServiceTypes /\ StoreTypes /\ RunTypes
    BY TypeParts DEF IInv
  <1>3. DOMAIN ticketMap \subseteq TicketIds /\ freed \subseteq DOMAIN ticketMap
        /\ waiting \subseteq DOMAIN ticketMap
    BY <1>2 DEF RunTypes, IsMap
  <1>4. IsMatchMap(valid) /\ DOMAIN valid = DOMAIN pendingMatches \ Cancelled
    BY <1>2, WithoutIsMatchMap DEF StoreTypes, Without
  <1> DEFINE filled(added) == [m \in DOMAIN valid |-> WithTickets(valid[m], added[m])]
             placed(added, new) == new.tickets \cup UNION Range(added)
             finished(added) == Restrict(filled(added), due \cap DOMAIN valid)
             Answer(added, new, ids) ==
                 /\ Known(finished(added))
                 /\ plan' = [flags |-> [t \in freed \cup placed(added, new) |->
                                          t \in placed(added, new)],
                             updated |-> Restrict(filled(added),
                                                  {m \in DOMAIN valid : added[m] # {}}),
                             created |-> [m \in ids |-> WithTickets(Empty, new.tickets)],
                             matches |-> finished(added),
                             maps |-> Empty,
                             removing |-> {}]
  <1>5. \E added \in Fillings(Size, waiting, valid) :
        \E new \in NewMatches(Size, waiting \ UNION Range(added)) :
        \E ids \in kSubset(new.copies, PendingMatchIds \ DOMAIN pendingMatches) :
           Answer(added, new, ids)
    BY DEF CancelAndPlan
  <1>6. PICK added \in Fillings(Size, waiting, valid) :
        \E new \in NewMatches(Size, waiting \ UNION Range(added)) :
        \E ids \in kSubset(new.copies, PendingMatchIds \ DOMAIN pendingMatches) :
           Answer(added, new, ids)
    BY <1>5
  <1>7. PICK new \in NewMatches(Size, waiting \ UNION Range(added)) :
        \E ids \in kSubset(new.copies, PendingMatchIds \ DOMAIN pendingMatches) :
           Answer(added, new, ids)
    BY <1>6
  <1>8. PICK ids \in kSubset(new.copies, PendingMatchIds \ DOMAIN pendingMatches) :
           Answer(added, new, ids)
    BY <1>7
  <1>9. /\ added \in [DOMAIN valid -> SUBSET waiting]
        /\ new.tickets \subseteq waiting
    BY FillingsAreWaiting, NewMatchesAreWaiting
  <1>10. placed(added, new) \subseteq DOMAIN ticketMap
    BY <1>3, <1>9 DEF Range
  <1>11. \A m \in DOMAIN valid : IsMap(filled(added)[m], TicketIds, Nat \ {0})
    <2> SUFFICES ASSUME NEW m \in DOMAIN valid
                 PROVE  IsMap(WithTickets(valid[m], added[m]), TicketIds, Nat \ {0})
      OBVIOUS
    <2>1. IsMap(valid[m], TicketIds, Nat \ {0})
      BY <1>4 DEF IsMatchMap
    <2>2. added[m] \in SUBSET TicketIds
      BY <1>3, <1>9
    <2> QED
      BY <2>1, <2>2, WithTicketsIsMap
  <1>12. DOMAIN filled(added) \subseteq PendingMatchIds
    BY <1>4 DEF IsMatchMap
  <1>13. IsMap(WithTickets(Empty, new.tickets), TicketIds, Nat \ {0})
    <2>1. new.tickets \in SUBSET TicketIds
      BY <1>3, <1>9
    <2> QED
      BY <2>1, EmptyIsMap, WithTicketsIsMap
  <1>14. ids \subseteq PendingMatchIds
    BY DEF kSubset
  <1> HIDE DEF valid, freed, waiting, filled, placed
  <1>15. DOMAIN filled(added) = DOMAIN valid
    BY DEF filled
  <1>16. RunTypes'
    <2>1. IsMap(plan'.flags, TicketIds, BOOLEAN)
      BY <1>3, <1>8, <1>10 DEF IsMap
    <2>2. IsMatchMap(plan'.updated) /\ IsMatchMap(plan'.matches)
      BY <1>8, <1>11, <1>12, <1>15 DEF IsMatchMap, Restrict
    <2>3. IsMatchMap(plan'.created)
      BY <1>8, <1>13, <1>14 DEF IsMatchMap
    <2>4. /\ plan'.removing \subseteq Players /\ DOMAIN plan' = DOMAIN NoPlan
          /\ IsMap(plan'.maps, PendingMatchIds, Maps)
      BY <1>8, EmptyIsMap DEF NoPlan
    <2> QED
      BY <1>1, <1>2, <2>1, <2>2, <2>3, <2>4 DEF RunTypes, Calls
  <1>17. StoreTypes'
    BY <1>1, <1>2, <1>4 DEF StoreTypes
  <1>18. QueuedHaveTickets' /\ MarkedCollected'
    BY <1>1 DEF IInv, QueuedHaveTickets, MarkedCollected, Doomed
  <1>19. ReadStillTrue'
    BY <1>1, <1>8 DEF IInv, ReadStillTrue, Known
  <1> QED
    BY <1>1, <1>2, <1>16, <1>17, <1>18, <1>19, TypeParts, ServiceTypesKept DEF IInv

-----------------------------------------------------------------------------
LEMMA PanicIInv ==
    ASSUME IInv, Panic
    PROVE  IInv'
  <1>1. /\ pc = "cancel" /\ pc' = "panicked" /\ requests' = Empty
        /\ UNCHANGED <<serviceVars, tickets, queued, batch, ticketMap, plan, announced,
                       faults>>
    BY DEF Panic
  <1>2. ServiceTypes /\ StoreTypes /\ RunTypes
    BY TypeParts DEF IInv
  <1>3. IsMatchMap(pendingMatches') /\ due' \subseteq DOMAIN pendingMatches'
    <2>1. CASE UNCHANGED <<pendingMatches, due>>
      BY <1>2, <2>1 DEF StoreTypes
    <2>2. CASE /\ pendingMatches' = Without(pendingMatches, Cancelled)
               /\ due' = due \ Cancelled
      BY <1>2, <2>2, WithoutIsMatchMap DEF StoreTypes, Without
    <2> QED
      BY <2>1, <2>2 DEF Panic
  <1>4. TypeOK'
    <2>1. ServiceTypes'
      BY <1>1, <1>2, EmptyIsMap DEF ServiceTypes, serviceVars
    <2>2. StoreTypes' /\ RunTypes'
      BY <1>1, <1>2, <1>3 DEF StoreTypes, RunTypes
    <2> QED
      BY <2>1, <2>2, TypeParts
  <1>5. Related'
    BY <1>1, SameTicketPlayers DEF IInv, Related, Doomed, Planned
  <1> QED
    BY <1>4, <1>5 DEF IInv, Related

LEMMA UpdatePendingMatchesIInv ==
    ASSUME IInv, UpdatePendingMatches
    PROVE  IInv'
  <1>1. /\ pc = "update" /\ pc' = "create"
        /\ pendingMatches' = [m \in DOMAIN pendingMatches |->
                                 IF m \in DOMAIN plan.updated THEN plan.updated[m]
                                 ELSE pendingMatches[m]]
        /\ UNCHANGED <<serviceVars, requests, tickets, queued, due, batch, ticketMap,
                       plan, announced, faults>>
    BY DEF UpdatePendingMatches
  <1>2. ServiceTypes /\ StoreTypes /\ RunTypes
    BY TypeParts DEF IInv
  <1>3. IsMatchMap(pendingMatches') /\ DOMAIN pendingMatches' = DOMAIN pendingMatches
    BY <1>1, <1>2 DEF StoreTypes, RunTypes, IsMatchMap
  <1>4. TypeOK'
    <2>1. StoreTypes' /\ RunTypes'
      BY <1>1, <1>2, <1>3 DEF StoreTypes, RunTypes, Calls
    <2> QED
      BY <1>1, <1>2, <2>1, TypeParts, ServiceTypesKept
  <1>5. Related'
    BY <1>1, SameTicketPlayers DEF IInv, Related, Doomed, Planned
  <1> QED
    BY <1>4, <1>5 DEF IInv, Related

LEMMA CreatePendingMatchesIInv ==
    ASSUME IInv, CreatePendingMatches
    PROVE  IInv'
  <1>1. /\ pc = "create" /\ pc' = "deleteFinished"
        /\ pendingMatches' = Overlay(plan.created, pendingMatches)
        /\ UNCHANGED <<serviceVars, requests, tickets, queued, due, batch, ticketMap,
                       plan, announced, faults>>
    BY DEF CreatePendingMatches
  <1>2. ServiceTypes /\ StoreTypes /\ RunTypes
    BY TypeParts DEF IInv
  <1>3. IsMatchMap(pendingMatches') /\ DOMAIN pendingMatches \subseteq DOMAIN pendingMatches'
    BY <1>1, <1>2 DEF StoreTypes, RunTypes, IsMatchMap, Overlay
  <1>4. TypeOK'
    <2>1. StoreTypes' /\ RunTypes'
      BY <1>1, <1>2, <1>3 DEF StoreTypes, RunTypes, Calls
    <2> QED
      BY <1>1, <1>2, <2>1, TypeParts, ServiceTypesKept
  <1>5. Related'
    BY <1>1, SameTicketPlayers DEF IInv, Related, Doomed, Planned
  <1> QED
    BY <1>4, <1>5 DEF IInv, Related

LEMMA DeleteFinishedIInv ==
    ASSUME IInv, DeleteFinished
    PROVE  IInv'
  <1>1. /\ pc = "deleteFinished" /\ pc' = "flag"
        /\ pendingMatches' = Without(pendingMatches, DOMAIN plan.matches)
        /\ due' = due \ DOMAIN plan.matches
        /\ UNCHANGED <<serviceVars, requests, tickets, queued, batch, ticketMap, plan,
                       announced, faults>>
    BY DEF DeleteFinished
  <1>2. ServiceTypes /\ StoreTypes /\ RunTypes
    BY TypeParts DEF IInv
  <1>3. IsMatchMap(pendingMatches') /\ due' \subseteq DOMAIN pendingMatches'
    BY <1>1, <1>2, WithoutIsMatchMap DEF StoreTypes, Without
  <1>4. TypeOK'
    <2>1. StoreTypes' /\ RunTypes'
      BY <1>1, <1>2, <1>3 DEF StoreTypes, RunTypes, Calls
    <2> QED
      BY <1>1, <1>2, <2>1, TypeParts, ServiceTypesKept
  <1>5. Related'
    BY <1>1, SameTicketPlayers DEF IInv, Related, Doomed, Planned
  <1> QED
    BY <1>4, <1>5 DEF IInv, Related

LEMMA FlagTicketsIInv ==
    ASSUME IInv, FlagTickets
    PROVE  IInv'
  <1>1. /\ pc = "flag"
        /\ tickets' = [t \in DOMAIN tickets |->
                          IF t \in DOMAIN plan.flags
                          THEN [tickets[t] EXCEPT !.inPendingMatch = plan.flags[t]]
                          ELSE tickets[t]]
        /\ NextRun \/ (pc' \in {"maps", "announce"} /\ UNCHANGED <<batch, ticketMap, plan>>)
        /\ UNCHANGED <<serviceVars, requests, queued, pendingMatches, due, announced,
                       faults>>
    BY DEF FlagTickets, AfterMatching
  <1>2. ServiceTypes /\ StoreTypes /\ RunTypes
    BY TypeParts DEF IInv
  <1>3. IsMap(tickets, TicketIds, Ticket) /\ IsMap(plan.flags, TicketIds, BOOLEAN)
    BY <1>2 DEF StoreTypes, RunTypes
  <1>4. /\ IsMap(tickets', TicketIds, Ticket) /\ DOMAIN tickets' = DOMAIN tickets
        /\ \A t \in DOMAIN tickets : tickets'[t].players = tickets[t].players
    BY <1>1, <1>3 DEF IsMap, Ticket
  <1>5. ServiceTypes' /\ StoreTypes'
    BY <1>1, <1>2, <1>4, ServiceTypesKept DEF StoreTypes
  <1>6. CASE NextRun
    <2>1. RunTypes' /\ MarkedCollected' /\ ReadStillTrue' /\ Doomed' = {}
      BY <1>6, NextRunClears
    <2>2. QueuedHaveTickets'
      BY <1>1, <1>4, <2>1 DEF IInv, QueuedHaveTickets, Doomed
    <2> QED
      BY <1>5, <2>1, <2>2, TypeParts DEF IInv
  <1>7. CASE pc' \in {"maps", "announce"} /\ UNCHANGED <<batch, ticketMap, plan>>
    <2>1. RunTypes'
      BY <1>2, <1>7 DEF RunTypes, Calls
    <2>2. Related'
      BY <1>1, <1>4, <1>7, SameTicketPlayers DEF IInv, Related, Doomed, Planned
    <2> QED
      BY <1>5, <2>1, <2>2, TypeParts DEF IInv, Related
  <1> QED
    BY <1>1, <1>6, <1>7

\* A drawn map is one the mode has: the votes are for its maps.
LEMMA PoolsAreMaps ==
    ASSUME IsMap(votes, Players, Maps), NEW S,
           NEW pool \in MapPools(CountVotes(GetAllQueuedPlayersByIds(S)), Maps)
    PROVE  pool \subseteq Maps
  <1> DEFINE counts == CountVotes(GetAllQueuedPlayersByIds(S))
  <1>1. DOMAIN counts \subseteq Maps
    BY DEF CountVotes, GetAllQueuedPlayersByIds, Restrict, Range, IsMap
  <1> HIDE DEF counts
  <1>2. PICK order \in SetToSeqs(DOMAIN counts) :
           pool = IF DOMAIN counts = {} THEN Maps ELSE MostVoted(counts, order)
    BY DEF MapPools, counts
  <1>3. \A i \in DOMAIN order : order[i] \in DOMAIN counts
    BY DEF SetToSeqs
  <1>4. MostVoted(counts, order) \subseteq DOMAIN counts
    BY <1>3 DEF MostVoted
  <1> QED
    BY <1>1, <1>2, <1>4

LEMMA CalculateMapIInv ==
    ASSUME IInv, CalculateMap
    PROVE  IInv'
  <1>1. PICK m \in DOMAIN plan.matches \ DOMAIN plan.maps :
        \E pool \in MapPools(CountVotes(GetAllQueuedPlayersByIds(PlayersIn(m))), Maps) :
        \E map \in pool :
          LET maps == Overlay([x \in {m} |-> map], plan.maps)
          IN  /\ plan' = [plan EXCEPT !.maps = maps]
              /\ pc' = IF DOMAIN maps = DOMAIN plan.matches THEN "announce" ELSE "maps"
    BY DEF CalculateMap
  <1>2. PICK pool \in MapPools(CountVotes(GetAllQueuedPlayersByIds(PlayersIn(m))), Maps) :
        \E map \in pool :
          LET maps == Overlay([x \in {m} |-> map], plan.maps)
          IN  /\ plan' = [plan EXCEPT !.maps = maps]
              /\ pc' = IF DOMAIN maps = DOMAIN plan.matches THEN "announce" ELSE "maps"
    BY <1>1
  <1>3. PICK map \in pool :
          /\ plan' = [plan EXCEPT !.maps = Overlay([x \in {m} |-> map], plan.maps)]
          /\ pc' \in {"maps", "announce"}
    BY <1>2
  <1>4. /\ pc = "maps"
        /\ UNCHANGED <<serviceVars, requests, storeVars, batch, ticketMap, announced, faults>>
    BY DEF CalculateMap
  <1>5. ServiceTypes /\ StoreTypes /\ RunTypes
    BY TypeParts DEF IInv
  <1>6. map \in Maps /\ m \in PendingMatchIds
    BY <1>5, PoolsAreMaps DEF StoreTypes, RunTypes, IsMatchMap
  <1>7. IsMap(Overlay([x \in {m} |-> map], plan.maps), PendingMatchIds, Maps)
    <2>1. IsMap([x \in {m} |-> map], PendingMatchIds, Maps)
      BY <1>6 DEF IsMap
    <2> QED
      BY <1>5, <2>1, OverlayIsMap DEF RunTypes
  <1>8. /\ plan'.flags = plan.flags /\ plan'.updated = plan.updated
        /\ plan'.created = plan.created /\ plan'.matches = plan.matches
        /\ plan'.removing = plan.removing /\ DOMAIN plan' = DOMAIN NoPlan
        /\ IsMap(plan'.maps, PendingMatchIds, Maps)
    BY <1>3, <1>5, <1>7 DEF RunTypes, NoPlan
  <1>9. StoreTypes' /\ RunTypes'
    BY <1>3, <1>4, <1>5, <1>8 DEF StoreTypes, RunTypes, Calls, storeVars
  <1>10. QueuedHaveTickets' /\ MarkedCollected'
    BY <1>3, <1>4 DEF IInv, QueuedHaveTickets, MarkedCollected, Doomed, storeVars
  <1>11. ReadStillTrue'
    BY <1>3, <1>4, <1>8 DEF IInv, ReadStillTrue, Planned, storeVars
  <1> QED
    BY <1>4, <1>5, <1>9, <1>10, <1>11, TypeParts, ServiceTypesKept DEF IInv

LEMMA AnnounceMatchesIInv ==
    ASSUME IInv, AnnounceMatches
    PROVE  IInv'
  <1>1. /\ pc = "announce" /\ pc' = "deleteTickets"
        /\ announced' = announced \cup (MatchTickets \cap DOMAIN tickets)
        /\ UNCHANGED <<serviceVars, requests, storeVars, batch, ticketMap, plan, faults>>
    BY DEF AnnounceMatches
  <1>2. ServiceTypes /\ StoreTypes /\ RunTypes
    BY TypeParts DEF IInv
  <1>3. TypeOK'
    <2>1. StoreTypes' /\ RunTypes'
      BY <1>1, <1>2 DEF StoreTypes, RunTypes, Calls, storeVars
    <2> QED
      BY <1>1, <1>2, <2>1, TypeParts, ServiceTypesKept
  <1>4. Related'
    BY <1>1, SameTicketPlayers DEF IInv, Related, Doomed, Planned, storeVars
  <1> QED
    BY <1>3, <1>4 DEF IInv, Related

-----------------------------------------------------------------------------
\* The players of the deleted tickets are those the run has read of them, so
\* they are doomed now.
LEMMA DeleteTicketsIInv ==
    ASSUME IInv, DeleteTickets
    PROVE  IInv'
  <1>1. PICK m \in DOMAIN plan.matches :
           LET own == DOMAIN plan.matches[m]
           IN  /\ tickets' = Without(tickets, own)
               /\ announced' = announced \ own
               /\ plan' = [plan EXCEPT !.matches = Without(@, {m}),
                                       !.removing = UNION {ticketMap[t].players : t \in own}]
    BY DEF DeleteTickets
  <1>2. /\ pc = "deleteTickets" /\ pc' = "deleteMatched"
        /\ UNCHANGED <<serviceVars, requests, queued, pendingMatches, due, batch,
                       ticketMap, faults>>
    BY DEF DeleteTickets
  <1> DEFINE own == DOMAIN plan.matches[m]
             gone == UNION {ticketMap[t].players : t \in own}
  <1>3. ServiceTypes /\ StoreTypes /\ RunTypes
    BY TypeParts DEF IInv
  <1>4. own \subseteq DOMAIN ticketMap
    BY <1>2 DEF IInv, ReadStillTrue, Planned
  <1>5. \A t \in DOMAIN ticketMap : ticketMap[t].players \subseteq Players
    BY <1>3 DEF RunTypes, IsMap, Ticket
  <1>6. gone \subseteq Players /\ \A t \in own : ticketMap[t].players \subseteq gone
    BY <1>4, <1>5
  <1> HIDE DEF own, gone
  <1>7. /\ tickets' = Without(tickets, own) /\ announced' = announced \ own
        /\ plan' = [plan EXCEPT !.matches = Without(@, {m}), !.removing = gone]
    BY <1>1 DEF own, gone
  <1>8. /\ DOMAIN tickets' = DOMAIN tickets \ own
        /\ \A t \in DOMAIN tickets' : tickets'[t] = tickets[t]
    BY <1>7 DEF Without
  <1>9. StoreTypes'
    BY <1>2, <1>3, <1>7, <1>8, WithoutIsMap DEF StoreTypes
  <1>10. /\ plan'.flags = plan.flags /\ plan'.updated = plan.updated
         /\ plan'.created = plan.created /\ plan'.maps = plan.maps
         /\ plan'.matches = Without(plan.matches, {m}) /\ plan'.removing = gone
         /\ DOMAIN plan' = DOMAIN NoPlan
    BY <1>3, <1>7 DEF RunTypes, NoPlan
  <1>11. RunTypes'
    BY <1>2, <1>3, <1>6, <1>10, WithoutIsMatchMap DEF RunTypes, Calls
  <1>12. QueuedHaveTickets'
    <2> SUFFICES ASSUME faults = 0, NEW p \in DOMAIN queuedPlayers \ gone
                 PROVE  /\ queuedPlayers[p] \in DOMAIN tickets'
                        /\ p \in tickets'[queuedPlayers[p]].players
      BY <1>2, <1>10 DEF QueuedHaveTickets, Doomed
    <2>1. /\ queuedPlayers[p] \in DOMAIN tickets
          /\ p \in tickets[queuedPlayers[p]].players
      BY <1>2 DEF IInv, QueuedHaveTickets, Doomed
    <2>2. queuedPlayers[p] \notin own
      BY <1>4, <1>6, <2>1 DEF IInv, ReadStillTrue
    <2> QED
      BY <1>8, <2>1, <2>2
  <1>13. MarkedCollected' /\ ReadStillTrue'
    BY <1>2, <1>8, <1>10 DEF IInv, MarkedCollected, ReadStillTrue, Planned, Without
  <1> QED
    BY <1>2, <1>3, <1>9, <1>11, <1>12, <1>13, TypeParts, ServiceTypesKept DEF IInv

LEMMA DeleteMatchedIInv ==
    ASSUME IInv, DeleteMatched
    PROVE  IInv'
  <1>1. /\ pc = "deleteMatched"
        /\ queuedPlayers' = Without(queuedPlayers, plan.removing)
        /\ votes' = Without(votes, plan.removing)
        /\ NextRun \/ (pc' = "deleteTickets" /\ UNCHANGED <<batch, ticketMap, plan>>)
        /\ UNCHANGED <<serviceVars, requests, tickets, pendingMatches, due, announced, faults>>
    BY DEF DeleteMatched
  <1>2. ServiceTypes /\ StoreTypes /\ RunTypes
    BY TypeParts DEF IInv
  <1>3. ServiceTypes' /\ StoreTypes'
    BY <1>1, <1>2, QueuedWithout, ServiceTypesKept DEF StoreTypes
  <1>4. CASE NextRun
    <2>1. RunTypes' /\ MarkedCollected' /\ ReadStillTrue' /\ Doomed' = {}
      BY <1>4, NextRunClears
    <2>2. QueuedHaveTickets'
      BY <1>1, <2>1 DEF IInv, QueuedHaveTickets, Doomed, Without
    <2> QED
      BY <1>3, <2>1, <2>2, TypeParts DEF IInv
  <1>5. CASE pc' = "deleteTickets" /\ UNCHANGED <<batch, ticketMap, plan>>
    <2>1. RunTypes'
      BY <1>2, <1>5 DEF RunTypes, Calls
    <2>2. QueuedHaveTickets'
      BY <1>1, <1>5 DEF IInv, QueuedHaveTickets, Doomed, Without
    <2>3. MarkedCollected' /\ ReadStillTrue'
      BY <1>1, <1>5 DEF IInv, MarkedCollected, ReadStillTrue, Planned
    <2> QED
      BY <1>3, <2>1, <2>2, <2>3, TypeParts DEF IInv
  <1> QED
    BY <1>1, <1>4, <1>5

LEMMA DirectorIInv ==
    ASSUME IInv, Director
    PROVE  IInv'
  BY ReadDequeuesIInv, DeleteMarkedIInv, PullMarkedIInv, ResetRemovalsIInv, DeletePlayersIInv,
     ReadTicketsIInv, ReadTicketsAndMatchIInv, CancelAndPlanIInv, CalculateMapIInv, PanicIInv, UpdatePendingMatchesIInv,
     CreatePendingMatchesIInv, DeleteFinishedIInv, FlagTicketsIInv, AnnounceMatchesIInv,
     DeleteTicketsIInv, DeleteMatchedIInv
     DEF Director

-----------------------------------------------------------------------------
LEMMA TeleportIInv ==
    ASSUME IInv, NEW m \in PendingMatchIds, TeleportTimePasses(m)
    PROVE  IInv'
  BY DEF IInv, TypeOK, QueuedHaveTickets, MarkedCollected, ReadStillTrue, Doomed, Planned,
         TeleportTimePasses, serviceVars, directorVars

\* A failed call or a crash leaves the collections as they are, and from then
\* on queued players may be left behind.
LEMMA FaultsIInv ==
    ASSUME IInv, Faults
    PROVE  IInv'
  <1>1. NextRun /\ UNCHANGED <<serviceVars, storeVars, announced>>
    BY DEF Faults, CallFails, Crash, RestartAfterPanic
  <1>2. RunTypes' /\ MarkedCollected' /\ ReadStillTrue' /\ Doomed' = {}
    BY <1>1, NextRunClears
  <1>3. ServiceTypes /\ StoreTypes /\ RunTypes
    BY TypeParts DEF IInv
  <1>4. StoreTypes'
    BY <1>1, <1>3 DEF StoreTypes, storeVars
  <1>5. CASE RestartAfterPanic
    <2>1. pc = "panicked" /\ UNCHANGED <<serviceVars, requests, storeVars, faults>>
      BY <1>5 DEF RestartAfterPanic
    <2>2. ServiceTypes' /\ QueuedHaveTickets'
      BY <1>2, <1>3, <2>1, ServiceTypesKept DEF IInv, QueuedHaveTickets, Doomed, storeVars
    <2> QED
      BY <1>2, <1>4, <2>2, TypeParts DEF IInv
  <1>6. CASE CallFails \/ Crash
    <2>1. faults < FaultBudget /\ faults' = faults + 1 /\ requests' \in {requests, Empty}
      BY <1>6 DEF CallFails, Crash
    <2>2. faults' \in 0 .. FaultBudget /\ faults' # 0
      BY <1>3, <2>1, MatchmakerAssumption DEF ServiceTypes
    <2>3. ServiceTypes'
      BY <1>1, <1>3, <2>1, <2>2, EmptyIsMap DEF ServiceTypes, serviceVars
    <2>4. QueuedHaveTickets'
      BY <2>2 DEF QueuedHaveTickets
    <2> QED
      BY <1>2, <1>4, <2>3, <2>4, TypeParts DEF IInv
  <1> QED
    BY <1>5, <1>6 DEF Faults

LEMMA NextIInv == IInv /\ [Next]_vars => IInv'
  <1> SUFFICES ASSUME IInv, [Next]_vars PROVE IInv'
    OBVIOUS
  <1>1. CASE Handlers
    BY <1>1, QueueReadsIInv, CreateTicketIInv, DequeueIInv, ChangeVoteIInv
       DEF Handlers
  <1>2. CASE UNCHANGED vars
    BY <1>2 DEF IInv, TypeOK, QueuedHaveTickets, MarkedCollected, ReadStillTrue, Doomed,
                Planned, vars, serviceVars, storeVars, directorVars
  <1> QED
    BY <1>1, <1>2, PartyServiceIInv, ConsumerIInv, DirectorIInv, TeleportIInv, FaultsIInv
       DEF Next

-----------------------------------------------------------------------------
\* The inductive invariant holds: what the queue's collections say of each
\* other between any two repository calls of the director.
THEOREM Invariance == Spec => []IInv
  BY InitIInv, NextIInv, PTL DEF Spec

\* Every variable keeps its type; in particular the teleport times that have
\* passed and the announced tickets are those of documents that exist.
THEOREM TypeCorrect == Spec => []TypeOK
  <1>1. IInv => TypeOK
    BY DEF IInv
  <1> QED
    BY <1>1, Invariance, PTL

\* Between two runs of the director, unless a call failed, every queued player
\* has his ticket and is one of its players, however the handlers and the
\* consumer of the party topic interleave with the director's calls.
THEOREM QueuedPlayersHaveTickets == Spec => []NoOrphanQueuedPlayer
  <1>1. IInv => NoOrphanQueuedPlayer
    BY DEF IInv, QueuedHaveTickets, Doomed, NoOrphanQueuedPlayer, BetweenRuns
  <1> QED
    BY <1>1, Invariance, PTL

-----------------------------------------------------------------------------
(* Induction over numbers and over finite sets, as facts about sets.       *)

LEMMA UpTo ==
    ASSUME NEW n \in Nat, NEW S, 0 \in S, \A i \in 1 .. n : i - 1 \in S => i \in S
    PROVE  0 .. n \subseteq S
<1> DEFINE Rest == (0 .. n) \ S
<1> SUFFICES ASSUME Rest # {} PROVE FALSE
  OBVIOUS
<1>1. PICK i \in Rest : \A j \in Rest : ~ (<<j, i>> \in OpToRel(<, Nat))
  <2>1. Rest \subseteq Nat
    OBVIOUS
  <2> HIDE DEF Rest
  <2> QED
    BY <2>1, NatLessThanWellFounded, WFMin
<1>2. i \in 1 .. n /\ i - 1 \in 0 .. n /\ i - 1 < i
  OBVIOUS
<1>3. <<i - 1, i>> \in OpToRel(<, Nat)
  <2>1. <<i - 1, i>> \in Nat \X Nat /\ i - 1 < i
    BY <1>2
  <2> QED
    BY <2>1 DEF OpToRel
<1>4. i - 1 \notin Rest
  BY <1>1, <1>3
<1> QED
  BY <1>2, <1>4

LEMMA BySubsets ==
    ASSUME NEW S, IsFiniteSet(S), NEW G,
           \A T \in SUBSET S : (\A U \in SUBSET T : U # T => U \in G) => T \in G
    PROVE  SUBSET S \subseteq G
<1> DEFINE Rest == (SUBSET S) \ G
<1> SUFFICES ASSUME Rest # {} PROVE FALSE
  OBVIOUS
<1>1. PICK T \in Rest : \A U \in Rest : ~ (<<U, T>> \in StrictSubsetOrdering(S))
  <2>1. Rest \subseteq FiniteSubsetsOf(S)
    BY FS_Subset DEF FiniteSubsetsOf
  <2>2. IsWellFoundedOn(StrictSubsetOrdering(S), FiniteSubsetsOf(S))
    BY FS_StrictSubsetOrderingWellFounded
  <2> HIDE DEF Rest
  <2> QED
    BY <2>1, <2>2, WFMin
<1>2. \A U \in SUBSET T : U # T => U \in G
  BY <1>1 DEF StrictSubsetOrdering
<1> QED
  BY <1>2

\* f is defined by recursion over 0 .. n.
Recursive(f, n, S, base, step) ==
    f \in [0 .. n -> S] /\ f[0] = base /\ \A i \in 1 .. n : f[i] = step[<<f[i - 1], i>>]

\* A function defined by recursion over 0 .. n exists.
LEMMA RecursionExists ==
    ASSUME NEW n \in Nat, NEW S, NEW base \in S, NEW step \in [S \X (1 .. n) -> S]
    PROVE  \E f : Recursive(f, n, S, base, step)
<1> DEFINE IsRec(f, k) == f[0] = base /\ \A i \in 1 .. k : f[i] = step[<<f[i - 1], i>>]
           Good == {k \in 0 .. n : \E f \in [0 .. k -> S] : IsRec(f, k)}
<1>1. 0 \in Good
  <2> DEFINE f == [i \in 0 .. 0 |-> base]
  <2>1. f \in [0 .. 0 -> S] /\ IsRec(f, 0)
    OBVIOUS
  <2> HIDE DEF f
  <2> QED
    BY <2>1
<1>2. ASSUME NEW k \in 1 .. n, k - 1 \in Good PROVE k \in Good
  <2>1. PICK f \in [0 .. k - 1 -> S] : IsRec(f, k - 1)
    BY <1>2
  <2> DEFINE g == [i \in 0 .. k |-> IF i = k THEN step[<<f[k - 1], k>>] ELSE f[i]]
  <2>2. f[k - 1] \in S /\ step[<<f[k - 1], k>>] \in S
    BY <1>2, <2>1
  <2>3. g \in [0 .. k -> S]
    BY <2>1, <2>2
  <2>4. g[0] = base
    BY <1>2, <2>1
  <2>5. ASSUME NEW i \in 1 .. k PROVE g[i] = step[<<g[i - 1], i>>]
    <3>1. CASE i = k
      BY <1>2, <3>1
    <3>2. CASE i # k
      BY <1>2, <2>1, <3>2
    <3> QED
      BY <3>1, <3>2
  <2>6. IsRec(g, k)
    BY <2>4, <2>5
  <2> HIDE DEF g
  <2> QED
    BY <1>2, <2>3, <2>6
<1>3. n \in Good
  <2>1. 0 .. n \subseteq Good
    BY <1>1, <1>2, UpTo
  <2> QED
    BY <2>1
<1> QED
  BY <1>3 DEF Recursive

-----------------------------------------------------------------------------
(* The players of some tickets: a seat for each.                           *)

Seats(size, T) == UNION {{t} \X (1 .. size[t]) : t \in T}

LEMMA SeatsAdd ==
    ASSUME NEW size, NEW T, IsFiniteSet(T), \A t \in T : size[t] \in Nat, NEW x \in T
    PROVE  /\ Cardinality(Seats(size, T)) = size[x] + Cardinality(Seats(size, T \ {x}))
           /\ IsFiniteSet(Seats(size, T))
<1> DEFINE Of(t) == {t} \X (1 .. size[t])
<1>1. ASSUME NEW t \in T PROVE IsFiniteSet(Of(t)) /\ Cardinality(Of(t)) = size[t]
  <2>0. size[t] \in Nat
    OBVIOUS
  <2> DEFINE n == size[t]
             I == 1 .. n
  <2> HIDE DEF n
  <2>1. IsFiniteSet(I) /\ Cardinality(I) = n /\ n \in Nat
    <3>1. n \in Nat
      BY <2>0 DEF n
    <3>2. Cardinality(1 .. n) = IF 1 > n THEN 0 ELSE n - 1 + 1
      BY <3>1, FS_Interval
    <3> QED
      BY <3>1, <3>2, FS_Interval
  <2>2. IsFiniteSet({t}) /\ Cardinality({t}) = 1
    BY FS_Singleton
  <2> HIDE DEF I
  <2>3. IsFiniteSet({t} \X I) /\ Cardinality({t} \X I) = Cardinality({t}) * Cardinality(I)
    BY <2>1, <2>2, FS_Product
  <2>4. IsFiniteSet({t} \X I) /\ Cardinality({t} \X I) = n
    BY <2>1, <2>2, <2>3
  <2> QED
    BY <2>4 DEF I, n
<1>2. ASSUME NEW U \in SUBSET T PROVE IsFiniteSet(Seats(size, U))
  <2>1. IsFiniteSet({Of(t) : t \in U})
    <3>1. IsFiniteSet(U)
      BY FS_Subset
    <3> DEFINE all == {Of(t) : t \in U}
               g == [t \in U |-> Of(t)]
    <3> HIDE DEF Of
    <3>2. g \in Surjection(U, all)
      BY DEF Surjection
    <3> HIDE DEF all, g
    <3>3. IsFiniteSet(all)
      BY <3>1, <3>2, FS_Surjection
    <3> QED
      BY <3>3 DEF all
  <2>2. \A S \in {Of(t) : t \in U} : IsFiniteSet(S)
    BY <1>1
  <2>3. IsFiniteSet(UNION {Of(t) : t \in U})
    BY <2>1, <2>2, FS_UNION
  <2> QED
    BY <2>3 DEF Seats
<1>3. Seats(size, T) = Of(x) \cup Seats(size, T \ {x}) /\ Of(x) \cap Seats(size, T \ {x}) = {}
  BY DEF Seats
<1>4. IsFiniteSet(Of(x)) /\ Cardinality(Of(x)) = size[x] /\ IsFiniteSet(Seats(size, T \ {x}))
  BY <1>1, <1>2
<1>5. Cardinality(Seats(size, T)) = Cardinality(Of(x)) + Cardinality(Seats(size, T \ {x})) - Cardinality({})
  <2> DEFINE A == Of(x)
             B == Seats(size, T \ {x})
  <2>1. IsFiniteSet(A) /\ IsFiniteSet(B) /\ A \cap B = {} /\ Seats(size, T) = A \cup B
    BY <1>3, <1>4
  <2> HIDE DEF A, B
  <2>2. Cardinality(A \cup B) = Cardinality(A) + Cardinality(B) - Cardinality(A \cap B)
    BY <2>1, FS_Union
  <2>3. Cardinality(Seats(size, T)) = Cardinality(A) + Cardinality(B) - Cardinality({})
    BY <2>1, <2>2
  <2> QED
    BY <2>3 DEF A, B
<1>6. Cardinality(Seats(size, T \ {x})) \in Nat /\ size[x] \in Nat /\ Cardinality({}) = 0
  BY <1>4, FS_CardinalityType, FS_EmptySet
<1> QED
  BY <1>2, <1>4, <1>5, <1>6

\* A sum over a set, which takes the elements in some order, is their number.
LEMMA TotalIsSeats ==
    ASSUME NEW size, NEW T, IsFiniteSet(T), \A t \in T : size[t] \in Nat
    PROVE  Total(size, T) = Cardinality(Seats(size, T))
<1> DEFINE one(s) == CHOOSE x \in s : TRUE
           sum == CHOOSE iter : iter = [s \in SUBSET T |->
                                          IF s = {} THEN 0 ELSE size[one(s)] + iter[s \ {one(s)}]]
           f == [s \in SUBSET T |-> Cardinality(Seats(size, s))]
<1>1. Total(size, T) = sum[T]
  BY DEF Total, MapThenSumSet, MapThenFoldSet
<1>2. ASSUME NEW s \in SUBSET T
      PROVE  f[s] = IF s = {} THEN 0 ELSE size[one(s)] + f[s \ {one(s)}]
  <2>1. IsFiniteSet(s)
    BY FS_Subset
  <2>2. CASE s = {}
    <3>1. Seats(size, s) = {}
      BY <2>2 DEF Seats
    <3> QED
      BY <2>2, <3>1, FS_EmptySet
  <2>3. CASE s # {}
    <3>1. one(s) \in s /\ s \ {one(s)} \in SUBSET T
      BY <2>3
    <3> HIDE DEF one
    <3>2. Cardinality(Seats(size, s)) = size[one(s)] + Cardinality(Seats(size, s \ {one(s)}))
      BY <2>1, <3>1, SeatsAdd
    <3> QED
      BY <2>3, <3>1, <3>2
  <2> QED
    BY <2>2, <2>3
<1>3. sum = [s \in SUBSET T |-> IF s = {} THEN 0 ELSE size[one(s)] + sum[s \ {one(s)}]]
  <2> HIDE DEF one
  <2>1. f = [s \in SUBSET T |-> IF s = {} THEN 0 ELSE size[one(s)] + f[s \ {one(s)}]]
    BY <1>2
  <2> HIDE DEF f
  <2> QED
    BY <2>1
<1> HIDE DEF sum
<1>4. SUBSET T \subseteq {s \in SUBSET T : sum[s] = f[s]}
  <2> DEFINE G == {s \in SUBSET T : sum[s] = f[s]}
  <2>1. ASSUME NEW s \in SUBSET T, \A U \in SUBSET s : U # s => U \in G PROVE s \in G
    <3>1. CASE s = {}
      BY <1>2, <1>3, <3>1
    <3>2. CASE s # {}
      <4>1. one(s) \in s /\ s \ {one(s)} \in G
        BY <2>1, <3>2
      <4> HIDE DEF one, f
      <4> QED
        BY <1>2, <1>3, <3>2, <4>1
    <3> QED
      BY <3>1, <3>2
  <2> HIDE DEF G
  <2>2. SUBSET T \subseteq G
    BY <2>1, BySubsets
  <2> QED
    BY <2>2 DEF G
<1> QED
  BY <1>1, <1>4

LEMMA TotalFacts ==
    ASSUME NEW size, NEW T, IsFiniteSet(T), \A t \in T : size[t] \in Nat
    PROVE  /\ Total(size, T) \in Nat
           /\ Total(size, {}) = 0
           /\ \A x \in T : Total(size, T) = size[x] + Total(size, T \ {x})
           /\ \A U \in SUBSET T : Total(size, U) <= Total(size, T)
<1>1. ASSUME NEW U \in SUBSET T
      PROVE  /\ IsFiniteSet(U) /\ Total(size, U) = Cardinality(Seats(size, U))
             /\ U # {} => IsFiniteSet(Seats(size, U))
  BY FS_Subset, TotalIsSeats, SeatsAdd
<1>2. Seats(size, {}) = {} /\ IsFiniteSet({}) /\ Cardinality({}) = 0
  BY FS_EmptySet DEF Seats
<1>3. IsFiniteSet(Seats(size, T))
  BY <1>1, <1>2
<1>4. Total(size, T) \in Nat
  BY <1>1, <1>3, FS_CardinalityType
<1>5. Total(size, {}) = 0
  BY <1>1, <1>2
<1>6. ASSUME NEW x \in T PROVE Total(size, T) = size[x] + Total(size, T \ {x})
  BY <1>1, SeatsAdd
<1>7. ASSUME NEW U \in SUBSET T PROVE Total(size, U) <= Total(size, T)
  <2>1. Seats(size, U) \in SUBSET Seats(size, T)
    BY DEF Seats
  <2> QED
    BY <1>1, <1>3, <2>1, FS_Subset
<1> QED
  BY <1>4, <1>5, <1>6, <1>7

-----------------------------------------------------------------------------
(* INSTANT: one pass over the tickets.                                     *)

\* An order of some tickets names each of them once.
LEMMA OrderNames ==
    ASSUME NEW S, IsFiniteSet(S), NEW order \in SetToSeqs(S)
    PROVE  /\ Len(order) \in Nat /\ DOMAIN order = 1 .. Len(order)
           /\ \A i \in 1 .. Len(order) : order[i] \in S
           /\ \A i, j \in 1 .. Len(order) : order[i] = order[j] => i = j
<1> DEFINE n == Cardinality(S)
<1>1. n \in Nat
  BY FS_CardinalityType
<1>2. order \in [1 .. n -> S] /\ \A i, j \in 1 .. n : i # j => order[i] # order[j]
  BY DEF SetToSeqs
<1> HIDE DEF n
<1>3. order \in Seq(S) /\ Len(order) = n
  BY <1>1, <1>2
<1> QED
  BY <1>1, <1>2, <1>3

\* Every step of a pass takes the next ticket into the match or starts another.
Passes(pass, size, order) ==
    /\ pass \in [0 .. Len(order) -> [match : Nat, count : Nat]]
    /\ pass[0] = [match |-> 1, count |-> 0]
    /\ \A i \in 1 .. Len(order) :
          pass[i] = LET before == pass[i - 1]
                        count == before.count + size[order[i]]
                    IN  IF count > MaxPlayers
                        THEN [match |-> before.match + 1, count |-> size[order[i]]]
                        ELSE [match |-> before.match, count |-> count]

LEMMA PassSteps ==
    ASSUME NEW size, NEW order, Len(order) \in Nat, \A i \in 1 .. Len(order) : size[order[i]] \in Nat
    PROVE  Passes(Pass(size, order), size, order)
<1> DEFINE n == Len(order)
           S == [match : Nat, count : Nat]
           After(before, i) ==
               IF before.count + size[order[i]] > MaxPlayers
               THEN [match |-> before.match + 1, count |-> size[order[i]]]
               ELSE [match |-> before.match, count |-> before.count + size[order[i]]]
           step == [x \in S \X (1 .. n) |-> After(x[1], x[2])]
           base == [match |-> 1, count |-> 0]
           IsPass(pass) == pass = [i \in 0 .. n |-> IF i = 0 THEN base ELSE After(pass[i - 1], i)]
<1>0. n \in Nat
  OBVIOUS
<1>a. ASSUME NEW before \in S, NEW i \in 1 .. n PROVE After(before, i) \in S
  <2>1. size[order[i]] \in Nat /\ before.match \in Nat /\ before.count \in Nat
    OBVIOUS
  <2> HIDE DEF n, step, base, IsPass
  <2> QED
    BY <2>1
<1>1. base \in S /\ step \in [S \X (1 .. n) -> S]
  <2> HIDE DEF After
  <2> QED
    BY <1>a
<1>2. PICK f \in [0 .. n -> S] : f[0] = base /\ \A i \in 1 .. n : f[i] = step[<<f[i - 1], i>>]
  <2> HIDE DEF n, step, base, S
  <2>1. \E f : Recursive(f, n, S, base, step)
    BY <1>1, <1>0, RecursionExists
  <2> QED
    BY <2>1 DEF Recursive
<1>3. ASSUME NEW i \in 1 .. n PROVE f[i] = After(f[i - 1], i)
  <2>1. i - 1 \in 0 .. n
    BY <1>0
  <2> HIDE DEF n, S, After
  <2>2. <<f[i - 1], i>> \in S \X (1 .. n)
    BY <1>2, <2>1
  <2> QED
    BY <1>2, <2>2
<1>4. IsPass(f)
  <2> HIDE DEF After, base
  <2> QED
    BY <1>2, <1>3
<1>5. Pass(size, order) = CHOOSE pass : IsPass(pass)
  BY DEF Pass
<1>6. IsPass(Pass(size, order))
  <2> HIDE DEF IsPass
  <2> QED
    BY <1>4, <1>5
<1> DEFINE pass == Pass(size, order)
<1> HIDE DEF pass
<1>7. IsPass(pass)
  BY <1>6 DEF pass
<1>8. DOMAIN pass = 0 .. n /\ pass[0] = base /\ \A i \in 1 .. n : pass[i] = After(pass[i - 1], i)
  <2>1. pass = [i \in 0 .. n |-> IF i = 0 THEN base ELSE After(pass[i - 1], i)]
    BY <1>7
  <2> HIDE DEF After, base, IsPass, n
  <2>2. DOMAIN pass = 0 .. n /\ \A i \in 0 .. n : pass[i] = IF i = 0 THEN base ELSE After(pass[i - 1], i)
    BY <2>1
  <2>3. 0 \in 0 .. n /\ \A i \in 1 .. n : i \in 0 .. n /\ i # 0
    BY <1>0
  <2> QED
    BY <2>2, <2>3
<1>9. \A i \in 0 .. n : pass[i] \in S
  <2> DEFINE Typed == {i \in 0 .. n : pass[i] \in S}
  <2>1. 0 \in Typed
    BY <1>8
  <2>2. ASSUME NEW i \in 1 .. n, i - 1 \in Typed PROVE i \in Typed
    <3>1. pass[i - 1] \in S /\ pass[i] = After(pass[i - 1], i) /\ i \in 0 .. n
      <4> HIDE DEF After, S
      <4> QED
        BY <1>0, <1>8, <2>2
    <3> HIDE DEF S, After
    <3> QED
      BY <1>a, <3>1
  <2> HIDE DEF Typed
  <2>3. 0 .. n \subseteq Typed
    BY <2>1, <2>2, UpTo
  <2> QED
    BY <2>3 DEF Typed
<1>10. pass \in [0 .. n -> S]
  BY <1>7, <1>8, <1>9
<1>11. Passes(pass, size, order)
  BY <1>8, <1>10 DEF Passes
<1> QED
  BY <1>11 DEF pass

\* No match of a pass has more than MaxPlayers, unless a ticket has.
LEMMA PassFits ==
    ASSUME NEW S, IsFiniteSet(S), NEW size, \A t \in S : size[t] \in 0 .. MaxPlayers,
           NEW order \in SetToSeqs(S)
    PROVE  \A k \in 1 .. Pass(size, order)[Len(order)].match :
              Total(size, {order[i] : i \in {j \in DOMAIN order : Pass(size, order)[j].match = k}})
                 <= MaxPlayers
<1> DEFINE n == Len(order)
           pass == Pass(size, order)
           In(i, k) == {order[j] : j \in {l \in 1 .. i : pass[l].match = k}}
           Sum(i, k) == Total(size, In(i, k))
<1>1. /\ n \in Nat /\ DOMAIN order = 1 .. n
      /\ \A i \in 1 .. n : order[i] \in S
      /\ \A i, j \in 1 .. n : order[i] = order[j] => i = j
      /\ \A i \in 1 .. n : size[order[i]] \in Nat /\ size[order[i]] <= MaxPlayers
  BY OrderNames, GameModeAssumption
<1>2. /\ pass \in [0 .. n -> [match : Nat, count : Nat]]
      /\ pass[0] = [match |-> 1, count |-> 0]
      /\ \A i \in 1 .. n :
            pass[i] = LET before == pass[i - 1]
                          count == before.count + size[order[i]]
                      IN  IF count > MaxPlayers
                          THEN [match |-> before.match + 1, count |-> size[order[i]]]
                          ELSE [match |-> before.match, count |-> count]
  <2>1. Len(order) \in Nat /\ \A i \in 1 .. Len(order) : size[order[i]] \in Nat
    BY <1>1
  <2>2. Passes(Pass(size, order), size, order)
    BY ONLY <2>1, PassSteps
  <2>3. Passes(pass, size, order)
    BY <2>2
  <2> HIDE DEF pass
  <2> QED
    BY <2>3 DEF Passes
<1> HIDE DEF n, pass
<1>3. ASSUME NEW i \in 0 .. n, NEW k
      PROVE  In(i, k) \subseteq S /\ IsFiniteSet(In(i, k)) /\ Sum(i, k) \in Nat
  <2>1. In(i, k) \subseteq S
    BY <1>1
  <2> HIDE DEF In
  <2>2. IsFiniteSet(In(i, k)) /\ \A t \in In(i, k) : size[t] \in Nat
    BY <2>1, FS_Subset, GameModeAssumption
  <2> QED
    BY <2>1, <2>2, TotalFacts
<1> DEFINE Fits(i) == /\ \A j \in 1 .. i : pass[j].match <= pass[i].match
                      /\ pass[i].count <= MaxPlayers
                      /\ Sum(i, pass[i].match) = pass[i].count
                      /\ \A k \in 1 .. pass[i].match : Sum(i, k) <= MaxPlayers
           Good == {i \in 0 .. n : Fits(i)}
<1>4. 0 \in Good
  <2>1. \A k : In(0, k) = {}
    OBVIOUS
  <2>2. \A k : Sum(0, k) = 0
    BY <2>1, TotalFacts, FS_EmptySet
  <2> HIDE DEF Sum
  <2> QED
    BY <1>1, <1>2, <2>2, GameModeAssumption
<1>5. ASSUME NEW i \in 1 .. n, i - 1 \in Good PROVE i \in Good
  <2> DEFINE before == pass[i - 1]
             x == order[i]
             m == pass[i].match
  <2>1. /\ before.match \in Nat /\ before.count \in Nat /\ m \in Nat /\ size[x] \in Nat /\ size[x] <= MaxPlayers
        /\ MaxPlayers \in Nat /\ x \in S /\ i - 1 \in 0 .. n /\ i \in 0 .. n
    BY <1>1, <1>2, GameModeAssumption
  <2>2. Fits(i - 1)
    BY <1>5
  <2>3. \A k : In(i, k) = IF k = m THEN In(i - 1, k) \cup {x} ELSE In(i - 1, k)
    <3>1. 1 .. i = (1 .. i - 1) \cup {i}
      OBVIOUS
    <3> QED
      BY <3>1
  <2>4. \A k : x \notin In(i - 1, k)
    BY <1>1
  <2>5. Sum(i, m) = size[x] + Sum(i - 1, m)
    <3>1. IsFiniteSet(In(i, m)) /\ In(i, m) \subseteq S /\ x \in In(i, m) /\ In(i, m) \ {x} = In(i - 1, m)
      BY <1>3, <2>1, <2>3, <2>4
    <3> HIDE DEF In
    <3>2. \A t \in In(i, m) : size[t] \in Nat
      BY <3>1, GameModeAssumption
    <3> QED
      BY <3>1, <3>2, TotalFacts
  <2>6. \A k : k # m => Sum(i, k) = Sum(i - 1, k)
    BY <2>3
  <2>7. CASE before.count + size[x] > MaxPlayers
    <3>1. m = before.match + 1 /\ pass[i].count = size[x]
      <4>1. pass[i] = [match |-> before.match + 1, count |-> size[x]]
        BY <1>2, <2>7
      <4> QED
        BY <4>1
    <3>2. In(i - 1, m) = {}
      BY <2>1, <2>2, <3>1, <1>1, <1>2
    <3>3. Sum(i - 1, m) = 0
      BY <3>2, TotalFacts, FS_EmptySet
    <3> HIDE DEF Sum
    <3>4. Sum(i, m) = pass[i].count
      BY <2>1, <2>5, <3>1, <3>3
    <3>5. \A k \in 1 .. m : Sum(i, k) <= MaxPlayers
      <4> TAKE k \in 1 .. m
      <4>1. CASE k = m
        BY <2>1, <3>1, <3>4, <4>1
      <4>2. CASE k # m
        BY <2>1, <2>2, <2>6, <3>1, <4>2
      <4> QED
        BY <4>1, <4>2
    <3>6. \A j \in 1 .. i : pass[j].match <= m
      <4> TAKE j \in 1 .. i
      <4>1. CASE j = i
        BY <2>1, <4>1
      <4>2. CASE j # i
        <5>1. j \in 1 .. i - 1 /\ j \in 0 .. n
          BY <1>1, <4>2
        <5>2. pass[j].match <= before.match /\ pass[j].match \in Nat
          BY <1>2, <2>2, <5>1
        <5> QED
          BY <2>1, <3>1, <5>2
      <4> QED
        BY <4>1, <4>2
    <3> QED
      BY <2>1, <3>1, <3>4, <3>5, <3>6
  <2>8. CASE ~ (before.count + size[x] > MaxPlayers)
    <3>1. m = before.match /\ pass[i].count = before.count + size[x]
      <4>1. pass[i] = [match |-> before.match, count |-> before.count + size[x]]
        BY <1>2, <2>8
      <4> QED
        BY <4>1
    <3> HIDE DEF Sum
    <3>2. Sum(i - 1, m) = before.count
      BY <2>2, <3>1
    <3>3. Sum(i, m) = pass[i].count /\ pass[i].count <= MaxPlayers
      BY <2>1, <2>5, <2>8, <3>1, <3>2
    <3>4. \A k \in 1 .. m : Sum(i, k) <= MaxPlayers
      <4> TAKE k \in 1 .. m
      <4>1. CASE k = m
        BY <3>3, <4>1
      <4>2. CASE k # m
        BY <2>2, <2>6, <3>1, <4>2
      <4> QED
        BY <4>1, <4>2
    <3>5. \A j \in 1 .. i : pass[j].match <= m
      <4> TAKE j \in 1 .. i
      <4>1. CASE j = i
        BY <2>1, <4>1
      <4>2. CASE j # i
        BY <2>2, <3>1, <4>2
      <4> QED
        BY <4>1, <4>2
    <3> QED
      BY <2>1, <3>3, <3>4, <3>5
  <2> QED
    BY <2>7, <2>8
<1>6. Fits(n)
  <2> HIDE DEF Fits
  <2>1. 0 .. n \subseteq Good
    <3> HIDE DEF Good
    <3> QED
      BY <1>1, <1>4, <1>5, UpTo
  <2> QED
    BY <1>1, <2>1
<1> QED
  BY <1>1, <1>6 DEF n, pass

-----------------------------------------------------------------------------
(* Tickets are of parties that the game mode allows, and there are finitely  *)
(* many of them.                                                             *)

AllowedSize(S) == IsFiniteSet(S) /\ Cardinality(S) <= MaxPartySize

PartiesAllowed ==
    /\ \A p \in DOMAIN requests : AllowedSize(requests[p].players)
    /\ \A t \in DOMAIN tickets : AllowedSize(tickets[t].players)
    /\ IsFiniteSet(DOMAIN tickets)

\* The tickets stay, or some of them go, and none gets other players.
LEMMA FewerTickets ==
    ASSUME PartiesAllowed,
           DOMAIN tickets' \subseteq DOMAIN tickets,
           \A t \in DOMAIN tickets' : tickets'[t].players = tickets[t].players,
           DOMAIN requests' \subseteq DOMAIN requests,
           \A p \in DOMAIN requests' : requests'[p].players = requests[p].players
    PROVE  PartiesAllowed'
  <1>1. IsFiniteSet(DOMAIN tickets')
    BY FS_Subset DEF PartiesAllowed
  <1> QED
    BY <1>1 DEF PartiesAllowed

LEMMA QueuePartiesAllowed ==
    ASSUME TypeOK, PartiesAllowed, NEW p \in Players,
           QueueGetParty(p) \/ QueueCheckParty(p) \/ QueueCreateTicket(p)
    PROVE  PartiesAllowed'
  <1>1. CASE QueueGetParty(p)
    <2>1. PICK c \in DOMAIN parties :
             /\ Cardinality(parties[c].members) <= MaxPartySize
             /\ requests' = Overlay([q \in {p} |-> [party |-> c, players |-> parties[c].members,
                                                    checked |-> FALSE]], requests)
      BY <1>1 DEF QueueGetParty
    <2>2. parties[c].members \subseteq Players
      BY DEF TypeOK, IsMap, Party
    <2>3. AllowedSize(parties[c].members)
      BY <2>1, <2>2, MatchmakerAssumption, FS_Subset DEF AllowedSize
    <2>4. \A q \in DOMAIN requests' :
             requests'[q].players = parties[c].members \/ (q \in DOMAIN requests /\ requests'[q] = requests[q])
      BY <2>1 DEF Overlay
    <2>5. tickets' = tickets
      BY <1>1 DEF QueueGetParty, storeVars
    <2> QED
      BY <2>3, <2>4, <2>5 DEF PartiesAllowed
  <1>2. CASE QueueCheckParty(p)
    <2>1. tickets' = tickets
      BY <1>2 DEF QueueCheckParty, storeVars
    <2>2. /\ DOMAIN requests' \subseteq DOMAIN requests
          /\ \A q \in DOMAIN requests' : requests'[q].players = requests[q].players
      <3>1. \/ requests' = Without(requests, {p})
            \/ requests' = [requests EXCEPT ![p].checked = TRUE]
        BY <1>2 DEF QueueCheckParty
      <3>2. CASE requests' = Without(requests, {p})
        BY <3>2 DEF Without
      <3>3. CASE requests' = [requests EXCEPT ![p].checked = TRUE]
        BY <3>3 DEF TypeOK, IsMap
      <3> QED
        BY <3>1, <3>2, <3>3
    <2> QED
      BY <2>1, <2>2, FewerTickets
  <1>3. CASE QueueCreateTicket(p)
    <2>1. requests' = Without(requests, {p}) /\ p \in DOMAIN requests
      BY <1>3 DEF QueueCreateTicket
    <2>2. /\ DOMAIN requests' \subseteq DOMAIN requests
          /\ \A q \in DOMAIN requests' : requests'[q].players = requests[q].players
      BY <2>1 DEF Without
    <2>3. CASE UNCHANGED tickets
      BY <2>2, <2>3, FewerTickets
    <2>4. CASE ~ UNCHANGED tickets
      <3> DEFINE members == requests[p].players
      <3>1. PICK t \in FreshTicketIds :
               tickets' = Overlay([x \in {t} |-> [party |-> requests[p].party, leader |-> p,
                                                  players |-> members, inPendingMatch |-> FALSE,
                                                  marked |-> FALSE, leaving |-> {}]], tickets)
        BY <1>3, <2>4 DEF QueueCreateTicket
      <3>2. /\ DOMAIN tickets' = DOMAIN tickets \cup {t}
            /\ \A u \in DOMAIN tickets' : tickets'[u].players = members
                                            \/ (u \in DOMAIN tickets /\ tickets'[u] = tickets[u])
        BY <3>1 DEF Overlay
      <3>3. IsFiniteSet(DOMAIN tickets')
        BY <3>2, FS_AddElement DEF PartiesAllowed
      <3> QED
        BY <2>1, <2>2, <3>2, <3>3 DEF PartiesAllowed
    <2> QED
      BY <2>3, <2>4
  <1> QED
    BY <1>1, <1>2, <1>3

LEMMA NextPartiesAllowed == TypeOK /\ PartiesAllowed /\ [Next]_vars => PartiesAllowed'
  <1> SUFFICES ASSUME TypeOK, PartiesAllowed, [Next]_vars PROVE PartiesAllowed'
    OBVIOUS
  <1> DEFINE Kept == /\ DOMAIN tickets' \subseteq DOMAIN tickets
                     /\ \A t \in DOMAIN tickets' : tickets'[t].players = tickets[t].players
             Asked == /\ DOMAIN requests' \subseteq DOMAIN requests
                      /\ \A p \in DOMAIN requests' : requests'[p].players = requests[p].players
  <1>1. ASSUME Kept, Asked PROVE PartiesAllowed'
    BY <1>1, FewerTickets
  <1>0. tickets \in [DOMAIN tickets -> Ticket]
    BY TypeParts DEF StoreTypes, IsMap
  <1>2. ASSUME NEW t \in DOMAIN tickets, MarkTicket(t) \/ \E p : AddLeaving(t, p) PROVE Kept
    <2>1. PICK w : tickets' = [tickets EXCEPT ![t].marked = TRUE]
                     \/ tickets' = [tickets EXCEPT ![t].leaving = w]
      BY <1>2
    <2>2. DOMAIN tickets' = DOMAIN tickets
      BY <2>1
    <2>3. \A u \in DOMAIN tickets : tickets'[u].players = tickets[u].players
      BY <1>0, <2>1 DEF Ticket
    <2> QED
      BY <2>2, <2>3
  <1>3. ASSUME NEW T, DeleteTicketsById(T) PROVE Kept
    BY <1>3 DEF Without
  <1>4. ASSUME NEW T, ResetRemovalsOf(T) PROVE Kept
    <2>1. DOMAIN tickets' = DOMAIN tickets
      BY <1>4
    <2>2. ASSUME NEW u \in DOMAIN tickets PROVE tickets'[u].players = tickets[u].players
      <3>1. tickets[u] \in Ticket
        BY <1>0
      <3>2. tickets'[u] \in {tickets[u], [tickets[u] EXCEPT !.marked = FALSE, !.leaving = {}]}
        BY <1>4
      <3> QED
        BY <3>1, <3>2 DEF Ticket
    <2> QED
      BY <2>1, <2>2
  <1>5. ASSUME NEW flags, SetInPendingMatch(flags) PROVE Kept
    BY <1>0, <1>5 DEF Ticket
  <1>6. ASSUME UNCHANGED tickets PROVE Kept
    BY <1>6
  <1>7. ASSUME requests' \in {requests, Empty} PROVE Asked
    BY <1>7 DEF Empty
  <1> HIDE DEF Kept, Asked
  <1>8. CASE Handlers
    <2>1. CASE \E p \in Players : DequeueByPlayer(p)
      <3>1. \E t \in DOMAIN tickets : MarkTicket(t)
        BY <2>1 DEF DequeueByPlayer
      <3>2. UNCHANGED requests
        BY <2>1 DEF DequeueByPlayer
      <3> QED
        BY <1>1, <1>2, <1>7, <3>1, <3>2
    <2>2. CASE \E p \in Players, map \in Maps : ChangePlayerMapVote(p, map)
      BY <1>1, <1>6, <1>7, <2>2 DEF ChangePlayerMapVote
    <2> QED
      BY <1>8, <2>1, <2>2, QueuePartiesAllowed DEF Handlers
  <1>9. CASE Consumer
    <2>1. UNCHANGED requests
      BY <1>9 DEF Consumer, HandlePartyDisband, HandlePartyPlayerLeft, NextMessage
    <2>2. UNCHANGED tickets \/ \E t \in DOMAIN tickets : MarkTicket(t) \/ \E p : AddLeaving(t, p)
      BY <1>9 DEF Consumer, HandlePartyDisband, HandlePartyPlayerLeft
    <2> QED
      BY <1>1, <1>2, <1>6, <1>7, <2>1, <2>2
  <1>10. CASE Director
    <2>1. requests' \in {requests, Empty}
      BY <1>10 DEF Director, ReadDequeues, DeleteMarked, PullMarked, ResetRemovals, DeletePlayers,
            ReadTickets, ReadTicketsAndMatch, CancelAndPlan, Panic, UpdatePendingMatches,
            CreatePendingMatches, DeleteFinished, FlagTickets, CalculateMap, AnnounceMatches,
            DeleteTickets, DeleteMatched
    <2>2. \/ UNCHANGED tickets
          \/ \E T : DeleteTicketsById(T) \/ ResetRemovalsOf(T)
          \/ \E flags : SetInPendingMatch(flags)
      <3>1. CASE DeleteMarked \/ ResetRemovals \/ FlagTickets
        <4>1. \/ DeleteTicketsById(batch.delete) \/ ResetRemovalsOf(batch.reset)
              \/ SetInPendingMatch(plan.flags)
          BY <3>1 DEF DeleteMarked, ResetRemovals, FlagTickets
        <4> QED
          BY <4>1
      <3>2. CASE DeleteTickets
        <4>1. PICK m \in DOMAIN plan.matches : DeleteTicketsById(DOMAIN plan.matches[m])
          BY <3>2 DEF DeleteTickets
        <4> QED
          BY <4>1
      <3>3. CASE ReadDequeues \/ PullMarked \/ DeletePlayers \/ ReadTickets \/ ReadTicketsAndMatch
                   \/ CancelAndPlan \/ Panic \/ UpdatePendingMatches \/ CreatePendingMatches
                   \/ DeleteFinished \/ CalculateMap \/ AnnounceMatches \/ DeleteMatched
        BY <3>3 DEF ReadDequeues, PullMarked, DeletePlayers, ReadTickets, ReadTicketsAndMatch,
              CancelAndPlan, Panic, UpdatePendingMatches, CreatePendingMatches, DeleteFinished,
              CalculateMap, AnnounceMatches, DeleteMatched, storeVars
      <3> QED
        BY <1>10, <3>1, <3>2, <3>3 DEF Director
    <2> QED
      BY <1>1, <1>3, <1>4, <1>5, <1>6, <1>7, <2>1, <2>2
  <1>11. CASE PartyService
    BY <1>1, <1>6, <1>7, <1>11 DEF PartyService, LeaveParty, JoinParty, EmptyParty, PartyChange, storeVars
  <1>12. CASE \E m \in PendingMatchIds : TeleportTimePasses(m)
    BY <1>1, <1>6, <1>7, <1>12 DEF TeleportTimePasses
  <1>13. CASE Faults
    BY <1>1, <1>6, <1>7, <1>13 DEF Faults, CallFails, Crash, RestartAfterPanic, storeVars
  <1>14. CASE UNCHANGED vars
    BY <1>1, <1>6, <1>7, <1>14 DEF vars, storeVars
  <1> QED
    BY <1>8, <1>9, <1>10, <1>11, <1>12, <1>13, <1>14 DEF Next

-----------------------------------------------------------------------------
(* The matches of the INSTANT method.                                        *)

LEMMA RunInstantFits ==
    ASSUME NEW S, IsFiniteSet(S), NEW size, \A t \in S : size[t] \in 0 .. MaxPlayers,
           NEW order \in SetToSeqs(S)
    PROVE  \A k \in DOMAIN RunInstant(size, order) :
              /\ Total(size, RunInstant(size, order)[k]) <= MaxPlayers
              /\ \A l \in DOMAIN RunInstant(size, order) :
                    k # l => RunInstant(size, order)[k] \cap RunInstant(size, order)[l] = {}
<1> DEFINE pass == Pass(size, order)
           n == Len(order)
           made == IF pass[n].count >= MinPlayers THEN pass[n].match ELSE pass[n].match - 1
           Of(k) == {order[i] : i \in {j \in DOMAIN order : pass[j].match = k}}
<1>1. RunInstant(size, order) = [k \in 1 .. made |-> Of(k)]
  BY DEF RunInstant
<1>2. /\ n \in Nat /\ DOMAIN order = 1 .. n
      /\ \A i \in 1 .. n : order[i] \in S
      /\ \A i, j \in 1 .. n : order[i] = order[j] => i = j
  BY OrderNames
<1>3. pass \in [0 .. n -> [match : Nat, count : Nat]]
  <2>1. \A i \in 1 .. n : size[order[i]] \in Nat
    BY <1>2, GameModeAssumption
  <2> QED
    BY <1>2, <2>1, PassSteps DEF Passes
<1>4. made <= pass[n].match /\ made \in Int /\ pass[n].match \in Nat
  BY <1>2, <1>3
<1>5. \A k \in 1 .. pass[n].match : Total(size, Of(k)) <= MaxPlayers
  BY PassFits
<1> HIDE DEF made, pass
<1>6. \A k, l : k # l => Of(k) \cap Of(l) = {}
  BY <1>2
<1> HIDE DEF Of, n
<1>7. \A k \in 1 .. made : k \in 1 .. pass[n].match
  BY <1>4
<1> QED
  BY <1>1, <1>5, <1>6, <1>7

\* Calls that only a run with a countdown makes.
CountdownCalls == {"cancel", "update", "create", "deleteFinished", "flag"}

Matching == pc \in {"maps", "announce", "deleteTickets", "deleteMatched"}

Fitting == \A m \in DOMAIN plan.matches : PlayersOf(plan.matches[m]) <= MaxPlayers

Disjoint == \A m, n \in DOMAIN plan.matches :
               m # n => DOMAIN plan.matches[m] \cap DOMAIN plan.matches[n] = {}

\* The announced tickets that are still in the queue: until the run has deleted
\* them, those of its matches.
BeingDeleted == IF pc \in {"deleteTickets", "deleteMatched"} THEN MatchTickets ELSE {}

InstantRun == /\ pc \notin CountdownCalls
              /\ Matching => Fitting /\ Disjoint
              /\ faults = 0 => announced \subseteq BeingDeleted

InstantInv == IInv /\ PartiesAllowed /\ InstantRun

LEMMA InstantMatching ==
    ASSUME IInv, PartiesAllowed, InstantRun, ReadTicketsAndMatch, ~NextRun
    PROVE  /\ pc' \in {"maps", "announce"}
           /\ Fitting' /\ Disjoint'
  <1> DEFINE Matched(made, ids) ==
                [m \in Range(ids) |->
                    WithTickets(Empty, made[CHOOSE i \in DOMAIN made : ids[i] = m])]
             Answered(made) ==
                IF made = <<>> THEN NextRun
                ELSE \E ids \in Injection(DOMAIN made, PendingMatchIds) :
                        /\ plan' = [NoPlan EXCEPT !.matches = Matched(made, ids)]
                        /\ ticketMap' = tickets
                        /\ pc' = AfterMatching
                        /\ UNCHANGED batch
             size == Sizes(tickets)
  <1>1. \E order \in SetToSeqs(DOMAIN tickets) : Answered(RunInstant(size, order))
    BY DEF ReadTicketsAndMatch
  <1>2. PICK order \in SetToSeqs(DOMAIN tickets) : Answered(RunInstant(size, order))
    BY <1>1
  <1> DEFINE made == RunInstant(size, order)
  <1>3. \A t \in DOMAIN tickets : size[t] \in 0 .. MaxPlayers
    <2>1. ASSUME NEW t \in DOMAIN tickets PROVE Cardinality(tickets[t].players) \in 0 .. MaxPlayers
      <3>1. AllowedSize(tickets[t].players)
        BY DEF PartiesAllowed
      <3>2. Cardinality(tickets[t].players) \in Nat
        BY <3>1, FS_CardinalityType DEF AllowedSize
      <3> QED
        BY <3>1, <3>2, MatchmakerAssumption, GameModeAssumption DEF AllowedSize
    <2> QED
      BY <2>1 DEF Sizes
  <1> HIDE DEF size
  <1>4. \A k \in DOMAIN made : /\ Total(size, made[k]) <= MaxPlayers
                               /\ \A l \in DOMAIN made : k # l => made[k] \cap made[l] = {}
    BY <1>3, RunInstantFits DEF PartiesAllowed
  <1> HIDE DEF made
  <1>5. PICK ids \in Injection(DOMAIN made, PendingMatchIds) :
           /\ plan' = [NoPlan EXCEPT !.matches = Matched(made, ids)]
           /\ ticketMap' = tickets
           /\ pc' \in {"maps", "announce"}
    BY <1>2 DEF AfterMatching, made
  <1>6. plan'.matches = Matched(made, ids) /\ Size' = size
    BY <1>5 DEF NoPlan, Size, size
  <1> DEFINE At(m) == CHOOSE i \in DOMAIN made : ids[i] = m
  <1>7. \A m \in Range(ids) : At(m) \in DOMAIN made /\ ids[At(m)] = m
    BY DEF Injection, Range
  <1> HIDE DEF At
  <1>8. /\ DOMAIN plan'.matches = Range(ids)
        /\ \A m \in Range(ids) : DOMAIN plan'.matches[m] = made[At(m)]
    <2>1. \A T : DOMAIN WithTickets(Empty, T) = T
      BY DEF WithTickets, Empty
    <2>2. \A m \in Range(ids) : plan'.matches[m] = WithTickets(Empty, made[At(m)])
      BY <1>6 DEF At
    <2> QED
      BY <1>6, <2>1, <2>2
  <1>9. Fitting'
    BY <1>4, <1>6, <1>7, <1>8 DEF Fitting, PlayersOf
  <1>10. Disjoint'
    BY <1>4, <1>7, <1>8 DEF Disjoint
  <1> QED
    BY <1>5, <1>9, <1>10

\* A run that ends has no match and nothing announced is left of it.
LEMMA RunEnds ==
    ASSUME InstantRun, NextRun, announced' = announced, faults' # 0 \/ BeingDeleted = {},
           faults' = 0 => faults = 0
    PROVE  InstantRun'
  <1>1. pc' = "readDequeues" /\ plan' = NoPlan
    BY DEF NextRun
  <1> QED
    BY <1>1 DEF InstantRun, CountdownCalls, Matching, BeingDeleted

\* Nor can a step that leaves the run's locals alone disturb it.
LEMMA SameRun ==
    ASSUME InstantRun, UNCHANGED <<pc, plan, ticketMap, faults>>, announced' \subseteq announced
    PROVE  InstantRun'
  <1>1. UNCHANGED <<Fitting, Disjoint, BeingDeleted, Matching>>
    BY DEF Fitting, Disjoint, BeingDeleted, Matching, PlayersOf, Size, Sizes, MatchTickets
  <1> QED
    BY <1>1 DEF InstantRun

\* A call of processDequeues.
LEMMA BeforeMatching ==
    ASSUME InstantRun, ~Matching, UNCHANGED <<plan, ticketMap, faults>>, announced' \subseteq announced,
           pc' \in {"readDequeues", "deleteMarked", "pullMarked", "resetRemovals", "deletePlayers",
                    "readTickets"}
    PROVE  InstantRun'
  BY DEF InstantRun, Matching, CountdownCalls, BeingDeleted

LEMMA DirectorInstantRun ==
    ASSUME Method = "INSTANT", InstantInv, Director
    PROVE  InstantRun'
  <1> USE DEF InstantInv
  <1>1. CASE ReadDequeues \/ DeleteMarked \/ PullMarked \/ ResetRemovals \/ DeletePlayers
    <2>1. /\ pc \in {"readDequeues", "deleteMarked", "pullMarked", "resetRemovals", "deletePlayers"}
          /\ pc' \in {"readDequeues", "deleteMarked", "pullMarked", "resetRemovals", "deletePlayers",
                    "readTickets"}
          /\ announced' \subseteq announced
      BY <1>1 DEF ReadDequeues, DeleteMarked, PullMarked, ResetRemovals, DeletePlayers
    <2>2. UNCHANGED <<plan, ticketMap, faults>>
      BY <1>1 DEF ReadDequeues, DeleteMarked, PullMarked, ResetRemovals, DeletePlayers
    <2> QED
      BY <2>1, <2>2, BeforeMatching DEF Matching
  <1>2. CASE ReadTicketsAndMatch
    <2>1. pc = "readTickets" /\ UNCHANGED <<announced, faults>>
      BY <1>2 DEF ReadTicketsAndMatch
    <2>2. BeingDeleted = {}
      BY <2>1 DEF BeingDeleted
    <2>3. CASE NextRun
      BY <2>1, <2>2, <2>3, RunEnds
    <2>4. CASE ~NextRun
      <3>1. pc' \in {"maps", "announce"} /\ Fitting' /\ Disjoint'
        BY <1>2, <2>4, InstantMatching
      <3> QED
        BY <2>1, <2>2, <3>1 DEF InstantRun, CountdownCalls
    <2> QED
      BY <2>3, <2>4
  <1>3. CASE CalculateMap
    <2>1. /\ pc = "maps" /\ pc' \in {"maps", "announce"}
          /\ UNCHANGED <<ticketMap, announced, faults>>
      BY <1>3 DEF CalculateMap
    <2>2. plan'.matches = plan.matches
      <3>1. \E maps : plan' = [plan EXCEPT !.maps = maps]
        BY <1>3 DEF CalculateMap
      <3> QED
        BY <3>1, TypeParts DEF IInv, RunTypes, NoPlan
    <2>3. UNCHANGED <<Fitting, Disjoint>>
      BY <2>1, <2>2 DEF Fitting, Disjoint, PlayersOf, Size
    <2>4. announced' \subseteq BeingDeleted' \/ faults' # 0
      BY <2>1 DEF InstantRun, BeingDeleted
    <2> QED
      BY <2>1, <2>3, <2>4 DEF InstantRun, CountdownCalls, Matching
  <1>4. CASE AnnounceMatches
    <2>1. /\ pc = "announce" /\ pc' = "deleteTickets"
          /\ announced' \subseteq announced \cup MatchTickets
          /\ UNCHANGED <<ticketMap, plan, faults>>
      BY <1>4 DEF AnnounceMatches
    <2>2. UNCHANGED <<Fitting, Disjoint, MatchTickets>>
      BY <2>1 DEF Fitting, Disjoint, PlayersOf, Size, MatchTickets
    <2> QED
      BY <2>1, <2>2 DEF InstantRun, CountdownCalls, Matching, BeingDeleted
  <1>5. CASE DeleteTickets
    <2>1. PICK m \in DOMAIN plan.matches :
             \E removing : /\ announced' = announced \ DOMAIN plan.matches[m]
                           /\ plan' = [plan EXCEPT !.matches = Without(@, {m}), !.removing = removing]
      BY <1>5 DEF DeleteTickets
    <2>2. /\ pc = "deleteTickets" /\ pc' = "deleteMatched"
          /\ UNCHANGED <<ticketMap, faults>>
      BY <1>5 DEF DeleteTickets
    <2>3. plan'.matches = Without(plan.matches, {m})
      BY <2>1, TypeParts DEF IInv, RunTypes, NoPlan
    <2>4. Fitting' /\ Disjoint'
      BY <2>2, <2>3 DEF InstantRun, Matching, Fitting, Disjoint, Without, PlayersOf, Size
    <2>5. MatchTickets \ DOMAIN plan.matches[m] \subseteq MatchTickets'
      BY <2>3 DEF MatchTickets, Without
    <2> QED
      BY <2>1, <2>2, <2>4, <2>5 DEF InstantRun, CountdownCalls, BeingDeleted
  <1>6. CASE DeleteMatched
    <2>1. pc = "deleteMatched" /\ UNCHANGED <<announced, faults>>
      BY <1>6 DEF DeleteMatched
    <2>2. CASE DOMAIN plan.matches = {}
      <3>1. NextRun /\ BeingDeleted = {}
        BY <1>6, <2>2 DEF DeleteMatched, BeingDeleted, MatchTickets
      <3> QED
        BY <2>1, <3>1, RunEnds
    <2>3. CASE DOMAIN plan.matches # {}
      <3>1. pc' = "deleteTickets" /\ UNCHANGED <<ticketMap, plan>>
        BY <1>6, <2>3 DEF DeleteMatched
      <3>2. UNCHANGED <<Fitting, Disjoint, MatchTickets>>
        BY <3>1 DEF Fitting, Disjoint, PlayersOf, Size, MatchTickets
      <3> QED
        BY <2>1, <3>1, <3>2 DEF InstantRun, CountdownCalls, Matching, BeingDeleted
    <2> QED
      BY <2>2, <2>3
  <1>7. ~ (ReadTickets \/ CancelAndPlan \/ Panic \/ UpdatePendingMatches \/ CreatePendingMatches
            \/ DeleteFinished \/ FlagTickets)
    BY DEF InstantRun, CountdownCalls, ReadTickets, CancelAndPlan, Panic, UpdatePendingMatches,
           CreatePendingMatches, DeleteFinished, FlagTickets
  <1> QED
    BY <1>1, <1>2, <1>3, <1>4, <1>5, <1>6, <1>7 DEF Director

LEMMA NextInstantInv ==
    ASSUME Method = "INSTANT", InstantInv, [Next]_vars
    PROVE  InstantInv'
  <1>1. IInv' /\ PartiesAllowed'
    BY NextIInv, NextPartiesAllowed DEF InstantInv, IInv
  <1>2. CASE PartyService \/ Handlers \/ Consumer \/ (\E m \in PendingMatchIds : TeleportTimePasses(m))
                \/ UNCHANGED vars
    <2>1. UNCHANGED <<pc, plan, ticketMap, faults>> /\ announced' \subseteq announced
      <3>1. CASE PartyService
        BY <3>1 DEF PartyService, LeaveParty, JoinParty, EmptyParty, PartyChange, directorVars
      <3>2. CASE Handlers
        BY <3>2 DEF Handlers, QueueGetParty, QueueCheckParty, QueueCreateTicket, DequeueByPlayer,
                    ChangePlayerMapVote, directorVars
      <3>3. CASE Consumer
        BY <3>3 DEF Consumer, HandlePartyDisband, HandlePartyPlayerLeft, NextMessage, directorVars
      <3>4. CASE (\E m \in PendingMatchIds : TeleportTimePasses(m)) \/ UNCHANGED vars
        BY <3>4 DEF TeleportTimePasses, vars, directorVars
      <3> QED
        BY <1>2, <3>1, <3>2, <3>3, <3>4
    <2> QED
      BY <1>1, <2>1, SameRun DEF InstantInv
  <1>3. CASE Director
    BY <1>1, <1>3, DirectorInstantRun DEF InstantInv
  <1>4. CASE Faults
    <2>1. NextRun /\ announced' = announced
      BY <1>4 DEF Faults, CallFails, Crash, RestartAfterPanic
    <2>2. /\ faults' # 0 \/ BeingDeleted = {}
          /\ faults' = 0 => faults = 0
      <3>1. CASE RestartAfterPanic
        BY <3>1 DEF RestartAfterPanic, BeingDeleted
      <3>2. CASE CallFails \/ Crash
        <4>1. faults' = faults + 1 /\ faults \in Nat
          BY <3>2, TypeParts, MatchmakerAssumption DEF CallFails, Crash, InstantInv, IInv, ServiceTypes
        <4> QED
          BY <4>1
      <3> QED
        BY <1>4, <3>1, <3>2 DEF Faults
    <2> QED
      BY <1>1, <2>1, <2>2, RunEnds DEF InstantInv
  <1> QED
    BY <1>2, <1>3, <1>4 DEF Next

LEMMA InitPartiesAllowed == Init => PartiesAllowed
  BY FS_EmptySet DEF Init, PartiesAllowed, Empty

\* The matches of the INSTANT method, for every number and order of tickets.
THEOREM InstantInvariance ==
    ASSUME Method = "INSTANT"
    PROVE  Spec => []InstantInv
  <1>1. Init => InstantInv
    BY InitIInv, InitPartiesAllowed
       DEF InstantInv, InstantRun, Init, CountdownCalls, Matching
  <1>2. InstantInv /\ [Next]_vars => InstantInv'
    BY NextInstantInv
  <1> QED
    BY <1>1, <1>2, PTL DEF Spec

\* RunInstant never fills a match beyond MaxPlayers: a ticket that does not fit
\* starts the next match, and no party larger than the mode allows is queued.
THEOREM InstantMatchesFit ==
    ASSUME Method = "INSTANT"
    PROVE  Spec => []MatchesFit
  <1>1. InstantInv => MatchesFit
    BY DEF InstantInv, InstantRun, Matching, Fitting, MatchesFit
  <1> QED
    BY <1>1, InstantInvariance, PTL

\* Unless a call fails, RunInstant puts a ticket into one match and its
\* announcement is followed by the deletion of its tickets in the same run.
THEOREM InstantAnnouncedOnce ==
    ASSUME Method = "INSTANT"
    PROVE  Spec => []AnnouncedOnce
  <1>1. InstantInv => AnnouncedOnce
    BY DEF InstantInv, InstantRun, Matching, Disjoint, BeingDeleted, AnnouncedOnce
  <1> QED
    BY <1>1, InstantInvariance, PTL

-----------------------------------------------------------------------------
(* The map of a match.                                                       *)

\* An order of a finite set leaves nothing out.
LEMMA OrderIsWhole ==
    ASSUME NEW S, IsFiniteSet(S), NEW order \in SetToSeqs(S), NEW x \in S
    PROVE  \E i \in 1 .. Len(order) : order[i] = x
<1> DEFINE n == Cardinality(S)
<1>1. n \in Nat
  BY FS_CardinalityType
<1>2. order \in [1 .. n -> S] /\ \A i, j \in 1 .. n : i # j => order[i] # order[j]
  BY DEF SetToSeqs
<1>3. IsFiniteSet(1 .. n) /\ Cardinality(1 .. n) = n
  <2> HIDE DEF n
  <2>1. Cardinality(1 .. n) = IF 1 > n THEN 0 ELSE n - 1 + 1
    BY <1>1, FS_Interval
  <2> QED
    BY <1>1, <2>1, FS_Interval
<1>4. order \in Injection(1 .. n, S)
  <2> HIDE DEF n
  <2> QED
    BY <1>2 DEF Injection, IsInjective
<1>5. Len(order) = n
  <2> HIDE DEF n
  <2> QED
    BY <1>1, <1>2
<1>6. order \in Surjection(1 .. n, S)
  <2> DEFINE I == 1 .. n
  <2>1. Cardinality(I) = Cardinality(S) /\ order \in Injection(I, S)
    BY <1>3, <1>4
  <2> HIDE DEF I
  <2>2. order \in Surjection(I, S)
    BY <2>1, FS_Injection
  <2> QED
    BY <2>2 DEF I
<1> HIDE DEF n
<1> QED
  BY <1>5, <1>6 DEF Surjection

LEMMA MostVotesSteps ==
    ASSUME NEW counts, NEW order, Len(order) \in Nat, \A i \in 1 .. Len(order) : counts[order[i]] \in Nat
    PROVE  \A i \in 1 .. Len(order) :
              /\ MostVotes(counts, order)[i] \in Nat
              /\ counts[order[i]] <= MostVotes(counts, order)[Len(order)]
<1> DEFINE n == Len(order)
           After(before, i) == IF counts[order[i]] > before THEN counts[order[i]] ELSE before
           step == [x \in Nat \X (1 .. n) |-> After(x[1], x[2])]
           IsMost(most) == most = [i \in 0 .. n |-> IF i = 0 THEN 0 ELSE After(most[i - 1], i)]
<1>0. n \in Nat
  OBVIOUS
<1>1. step \in [Nat \X (1 .. n) -> Nat]
  OBVIOUS
<1>2. PICK f \in [0 .. n -> Nat] : f[0] = 0 /\ \A i \in 1 .. n : f[i] = step[<<f[i - 1], i>>]
  <2> HIDE DEF n, step
  <2>1. \E f : Recursive(f, n, Nat, 0, step)
    BY <1>0, <1>1, RecursionExists
  <2> QED
    BY <2>1 DEF Recursive
<1>3. ASSUME NEW i \in 1 .. n PROVE f[i] = After(f[i - 1], i)
  <2>1. i - 1 \in 0 .. n
    BY <1>0
  <2> HIDE DEF n, After
  <2>2. <<f[i - 1], i>> \in Nat \X (1 .. n)
    BY <1>2, <2>1
  <2> QED
    BY <1>2, <2>2
<1>4. IsMost(f)
  <2> HIDE DEF After
  <2> QED
    BY <1>2, <1>3
<1>5. MostVotes(counts, order) = CHOOSE most : IsMost(most)
  BY DEF MostVotes
<1>6. IsMost(MostVotes(counts, order))
  <2> HIDE DEF IsMost
  <2> QED
    BY <1>4, <1>5
<1> DEFINE most == MostVotes(counts, order)
<1> HIDE DEF most
<1>7. IsMost(most)
  BY <1>6 DEF most
<1>8. most[0] = 0 /\ \A i \in 1 .. n : most[i] = After(most[i - 1], i)
  <2>1. most = [i \in 0 .. n |-> IF i = 0 THEN 0 ELSE After(most[i - 1], i)]
    BY <1>7
  <2> HIDE DEF After, IsMost, n
  <2>2. \A i \in 0 .. n : most[i] = IF i = 0 THEN 0 ELSE After(most[i - 1], i)
    BY <2>1
  <2>3. 0 \in 0 .. n /\ \A i \in 1 .. n : i \in 0 .. n /\ i # 0
    BY <1>0
  <2> QED
    BY <2>2, <2>3
<1> DEFINE Good == {i \in 0 .. n : /\ most[i] \in Nat
                                   /\ \A j \in 0 .. i : most[j] \in Nat
                                   /\ \A j \in 1 .. i : counts[order[j]] <= most[i]}
<1>9. 0 \in Good
  BY <1>8
<1>10. ASSUME NEW i \in 1 .. n, i - 1 \in Good PROVE i \in Good
  <2>1. most[i - 1] \in Nat /\ counts[order[i]] \in Nat
    BY <1>10
  <2>2. most[i] \in Nat /\ most[i - 1] <= most[i] /\ counts[order[i]] <= most[i]
    BY <1>8, <2>1
  <2>3. ASSUME NEW j \in 0 .. i PROVE most[j] \in Nat
    BY <1>0, <1>10, <2>2
  <2>4. ASSUME NEW j \in 1 .. i PROVE counts[order[j]] <= most[i]
    <3>1. counts[order[j]] \in Nat
      BY <1>0
    <3> QED
      BY <1>0, <1>10, <2>1, <2>2, <3>1
  <2> QED
    BY <2>2, <2>3, <2>4
<1>11. n \in Good
  <2>1. 0 .. n \subseteq Good
    <3> HIDE DEF Good
    <3> QED
      BY <1>0, <1>9, <1>10, UpTo
  <2> QED
    BY <2>1
<1> QED
  BY <1>11 DEF most

\* The votes of the players of S for a map.
VotesFor(S, map) == {p \in S \cap DOMAIN votes : votes[p] = map}

\* No map has more of the votes than a map drawn.
LEMMA DrawnHasMost ==
    ASSUME IsMap(votes, Players, Maps), NEW S,
           NEW pool \in MapPools(CountVotes(GetAllQueuedPlayersByIds(S)), Maps), NEW map \in pool,
           NEW other
    PROVE  Cardinality(VotesFor(S, other)) <= Cardinality(VotesFor(S, map))
  <1> DEFINE V == S \cap DOMAIN votes
             counts == CountVotes(GetAllQueuedPlayersByIds(S))
             N(a) == Cardinality(VotesFor(S, a))
  <1>1. IsFiniteSet(V)
    BY MatchmakerAssumption, FS_Subset DEF IsMap
  <1>2. \A a : IsFiniteSet(VotesFor(S, a)) /\ N(a) \in Nat
    <2>1. \A a : VotesFor(S, a) \in SUBSET V
      BY DEF VotesFor
    <2> QED
      BY <1>1, <2>1, FS_Subset, FS_CardinalityType
  <1>3. DOMAIN counts = {votes[p] : p \in V} /\ \A a \in DOMAIN counts : counts[a] = N(a)
    BY DEF CountVotes, GetAllQueuedPlayersByIds, Restrict, Range, VotesFor
  <1>4. \A a : a \notin DOMAIN counts => N(a) = 0
    <2>1. \A a : a \notin DOMAIN counts => VotesFor(S, a) = {}
      BY <1>3 DEF VotesFor
    <2> QED
      BY <2>1, FS_EmptySet
  <1>5. IsFiniteSet(DOMAIN counts)
    <2> DEFINE g == [p \in V |-> votes[p]]
               D == {votes[p] : p \in V}
    <2>1. g \in Surjection(V, D)
      BY DEF Surjection
    <2> HIDE DEF g, D, V
    <2>2. IsFiniteSet(D)
      BY <1>1, <2>1, FS_Surjection
    <2> QED
      BY <1>3, <2>2 DEF D
  <1> HIDE DEF counts, N, V
  <1>6. PICK order \in SetToSeqs(DOMAIN counts) :
           pool = IF DOMAIN counts = {} THEN Maps ELSE MostVoted(counts, order)
    BY DEF MapPools, counts
  <1>7. CASE other \notin DOMAIN counts
    BY <1>2, <1>4, <1>7 DEF N
  <1>8. CASE other \in DOMAIN counts
    <2>1. /\ Len(order) \in Nat /\ DOMAIN order = 1 .. Len(order)
          /\ \A i \in 1 .. Len(order) : order[i] \in DOMAIN counts
      BY <1>5, OrderNames
    <2>2. \A i \in 1 .. Len(order) : counts[order[i]] <= MostVotes(counts, order)[Len(order)]
      BY <1>2, <1>3, <2>1, MostVotesSteps
    <2>3. PICK i \in 1 .. Len(order) : order[i] = other
      BY <1>5, <1>8, OrderIsWhole
    <2>4. PICK j \in 1 .. Len(order) : /\ order[j] = map
                                       /\ counts[map] = MostVotes(counts, order)[Len(order)]
      BY <1>6, <1>8, <2>1 DEF MostVoted
    <2>5. map \in DOMAIN counts
      BY <2>1, <2>4
    <2> QED
      BY <1>3, <1>8, <2>2, <2>3, <2>4, <2>5 DEF N
  <1> QED
    BY <1>7, <1>8

\* The map drawn of a match has the most votes.
MapsAreVoted ==
    \A m \in DOMAIN plan'.maps \ DOMAIN plan.maps :
        \A map \in Maps :
            Cardinality(VotesFor(PlayersIn(m), map)) <= Cardinality(VotesFor(PlayersIn(m), plan'.maps[m]))

LEMMA CalculateMapVoted ==
    ASSUME IInv, CalculateMap
    PROVE  MapsAreVoted
  <1>1. PICK m \in DOMAIN plan.matches \ DOMAIN plan.maps :
        \E pool \in MapPools(CountVotes(GetAllQueuedPlayersByIds(PlayersIn(m))), Maps) :
        \E map \in pool :
          plan' = [plan EXCEPT !.maps = Overlay([x \in {m} |-> map], plan.maps)]
    BY DEF CalculateMap
  <1>2. PICK pool \in MapPools(CountVotes(GetAllQueuedPlayersByIds(PlayersIn(m))), Maps) :
        \E map \in pool :
          plan' = [plan EXCEPT !.maps = Overlay([x \in {m} |-> map], plan.maps)]
    BY <1>1
  <1>3. PICK map \in pool : plan' = [plan EXCEPT !.maps = Overlay([x \in {m} |-> map], plan.maps)]
    BY <1>2
  <1>4. plan'.maps = Overlay([x \in {m} |-> map], plan.maps)
    BY <1>3, TypeParts DEF IInv, RunTypes, NoPlan
  <1>5. DOMAIN plan'.maps \ DOMAIN plan.maps = {m} /\ plan'.maps[m] = map
    BY <1>4 DEF Overlay
  <1>6. \A other : Cardinality(VotesFor(PlayersIn(m), other)) <= Cardinality(VotesFor(PlayersIn(m), map))
    BY DrawnHasMost, TypeParts DEF IInv, StoreTypes
  <1> QED
    BY <1>5, <1>6 DEF MapsAreVoted

LEMMA NextMapsVoted ==
    ASSUME IInv, [Next]_vars
    PROVE  MapsAreVoted
  <1>1. ASSUME DOMAIN plan'.maps \subseteq DOMAIN plan.maps PROVE MapsAreVoted
    BY <1>1 DEF MapsAreVoted
  <1>2. CASE UNCHANGED plan \/ NextRun
    <2>1. DOMAIN plan'.maps \subseteq DOMAIN plan.maps
      BY <1>2 DEF NextRun, NoPlan, Empty
    <2> QED
      BY <1>1, <2>1
  <1>3. CASE CalculateMap
    BY <1>3, CalculateMapVoted
  <1>4. CASE ReadTicketsAndMatch
    <2>1. NextRun \/ \E matches : plan' = [NoPlan EXCEPT !.matches = matches]
      BY <1>4 DEF ReadTicketsAndMatch
    <2>2. DOMAIN plan'.maps = {}
      BY <2>1 DEF NextRun, NoPlan, Empty
    <2> QED
      BY <1>1, <2>2
  <1>5. CASE CancelAndPlan
    <2>1. plan'.maps = Empty
      BY <1>5 DEF CancelAndPlan
    <2> QED
      BY <1>1, <2>1 DEF Empty
  <1>6. CASE DeleteTickets
    <2>1. \E matches, removing : plan' = [plan EXCEPT !.matches = matches, !.removing = removing]
      <3>1. PICK m \in DOMAIN plan.matches :
               plan' = [plan EXCEPT !.matches = Without(@, {m}),
                                    !.removing = UNION {ticketMap[t].players : t \in DOMAIN plan.matches[m]}]
        BY <1>6 DEF DeleteTickets
      <3> QED
        BY <3>1
    <2>2. plan'.maps = plan.maps
      BY <2>1, TypeParts DEF IInv, RunTypes, NoPlan
    <2> QED
      BY <1>1, <2>2
  <1>7. CASE Director
    <2>1. CASE ReadDequeues \/ DeleteMarked \/ PullMarked \/ ResetRemovals \/ DeletePlayers
                 \/ ReadTickets \/ Panic \/ UpdatePendingMatches \/ CreatePendingMatches
                 \/ DeleteFinished \/ FlagTickets \/ AnnounceMatches \/ DeleteMatched
      <3>1. UNCHANGED plan \/ NextRun
        BY <2>1 DEF ReadDequeues, DeleteMarked, PullMarked, ResetRemovals, DeletePlayers,
              ReadTickets, Panic, UpdatePendingMatches, CreatePendingMatches,
              DeleteFinished, FlagTickets, AnnounceMatches, DeleteMatched
      <3> QED
        BY <1>2, <3>1
    <2> QED
      BY <1>3, <1>4, <1>5, <1>6, <1>7, <2>1 DEF Director
  <1>8. CASE Faults
    <2>1. NextRun
      BY <1>8 DEF Faults, CallFails, Crash, RestartAfterPanic
    <2> QED
      BY <1>2, <2>1
  <1>9. CASE PartyService \/ Handlers \/ Consumer \/ (\E m \in PendingMatchIds : TeleportTimePasses(m))
                \/ UNCHANGED vars
    <2>1. UNCHANGED plan
      <3>1. CASE PartyService
        BY <3>1 DEF PartyService, LeaveParty, JoinParty, EmptyParty, PartyChange, directorVars
      <3>2. CASE Handlers
        BY <3>2 DEF Handlers, QueueGetParty, QueueCheckParty, QueueCreateTicket, DequeueByPlayer,
                    ChangePlayerMapVote, directorVars
      <3>3. CASE Consumer
        BY <3>3 DEF Consumer, HandlePartyDisband, HandlePartyPlayerLeft, NextMessage, directorVars
      <3>4. CASE (\E m \in PendingMatchIds : TeleportTimePasses(m)) \/ UNCHANGED vars
        BY <3>4 DEF TeleportTimePasses, vars, directorVars
      <3> QED
        BY <1>9, <3>1, <3>2, <3>3, <3>4
    <2> QED
      BY <1>2, <2>1
  <1> QED
    BY <1>7, <1>8, <1>9 DEF Next

\* The map of a match is one for which no fewer of its queued players voted than
\* for any other, in whatever order the maps were compared, for both methods.
THEOREM MapsAreMostVoted == Spec => MapsFollowVotes
  <1>1. IInv /\ [Next]_vars => MapsAreVoted
    BY NextMapsVoted
  <1>2. MapsAreVoted => [\A m \in DOMAIN plan'.maps \ DOMAIN plan.maps :
          LET For(map) == {p \in PlayersIn(m) \cap DOMAIN votes : votes[p] = map}
          IN  \A map \in Maps : Cardinality(For(map)) <= Cardinality(For(plan'.maps[m]))]_vars
    BY DEF MapsAreVoted, VotesFor
  <1> QED
    BY <1>1, <1>2, Invariance, PTL DEF Spec, MapsFollowVotes

-----------------------------------------------------------------------------
(* The answers of RunCountdown.                                              *)

\* A waiting ticket goes into one pending match at most.
LEMMA FillingsPlace ==
    ASSUME NEW size, NEW waiting, NEW matches, IsFiniteSet(DOMAIN matches),
           NEW added \in Fillings(size, waiting, matches)
    PROVE  /\ added \in [DOMAIN matches -> SUBSET waiting]
           /\ \A m, n \in DOMAIN matches : m # n => added[m] \cap added[n] = {}
  <1>1. added \in [DOMAIN matches -> SUBSET waiting]
    BY DEF Fillings
  <1>2. PICK order \in SetToSeqs(DOMAIN matches) :
           \A i \in DOMAIN order : added[order[i]] \subseteq LeftAt(waiting, order, i, added)
    BY DEF Fillings
  <1>3. Len(order) \in Nat /\ DOMAIN order = 1 .. Len(order)
    BY OrderNames
  <1>4. ASSUME NEW i \in 1 .. Len(order), NEW j \in 1 .. Len(order), i < j
        PROVE  added[order[i]] \cap added[order[j]] = {}
    <2>1. i \in 1 .. j - 1
      BY <1>3, <1>4
    <2>2. added[order[j]] \subseteq waiting \ UNION {added[order[k]] : k \in 1 .. j - 1}
      BY <1>2, <1>3 DEF LeftAt
    <2>3. added[order[i]] \in {added[order[k]] : k \in 1 .. j - 1}
      BY <2>1
    <2> QED
      BY <2>2, <2>3
  <1>5. ASSUME NEW m \in DOMAIN matches, NEW n \in DOMAIN matches, m # n
        PROVE  added[m] \cap added[n] = {}
    <2>1. PICK i \in 1 .. Len(order) : order[i] = m
      BY OrderIsWhole
    <2>2. PICK j \in 1 .. Len(order) : order[j] = n
      BY OrderIsWhole
    <2>3. i < j \/ j < i
      BY <1>3, <1>5, <2>1, <2>2
    <2> QED
      BY <1>4, <2>1, <2>2, <2>3
  <1> QED
    BY <1>1, <1>5

\* The loop that makes pending matches takes some players each time ...
LEMMA PackHasPlayers ==
    ASSUME NEW size, NEW left, IsFiniteSet(left), \A t \in left : size[t] \in 0 .. MaxPlayers,
           Total(size, left) # 0, NEW X \in Packs(size, left)
    PROVE  Total(size, X) \in Nat \ {0}
  <1>1. X \in SUBSET left /\ \A t \in left \ X : size[t] > MaxPlayers - Total(size, {x \in X : size[x] >= size[t]})
    BY DEF Packs
  <1>2. \A t \in left : size[t] \in Nat /\ size[t] <= MaxPlayers
    BY GameModeAssumption
  <1>3. ASSUME NEW Y \in SUBSET left
        PROVE  /\ Total(size, Y) \in Nat
               /\ \A Z \in SUBSET Y : Total(size, Z) <= Total(size, Y) /\ Total(size, Z) \in Nat
               /\ \A x \in Y : Total(size, Y) = size[x] + Total(size, Y \ {x})
    <2>1. \A Z \in SUBSET Y : IsFiniteSet(Z) /\ \A t \in Z : size[t] \in Nat
      BY <1>2, FS_Subset
    <2>2. \A Z \in SUBSET Y : Total(size, Z) \in Nat
      BY <2>1, TotalFacts
    <2>3. IsFiniteSet(Y) /\ \A t \in Y : size[t] \in Nat
      BY <2>1
    <2>4. /\ \A Z \in SUBSET Y : Total(size, Z) <= Total(size, Y)
          /\ \A x \in Y : Total(size, Y) = size[x] + Total(size, Y \ {x})
      BY <2>3, TotalFacts
    <2> QED
      BY <2>2, <2>4
  <1>4. CASE \E t \in left \ X : TRUE
    <2>1. PICK t \in left \ X : TRUE
      BY <1>4
    <2>2. Total(size, {x \in X : size[x] >= size[t]}) # 0
      BY <1>1, <1>2, <2>1, GameModeAssumption
    <2>3. {x \in X : size[x] >= size[t]} \in SUBSET X
      OBVIOUS
    <2>4. /\ Total(size, {x \in X : size[x] >= size[t]}) <= Total(size, X)
          /\ Total(size, {x \in X : size[x] >= size[t]}) \in Nat /\ Total(size, X) \in Nat
      BY <1>1, <1>3, <2>3
    <2> QED
      BY <2>2, <2>4
  <1>5. CASE X = left
    BY <1>3, <1>5
  <1> QED
    BY <1>1, <1>4, <1>5

\* ... so it ends, after going round once at least.
LEMMA IterationsAreSome ==
    ASSUME NEW size, NEW left, NEW X, Total(size, left) \in Nat, Total(size, X) \in Nat \ {0},
           Total(size, left) >= MinPlayers
    PROVE  Iterations(size, left, X) \in 1 .. Total(size, left)
  <1> DEFINE l == Total(size, left)
             x == Total(size, X)
             Ends(n) == l - n * x < MinPlayers /\ l - (n - 1) * x >= MinPlayers
             Round == {n \in 0 .. l : l - n * x >= MinPlayers}
  <1>1. l \in Nat /\ x \in Nat \ {0} /\ l >= MinPlayers /\ MinPlayers \in Nat \ {0}
    BY GameModeAssumption
  <1>2. Iterations(size, left, X) = CHOOSE n \in 1 .. l : Ends(n)
    BY DEF Iterations
  <1> HIDE DEF l, x
  <1>3. \E n \in 1 .. l : Ends(n)
    <2> SUFFICES ASSUME \A n \in 1 .. l : ~Ends(n) PROVE FALSE
      OBVIOUS
    <2>1. 0 \in Round
      <3>1. 0 * x = 0
        BY <1>1
      <3> QED
        BY <1>1, <3>1
    <2>2. ASSUME NEW n \in 1 .. l, n - 1 \in Round PROVE n \in Round
      <3>1. n * x \in Int /\ (n - 1) * x \in Int
        BY <1>1
      <3> QED
        BY <1>1, <2>2, <3>1
    <2>3. 0 .. l \subseteq Round
      <3> HIDE DEF Round
      <3> QED
        BY <1>1, <2>1, <2>2, UpTo
    <2>4. l - l * x >= MinPlayers
      BY <1>1, <2>3
    <2>5. l * x >= l
      BY <1>1
    <2>6. l * x \in Int
      BY <1>1
    <2> QED
      BY <1>1, <2>4, <2>5, <2>6
  <1> HIDE DEF Ends
  <1> QED
    BY <1>2, <1>3 DEF l

LEMMA NewMatchesPlace ==
    ASSUME NEW size, NEW left, IsFiniteSet(left), \A t \in left : size[t] \in 0 .. MaxPlayers,
           NEW new \in NewMatches(size, left)
    PROVE  /\ new.tickets \subseteq left
           /\ new.tickets # {} => new.copies \in Nat \ {0}
  <1>1. Total(size, left) \in Nat
    <2>1. \A t \in left : size[t] \in Nat
      BY GameModeAssumption
    <2> QED
      BY <2>1, TotalFacts
  <1>2. CASE Total(size, left) >= MinPlayers
    <2>1. PICK X \in Packs(size, left) : new = [tickets |-> X, copies |-> Iterations(size, left, X)]
      BY <1>2 DEF NewMatches
    <2>2. X \subseteq left
      BY DEF Packs
    <2>3. Total(size, left) # 0
      BY <1>1, <1>2, GameModeAssumption
    <2>4. Iterations(size, left, X) \in 1 .. Total(size, left)
      BY <1>1, <1>2, <2>3, PackHasPlayers, IterationsAreSome
    <2> QED
      BY <1>1, <2>1, <2>2, <2>4
  <1>3. CASE ~ (Total(size, left) >= MinPlayers)
    BY <1>3 DEF NewMatches
  <1> QED
    BY <1>2, <1>3

\* The players of a pending match that names each of its tickets once, all of
\* them known.
LEMMA PlayerCountIsTotal ==
    ASSUME NEW size, NEW T, NEW bag, IsFiniteSet(DOMAIN bag), DOMAIN bag \subseteq T,
           \A t \in DOMAIN bag : size[t] \in Nat /\ bag[t] = 1
    PROVE  PendingMatchPlayerCount(size, T, bag) = Total(size, DOMAIN bag)
<1> DEFINE B == T \cap DOMAIN bag
           one(s) == CHOOSE x \in s : TRUE
           sum == CHOOSE iter : iter = [s \in SUBSET B |->
                                          IF s = {} THEN 0 ELSE (bag[one(s)] * size[one(s)]) + iter[s \ {one(s)}]]
           f == [s \in SUBSET B |-> Total(size, s)]
<1>0. B = DOMAIN bag
  OBVIOUS
<1>1. PendingMatchPlayerCount(size, T, bag) = sum[B]
  BY DEF PendingMatchPlayerCount, MapThenSumSet, MapThenFoldSet
<1>2. ASSUME NEW s \in SUBSET B
      PROVE  f[s] = IF s = {} THEN 0 ELSE (bag[one(s)] * size[one(s)]) + f[s \ {one(s)}]
  <2>1. IsFiniteSet(s) /\ \A t \in s : size[t] \in Nat
    BY FS_Subset
  <2>2. CASE s = {}
    BY <2>1, <2>2, TotalFacts
  <2>3. CASE s # {}
    <3>1. one(s) \in s /\ s \ {one(s)} \in SUBSET B
      BY <2>3
    <3> HIDE DEF one
    <3>2. Total(size, s) = size[one(s)] + Total(size, s \ {one(s)})
      BY <2>1, <3>1, TotalFacts
    <3>3. bag[one(s)] * size[one(s)] = size[one(s)]
      BY <3>1
    <3> QED
      BY <2>3, <3>1, <3>2, <3>3
  <2> QED
    BY <2>2, <2>3
<1>3. sum = [s \in SUBSET B |-> IF s = {} THEN 0 ELSE (bag[one(s)] * size[one(s)]) + sum[s \ {one(s)}]]
  <2> HIDE DEF one
  <2>1. f = [s \in SUBSET B |-> IF s = {} THEN 0 ELSE (bag[one(s)] * size[one(s)]) + f[s \ {one(s)}]]
    BY <1>2
  <2> HIDE DEF f
  <2> QED
    BY <2>1
<1> HIDE DEF sum
<1>4. SUBSET B \subseteq {s \in SUBSET B : sum[s] = f[s]}
  <2> DEFINE G == {s \in SUBSET B : sum[s] = f[s]}
  <2>1. ASSUME NEW s \in SUBSET B, \A U \in SUBSET s : U # s => U \in G PROVE s \in G
    <3>1. CASE s = {}
      BY <1>2, <1>3, <3>1
    <3>2. CASE s # {}
      <4>1. one(s) \in s /\ s \ {one(s)} \in G
        BY <2>1, <3>2
      <4> HIDE DEF one, f
      <4> QED
        BY <1>2, <1>3, <3>2, <4>1
    <3> QED
      BY <3>1, <3>2
  <2> HIDE DEF G
  <2>2. SUBSET B \subseteq G
    BY <1>0, <2>1, BySubsets
  <2> QED
    BY <2>2 DEF G
<1> QED
  BY <1>0, <1>1, <1>4

-----------------------------------------------------------------------------
(* Tickets and pending matches agree, as long as no two pending matches are  *)
(* made of the same tickets.                                                 *)

\* The loop of createPendingMatches, which does not remove the tickets it takes,
\* does not go round twice.
OneAtATime == \A m, n \in DOMAIN plan.created : m = n

\* The calls that write what CancelAndPlan answered.
Writing == pc \in {"update", "create", "deleteFinished", "flag"}

\* The pending matches that will be there when they have.
Remaining ==
    (DOMAIN pendingMatches \cup (IF pc \in {"update", "create"} THEN DOMAIN plan.created ELSE {}))
      \ (IF pc \in {"update", "create", "deleteFinished"} THEN DOMAIN plan.matches ELSE {})

\* The bag that a pending match will be.
Listed(m) ==
    IF pc \in {"update", "create"} /\ m \in DOMAIN plan.created THEN plan.created[m]
    ELSE IF pc = "update" /\ m \in DOMAIN plan.updated THEN plan.updated[m]
    ELSE pendingMatches[m]

\* The flag that a ticket will have.
Flag(t) == IF Writing /\ t \in DOMAIN plan.flags THEN plan.flags[t] ELSE tickets[t].inPendingMatch

Named(t) == \E m \in Remaining : t \in DOMAIN Listed(m)

\* Tickets that pending matches name although they are deleted.
Deleted == IF pc = "pullMarked" THEN batch.delete ELSE {}

\* Tickets of the matches of the run, which are about to be deleted.
Finished == IF Planned THEN MatchTickets ELSE {}

\* Tickets that have their match: those, and the announced ones that a run which
\* failed has left behind.  They keep their flag, so no run takes them again.
Settled == Finished \cup announced

Agree ==
    /\ pc # "panicked"
    /\ \A m \in Remaining : /\ DOMAIN Listed(m) \subseteq (DOMAIN tickets \cup Deleted) \ Settled
                            /\ \A t \in DOMAIN Listed(m) : Listed(m)[t] = 1
    /\ \A m, n \in Remaining : m # n => DOMAIN Listed(m) \cap DOMAIN Listed(n) = {}
    /\ \A t \in DOMAIN tickets : Flag(t) <=> Named(t) \/ t \in Settled

\* What the run has read is there.
ReadAgrees ==
    /\ pc = "cancel" =>
          /\ DOMAIN ticketMap \subseteq DOMAIN tickets
          /\ \A m \in DOMAIN pendingMatches : DOMAIN pendingMatches[m] \subseteq DOMAIN ticketMap
          /\ \A t \in DOMAIN ticketMap : ticketMap[t].inPendingMatch = tickets[t].inPendingMatch
    /\ Writing => DOMAIN plan.flags \subseteq DOMAIN ticketMap
    /\ pc = "pullMarked" => batch.delete \cap DOMAIN tickets = {}

\* The matches of the run.
Enough == \A m \in DOMAIN plan.matches : PlayersOf(plan.matches[m]) >= MinPlayers

MatchesGood == Planned => Disjoint /\ Enough

\* The tickets of its matches have not been announced before the run announces
\* them; after that they have been, until they are deleted.
AnnouncedGood ==
    IF pc \in {"deleteTickets", "deleteMatched"} THEN MatchTickets \cap DOMAIN tickets \subseteq announced
    ELSE Planned => MatchTickets \cap announced = {}

\* What holds at every step of a run ...
Sound == Agree /\ ReadAgrees /\ MatchesGood /\ AnnouncedGood

\* ... until a call fails; if by then tickets were announced and are still there,
\* until another one fails.
Stale == announced \ BeingDeleted

CountdownRun ==
    /\ faults = 0 => Stale = {}
    /\ faults = 0 \/ (faults = 1 /\ Stale # {}) => Sound

CountdownInv == IInv /\ PartiesAllowed /\ IsFiniteSet(DOMAIN pendingMatches) /\ CountdownRun

\* The pending matches will be as they would have been, and no ticket gets
\* another flag than it would have got, but for new ones, which have none.
LEMMA AgreeKept ==
    ASSUME Agree, pc' # "panicked", Remaining' = Remaining,
           \A m \in Remaining : Listed(m)' = Listed(m),
           (DOMAIN tickets \cup Deleted) \ Settled \subseteq (DOMAIN tickets' \cup Deleted') \ Settled',
           \A t \in DOMAIN tickets' :
              \/ t \in DOMAIN tickets /\ Flag(t)' = Flag(t) /\ (t \in Settled' <=> t \in Settled)
              \/ Flag(t)' = FALSE /\ t \notin DOMAIN tickets \cup Deleted \cup Settled'
    PROVE  Agree'
  <1>1. \A t : Named(t)' <=> Named(t)
    BY DEF Named
  <1>2. \A t : Named(t) => t \in (DOMAIN tickets \cup Deleted) \ Settled
    BY DEF Agree, Named
  <1>3. \A t \in DOMAIN tickets' : Flag(t)' <=> Named(t)' \/ t \in Settled'
    <2> TAKE t \in DOMAIN tickets'
    <2>1. CASE t \in DOMAIN tickets /\ Flag(t)' = Flag(t) /\ (t \in Settled' <=> t \in Settled)
      BY <1>1, <2>1 DEF Agree
    <2>2. CASE Flag(t)' = FALSE /\ t \notin DOMAIN tickets \cup Deleted \cup Settled'
      BY <1>1, <1>2, <2>2
    <2> QED
      BY <2>1, <2>2
  <1> QED
    BY <1>3 DEF Agree

\* A step of another process: tickets stay, with their flags, and new ones are
\* fresh.
LEMMA OthersKeepRun ==
    ASSUME IInv, CountdownRun,
           UNCHANGED <<pendingMatches, pc, batch, ticketMap, plan, faults, announced>>,
           DOMAIN tickets \subseteq DOMAIN tickets',
           \A t \in DOMAIN tickets : tickets'[t].inPendingMatch = tickets[t].inPendingMatch,
           \A t \in DOMAIN tickets' \ DOMAIN tickets :
              /\ tickets'[t].inPendingMatch = FALSE
              /\ t \notin DOMAIN ticketMap \cup batch.delete
    PROVE  CountdownRun'
  <1>0. UNCHANGED Stale
    BY DEF Stale, BeingDeleted, MatchTickets
  <1> SUFFICES ASSUME Agree, ReadAgrees, MatchesGood, AnnouncedGood
               PROVE  Agree' /\ ReadAgrees' /\ MatchesGood' /\ AnnouncedGood'
    BY <1>0 DEF CountdownRun, Sound
  <1>1. /\ UNCHANGED <<Planned, Writing, Remaining, Deleted, MatchTickets, Finished, Settled>>
        /\ \A m : Listed(m)' = Listed(m)
    BY DEF Planned, Writing, Remaining, Deleted, MatchTickets, Finished, Settled, Listed
  <1>2. MatchesGood'
    BY <1>1 DEF MatchesGood, Disjoint, Enough, PlayersOf, Size, Sizes
  <1>3. \A t \in DOMAIN tickets : Flag(t)' = Flag(t)
    BY <1>1 DEF Flag
  <1>4. Planned => MatchTickets \subseteq DOMAIN ticketMap
    BY DEF IInv, ReadStillTrue, MatchTickets
  <1>5. \A t \in DOMAIN tickets' \ DOMAIN tickets : Flag(t)' = FALSE /\ t \notin Deleted \cup Settled
    <2>1. announced \subseteq DOMAIN tickets
      BY DEF IInv, TypeOK
    <2> QED
      BY <1>1, <1>4, <2>1 DEF Flag, ReadAgrees, Deleted, Settled, Finished
  <1>6. Agree'
    <2>1. pc' # "panicked"
      BY DEF Agree
    <2> QED
      BY <1>1, <1>3, <1>5, <2>1, AgreeKept
  <1>7. ReadAgrees'
    BY <1>1 DEF ReadAgrees
  <1>8. AnnouncedGood'
    <2>1. \A t \in DOMAIN tickets' \ DOMAIN tickets : Planned => t \notin MatchTickets
      BY <1>4
    <2> QED
      BY <1>1, <2>1 DEF AnnouncedGood, Planned
  <1> QED
    BY <1>2, <1>6, <1>7, <1>8

LEMMA OthersCountdownRun ==
    ASSUME CountdownInv,
           PartyService \/ Handlers \/ Consumer \/ (\E m \in PendingMatchIds : TeleportTimePasses(m))
             \/ UNCHANGED vars
    PROVE  CountdownRun' /\ UNCHANGED pendingMatches
  <1>0. tickets \in [DOMAIN tickets -> Ticket]
    BY TypeParts DEF CountdownInv, IInv, StoreTypes, IsMap
  <1> DEFINE Same == UNCHANGED <<pendingMatches, pc, batch, ticketMap, plan, faults, announced>>
             Flags == \A t \in DOMAIN tickets : tickets'[t].inPendingMatch = tickets[t].inPendingMatch
             Fresh(t) == /\ tickets'[t].inPendingMatch = FALSE
                         /\ t \notin DOMAIN ticketMap \cup batch.delete
             Grow == /\ DOMAIN tickets \subseteq DOMAIN tickets'
                     /\ Flags
                     /\ \A t \in DOMAIN tickets' \ DOMAIN tickets : Fresh(t)
  <1>1. ASSUME Same, Grow PROVE CountdownRun' /\ UNCHANGED pendingMatches
    BY <1>1, OthersKeepRun DEF CountdownInv
  <1>2. ASSUME NEW t \in DOMAIN tickets, MarkTicket(t) \/ \E p : AddLeaving(t, p) PROVE Grow
    <2>1. PICK w : tickets' = [tickets EXCEPT ![t].marked = TRUE]
                     \/ tickets' = [tickets EXCEPT ![t].leaving = w]
      BY <1>2
    <2>2. DOMAIN tickets' = DOMAIN tickets
      BY <2>1
    <2>3. Flags
      BY <1>0, <2>1 DEF Ticket
    <2> QED
      BY <2>2, <2>3
  <1>3. ASSUME UNCHANGED tickets PROVE Grow
    BY <1>3
  <1>4. CASE PartyService
    BY <1>1, <1>3, <1>4 DEF PartyService, LeaveParty, JoinParty, EmptyParty, PartyChange, directorVars, storeVars
  <1>5. CASE Consumer
    <2>1. Same
      BY <1>5 DEF Consumer, HandlePartyDisband, HandlePartyPlayerLeft, NextMessage, directorVars
    <2>2. UNCHANGED tickets \/ \E t \in DOMAIN tickets : MarkTicket(t) \/ \E p : AddLeaving(t, p)
      BY <1>5 DEF Consumer, HandlePartyDisband, HandlePartyPlayerLeft
    <2> HIDE DEF Same, Grow
    <2> QED
      BY <1>1, <1>2, <1>3, <2>1, <2>2
  <1>6. CASE Handlers
    <2>1. Same
      BY <1>6 DEF Handlers, QueueGetParty, QueueCheckParty, QueueCreateTicket, DequeueByPlayer,
                  ChangePlayerMapVote, directorVars, storeVars
    <2>2. CASE \E p \in Players : QueueCreateTicket(p)
      <3>1. PICK p \in Players : QueueCreateTicket(p)
        BY <2>2
      <3>2. CASE UNCHANGED tickets
        BY <1>1, <1>3, <2>1, <3>2
      <3>3. CASE ~ UNCHANGED tickets
        <4>1. PICK t \in FreshTicketIds :
                 tickets' = Overlay([x \in {t} |-> [party |-> requests[p].party, leader |-> p,
                                                    players |-> requests[p].players, inPendingMatch |-> FALSE,
                                                    marked |-> FALSE, leaving |-> {}]], tickets)
          BY <3>1, <3>3 DEF QueueCreateTicket
        <4>2. t \notin DOMAIN tickets \cup DOMAIN ticketMap \cup batch.delete
          BY DEF FreshTicketIds
        <4>3. /\ DOMAIN tickets' = DOMAIN tickets \cup {t}
              /\ tickets'[t].inPendingMatch = FALSE
              /\ \A u \in DOMAIN tickets : tickets'[u] = tickets[u]
          BY <4>1, <4>2 DEF Overlay
        <4>4. Grow
          BY <4>2, <4>3
        <4> QED
          BY <1>1, <2>1, <4>4
      <3> QED
        BY <3>2, <3>3
    <2>3. CASE \E p \in Players : DequeueByPlayer(p)
      <3>1. \E t \in DOMAIN tickets : MarkTicket(t)
        BY <2>3 DEF DequeueByPlayer
      <3> HIDE DEF Same, Grow
      <3> QED
        BY <1>1, <1>2, <2>1, <3>1
    <2>4. CASE \E p \in Players, map \in Maps : ChangePlayerMapVote(p, map)
      <3>1. UNCHANGED tickets
        BY <2>4 DEF ChangePlayerMapVote
      <3> HIDE DEF Same, Grow
      <3> QED
        BY <1>1, <1>3, <2>1, <3>1
    <2>5. CASE \E p \in Players : QueueGetParty(p) \/ QueueCheckParty(p)
      <3>1. UNCHANGED tickets
        BY <2>5 DEF QueueGetParty, QueueCheckParty, storeVars
      <3> HIDE DEF Same, Grow
      <3> QED
        BY <1>1, <1>3, <2>1, <3>1
    <2> QED
      BY <1>6, <2>2, <2>3, <2>4, <2>5 DEF Handlers
  <1>7. CASE (\E m \in PendingMatchIds : TeleportTimePasses(m)) \/ UNCHANGED vars
    BY <1>1, <1>3, <1>7 DEF TeleportTimePasses, vars, directorVars, storeVars
  <1> QED
    BY <1>4, <1>5, <1>6, <1>7

\* The calls of processDequeues.
LEMMA DequeuesSound ==
    ASSUME IInv, Sound, ReadDequeues \/ DeleteMarked \/ PullMarked \/ ResetRemovals \/ DeletePlayers
    PROVE  Sound'
  <1> USE DEF Sound
  <1>0. tickets \in [DOMAIN tickets -> Ticket]
    BY TypeParts DEF IInv, StoreTypes, IsMap
  <1>1. /\ pc \in {"readDequeues", "deleteMarked", "pullMarked", "resetRemovals", "deletePlayers"}
        /\ pc' \in {"deleteMarked", "pullMarked", "resetRemovals", "deletePlayers", "readTickets"}
        /\ announced' \subseteq announced
        /\ pc' = "pullMarked" <=> pc = "deleteMarked"
    BY DEF ReadDequeues, DeleteMarked, PullMarked, ResetRemovals, DeletePlayers
  <1>2. AnnouncedGood' /\ MatchesGood'
    BY <1>1 DEF AnnouncedGood, MatchesGood, Planned
  <1>3. /\ Remaining = DOMAIN pendingMatches /\ Remaining' = DOMAIN pendingMatches'
        /\ \A m : Listed(m) = pendingMatches[m] /\ Listed(m)' = pendingMatches'[m]
        /\ \A t : Flag(t) = tickets[t].inPendingMatch /\ Flag(t)' = tickets'[t].inPendingMatch
        /\ Settled = announced /\ Settled' = announced' /\ pc' # "panicked"
    BY <1>1 DEF Remaining, Listed, Flag, Finished, Settled, Writing, Planned
  <1>4. CASE ReadDequeues \/ DeletePlayers
    <2>1. /\ pc # "deleteMarked" /\ pc # "pullMarked" /\ UNCHANGED <<tickets, pendingMatches, announced>>
      BY <1>4 DEF ReadDequeues, DeletePlayers, storeVars
    <2>2. Deleted = {} /\ Deleted' = {}
      BY <1>1, <2>1 DEF Deleted
    <2>3. Agree'
      BY <1>3, <2>1, <2>2, AgreeKept
    <2> QED
      BY <1>1, <1>2, <2>1, <2>3 DEF ReadAgrees, Writing
  <1>5. CASE DeleteMarked
    <2>1. /\ pc = "deleteMarked" /\ tickets' = Without(tickets, batch.delete)
          /\ announced' = announced \ batch.delete /\ UNCHANGED <<pendingMatches, batch>>
      BY <1>5 DEF DeleteMarked
    <2>2. Deleted = {} /\ Deleted' = batch.delete
      BY <1>1, <2>1 DEF Deleted
    <2>3. /\ DOMAIN tickets' = DOMAIN tickets \ batch.delete
          /\ \A t \in DOMAIN tickets' : tickets'[t] = tickets[t]
      BY <2>1 DEF Without
    <2>4. Agree'
      BY <1>3, <2>1, <2>2, <2>3, AgreeKept
    <2> QED
      BY <1>1, <1>2, <2>1, <2>3, <2>4 DEF ReadAgrees, Writing
  <1>6. CASE PullMarked
    <2>1. /\ pc = "pullMarked" /\ UNCHANGED <<tickets, announced>>
          /\ pendingMatches' = [m \in DOMAIN pendingMatches |-> Without(pendingMatches[m], batch.delete)]
      BY <1>6 DEF PullMarked
    <2>2. Deleted = batch.delete /\ Deleted' = {} /\ batch.delete \cap DOMAIN tickets = {}
      BY <1>1, <2>1 DEF Deleted, ReadAgrees
    <2>3. /\ DOMAIN pendingMatches' = DOMAIN pendingMatches
          /\ \A m \in DOMAIN pendingMatches :
                /\ DOMAIN pendingMatches'[m] = DOMAIN pendingMatches[m] \ batch.delete
                /\ \A t \in DOMAIN pendingMatches'[m] : pendingMatches'[m][t] = pendingMatches[m][t]
      BY <2>1 DEF Without
    <2>4. \A t \in DOMAIN tickets' : Named(t)' <=> Named(t)
      <3>1. \A t : /\ Named(t) <=> \E m \in DOMAIN pendingMatches : t \in DOMAIN pendingMatches[m]
                   /\ Named(t)' <=> \E m \in DOMAIN pendingMatches' : t \in DOMAIN pendingMatches'[m]
        BY <1>3 DEF Named
      <3>2. \A t \in DOMAIN tickets' : t \notin batch.delete
        BY <2>1, <2>2
      <3> QED
        BY <2>3, <3>1, <3>2
    <2>5. \A m \in DOMAIN pendingMatches :
             /\ DOMAIN pendingMatches[m] \subseteq (DOMAIN tickets \cup batch.delete) \ announced
             /\ \A t \in DOMAIN pendingMatches[m] : pendingMatches[m][t] = 1
      BY <1>3, <2>2 DEF Agree
    <2>6. \A m \in DOMAIN pendingMatches :
             /\ DOMAIN pendingMatches'[m] \subseteq DOMAIN tickets' \ announced'
             /\ \A t \in DOMAIN pendingMatches'[m] : pendingMatches'[m][t] = 1
      <3> TAKE m \in DOMAIN pendingMatches
      <3>1. DOMAIN pendingMatches'[m] = DOMAIN pendingMatches[m] \ batch.delete
        BY <2>3
      <3>2. /\ DOMAIN pendingMatches'[m] \subseteq DOMAIN tickets \ announced
            /\ DOMAIN tickets' = DOMAIN tickets /\ announced' = announced
        BY <2>1, <2>5, <3>1
      <3>3. \A t \in DOMAIN pendingMatches'[m] : pendingMatches'[m][t] = 1
        BY <2>3, <2>5, <3>1
      <3> QED
        BY <3>2, <3>3
    <2>7. \A m, n \in DOMAIN pendingMatches :
             m # n => DOMAIN pendingMatches'[m] \cap DOMAIN pendingMatches'[n] = {}
      BY <1>3, <2>3 DEF Agree
    <2>8. \A t \in DOMAIN tickets' : Flag(t)' <=> Named(t)' \/ t \in announced'
      BY <1>3, <2>1, <2>4 DEF Agree
    <2>9. Agree'
      BY <1>3, <2>2, <2>3, <2>6, <2>7, <2>8 DEF Agree
    <2> QED
      BY <1>1, <1>2, <2>1, <2>9 DEF ReadAgrees, Writing
  <1>7. CASE ResetRemovals
    <2>1. /\ pc = "resetRemovals" /\ UNCHANGED <<pendingMatches, announced>>
          /\ tickets' = [t \in DOMAIN tickets |->
                           IF t \in batch.reset
                           THEN [tickets[t] EXCEPT !.marked = FALSE, !.leaving = {}] ELSE tickets[t]]
      BY <1>7 DEF ResetRemovals
    <2>2. DOMAIN tickets' = DOMAIN tickets
      BY <2>1
    <2>3. ASSUME NEW t \in DOMAIN tickets PROVE tickets'[t].inPendingMatch = tickets[t].inPendingMatch
      <3>1. tickets[t] \in Ticket
        BY <1>0
      <3>2. tickets'[t] \in {tickets[t], [tickets[t] EXCEPT !.marked = FALSE, !.leaving = {}]}
        BY <2>1
      <3> QED
        BY <3>1, <3>2 DEF Ticket
    <2>4. Deleted = {} /\ Deleted' = {}
      BY <1>1, <2>1 DEF Deleted
    <2>5. Agree'
      BY <1>3, <2>1, <2>2, <2>3, <2>4, AgreeKept
    <2> QED
      BY <1>1, <1>2, <2>1, <2>5 DEF ReadAgrees, Writing
  <1> QED
    BY <1>4, <1>5, <1>6, <1>7

LEMMA ReadTicketsSound ==
    ASSUME IInv, Sound, ReadTickets
    PROVE  Sound'
  <1> USE DEF Sound
  <1>1. /\ pc = "readTickets" /\ pc' = "cancel" /\ ticketMap' = tickets
        /\ UNCHANGED <<tickets, pendingMatches, announced>>
    BY DEF ReadTickets, storeVars
  <1>2. /\ Remaining = DOMAIN pendingMatches /\ Remaining' = DOMAIN pendingMatches
        /\ \A m : Listed(m) = pendingMatches[m] /\ Listed(m)' = pendingMatches[m]
        /\ \A t : Flag(t) = tickets[t].inPendingMatch /\ Flag(t)' = tickets[t].inPendingMatch
        /\ Settled = announced /\ Settled' = announced /\ Deleted = {} /\ Deleted' = {}
    BY <1>1 DEF Remaining, Listed, Flag, Finished, Settled, Writing, Planned, Deleted
  <1>3. Agree'
    BY <1>1, <1>2, AgreeKept
  <1>4. \A m \in DOMAIN pendingMatches : DOMAIN pendingMatches[m] \subseteq DOMAIN tickets
    BY <1>2 DEF Agree
  <1> QED
    BY <1>1, <1>3, <1>4 DEF ReadAgrees, Writing, MatchesGood, Planned, AnnouncedGood

\* The calls that write the answer of RunCountdown.
LEMMA WritingSound ==
    ASSUME IInv, Sound, UpdatePendingMatches \/ CreatePendingMatches \/ DeleteFinished
    PROVE  Sound'
  <1> USE DEF Sound
  <1>1. /\ pc \in {"update", "create", "deleteFinished"}
        /\ pc' \in {"create", "deleteFinished", "flag"}
        /\ UNCHANGED <<tickets, ticketMap, plan, announced>>
    BY DEF UpdatePendingMatches, CreatePendingMatches, DeleteFinished
  <1>2. /\ Planned /\ Planned' /\ Writing /\ Writing' /\ Deleted = {} /\ Deleted' = {}
        /\ UNCHANGED <<MatchTickets, Settled>>
    BY <1>1 DEF Planned, Writing, Deleted, MatchTickets, Finished, Settled
  <1>3. MatchesGood' /\ ReadAgrees' /\ AnnouncedGood'
    BY <1>1, <1>2 DEF MatchesGood, Disjoint, Enough, PlayersOf, Size, ReadAgrees, AnnouncedGood
  <1>4. \A t : Flag(t)' = Flag(t)
    BY <1>1, <1>2 DEF Flag
  <1>5. Remaining' = Remaining /\ \A m \in Remaining : Listed(m)' = Listed(m)
    <2>1. CASE UpdatePendingMatches
      <3>1. /\ pc = "update" /\ pc' = "create"
            /\ pendingMatches' = [m \in DOMAIN pendingMatches |->
                                    IF m \in DOMAIN plan.updated THEN plan.updated[m] ELSE pendingMatches[m]]
        BY <2>1 DEF UpdatePendingMatches
      <3> QED
        BY <1>1, <3>1 DEF Remaining, Listed
    <2>2. CASE CreatePendingMatches
      <3>1. /\ pc = "create" /\ pc' = "deleteFinished"
            /\ pendingMatches' = Overlay(plan.created, pendingMatches)
        BY <2>2 DEF CreatePendingMatches
      <3> QED
        BY <1>1, <3>1 DEF Remaining, Listed, Overlay
    <2>3. CASE DeleteFinished
      <3>1. /\ pc = "deleteFinished" /\ pc' = "flag"
            /\ pendingMatches' = Without(pendingMatches, DOMAIN plan.matches)
        BY <2>3 DEF DeleteFinished
      <3> QED
        BY <1>1, <3>1 DEF Remaining, Listed, Without
    <2> QED
      BY <2>1, <2>2, <2>3
  <1>6. Agree'
    BY <1>1, <1>2, <1>4, <1>5, AgreeKept
  <1> QED
    BY <1>1, <1>2, <1>3, <1>6

\* A run that ends, all its matches gone.
LEMMA RunEndsSound ==
    ASSUME Agree, Writing => pc = "flag", Deleted = {}, Settled \cap DOMAIN tickets \subseteq announced,
           announced \subseteq Settled, NextRun, UNCHANGED <<pendingMatches, announced>>,
           DOMAIN tickets' = DOMAIN tickets,
           \A t \in DOMAIN tickets : tickets'[t].inPendingMatch = Flag(t)
    PROVE  Sound'
  <1>1. pc' = "readDequeues"
    BY DEF NextRun
  <1>2. /\ Remaining = DOMAIN pendingMatches /\ Remaining' = DOMAIN pendingMatches
        /\ \A m : Listed(m) = pendingMatches[m] /\ Listed(m)' = pendingMatches[m]
        /\ \A t : Flag(t)' = tickets'[t].inPendingMatch
        /\ Settled' = announced /\ Deleted' = {}
    BY <1>1 DEF Remaining, Listed, Flag, Finished, Settled, Writing, Planned, Deleted
  <1>3. Agree'
    BY <1>1, <1>2, AgreeKept
  <1> QED
    BY <1>1, <1>3 DEF Sound, ReadAgrees, Writing, MatchesGood, Planned, AnnouncedGood

LEMMA FlagTicketsSound ==
    ASSUME IInv, Sound, FlagTickets
    PROVE  Sound'
  <1> USE DEF Sound
  <1>0. tickets \in [DOMAIN tickets -> Ticket]
    BY TypeParts DEF IInv, StoreTypes, IsMap
  <1>1. /\ pc = "flag"
        /\ tickets' = [t \in DOMAIN tickets |->
                          IF t \in DOMAIN plan.flags
                          THEN [tickets[t] EXCEPT !.inPendingMatch = plan.flags[t]] ELSE tickets[t]]
        /\ UNCHANGED <<pendingMatches, announced>>
    BY DEF FlagTickets
  <1>2. DOMAIN tickets' = DOMAIN tickets
    BY <1>1
  <1>3. ASSUME NEW t \in DOMAIN tickets PROVE tickets'[t].inPendingMatch = Flag(t)
    <2>1. tickets[t] \in Ticket
      BY <1>0
    <2>2. tickets'[t] = IF t \in DOMAIN plan.flags
                        THEN [tickets[t] EXCEPT !.inPendingMatch = plan.flags[t]] ELSE tickets[t]
      BY <1>1
    <2> QED
      BY <1>1, <2>1, <2>2 DEF Ticket, Flag, Writing
  <1>4. Deleted = {}
    BY <1>1 DEF Deleted
  <1>5. CASE NextRun /\ DOMAIN plan.matches = {}
    <2>1. Settled = announced
      BY <1>5 DEF Settled, Finished, MatchTickets
    <2> QED
      BY <1>1, <1>2, <1>3, <1>4, <1>5, <2>1, RunEndsSound
  <1>6. CASE ~ (NextRun /\ DOMAIN plan.matches = {})
    <2>1. pc' \in {"maps", "announce"} /\ UNCHANGED <<batch, ticketMap, plan>>
      BY <1>6 DEF FlagTickets, AfterMatching
    <2>2. /\ UNCHANGED <<MatchTickets, Settled, Planned>> /\ Deleted' = {} /\ ~Writing'
      BY <1>1, <2>1 DEF MatchTickets, Finished, Settled, Planned, Deleted, Writing
    <2>3. /\ Remaining' = Remaining /\ \A m : Listed(m)' = Listed(m)
          /\ \A t : Flag(t)' = tickets'[t].inPendingMatch
      BY <1>1, <2>1, <2>2 DEF Remaining, Listed, Flag
    <2>4. Agree'
      BY <1>2, <1>3, <1>4, <2>1, <2>2, <2>3, AgreeKept
    <2>5. MatchesGood'
      BY <2>1, <2>2 DEF MatchesGood, Disjoint, Enough, PlayersOf, Size
    <2> QED
      BY <1>1, <2>1, <2>2, <2>4, <2>5 DEF ReadAgrees, AnnouncedGood
  <1> QED
    BY <1>5, <1>6

LEMMA CalculateMapSound ==
    ASSUME IInv, Sound, CalculateMap
    PROVE  Sound'
  <1> USE DEF Sound
  <1>1. /\ pc = "maps" /\ pc' \in {"maps", "announce"}
        /\ UNCHANGED <<tickets, pendingMatches, batch, ticketMap, announced>>
    BY DEF CalculateMap, storeVars
  <1>2. plan'.matches = plan.matches
    <2>1. \E maps : plan' = [plan EXCEPT !.maps = maps]
      BY DEF CalculateMap
    <2> QED
      BY <2>1, TypeParts DEF IInv, RunTypes, NoPlan
  <1>3. /\ UNCHANGED <<MatchTickets, Settled, Planned>> /\ ~Writing /\ ~Writing'
        /\ Deleted = {} /\ Deleted' = {}
    BY <1>1, <1>2 DEF MatchTickets, Finished, Settled, Planned, Deleted, Writing
  <1>4. /\ Remaining' = Remaining /\ \A m : Listed(m)' = Listed(m) /\ \A t : Flag(t)' = Flag(t)
    BY <1>1, <1>3 DEF Remaining, Listed, Flag
  <1>5. Agree'
    BY <1>1, <1>3, <1>4, AgreeKept
  <1> QED
    BY <1>1, <1>2, <1>3, <1>5 DEF MatchesGood, Disjoint, Enough, PlayersOf, Size, ReadAgrees, AnnouncedGood

LEMMA AnnounceMatchesSound ==
    ASSUME IInv, Sound, AnnounceMatches
    PROVE  Sound'
  <1> USE DEF Sound
  <1>1. /\ pc = "announce" /\ pc' = "deleteTickets"
        /\ announced' = announced \cup (MatchTickets \cap DOMAIN tickets)
        /\ UNCHANGED <<tickets, pendingMatches, batch, ticketMap, plan>>
    BY DEF AnnounceMatches, storeVars
  <1>2. /\ UNCHANGED <<MatchTickets, Settled, Planned>> /\ ~Writing /\ ~Writing'
        /\ Deleted = {} /\ Deleted' = {}
    BY <1>1 DEF MatchTickets, Finished, Settled, Planned, Deleted, Writing
  <1>3. /\ Remaining' = Remaining /\ \A m : Listed(m)' = Listed(m) /\ \A t : Flag(t)' = Flag(t)
    BY <1>1, <1>2 DEF Remaining, Listed, Flag
  <1>4. Agree'
    BY <1>1, <1>2, <1>3, AgreeKept
  <1> QED
    BY <1>1, <1>2, <1>4 DEF MatchesGood, Disjoint, Enough, PlayersOf, Size, ReadAgrees, AnnouncedGood

LEMMA DeleteTicketsSound ==
    ASSUME IInv, Sound, DeleteTickets
    PROVE  Sound'
  <1> USE DEF Sound
  <1>1. PICK m \in DOMAIN plan.matches :
           \E removing : /\ tickets' = Without(tickets, DOMAIN plan.matches[m])
                         /\ announced' = announced \ DOMAIN plan.matches[m]
                         /\ plan' = [plan EXCEPT !.matches = Without(@, {m}), !.removing = removing]
    BY DEF DeleteTickets
  <1>2. /\ pc = "deleteTickets" /\ pc' = "deleteMatched"
        /\ UNCHANGED <<pendingMatches, batch, ticketMap>>
    BY DEF DeleteTickets
  <1>3. plan'.matches = Without(plan.matches, {m})
    BY <1>1, TypeParts DEF IInv, RunTypes, NoPlan
  <1> DEFINE own == DOMAIN plan.matches[m]
  <1>4. /\ DOMAIN tickets' = DOMAIN tickets \ own
        /\ \A t \in DOMAIN tickets' : tickets'[t] = tickets[t]
        /\ MatchTickets = MatchTickets' \cup own
    <2>1. /\ DOMAIN plan'.matches = DOMAIN plan.matches \ {m}
          /\ \A k \in DOMAIN plan'.matches : plan'.matches[k] = plan.matches[k]
      BY <1>3 DEF Without
    <2>2. MatchTickets = MatchTickets' \cup own
      BY <2>1 DEF MatchTickets
    <2> QED
      BY <1>1, <2>2 DEF Without
  <1> HIDE DEF own
  <1>5. /\ Planned /\ Planned' /\ ~Writing /\ ~Writing' /\ Deleted = {} /\ Deleted' = {}
        /\ Settled = MatchTickets \cup announced /\ Settled' = MatchTickets' \cup announced'
    BY <1>2 DEF Finished, Settled, Planned, Deleted, Writing
  <1>6. /\ Remaining' = Remaining /\ \A k : Listed(k)' = Listed(k)
        /\ \A t \in DOMAIN tickets' : Flag(t)' = Flag(t)
    BY <1>2, <1>4, <1>5 DEF Remaining, Listed, Flag
  <1>7. Agree'
    <2>1. announced' = announced \ own
      BY <1>1 DEF own
    <2> QED
      BY <1>2, <1>4, <1>5, <1>6, <2>1, AgreeKept
  <1>8. MatchesGood'
    BY <1>2, <1>3, <1>5 DEF MatchesGood, Disjoint, Enough, PlayersOf, Size, Without
  <1>9. AnnouncedGood'
    BY <1>1, <1>2, <1>4 DEF own, AnnouncedGood
  <1> QED
    BY <1>2, <1>5, <1>7, <1>8, <1>9 DEF ReadAgrees

LEMMA DeleteMatchedSound ==
    ASSUME IInv, Sound, DeleteMatched
    PROVE  Sound'
  <1> USE DEF Sound
  <1>1. /\ pc = "deleteMatched" /\ UNCHANGED <<tickets, pendingMatches, announced>>
    BY DEF DeleteMatched
  <1>2. /\ Planned /\ ~Writing /\ Settled = MatchTickets \cup announced /\ Deleted = {}
        /\ \A t : Flag(t) = tickets[t].inPendingMatch
    BY <1>1 DEF Finished, Settled, Planned, Deleted, Writing, Flag
  <1>3. CASE DOMAIN plan.matches = {}
    <2>1. NextRun /\ MatchTickets = {}
      BY <1>3 DEF DeleteMatched, MatchTickets
    <2> QED
      BY <1>1, <1>2, <2>1, RunEndsSound
  <1>4. CASE DOMAIN plan.matches # {}
    <2>1. pc' = "deleteTickets" /\ UNCHANGED <<batch, ticketMap, plan>>
      BY <1>4 DEF DeleteMatched
    <2>2. /\ Planned' /\ ~Writing' /\ UNCHANGED MatchTickets /\ Settled' = MatchTickets \cup announced'
          /\ Deleted' = {}
      BY <2>1 DEF Finished, Settled, Planned, Deleted, Writing, MatchTickets
    <2>3. /\ Remaining' = Remaining /\ \A m : Listed(m)' = Listed(m) /\ \A t : Flag(t)' = Flag(t)
      BY <1>1, <1>2, <2>1, <2>2 DEF Remaining, Listed, Flag
    <2>4. Agree'
      BY <1>1, <1>2, <2>1, <2>2, <2>3, AgreeKept
    <2> QED
      BY <1>1, <1>2, <2>1, <2>2, <2>4 DEF MatchesGood, Disjoint, Enough, PlayersOf, Size, ReadAgrees,
                                          AnnouncedGood
  <1> QED
    BY <1>3, <1>4

-----------------------------------------------------------------------------
(* RunCountdown's answer keeps the agreement.                                *)

LEMMA NoPanic ==
    ASSUME IInv, Sound, Panic
    PROVE  FALSE
  <1>1. pc = "cancel" /\ \A m \in DOMAIN pendingMatches : DOMAIN pendingMatches[m] \subseteq DOMAIN ticketMap
    BY DEF Sound, ReadAgrees, Panic
  <1>2. Cancelled \subseteq DOMAIN pendingMatches /\ due \subseteq DOMAIN pendingMatches
    BY TypeParts DEF Cancelled, Invalid, IInv, StoreTypes
  <1>3. \A S \in SUBSET DOMAIN pendingMatches : Known(Restrict(pendingMatches, S))
    BY <1>1 DEF Known, Restrict
  <1>4. Known(Restrict(pendingMatches, Cancelled)) /\ Known(Restrict(pendingMatches, due \ Cancelled))
    BY <1>2, <1>3
  <1> QED
    BY <1>4 DEF Panic

LEMMA ReadSizes ==
    ASSUME IInv, PartiesAllowed, Sound, pc = "cancel"
    PROVE  /\ IsFiniteSet(DOMAIN ticketMap)
           /\ \A t \in DOMAIN ticketMap : Size[t] \in 0 .. MaxPlayers /\ Size[t] \in Nat
           /\ DOMAIN Size = DOMAIN ticketMap
  <1>1. DOMAIN ticketMap \subseteq DOMAIN tickets
    BY DEF Sound, ReadAgrees
  <1>2. IsFiniteSet(DOMAIN ticketMap)
    BY <1>1, FS_Subset DEF PartiesAllowed
  <1>3. ASSUME NEW t \in DOMAIN ticketMap
        PROVE  Cardinality(ticketMap[t].players) \in 0 .. MaxPlayers /\ Cardinality(ticketMap[t].players) \in Nat
    <2>1. ticketMap[t].players = tickets[t].players
      BY <1>1 DEF IInv, ReadStillTrue
    <2>2. AllowedSize(tickets[t].players)
      BY <1>1 DEF PartiesAllowed
    <2>3. Cardinality(tickets[t].players) \in Nat
      BY <2>2, FS_CardinalityType DEF AllowedSize
    <2> QED
      BY <2>1, <2>2, <2>3, MatchmakerAssumption, GameModeAssumption DEF AllowedSize
  <1> QED
    BY <1>2, <1>3 DEF Size, Sizes

LEMMA CancelAndPlanSound ==
    ASSUME IInv, PartiesAllowed, IsFiniteSet(DOMAIN pendingMatches), Sound, CancelAndPlan, OneAtATime'
    PROVE  Sound'
  <1>1. PICK valid : valid = Without(pendingMatches, Cancelled)
    OBVIOUS
  <1>2. PICK freed : freed = {t \in DOMAIN ticketMap : \E m \in Cancelled : t \in DOMAIN pendingMatches[m]}
    OBVIOUS
  <1>3. PICK waiting : waiting = freed \cup {t \in DOMAIN ticketMap : ~ticketMap[t].inPendingMatch}
    OBVIOUS
  <1> DEFINE Filled(added) == [m \in DOMAIN valid |-> WithTickets(valid[m], added[m])]
             Placed(added, new) == new.tickets \cup UNION Range(added)
             Done(added) == Restrict(Filled(added), due \cap DOMAIN valid)
             Answer(added, new, ids) ==
                plan' = [flags |-> [t \in freed \cup Placed(added, new) |-> t \in Placed(added, new)],
                         updated |-> Restrict(Filled(added), {m \in DOMAIN valid : added[m] # {}}),
                         created |-> [m \in ids |-> WithTickets(Empty, new.tickets)],
                         matches |-> Done(added),
                         maps |-> Empty,
                         removing |-> {}]
  <1>4. PICK added \in Fillings(Size, waiting, valid) :
        \E new \in NewMatches(Size, waiting \ UNION Range(added)) :
        \E ids \in kSubset(new.copies, PendingMatchIds \ DOMAIN pendingMatches) : Answer(added, new, ids)
    BY <1>1, <1>2, <1>3 DEF CancelAndPlan
  <1>5. PICK new \in NewMatches(Size, waiting \ UNION Range(added)) :
        \E ids \in kSubset(new.copies, PendingMatchIds \ DOMAIN pendingMatches) : Answer(added, new, ids)
    BY <1>4
  <1>6. PICK ids \in kSubset(new.copies, PendingMatchIds \ DOMAIN pendingMatches) : Answer(added, new, ids)
    BY <1>5
  <1>7. /\ pc = "cancel" /\ pc' = "update" /\ pendingMatches' = valid
        /\ UNCHANGED <<tickets, batch, ticketMap, announced>>
    BY <1>1 DEF CancelAndPlan
  <1>8. PICK filled, placed : filled = Filled(added) /\ placed = Placed(added, new)
    OBVIOUS
  <1>9. /\ DOMAIN valid = DOMAIN pendingMatches \ Cancelled
        /\ \A m \in DOMAIN valid : valid[m] = pendingMatches[m]
    BY <1>1 DEF Without
  <1>10. /\ plan'.flags = [t \in freed \cup placed |-> t \in placed]
         /\ plan'.updated = Restrict(filled, {m \in DOMAIN valid : added[m] # {}})
         /\ plan'.created = [m \in ids |-> WithTickets(Empty, new.tickets)]
         /\ plan'.matches = Restrict(filled, due \cap DOMAIN valid)
    BY <1>6, <1>8
  <1> HIDE DEF Filled, Placed, Done, Answer

  \* What the run has read.
  <1>11. /\ \A m \in DOMAIN pendingMatches : /\ DOMAIN pendingMatches[m] \subseteq DOMAIN ticketMap \ announced
                                             /\ \A t \in DOMAIN pendingMatches[m] : pendingMatches[m][t] = 1
         /\ \A m, n \in DOMAIN pendingMatches : m # n => DOMAIN pendingMatches[m] \cap DOMAIN pendingMatches[n] = {}
         /\ \A t \in DOMAIN tickets :
               tickets[t].inPendingMatch
                 <=> t \in announced \/ \E m \in DOMAIN pendingMatches : t \in DOMAIN pendingMatches[m]
         /\ DOMAIN ticketMap \subseteq DOMAIN tickets
         /\ \A t \in DOMAIN ticketMap : ticketMap[t].inPendingMatch = tickets[t].inPendingMatch
    <2>1. /\ Remaining = DOMAIN pendingMatches /\ Settled = announced
          /\ \A m : Listed(m) = pendingMatches[m]
          /\ \A t : Flag(t) = tickets[t].inPendingMatch
      BY <1>7 DEF Remaining, Listed, Flag, Finished, Settled, Writing, Planned
    <2>2. \A m \in DOMAIN pendingMatches : /\ DOMAIN pendingMatches[m] \cap announced = {}
                                           /\ \A t \in DOMAIN pendingMatches[m] : pendingMatches[m][t] = 1
      BY <2>1 DEF Sound, Agree
    <2>3. \A m, n \in DOMAIN pendingMatches : m # n => DOMAIN pendingMatches[m] \cap DOMAIN pendingMatches[n] = {}
      BY <2>1 DEF Sound, Agree
    <2>4. \A t \in DOMAIN tickets :
               tickets[t].inPendingMatch
                 <=> t \in announced \/ \E m \in DOMAIN pendingMatches : t \in DOMAIN pendingMatches[m]
      BY <2>1 DEF Sound, Agree, Named
    <2> QED
      BY <1>7, <2>2, <2>3, <2>4 DEF Sound, ReadAgrees
  <1>12. /\ IsFiniteSet(DOMAIN ticketMap)
         /\ \A t \in DOMAIN ticketMap : Size[t] \in 0 .. MaxPlayers /\ Size[t] \in Nat
         /\ DOMAIN Size = DOMAIN ticketMap
    BY <1>7, ReadSizes
  <1>13. waiting \subseteq DOMAIN ticketMap
    BY <1>2, <1>3
  <1>14. \A t \in waiting, m \in DOMAIN valid : t \notin DOMAIN valid[m]
    <2> SUFFICES ASSUME NEW t \in waiting, NEW m \in DOMAIN valid, t \in DOMAIN pendingMatches[m]
                 PROVE  FALSE
      BY <1>9
    <2>1. CASE t \in freed
      <3>1. PICK n \in Cancelled : t \in DOMAIN pendingMatches[n]
        BY <1>2, <2>1
      <3>2. n \in DOMAIN pendingMatches /\ n # m
        BY <1>9 DEF Cancelled, Invalid
      <3> QED
        BY <1>9, <1>11, <3>1, <3>2
    <2>2. CASE t \notin freed
      BY <1>3, <1>9, <1>11, <2>2
    <2> QED
      BY <2>1, <2>2
  <1>15. \A t \in waiting : t \notin announced
    <2> SUFFICES ASSUME NEW t \in waiting, t \in announced PROVE FALSE
      OBVIOUS
    <2>1. CASE t \in freed
      <3>1. PICK n \in Cancelled : t \in DOMAIN pendingMatches[n]
        BY <1>2, <2>1
      <3>2. n \in DOMAIN pendingMatches
        BY DEF Cancelled, Invalid
      <3> QED
        BY <1>11, <3>1, <3>2
    <2>2. CASE t \notin freed
      BY <1>3, <1>11, <2>2
    <2> QED
      BY <2>1, <2>2

  \* What RunCountdown answered.
  <1>16. /\ added \in [DOMAIN valid -> SUBSET waiting]
         /\ \A m, n \in DOMAIN valid : m # n => added[m] \cap added[n] = {}
    <2>1. IsFiniteSet(DOMAIN valid)
      BY <1>9, FS_Subset
    <2> QED
      BY <2>1, FillingsPlace
  <1>17. UNION Range(added) \subseteq waiting /\ \A t : t \in UNION Range(added) <=> \E m \in DOMAIN valid : t \in added[m]
    BY <1>16 DEF Range
  <1>18. /\ new.tickets \subseteq waiting \ UNION Range(added)
         /\ new.tickets # {} => new.copies \in Nat \ {0}
    <2> DEFINE left == waiting \ UNION Range(added)
    <2>1. IsFiniteSet(left) /\ \A t \in left : Size[t] \in 0 .. MaxPlayers
      BY <1>12, <1>13, FS_Subset
    <2>2. new \in NewMatches(Size, left)
      OBVIOUS
    <2> HIDE DEF left
    <2>3. new.tickets \subseteq left /\ (new.tickets # {} => new.copies \in Nat \ {0})
      BY <2>1, <2>2, NewMatchesPlace
    <2> QED
      BY <2>3 DEF left
  <1>19. /\ ids \cap DOMAIN pendingMatches = {} /\ \A m, n \in ids : m = n
         /\ new.tickets # {} => ids # {}
    <2>1. ids \subseteq PendingMatchIds \ DOMAIN pendingMatches /\ Cardinality(ids) = new.copies
      BY DEF kSubset
    <2>2. \A m, n \in ids : m = n
      BY <1>10 DEF OneAtATime
    <2>3. ids = {} => Cardinality(ids) = 0
      BY FS_EmptySet
    <2> QED
      BY <1>18, <2>1, <2>2, <2>3
  <1>20. /\ DOMAIN filled = DOMAIN valid
         /\ \A m \in DOMAIN valid : /\ DOMAIN filled[m] = DOMAIN valid[m] \cup added[m]
                                    /\ \A t \in DOMAIN filled[m] : filled[m][t] = 1
    <2>1. DOMAIN filled = DOMAIN valid /\ \A m \in DOMAIN valid : filled[m] = WithTickets(valid[m], added[m])
      BY <1>8 DEF Filled
    <2>2. ASSUME NEW m \in DOMAIN valid
          PROVE  /\ DOMAIN WithTickets(valid[m], added[m]) = DOMAIN valid[m] \cup added[m]
                 /\ \A t \in DOMAIN valid[m] \cup added[m] : WithTickets(valid[m], added[m])[t] = 1
      <3>1. \A t \in DOMAIN valid[m] : valid[m][t] = 1 /\ t \notin added[m]
        BY <1>9, <1>11, <1>14, <1>16
      <3> QED
        BY <3>1 DEF WithTickets
    <2>3. ASSUME NEW m \in DOMAIN valid
          PROVE  /\ DOMAIN filled[m] = DOMAIN valid[m] \cup added[m]
                 /\ \A t \in DOMAIN filled[m] : filled[m][t] = 1
      <3>1. filled[m] = WithTickets(valid[m], added[m])
        BY <2>1
      <3> QED
        BY <2>2, <3>1
    <2> QED
      BY <2>1, <2>3
  <1>21. \A m \in ids : /\ DOMAIN plan'.created[m] = new.tickets
                        /\ \A t \in new.tickets : plan'.created[m][t] = 1
    <2>1. /\ DOMAIN WithTickets(Empty, new.tickets) = new.tickets
          /\ \A t \in new.tickets : WithTickets(Empty, new.tickets)[t] = 1
      BY DEF WithTickets, Empty
    <2> QED
      BY <1>10, <2>1
  <1>22. \A t : t \in placed <=> t \in new.tickets \/ \E m \in DOMAIN valid : t \in added[m]
    BY <1>8, <1>17 DEF Placed

  \* The pending matches that will be.
  <1> DEFINE Names(m) == IF m \in ids THEN new.tickets ELSE DOMAIN valid[m] \cup added[m]
  <1>23. Remaining' = (DOMAIN valid \cup ids) \ (due \cap DOMAIN valid)
    <2>1. DOMAIN plan'.matches = due \cap DOMAIN valid /\ DOMAIN plan'.created = ids
      BY <1>10, <1>20 DEF Restrict
    <2> QED
      BY <1>7, <2>1 DEF Remaining
  <1>24. \A m \in Remaining' : DOMAIN Listed(m)' = Names(m) /\ \A t \in Names(m) : Listed(m)'[t] = 1
    <2> TAKE m \in Remaining'
    <2>1. CASE m \in ids
      <3>1. Listed(m)' = plan'.created[m]
        BY <1>7, <1>10, <2>1 DEF Listed
      <3> QED
        BY <1>21, <2>1, <3>1
    <2>2. CASE m \notin ids /\ added[m] # {}
      <3>1. m \in DOMAIN valid
        BY <1>23, <2>2
      <3>2. m \in DOMAIN plan'.updated /\ plan'.updated[m] = filled[m] /\ m \notin DOMAIN plan'.created
        BY <1>10, <1>20, <2>2, <3>1 DEF Restrict
      <3>3. Listed(m)' = filled[m]
        BY <1>7, <3>2 DEF Listed
      <3> QED
        BY <1>20, <2>2, <3>1, <3>3
    <2>3. CASE m \notin ids /\ added[m] = {}
      <3>1. m \in DOMAIN valid
        BY <1>23, <2>3
      <3>2. m \notin DOMAIN plan'.updated /\ m \notin DOMAIN plan'.created
        BY <1>10, <1>20, <2>3 DEF Restrict
      <3>3. Listed(m)' = valid[m]
        BY <1>7, <3>2 DEF Listed
      <3> QED
        BY <1>9, <1>11, <2>3, <3>1, <3>3
    <2> QED
      BY <2>1, <2>2, <2>3
  <1>25. /\ \A m \in DOMAIN valid : Names(m) = DOMAIN filled[m] /\ Names(m) \subseteq DOMAIN ticketMap
         /\ \A m \in ids : Names(m) \subseteq DOMAIN ticketMap
         /\ \A m \in DOMAIN valid \cup ids : Names(m) \cap announced = {}
         /\ \A m, n \in DOMAIN valid \cup ids : m # n => Names(m) \cap Names(n) = {}
    <2>1. \A m \in DOMAIN valid : /\ m \notin ids
                                  /\ Names(m) = DOMAIN valid[m] \cup added[m]
      BY <1>9, <1>19
    <2>2. \A m \in DOMAIN valid : Names(m) = DOMAIN filled[m] /\ Names(m) \subseteq DOMAIN ticketMap
      BY <1>9, <1>11, <1>13, <1>16, <1>20, <2>1
    <2>3. \A m \in ids : Names(m) = new.tickets /\ Names(m) \subseteq DOMAIN ticketMap
      BY <1>13, <1>18
    <2>4. \A m, n \in DOMAIN valid : m # n => Names(m) \cap Names(n) = {}
      <3> SUFFICES ASSUME NEW m \in DOMAIN valid, NEW n \in DOMAIN valid, m # n PROVE Names(m) \cap Names(n) = {}
        OBVIOUS
      <3>1. DOMAIN valid[m] \cap DOMAIN valid[n] = {}
        BY <1>9, <1>11
      <3>2. added[m] \cap added[n] = {} /\ added[m] \subseteq waiting /\ added[n] \subseteq waiting
        BY <1>16
      <3>3. waiting \cap DOMAIN valid[m] = {} /\ waiting \cap DOMAIN valid[n] = {}
        BY <1>14
      <3> QED
        BY <2>1, <3>1, <3>2, <3>3
    <2>5. \A m \in DOMAIN valid, n \in ids : Names(m) \cap Names(n) = {}
      <3> SUFFICES ASSUME NEW m \in DOMAIN valid, NEW n \in ids PROVE Names(m) \cap Names(n) = {}
        OBVIOUS
      <3>1. new.tickets \cap DOMAIN valid[m] = {} /\ new.tickets \cap added[m] = {}
        BY <1>14, <1>17, <1>18
      <3> QED
        BY <2>1, <2>3, <3>1
    <2>6. \A m \in DOMAIN valid \cup ids : Names(m) \cap announced = {}
      BY <1>9, <1>11, <1>15, <1>16, <1>18, <2>1, <2>3
    <2> HIDE DEF Names
    <2> QED
      BY <1>19, <2>2, <2>3, <2>4, <2>5, <2>6
  <1>26. /\ Planned' /\ Writing' /\ Deleted' = {} /\ Settled' = MatchTickets' \cup announced
    BY <1>7 DEF Planned, Writing, Deleted, Settled, Finished
  <1>27. /\ DOMAIN plan'.matches = due \cap DOMAIN valid
         /\ \A m \in DOMAIN plan'.matches : plan'.matches[m] = filled[m]
         /\ MatchTickets' = UNION {Names(m) : m \in due \cap DOMAIN valid}
    <2>1. /\ DOMAIN plan'.matches = due \cap DOMAIN valid
          /\ \A m \in DOMAIN plan'.matches : plan'.matches[m] = filled[m]
      BY <1>10, <1>20 DEF Restrict
    <2>2. \A m \in due \cap DOMAIN valid : DOMAIN plan'.matches[m] = Names(m)
      BY <1>25, <2>1
    <2>3. MatchTickets' = UNION {DOMAIN plan'.matches[m] : m \in due \cap DOMAIN valid}
      BY <2>1 DEF MatchTickets
    <2> HIDE DEF Names
    <2> QED
      BY <2>1, <2>2, <2>3
  <1>28. /\ \A m \in Remaining' : Names(m) \cap Settled' = {} /\ Names(m) \subseteq DOMAIN tickets
         /\ MatchTickets' \cap announced = {}
    <2>1. \A m \in Remaining', n \in due \cap DOMAIN valid : Names(m) \cap Names(n) = {}
      BY <1>23, <1>25
    <2> HIDE DEF Names
    <2> QED
      BY <1>11, <1>23, <1>25, <1>26, <1>27, <2>1

  \* The flags that will be.
  <1>29. \A t \in DOMAIN tickets' : Flag(t)' <=> Named(t)' \/ t \in Settled'
    <2> SUFFICES ASSUME NEW t \in DOMAIN tickets
                 PROVE  Flag(t)' <=> t \in MatchTickets' \cup announced \/ \E m \in Remaining' : t \in Names(m)
      BY <1>7, <1>24, <1>26 DEF Named
    <2>1. Flag(t)' = IF t \in freed \cup placed THEN t \in placed ELSE tickets[t].inPendingMatch
      BY <1>7, <1>10, <1>26 DEF Flag
    <2>2. ASSUME t \in MatchTickets' PROVE Flag(t)'
      <3>1. PICK m \in DOMAIN valid : t \in Names(m)
        <4> HIDE DEF Names
        <4> QED
          BY <1>27, <2>2
      <3>2. CASE t \in added[m]
        BY <1>22, <2>1, <3>2
      <3>3. CASE t \in DOMAIN valid[m]
        <4>1. t \notin waiting /\ t \notin freed
          BY <1>3, <1>14, <3>3
        <4>2. t \notin placed
          BY <1>16, <1>18, <1>22, <4>1
        <4>3. tickets[t].inPendingMatch
          BY <1>9, <1>11, <3>3
        <4> QED
          BY <2>1, <4>1, <4>2, <4>3
      <3>4. m \notin ids
        BY <1>9, <1>19
      <3> QED
        BY <3>1, <3>2, <3>3, <3>4
    <2> SUFFICES ASSUME t \notin MatchTickets'
                 PROVE  Flag(t)' <=> t \in announced \/ \E m \in Remaining' : t \in Names(m)
      BY <2>2
    <2>3. \A m \in due \cap DOMAIN valid : t \notin Names(m)
      BY <1>27
    <2>4. CASE t \in placed
      <3>1. CASE t \in new.tickets
        BY <1>9, <1>19, <1>23, <2>1, <2>4, <3>1
      <3>2. CASE t \notin new.tickets
        <4>1. PICK m \in DOMAIN valid : t \in added[m]
          BY <1>22, <2>4, <3>2
        <4>2. t \in Names(m)
          BY <1>9, <1>19, <4>1
        <4> QED
          BY <1>23, <2>1, <2>3, <2>4, <4>2
      <3> QED
        BY <3>1, <3>2
    <2>5. CASE t \in freed \ placed
      <3>1. t \in waiting
        BY <1>3, <2>5
      <3>2. \A m \in Remaining' : t \notin Names(m)
        BY <1>14, <1>22, <1>23, <2>5, <3>1
      <3>3. t \notin announced
        BY <1>15, <3>1
      <3> HIDE DEF Names
      <3> QED
        BY <2>1, <2>5, <3>2, <3>3
    <2>6. CASE t \notin freed \cup placed
      <3>1. \A m \in DOMAIN valid : t \in Names(m) <=> t \in DOMAIN pendingMatches[m]
        BY <1>9, <1>19, <1>22, <2>6
      <3>2. \A m \in Cancelled : t \notin DOMAIN pendingMatches[m]
        <4>1. Cancelled \subseteq DOMAIN pendingMatches
          BY DEF Cancelled, Invalid
        <4> QED
          BY <1>2, <1>11, <2>6, <4>1
      <3>3. (\E m \in DOMAIN pendingMatches : t \in DOMAIN pendingMatches[m])
               <=> \E m \in DOMAIN valid : t \in Names(m)
        BY <1>9, <3>1, <3>2
      <3>4. \A m \in ids : t \notin Names(m)
        BY <1>22, <2>6
      <3> HIDE DEF Names
      <3>5. (\E m \in DOMAIN valid : t \in Names(m)) <=> \E m \in Remaining' : t \in Names(m)
        BY <1>23, <2>3, <3>4
      <3> QED
        BY <1>11, <2>1, <2>6, <3>3, <3>5
    <2> QED
      BY <2>4, <2>5, <2>6
  <1>30. Agree'
    <2>1. \A m \in Remaining' : /\ DOMAIN Listed(m)' \subseteq (DOMAIN tickets' \cup Deleted') \ Settled'
                                /\ \A t \in DOMAIN Listed(m)' : Listed(m)'[t] = 1
      <3> HIDE DEF Names
      <3> QED
        BY <1>7, <1>24, <1>26, <1>28
    <2>2. \A m, n \in Remaining' : m # n => DOMAIN Listed(m)' \cap DOMAIN Listed(n)' = {}
      <3>1. \A m, n \in Remaining' : m # n => Names(m) \cap Names(n) = {}
        BY <1>23, <1>25
      <3>2. \A m \in Remaining' : DOMAIN Listed(m)' = Names(m)
        BY <1>24
      <3> HIDE DEF Names
      <3> QED
        BY <3>1, <3>2
    <2> QED
      BY <1>7, <1>29, <2>1, <2>2 DEF Agree

  \* The matches that are due.
  <1>31. Disjoint'
    <2>1. \A m \in DOMAIN plan'.matches : m \in DOMAIN valid /\ DOMAIN plan'.matches[m] = Names(m)
      BY <1>25, <1>27
    <2> HIDE DEF Names
    <2> QED
      BY <1>25, <2>1 DEF Disjoint
  <1>32. Enough'
    <2> SUFFICES ASSUME NEW m \in due \cap DOMAIN valid
                 PROVE  Total(Size, DOMAIN filled[m]) >= MinPlayers
      <3>1. Size' = Size
        BY <1>7 DEF Size
      <3> QED
        BY <1>27, <3>1 DEF Enough, PlayersOf
    <2>1. m \in DOMAIN pendingMatches /\ m \notin Cancelled
      BY <1>9
    <2> DEFINE bag == pendingMatches[m]
    <2>2. /\ IsFiniteSet(DOMAIN bag) /\ DOMAIN bag \subseteq DOMAIN Size
          /\ \A t \in DOMAIN bag : Size[t] \in Nat /\ bag[t] = 1
      BY <1>11, <1>12, <2>1, FS_Subset
    <2>3. ~ (PendingMatchPlayerCount(Size, DOMAIN Size, bag) < MinPlayers)
      BY <2>1 DEF Cancelled, Invalid
    <2>4. DOMAIN bag \subseteq DOMAIN filled[m]
      BY <1>9, <1>20
    <2>5. DOMAIN filled[m] \subseteq DOMAIN ticketMap
      BY <1>25
    <2> HIDE DEF bag
    <2>6. PendingMatchPlayerCount(Size, DOMAIN Size, bag) = Total(Size, DOMAIN bag)
      BY <2>2, PlayerCountIsTotal
    <2>7. IsFiniteSet(DOMAIN filled[m]) /\ \A t \in DOMAIN filled[m] : Size[t] \in Nat
      BY <1>12, <2>5, FS_Subset
    <2>8. Total(Size, DOMAIN bag) <= Total(Size, DOMAIN filled[m]) /\ Total(Size, DOMAIN filled[m]) \in Nat
      BY <2>4, <2>7, TotalFacts
    <2>9. Total(Size, DOMAIN bag) \in Nat
      BY <2>2, TotalFacts
    <2> QED
      BY <2>3, <2>6, <2>8, <2>9, GameModeAssumption
  <1>33. AnnouncedGood'
    BY <1>7, <1>28 DEF AnnouncedGood
  <1>34. ReadAgrees'
    <2>1. placed \subseteq DOMAIN ticketMap /\ freed \subseteq DOMAIN ticketMap
      BY <1>2, <1>13, <1>16, <1>18, <1>22
    <2> QED
      BY <1>7, <1>10, <2>1 DEF ReadAgrees
  <1> QED
    BY <1>30, <1>31, <1>32, <1>34, <1>33 DEF Sound, MatchesGood

LEMMA FinitePendingMatches ==
    ASSUME IsFiniteSet(DOMAIN pendingMatches), OneAtATime, Director
    PROVE  IsFiniteSet(DOMAIN pendingMatches')
  <1>1. CASE CreatePendingMatches
    <2>1. DOMAIN pendingMatches' = DOMAIN plan.created \cup DOMAIN pendingMatches
      BY <1>1 DEF CreatePendingMatches, Overlay
    <2>2. CASE DOMAIN plan.created = {}
      BY <2>1, <2>2
    <2>3. CASE DOMAIN plan.created # {}
      <3>1. PICK m \in DOMAIN plan.created : DOMAIN plan.created = {m}
        BY <2>3 DEF OneAtATime
      <3> QED
        BY <2>1, <3>1, FS_AddElement
    <2> QED
      BY <2>2, <2>3
  <1>2. CASE ~CreatePendingMatches
    <2>1. DOMAIN pendingMatches' \subseteq DOMAIN pendingMatches
      <3>1. CASE PullMarked \/ UpdatePendingMatches
        BY <3>1 DEF PullMarked, UpdatePendingMatches
      <3>2. CASE DeleteFinished \/ CancelAndPlan \/ Panic
        <4>1. UNCHANGED pendingMatches \/ \E M : pendingMatches' = Without(pendingMatches, M)
          BY <3>2 DEF DeleteFinished, CancelAndPlan, Panic
        <4> QED
          BY <4>1 DEF Without
      <3>3. CASE ReadDequeues \/ DeleteMarked \/ ResetRemovals \/ DeletePlayers \/ ReadTickets
                   \/ ReadTicketsAndMatch \/ FlagTickets \/ CalculateMap \/ AnnounceMatches
                   \/ DeleteTickets \/ DeleteMatched
        BY <3>3 DEF ReadDequeues, DeleteMarked, ResetRemovals, DeletePlayers, ReadTickets,
              ReadTicketsAndMatch, FlagTickets, CalculateMap, AnnounceMatches, DeleteTickets,
              DeleteMatched, storeVars
      <3> QED
        BY <1>2, <3>1, <3>2, <3>3 DEF Director
    <2> QED
      BY <2>1, FS_Subset
  <1> QED
    BY <1>1, <1>2

\* A run that does not fail leaves no announced ticket behind.
LEMMA NoneLeftBehind ==
    ASSUME IInv, Director, ~ReadTicketsAndMatch, Stale = {}
    PROVE  Stale' = {}
  <1>0. announced \subseteq BeingDeleted
    BY DEF Stale
  <1> SUFFICES announced' \subseteq BeingDeleted'
    BY DEF Stale
  <1>1. CASE AnnounceMatches
    <2>1. announced = {} /\ announced' \subseteq announced \cup MatchTickets /\ pc' = "deleteTickets" /\ plan' = plan
      BY <1>0, <1>1 DEF AnnounceMatches, BeingDeleted
    <2> QED
      BY <2>1 DEF BeingDeleted, MatchTickets
  <1>2. CASE DeleteTickets
    <2>1. PICK m \in DOMAIN plan.matches :
             \E removing : /\ announced' = announced \ DOMAIN plan.matches[m]
                           /\ plan' = [plan EXCEPT !.matches = Without(@, {m}), !.removing = removing]
      BY <1>2 DEF DeleteTickets
    <2>2. pc = "deleteTickets" /\ pc' = "deleteMatched"
      BY <1>2 DEF DeleteTickets
    <2>3. plan'.matches = Without(plan.matches, {m})
      BY <2>1, TypeParts DEF IInv, RunTypes, NoPlan
    <2>4. /\ DOMAIN plan'.matches = DOMAIN plan.matches \ {m}
          /\ \A k \in DOMAIN plan'.matches : plan'.matches[k] = plan.matches[k]
      BY <2>3 DEF Without
    <2>5. MatchTickets \subseteq MatchTickets' \cup DOMAIN plan.matches[m]
      BY <2>4 DEF MatchTickets
    <2> QED
      BY <1>0, <2>1, <2>2, <2>5 DEF BeingDeleted
  <1>3. CASE DeleteMatched
    <2>1. CASE DOMAIN plan.matches = {}
      <3>1. announced = {}
        BY <1>0, <1>3, <2>1 DEF DeleteMatched, BeingDeleted, MatchTickets
      <3> QED
        BY <1>3, <3>1 DEF DeleteMatched
    <2>2. CASE DOMAIN plan.matches # {}
      <3>1. pc = "deleteMatched" /\ pc' = "deleteTickets" /\ UNCHANGED <<plan, announced>>
        BY <1>3, <2>2 DEF DeleteMatched
      <3> QED
        BY <1>0, <3>1 DEF BeingDeleted, MatchTickets
    <2> QED
      BY <2>1, <2>2
  <1>4. CASE ReadDequeues \/ DeleteMarked \/ PullMarked \/ ResetRemovals \/ DeletePlayers \/ ReadTickets
               \/ CancelAndPlan \/ Panic \/ UpdatePendingMatches \/ CreatePendingMatches \/ DeleteFinished
               \/ FlagTickets \/ CalculateMap
    <2>1. pc \notin {"deleteTickets", "deleteMatched"} /\ announced' \subseteq announced
      BY <1>4 DEF ReadDequeues, DeleteMarked, PullMarked, ResetRemovals, DeletePlayers, ReadTickets,
            CancelAndPlan, Panic, UpdatePendingMatches, CreatePendingMatches, DeleteFinished, FlagTickets,
            CalculateMap
    <2> QED
      BY <1>0, <2>1 DEF BeingDeleted
  <1> QED
    BY <1>1, <1>2, <1>3, <1>4 DEF Director

\* The first failure: whatever was announced is not named by a pending match, and
\* has its flag.
LEMMA FaultsCountdownRun ==
    ASSUME IInv, CountdownRun, Faults
    PROVE  CountdownRun'
  <1>1. CASE RestartAfterPanic
    <2>1. ~Sound
      BY <1>1 DEF RestartAfterPanic, Sound, Agree
    <2>2. UNCHANGED <<announced, faults>> /\ pc = "panicked"
      BY <1>1 DEF RestartAfterPanic
    <2>3. BeingDeleted = {}
      BY <2>2 DEF BeingDeleted
    <2>4. Stale = {} => Stale' = {}
      BY <2>2, <2>3 DEF Stale
    <2> QED
      BY <2>1, <2>2, <2>4 DEF CountdownRun
  <1>2. CASE CallFails \/ Crash
    <2>1. faults' = faults + 1 /\ faults \in Nat
      BY <1>2, TypeParts, MatchmakerAssumption DEF CallFails, Crash, IInv, ServiceTypes
    <2>2. NextRun /\ UNCHANGED <<tickets, pendingMatches, announced>>
      BY <1>2 DEF CallFails, Crash, storeVars
    <2>3. Stale' = announced
      BY <2>2 DEF NextRun, Stale, BeingDeleted
    <2>4. ASSUME faults = 0, announced # {} PROVE Sound'
      <3>1. Sound /\ announced \subseteq BeingDeleted
        BY <2>4 DEF CountdownRun, Stale
      <3>2. pc \in {"deleteTickets", "deleteMatched"}
        BY <2>4, <3>1 DEF BeingDeleted
      <3>3. /\ Settled \cap DOMAIN tickets \subseteq announced /\ announced \subseteq Settled
            /\ ~Writing /\ Deleted = {}
        BY <3>1, <3>2 DEF Sound, AnnouncedGood, Settled, Finished, Planned, Writing, Deleted
      <3>4. \A t \in DOMAIN tickets : tickets'[t].inPendingMatch = Flag(t)
        BY <2>2, <3>3 DEF Flag
      <3> QED
        BY <2>2, <3>1, <3>3, <3>4, RunEndsSound DEF Sound
    <2> QED
      BY <2>1, <2>3, <2>4 DEF CountdownRun
  <1> QED
    BY <1>1, <1>2 DEF Faults

LEMMA NextCountdownInv ==
    ASSUME Method = "COUNTDOWN", CountdownInv, OneAtATime, OneAtATime', [Next]_vars
    PROVE  CountdownInv'
  <1>1. IInv' /\ PartiesAllowed'
    BY NextIInv, NextPartiesAllowed DEF CountdownInv, IInv
  <1>2. CASE PartyService \/ Handlers \/ Consumer \/ (\E m \in PendingMatchIds : TeleportTimePasses(m))
                \/ UNCHANGED vars
    BY <1>1, <1>2, OthersCountdownRun DEF CountdownInv
  <1>3. CASE Director
    <2>1. IsFiniteSet(DOMAIN pendingMatches')
      BY <1>3, FinitePendingMatches DEF CountdownInv
    <2>2. UNCHANGED faults
      BY <1>3 DEF Director, ReadDequeues, DeleteMarked, PullMarked, ResetRemovals, DeletePlayers,
            ReadTickets, ReadTicketsAndMatch, CancelAndPlan, Panic, UpdatePendingMatches,
            CreatePendingMatches, DeleteFinished, FlagTickets, CalculateMap, AnnounceMatches,
            DeleteTickets, DeleteMatched
    <2>3. ~ReadTicketsAndMatch
      BY DEF ReadTicketsAndMatch
    <2>4. ASSUME Sound PROVE Sound'
      <3>1. Sound
        BY <2>4
      <3>2. CASE CancelAndPlan
        BY <3>1, <3>2, CancelAndPlanSound DEF CountdownInv
      <3> QED
        BY <1>3, <2>3, <3>1, <3>2, NoPanic, DequeuesSound, ReadTicketsSound, WritingSound,
           FlagTicketsSound, CalculateMapSound, AnnounceMatchesSound, DeleteTicketsSound,
           DeleteMatchedSound DEF Director, CountdownInv
    <2>5. Stale = {} => Stale' = {}
      BY <1>3, <2>3, NoneLeftBehind DEF CountdownInv
    <2> QED
      BY <1>1, <2>1, <2>2, <2>4, <2>5 DEF CountdownInv, CountdownRun
  <1>4. CASE Faults
    <2>1. UNCHANGED pendingMatches
      BY <1>4 DEF Faults, CallFails, Crash, RestartAfterPanic, storeVars
    <2>2. CountdownRun'
      BY <1>4, FaultsCountdownRun DEF CountdownInv
    <2> QED
      BY <1>1, <2>1, <2>2 DEF CountdownInv
  <1> QED
    BY <1>2, <1>3, <1>4 DEF Next

LEMMA InitCountdownInv == Init => CountdownInv
  <1> SUFFICES ASSUME Init PROVE CountdownInv
    OBVIOUS
  <1>1. /\ pc = "readDequeues" /\ tickets = Empty /\ pendingMatches = Empty /\ announced = {}
    BY DEF Init
  <1>2. IsFiniteSet(DOMAIN pendingMatches)
    BY <1>1, FS_EmptySet DEF Empty
  <1>3. Remaining = {} /\ DOMAIN tickets = {}
    BY <1>1 DEF Remaining, Empty
  <1>4. CountdownRun
    BY <1>1, <1>3 DEF CountdownRun, Sound, Stale, Agree, ReadAgrees, Writing, MatchesGood, Planned, AnnouncedGood
  <1> QED
    BY <1>2, <1>4, InitIInv, InitPartiesAllowed DEF CountdownInv

\* A behaviour of the COUNTDOWN method in which no two pending matches are made
\* of the same tickets keeps tickets, pending matches and announcements in
\* agreement at every step until a call fails, and, when that failure left
\* announced tickets behind, until the next.
THEOREM CountdownInvariance ==
    ASSUME Method = "COUNTDOWN"
    PROVE  Spec /\ []OneAtATime => []CountdownInv
  <1>1. CountdownInv /\ OneAtATime /\ OneAtATime' /\ [Next]_vars => CountdownInv'
    BY NextCountdownInv
  <1> QED
    BY <1>1, InitCountdownInv, PTL DEF Spec

\* Then no match is cancelled or made of a ticket that is gone, so the director
\* never dereferences nil, and between two runs a ticket is flagged exactly when
\* a pending match names it.
THEOREM CountdownAgrees ==
    ASSUME Method = "COUNTDOWN"
    PROVE  Spec /\ []OneAtATime => []PendingMatchesAgree
  <1>1. CountdownInv => PendingMatchesAgree
    <2> SUFFICES ASSUME CountdownInv, faults = 0
                 PROVE  /\ pc # "panicked"
                        /\ BetweenRuns => \A t \in DOMAIN tickets :
                              tickets[t].inPendingMatch <=> Naming(t) # {}
      BY DEF PendingMatchesAgree
    <2>1. Agree /\ (pc \notin {"deleteTickets", "deleteMatched"} => announced = {})
      BY DEF CountdownInv, CountdownRun, Sound, Stale, BeingDeleted
    <2>2. ASSUME BetweenRuns, NEW t \in DOMAIN tickets
          PROVE  tickets[t].inPendingMatch <=> Naming(t) # {}
      <3>1. /\ Remaining = DOMAIN pendingMatches /\ \A m : Listed(m) = pendingMatches[m]
            /\ Flag(t) = tickets[t].inPendingMatch /\ Settled = {}
        BY <2>1, <2>2 DEF BetweenRuns, Remaining, Listed, Flag, Finished, Settled, Writing, Planned
      <3> QED
        BY <2>1, <3>1 DEF Agree, Named, Naming
    <2> QED
      BY <2>1, <2>2 DEF Agree
  <1> QED
    BY <1>1, CountdownInvariance, PTL

\* A COUNTDOWN queue that never makes two pending matches in one call names no
\* ticket twice: createPendingMatches is the only place where a ticket may get
\* into two pending matches, or into one of them again.
THEOREM CountdownPlacesOnce ==
    ASSUME Method = "COUNTDOWN"
    PROVE  Spec /\ []OneAtATime => []TicketsPlacedOnce
  <1>1. CountdownInv => TicketsPlacedOnce
    <2> SUFFICES ASSUME CountdownInv, faults = 0, BetweenRuns, NEW t \in DOMAIN tickets
                 PROVE  /\ \A m, n \in Naming(t) : m = n
                        /\ \A m \in Naming(t) : pendingMatches[m][t] = 1
      BY DEF TicketsPlacedOnce
    <2>1. Agree /\ announced = {}
      BY DEF CountdownInv, CountdownRun, Sound, Stale, BeingDeleted, BetweenRuns
    <2>2. /\ Remaining = DOMAIN pendingMatches /\ \A m : Listed(m) = pendingMatches[m]
          /\ Settled = {}
      BY <2>1 DEF BetweenRuns, Remaining, Listed, Finished, Settled, Writing, Planned
    <2> QED
      BY <2>1, <2>2 DEF Agree, Named, Naming
  <1> QED
    BY <1>1, CountdownInvariance, PTL

\* Then every announced match has enough players, whoever left the queue while it
\* was pending: those with too few are cancelled, and no match loses a ticket
\* after that.
THEOREM CountdownHasEnoughPlayers ==
    ASSUME Method = "COUNTDOWN"
    PROVE  Spec /\ []OneAtATime => []MatchesHaveEnoughPlayers
  <1>1. CountdownInv => MatchesHaveEnoughPlayers
    BY DEF CountdownInv, CountdownRun, Sound, MatchesGood, Enough, Planned, MatchesHaveEnoughPlayers
  <1> QED
    BY <1>1, CountdownInvariance, PTL

\* Then no ticket is announced twice, not by two matches of a run and not by a
\* later run, even when one call has failed or the process has died once: what
\* was announced by then stays flagged, and no pending match names it.
THEOREM CountdownAnnouncedOnce ==
    ASSUME Method = "COUNTDOWN", FaultBudget <= 1
    PROVE  Spec /\ []OneAtATime => []AnnouncedOnce
  <1>1. CountdownInv => AnnouncedOnce
    <2> SUFFICES ASSUME CountdownInv, pc = "announce"
                 PROVE  /\ MatchTickets \cap announced = {}
                        /\ faults = 0 => Disjoint
      BY DEF AnnouncedOnce, Disjoint
    <2>1. faults \in {0, 1}
      BY TypeParts, MatchmakerAssumption DEF CountdownInv, IInv, ServiceTypes
    <2>2. Stale = announced
      BY DEF Stale, BeingDeleted
    <2> QED
      BY <2>1, <2>2 DEF CountdownInv, CountdownRun, Sound, MatchesGood, AnnouncedGood, Planned
  <1> QED
    BY <1>1, CountdownInvariance, PTL

-----------------------------------------------------------------------------
(* When few players wait, createPendingMatches makes one pending match.      *)

\* The tickets that wait when the run has read them: those of cancelled pending
\* matches and those in none.
Waiting == {t \in DOMAIN ticketMap : \E m \in Cancelled : t \in DOMAIN pendingMatches[m]}
             \cup {t \in DOMAIN ticketMap : ~ticketMap[t].inPendingMatch}

\* Their players fit into one match, or those who may be left over, because the
\* next party is too large for it, are too few for another.
FewWaiting ==
    pc = "cancel" =>
        \/ Total(Size, Waiting) <= MaxPlayers
        \/ Total(Size, Waiting) <= MaxPlayers - MaxPartySize + MinPlayers

\* What the run has read are tickets the game mode allows.
ReadAllowed ==
    /\ IsFiniteSet(DOMAIN ticketMap)
    /\ \A t \in DOMAIN ticketMap : AllowedSize(ticketMap[t].players)

LEMMA NextReadAllowed == PartiesAllowed /\ ReadAllowed /\ [Next]_vars => ReadAllowed'
  <1> SUFFICES ASSUME PartiesAllowed, ReadAllowed, [Next]_vars PROVE ReadAllowed'
    OBVIOUS
  <1>1. CASE ticketMap' = ticketMap \/ ticketMap' = tickets
    BY <1>1 DEF ReadAllowed, PartiesAllowed
  <1>2. CASE NextRun
    <2>1. DOMAIN ticketMap' = {}
      BY <1>2 DEF NextRun, Empty
    <2> QED
      BY <2>1, FS_EmptySet DEF ReadAllowed
  <1>3. CASE Director
    <2>1. ticketMap' = ticketMap \/ ticketMap' = tickets \/ NextRun
      BY <1>3 DEF Director, ReadDequeues, DeleteMarked, PullMarked, ResetRemovals, DeletePlayers,
            ReadTickets, ReadTicketsAndMatch, CancelAndPlan, Panic, UpdatePendingMatches,
            CreatePendingMatches, DeleteFinished, FlagTickets, CalculateMap, AnnounceMatches,
            DeleteTickets, DeleteMatched
    <2> QED
      BY <1>1, <1>2, <2>1
  <1>4. CASE Faults
    BY <1>2, <1>4 DEF Faults, CallFails, Crash, RestartAfterPanic
  <1>5. CASE PartyService \/ Handlers \/ Consumer \/ (\E m \in PendingMatchIds : TeleportTimePasses(m))
                \/ UNCHANGED vars
    <2>1. ticketMap' = ticketMap
      BY <1>5 DEF PartyService, LeaveParty, JoinParty, EmptyParty, PartyChange, Handlers, QueueGetParty,
            QueueCheckParty, QueueCreateTicket, DequeueByPlayer, ChangePlayerMapVote, Consumer,
            HandlePartyDisband, HandlePartyPlayerLeft, NextMessage, TeleportTimePasses, directorVars, vars
    <2> QED
      BY <1>1, <2>1
  <1> QED
    BY <1>3, <1>4, <1>5 DEF Next

\* What is left when one pending match is made of few players is too few for another.
LEMMA PackLeavesFew ==
    ASSUME NEW size, NEW left, IsFiniteSet(left), \A t \in left : size[t] \in Nat /\ size[t] <= MaxPartySize,
           \/ Total(size, left) <= MaxPlayers
           \/ Total(size, left) <= MaxPlayers - MaxPartySize + MinPlayers,
           NEW X \in Packs(size, left)
    PROVE  Total(size, left) - Total(size, X) < MinPlayers
  <1>1. X \in SUBSET left /\ \A t \in left \ X : size[t] > MaxPlayers - Total(size, {x \in X : size[x] >= size[t]})
    BY DEF Packs
  <1>2. ASSUME NEW Y \in SUBSET left
        PROVE  /\ IsFiniteSet(Y) /\ Total(size, Y) \in Nat
               /\ \A Z \in SUBSET Y : Total(size, Z) <= Total(size, Y)
    <2>1. IsFiniteSet(Y) /\ \A t \in Y : size[t] \in Nat
      BY FS_Subset
    <2> QED
      BY <2>1, TotalFacts
  <1>3. CASE X = left
    BY <1>2, <1>3, GameModeAssumption
  <1>4. CASE X # left
    <2>1. PICK t \in left \ X : size[t] > MaxPlayers - Total(size, {x \in X : size[x] >= size[t]})
      BY <1>1, <1>4
    <2> DEFINE Y == {x \in X : size[x] >= size[t]}
    <2>2. Y \in SUBSET X /\ Y \in SUBSET left /\ t \notin Y
      BY <1>1, <2>1
    <2>3. size[t] > MaxPlayers - Total(size, Y)
      BY <2>1
    <2> HIDE DEF Y
    <2>4. Total(size, Y) <= Total(size, X) /\ Total(size, Y) \in Nat /\ Total(size, X) \in Nat
      BY <1>1, <1>2, <2>2
    <2>5. Total(size, left) > MaxPlayers
      <3>1. Total(size, X \cup {t}) <= Total(size, left) /\ Total(size, X \cup {t}) \in Nat
        BY <1>1, <1>2, <2>1
      <3>2. Total(size, X \cup {t}) = size[t] + Total(size, X)
        <4>1. IsFiniteSet(X \cup {t}) /\ \A x \in X \cup {t} : size[x] \in Nat
          BY <1>1, <1>2, <2>1
        <4>2. (X \cup {t}) \ {t} = X
          BY <2>1
        <4> QED
          BY <4>1, <4>2, TotalFacts
      <3> QED
        BY <1>2, <2>1, <2>3, <2>4, <3>1, <3>2, GameModeAssumption
    <2> QED
      BY <1>2, <2>1, <2>3, <2>4, <2>5, GameModeAssumption, MatchmakerAssumption
  <1> QED
    BY <1>3, <1>4

LEMMA FewMakeOne ==
    ASSUME NEW size, NEW left, IsFiniteSet(left), \A t \in left : size[t] \in Nat /\ size[t] <= MaxPartySize,
           \/ Total(size, left) <= MaxPlayers
           \/ Total(size, left) <= MaxPlayers - MaxPartySize + MinPlayers,
           NEW new \in NewMatches(size, left)
    PROVE  new.copies \in {0, 1}
  <1>1. \A t \in left : size[t] \in 0 .. MaxPlayers
    BY GameModeAssumption, MatchmakerAssumption
  <1>2. Total(size, left) \in Nat
    BY TotalFacts
  <1>3. CASE Total(size, left) >= MinPlayers
    <2>1. PICK X \in Packs(size, left) : new = [tickets |-> X, copies |-> Iterations(size, left, X)]
      BY <1>3 DEF NewMatches
    <2> DEFINE l == Total(size, left)
               x == Total(size, X)
    <2>2. x \in Nat \ {0}
      BY <1>1, <1>3, PackHasPlayers, GameModeAssumption
    <2>3. Iterations(size, left, X) \in 1 .. l
      BY <1>2, <1>3, <2>2, IterationsAreSome
    <2>4. l - x < MinPlayers
      BY PackLeavesFew
    <2>5. l - 1 * x < MinPlayers /\ l - (1 - 1) * x >= MinPlayers
      BY <1>2, <1>3, <2>2, <2>4
    <2>6. \E n \in 1 .. l : l - n * x < MinPlayers /\ l - (n - 1) * x >= MinPlayers
      BY <1>2, <1>3, <2>5, GameModeAssumption
    <2>7. l - (Iterations(size, left, X) - 1) * x >= MinPlayers
      BY <2>6 DEF Iterations
    <2> HIDE DEF l, x
    <2>8. ASSUME NEW n \in 1 .. l, n # 1 PROVE l - (n - 1) * x < MinPlayers
      <3>1. (n - 1) * x >= x /\ (n - 1) * x \in Int
        BY <1>2, <2>2, <2>8
      <3> QED
        BY <1>2, <2>2, <2>4, <3>1, GameModeAssumption DEF l
    <2>9. \A n \in 1 .. l : (n - 1) * x \in Int
      BY <2>2
    <2>10. Iterations(size, left, X) = 1
      BY <1>2, <2>3, <2>7, <2>8, <2>9, GameModeAssumption DEF l
    <2> QED
      BY <2>1, <2>10
  <1>4. CASE ~ (Total(size, left) >= MinPlayers)
    BY <1>4 DEF NewMatches
  <1> QED
    BY <1>3, <1>4

LEMMA FewMadeOnce ==
    ASSUME IsFiniteSet(PendingMatchIds), ReadAllowed, FewWaiting, CancelAndPlan
    PROVE  OneAtATime'
  <1>1. pc = "cancel"
    BY DEF CancelAndPlan
  <1>2. PICK added \in Fillings(Size, Waiting, Without(pendingMatches, Cancelled)) :
        \E new \in NewMatches(Size, Waiting \ UNION Range(added)) :
        \E ids \in kSubset(new.copies, PendingMatchIds \ DOMAIN pendingMatches) : DOMAIN plan'.created = ids
    <2>1. PICK valid, waiting : valid = Without(pendingMatches, Cancelled) /\ waiting = Waiting
      OBVIOUS
    <2>2. PICK added \in Fillings(Size, waiting, valid) :
          \E new \in NewMatches(Size, waiting \ UNION Range(added)) :
          \E ids \in kSubset(new.copies, PendingMatchIds \ DOMAIN pendingMatches) :
             \E flags, updated, matches :
                plan' = [flags |-> flags, updated |-> updated, matches |-> matches,
                         created |-> [m \in ids |-> WithTickets(Empty, new.tickets)],
                         maps |-> Empty, removing |-> {}]
      BY <2>1 DEF CancelAndPlan, Waiting
    <2>3. PICK new \in NewMatches(Size, waiting \ UNION Range(added)) :
          \E ids \in kSubset(new.copies, PendingMatchIds \ DOMAIN pendingMatches) :
             plan'.created = [m \in ids |-> WithTickets(Empty, new.tickets)]
      BY <2>2
    <2>4. \E ids \in kSubset(new.copies, PendingMatchIds \ DOMAIN pendingMatches) : DOMAIN plan'.created = ids
      BY <2>3
    <2> QED
      BY <2>1, <2>4
  <1> DEFINE left == Waiting \ UNION Range(added)
  <1>3. /\ IsFiniteSet(Waiting) /\ left \in SUBSET Waiting /\ IsFiniteSet(left)
        /\ \A t \in Waiting : Size[t] \in Nat /\ Size[t] <= MaxPartySize
    <2>1. Waiting \subseteq DOMAIN ticketMap
      BY DEF Waiting
    <2>2. IsFiniteSet(Waiting) /\ IsFiniteSet(left)
      BY <2>1, FS_Subset DEF ReadAllowed
    <2>3. \A t \in Waiting : Size[t] = Cardinality(ticketMap[t].players) /\ AllowedSize(ticketMap[t].players)
      BY <2>1 DEF Size, Sizes, ReadAllowed
    <2> QED
      BY <2>2, <2>3, FS_CardinalityType DEF AllowedSize
  <1>4. Total(Size, left) <= Total(Size, Waiting) /\ Total(Size, left) \in Nat /\ Total(Size, Waiting) \in Nat
    BY <1>3, TotalFacts
  <1> HIDE DEF left
  <1>5. \/ Total(Size, left) <= MaxPlayers
        \/ Total(Size, left) <= MaxPlayers - MaxPartySize + MinPlayers
    BY <1>1, <1>4, GameModeAssumption, MatchmakerAssumption DEF FewWaiting
  <1>6. PICK new \in NewMatches(Size, left) :
        \E ids \in kSubset(new.copies, PendingMatchIds \ DOMAIN pendingMatches) : DOMAIN plan'.created = ids
    BY <1>2 DEF left
  <1>7. new.copies \in {0, 1}
    BY <1>3, <1>5, FewMakeOne
  <1>8. PICK ids \in SUBSET PendingMatchIds : Cardinality(ids) \in {0, 1} /\ DOMAIN plan'.created = ids
    BY <1>6, <1>7 DEF kSubset
  <1>9. IsFiniteSet(ids)
    BY FS_Subset
  <1> QED
    BY <1>8, <1>9, FS_EmptySet, FS_Singleton DEF OneAtATime

LEMMA NextOneAtATime ==
    ASSUME IsFiniteSet(PendingMatchIds), TypeOK, ReadAllowed, FewWaiting, OneAtATime, [Next]_vars
    PROVE  OneAtATime'
  <1>1. DOMAIN plan = DOMAIN NoPlan
    BY DEF TypeOK
  <1>2. CASE plan'.created = plan.created \/ plan'.created = Empty
    BY <1>2 DEF OneAtATime, Empty
  <1>3. CASE NextRun
    BY <1>2, <1>3 DEF NextRun, NoPlan
  <1>4. CASE ReadTicketsAndMatch \/ FlagTickets
    <2>1. NextRun \/ plan' = plan \/ \E matches : plan' = [NoPlan EXCEPT !.matches = matches]
      BY <1>4 DEF ReadTicketsAndMatch, FlagTickets
    <2> QED
      BY <1>2, <1>3, <2>1 DEF NoPlan
  <1>5. CASE CalculateMap \/ DeleteTickets \/ DeleteMatched
    <2>1. \/ NextRun \/ plan' = plan
          \/ \E maps : plan' = [plan EXCEPT !.maps = maps]
          \/ \E matches, removing : plan' = [plan EXCEPT !.matches = matches, !.removing = removing]
      BY <1>5 DEF CalculateMap, DeleteTickets, DeleteMatched
    <2> QED
      BY <1>1, <1>2, <1>3, <2>1 DEF NoPlan
  <1>6. CASE ReadDequeues \/ DeleteMarked \/ PullMarked \/ ResetRemovals \/ DeletePlayers \/ ReadTickets
               \/ Panic \/ UpdatePendingMatches \/ CreatePendingMatches \/ DeleteFinished \/ AnnounceMatches
    <2>1. plan' = plan
      BY <1>6 DEF ReadDequeues, DeleteMarked, PullMarked, ResetRemovals, DeletePlayers, ReadTickets, Panic,
            UpdatePendingMatches, CreatePendingMatches, DeleteFinished, AnnounceMatches
    <2> QED
      BY <1>2, <2>1
  <1>7. CASE Director
    BY <1>4, <1>5, <1>6, <1>7, FewMadeOnce DEF Director
  <1>8. CASE Faults
    BY <1>3, <1>8 DEF Faults, CallFails, Crash, RestartAfterPanic
  <1>9. CASE PartyService \/ Handlers \/ Consumer \/ (\E m \in PendingMatchIds : TeleportTimePasses(m))
                \/ UNCHANGED vars
    <2>1. plan' = plan
      BY <1>9 DEF PartyService, LeaveParty, JoinParty, EmptyParty, PartyChange, Handlers, QueueGetParty,
            QueueCheckParty, QueueCreateTicket, DequeueByPlayer, ChangePlayerMapVote, Consumer,
            HandlePartyDisband, HandlePartyPlayerLeft, NextMessage, TeleportTimePasses, directorVars, vars
    <2> QED
      BY <1>2, <2>1
  <1> QED
    BY <1>7, <1>8, <1>9 DEF Next

\* As long as no run finds more players waiting than one match takes, or than one
\* match and too few for another, createPendingMatches goes round once
\* (countdown.go:177): it never makes two pending matches of the same tickets.
THEOREM FewPlayersOneMatch ==
    ASSUME IsFiniteSet(PendingMatchIds)
    PROVE  Spec /\ []FewWaiting => []OneAtATime
  <1>1. Init => PartiesAllowed /\ ReadAllowed /\ OneAtATime
    <2> SUFFICES ASSUME Init PROVE PartiesAllowed /\ ReadAllowed /\ OneAtATime
      OBVIOUS
    <2>1. DOMAIN ticketMap = {} /\ DOMAIN plan.created = {}
      BY DEF Init, NoPlan, Empty
    <2> QED
      BY <2>1, FS_EmptySet, InitPartiesAllowed DEF ReadAllowed, OneAtATime
  <1>2. /\ TypeOK /\ PartiesAllowed /\ ReadAllowed /\ OneAtATime /\ FewWaiting /\ [Next]_vars
        => PartiesAllowed' /\ ReadAllowed' /\ OneAtATime'
    BY NextPartiesAllowed, NextReadAllowed, NextOneAtATime
  <1> QED
    BY <1>1, <1>2, TypeCorrect, PTL DEF Spec

\* A queue of the COUNTDOWN method in which so few wait keeps tickets and pending
\* matches in agreement, and announces no match with too few players.
THEOREM CountdownOfFew ==
    ASSUME Method = "COUNTDOWN", IsFiniteSet(PendingMatchIds)
    PROVE  Spec /\ []FewWaiting => []PendingMatchesAgree /\ []MatchesHaveEnoughPlayers
  BY FewPlayersOneMatch, CountdownAgrees, CountdownHasEnoughPlayers, PTL

-----------------------------------------------------------------------------
(* The queue implements MatchQueue.                                          *)

\* What DeleteMarked deletes is marked: nobody unsets a mark before it.
MarkedToDelete ==
    pc = "deleteMarked" => \A t \in batch.delete \cap DOMAIN tickets : tickets[t].marked

\* The tickets that a run has read are there until it has announced its matches.
ReadThere ==
    pc \in CountdownCalls \cup {"maps", "announce"} => DOMAIN ticketMap \subseteq DOMAIN tickets

\* From then on those of its matches are announced, as long as they are there.
MatchedAnnounced ==
    pc \in {"deleteTickets", "deleteMatched"} => MatchTickets \cap DOMAIN tickets \subseteq announced

QueueRun == MarkedToDelete /\ ReadThere /\ MatchedAnnounced

\* What the handlers and the consumer do to a queue.
TicketsGrow ==
    /\ DOMAIN tickets \subseteq DOMAIN tickets'
    /\ \A t \in DOMAIN tickets : tickets[t].marked => tickets'[t].marked
    /\ \A t \in DOMAIN tickets' \ DOMAIN tickets : t \notin DOMAIN ticketMap \cup batch.delete

SameDirector == UNCHANGED <<pc, batch, ticketMap, plan, announced>>

LEMMA GrowingKeepsQueueRun ==
    ASSUME IInv, QueueRun, TicketsGrow, SameDirector
    PROVE  QueueRun'
  <1>1. MarkedToDelete' /\ ReadThere'
    BY DEF QueueRun, MarkedToDelete, ReadThere, TicketsGrow, SameDirector
  <1>2. pc \in {"deleteTickets", "deleteMatched"} => MatchTickets \subseteq DOMAIN ticketMap
    BY DEF IInv, ReadStillTrue, Planned, MatchTickets
  <1>3. MatchedAnnounced'
    <2>1. UNCHANGED MatchTickets
      BY DEF SameDirector, MatchTickets
    <2> QED
      BY <1>2, <2>1 DEF QueueRun, MatchedAnnounced, TicketsGrow, SameDirector
  <1> QED
    BY <1>1, <1>3 DEF QueueRun

\* What a step does to the queue: its tickets, with their players and marks.
SameQueue ==
    /\ DOMAIN tickets' = DOMAIN tickets
    /\ \A t \in DOMAIN tickets : /\ tickets'[t].players = tickets[t].players
                                 /\ tickets'[t].marked = tickets[t].marked

LEMMA TicketMarked ==
    ASSUME IInv, NEW t \in DOMAIN tickets, MarkTicket(t)
    PROVE  /\ DOMAIN tickets' = DOMAIN tickets
           /\ tickets'[t].marked = TRUE
           /\ \A u \in DOMAIN tickets : /\ tickets'[u].players = tickets[u].players
                                        /\ u # t => tickets'[u].marked = tickets[u].marked
  <1>1. tickets \in [DOMAIN tickets -> Ticket]
    BY TypeParts DEF IInv, StoreTypes, IsMap
  <1> QED
    BY <1>1 DEF Ticket

LEMMA TicketLeft ==
    ASSUME IInv, NEW t \in DOMAIN tickets, NEW p, AddLeaving(t, p)
    PROVE  SameQueue
  <1>1. tickets \in [DOMAIN tickets -> Ticket]
    BY TypeParts DEF IInv, StoreTypes, IsMap
  <1> QED
    BY <1>1 DEF Ticket, SameQueue

\* A step of another process.
Created(t, S) ==
    /\ t \in FreshTicketIds /\ S \subseteq Players
    /\ DOMAIN tickets' = DOMAIN tickets \cup {t}
    /\ tickets'[t].players = S /\ tickets'[t].marked = FALSE
    /\ \A u \in DOMAIN tickets : tickets'[u] = tickets[u]

LEMMA OtherSteps ==
    ASSUME IInv,
           PartyService \/ Handlers \/ Consumer \/ (\E m \in PendingMatchIds : TeleportTimePasses(m))
             \/ UNCHANGED vars
    PROVE  /\ SameDirector
           /\ \/ SameQueue
              \/ \E t \in DOMAIN tickets : MarkTicket(t)
              \/ \E t, S : Created(t, S)
  <1>1. CASE PartyService
    BY <1>1 DEF PartyService, LeaveParty, JoinParty, EmptyParty, PartyChange, directorVars, storeVars,
                SameDirector, SameQueue
  <1>2. CASE Consumer
    <2>1. SameDirector
      BY <1>2 DEF Consumer, HandlePartyDisband, HandlePartyPlayerLeft, NextMessage, directorVars,
                  SameDirector
    <2>2. UNCHANGED tickets \/ \E t \in DOMAIN tickets : MarkTicket(t) \/ \E p : AddLeaving(t, p)
      BY <1>2 DEF Consumer, HandlePartyDisband, HandlePartyPlayerLeft
    <2>3. UNCHANGED tickets => SameQueue
      BY DEF SameQueue
    <2> QED
      BY <2>1, <2>2, <2>3, TicketLeft
  <1>3. CASE Handlers
    <2>1. SameDirector
      BY <1>3 DEF Handlers, QueueGetParty, QueueCheckParty, QueueCreateTicket, DequeueByPlayer,
                  ChangePlayerMapVote, directorVars, storeVars, SameDirector
    <2>2. ASSUME NEW p \in Players, QueueCreateTicket(p), ~ UNCHANGED tickets
          PROVE  \E t, S : Created(t, S)
      <3>1. PICK t \in FreshTicketIds :
               tickets' = Overlay([x \in {t} |-> [party |-> requests[p].party, leader |-> p,
                                                  players |-> requests[p].players, inPendingMatch |-> FALSE,
                                                  marked |-> FALSE, leaving |-> {}]], tickets)
        BY <2>2 DEF QueueCreateTicket
      <3>2. t \notin DOMAIN tickets
        BY DEF FreshTicketIds
      <3>3. requests[p].players \subseteq Players
        BY <2>2, TypeParts DEF QueueCreateTicket, IInv, ServiceTypes, IsMap
      <3>4. Created(t, requests[p].players)
        BY <3>1, <3>2, <3>3 DEF Created, Overlay
      <3> QED
        BY <3>4
    <2>3. CASE \E p \in Players : DequeueByPlayer(p)
      <3>1. \E t \in DOMAIN tickets : MarkTicket(t)
        BY <2>3 DEF DequeueByPlayer
      <3> QED
        BY <2>1, <3>1
    <2>4. CASE UNCHANGED tickets
      BY <2>1, <2>4 DEF SameQueue
    <2>5. \/ UNCHANGED tickets \/ \E p \in Players : DequeueByPlayer(p)
          \/ \E p \in Players : QueueCreateTicket(p)
      BY <1>3 DEF Handlers, QueueGetParty, QueueCheckParty, ChangePlayerMapVote, storeVars
    <2> QED
      BY <2>1, <2>2, <2>3, <2>4, <2>5
  <1>4. CASE (\E m \in PendingMatchIds : TeleportTimePasses(m)) \/ UNCHANGED vars
    BY <1>4 DEF TeleportTimePasses, vars, directorVars, storeVars, SameDirector, SameQueue
  <1> QED
    BY <1>1, <1>2, <1>3, <1>4

LEMMA OthersQueueRun ==
    ASSUME IInv, QueueRun,
           PartyService \/ Handlers \/ Consumer \/ (\E m \in PendingMatchIds : TeleportTimePasses(m))
             \/ UNCHANGED vars
    PROVE  QueueRun'
  <1>1. SameDirector
    BY OtherSteps
  <1>2. CASE SameQueue
    <2>1. TicketsGrow
      BY <1>2 DEF SameQueue, TicketsGrow
    <2> QED
      BY <1>1, <2>1, GrowingKeepsQueueRun
  <1>3. ASSUME NEW t \in DOMAIN tickets, MarkTicket(t) PROVE QueueRun'
    <2>1. TicketsGrow
      BY <1>3, TicketMarked DEF TicketsGrow
    <2> QED
      BY <1>1, <2>1, GrowingKeepsQueueRun
  <1>4. ASSUME NEW t, NEW S, Created(t, S) PROVE QueueRun'
    <2>1. TicketsGrow
      BY <1>4 DEF TicketsGrow, Created, FreshTicketIds
    <2> QED
      BY <1>1, <2>1, GrowingKeepsQueueRun
  <1> QED
    BY <1>2, <1>3, <1>4, OtherSteps

LEMMA RunEndsQueueRun == NextRun => QueueRun'
  BY DEF NextRun, QueueRun, MarkedToDelete, ReadThere, MatchedAnnounced, CountdownCalls

LEMMA DirectorQueueRun ==
    ASSUME IInv, QueueRun, Director
    PROVE  QueueRun'
  <1> DEFINE Before == {"readDequeues", "pullMarked", "resetRemovals", "deletePlayers", "readTickets",
                        "panicked"}
  <1>1. ASSUME pc' \in Before PROVE QueueRun'
    BY <1>1 DEF QueueRun, MarkedToDelete, ReadThere, MatchedAnnounced, CountdownCalls
  <1>2. CASE ReadDequeues
    <2>1. pc' \in {"readTickets", "deleteMarked"}
      BY <1>2 DEF ReadDequeues
    <2>2. MarkedToDelete'
      BY <1>2 DEF ReadDequeues, MarkedToDelete, storeVars
    <2> QED
      BY <2>1, <2>2 DEF QueueRun, ReadThere, MatchedAnnounced, CountdownCalls
  <1>3. CASE DeleteMarked \/ PullMarked \/ ResetRemovals \/ DeletePlayers \/ Panic
    BY <1>1, <1>3 DEF DeleteMarked, PullMarked, ResetRemovals, DeletePlayers, Panic
  <1>4. CASE ReadTickets \/ ReadTicketsAndMatch
    <2>1. NextRun \/ (ticketMap' = tickets /\ tickets' = tickets /\ pc' \in {"cancel", "maps", "announce"})
      BY <1>4 DEF ReadTickets, ReadTicketsAndMatch, AfterMatching, storeVars
    <2> QED
      BY <2>1, RunEndsQueueRun DEF QueueRun, MarkedToDelete, ReadThere, MatchedAnnounced
  <1>5. CASE CancelAndPlan \/ UpdatePendingMatches \/ CreatePendingMatches \/ DeleteFinished \/ FlagTickets
               \/ CalculateMap
    <2>1. /\ pc \in CountdownCalls \cup {"maps"}
          /\ DOMAIN tickets' = DOMAIN tickets
          /\ NextRun \/ (ticketMap' = ticketMap /\ pc' \in CountdownCalls \cup {"maps", "announce"})
      <3>1. CASE CancelAndPlan \/ UpdatePendingMatches \/ CreatePendingMatches \/ DeleteFinished
        BY <3>1 DEF CancelAndPlan, UpdatePendingMatches, CreatePendingMatches, DeleteFinished, CountdownCalls
      <3>2. CASE FlagTickets
        BY <3>2 DEF FlagTickets, AfterMatching, CountdownCalls
      <3>3. CASE CalculateMap
        BY <3>3 DEF CalculateMap, storeVars
      <3> QED
        BY <1>5, <3>1, <3>2, <3>3
    <2> QED
      BY <2>1, RunEndsQueueRun DEF QueueRun, MarkedToDelete, ReadThere, MatchedAnnounced, CountdownCalls
  <1>6. CASE AnnounceMatches
    <2>1. /\ pc' = "deleteTickets" /\ tickets' = tickets /\ MatchTickets' = MatchTickets
          /\ announced' = announced \cup (MatchTickets \cap DOMAIN tickets)
      BY <1>6 DEF AnnounceMatches, storeVars, MatchTickets
    <2> QED
      BY <2>1 DEF QueueRun, MarkedToDelete, ReadThere, MatchedAnnounced, CountdownCalls
  <1>7. CASE DeleteTickets
    <2>1. PICK m \in DOMAIN plan.matches :
             LET own == DOMAIN plan.matches[m]
             IN  /\ tickets' = Without(tickets, own)
                 /\ announced' = announced \ own
                 /\ plan' = [plan EXCEPT !.matches = Without(@, {m}),
                                         !.removing = UNION {ticketMap[t].players : t \in own}]
      BY <1>7 DEF DeleteTickets
    <2>2. pc = "deleteTickets" /\ pc' = "deleteMatched"
      BY <1>7 DEF DeleteTickets
    <2>3. "matches" \in DOMAIN plan
      BY TypeParts DEF IInv, RunTypes, NoPlan
    <2>4. plan'.matches = Without(plan.matches, {m})
      BY <2>1, <2>3
    <2>5. MatchTickets' \subseteq MatchTickets
      BY <2>4 DEF MatchTickets, Without
    <2>6. DOMAIN tickets' = DOMAIN tickets \ DOMAIN plan.matches[m]
      BY <2>1 DEF Without
    <2>7. MatchedAnnounced'
      BY <2>1, <2>2, <2>5, <2>6 DEF QueueRun, MatchedAnnounced
    <2> QED
      BY <2>2, <2>7 DEF QueueRun, MarkedToDelete, ReadThere, CountdownCalls
  <1>8. CASE DeleteMatched
    <2>1. /\ pc = "deleteMatched"
          /\ NextRun \/ (pc' = "deleteTickets" /\ UNCHANGED <<plan, tickets, announced>>)
      BY <1>8 DEF DeleteMatched
    <2> QED
      BY <2>1, RunEndsQueueRun
         DEF QueueRun, MarkedToDelete, ReadThere, MatchedAnnounced, MatchTickets, CountdownCalls
  <1> QED
    BY <1>2, <1>3, <1>4, <1>5, <1>6, <1>7, <1>8 DEF Director

LEMMA NextQueueRun == IInv /\ QueueRun /\ [Next]_vars => QueueRun'
  <1> SUFFICES ASSUME IInv, QueueRun, [Next]_vars PROVE QueueRun'
    OBVIOUS
  <1>1. CASE Faults
    BY <1>1, RunEndsQueueRun DEF Faults, CallFails, Crash, RestartAfterPanic
  <1> QED
    BY <1>1, OthersQueueRun, DirectorQueueRun DEF Next

LEMMA InitQueueRun == Init => QueueRun
  BY DEF Init, QueueRun, MarkedToDelete, ReadThere, MatchedAnnounced, CountdownCalls

\* A step that changes neither players nor marks, and no announcement, is a
\* stutter of the promise.
LEMMA QueueStutters ==
    ASSUME SameQueue, announcedMatches' = announcedMatches
    PROVE  UNCHANGED Queue!vars
  <1>1. queueTickets' = queueTickets
    BY DEF SameQueue, queueTickets
  <1> QED
    BY <1>1 DEF Queue!vars

\* Where nothing announced is left, no match has been announced.
LEMMA NoneAnnounced == announced = {} => announcedMatches = {}
  BY DEF announcedMatches

\* Marks that are set, or unset.
LEMMA AskImplements ==
    ASSUME NEW T \in SUBSET DOMAIN tickets, NEW asked \in BOOLEAN,
           announcedMatches' = announcedMatches,
           DOMAIN tickets' = DOMAIN tickets,
           \A t \in DOMAIN tickets :
              /\ tickets'[t].players = tickets[t].players
              /\ tickets'[t].marked = IF t \in T THEN asked ELSE tickets[t].marked
    PROVE  Queue!Next
  <1>1. queueTickets' = [u \in DOMAIN queueTickets |->
                            IF u \in T THEN [queueTickets[u] EXCEPT !.asked = asked] ELSE queueTickets[u]]
    BY DEF queueTickets
  <1>2. Queue!Ask(T, asked)
    BY <1>1 DEF Queue!Ask
  <1>3. T \in SUBSET DOMAIN queueTickets
    BY DEF queueTickets
  <1> QED
    BY <1>2, <1>3 DEF Queue!Next

LEMMA OthersImplement ==
    ASSUME IInv,
           PartyService \/ Handlers \/ Consumer \/ (\E m \in PendingMatchIds : TeleportTimePasses(m))
             \/ UNCHANGED vars
    PROVE  [Queue!Next]_(Queue!vars)
  <1>1. announcedMatches' = announcedMatches
    BY OtherSteps DEF SameDirector, announcedMatches
  <1>2. CASE SameQueue
    BY <1>1, <1>2, QueueStutters
  <1>3. ASSUME NEW t \in DOMAIN tickets, MarkTicket(t) PROVE Queue!Next
    <2>1. {t} \in SUBSET DOMAIN tickets
      OBVIOUS
    <2>2. /\ DOMAIN tickets' = DOMAIN tickets
          /\ \A u \in DOMAIN tickets :
                /\ tickets'[u].players = tickets[u].players
                /\ tickets'[u].marked = IF u \in {t} THEN TRUE ELSE tickets[u].marked
      BY <1>3, TicketMarked
    <2> QED
      BY <1>1, <2>1, <2>2, AskImplements
  <1>4. ASSUME NEW t, NEW S, Created(t, S) PROVE Queue!Next
    <2>1. t \in TicketIds /\ S \in SUBSET Players /\ t \notin DOMAIN queueTickets
      BY <1>4 DEF Created, FreshTicketIds, queueTickets
    <2>2. queueTickets' = [u \in DOMAIN queueTickets \cup {t} |->
                              IF u = t THEN [players |-> S, asked |-> FALSE] ELSE queueTickets[u]]
      BY <1>4, <2>1 DEF Created, queueTickets
    <2>3. Queue!Join(t, S)
      BY <1>1, <2>1, <2>2 DEF Queue!Join
    <2> QED
      BY <2>1, <2>3 DEF Queue!Next
  <1> QED
    BY <1>2, <1>3, <1>4, OtherSteps

\* The sizes that the promise allows.
MatchSizes == IF Method = "INSTANT" THEN 0 .. MaxPlayers ELSE {n \in Nat : n >= MinPlayers}

\* What a run in which no call fails knows of its matches.
MatchesAllowed ==
    /\ announced \subseteq BeingDeleted
    /\ Matching => Disjoint
    /\ pc = "announce" => \A m \in DOMAIN plan.matches : PlayersOf(plan.matches[m]) \in MatchSizes

\* The players of a match are those of the tickets that wait.
LEMMA SamePlayers ==
    ASSUME IInv, PartiesAllowed, NEW T \in SUBSET (DOMAIN tickets \cap DOMAIN ticketMap)
    PROVE  Queue!PlayersOf(T) = Total(Size, T)
  <1> DEFINE size == Sizes(tickets)
  <1>1. Queue!PlayersOf(T) = Total(size, T)
    <2>1. [t \in DOMAIN queueTickets |-> Queue!Cardinality(queueTickets[t].players)] = size
      BY DEF queueTickets, Sizes, Queue!Cardinality, Cardinality
    <2> HIDE DEF size
    <2> QED
      BY <2>1 DEF Queue!PlayersOf, Queue!MapThenSumSet, Queue!MapThenFoldSet,
                  Total, MapThenSumSet, MapThenFoldSet
  <1>2. \A t \in T : size[t] = Size[t]
    BY DEF IInv, ReadStillTrue, Sizes, Size
  <1>3. \A t \in T : size[t] \in Nat
    <2>1. \A t \in DOMAIN tickets : Cardinality(tickets[t].players) \in Nat
      BY FS_CardinalityType DEF PartiesAllowed, AllowedSize
    <2> QED
      BY <2>1 DEF Sizes
  <1>4. IsFiniteSet(T)
    BY FS_Subset DEF PartiesAllowed
  <1> HIDE DEF size
  <1>5. Seats(size, T) = Seats(Size, T)
    BY <1>2 DEF Seats
  <1>6. Total(size, T) = Total(Size, T)
    BY <1>2, <1>3, <1>4, <1>5, TotalIsSeats
  <1> QED
    BY <1>1, <1>6

\* The announcement of the matches of a run.
LEMMA AnnounceImplements ==
    ASSUME IInv, PartiesAllowed, QueueRun, MatchesAllowed, AnnounceMatches
    PROVE  Queue!Next
  <1>1. /\ pc = "announce" /\ UNCHANGED <<tickets, plan>>
        /\ announced' = announced \cup (MatchTickets \cap DOMAIN tickets)
    BY DEF AnnounceMatches, storeVars
  <1>2. announced = {}
    BY <1>1 DEF MatchesAllowed, BeingDeleted
  <1>3. MatchTickets \subseteq DOMAIN ticketMap /\ DOMAIN ticketMap \subseteq DOMAIN tickets
    BY <1>1 DEF IInv, ReadStillTrue, Planned, QueueRun, ReadThere, MatchTickets
  <1>4. announced' = MatchTickets
    BY <1>1, <1>2, <1>3
  <1> DEFINE groups == {DOMAIN plan.matches[m] : m \in DOMAIN plan.matches} \ {{}}
  <1>5. announcedMatches = {} /\ announcedMatches' = groups
    <2>1. \A m \in DOMAIN plan.matches : DOMAIN plan.matches[m] \cap MatchTickets = DOMAIN plan.matches[m]
      BY DEF MatchTickets
    <2> QED
      BY <1>1, <1>2, <1>4, <2>1, NoneAnnounced DEF announcedMatches
  <1>6. ASSUME NEW T \in groups PROVE T # {} /\ Queue!PlayersOf(T) \in MatchSizes
    <2>1. PICK m \in DOMAIN plan.matches : T = DOMAIN plan.matches[m]
      OBVIOUS
    <2>2. T \in SUBSET (DOMAIN tickets \cap DOMAIN ticketMap)
      BY <1>3, <2>1 DEF MatchTickets
    <2>3. Queue!PlayersOf(T) = PlayersOf(plan.matches[m])
      BY <2>1, <2>2, SamePlayers DEF PlayersOf
    <2> QED
      BY <1>1, <2>3 DEF MatchesAllowed
  <1>7. \A T, U \in groups : T # U => T \cap U = {}
    BY <1>1 DEF MatchesAllowed, Matching, Disjoint
  <1>8. groups \in SUBSET SUBSET DOMAIN queueTickets
    BY <1>3 DEF MatchTickets, queueTickets
  <1>9. queueTickets' = queueTickets
    BY <1>1 DEF queueTickets
  <1> HIDE DEF groups
  <1>10. Queue!Match(groups)
    BY <1>5, <1>6, <1>7, <1>9 DEF Queue!Match, MatchSizes
  <1> QED
    BY <1>8, <1>10 DEF Queue!Next

\* The deletion of the tickets of a match.
LEMMA DeleteImplements ==
    ASSUME IInv, QueueRun, MatchesAllowed, DeleteTickets
    PROVE  [Queue!Next]_(Queue!vars)
  <1>1. PICK m \in DOMAIN plan.matches :
           LET own == DOMAIN plan.matches[m]
           IN  /\ tickets' = Without(tickets, own)
               /\ announced' = announced \ own
               /\ plan' = [plan EXCEPT !.matches = Without(@, {m}),
                                       !.removing = UNION {ticketMap[t].players : t \in own}]
    BY DEF DeleteTickets
  <1> DEFINE own == DOMAIN plan.matches[m]
             left == own \cap announced
  <1>2. pc = "deleteTickets"
    BY DEF DeleteTickets
  <1>3. "matches" \in DOMAIN plan
    BY TypeParts DEF IInv, RunTypes, NoPlan
  <1>4. plan'.matches = Without(plan.matches, {m})
    BY <1>1, <1>3
  <1>5. own \cap DOMAIN tickets = left
    <2>1. announced \subseteq DOMAIN tickets
      BY DEF IInv, TypeOK
    <2>2. own \cap DOMAIN tickets \subseteq announced
      BY <1>2 DEF QueueRun, MatchedAnnounced, MatchTickets
    <2> QED
      BY <2>1, <2>2
  <1>6. queueTickets' = [u \in DOMAIN queueTickets \ left |-> queueTickets[u]]
    <2>1. tickets' = [u \in DOMAIN tickets \ own |-> tickets[u]]
      BY <1>1 DEF Without
    <2> QED
      BY <1>5, <2>1 DEF queueTickets
  <1>7. \A n \in DOMAIN plan.matches : n # m => DOMAIN plan.matches[n] \cap own = {}
    BY <1>2 DEF MatchesAllowed, Matching, Disjoint
  <1> HIDE DEF own
  <1>8. /\ DOMAIN plan'.matches = DOMAIN plan.matches \ {m}
        /\ \A n \in DOMAIN plan.matches \ {m} :
              DOMAIN plan'.matches[n] \cap announced' = DOMAIN plan.matches[n] \cap announced
    BY <1>1, <1>4, <1>7 DEF Without, own
  <1>9. announcedMatches' = announcedMatches \ {left}
    <2>1. \A n \in DOMAIN plan.matches \ {m} :
             DOMAIN plan.matches[n] \cap announced # {} => DOMAIN plan.matches[n] \cap announced # left
      BY <1>7
    <2>2. announcedMatches' = {DOMAIN plan.matches[n] \cap announced : n \in DOMAIN plan.matches \ {m}} \ {{}}
      BY <1>8 DEF announcedMatches
    <2> QED
      BY <2>1, <2>2 DEF announcedMatches, own
  <1>10. CASE left = {}
    <2>1. queueTickets' = queueTickets
      BY <1>6, <1>10 DEF queueTickets
    <2>2. announcedMatches' = announcedMatches
      BY <1>9, <1>10 DEF announcedMatches
    <2> QED
      BY <2>1, <2>2 DEF Queue!vars
  <1>11. CASE left # {}
    <2>1. left \in announcedMatches
      BY <1>11 DEF announcedMatches, own
    <2>2. Queue!LeaveMatched(left)
      BY <1>6, <1>9 DEF Queue!LeaveMatched, Queue!Remove
    <2> QED
      BY <2>1, <2>2 DEF Queue!Next
  <1> QED
    BY <1>10, <1>11

LEMMA DirectorImplements ==
    ASSUME IInv, PartiesAllowed, QueueRun, MatchesAllowed, Director
    PROVE  [Queue!Next]_(Queue!vars)
  <1>0. tickets \in [DOMAIN tickets -> Ticket]
    BY TypeParts DEF IInv, StoreTypes, IsMap
  <1>1. ASSUME pc \notin {"deleteTickets", "deleteMatched"}, announced' \subseteq announced
        PROVE  announced = {} /\ announcedMatches = {} /\ announcedMatches' = {}
    BY <1>1 DEF MatchesAllowed, BeingDeleted, announcedMatches
  <1>2. CASE DeleteMarked
    <2>1. pc = "deleteMarked" /\ tickets' = Without(tickets, batch.delete) /\ announced' \subseteq announced
      BY <1>2 DEF DeleteMarked
    <2> DEFINE T == batch.delete \cap DOMAIN tickets
    <2>2. \A t \in T : queueTickets[t].asked
      BY <2>1 DEF QueueRun, MarkedToDelete, queueTickets
    <2>3. queueTickets' = [u \in DOMAIN queueTickets \ T |-> queueTickets[u]]
      BY <2>1 DEF queueTickets, Without
    <2>4. T \in SUBSET DOMAIN queueTickets
      BY DEF queueTickets
    <2> HIDE DEF T
    <2>5. Queue!LeaveAsked(T)
      BY <1>1, <2>1, <2>2, <2>3 DEF Queue!LeaveAsked, Queue!Remove
    <2> QED
      BY <2>4, <2>5 DEF Queue!Next
  <1>3. CASE ResetRemovals
    <2>1. /\ pc = "resetRemovals" /\ ResetRemovalsOf(batch.reset) /\ announced' = announced
      BY <1>3 DEF ResetRemovals
    <2> DEFINE T == batch.reset \cap DOMAIN tickets
    <2>2. /\ DOMAIN tickets' = DOMAIN tickets
          /\ \A t \in DOMAIN tickets :
                /\ tickets'[t].players = tickets[t].players
                /\ tickets'[t].marked = IF t \in T THEN FALSE ELSE tickets[t].marked
      BY <1>0, <2>1 DEF Ticket
    <2>3. announcedMatches' = announcedMatches
      BY <1>1, <2>1
    <2> QED
      BY <2>2, <2>3, AskImplements
  <1>4. CASE AnnounceMatches
    BY <1>4, AnnounceImplements
  <1>5. CASE DeleteTickets
    BY <1>5, DeleteImplements
  <1>6. CASE DeleteMatched
    <2>1. /\ UNCHANGED <<tickets, announced>>
          /\ \/ DOMAIN plan.matches = {} /\ plan' = NoPlan
             \/ plan' = plan
      BY <1>6 DEF DeleteMatched, NextRun
    <2>2. DOMAIN NoPlan.matches = {}
      BY DEF NoPlan, Empty
    <2>3. announcedMatches' = announcedMatches
      BY <2>1, <2>2 DEF announcedMatches
    <2> QED
      BY <2>1, <2>3, QueueStutters DEF SameQueue
  <1>7. CASE FlagTickets
    <2>1. pc = "flag" /\ SetInPendingMatch(plan.flags) /\ announced' = announced
      BY <1>7 DEF FlagTickets
    <2>2. SameQueue
      BY <1>0, <2>1 DEF SameQueue, Ticket
    <2> QED
      BY <1>1, <2>1, <2>2, QueueStutters
  <1>8. CASE ReadDequeues \/ PullMarked \/ DeletePlayers \/ ReadTickets \/ ReadTicketsAndMatch
               \/ CancelAndPlan \/ Panic \/ UpdatePendingMatches \/ CreatePendingMatches
               \/ DeleteFinished \/ CalculateMap
    <2>1. pc \notin {"deleteTickets", "deleteMatched"} /\ UNCHANGED <<tickets, announced>>
      BY <1>8 DEF ReadDequeues, PullMarked, DeletePlayers, ReadTickets, ReadTicketsAndMatch, CancelAndPlan,
            Panic, UpdatePendingMatches, CreatePendingMatches, DeleteFinished, CalculateMap, storeVars
    <2> QED
      BY <1>1, <2>1, QueueStutters DEF SameQueue
  <1> QED
    BY <1>2, <1>3, <1>4, <1>5, <1>6, <1>7, <1>8 DEF Director

LEMMA StepImplements ==
    ASSUME IInv, PartiesAllowed, QueueRun, MatchesAllowed, MatchesAllowed', [Next]_vars
    PROVE  [Queue!Next]_(Queue!vars)
  <1>1. CASE Faults
    <2>1. NextRun /\ UNCHANGED <<tickets, announced>>
      BY <1>1 DEF Faults, CallFails, Crash, RestartAfterPanic, storeVars
    <2>2. announced = {} /\ announced' = {}
      BY <2>1 DEF MatchesAllowed, BeingDeleted, NextRun
    <2>3. announcedMatches = {} /\ announcedMatches' = {}
      BY <2>2 DEF announcedMatches
    <2> QED
      BY <2>1, <2>3, QueueStutters DEF SameQueue
  <1> QED
    BY <1>1, OthersImplement, DirectorImplements DEF Next

LEMMA InitImplements == Init => Queue!Init
  BY DEF Init, Queue!Init, queueTickets, announcedMatches, Empty, NoPlan

LEMMA PlayersCounted ==
    ASSUME IInv, PartiesAllowed, QueueRun, pc = "announce", NEW m \in DOMAIN plan.matches
    PROVE  PlayersOf(plan.matches[m]) \in Nat
  <1> DEFINE T == DOMAIN plan.matches[m]
  <1>1. T \subseteq DOMAIN ticketMap /\ DOMAIN ticketMap \subseteq DOMAIN tickets
    BY DEF IInv, ReadStillTrue, Planned, QueueRun, ReadThere
  <1>2. \A t \in T : Size[t] \in Nat
    <2>1. \A t \in T : ticketMap[t].players = tickets[t].players
      BY <1>1 DEF IInv, ReadStillTrue
    <2>2. \A t \in DOMAIN tickets : Cardinality(tickets[t].players) \in Nat
      BY FS_CardinalityType DEF PartiesAllowed, AllowedSize
    <2> QED
      BY <1>1, <2>1, <2>2 DEF Size, Sizes
  <1>3. IsFiniteSet(T)
    BY <1>1, FS_Subset DEF PartiesAllowed
  <1>4. Total(Size, T) \in Nat
    BY <1>2, <1>3, TotalFacts
  <1> QED
    BY <1>4 DEF PlayersOf

\* As long as no call fails, the queue of an INSTANT mode keeps its promise, for
\* any players, parties and order of the tickets: whoever leaves asked for it or
\* was announced, in one match, and no match has more players than the mode
\* allows (processDequeues, runMatchFunction, RunInstant).
THEOREM InstantImplementsMatchQueue ==
    ASSUME Method = "INSTANT"
    PROVE  Spec /\ [](faults = 0) => ImplementsMatchQueue
  <1>1. InstantInv /\ QueueRun /\ faults = 0 => MatchesAllowed
    <2> SUFFICES ASSUME InstantInv, QueueRun, faults = 0 PROVE MatchesAllowed
      OBVIOUS
    <2>1. announced \subseteq BeingDeleted /\ (Matching => Fitting /\ Disjoint)
      BY DEF InstantInv, InstantRun
    <2>2. ASSUME pc = "announce", NEW m \in DOMAIN plan.matches
          PROVE  PlayersOf(plan.matches[m]) \in MatchSizes
      <3>1. PlayersOf(plan.matches[m]) \in Nat
        BY <2>2, PlayersCounted DEF InstantInv
      <3> QED
        BY <2>1, <2>2, <3>1, GameModeAssumption DEF MatchSizes, Matching, Fitting
    <2> QED
      BY <2>1, <2>2 DEF MatchesAllowed
  <1>2. InstantInv /\ QueueRun /\ [Next]_vars => QueueRun'
    BY NextQueueRun DEF InstantInv
  <1>3. /\ InstantInv /\ QueueRun /\ faults = 0
        /\ InstantInv' /\ QueueRun' /\ (faults = 0)'
        /\ [Next]_vars
        => [Queue!Next]_(Queue!vars)
    <2>1. InstantInv' /\ QueueRun' /\ (faults = 0)' => MatchesAllowed'
      BY <1>1, PTL
    <2> QED
      BY <1>1, <2>1, StepImplements DEF InstantInv
  <1> QED
    BY <1>2, <1>3, InitQueueRun, InitImplements, InstantInvariance, PTL
       DEF Spec, ImplementsMatchQueue, Queue!Spec

\* So does the queue of a COUNTDOWN mode, whose matches have enough players, as
\* long as it does not make two pending matches of the same tickets.
THEOREM CountdownImplementsMatchQueue ==
    ASSUME Method = "COUNTDOWN"
    PROVE  Spec /\ []OneAtATime /\ [](faults = 0) => ImplementsMatchQueue
  <1>1. CountdownInv /\ QueueRun /\ faults = 0 => MatchesAllowed
    <2> SUFFICES ASSUME CountdownInv, QueueRun, faults = 0 PROVE MatchesAllowed
      OBVIOUS
    <2>1. announced \subseteq BeingDeleted /\ Sound
      BY DEF CountdownInv, CountdownRun, Stale
    <2>2. ASSUME pc = "announce", NEW m \in DOMAIN plan.matches
          PROVE  PlayersOf(plan.matches[m]) \in MatchSizes
      <3>1. PlayersOf(plan.matches[m]) \in Nat
        BY <2>2, PlayersCounted DEF CountdownInv
      <3> QED
        BY <2>1, <2>2, <3>1 DEF MatchSizes, Sound, MatchesGood, Planned, Enough
    <2> QED
      BY <2>1, <2>2 DEF MatchesAllowed, Sound, MatchesGood, Matching, Planned
  <1>2. CountdownInv /\ QueueRun /\ [Next]_vars => QueueRun'
    BY NextQueueRun DEF CountdownInv
  <1>3. /\ CountdownInv /\ QueueRun /\ faults = 0
        /\ CountdownInv' /\ QueueRun' /\ (faults = 0)'
        /\ [Next]_vars
        => [Queue!Next]_(Queue!vars)
    <2>1. CountdownInv' /\ QueueRun' /\ (faults = 0)' => MatchesAllowed'
      BY <1>1, PTL
    <2> QED
      BY <1>1, <2>1, StepImplements DEF CountdownInv
  <1> QED
    BY <1>2, <1>3, InitQueueRun, InitImplements, CountdownInvariance, PTL
       DEF Spec, ImplementsMatchQueue, Queue!Spec

=============================================================================
