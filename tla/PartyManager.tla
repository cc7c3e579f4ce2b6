---------------------------- MODULE PartyManager ----------------------------
(***************************************************************************)
(* The party manager: the gRPC handlers of parties and events              *)
(* (party-manager/internal/grpc, app/party/service.go, app/event), the     *)
(* consumer of the connection topic (app/party/consumer.go) and the        *)
(* scheduler that starts events (app/event/scheduler.go).                  *)
(*                                                                         *)
(* A call is a process: it reads a party, and writes later what it decided *)
(* from that read.  One repository call is one step, with the local work   *)
(* and the notifications up to the next.  A call that fails is simply gone *)
(* and what it wrote stays, whether a repository call returned an error or *)
(* the process ended.                                                      *)
(***************************************************************************)
EXTENDS Integers, Sequences, FiniteSets

CONSTANTS Players, EventIds,
          None,               \* no party, no player
          StoredSettings,     \* players who have a settings document
          MaxIds,             \* bound: ids of parties in use at once
          MaxCalls,           \* bound: calls under way at once
          MaxConnections,     \* bound: unread messages of the connection topic
          MaxInvites,         \* bound: invites at once
          MaxFailures         \* bound: failed calls and crashes

ASSUME PartyAssumption == /\ IsFiniteSet(Players)
                          /\ None \notin Players \cup EventIds
                          /\ Players \cap EventIds = {}
                          /\ StoredSettings \subseteq Players
                          /\ {MaxIds, MaxCalls, MaxConnections, MaxInvites, MaxFailures} \subseteq Nat

VARIABLES
    parties,      \* collection party: id |-> document
    invites,      \* collection partyInvite: pairs of party and target
    events,       \* collection event: id |-> document
    memberInvites, \* collection partySettings: who lets members of his party invite
    online,       \* players who are on the network
    connections,  \* messages of the connection topic not handled yet
    calls,        \* actor |-> the call he has under way
    heard,        \* id |-> [leader, members]: the party topic, read in order until a call fails
    hurt,         \* history: players and events that failed calls were about
    failures      \* history: the number of failures

aside == <<memberInvites, hurt, failures>>
vars == <<parties, invites, events, online, connections, calls, heard, aside>>

Empty == [x \in {} |-> x]
Without(f, S) == [x \in DOMAIN f \ S |-> f[x]]
Put(f, x, v) == [y \in DOMAIN f \cup {x} |-> IF y = x THEN v ELSE f[y]]

Init == /\ parties = Empty
        /\ invites = {}
        /\ events = Empty
        /\ online = {}
        /\ connections = <<>>
        /\ calls = Empty
        /\ heard = Empty
        /\ memberInvites = {} /\ hurt = {} /\ failures = 0

-----------------------------------------------------------------------------
(* The collections.                                                        *)

Party(leader, open) == [leader |-> leader, members |-> {leader}, open |-> open, event |-> {}]

\* The party of p, if he has one: the index on members.playerId is unique.
PartyOf(p) == {c \in DOMAIN parties : p \in parties[c].members}

\* Faulty variant: the collection was created without its unique indexes.
NotIndexed(c, party) == TRUE

\* The unique indexes allow party c to be written; a party without members has
\* the null key in the second.
Indexed(c, party) ==
    \A d \in DOMAIN parties \ {c} :
        /\ parties[d].leader # party.leader
        /\ parties[d].members \cap party.members = {}
        /\ parties[d].members # {} \/ party.members # {}

\* What a call knows of party c.
Seen(c, party) == [id |-> c, leader |-> party.leader, members |-> party.members,
                   open |-> party.open, event |-> party.event]
Read(c) == Seen(c, parties[c])

\* Ids are ObjectIDs: an id that nothing names any more stands for a new one.
PartyIds == 1 .. MaxIds

NamedBy(call) == {call.into} \cup (IF call.seen = None THEN {} ELSE {call.seen.id})

IdsInUse == DOMAIN parties \cup DOMAIN heard \cup {i[1] : i \in invites}
               \cup (UNION {events[e].party : e \in DOMAIN events})
               \cup (UNION {NamedBy(calls[a]) : a \in DOMAIN calls})

NewId == CHOOSE c \in PartyIds \ IdsInUse : TRUE

\* What a listener to the party topic believes after one more message.
HeardLeft(c, p) ==
    IF c \in DOMAIN heard THEN [heard EXCEPT ![c].members = @ \ {p}] ELSE heard
HeardJoined(c, p) ==
    IF c \in DOMAIN heard THEN [heard EXCEPT ![c].members = @ \cup {p}] ELSE heard
HeardLeader(c, p) ==
    IF c \in DOMAIN heard THEN [heard EXCEPT ![c].leader = p] ELSE heard
HeardParty(c, p, before) ==
    IF failures = 0 THEN Put(before, c, [leader |-> p, members |-> {p}]) ELSE before

\* Invites to a party, and the documents of events.
Invited(c, p) == <<c, p>> \in invites
CreateInvite(c, p) == invites' = invites \cup {<<c, p>>}
DeleteInvitesTo(c) == invites' = {i \in invites : i[1] # c}

\* The settings of a leader, or the defaults when he has none stored.
HasSettings(p) == p \in StoredSettings
LetsMembersInvite(p) == HasSettings(p) /\ p \in memberInvites
ReplaceSettings(p, allow) ==
    memberInvites' = IF allow THEN memberInvites \cup {p} ELSE memberInvites \ {p}

InsertEvent(e, p) == events' = Put(events, e, [owner |-> p, when |-> "later", displayed |-> FALSE,
                                           party |-> {}])
MarkDisplayed(e) == events' = [events EXCEPT ![e].displayed = TRUE]
SetTime(e, when) == events' = [events EXCEPT ![e].when = when]
RemoveEvent(e) == events' = Without(events, {e})

-----------------------------------------------------------------------------
(* Calls.                                                                  *)

Call(op, at, who, seen) ==
    [op |-> op, at |-> at, who |-> who, seen |-> seen, into |-> None, other |-> None,
     todo |-> {}]

\* Players call for themselves; "admin" stands for the other users of the API.
Actors == Players \cup {"admin", "consumer", "scheduler"}

\* a may start a call; it does.
Idle(a) == a \notin DOMAIN calls /\ Cardinality(DOMAIN calls) < MaxCalls
Begin(a, call) == calls' = Put(calls, a, call)

\* The call of a goes on at the step at, is over, or returns an error.
Go(a, call, at) == calls' = [calls EXCEPT ![a] = [call EXCEPT !.at = at]]
Return(a) == calls' = Without(calls, {a})
At(a, at) == a \in DOMAIN calls /\ calls[a].at = at

\* Who is left when p leaves party c, or a new leader when he led it.
Successors(party, p) == IF party.leader = p THEN party.members \ {p} ELSE {None}

-----------------------------------------------------------------------------
(* What players ask for (grpc/party.go): the first read and its checks.    *)

LeaveParty(p) ==
    /\ p \in online /\ Idle(p)
    /\ \E c \in PartyOf(p) :
          /\ Cardinality(parties[c].members) # 1
          /\ Begin(p, Call("leave", "removeMember", p, Read(c)))
    /\ UNCHANGED <<parties, invites, events, online, connections, heard, aside>>

KickPlayer(p, q) ==
    /\ p \in online /\ Idle(p)
    /\ \E c \in PartyOf(p) :
          /\ parties[c].leader = p
          /\ q \in parties[c].members
          /\ Begin(p, [Call("kick", "findParty", q, Read(c)) EXCEPT !.into = c])
    /\ UNCHANGED <<parties, invites, events, online, connections, heard, aside>>

JoinParty(p, q) ==
    /\ p \in online /\ Idle(p)
    /\ \E c \in PartyOf(p) :
          Begin(p, [Call("join", "findTarget", p, Read(c)) EXCEPT !.other = q])
    /\ UNCHANGED <<parties, invites, events, online, connections, heard, aside>>

\* By the leader, or by somebody who names the party and is not asked who he is.
EmptyParty(a, c) ==
    /\ Idle(a)
    /\ parties[c].leader \in parties[c].members
    /\ a \in {parties[c].leader} \cap online \/ a = "admin"
    /\ Begin(a, [Call("empty", "setMembers", parties[c].leader, Read(c)) EXCEPT
                    !.todo = parties[c].members \ {parties[c].leader}])
    /\ UNCHANGED <<parties, invites, events, online, connections, heard, aside>>

\* ChangePartyLeader: a member, and not the leader already.
MayLead(c, q) == q \in parties[c].members \ {parties[c].leader}

SetPartyLeader(p, q) ==
    /\ p \in online /\ Idle(p)
    /\ \E c \in PartyOf(p) :
          /\ parties[c].leader = p
          /\ MayLead(c, q)
          /\ Begin(p, [Call("setLeader", "setLeader", p, Read(c)) EXCEPT !.other = q])
    /\ UNCHANGED <<parties, invites, events, online, connections, heard, aside>>

SetOpenParty(p, open) ==
    /\ p \in online /\ Idle(p)
    /\ \E c \in PartyOf(p) :
          /\ parties[c].leader = p
          /\ Begin(p, Call(IF open THEN "open" ELSE "close", "setOpen", p, Read(c)))
    /\ UNCHANGED <<parties, invites, events, online, connections, heard, aside>>

\* InvitePlayer, as one step: nothing it writes depends on an earlier read of
\* something that another call may have changed, except an invite to a party
\* that is gone, which a later deletion of the party leaves as well.
InvitePlayer(p, q) ==
    /\ p \in online /\ Cardinality(invites) < MaxInvites
    /\ \E c \in PartyOf(p), d \in PartyOf(q) :
          /\ p = parties[c].leader \/ LetsMembersInvite(parties[c].leader)
          /\ c # d
          /\ ~ Invited(c, q)
          /\ CreateInvite(c, q)
    /\ UNCHANGED <<parties, events, online, connections, calls, heard, aside>>

\* UpdatePartySettings fails for a player who has no settings document yet.
UpdatePartySettings(p, allowMemberInvite) ==
    /\ HasSettings(p)
    /\ ReplaceSettings(p, allowMemberInvite)
    /\ UNCHANGED <<parties, invites, events, online, connections, calls, heard, hurt, failures>>

InviteExpires(i) ==
    /\ i \in invites
    /\ invites' = invites \ {i}
    /\ UNCHANGED <<parties, events, online, connections, calls, heard, aside>>

-----------------------------------------------------------------------------
(* JoinPartyByMemberID.                                                    *)

\* The party p gives up: deleted if he is alone in what he has read of it.
GiveUp(call) == IF Cardinality(call.seen.members) = 1 THEN "deleteParty" ELSE "findParty"

FindTarget(a) ==
    /\ At(a, "findTarget")
    /\ LET call == calls[a]
       IN  \/ \E d \in PartyOf(call.other) \ {call.seen.id} :
                 Go(a, [call EXCEPT !.into = d, !.other = None],
                    IF parties[d].open THEN GiveUp(call) ELSE "deleteInvite")
           \/ /\ PartyOf(call.other) \subseteq {call.seen.id}
              /\ Return(a)
    /\ UNCHANGED <<parties, invites, events, online, connections, heard, aside>>

DeleteInvite(a) ==
    /\ At(a, "deleteInvite")
    /\ LET call == calls[a]
           invite == <<call.into, call.who>>
       IN  /\ IF invite \in invites THEN Go(a, call, GiveUp(call)) ELSE Return(a)
           /\ invites' = invites \ {invite}
    /\ UNCHANGED <<parties, events, online, connections, heard, aside>>

AddMember(a) ==
    /\ At(a, "addMember")
    /\ Return(a)
    /\ LET c == calls[a].into
           p == calls[a].who
           joined == [parties[c] EXCEPT !.members = @ \cup {p}]
       IN  IF c \in DOMAIN parties /\ Indexed(c, joined) /\ p \notin parties[c].members
           THEN parties' = Put(parties, c, joined) /\ heard' = HeardJoined(c, p)
           ELSE UNCHANGED <<parties, heard>>
    /\ UNCHANGED <<invites, events, online, connections, aside>>

\* Faulty variant: nobody is told of the party.
DeleteOwnPartySilently(a) ==
    /\ At(a, "deleteParty")
    /\ parties' = Without(parties, {calls[a].seen.id})
    /\ Go(a, calls[a], IF calls[a].op = "join" THEN "addMember" ELSE "deleteInvites")
    /\ UNCHANGED <<invites, events, online, connections, heard, aside>>

\* DeleteParty, of a player who joins another party or disconnects.
DeleteOwnParty(a) ==
    /\ At(a, "deleteParty")
    /\ LET call == calls[a]
           c == call.seen.id
       IN  IF c \notin DOMAIN parties
           THEN Return(a) /\ UNCHANGED <<parties, heard>>
           ELSE /\ parties' = Without(parties, {c})
                /\ IF call.op = "join"
                   THEN Go(a, call, "addMember") /\ heard' = Without(heard, {c})
                   ELSE Go(a, call, "deleteInvites") /\ UNCHANGED heard
    /\ UNCHANGED <<invites, events, online, connections, aside>>

-----------------------------------------------------------------------------
(* RemovePlayerFromParty and the handler of a disconnect.                  *)

FindParty(a) ==
    /\ At(a, "findParty")
    /\ LET call == calls[a]
       IN  \/ \E c \in PartyOf(call.who) :
                 /\ Cardinality(parties[c].members) # 1
                 /\ Go(a, [call EXCEPT !.seen = Read(c)], "removeMember")
           \/ /\ \A c \in PartyOf(call.who) : Cardinality(parties[c].members) = 1
              /\ Return(a)
    /\ UNCHANGED <<parties, invites, events, online, connections, heard, aside>>

\* Where a call goes on when the player has left and the leader is settled.
Removed(op) == CASE op \in {"leave", "kick", "start"} -> "createParty"
                 [] op = "join" -> "addMember"
                 [] OTHER -> "return"

GoOrReturn(a, call, at) == IF at = "return" THEN Return(a) ELSE Go(a, call, at)

\* Faulty variant: nobody is elected when a leader leaves.
RemoveMemberOnly(a) ==
    /\ At(a, "removeMember")
    /\ LET call == calls[a]
           c == call.seen.id
       IN  /\ c \in DOMAIN parties /\ call.who \in parties[c].members
           /\ parties' = [parties EXCEPT ![c].members = @ \ {call.who}]
           /\ heard' = HeardLeft(c, call.who)
           /\ GoOrReturn(a, call, Removed(call.op))
    /\ UNCHANGED <<invites, events, online, connections, aside>>

\* The member is pulled; a new leader is drawn from what the call has read.
RemoveMember(a) ==
    /\ At(a, "removeMember")
    /\ LET call == calls[a]
           c == call.seen.id
       IN  IF /\ c \in DOMAIN parties /\ call.who \in parties[c].members
              /\ Indexed(c, [parties[c] EXCEPT !.members = @ \ {call.who}])
           THEN /\ parties' = [parties EXCEPT ![c].members = @ \ {call.who}]
                /\ heard' = HeardLeft(c, call.who)
                /\ \E q \in Successors(call.seen, call.who) :
                      IF q = None THEN GoOrReturn(a, call, Removed(call.op))
                      ELSE Go(a, [call EXCEPT !.other = q], "setLeader")
           ELSE Return(a) /\ UNCHANGED <<parties, heard>>
    /\ UNCHANGED <<invites, events, online, connections, aside>>

SetLeader(a) ==
    /\ At(a, "setLeader")
    /\ LET call == calls[a]
           c == call.seen.id
           led == [parties[c] EXCEPT !.leader = call.other]
       IN  IF c \in DOMAIN parties /\ Indexed(c, led) /\ led # parties[c]
           THEN /\ parties' = [parties EXCEPT ![c] = led]
                /\ heard' = HeardLeader(c, call.other)
                /\ GoOrReturn(a, [call EXCEPT !.other = None], Removed(call.op))
           ELSE Return(a) /\ UNCHANGED <<parties, heard>>
    /\ UNCHANGED <<invites, events, online, connections, aside>>

-----------------------------------------------------------------------------
(* CreateParty, wherever a player gets a party of his own.                 *)

\* The party gets a new id (bound: one is left), unless an index refuses it, and
\* the call goes on at next.  told is what the listener has heard before the
\* message about it.
CreateParty(a, party, told, call, next) ==
    /\ PartyIds \ IdsInUse # {}
    /\ IF Indexed(NewId, party)
       THEN /\ parties' = Put(parties, NewId, party)
            /\ heard' = HeardParty(NewId, party.leader, told)
            /\ GoOrReturn(a, call, next)
       ELSE /\ heard' = told
            /\ Return(a)
            /\ UNCHANGED parties
    /\ UNCHANGED <<invites, events, online, connections, aside>>

\* Where a call goes on when the player has a party of his own.
Settled(call) == CASE call.op = "kick" -> "createAgain"
                   [] call.op = "start" /\ call.seen = None -> "setEventParty"
                   [] call.op = "start" /\ call.seen # None -> "setOpen"
                   [] OTHER -> "return"

\* putPlayerInNewParty, HandlePlayerConnect and runStartEvent; the party of an
\* event whose owner had none is open from the start.
CreateOwnParty(a) ==
    /\ At(a, "createParty")
    /\ LET call == calls[a]
           party == Party(call.who, call.op = "start" /\ call.seen = None)
       IN  CreateParty(a, party, heard,
                       IF call.op = "start" THEN [call EXCEPT !.seen = Seen(NewId, party)] ELSE call,
                       Settled(call))

\* KickPlayerFromParty announces the kick and creates a party once more.
CreateAgain(a) ==
    /\ At(a, "createAgain")
    /\ CreateParty(a, Party(calls[a].who, FALSE), HeardLeft(calls[a].into, calls[a].who),
                   calls[a], "return")

-----------------------------------------------------------------------------
(* EmptyParty of the service.                                              *)

\* SetPartyMembers says nothing when the party is gone.
SetMembers(a) ==
    /\ At(a, "setMembers")
    /\ LET call == calls[a]
           c == call.seen.id
       IN  IF c \notin DOMAIN parties
           THEN Go(a, call, "deleteInvites") /\ UNCHANGED parties
           ELSE LET emptied == [parties[c] EXCEPT !.members = {call.seen.leader}]
                IN  IF Indexed(c, emptied)
                    THEN parties' = Put(parties, c, emptied) /\ Go(a, call, "deleteInvites")
                    ELSE UNCHANGED parties /\ Return(a)
    /\ UNCHANGED <<invites, events, online, connections, heard, aside>>

\* The step after the members have been told of.
Emptied(call) == IF call.todo # {} THEN "recreate"
                 ELSE IF call.op = "start" THEN "setEventParty"
                 ELSE "return"

\* SetOpenParty opens; an emptied party is open for an event, else closed.
Opens(op) == op \in {"open", "start"}

\* DeletePartyInvitesByPartyId; a disconnected player's party is now announced
\* as deleted, an emptied one as emptied if it need not be opened or closed.
DeleteInvites(a) ==
    /\ At(a, "deleteInvites")
    /\ LET call == calls[a]
           c == call.seen.id
       IN  /\ DeleteInvitesTo(c)
           /\ CASE call.op = "disconnect" -> Return(a) /\ heard' = Without(heard, {c})
                [] call.op # "disconnect" /\ call.seen.open # Opens(call.op) ->
                      Go(a, call, "openEmptied") /\ UNCHANGED heard
                [] OTHER -> /\ GoOrReturn(a, call, Emptied(call))
                            /\ heard' = HeardParty(c, call.seen.leader, heard)
    /\ UNCHANGED <<parties, events, online, connections, aside>>

SetOpen(a, at, told, next) ==
    /\ At(a, at)
    /\ LET c == calls[a].seen.id
       IN  IF c \notin DOMAIN parties
           THEN Return(a) /\ UNCHANGED <<parties, heard>>
           ELSE /\ parties' = [parties EXCEPT ![c].open = Opens(calls[a].op)]
                /\ heard' = told
                /\ GoOrReturn(a, calls[a], next)
    /\ UNCHANGED <<invites, events, online, connections, aside>>

OpenEmptied(a) ==
    SetOpen(a, "openEmptied", HeardParty(calls[a].seen.id, calls[a].seen.leader, heard),
            Emptied(calls[a]))

OpenOrClose(a) ==
    SetOpen(a, "setOpen", heard, IF calls[a].op = "start" THEN "setEventParty" ELSE "return")

\* Everybody but the leader gets a party, one after the other.
Recreate(a) ==
    /\ At(a, "recreate")
    /\ \E p \in calls[a].todo :
          LET call == [calls[a] EXCEPT !.todo = @ \ {p}]
          IN  CreateParty(a, Party(p, FALSE), heard, call, Emptied(call))

-----------------------------------------------------------------------------
(* Events (app/event).                                                     *)

CreateEvent(e, p) ==
    /\ e \notin DOMAIN events
    /\ InsertEvent(e, p)
    /\ UNCHANGED <<parties, invites, online, connections, calls, heard, aside>>

\* The start time of an event comes, or UpdateEvent sets another one.
StartTimePasses(e) ==
    /\ e \in DOMAIN events /\ events[e].when = "later"
    /\ SetTime(e, "due")
    /\ UNCHANGED <<parties, invites, online, connections, calls, heard, aside>>

UpdateEvent(e) ==
    /\ e \in DOMAIN events /\ events[e].when = "due"
    /\ SetTime(e, "later")
    /\ UNCHANGED <<parties, invites, online, connections, calls, heard, aside>>

\* GetEventToDisplay marks the event it returns as displayed; the announcement
\* is made once, or not at all.
DisplayEvent(e) ==
    /\ Idle("scheduler")
    /\ e \in DOMAIN events /\ ~ events[e].displayed
    /\ MarkDisplayed(e)
    /\ UNCHANGED <<parties, invites, online, connections, calls, heard, aside>>

\* GetEventToStart marks the event it returns as started.
StartEvent(e) ==
    /\ Idle("scheduler")
    /\ e \in DOMAIN events /\ events[e].when = "due"
    /\ SetTime(e, "started")
    /\ Begin("scheduler", [Call("start", "findOwnerParty", events[e].owner, None) EXCEPT !.into = e])
    /\ UNCHANGED <<parties, invites, online, connections, heard, aside>>

\* Faulty variant: the owner leaves his party, whoever leads it.
FindOwnerPartyToLeave(a) ==
    /\ At(a, "findOwnerParty")
    /\ Go(a, calls[a], IF PartyOf(calls[a].who) = {} THEN "createParty" ELSE "findParty")
    /\ UNCHANGED <<parties, invites, events, online, connections, heard, aside>>

\* The owner's party is emptied when he leads it; else he leaves it.
FindOwnerParty(a) ==
    /\ At(a, "findOwnerParty")
    /\ LET call == calls[a]
           own == PartyOf(call.who)
       IN  \/ own = {} /\ Go(a, call, "createParty")
           \/ \E c \in own :
                 IF parties[c].leader = call.who
                 THEN Go(a, [call EXCEPT !.seen = Read(c), !.todo = parties[c].members \ {call.who}],
                         "setMembers")
                 ELSE Go(a, call, "findParty")
    /\ UNCHANGED <<parties, invites, events, online, connections, heard, aside>>

\* SetEventPartyID says nothing when the event is gone.
SetEventParty(a) ==
    /\ At(a, "setEventParty")
    /\ LET call == calls[a]
           e == call.into
       IN  events' = IF e \in DOMAIN events THEN [events EXCEPT ![e].party = {call.seen.id}]
                     ELSE events
    /\ Go(a, calls[a], "setPartyEvent")
    /\ UNCHANGED <<parties, invites, online, connections, heard, aside>>

SetPartyEvent(a) ==
    /\ At(a, "setPartyEvent")
    /\ LET c == calls[a].seen.id
       IN  parties' = IF c \in DOMAIN parties THEN [parties EXCEPT ![c].event = {calls[a].into}]
                      ELSE parties
    /\ Return(a)
    /\ UNCHANGED <<invites, events, online, connections, heard, aside>>

\* DeleteEvent reads the event, by its id or because it has started, ...
DeleteEvent(e) ==
    /\ Idle("admin") /\ e \in DOMAIN events
    /\ Begin("admin", [Call("deleteEvent", "deleteEvent", None, None) EXCEPT
                          !.into = e, !.todo = events[e].party])
    /\ UNCHANGED <<parties, invites, events, online, connections, heard, aside>>

\* ... deletes it and then takes it from its party.
DeleteEventDocument(a) ==
    /\ At(a, "deleteEvent")
    /\ LET call == calls[a]
       IN  /\ RemoveEvent(call.into)
           /\ IF call.into \in DOMAIN events /\ call.todo # {} THEN Go(a, call, "removePartyEvent")
              ELSE Return(a)
    /\ UNCHANGED <<parties, invites, online, connections, heard, aside>>

\* Faulty variant: the party keeps the event.
KeepPartyEvent(a) ==
    /\ At(a, "removePartyEvent")
    /\ Return(a)
    /\ UNCHANGED <<parties, invites, events, online, connections, heard, aside>>

RemovePartyEvent(a) ==
    /\ At(a, "removePartyEvent")
    /\ parties' = [c \in DOMAIN parties |->
                      IF c \in calls[a].todo THEN [parties[c] EXCEPT !.event = {}] ELSE parties[c]]
    /\ Return(a)
    /\ UNCHANGED <<invites, events, online, connections, heard, aside>>

-----------------------------------------------------------------------------
(* The connection topic.                                                   *)

Connection(type, p) == [type |-> type, player |-> p]

PlayerConnects(p) ==
    /\ p \notin online /\ Len(connections) < MaxConnections
    /\ online' = online \cup {p}
    /\ connections' = Append(connections, Connection("connect", p))
    /\ UNCHANGED <<parties, invites, events, calls, heard, aside>>

PlayerDisconnects(p) ==
    /\ p \in online /\ Len(connections) < MaxConnections
    /\ online' = online \ {p}
    /\ connections' = Append(connections, Connection("disconnect", p))
    /\ UNCHANGED <<parties, invites, events, calls, heard, aside>>

\* The consumer takes the next message, of that type.
Consume(type) ==
    /\ Idle("consumer")
    /\ connections # <<>> /\ Head(connections).type = type
    /\ connections' = Tail(connections)
    /\ UNCHANGED <<parties, invites, events, online, heard, memberInvites, failures>>

\* A party that p still leads without being in it: he can have no other.
LeadsAbsent(p) == \E c \in DOMAIN parties : parties[c].leader = p /\ p \notin parties[c].members

\* A player who is in a party already is left where he is; a party makes good
\* what an earlier failure has done to him.
HandlePlayerConnect ==
    /\ Consume("connect")
    /\ LET p == Head(connections).player
       IN  /\ IF PartyOf(p) = {} THEN Begin("consumer", Call("connect", "createParty", p, None))
              ELSE UNCHANGED calls
           /\ hurt' = IF LeadsAbsent(p) THEN hurt ELSE hurt \ {p}

\* The leader of an event party stays in it.
HandlePlayerDisconnect ==
    /\ Consume("disconnect")
    /\ UNCHANGED hurt
    /\ LET p == Head(connections).player
           leave(c) == Call("disconnect", IF parties[c].leader = p /\ Cardinality(parties[c].members) < 2
                                          THEN "deleteParty" ELSE "removeMember", p, Read(c))
           stays == {c \in PartyOf(p) : parties[c].leader = p /\ parties[c].event # {}}
       IN  IF PartyOf(p) = stays THEN UNCHANGED calls
           ELSE \E c \in PartyOf(p) : Begin("consumer", leave(c))

-----------------------------------------------------------------------------
(* Failures.                                                               *)

\* The players who may be left without a party, or the event half started or
\* half deleted, when the call fails.
AtStake(call) == CASE call.op \in {"setLeader", "open", "close"} -> {}
                   [] call.op = "empty" -> call.todo
                   [] call.op = "start" -> call.todo \cup {call.who, call.into}
                   [] call.op = "deleteEvent" -> {call.into}
                   [] OTHER -> {call.who}

Fail(S) ==
    /\ failures < MaxFailures
    /\ failures' = failures + 1
    /\ hurt' = hurt \cup UNION {AtStake(calls[a]) : a \in S}
    /\ calls' = Without(calls, S)
    /\ heard' = Empty
    /\ UNCHANGED <<parties, invites, events, online, connections, memberInvites>>

\* A repository call returns an error, wherever the call of a is.
CallFails(a) == a \in DOMAIN calls /\ Fail({a})

\* The process ends and starts again, as it does when InvitePlayer is called by
\* or for a player without a party: the handler reads the invite there is not.
Crash == calls # Empty /\ Fail(DOMAIN calls)

-----------------------------------------------------------------------------
Request ==
    \/ \E p \in Players :
          \/ PlayerConnects(p) \/ PlayerDisconnects(p) \/ LeaveParty(p)
          \/ \E q \in Players : KickPlayer(p, q) \/ JoinParty(p, q) \/ SetPartyLeader(p, q)
                                \/ InvitePlayer(p, q)
          \/ \E open \in BOOLEAN : SetOpenParty(p, open)
          \/ \E allow \in BOOLEAN : UpdatePartySettings(p, allow)
          \/ \E e \in EventIds : CreateEvent(e, p)
    \/ \E a \in Players \cup {"admin"}, c \in DOMAIN parties : EmptyParty(a, c)
    \/ \E i \in invites : InviteExpires(i)
    \/ \E e \in EventIds : StartTimePasses(e) \/ UpdateEvent(e)
                                \/ DisplayEvent(e) \/ StartEvent(e) \/ DeleteEvent(e)
    \/ HandlePlayerConnect \/ HandlePlayerDisconnect

Step(a) ==
    \/ FindTarget(a) \/ DeleteInvite(a) \/ AddMember(a) \/ DeleteOwnParty(a)
    \/ FindParty(a) \/ RemoveMember(a) \/ SetLeader(a) \/ CreateOwnParty(a) \/ CreateAgain(a)
    \/ SetMembers(a) \/ DeleteInvites(a) \/ OpenEmptied(a) \/ OpenOrClose(a) \/ Recreate(a)
    \/ FindOwnerParty(a) \/ SetEventParty(a) \/ SetPartyEvent(a)
    \/ DeleteEventDocument(a) \/ RemovePartyEvent(a)

Next == Request \/ (\E a \in Actors : Step(a) \/ CallFails(a)) \/ Crash

Spec == Init /\ [][Next]_vars

-----------------------------------------------------------------------------
(* Properties.                                                             *)

\* The collections hold what the models declare, and no player is in two
\* parties or leads two (the unique indexes, repository/mongo.go:83).
TypeOK ==
    /\ DOMAIN parties \subseteq PartyIds
    /\ \A c \in DOMAIN parties :
          /\ parties[c].leader \in Players /\ parties[c].members \subseteq Players
          /\ parties[c].open \in BOOLEAN /\ parties[c].event \subseteq EventIds
          /\ \A d \in DOMAIN parties \ {c} :
                /\ parties[c].leader # parties[d].leader
                /\ parties[c].members \cap parties[d].members = {}
    /\ invites \subseteq PartyIds \X Players
    /\ DOMAIN events \subseteq EventIds
    /\ \A e \in DOMAIN events :
          /\ events[e].owner \in Players
          /\ events[e].when \in {"later", "due", "started"} /\ events[e].displayed \in BOOLEAN
          /\ events[e].party \subseteq PartyIds
    /\ online \subseteq Players
    /\ connections \in Seq([type : {"connect", "disconnect"}, player : Players])
    /\ DOMAIN calls \subseteq Actors
    /\ DOMAIN heard \subseteq PartyIds
    /\ memberInvites \subseteq StoredSettings
    /\ hurt \subseteq Players \cup EventIds /\ failures \in 0 .. MaxFailures

\* Nothing is under way.
Quiet == calls = Empty /\ connections = <<>>

\* When nothing is under way every player on the network is in a party ("a
\* player should always be in a party", service.go:90), every party is led by a
\* member, and only a leader may be off the network: joins, kicks, disconnects,
\* elections and event starts lose nobody on the way.  Of a call that failed, only
\* those it was about may bear the marks, and they lose them when they connect
\* again, but for one that a party he is not in still has as its leader.  A second
\* failure may do more: see LossesMarked in PartyManagerProofs.
PlayersHaveParties ==
    Quiet => /\ \A p \in online \ hurt : PartyOf(p) # {}
             /\ \A c \in DOMAIN parties :
                   /\ parties[c].leader \in parties[c].members \cup hurt
                   /\ parties[c].members \ {parties[c].leader} \subseteq online \cup hurt

\* A service that only reads the party topic ends with the parties, leaders and
\* members of the database: no operation forgets a message (service.go,
\* consumer.go), unless a call failed between the write and the message.
ListenersAgree ==
    Quiet /\ failures = 0 =>
        heard = [c \in DOMAIN parties |-> [leader |-> parties[c].leader,
                                           members |-> parties[c].members]]

\* A party that carries an event is the party of that event, and the event
\* exists: else the party would outlive its leader's disconnect (consumer.go:19).
\* Only the event that a failed call was about may be left behind.
EventPartyMatches ==
    Quiet => \A c \in DOMAIN parties : \A e \in parties[c].event \ hurt :
                e \in DOMAIN events /\ events[e].party = {c}

\* "We now have a party that is open with only the owner of the event in it"
\* (scheduler.go:114), on all three ways there; and none of them ends early: when
\* nothing is under way and no call has failed, an event marked as started has a
\* party.  It is marked before any of the work and no start is repeated.
EventsStart ==
    /\ \A a \in DOMAIN calls :
          calls[a].at = "setEventParty" =>
              LET c == calls[a].seen.id
              IN  c \in DOMAIN parties /\ parties[c].open /\ parties[c].members = {calls[a].who}
    /\ Quiet /\ failures = 0 =>
          \A e \in DOMAIN events : events[e].when = "started" => events[e].party # {}

=============================================================================
