------------------------- MODULE PartyManagerProofs --------------------------
(* Theorems about the party manager, for any number of players, parties,     *)
(* events, failures and crashes: of calls that interleave in any way, and of *)
(* calls that do not overlap.                                                *)
EXTENDS PartyManager, FiniteSetTheorems, SequenceTheorems, TLAPS

-----------------------------------------------------------------------------
(* Types.                                                                  *)

PartyDocs == [leader : Players, members : SUBSET Players, open : BOOLEAN, event : SUBSET EventIds]
SeenDocs == [id : PartyIds, leader : Players, members : SUBSET Players, open : BOOLEAN,
             event : SUBSET EventIds]
EventDocs == [owner : Players, when : {"later", "due", "started"}, displayed : BOOLEAN,
              party : SUBSET PartyIds]
Ops == {"leave", "kick", "join", "empty", "setLeader", "open", "close", "connect", "disconnect",
        "start", "deleteEvent"}

\* The calls that come to a step.
OpsAt(at) ==
    CASE at \in {"findTarget", "deleteInvite", "addMember"} -> {"join"}
      [] at = "deleteParty" -> {"join", "disconnect"}
      [] at = "findParty" -> {"join", "kick", "start"}
      [] at = "removeMember" -> {"leave", "join", "kick", "start", "disconnect"}
      [] at = "setLeader" -> {"setLeader", "leave", "join", "kick", "start", "disconnect"}
      [] at = "createParty" -> {"leave", "kick", "start", "connect"}
      [] at = "createAgain" -> {"kick"}
      [] at \in {"setMembers", "openEmptied", "recreate"} -> {"empty", "start"}
      [] at = "deleteInvites" -> {"empty", "start", "disconnect"}
      [] at = "setOpen" -> {"open", "close", "start"}
      [] at \in {"findOwnerParty", "setEventParty", "setPartyEvent"} -> {"start"}
      [] at \in {"deleteEvent", "removePartyEvent"} -> {"deleteEvent"}
      [] OTHER -> {}

\* The steps of a call that has not read a party, or need not have.
Uninformed == {"findParty", "createParty", "createAgain", "findOwnerParty", "deleteEvent",
               "removePartyEvent"}

Steps == {"findTarget", "deleteInvite", "addMember", "deleteParty", "findParty", "removeMember",
          "setLeader", "createParty", "createAgain", "setMembers", "openEmptied", "recreate",
          "deleteInvites", "setOpen", "findOwnerParty", "setEventParty", "setPartyEvent",
          "deleteEvent", "removePartyEvent"}

CallDocs == [op : Ops, at : Steps, who : Players \cup {None}, seen : SeenDocs \cup {None},
             into : PartyIds \cup EventIds \cup {None}, other : Players \cup {None},
             todo : SUBSET (Players \cup PartyIds)]

CallDoc(call) ==
    /\ call \in CallDocs
    /\ call.op # "deleteEvent" => call.who \in Players /\ call.todo \subseteq Players
    /\ call.op \in {"start", "deleteEvent"} => call.into \in EventIds

\* A call knows what it needs at a step.
Ready(call, at) ==
    /\ at \in Steps /\ call.op \in OpsAt(at)
    /\ at \notin Uninformed => call.seen \in SeenDocs
    /\ at = "setLeader" => call.other \in Players

CallOK(call) == CallDoc(call) /\ Ready(call, call.at)

\* No player is in two parties or leads two.
Unique ==
    \A c, d \in DOMAIN parties : c # d =>
        /\ parties[c].leader # parties[d].leader
        /\ parties[c].members \cap parties[d].members = {}

Stored ==
    /\ parties \in [DOMAIN parties -> PartyDocs] /\ DOMAIN parties \subseteq PartyIds
    /\ events \in [DOMAIN events -> EventDocs] /\ DOMAIN events \subseteq EventIds
    /\ invites \subseteq PartyIds \X Players
    /\ memberInvites \subseteq StoredSettings

Around ==
    /\ online \subseteq Players
    /\ connections \in Seq([type : {"connect", "disconnect"}, player : Players])
    /\ hurt \subseteq Players \cup EventIds
    /\ failures \in 0 .. MaxFailures

Active ==
    /\ calls \in [DOMAIN calls -> CallDocs] /\ DOMAIN calls \subseteq Actors
    /\ \A a \in DOMAIN calls : CallOK(calls[a])

Told == DOMAIN heard \subseteq PartyIds

TypeInv == Stored /\ Unique /\ Around /\ Active /\ Told

LEMMA TypeInvImplies == TypeInv => TypeOK
BY DEF TypeInv, TypeOK, Stored, Unique, Around, Active, Told, PartyDocs, EventDocs

-----------------------------------------------------------------------------
(* What the steps are made of.                                             *)

\* What a call reads.
LEMMA ReadDoc ==
    ASSUME Stored, NEW c \in DOMAIN parties
    PROVE  Read(c) \in SeenDocs /\ parties[c] \in PartyDocs /\ c \in PartyIds
BY DEF Stored, Read, Seen, SeenDocs, PartyDocs

LEMMA OwnParty ==
    ASSUME NEW p, NEW c \in PartyOf(p)
    PROVE  c \in DOMAIN parties /\ p \in parties[c].members
BY DEF PartyOf

\* A call begins, goes on, is over or fails.
LEMMA BeginActive ==
    ASSUME Active, NEW a \in Actors, NEW call, CallOK(call), Begin(a, call)
    PROVE  Active'
<1>1. call \in CallDocs
  BY DEF CallOK, CallDoc
<1> QED
  BY <1>1 DEF Active, Begin, Put

LEMMA GoActive ==
    ASSUME Active, NEW a \in DOMAIN calls, NEW call, NEW at,
           CallDoc(call), Ready(call, at), Go(a, call, at)
    PROVE  Active'
<1>1. [call EXCEPT !.at = at] \in CallDocs
  BY DEF CallDoc, Ready, CallDocs
<1>2. CallOK([call EXCEPT !.at = at])
  BY <1>1 DEF CallOK, CallDoc, Ready, CallDocs
<1>3. calls' = [calls EXCEPT ![a] = [call EXCEPT !.at = at]]
  BY DEF Go
<1> HIDE DEF CallOK
<1> QED
  BY <1>1, <1>2, <1>3 DEF Active

LEMMA EndActive ==
    ASSUME Active, NEW S, calls' = Without(calls, S)
    PROVE  Active'
BY DEF Active, Without

LEMMA ReturnActive ==
    ASSUME Active, NEW a, Return(a)
    PROVE  Active'
BY EndActive DEF Return

\* A party that the indexes allow is written.
LEMMA IndexedWrite ==
    ASSUME Stored, Unique, NEW c \in PartyIds, NEW party \in PartyDocs, Indexed(c, party),
           \/ parties' = Put(parties, c, party)
           \/ c \in DOMAIN parties /\ parties' = [parties EXCEPT ![c] = party]
    PROVE  /\ parties' \in [DOMAIN parties' -> PartyDocs] /\ DOMAIN parties' \subseteq PartyIds
           /\ Unique'
<1>1. /\ DOMAIN parties' = DOMAIN parties \cup {c}
      /\ parties' \in [DOMAIN parties' -> PartyDocs]
      /\ parties'[c] = party
      /\ \A d \in DOMAIN parties \ {c} : parties'[d] = parties[d]
  BY DEF Stored, Put
<1> QED
  BY <1>1 DEF Stored, Unique, Indexed

\* What is written has the leaders and members that were there before.
LEMMA SameMembers ==
    ASSUME Stored, Unique, DOMAIN parties' \subseteq DOMAIN parties,
           parties' \in [DOMAIN parties' -> PartyDocs],
           \A c \in DOMAIN parties' : /\ parties'[c].leader = parties[c].leader
                                      /\ parties'[c].members = parties[c].members
    PROVE  DOMAIN parties' \subseteq PartyIds /\ Unique'
BY DEF Stored, Unique

Elsewhere == UNCHANGED <<online, connections, aside>>

LEMMA ElsewhereAround == ASSUME Around, Elsewhere PROVE Around'
BY DEF Around, Elsewhere, aside

-----------------------------------------------------------------------------
(* Type correctness and unique parties, action by action.                  *)

LEMMA TypeRequests ==
    ASSUME TypeInv, NEW p \in Players, NEW q \in Players, NEW open \in BOOLEAN,
           \/ LeaveParty(p) \/ KickPlayer(p, q) \/ JoinParty(p, q) \/ SetPartyLeader(p, q)
           \/ SetOpenParty(p, open)
    PROVE  TypeInv'
<1>1. UNCHANGED <<parties, invites, events, online, connections, heard, aside>>
  BY DEF LeaveParty, KickPlayer, JoinParty, SetPartyLeader, SetOpenParty
<1>2. PICK c \in PartyOf(p) :
         \/ Begin(p, Call("leave", "removeMember", p, Read(c)))
         \/ Begin(p, [Call("kick", "findParty", q, Read(c)) EXCEPT !.into = c])
         \/ Begin(p, [Call("join", "findTarget", p, Read(c)) EXCEPT !.other = q])
         \/ Begin(p, [Call("setLeader", "setLeader", p, Read(c)) EXCEPT !.other = q])
         \/ Begin(p, Call(IF open THEN "open" ELSE "close", "setOpen", p, Read(c)))
  BY DEF LeaveParty, KickPlayer, JoinParty, SetPartyLeader, SetOpenParty
<1>3. Read(c) \in SeenDocs /\ c \in PartyIds
  BY OwnParty, ReadDoc DEF TypeInv
<1>4. /\ CallOK(Call("leave", "removeMember", p, Read(c)))
      /\ CallOK([Call("kick", "findParty", q, Read(c)) EXCEPT !.into = c])
      /\ CallOK([Call("join", "findTarget", p, Read(c)) EXCEPT !.other = q])
      /\ CallOK([Call("setLeader", "setLeader", p, Read(c)) EXCEPT !.other = q])
      /\ CallOK(Call(IF open THEN "open" ELSE "close", "setOpen", p, Read(c)))
  BY <1>3 DEF CallOK, CallDoc, Ready, CallDocs, Call, Ops, Steps, OpsAt, Uninformed
<1>5. Active'
  BY <1>2, <1>4, BeginActive DEF TypeInv, Actors
<1> QED
  BY <1>1, <1>5 DEF TypeInv, Stored, Unique, Around, Told, aside

LEMMA TypeEmptyParty ==
    ASSUME TypeInv, NEW a \in Players \cup {"admin"}, NEW c \in DOMAIN parties, EmptyParty(a, c)
    PROVE  TypeInv'
<1>1. UNCHANGED <<parties, invites, events, online, connections, heard, aside>>
  BY DEF EmptyParty
<1>2. Read(c) \in SeenDocs /\ parties[c] \in PartyDocs
  BY ReadDoc DEF TypeInv
<1>3. CallOK([Call("empty", "setMembers", parties[c].leader, Read(c)) EXCEPT
                 !.todo = parties[c].members \ {parties[c].leader}])
  BY <1>2 DEF CallOK, CallDoc, Ready, CallDocs, Call, Ops, Steps, OpsAt, Uninformed, PartyDocs
<1>4. Active'
  BY <1>3, BeginActive DEF TypeInv, Actors, EmptyParty
<1> QED
  BY <1>1, <1>4 DEF TypeInv, Stored, Unique, Around, Told, aside

LEMMA TypeInvites ==
    ASSUME TypeInv,
           \/ \E p, q \in Players : InvitePlayer(p, q)
           \/ \E p \in Players, allow \in BOOLEAN : UpdatePartySettings(p, allow)
           \/ \E i \in invites : InviteExpires(i)
    PROVE  TypeInv'
<1>1. UNCHANGED <<parties, events, online, connections, calls, heard, hurt, failures>>
  BY DEF InvitePlayer, UpdatePartySettings, InviteExpires, aside
<1>2. invites' \subseteq PartyIds \X Players
  BY OwnParty DEF TypeInv, Stored, InvitePlayer, UpdatePartySettings, InviteExpires, CreateInvite
<1>3. memberInvites' \subseteq StoredSettings
  BY DEF TypeInv, Stored, InvitePlayer, UpdatePartySettings, InviteExpires, aside,
         ReplaceSettings, HasSettings
<1> QED
  BY <1>1, <1>2, <1>3 DEF TypeInv, Stored, Unique, Around, Active, Told

LEMMA TypeEventRequests ==
    ASSUME TypeInv, NEW e \in EventIds,
           \/ \E p \in Players : CreateEvent(e, p)
           \/ StartTimePasses(e) \/ UpdateEvent(e) \/ DisplayEvent(e) \/ StartEvent(e)
           \/ DeleteEvent(e)
    PROVE  TypeInv'
<1>1. UNCHANGED <<parties, invites, online, connections, heard, aside>>
  BY DEF CreateEvent, StartTimePasses, UpdateEvent, DisplayEvent, StartEvent, DeleteEvent
<1>2. e \in DOMAIN events => events[e] \in EventDocs
  BY DEF TypeInv, Stored
<1>3. events' \in [DOMAIN events' -> EventDocs] /\ DOMAIN events' \subseteq EventIds
  <2>1. ASSUME NEW p \in Players, CreateEvent(e, p)
        PROVE  events' \in [DOMAIN events' -> EventDocs] /\ DOMAIN events' \subseteq EventIds
    <3>1. [owner |-> p, when |-> "later", displayed |-> FALSE, party |-> {}] \in EventDocs
      BY DEF EventDocs
    <3> QED
      BY <2>1, <3>1 DEF CreateEvent, InsertEvent, TypeInv, Stored, Put
  <2>2. ASSUME NEW when \in {"later", "due", "started"}, e \in DOMAIN events,
               events' = events \/ SetTime(e, when) \/ MarkDisplayed(e)
        PROVE  events' \in [DOMAIN events' -> EventDocs] /\ DOMAIN events' \subseteq EventIds
    <3>1. /\ [events[e] EXCEPT !.when = when] \in EventDocs
          /\ [events[e] EXCEPT !.displayed = TRUE] \in EventDocs
      BY <1>2, <2>2 DEF EventDocs
    <3> QED
      BY <2>2, <3>1 DEF TypeInv, Stored, SetTime, MarkDisplayed
  <2> QED
    BY <2>1, <2>2 DEF StartTimePasses, UpdateEvent, DisplayEvent, StartEvent, DeleteEvent
<1>4. Active'
  <2>1. CASE StartEvent(e)
    <3>1. CallOK([Call("start", "findOwnerParty", events[e].owner, None) EXCEPT !.into = e])
      BY <1>2, <2>1 DEF StartEvent, CallOK, CallDoc, Ready, CallDocs, Call, Ops, Steps, OpsAt, Uninformed, EventDocs
    <3> QED
      BY <2>1, <3>1, BeginActive DEF StartEvent, TypeInv, Actors
  <2>2. CASE DeleteEvent(e)
    <3>1. CallOK([Call("deleteEvent", "deleteEvent", None, None) EXCEPT
                          !.into = e, !.todo = events[e].party])
      BY <1>2, <2>2 DEF DeleteEvent, CallOK, CallDoc, Ready, CallDocs, Call, Ops, Steps, OpsAt, Uninformed, EventDocs
    <3> QED
      BY <2>2, <3>1, BeginActive DEF DeleteEvent, TypeInv, Actors
  <2> QED
    BY <2>1, <2>2 DEF TypeInv, Active, CreateEvent, StartTimePasses, UpdateEvent, DisplayEvent
<1> QED
  BY <1>1, <1>3, <1>4 DEF TypeInv, Stored, Unique, Around, Told, aside

LEMMA TypeConnections ==
    ASSUME TypeInv,
           \/ \E p \in Players : PlayerConnects(p) \/ PlayerDisconnects(p)
           \/ HandlePlayerConnect \/ HandlePlayerDisconnect
    PROVE  TypeInv'
<1> DEFINE Types == [type : {"connect", "disconnect"}, player : Players]
<1>1. ASSUME NEW p \in Players, PlayerConnects(p) \/ PlayerDisconnects(p)
      PROVE  TypeInv'
  <2>1. Connection("connect", p) \in Types /\ Connection("disconnect", p) \in Types
    BY DEF Connection
  <2>2. connections \in Seq(Types) /\ online \subseteq Players
    BY DEF TypeInv, Around
  <2>3. connections' \in Seq(Types)
    <3> HIDE DEF Types
    <3> QED
      BY <1>1, <2>1, <2>2, AppendProperties DEF PlayerConnects, PlayerDisconnects
  <2>4. online' \subseteq Players
    BY <1>1, <2>2 DEF PlayerConnects, PlayerDisconnects
  <2> QED
    BY <1>1, <2>3, <2>4 DEF PlayerConnects, PlayerDisconnects, TypeInv, Stored, Unique, Around, Active,
                      Told, aside
<1>2. ASSUME HandlePlayerConnect \/ HandlePlayerDisconnect
      PROVE  TypeInv'
  <2> DEFINE p == Head(connections).player
  <2>0. connections \in Seq(Types) /\ connections # <<>> /\ connections' = Tail(connections)
    BY <1>2 DEF HandlePlayerConnect, HandlePlayerDisconnect, Consume, TypeInv, Around
  <2>1. connections' \in Seq(Types) /\ p \in Players
    <3> HIDE DEF Types
    <3>1. Tail(connections) \in Seq(Types) /\ Head(connections) \in Types
      BY <2>0, HeadTailProperties
    <3> QED
      BY <2>0, <3>1 DEF Types
  <2>2. /\ UNCHANGED <<parties, invites, events, online, heard, memberInvites, failures>>
        /\ hurt' \subseteq hurt
    BY <1>2 DEF HandlePlayerConnect, HandlePlayerDisconnect, Consume
  <2>3. Active'
    <3>1. CASE HandlePlayerConnect
      <4>1. CallOK(Call("connect", "createParty", p, None))
        BY <2>1 DEF CallOK, CallDoc, Ready, CallDocs, Call, Ops, Steps, OpsAt, Uninformed
      <4>2. CASE UNCHANGED calls
        BY <4>2 DEF TypeInv, Active
      <4> QED
        BY <3>1, <4>1, <4>2, BeginActive DEF HandlePlayerConnect, TypeInv, Actors
    <3>2. CASE HandlePlayerDisconnect
      <4>1. ASSUME NEW c \in PartyOf(p), NEW at \in {"deleteParty", "removeMember"}
            PROVE  CallOK(Call("disconnect", at, p, Read(c)))
        <5>1. Read(c) \in SeenDocs
          BY OwnParty, ReadDoc DEF TypeInv
        <5> QED
          BY <2>1, <5>1 DEF CallOK, CallDoc, Ready, CallDocs, Call, Ops, Steps, OpsAt, Uninformed
      <4>2. CASE UNCHANGED calls
        BY <4>2 DEF TypeInv, Active
      <4>3. ASSUME NEW c \in PartyOf(p),
                   Begin("consumer", Call("disconnect",
                                          IF parties[c].leader = p /\ Cardinality(parties[c].members) < 2
                                          THEN "deleteParty" ELSE "removeMember", p, Read(c)))
            PROVE  Active'
        BY <4>1, <4>3, BeginActive DEF TypeInv, Actors
      <4> QED
        BY <3>2, <4>2, <4>3 DEF HandlePlayerDisconnect
    <3> QED
      BY <1>2, <3>1, <3>2
  <2> QED
    BY <2>1, <2>2, <2>3 DEF TypeInv, Stored, Unique, Around, Told
<1> QED
  BY <1>1, <1>2

LEMMA GoOrReturnActive ==
    ASSUME Active, NEW a \in DOMAIN calls, NEW call, NEW at, GoOrReturn(a, call, at),
           at = "return" \/ (CallDoc(call) /\ Ready(call, at))
    PROVE  Active'
<1>1. CASE at = "return"
  BY <1>1, ReturnActive DEF GoOrReturn
<1>2. CASE at # "return"
  BY <1>2, GoActive DEF GoOrReturn
<1> QED
  BY <1>1, <1>2

LEMMA StepCall ==
    ASSUME Active, NEW a, NEW at, At(a, at)
    PROVE  a \in DOMAIN calls /\ CallDoc(calls[a]) /\ calls[a].at = at /\ Ready(calls[a], at)
BY DEF Active, At, CallOK

\* Steps of JoinPartyByMemberID.
LEMMA TypeFindTarget ==
    ASSUME TypeInv, NEW a, FindTarget(a)
    PROVE  TypeInv'
<1> DEFINE call == calls[a]
<1>1. UNCHANGED <<parties, invites, events, online, connections, heard, aside>>
  BY DEF FindTarget
<1>2. a \in DOMAIN calls /\ CallDoc(call) /\ Ready(call, "findTarget")
  BY StepCall DEF TypeInv, FindTarget
<1>3. Active'
  <2>1. CASE Return(a)
    BY <2>1, ReturnActive DEF TypeInv
  <2>2. ASSUME NEW d \in PartyOf(call.other),
               Go(a, [call EXCEPT !.into = d, !.other = None],
                  IF parties[d].open THEN GiveUp(call) ELSE "deleteInvite")
        PROVE  Active'
    <3>1. d \in PartyIds
      BY OwnParty DEF TypeInv, Stored
    <3>2. CallDoc([call EXCEPT !.into = d, !.other = None])
      BY <1>2, <3>1 DEF CallDoc, CallDocs, Ready, OpsAt
    <3>3. \A at \in {"deleteInvite", "deleteParty", "findParty"} :
             Ready([call EXCEPT !.into = d, !.other = None], at)
      BY <1>2 DEF CallDoc, CallDocs, Ready, OpsAt, Steps, Uninformed
    <3>4. (IF parties[d].open THEN GiveUp(call) ELSE "deleteInvite")
             \in {"deleteInvite", "deleteParty", "findParty"}
      BY DEF GiveUp
    <3> QED
      BY <1>2, <2>2, <3>2, <3>3, <3>4, GoActive DEF TypeInv
  <2> QED
    BY <2>1, <2>2 DEF FindTarget
<1> QED
  BY <1>1, <1>3 DEF TypeInv, Stored, Unique, Around, Told, aside

LEMMA TypeDeleteInvite ==
    ASSUME TypeInv, NEW a, DeleteInvite(a)
    PROVE  TypeInv'
<1> DEFINE call == calls[a]
<1>1. UNCHANGED <<parties, events, online, connections, heard, aside>> /\ invites' \subseteq invites
  BY DEF DeleteInvite
<1>2. a \in DOMAIN calls /\ CallDoc(call) /\ Ready(call, "deleteInvite")
  BY StepCall DEF TypeInv, DeleteInvite
<1>3. Active'
  <2>1. \A at \in {"deleteParty", "findParty"} : Ready(call, at)
    BY <1>2 DEF CallDoc, CallDocs, Ready, OpsAt, Steps, Uninformed
  <2>2. GiveUp(call) \in {"deleteParty", "findParty"}
    BY DEF GiveUp
  <2> QED
    BY <1>2, <2>1, <2>2, ReturnActive, GoActive DEF TypeInv, DeleteInvite
<1> QED
  BY <1>1, <1>3 DEF TypeInv, Stored, Unique, Around, Told, aside

LEMMA TypeAddMember ==
    ASSUME TypeInv, NEW a, AddMember(a)
    PROVE  TypeInv'
<1> DEFINE c == calls[a].into
           p == calls[a].who
           joined == [parties[c] EXCEPT !.members = @ \cup {p}]
<1>1. UNCHANGED <<invites, events>> /\ Elsewhere
  BY DEF AddMember, Elsewhere
<1>2. p \in Players
  BY StepCall DEF TypeInv, AddMember, CallDoc, Ready, OpsAt
<1>3. Active'
  BY ReturnActive DEF TypeInv, AddMember
<1>4. CASE UNCHANGED <<parties, heard>>
  BY <1>1, <1>3, <1>4, ElsewhereAround DEF TypeInv, Stored, Unique, Told, Elsewhere, aside
<1>5. CASE /\ c \in DOMAIN parties /\ Indexed(c, joined)
           /\ parties' = Put(parties, c, joined) /\ heard' = HeardJoined(c, p)
  <2>1. joined \in PartyDocs /\ c \in PartyIds
    BY <1>2, <1>5, ReadDoc DEF TypeInv, PartyDocs
  <2>2. Told'
    BY <1>5 DEF TypeInv, Told, HeardJoined
  <2> HIDE DEF joined
  <2>3. parties' \in [DOMAIN parties' -> PartyDocs] /\ DOMAIN parties' \subseteq PartyIds /\ Unique'
    BY <1>5, <2>1, IndexedWrite DEF TypeInv
  <2> QED
    BY <1>1, <1>3, <2>2, <2>3, ElsewhereAround DEF TypeInv, Stored, Elsewhere, aside
<1> QED
  BY <1>4, <1>5 DEF AddMember

LEMMA TypeDeleteOwnParty ==
    ASSUME TypeInv, NEW a, DeleteOwnParty(a)
    PROVE  TypeInv'
<1> DEFINE call == calls[a]
           c == call.seen.id
<1>1. UNCHANGED <<invites, events>> /\ Elsewhere
  BY DEF DeleteOwnParty, Elsewhere
<1>2. a \in DOMAIN calls /\ CallDoc(call) /\ Ready(call, "deleteParty")
  BY StepCall DEF TypeInv, DeleteOwnParty
<1>3. CASE Return(a) /\ UNCHANGED <<parties, heard>>
  BY <1>1, <1>3, ElsewhereAround, ReturnActive DEF TypeInv, Stored, Unique, Told, Elsewhere, aside
<1>4. CASE /\ parties' = Without(parties, {c})
           /\ IF call.op = "join"
              THEN Go(a, call, "addMember") /\ heard' = Without(heard, {c})
              ELSE Go(a, call, "deleteInvites") /\ UNCHANGED heard
  <2>1. /\ DOMAIN parties' = DOMAIN parties \ {c}
        /\ \A d \in DOMAIN parties' : parties'[d] = parties[d]
        /\ parties' \in [DOMAIN parties' -> PartyDocs]
    BY <1>4 DEF Without, TypeInv, Stored
  <2>2. DOMAIN parties' \subseteq PartyIds /\ Unique'
    BY <2>1, SameMembers DEF TypeInv
  <2>3. Told'
    BY <1>4 DEF TypeInv, Told, Without
  <2>4. IF call.op = "join" THEN Ready(call, "addMember") ELSE Ready(call, "deleteInvites")
    BY <1>2 DEF Ready, OpsAt, Steps, Uninformed
  <2>5. Active'
    BY <1>2, <1>4, <2>4, GoActive DEF TypeInv
  <2> QED
    BY <1>1, <2>1, <2>2, <2>3, <2>5, ElsewhereAround DEF TypeInv, Stored, Elsewhere, aside
<1> QED
  BY <1>3, <1>4 DEF DeleteOwnParty

\* Steps of RemovePlayerFromParty.
LEMMA TypeFindParty ==
    ASSUME TypeInv, NEW a, FindParty(a)
    PROVE  TypeInv'
<1> DEFINE call == calls[a]
<1>1. UNCHANGED <<parties, invites, events, online, connections, heard, aside>>
  BY DEF FindParty
<1>2. a \in DOMAIN calls /\ CallDoc(call) /\ Ready(call, "findParty")
  BY StepCall DEF TypeInv, FindParty
<1>3. Active'
  <2>1. CASE Return(a)
    BY <2>1, ReturnActive DEF TypeInv
  <2>2. ASSUME NEW c \in PartyOf(call.who), Go(a, [call EXCEPT !.seen = Read(c)], "removeMember")
        PROVE  Active'
    <3>1. Read(c) \in SeenDocs
      BY OwnParty, ReadDoc DEF TypeInv
    <3>2. CallDoc([call EXCEPT !.seen = Read(c)]) /\ Ready([call EXCEPT !.seen = Read(c)], "removeMember")
      BY <1>2, <3>1 DEF CallDoc, CallDocs, Ready, OpsAt, Steps, Uninformed
    <3> QED
      BY <1>2, <2>2, <3>2, GoActive DEF TypeInv
  <2> QED
    BY <2>1, <2>2 DEF FindParty
<1> QED
  BY <1>1, <1>3 DEF TypeInv, Stored, Unique, Around, Told, aside

\* Where a call goes on when the player is removed is a step of it.
LEMMA RemovedReady ==
    ASSUME NEW call, CallDoc(call), call.op \in OpsAt("setLeader"), call.seen \in SeenDocs
    PROVE  Removed(call.op) = "return" \/ Ready(call, Removed(call.op))
BY DEF Removed, Ready, OpsAt, Steps, Uninformed

LEMMA TypeRemoveMember ==
    ASSUME TypeInv, NEW a, RemoveMember(a)
    PROVE  TypeInv'
<1> DEFINE call == calls[a]
           c == call.seen.id
           left == [parties[c] EXCEPT !.members = @ \ {call.who}]
<1>1. UNCHANGED <<invites, events>> /\ Elsewhere
  BY DEF RemoveMember, Elsewhere
<1>2. a \in DOMAIN calls /\ CallDoc(call) /\ Ready(call, "removeMember") /\ call.seen \in SeenDocs
  BY StepCall DEF TypeInv, RemoveMember, Ready, Uninformed
<1>3. CASE Return(a) /\ UNCHANGED <<parties, heard>>
  BY <1>1, <1>3, ElsewhereAround, ReturnActive DEF TypeInv, Stored, Unique, Told, Elsewhere, aside
<1>4. CASE /\ c \in DOMAIN parties /\ Indexed(c, left)
           /\ parties' = [parties EXCEPT ![c].members = @ \ {call.who}]
           /\ heard' = HeardLeft(c, call.who)
           /\ \E q \in Successors(call.seen, call.who) :
                 IF q = None THEN GoOrReturn(a, call, Removed(call.op))
                 ELSE Go(a, [call EXCEPT !.other = q], "setLeader")
  <2>1. left \in PartyDocs /\ c \in PartyIds /\ parties' = [parties EXCEPT ![c] = left]
    BY <1>4, ReadDoc DEF TypeInv, PartyDocs
  <2>2. Told'
    BY <1>4 DEF TypeInv, Told, HeardLeft
  <2>3. parties' \in [DOMAIN parties' -> PartyDocs] /\ DOMAIN parties' \subseteq PartyIds /\ Unique'
    <3> HIDE DEF left
    <3> QED
      BY <1>4, <2>1, IndexedWrite DEF TypeInv
  <2>4. Active'
    <3>1. PICK q \in Successors(call.seen, call.who) :
                 IF q = None THEN GoOrReturn(a, call, Removed(call.op))
                 ELSE Go(a, [call EXCEPT !.other = q], "setLeader")
      BY <1>4
    <3>2. CASE q = None
      <4>1. Removed(call.op) = "return" \/ Ready(call, Removed(call.op))
        BY <1>2, RemovedReady DEF Ready, OpsAt
      <4> QED
        BY <1>2, <3>1, <3>2, <4>1, GoOrReturnActive DEF TypeInv
    <3>3. CASE q # None
      <4>1. q \in Players
        BY <1>2, <3>3 DEF Successors, SeenDocs
      <4>2. CallDoc([call EXCEPT !.other = q]) /\ Ready([call EXCEPT !.other = q], "setLeader")
        BY <1>2, <4>1 DEF CallDoc, CallDocs, Ready, OpsAt, Steps, Uninformed
      <4> QED
        BY <1>2, <3>1, <3>3, <4>2, GoActive DEF TypeInv
    <3> QED
      BY <3>2, <3>3
  <2> QED
    BY <1>1, <2>2, <2>3, <2>4, ElsewhereAround DEF TypeInv, Stored, Elsewhere, aside
<1> QED
  BY <1>3, <1>4 DEF RemoveMember

LEMMA TypeSetLeader ==
    ASSUME TypeInv, NEW a, SetLeader(a)
    PROVE  TypeInv'
<1> DEFINE call == calls[a]
           c == call.seen.id
           led == [parties[c] EXCEPT !.leader = call.other]
           after == [call EXCEPT !.other = None]
<1>1. UNCHANGED <<invites, events>> /\ Elsewhere
  BY DEF SetLeader, Elsewhere
<1>2. /\ a \in DOMAIN calls /\ CallDoc(call) /\ Ready(call, "setLeader")
      /\ call.seen \in SeenDocs /\ call.other \in Players
  BY StepCall DEF TypeInv, SetLeader, Ready, Uninformed
<1>3. CASE Return(a) /\ UNCHANGED <<parties, heard>>
  BY <1>1, <1>3, ElsewhereAround, ReturnActive DEF TypeInv, Stored, Unique, Told, Elsewhere, aside
<1>4. CASE /\ c \in DOMAIN parties /\ Indexed(c, led)
           /\ parties' = [parties EXCEPT ![c] = led]
           /\ heard' = HeardLeader(c, call.other)
           /\ GoOrReturn(a, after, Removed(call.op))
  <2>1. led \in PartyDocs /\ c \in PartyIds
    BY <1>2, <1>4, ReadDoc DEF TypeInv, PartyDocs
  <2>2. Told'
    BY <1>4 DEF TypeInv, Told, HeardLeader
  <2>3. parties' \in [DOMAIN parties' -> PartyDocs] /\ DOMAIN parties' \subseteq PartyIds /\ Unique'
    <3> HIDE DEF led
    <3> QED
      BY <1>4, <2>1, IndexedWrite DEF TypeInv
  <2>4. CallDoc(after) /\ after.op = call.op /\ after.seen = call.seen
    BY <1>2 DEF CallDoc, CallDocs
  <2>5. Removed(after.op) = "return" \/ Ready(after, Removed(after.op))
    <3> HIDE DEF after
    <3>1. after.op \in OpsAt("setLeader") /\ after.seen \in SeenDocs
      BY <1>2, <2>4 DEF Ready
    <3> QED
      BY <2>4, <3>1, RemovedReady
  <2>6. Active'
    <3> HIDE DEF after
    <3> QED
      BY <1>2, <1>4, <2>4, <2>5, GoOrReturnActive DEF TypeInv
  <2> QED
    BY <1>1, <2>2, <2>3, <2>6, ElsewhereAround DEF TypeInv, Stored, Elsewhere, aside
<1> QED
  BY <1>3, <1>4 DEF SetLeader

\* CreateParty, wherever it is called.
LEMMA NewIdIsNew ==
    ASSUME PartyIds \ IdsInUse # {}
    PROVE  NewId \in PartyIds /\ NewId \notin IdsInUse
BY DEF NewId

LEMMA TypeCreateParty ==
    ASSUME TypeInv, NEW a \in DOMAIN calls, NEW party \in PartyDocs, NEW told, NEW call, NEW next,
           DOMAIN told \subseteq PartyIds, next = "return" \/ (CallDoc(call) /\ Ready(call, next)),
           CreateParty(a, party, told, call, next)
    PROVE  TypeInv'
<1>1. UNCHANGED <<invites, events>> /\ Elsewhere
  BY DEF CreateParty, Elsewhere
<1>2. NewId \in PartyIds
  BY NewIdIsNew DEF CreateParty
<1>3. CASE /\ Indexed(NewId, party) /\ parties' = Put(parties, NewId, party)
           /\ heard' = HeardParty(NewId, party.leader, told)
           /\ GoOrReturn(a, call, next)
  <2>1. parties' \in [DOMAIN parties' -> PartyDocs] /\ DOMAIN parties' \subseteq PartyIds /\ Unique'
    BY <1>2, <1>3, IndexedWrite DEF TypeInv
  <2>2. Told'
    BY <1>2, <1>3 DEF Told, HeardParty, Put
  <2>3. Active'
    BY <1>3, GoOrReturnActive DEF TypeInv
  <2> QED
    BY <1>1, <2>1, <2>2, <2>3, ElsewhereAround DEF TypeInv, Stored, Elsewhere, aside
<1>4. CASE heard' = told /\ Return(a) /\ UNCHANGED parties
  BY <1>1, <1>4, ElsewhereAround, ReturnActive DEF TypeInv, Stored, Unique, Told, Elsewhere, aside
<1> QED
  BY <1>3, <1>4 DEF CreateParty

LEMMA OwnPartyDoc ==
    ASSUME NEW p \in Players, NEW open \in BOOLEAN
    PROVE  Party(p, open) \in PartyDocs
BY DEF Party, PartyDocs

LEMMA TypeCreateOwnParty ==
    ASSUME TypeInv, NEW a, CreateOwnParty(a)
    PROVE  TypeInv'
<1> DEFINE call == calls[a]
           open == (call.op = "start" /\ call.seen = None)
           party == Party(call.who, open)
           after == IF call.op = "start" THEN [call EXCEPT !.seen = Seen(NewId, party)] ELSE call
<1>1. a \in DOMAIN calls /\ CallDoc(call) /\ Ready(call, "createParty") /\ call.who \in Players
  BY StepCall DEF TypeInv, CreateOwnParty, CallDoc, Ready, OpsAt
<1>2. CreateParty(a, party, heard, after, Settled(call))
  BY DEF CreateOwnParty
<1>3. party \in PartyDocs
  BY <1>1, OwnPartyDoc
<1>4. NewId \in PartyIds
  BY <1>2, NewIdIsNew DEF CreateParty
<1>5. Seen(NewId, party) \in SeenDocs
  BY <1>3, <1>4 DEF Seen, SeenDocs, PartyDocs
<1>6. /\ call.op \in {"leave", "kick", "start", "connect"}
      /\ Settled(call) \in {"createAgain", "setEventParty", "setOpen", "return"}
      /\ Settled(call) = "createAgain" => call.op = "kick"
      /\ Settled(call) \in {"setEventParty", "setOpen"} => call.op = "start"
  BY <1>1 DEF Settled, Ready, OpsAt
<1>7. Settled(call) = "return" \/ (CallDoc(after) /\ Ready(after, Settled(call)))
  <2>1. CASE call.op = "start"
    <3>1. after = [call EXCEPT !.seen = Seen(NewId, party)]
      BY <2>1
    <3> HIDE DEF after, party
    <3>2. CallDoc(after) /\ after.op = "start" /\ after.seen \in SeenDocs
      BY <1>1, <1>5, <2>1, <3>1 DEF CallDoc, CallDocs
    <3> QED
      BY <1>6, <2>1, <3>2 DEF Ready, OpsAt, Steps, Uninformed
  <2>2. CASE call.op # "start"
    BY <1>1, <1>6, <2>2 DEF Ready, OpsAt, Steps, Uninformed
  <2> QED
    BY <2>1, <2>2
<1> HIDE DEF after, party
<1> QED
  BY <1>1, <1>2, <1>3, <1>7, TypeCreateParty DEF TypeInv, Told

LEMMA TypeCreateAgain ==
    ASSUME TypeInv, NEW a, CreateAgain(a)
    PROVE  TypeInv'
<1>1. a \in DOMAIN calls /\ calls[a].who \in Players
  BY StepCall DEF TypeInv, CreateAgain, CallDoc, Ready, OpsAt
<1>2. DOMAIN HeardLeft(calls[a].into, calls[a].who) \subseteq PartyIds
  BY DEF TypeInv, Told, HeardLeft
<1>3. Party(calls[a].who, FALSE) \in PartyDocs
  BY <1>1, OwnPartyDoc
<1>4. CreateParty(a, Party(calls[a].who, FALSE), HeardLeft(calls[a].into, calls[a].who), calls[a], "return")
  BY DEF CreateAgain
<1> QED
  BY <1>1, <1>2, <1>3, <1>4, TypeCreateParty

\* Steps of EmptyParty.
LEMMA TypeSetMembers ==
    ASSUME TypeInv, NEW a, SetMembers(a)
    PROVE  TypeInv'
<1> DEFINE call == calls[a]
           c == call.seen.id
           emptied == [parties[c] EXCEPT !.members = {call.seen.leader}]
<1>1. UNCHANGED <<invites, events, heard>> /\ Elsewhere
  BY DEF SetMembers, Elsewhere
<1>2. a \in DOMAIN calls /\ CallDoc(call) /\ Ready(call, "setMembers") /\ call.seen \in SeenDocs
  BY StepCall DEF TypeInv, SetMembers, Ready, Uninformed
<1>3. Ready(call, "deleteInvites")
  BY <1>2 DEF Ready, OpsAt, Steps, Uninformed
<1>4. Active'
  BY <1>2, <1>3, GoActive, ReturnActive DEF TypeInv, SetMembers
<1>5. CASE UNCHANGED parties
  BY <1>1, <1>4, <1>5, ElsewhereAround DEF TypeInv, Stored, Unique, Told, Elsewhere, aside
<1>6. CASE c \in DOMAIN parties /\ Indexed(c, emptied) /\ parties' = Put(parties, c, emptied)
  <2>1. emptied \in PartyDocs /\ c \in PartyIds
    BY <1>2, <1>6, ReadDoc DEF TypeInv, PartyDocs, SeenDocs
  <2> HIDE DEF emptied
  <2>2. parties' \in [DOMAIN parties' -> PartyDocs] /\ DOMAIN parties' \subseteq PartyIds /\ Unique'
    BY <1>6, <2>1, IndexedWrite DEF TypeInv
  <2> QED
    BY <1>1, <1>4, <2>2, ElsewhereAround DEF TypeInv, Stored, Told, Elsewhere, aside
<1> QED
  BY <1>5, <1>6 DEF SetMembers

LEMMA EmptiedReady ==
    ASSUME NEW call, CallDoc(call), call.op \in {"empty", "start"}, call.seen \in SeenDocs
    PROVE  Emptied(call) = "return" \/ Ready(call, Emptied(call))
BY DEF Emptied, Ready, OpsAt, Steps, Uninformed

LEMMA ToldParty ==
    ASSUME Told, NEW c \in PartyIds, NEW p
    PROVE  DOMAIN HeardParty(c, p, heard) \subseteq PartyIds
BY DEF Told, HeardParty, Put

LEMMA TypeDeleteInvites ==
    ASSUME TypeInv, NEW a, DeleteInvites(a)
    PROVE  TypeInv'
<1> DEFINE call == calls[a]
           c == call.seen.id
<1>1. UNCHANGED <<parties, events>> /\ Elsewhere /\ invites' \subseteq invites
  BY DEF DeleteInvites, Elsewhere, DeleteInvitesTo
<1>2. a \in DOMAIN calls /\ CallDoc(call) /\ Ready(call, "deleteInvites") /\ call.seen \in SeenDocs
  BY StepCall DEF TypeInv, DeleteInvites, Ready, Uninformed
<1>3. call.op \in {"empty", "start", "disconnect"}
  BY <1>2 DEF Ready, OpsAt
<1>4. \/ call.op = "disconnect" /\ Return(a) /\ heard' = Without(heard, {c})
      \/ call.op # "disconnect" /\ Go(a, call, "openEmptied") /\ UNCHANGED heard
      \/ /\ call.op # "disconnect" /\ GoOrReturn(a, call, Emptied(call))
         /\ heard' = HeardParty(c, call.seen.leader, heard)
  BY <1>3 DEF DeleteInvites
<1>5. Active'
  <2>1. call.op # "disconnect" => /\ Ready(call, "openEmptied")
                                  /\ Emptied(call) = "return" \/ Ready(call, Emptied(call))
    BY <1>2, <1>3, EmptiedReady DEF Ready, OpsAt, Steps, Uninformed
  <2> QED
    BY <1>2, <1>4, <2>1, ReturnActive, GoActive, GoOrReturnActive DEF TypeInv
<1>6. Told'
  <2>1. c \in PartyIds
    BY <1>2 DEF SeenDocs
  <2>2. DOMAIN Without(heard, {c}) \subseteq DOMAIN heard
    BY DEF Without
  <2> QED
    BY <1>4, <2>1, <2>2, ToldParty DEF TypeInv, Told
<1> QED
  BY <1>1, <1>5, <1>6, ElsewhereAround DEF TypeInv, Stored, Unique, Elsewhere, aside

LEMMA TypeSetOpen ==
    ASSUME TypeInv, NEW a, NEW at, NEW told, NEW next,
           SetOpen(a, at, told, next), at \notin Uninformed,
           DOMAIN told \subseteq PartyIds, next = "return" \/ Ready(calls[a], next)
    PROVE  TypeInv'
<1> DEFINE call == calls[a]
           c == call.seen.id
<1>1. UNCHANGED <<invites, events>> /\ Elsewhere
  BY DEF SetOpen, Elsewhere
<1>2. a \in DOMAIN calls /\ CallDoc(call)
  BY StepCall DEF TypeInv, SetOpen
<1>3. CASE Return(a) /\ UNCHANGED <<parties, heard>>
  BY <1>1, <1>3, ElsewhereAround, ReturnActive DEF TypeInv, Stored, Unique, Told, Elsewhere, aside
<1>4. CASE /\ c \in DOMAIN parties
           /\ parties' = [parties EXCEPT ![c].open = Opens(call.op)]
           /\ heard' = told
           /\ GoOrReturn(a, call, next)
  <2>1. Opens(call.op) \in BOOLEAN
    BY DEF Opens
  <2>2. [parties[c] EXCEPT !.open = Opens(call.op)] \in PartyDocs
    BY <1>4, <2>1, ReadDoc DEF TypeInv, PartyDocs
  <2>3. /\ parties' \in [DOMAIN parties' -> PartyDocs] /\ DOMAIN parties' = DOMAIN parties
        /\ \A d \in DOMAIN parties' : /\ parties'[d].leader = parties[d].leader
                                      /\ parties'[d].members = parties[d].members
    BY <1>4, <2>2, ReadDoc DEF TypeInv, Stored, PartyDocs
  <2>4. DOMAIN parties' \subseteq PartyIds /\ Unique'
    BY <2>3, SameMembers DEF TypeInv
  <2>5. Active'
    BY <1>2, <1>4, GoOrReturnActive DEF TypeInv
  <2> QED
    BY <1>1, <1>4, <2>3, <2>4, <2>5, ElsewhereAround DEF TypeInv, Stored, Told, Elsewhere, aside
<1> QED
  BY <1>3, <1>4 DEF SetOpen

LEMMA TypeOpenings ==
    ASSUME TypeInv, NEW a, OpenEmptied(a) \/ OpenOrClose(a)
    PROVE  TypeInv'
<1> DEFINE call == calls[a]
<1>1. CASE OpenEmptied(a)
  <2>1. CallDoc(call) /\ Ready(call, "openEmptied") /\ call.seen \in SeenDocs
    BY <1>1, StepCall DEF TypeInv, OpenEmptied, SetOpen, Ready, Uninformed
  <2>2. call.op \in {"empty", "start"} /\ call.seen.id \in PartyIds
    BY <2>1 DEF Ready, OpsAt, SeenDocs
  <2>3. Emptied(call) = "return" \/ Ready(call, Emptied(call))
    BY <2>1, <2>2, EmptiedReady
  <2>4. DOMAIN HeardParty(call.seen.id, call.seen.leader, heard) \subseteq PartyIds
    BY <2>2, ToldParty DEF TypeInv
  <2>5. "openEmptied" \notin Uninformed
    BY DEF Uninformed
  <2> QED
    BY <1>1, <2>3, <2>4, <2>5, TypeSetOpen DEF OpenEmptied
<1>2. CASE OpenOrClose(a)
  <2>1. CallDoc(call) /\ Ready(call, "setOpen") /\ call.seen \in SeenDocs
    BY <1>2, StepCall DEF TypeInv, OpenOrClose, SetOpen, Ready, Uninformed
  <2>2. call.op = "start" => Ready(call, "setEventParty")
    BY <2>1 DEF Ready, OpsAt, Steps, Uninformed
  <2>3. "setOpen" \notin Uninformed
    BY DEF Uninformed
  <2> QED
    BY <1>2, <2>2, <2>3, TypeSetOpen DEF OpenOrClose, TypeInv, Told
<1> QED
  BY <1>1, <1>2

LEMMA TypeRecreate ==
    ASSUME TypeInv, NEW a, Recreate(a)
    PROVE  TypeInv'
<1>1. /\ a \in DOMAIN calls /\ CallDoc(calls[a]) /\ calls[a].seen \in SeenDocs
      /\ calls[a].op \in {"empty", "start"}
  BY StepCall DEF TypeInv, Recreate, Ready, OpsAt, Uninformed
<1>2. PICK p \in calls[a].todo :
         LET call == [calls[a] EXCEPT !.todo = @ \ {p}]
         IN  CreateParty(a, Party(p, FALSE), heard, call, Emptied(call))
  BY DEF Recreate
<1>3. p \in Players
  BY <1>1 DEF CallDoc
<1>4. PICK call : call = [calls[a] EXCEPT !.todo = @ \ {p}]
  OBVIOUS
<1>5. CallDoc(call) /\ call.op = calls[a].op /\ call.seen = calls[a].seen
  BY <1>1, <1>4 DEF CallDoc, CallDocs
<1>6. Emptied(call) = "return" \/ Ready(call, Emptied(call))
  BY <1>1, <1>5, EmptiedReady
<1>7. Party(p, FALSE) \in PartyDocs
  BY <1>3, OwnPartyDoc
<1>8. CreateParty(a, Party(p, FALSE), heard, call, Emptied(call))
  BY <1>2, <1>4
<1> QED
  BY <1>1, <1>5, <1>6, <1>7, <1>8, TypeCreateParty DEF TypeInv, Told

\* Steps of an event.
LEMMA TypeFindOwnerParty ==
    ASSUME TypeInv, NEW a, FindOwnerParty(a)
    PROVE  TypeInv'
<1> DEFINE call == calls[a]
<1>1. UNCHANGED <<parties, invites, events, online, connections, heard, aside>>
  BY DEF FindOwnerParty
<1>2. a \in DOMAIN calls /\ CallDoc(call) /\ Ready(call, "findOwnerParty")
  BY StepCall DEF TypeInv, FindOwnerParty
<1>3. Ready(call, "createParty") /\ Ready(call, "findParty")
  BY <1>2 DEF Ready, OpsAt, Steps, Uninformed
<1>4. ASSUME NEW c \in PartyOf(call.who),
             Go(a, [call EXCEPT !.seen = Read(c), !.todo = parties[c].members \ {call.who}], "setMembers")
      PROVE  Active'
  <2>1. Read(c) \in SeenDocs /\ parties[c].members \subseteq Players
    BY OwnParty, ReadDoc DEF TypeInv, PartyDocs
  <2>2. PICK after : after = [call EXCEPT !.seen = Read(c), !.todo = parties[c].members \ {call.who}]
    OBVIOUS
  <2>3. CallDoc(after) /\ after.op = call.op /\ after.seen \in SeenDocs
    BY <1>2, <2>1, <2>2 DEF CallDoc, CallDocs, Ready, OpsAt
  <2>4. Ready(after, "setMembers")
    BY <1>2, <2>3 DEF Ready, OpsAt, Steps, Uninformed
  <2> QED
    BY <1>2, <1>4, <2>2, <2>3, <2>4, GoActive DEF TypeInv
<1>5. Active'
  BY <1>2, <1>3, <1>4, GoActive DEF TypeInv, FindOwnerParty
<1> QED
  BY <1>1, <1>5 DEF TypeInv, Stored, Unique, Around, Told, aside

LEMMA TypeEventSteps ==
    ASSUME TypeInv, NEW a,
           \/ SetEventParty(a) \/ SetPartyEvent(a) \/ DeleteEventDocument(a) \/ RemovePartyEvent(a)
    PROVE  TypeInv'
<1> DEFINE call == calls[a]
<1>1. CASE SetEventParty(a)
  <2>1. /\ a \in DOMAIN calls /\ CallDoc(call) /\ Ready(call, "setEventParty")
        /\ call.seen.id \in PartyIds
    BY <1>1, StepCall DEF TypeInv, SetEventParty, Ready, Uninformed, SeenDocs
  <2>2. Ready(call, "setPartyEvent")
    BY <2>1 DEF Ready, OpsAt, Steps, Uninformed
  <2>3. Active'
    BY <1>1, <2>1, <2>2, GoActive DEF TypeInv, SetEventParty
  <2>4. events' \in [DOMAIN events' -> EventDocs] /\ DOMAIN events' \subseteq EventIds
    <3>1. CASE call.into \notin DOMAIN events
      BY <1>1, <3>1 DEF SetEventParty, TypeInv, Stored
    <3>2. CASE call.into \in DOMAIN events
      <4>1. [events[call.into] EXCEPT !.party = {call.seen.id}] \in EventDocs
        BY <2>1, <3>2 DEF TypeInv, Stored, EventDocs
      <4> QED
        BY <1>1, <3>2, <4>1 DEF SetEventParty, TypeInv, Stored
    <3> QED
      BY <3>1, <3>2
  <2> QED
    BY <1>1, <2>3, <2>4 DEF SetEventParty, TypeInv, Stored, Unique, Around, Told, aside
<1>2. CASE DeleteEventDocument(a)
  <2>1. a \in DOMAIN calls /\ CallDoc(call) /\ Ready(call, "deleteEvent")
    BY <1>2, StepCall DEF TypeInv, DeleteEventDocument
  <2>2. Ready(call, "removePartyEvent")
    BY <2>1 DEF Ready, OpsAt, Steps, Uninformed
  <2>3. Active'
    BY <1>2, <2>1, <2>2, GoActive, ReturnActive DEF TypeInv, DeleteEventDocument
  <2>4. events' \in [DOMAIN events' -> EventDocs] /\ DOMAIN events' \subseteq EventIds
    BY <1>2 DEF DeleteEventDocument, RemoveEvent, Without, TypeInv, Stored
  <2> QED
    BY <1>2, <2>3, <2>4 DEF DeleteEventDocument, TypeInv, Stored, Unique, Around, Told, aside
<1>3. CASE SetPartyEvent(a) \/ RemovePartyEvent(a)
  <2>1. /\ UNCHANGED <<invites, events, heard>> /\ Elsewhere
        /\ Return(a)
    BY <1>3 DEF SetPartyEvent, RemovePartyEvent, Elsewhere
  <2>2. PICK event, S :
        /\ event \in SUBSET EventIds
        /\ parties' = [c \in DOMAIN parties |->
                          IF c \in S THEN [parties[c] EXCEPT !.event = event] ELSE parties[c]]
    <3>1. CASE RemovePartyEvent(a)
      BY <3>1 DEF RemovePartyEvent
    <3>2. CASE SetPartyEvent(a)
      <4>1. {call.into} \in SUBSET EventIds
        BY <3>2, StepCall DEF TypeInv, SetPartyEvent, CallDoc, Ready, OpsAt
      <4>2. parties' = [c \in DOMAIN parties |->
                           IF c \in {call.seen.id} THEN [parties[c] EXCEPT !.event = {call.into}]
                           ELSE parties[c]]
        BY <3>2 DEF SetPartyEvent, TypeInv, Stored
      <4> QED
        BY <4>1, <4>2
    <3> QED
      BY <1>3, <3>1, <3>2
  <2>3. /\ parties' \in [DOMAIN parties' -> PartyDocs] /\ DOMAIN parties' = DOMAIN parties
        /\ \A d \in DOMAIN parties' : /\ parties'[d].leader = parties[d].leader
                                      /\ parties'[d].members = parties[d].members
    <3>1. ASSUME NEW c \in DOMAIN parties
          PROVE  /\ [parties[c] EXCEPT !.event = event] \in PartyDocs /\ parties[c] \in PartyDocs
                 /\ [parties[c] EXCEPT !.event = event].leader = parties[c].leader
                 /\ [parties[c] EXCEPT !.event = event].members = parties[c].members
      BY <2>2, ReadDoc DEF TypeInv, PartyDocs
    <3> QED
      BY <2>2, <3>1
  <2>4. DOMAIN parties' \subseteq PartyIds /\ Unique'
    BY <2>3, SameMembers DEF TypeInv
  <2> QED
    BY <2>1, <2>3, <2>4, ElsewhereAround, ReturnActive DEF TypeInv, Stored, Told, Elsewhere, aside
<1> QED
  BY <1>1, <1>2, <1>3

LEMMA TypeFailures ==
    ASSUME TypeInv, Crash \/ \E a \in Actors : CallFails(a)
    PROVE  TypeInv'
<1>1. PICK S \in SUBSET DOMAIN calls : Fail(S)
  BY DEF Crash, CallFails
<1>2. \A a \in S : AtStake(calls[a]) \subseteq Players \cup EventIds
  BY DEF TypeInv, Active, CallOK, CallDoc, CallDocs, AtStake, Ops
<1>3. /\ UNCHANGED <<parties, invites, events, online, connections, memberInvites>>
      /\ failures < MaxFailures /\ failures' = failures + 1
      /\ hurt' = hurt \cup UNION {AtStake(calls[a]) : a \in S}
      /\ calls' = Without(calls, S) /\ heard' = Empty
  BY <1>1 DEF Fail
<1>4. hurt' \subseteq Players \cup EventIds
  BY <1>2, <1>3 DEF TypeInv, Around
<1>5. failures' \in 0 .. MaxFailures
  BY <1>3, PartyAssumption DEF TypeInv, Around
<1>6. Active'
  BY <1>3, EndActive DEF TypeInv
<1>7. Told'
  BY <1>3 DEF Told, Empty
<1> QED
  BY <1>3, <1>4, <1>5, <1>6, <1>7 DEF TypeInv, Stored, Unique, Around

LEMMA TypeSteps ==
    ASSUME TypeInv, NEW a, Step(a)
    PROVE  TypeInv'
BY TypeFindTarget, TypeDeleteInvite, TypeAddMember, TypeDeleteOwnParty, TypeFindParty,
   TypeRemoveMember, TypeSetLeader, TypeCreateOwnParty, TypeCreateAgain, TypeSetMembers,
   TypeDeleteInvites, TypeOpenings, TypeRecreate, TypeFindOwnerParty, TypeEventSteps DEF Step

LEMMA TypeInvariance == Spec => []TypeInv
<1>1. Init => TypeInv
  <2> SUFFICES ASSUME Init PROVE TypeInv
    OBVIOUS
  <2>2. DOMAIN Empty = {} /\ \A R : Empty \in [{} -> R]
    BY DEF Empty
  <2>3. Around
    BY PartyAssumption DEF Init, Around
  <2> QED
    BY <2>2, <2>3 DEF Init, TypeInv, Stored, Unique, Active, Told
<1>2. TypeInv /\ [Next]_vars => TypeInv'
  <2> SUFFICES ASSUME TypeInv, [Next]_vars PROVE TypeInv'
    OBVIOUS
  <2>1. CASE Request
    BY <2>1, TypeRequests, TypeEmptyParty, TypeInvites, TypeEventRequests, TypeConnections
       DEF Request
  <2>2. CASE \E a \in Actors : Step(a)
    BY <2>2, TypeSteps
  <2>3. CASE Crash \/ \E a \in Actors : CallFails(a)
    BY <2>3, TypeFailures
  <2>4. CASE UNCHANGED vars
    BY <2>4 DEF vars, aside, TypeInv, Stored, Unique, Around, Active, Told
  <2> QED
    BY <2>1, <2>2, <2>3, <2>4 DEF Next
<1> QED
  BY <1>1, <1>2, PTL DEF Spec

\* However calls interleave and fail, the collections stay well typed and no player
\* is in two parties or leads two: each write of a call is checked against the
\* indexes as they are then, not as they were when the call read.
THEOREM TypeCorrect == Spec => []TypeOK
BY TypeInvariance, TypeInvImplies, PTL

-----------------------------------------------------------------------------
(* Calls that do not overlap.                                              *)

\* One call at a time is under way.
One == \A a, b \in DOMAIN calls : a = b

\* What a call has read is still so.
ReadNow(call) == call.seen.id \in DOMAIN parties /\ call.seen = Read(call.seen.id)

\* The party that a player joins or is kicked from is there, and not the one he gives up.
Joins(call) == call.op = "join" =>
    call.into \in DOMAIN parties /\ call.into # call.seen.id

\* The party that a call has emptied holds its leader, and those who were in it are in none.
HoldsLeader(call) ==
    LET c == call.seen.id
    IN  /\ c \in DOMAIN parties
        /\ parties[c].leader = call.seen.leader /\ parties[c].members = {call.seen.leader}
        /\ \A x \in call.todo : PartyOf(x) = {}
        /\ call.op = "start" => call.who = call.seen.leader

\* What is so of the parties at the step where a call is.
Current(call) ==
    LET c == call.seen.id
        at == call.at
    IN  /\ at = "findTarget" => ReadNow(call) /\ call.who \in call.seen.members
        /\ at \in {"deleteInvite", "removeMember"} =>
              ReadNow(call) /\ call.who \in call.seen.members /\ Joins(call)
        /\ at = "deleteParty" => ReadNow(call) /\ call.seen.members = {call.who} /\ Joins(call)
        /\ at = "findParty" =>
              /\ call.op = "join" => ReadNow(call) /\ call.who \in call.seen.members /\ Joins(call)
              /\ call.op = "start" => \E d \in PartyOf(call.who) : parties[d].leader # call.who
        /\ at = "removeMember" /\ call.op = "start" => call.seen.leader # call.who
        /\ at = "setLeader" /\ call.op # "setLeader" =>
              /\ c \in DOMAIN parties /\ parties[c].leader = call.who /\ PartyOf(call.who) = {}
              /\ call.other \in parties[c].members /\ Joins(call)
              /\ call.op # "start"
        /\ at = "setLeader" /\ call.op = "setLeader" =>
              ReadNow(call) /\ call.other \in call.seen.members /\ call.who = call.seen.leader
        /\ at \in {"createParty", "addMember"} => PartyOf(call.who) = {}
        /\ at = "createAgain" => call.into \notin PartyOf(call.who)
        /\ at = "addMember" => call.into \in DOMAIN parties
        /\ at = "setMembers" => /\ ReadNow(call)
                                /\ call.seen.leader \in call.seen.members
                                /\ call.todo = call.seen.members \ {call.seen.leader}
                                /\ call.op = "start" => call.who = call.seen.leader
        /\ at = "deleteInvites" =>
              IF call.op = "disconnect" THEN c \notin DOMAIN parties
              ELSE HoldsLeader(call) /\ parties[c].open = call.seen.open
        /\ at = "openEmptied" => HoldsLeader(call)
        /\ at = "recreate" => HoldsLeader(call) /\ parties[c].open = Opens(call.op)
        /\ at = "setOpen" => c \in DOMAIN parties
        /\ at = "setOpen" /\ call.op = "start" => parties[c].members = {call.who}
        /\ at = "setEventParty" =>
              c \in DOMAIN parties /\ parties[c].members = {call.who} /\ parties[c].open

Waiting(type, p) == \E i \in 1 .. Len(connections) : connections[i] = Connection(type, p)

\* The last message about a player is about where he is.
Latest(p) == IF p \in online THEN "connect" ELSE "disconnect"

Order ==
    \A i \in 1 .. Len(connections) :
        LET p == connections[i].player
        IN  \E j \in i .. Len(connections) : connections[j] = Connection(Latest(p), p)

\* One who is being disconnected and is on the network is going to be connected.
Leaving == \A a \in DOMAIN calls :
    calls[a].op = "disconnect" /\ calls[a].who \in online => Waiting("connect", calls[a].who)

Sequential == One /\ (\A a \in DOMAIN calls : Current(calls[a])) /\ Order /\ Leaving

\* What may be amiss while a call is at work on it: players in no party, a party whose
\* leader is not in it, a member who is off the network, a party that a listener has not
\* heard the last of, an event that has started and has no party.
Held(call) ==
    CASE call.at \in {"createParty", "addMember"} -> {call.who}
      [] call.at = "setLeader" /\ call.op \notin {"setLeader", "disconnect"} -> {call.who}
      [] call.at \in {"deleteInvites", "openEmptied", "recreate"} /\ call.op # "disconnect" ->
            call.todo
      [] OTHER -> {}

Electing(call) == IF call.at = "setLeader" /\ call.op # "setLeader" THEN {call.seen.id} ELSE {}

Departing(call) == IF call.at = "removeMember" /\ call.op = "disconnect" THEN {call.who} ELSE {}

Untold(call) == IF call.at \in {"deleteInvites", "openEmptied"} THEN {call.seen.id} ELSE {}

Begun(call) == IF call.at # "setPartyEvent" /\ call.op = "start" THEN {call.into} ELSE {}

\* A party led by one who is not in it, and the parties that a player leads.
Absent(c) == parties[c].leader \notin parties[c].members
Leads(p) == {c \in DOMAIN parties : parties[c].leader = p}

\* Nothing is amiss but for these, and for what failures have done to the players in hurt.
EverybodyIn(held) ==
    \A p \in online \ hurt : PartyOf(p) # {} \/ Waiting("connect", p) \/ p \in held

\* An absent leader is in no party, for he was in this one when a call failed.  A second
\* one takes a second failure.
LeadersIn(electing) ==
    /\ \A c \in DOMAIN parties \ electing : Absent(c) => failures > 0 /\ parties[c].leader \in hurt
    /\ \A c \in DOMAIN parties : Absent(c) => PartyOf(parties[c].leader) = {}
    /\ failures <= 1 => \A c, d \in DOMAIN parties \ electing : Absent(c) /\ Absent(d) => c = d

\* The last member of a party without its leader cannot be taken out of it when another
\* such party is empty already.
Stuck(c, electing) == failures > 1 /\ c \notin electing /\ Absent(c)

OthersOnline(electing, departing) ==
    \A c \in DOMAIN parties : \A p \in parties[c].members \ {parties[c].leader} :
        p \in online \cup hurt \cup departing \/ Waiting("disconnect", p) \/ Stuck(c, electing)

ToldParties(untold) == failures = 0 =>
    /\ heard = [c \in DOMAIN heard |-> heard[c]]
    /\ DOMAIN heard \ untold = DOMAIN parties \ untold
    /\ \A c \in DOMAIN parties \ untold :
          heard[c] = [leader |-> parties[c].leader, members |-> parties[c].members]

Started(begun) == failures = 0 =>
    \A e \in DOMAIN events : events[e].when = "started" => events[e].party # {} \/ e \in begun

Fine(held, electing, departing, untold, begun) ==
    /\ EverybodyIn(held) /\ LeadersIn(electing) /\ OthersOnline(electing, departing)
    /\ ToldParties(untold) /\ Started(begun)

\* He who joins a party or hands his own over is on the network, or leaves it after that.
Present(call) ==
    call.op \in {"join", "setLeader"} => call.who \in online \/ Waiting("disconnect", call.who)

\* What the indexes will ask of a call: it takes the last member out of a party only when
\* that is not the leader, and whoever is to get a party leads no other.
Permitted(call) ==
    /\ call.at = "removeMember" =>
          call.seen.members # {call.who} \/ (call.op = "disconnect" /\ call.seen.leader # call.who)
    /\ call.at = "setLeader" /\ call.op = "setLeader" => call.who \in call.seen.members
    /\ call.at = "addMember" => Leads(call.who) = {}
    /\ call.at \in {"deleteInvites", "openEmptied", "recreate"} /\ call.op # "disconnect" =>
          \A x \in call.todo : Leads(x) = {}

FineFor(call) ==
    /\ Fine(Held(call), Electing(call), Departing(call), Untold(call), Begun(call))
    /\ Present(call) /\ Permitted(call)

Contained ==
    /\ DOMAIN calls = {} => Fine({}, {}, {}, {}, {})
    /\ \A a \in DOMAIN calls : FineFor(calls[a])

-----------------------------------------------------------------------------
(* How the one call goes on.                                               *)

LEMMA BeginOne ==
    ASSUME MaxCalls = 1, Active, One, NEW a, NEW call, Idle(a), Begin(a, call)
    PROVE  DOMAIN calls = {} /\ DOMAIN calls' = {a} /\ calls'[a] = call
<1>1. Cardinality(DOMAIN calls) < 1
  BY DEF Idle
<1>2. ASSUME NEW b \in DOMAIN calls PROVE FALSE
  <2>1. DOMAIN calls = {b}
    BY DEF One
  <2>2. Cardinality({b}) = 1
    BY FS_Singleton
  <2> QED
    BY <1>1, <2>1, <2>2
<1> QED
  BY <1>2 DEF Begin, Put

\* What a call that goes on as call is and knows then.
SameCall(a, call) ==
    /\ calls'[a].op = call.op /\ calls'[a].who = call.who /\ calls'[a].seen = call.seen
    /\ calls'[a].into = call.into /\ calls'[a].other = call.other /\ calls'[a].todo = call.todo

LEMMA GoOne ==
    ASSUME Active, One, NEW a \in DOMAIN calls, NEW call, CallDoc(call), NEW at, Go(a, call, at)
    PROVE  DOMAIN calls' = {a} /\ calls'[a].at = at /\ SameCall(a, call)
<1>1. DOMAIN calls = {a}
  BY DEF One
<1>2. calls' = [calls EXCEPT ![a] = [call EXCEPT !.at = at]]
  BY DEF Go
<1>3. call \in CallDocs
  BY DEF CallDoc
<1> QED
  BY <1>1, <1>2, <1>3 DEF Active, CallDocs, SameCall

LEMMA ReturnOne ==
    ASSUME One, NEW a \in DOMAIN calls, Return(a)
    PROVE  DOMAIN calls' = {}
BY DEF One, Return, Without

\* A step of the call: it is over, or the parties are what it needs.
Goes(a) == /\ DOMAIN calls' \subseteq {a}
           /\ a \in DOMAIN calls' => /\ calls'[a].op = calls[a].op /\ calls'[a].who = calls[a].who
                                     /\ Current(calls[a])'

LEMMA GoesOn ==
    ASSUME Sequential, NEW a \in DOMAIN calls, UNCHANGED <<online, connections>>, Goes(a)
    PROVE  Sequential'
<1>1. One' /\ \A b \in DOMAIN calls' : Current(calls[b])'
  BY DEF Goes, One
<1>2. Order'
  BY DEF Sequential, Order, Latest
<1>3. Leaving'
  BY DEF Sequential, Leaving, Goes, Waiting
<1> QED
  BY <1>1, <1>2, <1>3 DEF Sequential

LEMMA Now ==
    ASSUME TypeInv, Sequential, NEW a, NEW at, At(a, at)
    PROVE  /\ a \in DOMAIN calls /\ DOMAIN calls = {a} /\ calls[a].at = at
           /\ CallDoc(calls[a]) /\ Ready(calls[a], at) /\ Current(calls[a])
           /\ Active /\ One
<1>1. a \in DOMAIN calls /\ CallDoc(calls[a]) /\ calls[a].at = at /\ Ready(calls[a], at)
  BY StepCall DEF TypeInv
<1> QED
  BY <1>1 DEF TypeInv, Sequential, One

\* What a call has read of its party, field by field.
LEMMA ReadFields ==
    ASSUME NEW call, ReadNow(call)
    PROVE  LET c == call.seen.id
           IN  /\ c \in DOMAIN parties /\ call.seen.leader = parties[c].leader
               /\ call.seen.members = parties[c].members /\ call.seen.open = parties[c].open
               /\ call.seen.event = parties[c].event
BY DEF ReadNow, Read, Seen

\* A player is in one party.
LEMMA OneParty ==
    ASSUME TypeInv, NEW p, NEW c \in PartyOf(p)
    PROVE  PartyOf(p) = {c}
BY DEF TypeInv, Unique, PartyOf

LEMMA OnlyMember ==
    ASSUME NEW members \in SUBSET Players, NEW p \in members, Cardinality(members) < 2
    PROVE  members = {p}
<1>1. IsFiniteSet(members) /\ Cardinality(members) \in Nat
  BY PartyAssumption, FS_Subset, FS_CardinalityType
<1>2. Cardinality(members) = 1
  BY <1>1, FS_EmptySet
<1>3. PICK x : members = {x}
  BY <1>1, <1>2, FS_Singleton
<1> QED
  BY <1>3

-----------------------------------------------------------------------------
(* What a call needs at its next step is so, step by step.                 *)

LEMMA SeqFindTarget ==
    ASSUME TypeInv, Sequential, NEW a, FindTarget(a)
    PROVE  Goes(a)
<1> DEFINE call == calls[a]
<1>1. /\ a \in DOMAIN calls /\ CallDoc(call) /\ Ready(call, "findTarget")
      /\ ReadNow(call) /\ call.who \in call.seen.members /\ Active /\ One
  BY Now DEF FindTarget, Current
<1>2. call.seen \in SeenDocs /\ call.op = "join" /\ call \in CallDocs
  BY <1>1 DEF CallDoc, Ready, OpsAt, Uninformed
<1>3. CASE Return(a)
  BY <1>1, <1>3, ReturnOne DEF Goes
<1>4. ASSUME NEW d \in PartyOf(call.other) \ {call.seen.id}, NEW at,
             at = IF parties[d].open THEN GiveUp(call) ELSE "deleteInvite",
             Go(a, [call EXCEPT !.into = d, !.other = None], at)
      PROVE  Goes(a)
  <2>1. PICK next : next = [call EXCEPT !.into = d, !.other = None]
    OBVIOUS
  <2>2. d \in DOMAIN parties /\ d \in PartyIds
    BY OwnParty DEF TypeInv, Stored
  <2>3. /\ CallDoc(next) /\ next.into = d /\ next.op = call.op /\ next.who = call.who
        /\ next.seen = call.seen
    BY <1>1, <1>2, <2>1, <2>2 DEF CallDoc, CallDocs
  <2>4. DOMAIN calls' = {a} /\ calls'[a].at = at /\ SameCall(a, next)
    BY <1>1, <1>4, <2>1, <2>3, GoOne
  <2>5. at \in {"deleteInvite", "findParty", "deleteParty"}
    BY <1>4 DEF GiveUp
  <2>6. at = "deleteParty" => call.seen.members = {call.who}
    BY <1>1, <1>2, <1>4, OnlyMember DEF GiveUp, SeenDocs
  <2>7. ReadNow(calls[a])' /\ Joins(calls[a])'
    BY <1>1, <2>2, <2>3, <2>4 DEF FindTarget, ReadNow, Read, Joins, SameCall
  <2>8. Current(calls[a])'
    BY <1>1, <1>2, <2>3, <2>4, <2>5, <2>6, <2>7 DEF Current, SameCall
  <2> QED
    BY <2>3, <2>4, <2>8 DEF Goes, SameCall
<1> QED
  BY <1>3, <1>4 DEF FindTarget

LEMMA SeqDeleteInvite ==
    ASSUME TypeInv, Sequential, NEW a, DeleteInvite(a)
    PROVE  Goes(a)
<1> DEFINE call == calls[a]
<1>1. /\ a \in DOMAIN calls /\ CallDoc(call) /\ Ready(call, "deleteInvite")
      /\ ReadNow(call) /\ call.who \in call.seen.members /\ Joins(call) /\ Active /\ One
  BY Now DEF DeleteInvite, Current
<1>2. call.seen \in SeenDocs /\ call.op = "join"
  BY <1>1 DEF CallDoc, Ready, OpsAt, Uninformed
<1>3. CASE Return(a)
  BY <1>1, <1>3, ReturnOne DEF Goes
<1>4. CASE Go(a, call, GiveUp(call))
  <2>1. DOMAIN calls' = {a} /\ calls'[a].at = GiveUp(call) /\ SameCall(a, call)
    BY <1>1, <1>4, GoOne
  <2>2. GiveUp(call) \in {"findParty", "deleteParty"}
    BY DEF GiveUp
  <2>3. GiveUp(call) = "deleteParty" => call.seen.members = {call.who}
    BY <1>1, <1>2, OnlyMember DEF GiveUp, SeenDocs
  <2>4. ReadNow(calls[a])' /\ Joins(calls[a])'
    BY <1>1, <2>1 DEF DeleteInvite, ReadNow, Read, Joins, SameCall
  <2>5. Current(calls[a])'
    BY <1>1, <1>2, <2>1, <2>2, <2>3, <2>4 DEF Current, SameCall
  <2> QED
    BY <2>1, <2>5 DEF Goes, SameCall
<1> QED
  BY <1>3, <1>4 DEF DeleteInvite

LEMMA SeqDeleteOwnParty ==
    ASSUME TypeInv, Sequential, NEW a, DeleteOwnParty(a)
    PROVE  Goes(a)
<1> DEFINE call == calls[a]
           c == call.seen.id
<1>1. /\ a \in DOMAIN calls /\ CallDoc(call) /\ Ready(call, "deleteParty")
      /\ ReadNow(call) /\ call.seen.members = {call.who} /\ Joins(call) /\ Active /\ One
  BY Now DEF DeleteOwnParty, Current
<1>2. call.op \in {"join", "disconnect"}
  BY <1>1 DEF Ready, OpsAt
<1>3. c \in DOMAIN parties /\ parties[c].members = {call.who}
  BY <1>1, ReadFields
<1>4. parties' = Without(parties, {c})
  BY <1>3 DEF DeleteOwnParty
<1>5. /\ DOMAIN parties' = DOMAIN parties \ {c}
      /\ \A d \in DOMAIN parties' : parties'[d] = parties[d]
  BY <1>4 DEF Without
<1>6. CASE call.op = "join"
  <2>1. Go(a, call, "addMember")
    BY <1>3, <1>6 DEF DeleteOwnParty
  <2>2. DOMAIN calls' = {a} /\ calls'[a].at = "addMember" /\ SameCall(a, call)
    BY <1>1, <2>1, GoOne
  <2>3. PartyOf(call.who) = {c}
    BY <1>3, OneParty DEF PartyOf
  <2>4. PartyOf(calls[a].who)' = {}
    BY <1>5, <2>2, <2>3 DEF PartyOf, SameCall
  <2>5. call.into \in DOMAIN parties'
    BY <1>1, <1>5, <1>6 DEF Joins
  <2>6. Current(calls[a])'
    BY <2>2, <2>4, <2>5 DEF Current, SameCall
  <2> QED
    BY <2>2, <2>6 DEF Goes, SameCall
<1>7. CASE call.op = "disconnect"
  <2>1. Go(a, call, "deleteInvites")
    BY <1>3, <1>7 DEF DeleteOwnParty
  <2>2. DOMAIN calls' = {a} /\ calls'[a].at = "deleteInvites" /\ SameCall(a, call)
    BY <1>1, <2>1, GoOne
  <2>3. Current(calls[a])'
    BY <1>5, <1>7, <2>2 DEF Current, SameCall
  <2> QED
    BY <2>2, <2>3 DEF Goes, SameCall
<1> QED
  BY <1>2, <1>6, <1>7

LEMMA SeqFindParty ==
    ASSUME TypeInv, Sequential, NEW a, FindParty(a)
    PROVE  Goes(a)
<1> DEFINE call == calls[a]
<1>1. /\ a \in DOMAIN calls /\ CallDoc(call) /\ Ready(call, "findParty")
      /\ Current(call) /\ call.at = "findParty" /\ Active /\ One
  BY Now DEF FindParty
<1>2. call.op \in {"join", "kick", "start"} /\ call \in CallDocs
  BY <1>1 DEF Ready, OpsAt, CallDoc
<1>3. CASE Return(a)
  BY <1>1, <1>3, ReturnOne DEF Goes
<1>4. ASSUME NEW c \in PartyOf(call.who), Go(a, [call EXCEPT !.seen = Read(c)], "removeMember")
      PROVE  Goes(a)
  <2>1. PICK next : next = [call EXCEPT !.seen = Read(c)]
    OBVIOUS
  <2>2. Read(c) \in SeenDocs /\ c \in DOMAIN parties /\ call.who \in parties[c].members
    BY OwnParty, ReadDoc DEF TypeInv
  <2>3. /\ CallDoc(next) /\ next.into = call.into /\ next.op = call.op /\ next.who = call.who
        /\ next.seen = Read(c)
    BY <1>1, <1>2, <2>1, <2>2 DEF CallDoc, CallDocs
  <2>4. DOMAIN calls' = {a} /\ calls'[a].at = "removeMember" /\ SameCall(a, next)
    BY <1>1, <1>4, <2>1, <2>3, GoOne
  <2>5. Read(c).id = c /\ Read(c).members = parties[c].members /\ Read(c).leader = parties[c].leader
    BY DEF Read, Seen
  <2>6. ReadNow(calls[a])'
    BY <2>2, <2>3, <2>4, <2>5 DEF FindParty, ReadNow, Read, SameCall
  <2>7. call.op = "join" => call.into \in DOMAIN parties /\ call.into # c
    <3> SUFFICES ASSUME call.op = "join" PROVE call.into \in DOMAIN parties /\ call.into # c
      OBVIOUS
    <3>1. ReadNow(call) /\ call.who \in call.seen.members /\ Joins(call)
      BY <1>1 DEF Current
    <3>2. call.seen.id \in PartyOf(call.who)
      BY <3>1, ReadFields DEF PartyOf
    <3>3. call.seen.id = c
      BY <3>2, OneParty
    <3> QED
      BY <3>1, <3>3 DEF Joins
  <2>8. call.op = "start" => parties[c].leader # call.who
    BY <1>1, OneParty DEF Current
  <2>9. Current(calls[a])'
    BY <2>2, <2>3, <2>4, <2>5, <2>6, <2>7, <2>8 DEF FindParty, Current, SameCall, Joins
  <2> QED
    BY <2>3, <2>4, <2>9 DEF Goes, SameCall
<1> QED
  BY <1>3, <1>4 DEF FindParty

\* The player is out of party c, and in no other.
LEMMA RemovedFromAll ==
    ASSUME TypeInv, NEW c \in DOMAIN parties, NEW p \in parties[c].members,
           parties' = [parties EXCEPT ![c].members = @ \ {p}]
    PROVE  /\ PartyOf(p)' = {} /\ DOMAIN parties' = DOMAIN parties
           /\ parties'[c].members = parties[c].members \ {p}
           /\ parties'[c].leader = parties[c].leader /\ parties'[c].open = parties[c].open
           /\ parties'[c].event = parties[c].event
           /\ \A d \in DOMAIN parties \ {c} : parties'[d] = parties[d]
<1>1. PartyOf(p) = {c}
  BY OneParty DEF PartyOf
<1>2. parties[c] \in PartyDocs
  BY ReadDoc DEF TypeInv
<1>3. /\ DOMAIN parties' = DOMAIN parties
      /\ parties'[c] = [parties[c] EXCEPT !.members = @ \ {p}]
      /\ \A d \in DOMAIN parties \ {c} : parties'[d] = parties[d]
  BY DEF TypeInv, Stored
<1>4. /\ parties'[c].members = parties[c].members \ {p}
      /\ parties'[c].leader = parties[c].leader /\ parties'[c].open = parties[c].open
      /\ parties'[c].event = parties[c].event
  BY <1>2, <1>3 DEF PartyDocs
<1>5. PartyOf(p)' = {}
  BY <1>1, <1>3, <1>4 DEF PartyOf
<1> QED
  BY <1>3, <1>4, <1>5

LEMMA SeqRemoveMember ==
    ASSUME TypeInv, Sequential, NEW a, RemoveMember(a)
    PROVE  Goes(a)
<1> DEFINE call == calls[a]
           c == call.seen.id
<1>1. /\ a \in DOMAIN calls /\ CallDoc(call) /\ Ready(call, "removeMember")
      /\ ReadNow(call) /\ call.who \in call.seen.members /\ Joins(call)
      /\ call.op = "start" => call.seen.leader # call.who
      /\ Active /\ One
  BY Now DEF RemoveMember, Current
<1>2. /\ call.op \in {"leave", "join", "kick", "start", "disconnect"} /\ call \in CallDocs
      /\ call.seen \in SeenDocs /\ call.who \in Players
  BY <1>1 DEF Ready, OpsAt, CallDoc, Uninformed
<1>3. /\ c \in DOMAIN parties /\ call.who \in parties[c].members
      /\ call.seen.leader = parties[c].leader /\ call.seen.members = parties[c].members
  BY <1>1, ReadFields
<1>4. CASE Return(a)
  BY <1>1, <1>4, ReturnOne DEF Goes
<1> PICK p : p = call.who
  OBVIOUS
<1>5. ASSUME parties' = [parties EXCEPT ![c].members = @ \ {call.who}]
      PROVE  /\ PartyOf(p)' = {} /\ DOMAIN parties' = DOMAIN parties
             /\ parties'[c].members = parties[c].members \ {call.who}
             /\ parties'[c].leader = parties[c].leader
  BY <1>3, <1>5, RemovedFromAll
<1>6. ASSUME NEW q \in Successors(call.seen, call.who), q = None,
             parties' = [parties EXCEPT ![c].members = @ \ {call.who}],
             GoOrReturn(a, call, Removed(call.op))
      PROVE  Goes(a)
  <2>1. Removed(call.op) \in {"createParty", "addMember", "return"}
    BY <1>2 DEF Removed
  <2>2. CASE Removed(call.op) = "return"
    BY <1>1, <1>6, <2>2, ReturnOne DEF GoOrReturn, Goes
  <2>3. CASE Removed(call.op) # "return"
    <3>0. Go(a, call, Removed(call.op))
      BY <1>6, <2>3 DEF GoOrReturn
    <3>1. DOMAIN calls' = {a} /\ calls'[a].at = Removed(call.op) /\ SameCall(a, call)
      BY <1>1, <3>0, GoOne, SMTT(60)
    <3>2. Removed(call.op) = "addMember" => call.op = "join"
      BY <1>2 DEF Removed
    <3>3. PartyOf(calls[a].who)' = {}
      BY <1>5, <1>6, <3>1 DEF SameCall, PartyOf
    <3>4. Current(calls[a])'
      BY <1>1, <1>5, <1>6, <2>1, <2>3, <3>1, <3>2, <3>3 DEF Current, SameCall, Joins
    <3> QED
      BY <3>1, <3>4 DEF Goes, SameCall
  <2> QED
    BY <2>2, <2>3
<1>7. ASSUME NEW q \in Successors(call.seen, call.who), q # None,
             parties' = [parties EXCEPT ![c].members = @ \ {call.who}],
             Go(a, [call EXCEPT !.other = q], "setLeader")
      PROVE  Goes(a)
  <2>1. call.seen.leader = call.who /\ q \in parties[c].members \ {call.who}
    BY <1>3, <1>7 DEF Successors
  <2>2. q \in Players
    BY <1>3, <2>1, ReadDoc DEF TypeInv, PartyDocs
  <2>3. PICK next : next = [call EXCEPT !.other = q]
    OBVIOUS
  <2>4. /\ CallDoc(next) /\ next.other = q /\ next.op = call.op /\ next.who = call.who
        /\ next.seen = call.seen /\ next.into = call.into
    BY <1>1, <1>2, <2>2, <2>3 DEF CallDoc, CallDocs
  <2>5. DOMAIN calls' = {a} /\ calls'[a].at = "setLeader" /\ SameCall(a, next)
    BY <1>1, <1>7, <2>3, <2>4, GoOne
  <2>6. PartyOf(calls[a].who)' = {}
    BY <1>5, <1>7, <2>4, <2>5 DEF SameCall, PartyOf
  <2>7. Current(calls[a])'
    BY <1>1, <1>2, <1>3, <1>5, <1>7, <2>1, <2>4, <2>5, <2>6 DEF Current, SameCall, Joins
  <2> QED
    BY <2>4, <2>5, <2>7 DEF Goes, SameCall
<1> QED
  BY <1>4, <1>6, <1>7 DEF RemoveMember

LEMMA SeqSetLeader ==
    ASSUME TypeInv, Sequential, NEW a, SetLeader(a)
    PROVE  Goes(a)
<1> DEFINE call == calls[a]
           c == call.seen.id
           led == [parties[c] EXCEPT !.leader = call.other]
<1>1. /\ a \in DOMAIN calls /\ CallDoc(call) /\ Ready(call, "setLeader")
      /\ Current(call) /\ call.at = "setLeader" /\ Active /\ One
  BY Now DEF SetLeader
<1>2. /\ call.op \in {"setLeader", "leave", "join", "kick", "start", "disconnect"}
      /\ call \in CallDocs
  BY <1>1 DEF Ready, OpsAt, CallDoc
<1>3. CASE Return(a)
  BY <1>1, <1>3, ReturnOne DEF Goes
<1>4. ASSUME c \in DOMAIN parties, parties' = [parties EXCEPT ![c] = led],
             GoOrReturn(a, [call EXCEPT !.other = None], Removed(call.op))
      PROVE  Goes(a)
  <2>1. PICK next : next = [call EXCEPT !.other = None]
    OBVIOUS
  <2>2. /\ CallDoc(next) /\ next.op = call.op /\ next.who = call.who
        /\ next.seen = call.seen /\ next.into = call.into
    BY <1>1, <1>2, <2>1 DEF CallDoc, CallDocs
  <2>3. CASE Removed(call.op) = "return"
    BY <1>1, <1>4, <2>3, ReturnOne DEF GoOrReturn, Goes
  <2>4. CASE Removed(call.op) # "return"
    <3>1. DOMAIN calls' = {a} /\ calls'[a].at = Removed(call.op) /\ SameCall(a, next)
      BY <1>1, <1>4, <2>1, <2>2, <2>4, GoOne DEF GoOrReturn
    <3>2. /\ call.op \in {"leave", "join", "kick", "start"}
          /\ Removed(call.op) \in {"createParty", "addMember"}
          /\ Removed(call.op) = "addMember" => call.op = "join"
      BY <1>2, <2>4 DEF Removed
    <3>3. PartyOf(call.who) = {} /\ Joins(call)
      BY <1>1, <3>2 DEF Current
    <3>4. /\ DOMAIN parties' = DOMAIN parties
          /\ \A d \in DOMAIN parties : parties'[d].members = parties[d].members
      BY <1>4, ReadDoc DEF TypeInv, Stored, PartyDocs
    <3>5. PartyOf(calls[a].who)' = {}
      BY <2>2, <3>1, <3>3, <3>4 DEF PartyOf, SameCall
    <3>6. Current(calls[a])'
      BY <2>2, <3>1, <3>2, <3>3, <3>4, <3>5 DEF Current, SameCall, Joins
    <3> QED
      BY <2>2, <3>1, <3>6 DEF Goes, SameCall
  <2> QED
    BY <2>3, <2>4
<1> QED
  BY <1>3, <1>4 DEF SetLeader

\* Either an index refuses the party and the call is over, or it is new.
LEMMA Created ==
    ASSUME TypeInv, NEW a, NEW party, NEW told, NEW call, NEW next,
           CreateParty(a, party, told, call, next)
    PROVE  \/ Return(a) /\ UNCHANGED parties /\ heard' = told /\ ~ Indexed(NewId, party)
           \/ /\ GoOrReturn(a, call, next) /\ Indexed(NewId, party)
              /\ heard' = HeardParty(NewId, party.leader, told)
              /\ NewId \in PartyIds /\ NewId \notin DOMAIN parties \cup DOMAIN heard
              /\ \A b \in DOMAIN calls : NewId # calls[b].into
              /\ DOMAIN parties' = DOMAIN parties \cup {NewId} /\ parties'[NewId] = party
              /\ \A d \in DOMAIN parties : parties'[d] = parties[d]
<1>1. NewId \in PartyIds /\ NewId \notin IdsInUse
  BY NewIdIsNew DEF CreateParty
<1>2. /\ NewId \notin DOMAIN parties \cup DOMAIN heard
      /\ \A b \in DOMAIN calls : NewId # calls[b].into
  <2>1. ASSUME NEW b \in DOMAIN calls PROVE calls[b].into \in IdsInUse
    <3>1. calls[b].into \in NamedBy(calls[b])
      BY DEF NamedBy
    <3> QED
      BY <3>1 DEF IdsInUse
  <2>2. DOMAIN parties \cup DOMAIN heard \subseteq IdsInUse
    BY DEF IdsInUse
  <2> QED
    BY <1>1, <2>1, <2>2
<1>3. ASSUME parties' = Put(parties, NewId, party)
      PROVE  /\ DOMAIN parties' = DOMAIN parties \cup {NewId} /\ parties'[NewId] = party
             /\ \A d \in DOMAIN parties : parties'[d] = parties[d]
  BY <1>2, <1>3 DEF Put
<1> QED
  BY <1>1, <1>2, <1>3 DEF CreateParty

LEMMA SeqCreateOwnParty ==
    ASSUME TypeInv, Sequential, NEW a, CreateOwnParty(a)
    PROVE  Goes(a)
<1> DEFINE call == calls[a]
           party == Party(call.who, call.op = "start" /\ call.seen = None)
<1>1. /\ a \in DOMAIN calls /\ CallDoc(call) /\ Ready(call, "createParty")
      /\ PartyOf(call.who) = {} /\ Active /\ One
  BY Now DEF CreateOwnParty, Current
<1>2. call.op \in {"leave", "kick", "start", "connect"} /\ call \in CallDocs
  BY <1>1 DEF Ready, OpsAt, CallDoc
<1>3. PICK next : next = IF call.op = "start" THEN [call EXCEPT !.seen = Seen(NewId, party)] ELSE call
  OBVIOUS
<1>4. CreateParty(a, party, heard, next, Settled(call))
  BY <1>3 DEF CreateOwnParty
<1>5. CASE Return(a)
  BY <1>1, <1>5, ReturnOne DEF Goes
<1>6. ASSUME GoOrReturn(a, next, Settled(call)), Settled(call) # "return",
             NewId \in PartyIds, NewId \notin DOMAIN parties, NewId # call.into,
             DOMAIN parties' = DOMAIN parties \cup {NewId}, parties'[NewId] = party,
             \A d \in DOMAIN parties : parties'[d] = parties[d]
      PROVE  Goes(a)
  <2>1. /\ party.members = {call.who} /\ party.leader = call.who
        /\ party.open = (call.op = "start" /\ call.seen = None)
    BY DEF Party
  <2>2. Seen(NewId, party) \in SeenDocs /\ Seen(NewId, party).id = NewId
    <3>1. call.who \in Players
      BY <1>1, <1>2 DEF CallDoc
    <3>2. party \in PartyDocs
      BY <3>1, OwnPartyDoc
    <3> QED
      BY <1>6, <3>2 DEF Seen, SeenDocs, PartyDocs
  <2>3. /\ CallDoc(next) /\ next.op = call.op /\ next.who = call.who /\ next.into = call.into
        /\ call.op = "start" => next.seen.id = NewId
    <3>1. CASE call.op = "start"
      <4>1. next = [call EXCEPT !.seen = Seen(NewId, party)]
        BY <1>3, <3>1
      <4> HIDE DEF party
      <4> QED
        BY <1>1, <1>2, <2>2, <3>1, <4>1 DEF CallDoc, CallDocs
    <3>2. CASE call.op # "start"
      BY <1>1, <1>3, <3>2
    <3> QED
      BY <3>1, <3>2
  <2>4. DOMAIN calls' = {a} /\ calls'[a].at = Settled(call) /\ SameCall(a, next)
    BY <1>1, <1>6, <2>3, GoOne DEF GoOrReturn
  <2>5. /\ Settled(call) \in {"createAgain", "setEventParty", "setOpen"}
        /\ Settled(call) = "createAgain" => call.op = "kick"
        /\ Settled(call) = "setEventParty" => call.op = "start" /\ call.seen = None
        /\ Settled(call) = "setOpen" => call.op = "start"
    BY <1>2, <1>6 DEF Settled
  <2>6. PartyOf(calls[a].who)' \subseteq {NewId}
    BY <1>1, <1>6, <2>3, <2>4 DEF PartyOf, SameCall
  <2>7. Current(calls[a])'
    BY <1>6, <2>1, <2>3, <2>4, <2>5, <2>6 DEF Current, SameCall
  <2> QED
    BY <2>3, <2>4, <2>7 DEF Goes, SameCall
<1>7. CASE GoOrReturn(a, next, Settled(call)) /\ Settled(call) = "return"
  BY <1>1, <1>7, ReturnOne DEF GoOrReturn, Goes
<1> QED
  BY <1>1, <1>4, <1>5, <1>6, <1>7, Created

LEMMA SeqReturns ==
    ASSUME TypeInv, Sequential, NEW a,
           AddMember(a) \/ CreateAgain(a) \/ SetPartyEvent(a) \/ RemovePartyEvent(a)
    PROVE  Goes(a)
<1>1. a \in DOMAIN calls /\ One
  BY StepCall DEF TypeInv, Sequential, AddMember, CreateAgain, SetPartyEvent, RemovePartyEvent
<1>2. Return(a)
  BY DEF AddMember, CreateAgain, CreateParty, GoOrReturn, SetPartyEvent, RemovePartyEvent
<1> QED
  BY <1>1, <1>2, ReturnOne DEF Goes

LEMMA SeqSetMembers ==
    ASSUME TypeInv, Sequential, NEW a, SetMembers(a)
    PROVE  Goes(a)
<1> DEFINE call == calls[a]
           c == call.seen.id
           emptied == [parties[c] EXCEPT !.members = {call.seen.leader}]
<1>1. /\ a \in DOMAIN calls /\ CallDoc(call) /\ Ready(call, "setMembers") /\ Active /\ One
      /\ ReadNow(call) /\ call.seen.leader \in call.seen.members
      /\ call.todo = call.seen.members \ {call.seen.leader}
      /\ call.op = "start" => call.who = call.seen.leader
  BY Now DEF SetMembers, Current
<1>2. /\ c \in DOMAIN parties /\ call.seen.leader = parties[c].leader
      /\ call.seen.members = parties[c].members /\ call.seen.open = parties[c].open
  BY <1>1, ReadFields
<1>3. CASE Return(a)
  BY <1>1, <1>3, ReturnOne DEF Goes
<1>4. CASE parties' = Put(parties, c, emptied) /\ Go(a, call, "deleteInvites")
  <2>1. DOMAIN calls' = {a} /\ calls'[a].at = "deleteInvites" /\ SameCall(a, call)
    BY <1>1, <1>4, GoOne
  <2>2. parties[c] \in PartyDocs
    BY <1>2, ReadDoc DEF TypeInv
  <2>3. /\ DOMAIN parties' = DOMAIN parties /\ parties'[c] = emptied
        /\ \A d \in DOMAIN parties \ {c} : parties'[d] = parties[d]
    BY <1>2, <1>4 DEF Put
  <2>4. /\ parties'[c].leader = parties[c].leader /\ parties'[c].members = {parties[c].leader}
        /\ parties'[c].open = parties[c].open
    BY <1>2, <2>2, <2>3 DEF PartyDocs
  <2>5. ASSUME NEW x \in call.todo PROVE PartyOf(x)' = {}
    <3>1. x \in parties[c].members /\ x # parties[c].leader
      BY <1>1, <1>2
    <3>2. PartyOf(x) = {c}
      BY <1>2, <3>1, OneParty DEF PartyOf
    <3>3. ASSUME NEW d \in DOMAIN parties', x \in parties'[d].members PROVE FALSE
      <4>1. d = c
        BY <2>3, <3>2, <3>3 DEF PartyOf
      <4> QED
        BY <2>4, <3>1, <3>3, <4>1
    <3> QED
      BY <3>3 DEF PartyOf
  <2>6. HoldsLeader(calls[a])' /\ parties'[c].open = calls'[a].seen.open
    BY <1>1, <1>2, <2>1, <2>3, <2>4, <2>5 DEF HoldsLeader, SameCall
  <2>7. Current(calls[a])'
    <3>1. call.op # "disconnect"
      BY <1>1 DEF Ready, OpsAt
    <3> QED
      BY <2>1, <2>6, <3>1 DEF Current, SameCall
  <2> QED
    BY <2>1, <2>7 DEF Goes, SameCall
<1> QED
  BY <1>2, <1>3, <1>4 DEF SetMembers

\* A call that has emptied a party goes on with those who were in it, or is done.
LEMMA SeqEmptied ==
    ASSUME Active, One, NEW a \in DOMAIN calls, NEW call, CallDoc(call),
           call.op = calls[a].op, call.who = calls[a].who, call.op \in {"empty", "start"},
           GoOrReturn(a, call, Emptied(call)), HoldsLeader(call)',
           parties'[call.seen.id].open = Opens(call.op)
    PROVE  Goes(a)
<1>1. CASE Emptied(call) = "return"
  BY <1>1, ReturnOne DEF GoOrReturn, Goes
<1>2. CASE Emptied(call) # "return"
  <2>1. DOMAIN calls' = {a} /\ calls'[a].at = Emptied(call) /\ SameCall(a, call)
    BY <1>2, GoOne DEF GoOrReturn
  <2>2. /\ Emptied(call) \in {"recreate", "setEventParty"}
        /\ Emptied(call) = "setEventParty" => call.op = "start"
    BY <1>2 DEF Emptied
  <2>3. HoldsLeader(calls[a])'
    BY <2>1 DEF HoldsLeader, SameCall
  <2>4. Emptied(call) = "setEventParty" =>
           /\ call.seen.id \in DOMAIN parties' /\ parties'[call.seen.id].members = {call.who}
           /\ parties'[call.seen.id].open
    BY <2>2 DEF HoldsLeader, Opens
  <2>5. Current(calls[a])'
    BY <2>1, <2>2, <2>3, <2>4 DEF Current, SameCall
  <2> QED
    BY <2>1, <2>5 DEF Goes, SameCall
<1> QED
  BY <1>1, <1>2

LEMMA SeqDeleteInvites ==
    ASSUME TypeInv, Sequential, NEW a, DeleteInvites(a)
    PROVE  Goes(a)
<1> DEFINE call == calls[a]
           c == call.seen.id
<1>1. /\ a \in DOMAIN calls /\ CallDoc(call) /\ Ready(call, "deleteInvites") /\ Active /\ One
      /\ call.op # "disconnect" => HoldsLeader(call) /\ parties[c].open = call.seen.open
  BY Now DEF DeleteInvites, Current
<1>2. call.op \in {"empty", "start", "disconnect"} /\ UNCHANGED parties
  BY <1>1 DEF Ready, OpsAt, DeleteInvites
<1>3. CASE Return(a)
  BY <1>1, <1>3, ReturnOne DEF Goes
<1> PICK next : next = call
  OBVIOUS
<1>4. ASSUME call.op # "disconnect" PROVE HoldsLeader(next)'
  BY <1>1, <1>2, <1>4 DEF HoldsLeader, PartyOf
<1>5. CASE call.op # "disconnect" /\ Go(a, call, "openEmptied")
  <2>1. DOMAIN calls' = {a} /\ calls'[a].at = "openEmptied" /\ SameCall(a, call)
    BY <1>1, <1>5, GoOne
  <2>2. HoldsLeader(calls[a])'
    BY <1>4, <1>5, <2>1 DEF HoldsLeader, SameCall
  <2>3. Current(calls[a])'
    BY <2>1, <2>2 DEF Current, SameCall
  <2> QED
    BY <2>1, <2>3 DEF Goes, SameCall
<1>6. CASE /\ call.op # "disconnect" /\ call.seen.open = Opens(call.op)
           /\ GoOrReturn(a, call, Emptied(call))
  BY <1>1, <1>2, <1>4, <1>6, SeqEmptied
<1> QED
  BY <1>3, <1>5, <1>6 DEF DeleteInvites

LEMMA SeqOpenings ==
    ASSUME TypeInv, Sequential, NEW a, OpenEmptied(a) \/ OpenOrClose(a)
    PROVE  Goes(a)
<1> DEFINE call == calls[a]
           c == call.seen.id
<1>1. /\ a \in DOMAIN calls /\ CallDoc(call) /\ Active /\ One
      /\ OpenEmptied(a) => Ready(call, "openEmptied") /\ HoldsLeader(call)
      /\ OpenOrClose(a) => /\ Ready(call, "setOpen")
                           /\ call.op = "start" => parties[c].members = {call.who}
  BY Now DEF OpenEmptied, OpenOrClose, SetOpen, Current
<1>2. CASE Return(a)
  BY <1>1, <1>2, ReturnOne DEF Goes
<1> PICK next : next = call
  OBVIOUS
<1>3. ASSUME c \in DOMAIN parties, parties' = [parties EXCEPT ![c].open = Opens(call.op)]
      PROVE  /\ DOMAIN parties' = DOMAIN parties
             /\ parties'[c].open = Opens(call.op)
             /\ \A d \in DOMAIN parties : /\ parties'[d].leader = parties[d].leader
                                          /\ parties'[d].members = parties[d].members
  BY <1>3, ReadDoc DEF TypeInv, Stored, PartyDocs
<1>4. ASSUME OpenEmptied(a), c \in DOMAIN parties,
             parties' = [parties EXCEPT ![c].open = Opens(call.op)],
             GoOrReturn(a, call, Emptied(call))
      PROVE  Goes(a)
  <2>1. HoldsLeader(next)'
    BY <1>1, <1>3, <1>4 DEF HoldsLeader, PartyOf
  <2>2. call.op \in {"empty", "start"}
    BY <1>1, <1>4 DEF Ready, OpsAt
  <2> QED
    BY <1>1, <1>3, <1>4, <2>1, <2>2, SeqEmptied
<1>5. ASSUME OpenOrClose(a), c \in DOMAIN parties, call.op = "start",
             parties' = [parties EXCEPT ![c].open = Opens(call.op)], Go(a, call, "setEventParty")
      PROVE  Goes(a)
  <2>1. DOMAIN calls' = {a} /\ calls'[a].at = "setEventParty" /\ SameCall(a, call)
    BY <1>1, <1>5, GoOne
  <2>2. Current(calls[a])'
    BY <1>1, <1>3, <1>5, <2>1 DEF Current, SameCall, Opens
  <2> QED
    BY <2>1, <2>2 DEF Goes, SameCall
<1> QED
  BY <1>2, <1>4, <1>5 DEF OpenEmptied, OpenOrClose, SetOpen, GoOrReturn

LEMMA SeqRecreate ==
    ASSUME TypeInv, Sequential, NEW a, Recreate(a)
    PROVE  Goes(a)
<1>1. /\ a \in DOMAIN calls /\ CallDoc(calls[a]) /\ Ready(calls[a], "recreate") /\ Active /\ One
      /\ HoldsLeader(calls[a]) /\ parties[calls[a].seen.id].open = Opens(calls[a].op)
  BY Now DEF Recreate, Current
<1>2. PICK p \in calls[a].todo :
         LET call == [calls[a] EXCEPT !.todo = @ \ {p}]
         IN  CreateParty(a, Party(p, FALSE), heard, call, Emptied(call))
  BY DEF Recreate
<1>3. PICK next : next = [calls[a] EXCEPT !.todo = @ \ {p}]
  OBVIOUS
<1>4. /\ CallDoc(next) /\ next.op = calls[a].op /\ next.who = calls[a].who
      /\ next.seen = calls[a].seen /\ next.todo = calls[a].todo \ {p}
  BY <1>1, <1>3 DEF CallDoc, CallDocs
<1>5. next.op \in {"empty", "start"}
  BY <1>1, <1>4 DEF Ready, OpsAt
<1>6. CASE Return(a)
  BY <1>1, <1>6, ReturnOne DEF Goes
<1>7. ASSUME GoOrReturn(a, next, Emptied(next)), NewId \notin DOMAIN parties,
             DOMAIN parties' = DOMAIN parties \cup {NewId}, parties'[NewId] = Party(p, FALSE),
             \A d \in DOMAIN parties : parties'[d] = parties[d]
      PROVE  Goes(a)
  <2>1. HoldsLeader(next)' /\ parties'[next.seen.id].open = Opens(next.op)
    BY <1>1, <1>4, <1>7 DEF HoldsLeader, PartyOf, Party
  <2> QED
    BY <1>1, <1>4, <1>5, <1>7, <2>1, SeqEmptied
<1>8. CreateParty(a, Party(p, FALSE), heard, next, Emptied(next))
  BY <1>2, <1>3
<1> QED
  BY <1>1, <1>6, <1>7, <1>8, Created

LEMMA SeqFindOwnerParty ==
    ASSUME TypeInv, Sequential, NEW a, FindOwnerParty(a)
    PROVE  Goes(a)
<1> DEFINE call == calls[a]
<1>1. /\ a \in DOMAIN calls /\ CallDoc(call) /\ Ready(call, "findOwnerParty") /\ Active /\ One
  BY Now DEF FindOwnerParty
<1>2. call.op = "start" /\ call \in CallDocs /\ UNCHANGED parties
  BY <1>1 DEF Ready, OpsAt, CallDoc, FindOwnerParty
<1>3. ASSUME NEW at, Go(a, call, at),
             \/ at = "createParty" /\ PartyOf(call.who) = {}
             \/ at = "findParty" /\ \E d \in PartyOf(call.who) : parties[d].leader # call.who
      PROVE  Goes(a)
  <2>1. DOMAIN calls' = {a} /\ calls'[a].at = at /\ SameCall(a, call)
    BY <1>1, <1>3, GoOne
  <2>2. PartyOf(calls[a].who)' = PartyOf(call.who)
    BY <1>2, <2>1 DEF PartyOf, SameCall
  <2>3. Current(calls[a])'
    BY <1>2, <1>3, <2>1, <2>2 DEF Current, SameCall
  <2> QED
    BY <2>1, <2>3 DEF Goes, SameCall
<1>4. ASSUME NEW c \in PartyOf(call.who), parties[c].leader = call.who,
             Go(a, [call EXCEPT !.seen = Read(c), !.todo = parties[c].members \ {call.who}],
                "setMembers")
      PROVE  Goes(a)
  <2>1. /\ Read(c) \in SeenDocs /\ parties[c].members \subseteq Players
        /\ c \in DOMAIN parties /\ call.who \in parties[c].members
    BY OwnParty, ReadDoc DEF TypeInv, PartyDocs
  <2>2. PICK next : next = [call EXCEPT !.seen = Read(c), !.todo = parties[c].members \ {call.who}]
    OBVIOUS
  <2>3. /\ CallDoc(next) /\ next.op = call.op /\ next.who = call.who
        /\ next.seen = Read(c) /\ next.todo = parties[c].members \ {call.who}
    BY <1>1, <1>2, <2>1, <2>2 DEF CallDoc, CallDocs
  <2>4. DOMAIN calls' = {a} /\ calls'[a].at = "setMembers" /\ SameCall(a, next)
    BY <1>1, <1>4, <2>2, <2>3, GoOne
  <2>5. Read(c).id = c /\ Read(c).members = parties[c].members /\ Read(c).leader = parties[c].leader
    BY DEF Read, Seen
  <2>6. ReadNow(calls[a])'
    BY <1>2, <2>1, <2>3, <2>4, <2>5 DEF ReadNow, Read, SameCall
  <2>7. Current(calls[a])'
    BY <1>4, <2>1, <2>3, <2>4, <2>5, <2>6 DEF Current, SameCall
  <2> QED
    BY <2>3, <2>4, <2>7 DEF Goes, SameCall
<1> QED
  BY <1>3, <1>4, OneParty DEF FindOwnerParty

LEMMA SeqEventSteps ==
    ASSUME TypeInv, Sequential, NEW a, SetEventParty(a) \/ DeleteEventDocument(a)
    PROVE  Goes(a)
<1> DEFINE call == calls[a]
<1>1. a \in DOMAIN calls /\ CallDoc(call) /\ Active /\ One
  BY Now DEF SetEventParty, DeleteEventDocument
<1>2. CASE Return(a)
  BY <1>1, <1>2, ReturnOne DEF Goes
<1>3. ASSUME NEW at \in {"setPartyEvent", "removePartyEvent"}, Go(a, call, at)
      PROVE  Goes(a)
  <2>1. DOMAIN calls' = {a} /\ calls'[a].at = at /\ SameCall(a, call)
    BY <1>1, <1>3, GoOne
  <2>2. Current(calls[a])'
    BY <2>1 DEF Current
  <2> QED
    BY <2>1, <2>2 DEF Goes, SameCall
<1> QED
  BY <1>2, <1>3 DEF SetEventParty, DeleteEventDocument

LEMMA SeqSteps ==
    ASSUME TypeInv, Sequential, NEW a, Step(a)
    PROVE  a \in DOMAIN calls /\ Goes(a)
<1>1. a \in DOMAIN calls
  BY DEF Step, At, FindTarget, DeleteInvite, AddMember, DeleteOwnParty, FindParty, RemoveMember,
         SetLeader, CreateOwnParty, CreateAgain, SetMembers, DeleteInvites, OpenEmptied,
         OpenOrClose, SetOpen, Recreate, FindOwnerParty, SetEventParty, SetPartyEvent,
         DeleteEventDocument, RemovePartyEvent
<1>2. Goes(a)
  BY SeqFindTarget, SeqDeleteInvite, SeqDeleteOwnParty, SeqFindParty, SeqRemoveMember,
     SeqSetLeader, SeqCreateOwnParty, SeqReturns, SeqSetMembers, SeqDeleteInvites, SeqOpenings,
     SeqRecreate, SeqFindOwnerParty, SeqEventSteps DEF Step
<1> QED
  BY <1>1, <1>2

-----------------------------------------------------------------------------
(* Requests, and the messages of the connection topic.                     *)

LEMMA NobodyCalls ==
    ASSUME MaxCalls = 1, Active, One, NEW a, Idle(a)
    PROVE  DOMAIN calls = {}
<1>1. SUFFICES ASSUME NEW b \in DOMAIN calls PROVE FALSE
  OBVIOUS
<1>2. DOMAIN calls = {b}
  BY DEF One
<1>3. Cardinality({b}) = 1
  BY FS_Singleton
<1> QED
  BY <1>2, <1>3 DEF Idle

LEMMA SameParties ==
    ASSUME UNCHANGED parties, NEW call, Current(call)
    PROVE  Current(call)'
BY DEF Current, ReadNow, Read, HoldsLeader, PartyOf, Joins

LEMMA BeginsOn ==
    ASSUME MaxCalls = 1, TypeInv, Sequential, NEW a, NEW call, Idle(a), Begin(a, call),
           UNCHANGED <<parties, online, connections>>, Current(call), call.op # "disconnect"
    PROVE  Sequential'
<1>1. DOMAIN calls' = {a} /\ calls'[a] = call
  BY BeginOne DEF TypeInv, Sequential
<1>2. Current(call)'
  BY SameParties
<1>3. One' /\ \A b \in DOMAIN calls' : Current(calls[b])'
  BY <1>1, <1>2 DEF One, Current, ReadNow, Read, HoldsLeader, PartyOf, Joins
<1>4. Order' /\ Leaving'
  BY <1>1 DEF Sequential, Order, Latest, Leaving
<1> QED
  BY <1>3, <1>4 DEF Sequential

LEMMA SeqRequests ==
    ASSUME MaxCalls = 1, TypeInv, Sequential, NEW p \in Players, NEW q \in Players,
           NEW open \in BOOLEAN,
           \/ LeaveParty(p) \/ KickPlayer(p, q) \/ JoinParty(p, q) \/ SetPartyLeader(p, q)
           \/ SetOpenParty(p, open)
    PROVE  Sequential'
<1>1. UNCHANGED <<parties, online, connections>> /\ Idle(p)
  BY DEF LeaveParty, KickPlayer, JoinParty, SetPartyLeader, SetOpenParty
<1>2. PICK c, call :
         /\ c \in PartyOf(p)
         /\ \/ call = Call("leave", "removeMember", p, Read(c))
            \/ call = [Call("kick", "findParty", q, Read(c)) EXCEPT !.into = c]
            \/ call = [Call("join", "findTarget", p, Read(c)) EXCEPT !.other = q]
            \/ /\ call = [Call("setLeader", "setLeader", p, Read(c)) EXCEPT !.other = q]
               /\ MayLead(c, q) /\ parties[c].leader = p
            \/ call = Call(IF open THEN "open" ELSE "close", "setOpen", p, Read(c))
         /\ Begin(p, call)
  BY DEF LeaveParty, KickPlayer, JoinParty, SetPartyLeader, SetOpenParty
<1>3. c \in DOMAIN parties /\ p \in parties[c].members
  BY <1>2, OwnParty
<1>4. /\ Read(c).id = c /\ Read(c).members = parties[c].members
      /\ Read(c).leader = parties[c].leader
  BY DEF Read, Seen
<1>5. Current(call) /\ call.op # "disconnect"
  BY <1>2, <1>3, <1>4 DEF Current, Call, ReadNow, Joins, MayLead
<1> QED
  BY <1>1, <1>2, <1>5, BeginsOn

LEMMA SeqEmptyParty ==
    ASSUME MaxCalls = 1, TypeInv, Sequential, NEW a, NEW c \in DOMAIN parties, EmptyParty(a, c)
    PROVE  Sequential'
<1>1. PICK call : call = [Call("empty", "setMembers", parties[c].leader, Read(c)) EXCEPT
                             !.todo = parties[c].members \ {parties[c].leader}]
  OBVIOUS
<1>2. /\ Read(c).id = c /\ Read(c).members = parties[c].members
      /\ Read(c).leader = parties[c].leader
  BY DEF Read, Seen
<1>3. Current(call) /\ call.op # "disconnect"
  BY <1>1, <1>2 DEF EmptyParty, Current, Call, ReadNow
<1> QED
  BY <1>1, <1>3, BeginsOn DEF EmptyParty

\* Neither the parties nor the connections change, and calls at most end.
LEMMA SeqSame ==
    ASSUME Sequential, UNCHANGED <<parties, online, connections>>,
           \/ UNCHANGED calls
           \/ \E S : calls' = Without(calls, S)
    PROVE  Sequential'
<1>1. DOMAIN calls' \subseteq DOMAIN calls /\ \A a \in DOMAIN calls' : calls'[a] = calls[a]
  BY DEF Without
<1>2. One'
  BY <1>1 DEF Sequential, One
<1>3. ASSUME NEW a \in DOMAIN calls' PROVE Current(calls[a])'
  <2>1. PICK call : call = calls[a]
    OBVIOUS
  <2>2. Current(call)'
    BY <1>1, <2>1, SameParties DEF Sequential
  <2> QED
    BY <1>1, <2>1, <2>2 DEF Current, ReadNow, Read, HoldsLeader, PartyOf, Joins
<1>4. Order' /\ Leaving'
  BY <1>1 DEF Sequential, Order, Latest, Leaving, Waiting
<1> QED
  BY <1>2, <1>3, <1>4 DEF Sequential

LEMMA SeqEventRequests ==
    ASSUME MaxCalls = 1, TypeInv, Sequential, NEW e \in EventIds, StartEvent(e) \/ DeleteEvent(e)
    PROVE  Sequential'
<1>1. UNCHANGED <<parties, online, connections>>
  BY DEF StartEvent, DeleteEvent
<1>2. PICK a, call :
         /\ \/ call = [Call("start", "findOwnerParty", events[e].owner, None) EXCEPT !.into = e]
            \/ call = [Call("deleteEvent", "deleteEvent", None, None) EXCEPT
                          !.into = e, !.todo = events[e].party]
         /\ Idle(a) /\ Begin(a, call)
  BY DEF StartEvent, DeleteEvent
<1>3. Current(call) /\ call.op # "disconnect"
  BY <1>2 DEF Current, Call
<1> QED
  BY <1>1, <1>2, <1>3, BeginsOn

\* The topic after a message is taken from it or sent to it.
LEMMA Took ==
    ASSUME Around, connections # <<>>, connections' = Tail(connections)
    PROVE  /\ Len(connections) \in Nat \ {0} /\ Len(connections') = Len(connections) - 1
           /\ \A i \in 1 .. Len(connections') : connections'[i] = connections[i + 1]
           /\ Head(connections) = connections[1]
<1> DEFINE Types == [type : {"connect", "disconnect"}, player : Players]
<1>1. connections \in Seq(Types)
  BY DEF Around
<1> HIDE DEF Types
<1> QED
  BY <1>1

LEMMA Sent ==
    ASSUME Around, NEW type \in {"connect", "disconnect"}, NEW p \in Players,
           connections' = Append(connections, Connection(type, p))
    PROVE  /\ Len(connections) \in Nat /\ Len(connections') = Len(connections) + 1
           /\ \A i \in 1 .. Len(connections) : connections'[i] = connections[i]
           /\ connections'[Len(connections) + 1] = Connection(type, p)
<1> DEFINE Types == [type : {"connect", "disconnect"}, player : Players]
<1>1. connections \in Seq(Types)
  BY DEF Around
<1> HIDE DEF Types
<1> QED
  BY <1>1

\* A message waits on when another one is taken or sent.
LEMMA WaitingStill ==
    ASSUME Around, NEW type, NEW p, Waiting(type, p),
           \/ /\ connections # <<>> /\ connections' = Tail(connections)
              /\ Head(connections) # Connection(type, p)
           \/ \E t \in {"connect", "disconnect"}, q \in Players :
                 connections' = Append(connections, Connection(t, q))
    PROVE  Waiting(type, p)'
<1>1. PICK i \in 1 .. Len(connections) : connections[i] = Connection(type, p)
  BY DEF Waiting
<1>2. CASE /\ connections # <<>> /\ connections' = Tail(connections)
           /\ Head(connections) # Connection(type, p)
  <2>0. /\ Len(connections) \in Nat \ {0} /\ Len(connections') = Len(connections) - 1
        /\ \A j \in 1 .. Len(connections') : connections'[j] = connections[j + 1]
        /\ Head(connections) = connections[1]
    BY <1>2, Took
  <2>1. i # 1
    BY <1>1, <1>2, <2>0
  <2>3. PICK j : j = i - 1
    OBVIOUS
  <2>4. j \in 1 .. Len(connections') /\ j + 1 = i
    BY <1>1, <2>0, <2>1, <2>3
  <2>2. i - 1 \in 1 .. Len(connections') /\ connections'[i - 1] = Connection(type, p)
    BY <1>1, <2>0, <2>3, <2>4
  <2> QED
    BY <2>2 DEF Waiting
<1>3. ASSUME NEW t \in {"connect", "disconnect"}, NEW q \in Players,
             connections' = Append(connections, Connection(t, q))
      PROVE  Waiting(type, p)'
  <2>1. i \in 1 .. Len(connections') /\ connections'[i] = Connection(type, p)
    BY <1>1, <1>3, Sent
  <2> QED
    BY <2>1 DEF Waiting
<1> QED
  BY <1>2, <1>3

LEMMA WaitingNow ==
    ASSUME Around, NEW type \in {"connect", "disconnect"}, NEW p \in Players,
           connections' = Append(connections, Connection(type, p))
    PROVE  Waiting(type, p)'
<1>1. Len(connections) + 1 \in 1 .. Len(connections')
  BY Sent
<1> QED
  BY <1>1, Sent DEF Waiting

LEMMA SeqNetwork ==
    ASSUME TypeInv, Sequential, NEW p \in Players, PlayerConnects(p) \/ PlayerDisconnects(p)
    PROVE  Sequential'
<1>1. UNCHANGED <<parties, calls>>
  BY DEF PlayerConnects, PlayerDisconnects
<1>2. PICK type \in {"connect", "disconnect"} :
         /\ connections' = Append(connections, Connection(type, p))
         /\ type = "connect" => PlayerConnects(p)
         /\ type = "disconnect" => PlayerDisconnects(p)
  <2>1. CASE PlayerConnects(p)
    BY <2>1 DEF PlayerConnects
  <2>2. CASE PlayerDisconnects(p)
    BY <2>2 DEF PlayerDisconnects
  <2> QED
    BY <2>1, <2>2
<1>3. online' = IF type = "connect" THEN online \cup {p} ELSE online \ {p}
  BY <1>2 DEF PlayerConnects, PlayerDisconnects
<1>4. One' /\ \A a \in DOMAIN calls' : Current(calls[a])'
  <2>1. ASSUME NEW a \in DOMAIN calls PROVE Current(calls[a])'
    <3>1. PICK call : call = calls[a]
      OBVIOUS
    <3>2. Current(call)'
      BY <1>1, <3>1, SameParties DEF Sequential
    <3> QED
      BY <1>1, <3>1, <3>2 DEF Current, ReadNow, Read, HoldsLeader, PartyOf, Joins
  <2> QED
    BY <1>1, <2>1 DEF Sequential, One
<1> DEFINE n == Len(connections)
<1>5. /\ n \in Nat /\ Len(connections') = n + 1 /\ connections'[n + 1] = Connection(type, p)
      /\ \A i \in 1 .. n : connections'[i] = connections[i]
  BY <1>2, Sent DEF TypeInv
<1>6. Order'
  <2> SUFFICES ASSUME NEW i \in 1 .. n + 1, NEW q, q = connections'[i].player
               PROVE  \E j \in i .. n + 1 : connections'[j] = Connection(Latest(q)', q)
    BY <1>5 DEF Order, Latest
  <2>1. CASE q = p
    <3>1. Latest(q)' = type
      BY <1>2, <1>3, <2>1 DEF Latest
    <3>2. n + 1 \in i .. n + 1
      BY <1>5
    <3> QED
      BY <1>5, <2>1, <3>1, <3>2
  <2>2. CASE q # p
    <3>1. i \in 1 .. n /\ q = connections[i].player
      BY <1>5, <2>2 DEF Connection
    <3>2. PICK j \in i .. n : connections[j] = Connection(Latest(q), q)
      BY <3>1 DEF Sequential, Order
    <3>3. Latest(q)' = Latest(q)
      BY <1>3, <2>2 DEF Latest
    <3>4. j \in i .. n + 1 /\ connections'[j] = connections[j]
      BY <1>5, <3>1, <3>2
    <3> QED
      BY <3>2, <3>3, <3>4
  <2> QED
    BY <2>1, <2>2
<1>7. Leaving'
  <2> SUFFICES ASSUME NEW a \in DOMAIN calls, calls[a].op = "disconnect", calls[a].who \in online'
               PROVE  Waiting("connect", calls[a].who)'
    BY <1>1 DEF Leaving, Waiting
  <2>1. PICK who : who = calls[a].who
    OBVIOUS
  <2>2. Waiting("connect", who)'
    <3>1. CASE who \in online
      <4>1. Waiting("connect", who)
        BY <2>1, <3>1 DEF Sequential, Leaving
      <4> QED
        BY <1>2, <4>1, WaitingStill DEF TypeInv
    <3>2. CASE who \notin online
      BY <1>2, <1>3, <2>1, <3>2, WaitingNow DEF TypeInv
    <3> QED
      BY <3>1, <3>2
  <2> QED
    BY <1>1, <2>1, <2>2 DEF Waiting
<1> QED
  BY <1>4, <1>6, <1>7 DEF Sequential

LEMMA SeqConsumer ==
    ASSUME MaxCalls = 1, TypeInv, Sequential, HandlePlayerConnect \/ HandlePlayerDisconnect
    PROVE  Sequential'
<1>0. /\ Idle("consumer") /\ connections # <<>> /\ connections' = Tail(connections)
      /\ UNCHANGED <<parties, online>>
  BY DEF HandlePlayerConnect, HandlePlayerDisconnect, Consume
<1>1. DOMAIN calls = {}
  BY <1>0, NobodyCalls DEF TypeInv, Sequential
<1> DEFINE n == Len(connections)
<1>2. /\ n \in Nat \ {0} /\ Len(connections') = n - 1 /\ Head(connections) = connections[1]
      /\ \A i \in 1 .. n - 1 : connections'[i] = connections[i + 1]
  BY <1>0, Took DEF TypeInv
<1>3. Order'
  <2> SUFFICES ASSUME NEW i \in 1 .. n - 1, NEW q, q = connections[i + 1].player
               PROVE  \E j \in i .. n - 1 : connections'[j] = Connection(Latest(q), q)
    BY <1>0, <1>2 DEF Order, Latest
  <2>1. i + 1 \in 1 .. n
    BY <1>2
  <2>2. PICK j \in i + 1 .. n : connections[j] = Connection(Latest(q), q)
    BY <2>1 DEF Sequential, Order
  <2>3. j - 1 \in i .. n - 1 /\ connections'[j - 1] = connections[j]
    BY <1>2, <2>2
  <2> QED
    BY <2>2, <2>3
<1> PICK p : p = Head(connections).player
  OBVIOUS
<1>4. CASE UNCHANGED calls
  BY <1>1, <1>3, <1>4 DEF Sequential, One, Leaving
<1>5. ASSUME NEW call, Begin("consumer", call), Current(call), call.who = p,
             call.op = "disconnect" => Head(connections).type = "disconnect"
      PROVE  Sequential'
  <2>1. DOMAIN calls' = {"consumer"} /\ calls'["consumer"] = call
    BY <1>0, <1>5, BeginOne DEF TypeInv, Sequential
  <2>2. Current(call)'
    BY <1>0, <1>5, SameParties
  <2>3. One' /\ \A b \in DOMAIN calls' : Current(calls[b])'
    BY <2>1, <2>2 DEF One, Current, ReadNow, Read, HoldsLeader, PartyOf, Joins
  <2>4. Leaving'
    <3> SUFFICES ASSUME call.op = "disconnect", p \in online PROVE Waiting("connect", p)'
      BY <1>0, <1>5, <2>1 DEF Leaving, Waiting
    <3>1. connections[1] = Connection("disconnect", p)
      <4>0. 1 \in 1 .. n
        BY <1>2
      <4>1. connections[1] \in [type : {"connect", "disconnect"}, player : Players]
        BY <4>0, ElementOfSeq DEF TypeInv, Around
      <4> QED
        BY <1>2, <1>5, <4>1 DEF Connection
    <3>2. PICK j \in 2 .. n : connections[j] = Connection("connect", p)
      <4>1. 1 \in 1 .. n /\ connections[1].player = p
        BY <1>2, <3>1 DEF Connection
      <4>2. PICK j \in 1 .. n : connections[j] = Connection("connect", p)
        BY <4>1 DEF Sequential, Order, Latest
      <4>3. j # 1
        BY <3>1, <4>2 DEF Connection
      <4> QED
        BY <4>2, <4>3
    <3>3. j - 1 \in 1 .. Len(connections') /\ connections'[j - 1] = Connection("connect", p)
      BY <1>2, <3>2
    <3> QED
      BY <3>3 DEF Waiting
  <2> QED
    BY <1>3, <2>3, <2>4 DEF Sequential
<1>6. CASE HandlePlayerConnect
  <2>1. ASSUME PartyOf(p) = {} PROVE Current(Call("connect", "createParty", p, None))
    BY <2>1 DEF Current, Call
  <2> QED
    BY <1>4, <1>5, <1>6, <2>1 DEF HandlePlayerConnect, Call
<1>7. CASE HandlePlayerDisconnect
  <2>1. ASSUME NEW c \in PartyOf(p), NEW at,
               at = IF parties[c].leader = p /\ Cardinality(parties[c].members) < 2
                    THEN "deleteParty" ELSE "removeMember"
        PROVE  Current(Call("disconnect", at, p, Read(c)))
    <3>1. c \in DOMAIN parties /\ p \in parties[c].members /\ parties[c].members \in SUBSET Players
      BY OwnParty, ReadDoc DEF TypeInv, PartyDocs
    <3>2. Read(c).id = c /\ Read(c).members = parties[c].members
      BY DEF Read, Seen
    <3>3. at = "deleteParty" => parties[c].members = {p}
      BY <2>1, <3>1, OnlyMember
    <3> QED
      BY <2>1, <3>1, <3>2, <3>3 DEF Current, Call, ReadNow, Joins
  <2>2. Head(connections).type = "disconnect"
    BY <1>7 DEF HandlePlayerDisconnect, Consume
  <2> QED
    BY <1>4, <1>5, <1>7, <2>1, <2>2 DEF HandlePlayerDisconnect, Call
<1> QED
  BY <1>6, <1>7

LEMMA SequentialNext ==
    ASSUME MaxCalls = 1, TypeInv, Sequential, [Next]_vars
    PROVE  Sequential'
<1>1. CASE Request
  <2>1. ASSUME NEW p \in Players,
               \/ \E q \in Players : InvitePlayer(p, q)
               \/ \E allow \in BOOLEAN : UpdatePartySettings(p, allow)
               \/ \E e \in EventIds : CreateEvent(e, p)
        PROVE  Sequential'
    BY <2>1, SeqSame DEF InvitePlayer, UpdatePartySettings, CreateEvent
  <2>2. CASE \/ \E i \in invites : InviteExpires(i)
             \/ \E e \in EventIds : StartTimePasses(e) \/ UpdateEvent(e) \/ DisplayEvent(e)
    BY <2>2, SeqSame DEF InviteExpires, StartTimePasses, UpdateEvent, DisplayEvent
  <2>3. CASE \E a \in Players \cup {"admin"}, c \in DOMAIN parties : EmptyParty(a, c)
    BY <2>3, SeqEmptyParty
  <2>4. CASE \E p \in Players : PlayerConnects(p) \/ PlayerDisconnects(p)
    BY <2>4, SeqNetwork
  <2>5. CASE HandlePlayerConnect \/ HandlePlayerDisconnect
    BY <2>5, SeqConsumer
  <2>6. CASE \E e \in EventIds : StartEvent(e) \/ DeleteEvent(e)
    BY <2>6, SeqEventRequests
  <2>7. ASSUME NEW p \in Players, NEW q \in Players, NEW open \in BOOLEAN,
               \/ LeaveParty(p) \/ KickPlayer(p, q) \/ JoinParty(p, q) \/ SetPartyLeader(p, q)
               \/ SetOpenParty(p, open)
        PROVE  Sequential'
    BY <2>7, SeqRequests
  <2> QED
    BY <1>1, <2>1, <2>2, <2>3, <2>4, <2>5, <2>6, <2>7 DEF Request
<1>2. CASE \E a \in Actors : Step(a)
  <2>1. PICK a \in Actors : Step(a)
    BY <1>2
  <2>2. UNCHANGED <<online, connections>>
    BY <2>1 DEF Step, FindTarget, DeleteInvite, AddMember, DeleteOwnParty, FindParty, RemoveMember,
           SetLeader, CreateOwnParty, CreateAgain, CreateParty, SetMembers, DeleteInvites,
           OpenEmptied, OpenOrClose, SetOpen, Recreate, FindOwnerParty, SetEventParty,
           SetPartyEvent, DeleteEventDocument, RemovePartyEvent
  <2> QED
    BY <2>1, <2>2, SeqSteps, GoesOn
<1>3. CASE Crash \/ \E a \in Actors : CallFails(a)
  BY <1>3, SeqSame DEF Crash, CallFails, Fail
<1>4. CASE UNCHANGED vars
  BY <1>4, SeqSame DEF vars
<1> QED
  BY <1>1, <1>2, <1>3, <1>4 DEF Next

-----------------------------------------------------------------------------
(* Nothing is amiss but what the call is at work on, and what failed calls  *)
(* have left.                                                              *)

\* What a step leaves behind: the call is over, or goes on.
FineAfter(a) ==
    \/ DOMAIN calls' = {} /\ Fine({}, {}, {}, {}, {})'
    \/ DOMAIN calls' = {a} /\ FineFor(calls[a])'

LEMMA FineThen ==
    ASSUME NEW a, NEW call, DOMAIN calls' = {a}, calls'[a] = call, Present(call)', Permitted(call)',
           Fine(Held(call), Electing(call), Departing(call), Untold(call), Begun(call))'
    PROVE  FineAfter(a)
BY DEF FineAfter, FineFor, Fine, EverybodyIn, LeadersIn, OthersOnline, Stuck, ToldParties, Started,
       Present, Permitted, Absent, Leads, Waiting, PartyOf

\* The players, the messages about them and the failures are those there were.
Outside == UNCHANGED <<online, connections, hurt, failures>>

LEMMA PresentStill ==
    ASSUME UNCHANGED <<online, connections>>, NEW call, Present(call), NEW next,
           next.op = call.op, next.who = call.who
    PROVE  Present(next)'
BY DEF Present, Waiting

\* A member leads no party but, it may be, his own.
LEMMA MemberLeads ==
    ASSUME TypeInv, NEW electing, LeadersIn(electing), NEW c \in DOMAIN parties,
           NEW p \in parties[c].members
    PROVE  Leads(p) \subseteq {c}
<1> SUFFICES ASSUME NEW d \in DOMAIN parties, parties[d].leader = p, d # c PROVE FALSE
  BY DEF Leads
<1>1. Absent(d)
  BY DEF Absent, TypeInv, Unique
<1> QED
  BY <1>1 DEF LeadersIn, PartyOf

\* Leaders, members, events and what a listener has heard stay as they are.
LEMMA FineSame ==
    ASSUME NEW held, NEW electing, NEW departing, NEW untold, NEW begun,
           Fine(held, electing, departing, untold, begun),
           Outside, failures = 0 => UNCHANGED heard,
           DOMAIN parties' = DOMAIN parties,
           \A c \in DOMAIN parties : /\ parties'[c].leader = parties[c].leader
                                     /\ parties'[c].members = parties[c].members,
           NEW held2, NEW departing2, NEW untold2, NEW begun2,
           held \subseteq held2, departing \subseteq departing2,
           untold \subseteq untold2, Started(begun2)'
    PROVE  Fine(held2, electing, departing2, untold2, begun2)'
<1>1. EverybodyIn(held2)'
  BY DEF Fine, EverybodyIn, PartyOf, Waiting, Outside
<1>2. \A c \in DOMAIN parties : Absent(c)' <=> Absent(c)
  BY DEF Absent
<1>3. LeadersIn(electing)'
  <2>1. \A p : PartyOf(p)' = PartyOf(p)
    BY DEF PartyOf
  <2> QED
    BY <1>2, <2>1 DEF Fine, LeadersIn, Outside
<1>4. OthersOnline(electing, departing2)'
  BY <1>2 DEF Fine, OthersOnline, Stuck, Waiting, Outside
<1>5. ToldParties(untold2)'
  BY DEF Fine, ToldParties, Outside
<1> QED
  BY <1>1, <1>3, <1>4, <1>5 DEF Fine

\* Party c is written, and a listener has heard this of it.
Writes(c, party) ==
    /\ DOMAIN parties' = DOMAIN parties \cup {c} /\ parties'[c] = party
    /\ \A d \in DOMAIN parties \ {c} : parties'[d] = parties[d]

Says(told, c, leader, members) ==
    /\ told = [d \in DOMAIN told |-> told[d]]
    /\ DOMAIN told \ {c} = DOMAIN heard \ {c} /\ c \in DOMAIN told
    /\ \A d \in DOMAIN heard \ {c} : told[d] = heard[d]
    /\ told[c] = [leader |-> leader, members |-> members]

\* It has a leader who is in it, or is about to get one, or has none as before; who comes into it
\* leads no other.
LedWell(c, party, electing, electing2) ==
    /\ electing \subseteq electing2 \cup {c} /\ electing2 \subseteq electing \cup {c}
    /\ \/ party.leader \in party.members \/ c \in electing2
       \/ c \in DOMAIN parties \ electing /\ Absent(c) /\ party.leader = parties[c].leader
    /\ party.leader \notin party.members =>
          \A d \in DOMAIN parties \ {c} : party.leader \notin parties[d].members
    /\ \A p \in party.members : (c \in DOMAIN parties /\ p \in parties[c].members) \/ Leads(p) \subseteq {c}

\* Its members are looked after.
KeptWell(c, party, held, held2, electing2, departing, departing2) ==
    /\ \A p \in online \ hurt : p \in held \/ (c \in DOMAIN parties /\ p \in parties[c].members) =>
                                p \in party.members \cup held2 \/ Waiting("connect", p)
    /\ \A p \in party.members \ {party.leader} :
          \/ p \in online \cup hurt \cup departing2 \/ Waiting("disconnect", p)
          \/ failures > 1 /\ c \notin electing2 /\ party.leader \notin party.members
    /\ \A p \in departing \ departing2, d \in DOMAIN parties \ {c} : p \notin parties[d].members

LEMMA FineWrite ==
    ASSUME TypeInv, NEW held, NEW electing, NEW departing, NEW untold, NEW begun,
           Fine(held, electing, departing, untold, begun),
           Outside, UNCHANGED events,
           NEW c, NEW party, Writes(c, party),
           NEW held2, NEW electing2, NEW departing2, NEW untold2, NEW begun2,
           LedWell(c, party, electing, electing2),
           KeptWell(c, party, held, held2, electing2, departing, departing2),
           untold \subseteq untold2 \cup {c},
           failures = 0 =>
              (c \in untold2 /\ UNCHANGED heard) \/ Says(heard', c, party.leader, party.members),
           begun \subseteq begun2
    PROVE  Fine(held2, electing2, departing2, untold2, begun2)'
<1>1. EverybodyIn(held2)'
  <2> SUFFICES ASSUME NEW p \in online \ hurt, ~ Waiting("connect", p), p \notin held2
               PROVE  PartyOf(p)' # {}
    BY DEF EverybodyIn, Waiting, Outside
  <2>1. CASE p \in party.members
    BY <2>1 DEF PartyOf, Writes
  <2>2. CASE p \notin party.members
    <3>1. PICK d \in DOMAIN parties : p \in parties[d].members /\ d # c
      BY <2>2 DEF Fine, EverybodyIn, PartyOf, KeptWell
    <3>2. d \in DOMAIN parties' /\ p \in parties'[d].members
      BY <3>1 DEF Writes
    <3> QED
      BY <3>2 DEF PartyOf
  <2> QED
    BY <2>1, <2>2
<1>2. LeadersIn(electing2)'
  <2>1. \A d \in DOMAIN parties \ {c} : Absent(d)' <=> Absent(d)
    BY DEF Absent, Writes
  <2>2. Absent(c)' /\ c \notin electing2 =>
           c \in DOMAIN parties \ electing /\ Absent(c) /\ party.leader = parties[c].leader
    BY DEF Absent, Writes, LedWell
  <2>3. \A d \in DOMAIN parties' \ electing2 : Absent(d)' =>
           d \in DOMAIN parties \ electing /\ Absent(d) /\ parties'[d].leader = parties[d].leader
    BY <2>1, <2>2 DEF Writes, LedWell
  <2>4. ASSUME NEW d \in DOMAIN parties', Absent(d)' PROVE PartyOf(parties[d].leader)' = {}
    <3>1. CASE d = c
      BY <2>4, <3>1 DEF PartyOf, Writes, LedWell, Absent
    <3>2. CASE d # c
      <4>1. d \in DOMAIN parties /\ Absent(d) /\ parties'[d].leader = parties[d].leader
        BY <2>1, <2>4, <3>2 DEF Writes
      <4>2. PartyOf(parties[d].leader) = {} /\ d \in Leads(parties[d].leader)
        BY <4>1 DEF Fine, LeadersIn, Leads
      <4>3. parties[d].leader \notin party.members
        BY <3>2, <4>2 DEF LedWell, PartyOf
      <4> QED
        BY <4>1, <4>2, <4>3 DEF PartyOf, Writes
    <3> QED
      BY <3>1, <3>2
  <2> QED
    BY <2>3, <2>4 DEF Fine, LeadersIn, Outside
<1>3. OthersOnline(electing2, departing2)'
  <2> SUFFICES ASSUME NEW d \in DOMAIN parties', NEW p \in parties'[d].members \ {parties'[d].leader}
               PROVE  \/ p \in online \cup hurt \cup departing2 \/ Waiting("disconnect", p)
                      \/ Stuck(d, electing2)'
    BY DEF OthersOnline, Waiting, Outside
  <2>1. CASE d = c
    BY <2>1 DEF Writes, KeptWell, Stuck, Absent, Outside
  <2>2. CASE d # c
    <3>1. d \in DOMAIN parties /\ parties'[d] = parties[d]
      BY <2>2 DEF Writes
    <3>2. Stuck(d, electing) => Stuck(d, electing2)'
      BY <2>2, <3>1 DEF Stuck, Absent, LedWell, Outside
    <3> QED
      BY <2>2, <3>1, <3>2 DEF Fine, OthersOnline, KeptWell
  <2> QED
    BY <2>1, <2>2
<1>4. ToldParties(untold2)'
  <2> SUFFICES ASSUME failures = 0 PROVE ToldParties(untold2)'
    BY DEF ToldParties, Outside
  <2>1. DOMAIN heard' \ untold2 = DOMAIN parties' \ untold2
    BY DEF Fine, ToldParties, Writes, Says
  <2>2. ASSUME NEW d \in DOMAIN parties' \ untold2
        PROVE  heard'[d] = [leader |-> parties'[d].leader, members |-> parties'[d].members]
    BY DEF Fine, ToldParties, Writes, Says
  <2>3. heard' = [d \in DOMAIN heard' |-> heard'[d]]
    BY DEF Fine, ToldParties, Says
  <2> QED
    BY <2>1, <2>2, <2>3 DEF ToldParties
<1>5. Started(begun2)'
  BY DEF Fine, Started, Outside
<1> QED
  BY <1>1, <1>2, <1>3, <1>4, <1>5 DEF Fine

\* The indexes allow a party with members that takes nobody from another.
LEMMA IndexedWithMembers ==
    ASSUME NEW c, NEW party, Leads(party.leader) \subseteq {c}, party.members # {},
           \A d \in DOMAIN parties \ {c} : parties[d].members \cap party.members = {}
    PROVE  Indexed(c, party)
BY DEF Indexed, Leads

LEMMA LeaderLeads ==
    ASSUME TypeInv, NEW c \in DOMAIN parties
    PROVE  Leads(parties[c].leader) = {c}
BY DEF TypeInv, Unique, Leads

\* A call that is at work on nothing, at a step that leaves leaders and members alone.
Carefree(call) ==
    Held(call) = {} /\ Electing(call) = {} /\ Departing(call) = {} /\ Untold(call) = {}

SameParty(d) == parties'[d].leader = parties[d].leader /\ parties'[d].members = parties[d].members

LEMMA FineOn ==
    ASSUME Active, One, NEW a \in DOMAIN calls, FineFor(calls[a]), Carefree(calls[a]),
           Outside, UNCHANGED heard,
           DOMAIN parties' = DOMAIN parties, \A d \in DOMAIN parties : SameParty(d),
           NEW next, NEW at, CallDoc(next), Go(a, next, at),
           next.op = calls[a].op, next.who = calls[a].who,
           at \notin {"setLeader", "addMember", "deleteInvites", "openEmptied", "recreate"},
           at = "removeMember" => next.seen.members # {next.who},
           \/ /\ UNCHANGED events /\ at # "setPartyEvent"
              /\ next.op = "start" => next.into = calls[a].into
           \/ Started({})'
    PROVE  FineAfter(a)
<1>1. DOMAIN calls' = {a} /\ calls'[a].at = at /\ SameCall(a, next)
  BY GoOne
<1>2. PICK call, after : call = calls[a] /\ after = calls'[a]
  OBVIOUS
<1>3. Present(after)' /\ Permitted(after)'
  BY <1>1, <1>2, PresentStill DEF FineFor, SameCall, Permitted, Outside
<1>4. Started(Begun(after))'
  <2>1. CASE Started({})'
    BY <2>1 DEF Started
  <2>2. CASE /\ UNCHANGED events /\ at # "setPartyEvent"
             /\ next.op = "start" => next.into = calls[a].into
    <3>1. Begun(call) \subseteq Begun(after)
      BY <1>1, <1>2, <2>2 DEF Begun, SameCall
    <3> QED
      BY <1>2, <2>2, <3>1 DEF Started, FineFor, Fine, Outside
  <2> QED
    BY <2>1, <2>2
<1>5. Fine({}, {}, {}, {}, Begun(call))
  BY <1>2 DEF FineFor, Carefree
<1>6. PICK held2, departing2, untold2, begun2 :
         /\ held2 = Held(after) /\ departing2 = Departing(after)
         /\ untold2 = Untold(after) /\ begun2 = Begun(after)
  OBVIOUS
<1>7. Fine(held2, {}, departing2, untold2, begun2)'
  BY <1>4, <1>5, <1>6, FineSame DEF SameParty
<1>8. Fine(Held(after), Electing(after), Departing(after), Untold(after), Begun(after))'
  BY <1>1, <1>2, <1>6, <1>7 DEF Electing
<1> QED
  BY <1>1, <1>2, <1>3, <1>8, FineThen

LEMMA FineOver ==
    ASSUME One, NEW a \in DOMAIN calls, FineFor(calls[a]), Carefree(calls[a]),
           Outside, UNCHANGED heard,
           DOMAIN parties' = DOMAIN parties, \A d \in DOMAIN parties : SameParty(d),
           Return(a), (UNCHANGED events /\ Begun(calls[a]) = {}) \/ Started({})'
    PROVE  FineAfter(a)
<1>1. PICK begun : begun = Begun(calls[a])
  OBVIOUS
<1>2. Fine({}, {}, {}, {}, begun)
  BY <1>1 DEF FineFor, Carefree
<1>3. Started({})'
  BY <1>1, <1>2 DEF Fine, Started, Outside
<1>4. Fine({}, {}, {}, {}, {})'
  BY <1>2, <1>3, FineSame DEF SameParty
<1> QED
  BY <1>4, ReturnOne DEF FineAfter

LEMMA FineJoins ==
    ASSUME TypeInv, Sequential, NEW a, FindTarget(a) \/ DeleteInvite(a), FineFor(calls[a])
    PROVE  FineAfter(a)
<1> DEFINE call == calls[a]
<1>0. /\ a \in DOMAIN calls /\ CallDoc(call) /\ Active /\ One /\ Ready(call, call.at)
      /\ call.at \in {"findTarget", "deleteInvite"}
  BY Now DEF FindTarget, DeleteInvite
<1>1. a \in DOMAIN calls /\ CallDoc(call) /\ Active /\ One /\ call.op = "join"
  BY <1>0 DEF Ready, OpsAt
<1>2. /\ Outside /\ UNCHANGED <<heard, events>>
      /\ DOMAIN parties' = DOMAIN parties /\ \A d \in DOMAIN parties : SameParty(d)
  BY DEF FindTarget, DeleteInvite, SameParty, Outside, aside
<1>3. Carefree(call) /\ Begun(call) = {}
  BY <1>0, <1>1 DEF Carefree, Held, Electing, Departing, Untold, Begun
<1>4. CASE Return(a)
  BY <1>1, <1>2, <1>3, <1>4, FineOver
<1>5. ASSUME NEW next, NEW at, Go(a, next, at), CallDoc(next), next.op = "join",
             next.who = call.who, at \in {"deleteInvite", "findParty", "deleteParty"}
      PROVE  FineAfter(a)
  BY <1>1, <1>2, <1>3, <1>5, FineOn
<1>6. CASE FindTarget(a)
  <2>1. ASSUME NEW d \in PartyOf(call.other), NEW at, at \in {"deleteInvite", "findParty", "deleteParty"},
               Go(a, [call EXCEPT !.into = d, !.other = None], at)
        PROVE  FineAfter(a)
    <3>1. PICK next : next = [call EXCEPT !.into = d, !.other = None]
      OBVIOUS
    <3>2. d \in PartyIds
      BY OwnParty DEF TypeInv, Stored
    <3>3. CallDoc(next) /\ next.op = call.op /\ next.who = call.who
      BY <1>1, <3>1, <3>2 DEF CallDoc, CallDocs
    <3> QED
      BY <1>1, <1>5, <2>1, <3>1, <3>3
  <2> QED
    BY <1>4, <1>6, <2>1 DEF FindTarget, GiveUp
<1>7. CASE DeleteInvite(a)
  BY <1>1, <1>4, <1>5, <1>7 DEF DeleteInvite, GiveUp
<1> QED
  BY <1>6, <1>7

LEMMA FineFindParty ==
    ASSUME TypeInv, Sequential, NEW a, FindParty(a), FineFor(calls[a])
    PROVE  FineAfter(a)
<1> DEFINE call == calls[a]
<1>1. /\ a \in DOMAIN calls /\ CallDoc(call) /\ Active /\ One /\ Ready(call, "findParty")
      /\ call.at = "findParty" /\ call \in CallDocs
      /\ call.op = "start" => \E d \in PartyOf(call.who) : parties[d].leader # call.who
  BY Now DEF FindParty, Current, CallDoc
<1>2. /\ Outside /\ UNCHANGED <<heard, events>>
      /\ DOMAIN parties' = DOMAIN parties /\ \A d \in DOMAIN parties : SameParty(d)
  BY DEF FindParty, SameParty, Outside, aside
<1>3. Carefree(call)
  BY <1>1 DEF Carefree, Held, Electing, Departing, Untold
<1>4. ASSUME NEW c \in PartyOf(call.who), Cardinality(parties[c].members) # 1,
             Go(a, [call EXCEPT !.seen = Read(c)], "removeMember")
      PROVE  FineAfter(a)
  <2>1. PICK next : next = [call EXCEPT !.seen = Read(c)]
    OBVIOUS
  <2>2. Read(c) \in SeenDocs
    BY OwnParty, ReadDoc DEF TypeInv
  <2>3. /\ CallDoc(next) /\ next.op = call.op /\ next.who = call.who /\ next.into = call.into
        /\ next.seen = Read(c)
    BY <1>1, <2>1, <2>2 DEF CallDoc, CallDocs
  <2>4. next.seen.members # {next.who}
    <3>1. next.seen.members = parties[c].members
      BY <2>3 DEF Read, Seen
    <3> QED
      BY <1>4, <3>1, FS_Singleton
  <2> QED
    BY <1>1, <1>2, <1>3, <1>4, <2>1, <2>3, <2>4, FineOn
<1>5. CASE Return(a) /\ \A c \in PartyOf(call.who) : Cardinality(parties[c].members) = 1
  <2>1. failures = 0 => call.op # "start"
    <3> SUFFICES ASSUME failures = 0, call.op = "start" PROVE FALSE
      OBVIOUS
    <3>1. PICK d \in PartyOf(call.who) : parties[d].leader # call.who
      BY <1>1
    <3>2. /\ d \in DOMAIN parties /\ call.who \in parties[d].members
          /\ parties[d].members \in SUBSET Players
      BY OwnParty, ReadDoc DEF TypeInv, PartyDocs
    <3>3. parties[d].members = {call.who}
      BY <1>5, <3>2, OnlyMember
    <3>4. ~ Absent(d)
      BY <1>3, <3>2 DEF FineFor, Fine, LeadersIn, Carefree
    <3> QED
      BY <3>1, <3>3, <3>4 DEF Absent
  <2>2. failures = 0 => Begun(call) = {}
    BY <2>1 DEF Begun
  <2>3. Started({})'
    BY <1>2, <2>2 DEF FineFor, Fine, Started, Outside
  <2> QED
    BY <1>1, <1>2, <1>3, <1>5, <2>3, FineOver
<1> QED
  BY <1>4, <1>5 DEF FindParty

LEMMA FineFindOwnerParty ==
    ASSUME TypeInv, Sequential, NEW a, FindOwnerParty(a), FineFor(calls[a])
    PROVE  FineAfter(a)
<1> DEFINE call == calls[a]
<1>1. /\ a \in DOMAIN calls /\ CallDoc(call) /\ Active /\ One /\ call.op = "start"
      /\ call.at = "findOwnerParty" /\ call \in CallDocs /\ call.who \in Players
  <2>1. /\ a \in DOMAIN calls /\ CallDoc(call) /\ Active /\ One /\ call.at = "findOwnerParty"
        /\ Ready(call, "findOwnerParty")
    BY Now DEF FindOwnerParty
  <2> QED
    BY <2>1 DEF CallDoc, Ready, OpsAt
<1>2. /\ Outside /\ UNCHANGED <<heard, events>>
      /\ DOMAIN parties' = DOMAIN parties /\ \A d \in DOMAIN parties : SameParty(d)
  BY DEF FindOwnerParty, SameParty, Outside, aside
<1>3. Carefree(call)
  BY <1>1 DEF Carefree, Held, Electing, Departing, Untold
<1>4. CASE Go(a, call, "createParty") \/ Go(a, call, "findParty")
  BY <1>1, <1>2, <1>3, <1>4, FineOn
<1>5. ASSUME NEW c \in PartyOf(call.who),
             Go(a, [call EXCEPT !.seen = Read(c), !.todo = parties[c].members \ {call.who}],
                "setMembers")
      PROVE  FineAfter(a)
  <2>1. Read(c) \in SeenDocs /\ parties[c].members \subseteq Players
    BY OwnParty, ReadDoc DEF TypeInv, PartyDocs
  <2>2. PICK next : next = [call EXCEPT !.seen = Read(c), !.todo = parties[c].members \ {call.who}]
    OBVIOUS
  <2>3. CallDoc(next) /\ next.op = call.op /\ next.who = call.who /\ next.into = call.into
    BY <1>1, <2>1, <2>2 DEF CallDoc, CallDocs
  <2>4. Go(a, next, "setMembers")
    BY <1>5, <2>2
  <2> HIDE DEF call
  <2>5. next.op = calls[a].op /\ next.who = calls[a].who /\ next.into = calls[a].into
    BY <2>3 DEF call
  <2> QED
    BY <1>1, <1>2, <1>3, <2>3, <2>4, <2>5, FineOn DEF call
<1> QED
  BY <1>4, <1>5 DEF FindOwnerParty

LEMMA FineEventSteps ==
    ASSUME TypeInv, Sequential, NEW a, FineFor(calls[a]),
           \/ SetEventParty(a) \/ SetPartyEvent(a) \/ DeleteEventDocument(a) \/ RemovePartyEvent(a)
    PROVE  FineAfter(a)
<1> DEFINE call == calls[a]
<1>1. /\ a \in DOMAIN calls /\ CallDoc(call) /\ Active /\ One
      /\ \/ SetEventParty(a) /\ call.at = "setEventParty" /\ call.op = "start"
         \/ SetPartyEvent(a) /\ call.at = "setPartyEvent" /\ call.op = "start"
         \/ DeleteEventDocument(a) /\ call.at = "deleteEvent" /\ call.op = "deleteEvent"
         \/ RemovePartyEvent(a) /\ call.at = "removePartyEvent" /\ call.op = "deleteEvent"
  <2>1. /\ a \in DOMAIN calls /\ CallDoc(call) /\ Active /\ One /\ Ready(call, call.at)
        /\ \/ SetEventParty(a) /\ call.at = "setEventParty"
           \/ SetPartyEvent(a) /\ call.at = "setPartyEvent"
           \/ DeleteEventDocument(a) /\ call.at = "deleteEvent"
           \/ RemovePartyEvent(a) /\ call.at = "removePartyEvent"
    BY Now DEF SetEventParty, SetPartyEvent, DeleteEventDocument, RemovePartyEvent
  <2> QED
    BY <2>1 DEF Ready, OpsAt
<1>2. Carefree(call)
  BY <1>1 DEF Carefree, Held, Electing, Departing, Untold
<1>3. /\ Outside /\ UNCHANGED heard
      /\ DOMAIN parties' = DOMAIN parties /\ \A d \in DOMAIN parties : SameParty(d)
  <2>1. Outside /\ UNCHANGED heard
    BY DEF SetEventParty, SetPartyEvent, DeleteEventDocument, RemovePartyEvent, Outside, aside
  <2>2. DOMAIN parties' = DOMAIN parties /\ \A d \in DOMAIN parties : SameParty(d)
    <3>1. \A d \in DOMAIN parties : \A e : /\ [parties[d] EXCEPT !.event = e].leader = parties[d].leader
                                           /\ [parties[d] EXCEPT !.event = e].members = parties[d].members
      BY ReadDoc DEF TypeInv, PartyDocs
    <3>2. CASE UNCHANGED parties
      BY <3>2 DEF SameParty
    <3>3. CASE RemovePartyEvent(a)
      BY <3>1, <3>3 DEF RemovePartyEvent, SameParty
    <3>4. CASE SetPartyEvent(a)
      <4>1. \/ UNCHANGED parties
            \/ parties' = [parties EXCEPT ![call.seen.id].event = {call.into}]
        BY <3>4 DEF SetPartyEvent
      <4>2. CASE parties' = [parties EXCEPT ![call.seen.id].event = {call.into}]
        BY <3>1, <4>2 DEF SameParty, TypeInv, Stored
      <4> QED
        BY <3>2, <4>1, <4>2
    <3> QED
      BY <3>2, <3>3, <3>4 DEF SetEventParty, DeleteEventDocument
  <2> QED
    BY <2>1, <2>2
<1> PICK begun : begun = Begun(call)
  OBVIOUS
<1>4. Started(begun)
  BY DEF FineFor, Fine
<1>5. Started({})'
  <2>1. CASE call.op = "deleteEvent"
    <3>1. begun = {} /\ \A e \in DOMAIN events' : e \in DOMAIN events /\ events'[e] = events[e]
      BY <1>1, <2>1 DEF Begun, DeleteEventDocument, RemoveEvent, Without, RemovePartyEvent
    <3> QED
      BY <1>3, <1>4, <3>1 DEF Started, Outside
  <2>2. CASE SetPartyEvent(a)
    <3>1. begun = {} /\ UNCHANGED events
      BY <2>2 DEF Begun, SetPartyEvent, At
    <3> QED
      BY <1>3, <1>4, <3>1 DEF Started, Outside
  <2>3. CASE SetEventParty(a)
    <3>1. begun \subseteq {call.into}
      BY DEF Begun
    <3>2. \A e \in DOMAIN events : events[e] \in EventDocs
      BY DEF TypeInv, Stored
    <3>3. /\ DOMAIN events' = DOMAIN events
          /\ \A e \in DOMAIN events : e # call.into => events'[e] = events[e]
          /\ call.into \in DOMAIN events => events'[call.into].party # {}
      BY <2>3, <3>2 DEF SetEventParty, EventDocs
    <3> QED
      BY <1>3, <1>4, <3>1, <3>3 DEF Started, Outside
  <2> QED
    BY <1>1, <2>1, <2>2, <2>3
<1>6. CASE Return(a)
  BY <1>1, <1>2, <1>3, <1>5, <1>6, FineOver
<1>7. ASSUME NEW at \in {"setPartyEvent", "removePartyEvent"}, Go(a, call, at) PROVE FineAfter(a)
  BY <1>1, <1>2, <1>3, <1>5, <1>7, FineOn
<1> QED
  BY <1>1, <1>6, <1>7 DEF SetEventParty, SetPartyEvent, DeleteEventDocument, RemovePartyEvent

LEMMA FineGoes ==
    ASSUME Active, One, NEW a \in DOMAIN calls, FineFor(calls[a]), Outside,
           NEW next, NEW at, CallDoc(next), Go(a, next, at),
           next.op = calls[a].op, next.who = calls[a].who,
           \A after : /\ after.at = at /\ after.op = next.op /\ after.who = next.who
                      /\ after.seen = next.seen /\ after.into = next.into
                      /\ after.todo = next.todo
              => /\ Fine(Held(after), Electing(after), Departing(after), Untold(after), Begun(after))'
                 /\ Permitted(after)'
    PROVE  FineAfter(a)
<1>1. DOMAIN calls' = {a} /\ calls'[a].at = at /\ SameCall(a, next)
  BY GoOne
<1>2. PICK after : after = calls'[a]
  OBVIOUS
<1>3. Present(after)'
  BY <1>1, <1>2, PresentStill DEF FineFor, SameCall, Outside
<1>4. /\ Fine(Held(after), Electing(after), Departing(after), Untold(after), Begun(after))'
      /\ Permitted(after)'
  BY <1>1, <1>2 DEF SameCall
<1> QED
  BY <1>1, <1>2, <1>3, <1>4, FineThen

\* What a listener has heard after a message about a member, a leader or a party.
LEMMA HeardSays ==
    ASSUME failures = 0, ToldParties({}), NEW c \in DOMAIN parties, NEW p
    PROVE  /\ Says(HeardLeft(c, p), c, parties[c].leader, parties[c].members \ {p})
           /\ Says(HeardJoined(c, p), c, parties[c].leader, parties[c].members \cup {p})
           /\ Says(HeardLeader(c, p), c, p, parties[c].members)
<1>1. /\ c \in DOMAIN heard /\ heard = [d \in DOMAIN heard |-> heard[d]]
      /\ heard[c] = [leader |-> parties[c].leader, members |-> parties[c].members]
  BY DEF ToldParties
<1>2. /\ [heard[c] EXCEPT !.members = @ \ {p}]
            = [leader |-> parties[c].leader, members |-> parties[c].members \ {p}]
      /\ [heard[c] EXCEPT !.members = @ \cup {p}]
            = [leader |-> parties[c].leader, members |-> parties[c].members \cup {p}]
      /\ [heard[c] EXCEPT !.leader = p] = [leader |-> p, members |-> parties[c].members]
  BY <1>1
<1>3. ASSUME NEW leader, NEW members, NEW told,
             told = [heard EXCEPT ![c] = [leader |-> leader, members |-> members]]
      PROVE  Says(told, c, leader, members)
  BY <1>1, <1>3 DEF Says
<1>4. /\ HeardLeft(c, p) = [heard EXCEPT ![c] = [heard[c] EXCEPT !.members = @ \ {p}]]
      /\ HeardJoined(c, p) = [heard EXCEPT ![c] = [heard[c] EXCEPT !.members = @ \cup {p}]]
      /\ HeardLeader(c, p) = [heard EXCEPT ![c] = [heard[c] EXCEPT !.leader = p]]
  BY <1>1 DEF HeardLeft, HeardJoined, HeardLeader
<1> QED
  BY <1>2, <1>3, <1>4

LEMMA HeardOfParty ==
    ASSUME failures = 0, NEW before, DOMAIN before = DOMAIN heard,
           \A d \in DOMAIN heard : before[d] = heard[d], NEW c, NEW p
    PROVE  Says(HeardParty(c, p, before), c, p, {p})
BY DEF HeardParty, Says, Put

LEMMA FineRemoveMember ==
    ASSUME TypeInv, Sequential, NEW a, RemoveMember(a), FineFor(calls[a])
    PROVE  FineAfter(a)
<1> DEFINE call == calls[a]
           c == call.seen.id
           rest == [parties[c] EXCEPT !.members = @ \ {call.who}]
<1>1. /\ a \in DOMAIN calls /\ CallDoc(call) /\ Ready(call, "removeMember")
      /\ call.at = "removeMember" /\ ReadNow(call) /\ call.who \in call.seen.members
      /\ call.op = "start" => call.seen.leader # call.who
      /\ Active /\ One
  BY Now DEF RemoveMember, Current
<1>2. /\ call.op \in {"leave", "join", "kick", "start", "disconnect"} /\ call \in CallDocs
      /\ call.who \in Players
  BY <1>1 DEF Ready, OpsAt, CallDoc
<1>3. /\ c \in DOMAIN parties /\ call.who \in parties[c].members
      /\ call.seen.leader = parties[c].leader /\ call.seen.members = parties[c].members
  BY <1>1, ReadFields
<1>4. Held(call) = {} /\ Electing(call) = {} /\ Untold(call) = {} /\ Departing(call) \subseteq {call.who}
  BY <1>1 DEF Held, Electing, Untold, Departing
<1> PICK p, departing, begun, led : /\ p = call.who /\ departing = Departing(call)
                                    /\ begun = Begun(call) /\ led = (parties[c].leader = p)
  OBVIOUS
<1>5. Fine({}, {}, departing, {}, begun)
  BY <1>4 DEF FineFor
<1>6. Outside /\ UNCHANGED events
  BY DEF RemoveMember, Outside, aside
<1>7. parties[c] \in PartyDocs
  BY <1>3, ReadDoc DEF TypeInv
<1>8. rest.leader = parties[c].leader /\ rest.members = parties[c].members \ {p}
  BY <1>7 DEF PartyDocs
<1>9. Leads(p) \subseteq {c} /\ Leads(parties[c].leader) = {c}
  BY <1>3, <1>5, MemberLeads, LeaderLeads DEF Fine
<1>10. \A d \in DOMAIN parties \ {c} : parties[d].members \cap parties[c].members = {}
  BY <1>3 DEF TypeInv, Unique
<1>11. rest.members = {} => call.op = "disconnect" /\ ~ led /\ Absent(c)
  BY <1>1, <1>3, <1>8 DEF FineFor, Permitted, Absent
<1>12. CASE ~ Indexed(c, rest)
  <2>1. Return(a) /\ UNCHANGED <<parties, heard>>
    BY <1>12 DEF RemoveMember
  <2>2. rest.members = {}
    <3>1. \A d \in DOMAIN parties \ {c} : parties[d].members \cap rest.members = {}
      BY <1>8, <1>10
    <3> HIDE DEF rest
    <3> QED
      BY <1>8, <1>9, <1>12, <3>1, IndexedWithMembers
  <2>3. PICK d \in DOMAIN parties \ {c} : parties[d].members = {}
    <3>1. \A d \in DOMAIN parties \ {c} : parties[d].leader # parties[c].leader
      BY <1>3 DEF TypeInv, Unique
    <3> HIDE DEF rest
    <3> QED
      BY <1>8, <1>10, <1>12, <2>2, <3>1 DEF Indexed
  <2>4. Absent(c) /\ Absent(d) /\ failures \in Nat /\ call.op = "disconnect"
    BY <1>11, <2>2, <2>3 DEF Absent, TypeInv, Around
  <2>5. failures > 1
    BY <1>3, <1>5, <2>3, <2>4 DEF Fine, LeadersIn
  <2>6. PICK id, party : id = c /\ party = parties[c]
    OBVIOUS
  <2>7. Writes(id, party)
    BY <1>3, <2>1, <2>6 DEF Writes
  <2>8. LedWell(id, party, {}, {})
    BY <1>3, <1>5, <2>4, <2>6 DEF LedWell, Absent, Fine, LeadersIn, PartyOf
  <2>9. KeptWell(id, party, {}, {}, {}, departing, {})
    BY <1>3, <1>4, <1>10, <2>4, <2>5, <2>6 DEF KeptWell, Absent
  <2>10. begun \subseteq {} /\ {} \subseteq {} \cup {id} /\ failures # 0
    BY <2>4, <2>5 DEF Begun
  <2>11. Fine({}, {}, {}, {}, {})'
    BY <1>5, <1>6, <2>7, <2>8, <2>9, <2>10, FineWrite
  <2> QED
    BY <1>1, <2>1, <2>11, ReturnOne DEF FineAfter
<1>13. CASE Indexed(c, rest)
  <2>1. /\ parties' = [parties EXCEPT ![c].members = @ \ {p}] /\ heard' = HeardLeft(c, p)
        /\ \/ ~ led /\ GoOrReturn(a, call, Removed(call.op))
           \/ led /\ \E q \in parties[c].members : Go(a, [call EXCEPT !.other = q], "setLeader")
    BY <1>3, <1>13, PartyAssumption, ReadDoc DEF RemoveMember, Successors, TypeInv, PartyDocs
  <2>2. /\ DOMAIN parties' = DOMAIN parties
        /\ parties'[c].members = parties[c].members \ {p} /\ parties'[c].leader = parties[c].leader
        /\ \A d \in DOMAIN parties \ {c} : parties'[d] = parties[d]
    BY <1>3, <2>1, RemovedFromAll
  <2>3. ASSUME NEW held2, NEW electing2, NEW departing2, NEW untold2, NEW begun2,
               call.op # "disconnect" => p \in held2, electing2 = IF led THEN {c} ELSE {},
               begun \subseteq begun2
        PROVE  Fine(held2, electing2, departing2, untold2, begun2)'
    <3>1. PICK id, party : id = c /\ party = parties'[c]
      OBVIOUS
    <3>2. Writes(id, party)
      BY <1>3, <2>2, <3>1 DEF Writes
    <3>3. failures = 0 => Says(heard', id, party.leader, party.members)
      <4> SUFFICES ASSUME failures = 0 PROVE Says(heard', id, party.leader, party.members)
        OBVIOUS
      <4>1. Says(HeardLeft(c, p), c, parties[c].leader, parties[c].members \ {p})
        BY <1>3, <1>5, HeardSays DEF Fine
      <4> QED
        BY <2>1, <2>2, <3>1, <4>1
    <3>4. LedWell(id, party, {}, electing2)
      <4>1. {} \subseteq electing2 \cup {c} /\ electing2 \subseteq {} \cup {c}
        BY <2>3
      <4>2. \/ party.leader \in party.members \/ c \in electing2
            \/ c \in DOMAIN parties \ {} /\ Absent(c) /\ party.leader = parties[c].leader
        BY <1>3, <2>2, <2>3, <3>1 DEF Absent
      <4>3. party.leader \notin party.members =>
               \A d \in DOMAIN parties \ {c} : party.leader \notin parties[d].members
        <5>1. CASE led
          BY <1>3, <1>10, <2>2, <3>1, <5>1
        <5>2. CASE ~ led
          BY <1>3, <1>5, <2>2, <3>1, <5>2 DEF Absent, Fine, LeadersIn, PartyOf
        <5> QED
          BY <5>1, <5>2
      <4> QED
        BY <1>3, <2>2, <3>1, <4>1, <4>2, <4>3 DEF LedWell
    <3>5. KeptWell(id, party, {}, held2, electing2, departing, departing2)
      <4>1. \A x \in online : x \in parties[c].members =>
                                 x \in party.members \cup held2 \/ Waiting("connect", x)
        BY <1>1, <2>2, <2>3, <3>1 DEF Sequential, Leaving
      <4>2. \A x \in party.members \ {party.leader} :
               \/ x \in online \cup hurt \cup departing2 \/ Waiting("disconnect", x)
               \/ failures > 1 /\ c \notin electing2 /\ party.leader \notin party.members
        BY <1>3, <1>4, <1>5, <2>2, <2>3, <3>1 DEF Fine, OthersOnline, Stuck, Absent
      <4>3. \A x \in departing \ departing2, d \in DOMAIN parties \ {c} : x \notin parties[d].members
        BY <1>3, <1>4, <1>10
      <4> QED
        BY <3>1, <4>1, <4>2, <4>3 DEF KeptWell
    <3>6. {} \subseteq untold2 \cup {id}
      OBVIOUS
    <3> QED
      BY <1>5, <1>6, <2>3, <3>2, <3>3, <3>4, <3>5, <3>6, FineWrite
  <2>4. CASE ~ led /\ Removed(call.op) = "return"
    <3>1. call.op = "disconnect"
      BY <1>2, <2>4 DEF Removed
    <3>2. begun = {}
      BY <3>1 DEF Begun
    <3>3. Fine({}, {}, {}, {}, {})'
      BY <2>3, <2>4, <3>1, <3>2
    <3> QED
      BY <1>1, <2>1, <2>4, <3>3, ReturnOne DEF GoOrReturn, FineAfter
  <2>5. CASE ~ led /\ Removed(call.op) # "return"
    <3>1. /\ Removed(call.op) \in {"createParty", "addMember"} /\ call.op # "disconnect"
          /\ Go(a, call, Removed(call.op))
      BY <1>2, <2>1, <2>5 DEF Removed, GoOrReturn
    <3>2. Leads(p)' = {}
      BY <1>9, <2>2, <2>5 DEF Leads
    <3>3. ASSUME NEW after, after.at = Removed(call.op), after.op = call.op, after.who = call.who,
                 after.seen = call.seen, after.into = call.into, after.todo = call.todo
          PROVE  /\ Fine(Held(after), Electing(after), Departing(after), Untold(after), Begun(after))'
                 /\ Permitted(after)'
      <4>1. PICK held2, electing2, departing2, untold2, begun2 :
               /\ held2 = Held(after) /\ electing2 = Electing(after)
               /\ departing2 = Departing(after) /\ untold2 = Untold(after) /\ begun2 = Begun(after)
        OBVIOUS
      <4>2. held2 = {p} /\ electing2 = {} /\ begun \subseteq begun2
        BY <1>1, <3>1, <3>3, <4>1 DEF Held, Electing, Begun
      <4>3. Fine(held2, electing2, departing2, untold2, begun2)'
        BY <2>3, <2>5, <4>2
      <4>4. Permitted(after)'
        BY <3>1, <3>2, <3>3 DEF Permitted, Leads
      <4> QED
        BY <4>1, <4>3, <4>4
    <3> QED
      BY <1>1, <1>6, <3>1, <3>3, FineGoes
  <2>6. ASSUME led, NEW q \in parties[c].members, Go(a, [call EXCEPT !.other = q], "setLeader")
        PROVE  FineAfter(a)
    <3>1. PICK next : next = [call EXCEPT !.other = q]
      OBVIOUS
    <3>2. q \in Players
      BY <1>7 DEF PartyDocs
    <3>3. /\ CallDoc(next) /\ next.op = call.op /\ next.who = call.who
          /\ next.seen = call.seen /\ next.into = call.into
      BY <1>1, <1>2, <3>1, <3>2 DEF CallDoc, CallDocs
    <3>4. ASSUME NEW after, after.at = "setLeader", after.op = next.op, after.who = next.who,
                 after.seen = next.seen, after.into = next.into, after.todo = next.todo
          PROVE  /\ Fine(Held(after), Electing(after), Departing(after), Untold(after), Begun(after))'
                 /\ Permitted(after)'
      <4>1. PICK held2, electing2, departing2, untold2, begun2 :
               /\ held2 = Held(after) /\ electing2 = Electing(after)
               /\ departing2 = Departing(after) /\ untold2 = Untold(after) /\ begun2 = Begun(after)
        OBVIOUS
      <4>2. /\ call.op # "disconnect" => p \in held2
            /\ electing2 = {c} /\ begun \subseteq begun2
        BY <1>1, <1>2, <3>3, <3>4, <4>1 DEF Held, Electing, Begun
      <4>3. Fine(held2, electing2, departing2, untold2, begun2)'
        BY <2>3, <2>6, <4>2
      <4>4. Permitted(after)'
        BY <1>2, <3>3, <3>4 DEF Permitted
      <4> QED
        BY <4>1, <4>3, <4>4
    <3> QED
      BY <1>1, <1>6, <2>6, <3>1, <3>3, <3>4, FineGoes
  <2> QED
    BY <2>1, <2>4, <2>5, <2>6
<1> QED
  BY <1>12, <1>13

LEMMA FineSetLeader ==
    ASSUME TypeInv, Sequential, NEW a, SetLeader(a), FineFor(calls[a])
    PROVE  FineAfter(a)
<1> DEFINE call == calls[a]
           c == call.seen.id
           led == [parties[c] EXCEPT !.leader = call.other]
<1>1. /\ a \in DOMAIN calls /\ CallDoc(call) /\ Ready(call, "setLeader")
      /\ Current(call) /\ call.at = "setLeader" /\ Active /\ One
  BY Now DEF SetLeader
<1>2. /\ call.op \in {"setLeader", "leave", "join", "kick", "start", "disconnect"}
      /\ call \in CallDocs
  BY <1>1 DEF Ready, OpsAt, CallDoc
<1>3. /\ c \in DOMAIN parties /\ call.other \in parties[c].members /\ parties[c].leader = call.who
      /\ call.op # "setLeader" => PartyOf(call.who) = {} /\ call.op # "start"
  <2>1. CASE call.op = "setLeader"
    BY <1>1, <2>1, ReadFields DEF Current
  <2>2. CASE call.op # "setLeader"
    BY <1>1, <2>2 DEF Current
  <2> QED
    BY <2>1, <2>2
<1>4. /\ Untold(call) = {} /\ Departing(call) = {}
      /\ call.op = "setLeader" => Held(call) = {} /\ Electing(call) = {} /\ Begun(call) = {}
      /\ call.op # "setLeader" => Electing(call) = {c} /\ Begun(call) = {}
      /\ Held(call) = IF call.op \in {"setLeader", "disconnect"} THEN {} ELSE {call.who}
  BY <1>1, <1>2, <1>3 DEF Held, Electing, Untold, Departing, Begun
<1> PICK p, q, id, held, electing : /\ p = call.who /\ q = call.other /\ id = c
                                    /\ held = Held(call) /\ electing = Electing(call)
  OBVIOUS
<1>5. Fine(held, electing, {}, {}, {}) /\ electing \subseteq {id}
  BY <1>2, <1>4 DEF FineFor
<1>6. parties[c] \in PartyDocs /\ led.leader = q /\ led.members = parties[c].members
  BY <1>3, ReadDoc DEF TypeInv, PartyDocs
<1>7. Indexed(c, led)
  <2>1. \A d \in DOMAIN parties \ {c} : parties[d].members \cap led.members = {}
    BY <1>3, <1>6 DEF TypeInv, Unique
  <2>2. Leads(led.leader) \subseteq {c} /\ led.members # {}
    BY <1>3, <1>5, <1>6, MemberLeads DEF Fine
  <2> HIDE DEF led
  <2> QED
    BY <2>1, <2>2, IndexedWithMembers
<1>8. CASE led = parties[c]
  <2>1. call.op = "setLeader"
    BY <1>3, <1>6, <1>8 DEF PartyOf
  <2>2. Carefree(call) /\ Begun(call) = {}
    BY <1>4, <2>1 DEF Carefree
  <2>3. Return(a) /\ Outside /\ UNCHANGED <<parties, heard, events>>
    BY <1>8 DEF SetLeader, Outside, aside
  <2>4. \A d \in DOMAIN parties : SameParty(d)
    BY <2>3 DEF SameParty
  <2> QED
    BY <1>1, <2>2, <2>3, <2>4, FineOver
<1>9. CASE led # parties[c]
  <2>1. /\ Outside /\ UNCHANGED events
        /\ parties' = [parties EXCEPT ![c] = led] /\ heard' = HeardLeader(c, call.other)
        /\ GoOrReturn(a, [call EXCEPT !.other = None], Removed(call.op))
    BY <1>3, <1>7, <1>9 DEF SetLeader, Outside, aside
  <2>2. PICK party : party = led
    OBVIOUS
  <2>3. Writes(id, party)
    BY <1>3, <2>1, <2>2 DEF Writes, TypeInv, Stored
  <2>4. failures = 0 => Says(heard', id, party.leader, party.members)
    <3> SUFFICES ASSUME failures = 0 PROVE Says(heard', id, party.leader, party.members)
      OBVIOUS
    <3>1. ToldParties({})
      BY <1>5 DEF Fine
    <3>2. Says(HeardLeader(id, q), id, q, parties[id].members)
      BY <1>3, <3>1, HeardSays
    <3> QED
      BY <1>6, <2>1, <2>2, <3>2
  <2>5. \A x \in party.members \ {party.leader} : x \in online \cup hurt \/ Waiting("disconnect", x)
    <3>1. ~ Stuck(id, electing)
      BY <1>1, <1>2, <1>3, <1>4 DEF FineFor, Permitted, Current, ReadNow, Read, Seen, Stuck, Absent
    <3>2. \A x \in parties[id].members \ {p} : x \in online \cup hurt \/ Waiting("disconnect", x)
      BY <1>3, <1>5, <3>1 DEF Fine, OthersOnline
    <3>3. call.op = "setLeader" => p \in online \/ Waiting("disconnect", p)
      BY DEF FineFor, Present
    <3>4. call.op # "setLeader" => p \notin parties[id].members
      BY <1>3 DEF PartyOf
    <3> QED
      BY <1>6, <2>2, <3>2, <3>3, <3>4
  <2>6. ASSUME NEW held2, NEW departing2, NEW untold2, NEW begun2, held \subseteq held2
        PROVE  Fine(held2, {}, departing2, untold2, begun2)'
    <3>1. LedWell(id, party, electing, {})
      BY <1>3, <1>5, <1>6, <2>2 DEF LedWell
    <3>2. KeptWell(id, party, held, held2, {}, {}, departing2)
      BY <1>3, <1>6, <2>2, <2>5, <2>6 DEF KeptWell
    <3>3. {} \subseteq begun2 /\ {} \subseteq untold2 \cup {id}
      OBVIOUS
    <3> QED
      BY <1>5, <2>1, <2>3, <2>4, <3>1, <3>2, <3>3, FineWrite
  <2>7. PICK next : next = [call EXCEPT !.other = None]
    OBVIOUS
  <2>8. /\ CallDoc(next) /\ next.op = call.op /\ next.who = call.who
        /\ next.seen = call.seen /\ next.into = call.into
    BY <1>1, <1>2, <2>7 DEF CallDoc, CallDocs
  <2>9. CASE Removed(call.op) = "return"
    <3>1. held = {}
      BY <1>2, <1>4, <2>9 DEF Removed
    <3>2. Fine({}, {}, {}, {}, {})'
      BY <2>6, <3>1
    <3> QED
      BY <1>1, <2>1, <2>9, <3>2, ReturnOne DEF GoOrReturn, FineAfter
  <2>10. CASE Removed(call.op) # "return"
    <3>1. Removed(call.op) \in {"createParty", "addMember"} /\ Go(a, next, Removed(call.op))
      BY <1>2, <2>1, <2>7, <2>10 DEF Removed, GoOrReturn
    <3>2. Leads(p)' = {}
      <4>1. call.op # "setLeader"
        BY <2>10 DEF Removed
      <4>2. q # p /\ Leads(p) = {id}
        BY <1>3, <4>1, LeaderLeads DEF PartyOf
      <4>3. party.leader = q
        BY <1>6, <2>2
      <4> QED
        BY <2>3, <4>2, <4>3 DEF Leads, Writes
    <3>3. ASSUME NEW after, after.at = Removed(call.op), after.op = next.op, after.who = next.who,
                 after.seen = next.seen, after.into = next.into, after.todo = next.todo
          PROVE  /\ Fine(Held(after), Electing(after), Departing(after), Untold(after), Begun(after))'
                 /\ Permitted(after)'
      <4>1. PICK held2, electing2, departing2, untold2, begun2 :
               /\ held2 = Held(after) /\ electing2 = Electing(after)
               /\ departing2 = Departing(after) /\ untold2 = Untold(after) /\ begun2 = Begun(after)
        OBVIOUS
      <4>2. held \subseteq held2 /\ electing2 = {}
        BY <1>4, <2>8, <3>1, <3>3, <4>1 DEF Held, Electing
      <4>3. Fine(held2, electing2, departing2, untold2, begun2)'
        BY <2>6, <4>2
      <4>4. Permitted(after)'
        BY <2>8, <3>1, <3>2, <3>3 DEF Permitted, Leads
      <4> QED
        BY <4>1, <4>3, <4>4
    <3> QED
      BY <1>1, <2>1, <2>8, <3>1, <3>3, FineGoes
  <2> QED
    BY <2>9, <2>10
<1> QED
  BY <1>8, <1>9

LEMMA FineAddMember ==
    ASSUME TypeInv, Sequential, NEW a, AddMember(a), FineFor(calls[a])
    PROVE  FineAfter(a)
<1> DEFINE call == calls[a]
           c == call.into
           joined == [parties[c] EXCEPT !.members = @ \cup {call.who}]
<1>1. /\ a \in DOMAIN calls /\ Ready(call, "addMember") /\ call.at = "addMember" /\ Active /\ One
      /\ c \in DOMAIN parties /\ PartyOf(call.who) = {}
  BY Now DEF AddMember, Current
<1>2. call.op = "join"
  BY <1>1 DEF Ready, OpsAt
<1>3. /\ Untold(call) = {} /\ Departing(call) = {} /\ Held(call) = {call.who} /\ Electing(call) = {}
      /\ Begun(call) = {} /\ Leads(call.who) = {}
  BY <1>1, <1>2 DEF Held, Electing, Untold, Departing, Begun, FineFor, Permitted
<1> PICK p, id : p = call.who /\ id = c
  OBVIOUS
<1>4. Fine({p}, {}, {}, {}, {})
  BY <1>3 DEF FineFor
<1>5. /\ parties[c] \in PartyDocs /\ joined.leader = parties[c].leader
      /\ joined.members = parties[c].members \cup {p}
  BY <1>1, ReadDoc DEF TypeInv, PartyDocs
<1>6. parties[c].leader # p /\ p \notin parties[c].members
  BY <1>1, <1>3 DEF PartyOf, Leads
<1>7. Indexed(c, joined)
  <2>1. \A d \in DOMAIN parties \ {c} : parties[d].members \cap joined.members = {}
    BY <1>1, <1>5 DEF TypeInv, Unique, PartyOf
  <2>2. Leads(joined.leader) \subseteq {c} /\ joined.members # {}
    BY <1>1, <1>5, LeaderLeads
  <2> HIDE DEF joined
  <2> QED
    BY <2>1, <2>2, IndexedWithMembers
<1>8. /\ Outside /\ UNCHANGED events /\ Return(a)
      /\ parties' = Put(parties, c, joined) /\ heard' = HeardJoined(c, call.who)
  BY <1>1, <1>6, <1>7 DEF AddMember, Outside, aside
<1>9. PICK party : party = joined
  OBVIOUS
<1>10. Writes(id, party)
  BY <1>1, <1>8, <1>9 DEF Writes, Put
<1>11. failures = 0 => Says(heard', id, party.leader, party.members)
  <2> SUFFICES ASSUME failures = 0 PROVE Says(heard', id, party.leader, party.members)
    OBVIOUS
  <2>1. ToldParties({})
    BY <1>4 DEF Fine
  <2>2. Says(HeardJoined(id, p), id, parties[id].leader, parties[id].members \cup {p})
    BY <1>1, <2>1, HeardSays
  <2> QED
    BY <1>5, <1>8, <1>9, <2>2
<1>12. LedWell(id, party, {}, {})
  <2>1. party.leader = parties[id].leader /\ party.members = parties[id].members \cup {p}
    BY <1>5, <1>9
  <2>2. id \in DOMAIN parties /\ (party.leader \in party.members \/ Absent(id))
    BY <1>1, <2>1 DEF Absent
  <2>3. party.leader \notin party.members =>
           \A d \in DOMAIN parties \ {id} : party.leader \notin parties[d].members
    BY <1>4, <2>1, <2>2 DEF Absent, Fine, LeadersIn, PartyOf
  <2> QED
    BY <1>3, <2>1, <2>2, <2>3 DEF LedWell
<1>13. KeptWell(id, party, {p}, {}, {}, {}, {})
  <2>1. \A x \in parties[id].members \ {parties[id].leader} :
           x \in online \cup hurt \/ Waiting("disconnect", x) \/ (failures > 1 /\ Absent(id))
    BY <1>1, <1>4 DEF Fine, OthersOnline, Stuck
  <2>2. p \in online \/ Waiting("disconnect", p)
    BY <1>2 DEF FineFor, Present
  <2>3. Absent(id) => parties[id].leader \notin party.members
    BY <1>5, <1>6, <1>9 DEF Absent
  <2> QED
    BY <1>5, <1>9, <2>1, <2>2, <2>3 DEF KeptWell
<1>14. Fine({}, {}, {}, {}, {})'
  <2>1. \A S : {} \subseteq S
    OBVIOUS
  <2> QED
    BY <1>4, <1>8, <1>10, <1>11, <1>12, <1>13, <2>1, FineWrite
<1> QED
  BY <1>1, <1>8, <1>14, ReturnOne DEF FineAfter

LEMMA FineDeleteOwnParty ==
    ASSUME TypeInv, Sequential, NEW a, DeleteOwnParty(a), FineFor(calls[a])
    PROVE  FineAfter(a)
<1> DEFINE call == calls[a]
           c == call.seen.id
<1>1. /\ a \in DOMAIN calls /\ CallDoc(call) /\ Ready(call, "deleteParty") /\ call.at = "deleteParty"
      /\ ReadNow(call) /\ call.seen.members = {call.who} /\ Active /\ One
  BY Now DEF DeleteOwnParty, Current
<1>2. call.op \in {"join", "disconnect"}
  BY <1>1 DEF Ready, OpsAt
<1>3. c \in DOMAIN parties /\ parties[c].members = {call.who}
  BY <1>1, ReadFields
<1>4. Carefree(call) /\ Begun(call) = {}
  BY <1>1, <1>2 DEF Carefree, Held, Electing, Departing, Untold, Begun
<1>5. /\ parties' = Without(parties, {c}) /\ Outside /\ UNCHANGED events
      /\ \/ /\ call.op = "join" /\ Go(a, call, "addMember") /\ heard' = Without(heard, {c})
         \/ /\ call.op = "disconnect" /\ Go(a, call, "deleteInvites") /\ UNCHANGED heard
  BY <1>2, <1>3 DEF DeleteOwnParty, Outside, aside
<1> PICK p, id : p = call.who /\ id = c
  OBVIOUS
<1>6. Fine({}, {}, {}, {}, {})
  BY <1>4 DEF FineFor, Carefree
<1>7. /\ DOMAIN parties' = DOMAIN parties \ {id}
      /\ \A d \in DOMAIN parties' : parties'[d] = parties[d]
  BY <1>5 DEF Without
<1>8. ASSUME NEW after, after.op = call.op, after.who = call.who, after.seen = call.seen,
             after.at = IF call.op = "join" THEN "addMember" ELSE "deleteInvites"
      PROVE  /\ Fine(Held(after), Electing(after), Departing(after), Untold(after), Begun(after))'
             /\ Permitted(after)'
  <2>1. /\ call.op = "join" => Held(after) = {p}
        /\ call.op = "disconnect" => Untold(after) = {id}
        /\ Electing(after) = {}
    BY <1>2, <1>8 DEF Held, Untold, Electing
  <2> PICK held2, electing2, departing2, untold2, begun2 :
         /\ held2 = Held(after) /\ electing2 = Electing(after)
         /\ departing2 = Departing(after) /\ untold2 = Untold(after) /\ begun2 = Begun(after)
    OBVIOUS
  <2>2. EverybodyIn(held2)'
    <3> SUFFICES ASSUME NEW x \in online \ hurt, ~ Waiting("connect", x), x \notin held2
                 PROVE  PartyOf(x)' # {}
      BY <1>5 DEF EverybodyIn, Waiting, Outside
    <3>1. x # p
      BY <1>1, <1>2, <2>1 DEF Sequential, Leaving
    <3>2. PICK d \in DOMAIN parties : x \in parties[d].members
      BY <1>6 DEF Fine, EverybodyIn, PartyOf
    <3>3. d # id
      BY <1>3, <3>1, <3>2
    <3> QED
      BY <1>7, <3>2, <3>3 DEF PartyOf
  <2>3. LeadersIn(electing2)'
    <3>1. \A d \in DOMAIN parties' : Absent(d)' <=> Absent(d)
      BY <1>7 DEF Absent
    <3>2. \A x : PartyOf(x) = {} => PartyOf(x)' = {}
      BY <1>7 DEF PartyOf
    <3> QED
      BY <1>5, <1>6, <1>7, <2>1, <3>1, <3>2 DEF Fine, LeadersIn, Outside
  <2>4. OthersOnline(electing2, departing2)'
    BY <1>5, <1>6, <1>7, <2>1 DEF Fine, OthersOnline, Stuck, Absent, Waiting, Outside
  <2>5. ToldParties(untold2)'
    <3>1. CASE call.op = "join"
      BY <1>5, <1>6, <1>7, <3>1 DEF Fine, ToldParties, Without, Outside
    <3>2. CASE call.op = "disconnect"
      BY <1>2, <1>5, <1>6, <1>7, <2>1, <3>2 DEF Fine, ToldParties, Outside
    <3> QED
      BY <1>2, <3>1, <3>2
  <2>6. Started(begun2)'
    BY <1>5, <1>6 DEF Fine, Started, Outside
  <2>7. Fine(held2, electing2, departing2, untold2, begun2)'
    BY <2>2, <2>3, <2>4, <2>5, <2>6 DEF Fine
  <2>8. Permitted(after)'
    <3>1. Leads(p) \subseteq {id}
      BY <1>3, <1>6, MemberLeads DEF Fine
    <3>2. Leads(p)' = {}
      BY <1>7, <3>1 DEF Leads
    <3> QED
      BY <1>2, <1>8, <3>2 DEF Permitted, Leads
  <2> QED
    BY <2>7, <2>8
<1> QED
  BY <1>1, <1>2, <1>5, <1>8, FineGoes

\* A player who is in no party gets one, and no one else loses his.  He is refused when he
\* is in one, or when a party that he is not in still has him as its leader.
LEMMA FineCreate ==
    ASSUME TypeInv, NEW held, NEW begun, Fine(held, {}, {}, {}, begun),
           NEW a, NEW p \in Players, NEW open \in BOOLEAN, NEW told, NEW call, NEW next,
           failures = 0 => told = heard,
           CreateParty(a, Party(p, open), told, call, next)
    PROVE  \/ /\ Return(a) /\ UNCHANGED parties /\ heard' = told
              /\ PartyOf(p) # {} \/ (Leads(p) # {} /\ failures > 0 /\ p \in hurt)
           \/ /\ GoOrReturn(a, call, next)
              /\ \A x : x # p => Leads(x)' \subseteq Leads(x)
              /\ \A held2, departing2, untold2, begun2 :
                    held \subseteq held2 \cup {p} /\ begun \subseteq begun2 =>
                       Fine(held2, {}, departing2, untold2, begun2)'
<1> PICK party, id : party = Party(p, open) /\ id = NewId
  OBVIOUS
<1>1. party.leader = p /\ party.members = {p}
  BY DEF Party
<1>2. CASE Return(a) /\ UNCHANGED parties /\ heard' = told /\ ~ Indexed(id, party)
  <2>1. PartyOf(p) = {} => Leads(p) # {}
    <3> SUFFICES ASSUME PartyOf(p) = {}, Leads(p) = {} PROVE FALSE
      OBVIOUS
    <3>1. \A d \in DOMAIN parties \ {id} : parties[d].members \cap party.members = {}
      BY <1>1 DEF PartyOf
    <3>2. Leads(party.leader) \subseteq {id} /\ party.members # {}
      BY <1>1
    <3> QED
      BY <1>2, <3>1, <3>2, IndexedWithMembers
  <2>2. ASSUME PartyOf(p) = {}, Leads(p) # {} PROVE failures > 0 /\ p \in hurt
    <3>1. PICK d \in DOMAIN parties : parties[d].leader = p
      BY <2>2 DEF Leads
    <3>2. Absent(d)
      BY <2>2, <3>1 DEF Absent, PartyOf
    <3> QED
      BY <3>1, <3>2 DEF Fine, LeadersIn
  <2> QED
    BY <1>2, <2>1, <2>2
<1>3. ASSUME GoOrReturn(a, call, next), id \notin DOMAIN parties \cup DOMAIN heard,
             Indexed(id, party), heard' = HeardParty(id, party.leader, told),
             DOMAIN parties' = DOMAIN parties \cup {id}, parties'[id] = party,
             \A d \in DOMAIN parties : parties'[d] = parties[d]
      PROVE  /\ \A x : x # p => Leads(x)' \subseteq Leads(x)
             /\ \A held2, departing2, untold2, begun2 :
                    held \subseteq held2 \cup {p} /\ begun \subseteq begun2 =>
                       Fine(held2, {}, departing2, untold2, begun2)'
  <2>1. Outside /\ UNCHANGED events
    BY DEF CreateParty, Outside, aside
  <2>2. Writes(id, party)
    BY <1>3 DEF Writes
  <2>3. failures = 0 => Says(heard', id, party.leader, party.members)
    <3> SUFFICES ASSUME failures = 0 PROVE Says(heard', id, party.leader, party.members)
      OBVIOUS
    <3> QED
      BY <1>1, <1>3, HeardOfParty
  <2>4. LedWell(id, party, {}, {})
    BY <1>1, <1>3 DEF LedWell, Indexed, Leads
  <2>5. \A x : x # p => Leads(x)' \subseteq Leads(x)
    BY <1>1, <1>3 DEF Leads
  <2>6. ASSUME NEW held2, NEW departing2, NEW untold2, NEW begun2,
               held \subseteq held2 \cup {p}, begun \subseteq begun2
        PROVE  Fine(held2, {}, departing2, untold2, begun2)'
    <3>1. KeptWell(id, party, held, held2, {}, {}, departing2)
      BY <1>1, <1>3, <2>6 DEF KeptWell
    <3>2. {} \subseteq untold2 \cup {id}
      OBVIOUS
    <3> QED
      BY <2>1, <2>2, <2>3, <2>4, <2>6, <3>1, <3>2, FineWrite
  <2> QED
    BY <2>5, <2>6
<1>4. \/ Return(a) /\ UNCHANGED parties /\ heard' = told /\ ~ Indexed(id, party)
      \/ /\ GoOrReturn(a, call, next) /\ id \notin DOMAIN parties \cup DOMAIN heard
         /\ Indexed(id, party) /\ heard' = HeardParty(id, party.leader, told)
         /\ DOMAIN parties' = DOMAIN parties \cup {id} /\ parties'[id] = party
         /\ \A d \in DOMAIN parties : parties'[d] = parties[d]
  BY Created
<1> QED
  BY <1>2, <1>3, <1>4

\* One who is refused bears the marks of a failure already.
LEMMA FineRefused ==
    ASSUME NEW p, NEW begun, Fine({p}, {}, {}, {}, begun), failures > 0, p \in hurt,
           Outside, UNCHANGED <<parties, events>>
    PROVE  Fine({}, {}, {}, {}, {})'
<1>1. failures # 0
  OBVIOUS
<1>2. EverybodyIn({})'
  BY DEF Fine, EverybodyIn, PartyOf, Waiting, Outside
<1>3. LeadersIn({})'
  BY DEF Fine, LeadersIn, PartyOf, Absent, Outside
<1>4. OthersOnline({}, {})'
  BY DEF Fine, OthersOnline, Stuck, Absent, Waiting, Outside
<1>5. ToldParties({})' /\ Started({})'
  BY <1>1 DEF ToldParties, Started, Outside
<1> QED
  BY <1>2, <1>3, <1>4, <1>5 DEF Fine

LEMMA FineCreateOwnParty ==
    ASSUME TypeInv, Sequential, NEW a, CreateOwnParty(a), FineFor(calls[a])
    PROVE  FineAfter(a)
<1> DEFINE call == calls[a]
           open == (call.op = "start" /\ call.seen = None)
<1>1. /\ a \in DOMAIN calls /\ CallDoc(call) /\ Ready(call, "createParty")
      /\ call.at = "createParty" /\ PartyOf(call.who) = {} /\ Active /\ One
  BY Now DEF CreateOwnParty, Current
<1>2. /\ call.op \in {"leave", "kick", "start", "connect"} /\ call \in CallDocs
      /\ call.who \in Players
  BY <1>1 DEF Ready, OpsAt, CallDoc
<1> PICK p, begun : p = call.who /\ begun = Begun(call)
  OBVIOUS
<1>3. Fine({p}, {}, {}, {}, begun)
  <2>1. Held(call) = {p} /\ Electing(call) = {} /\ Departing(call) = {} /\ Untold(call) = {}
    BY <1>1 DEF Held, Electing, Departing, Untold
  <2> QED
    BY <2>1 DEF FineFor
<1>4. PICK next : next = IF call.op = "start" THEN [call EXCEPT !.seen = Seen(NewId, Party(p, open))]
                         ELSE call
  OBVIOUS
<1>5. CreateParty(a, Party(p, open), heard, next, Settled(call))
  BY <1>4 DEF CreateOwnParty
<1>6. Outside /\ UNCHANGED events
  BY <1>5 DEF CreateParty, Outside, aside
<1>7. \/ Return(a) /\ UNCHANGED parties /\ failures > 0 /\ p \in hurt
      \/ /\ GoOrReturn(a, next, Settled(call))
         /\ \A held2, departing2, untold2, begun2 :
               {p} \subseteq held2 \cup {p} /\ begun \subseteq begun2 =>
                  Fine(held2, {}, departing2, untold2, begun2)'
  <2> HIDE DEF open
  <2>1. open \in BOOLEAN
    BY DEF open
  <2> QED
    BY <1>1, <1>2, <1>3, <1>5, <2>1, FineCreate
<1>8. CASE Return(a) /\ UNCHANGED parties /\ failures > 0 /\ p \in hurt
  <2>1. Fine({}, {}, {}, {}, {})'
    BY <1>3, <1>6, <1>8, FineRefused
  <2> QED
    BY <1>1, <1>8, <2>1, ReturnOne DEF FineAfter
<1>9. ASSUME GoOrReturn(a, next, Settled(call)),
             \A held2, departing2, untold2, begun2 :
               {p} \subseteq held2 \cup {p} /\ begun \subseteq begun2 =>
                  Fine(held2, {}, departing2, untold2, begun2)'
      PROVE  FineAfter(a)
  <2>1. CASE Settled(call) = "return"
    <3>1. begun = {}
      BY <1>2, <2>1 DEF Settled, Begun
    <3>2. Fine({}, {}, {}, {}, {})'
      BY <1>9, <3>1
    <3> QED
      BY <1>1, <1>9, <2>1, <3>2, ReturnOne DEF GoOrReturn, FineAfter
  <2>2. CASE Settled(call) # "return"
    <3>1. Go(a, next, Settled(call))
      BY <1>9, <2>2 DEF GoOrReturn
    <3>2. /\ CallDoc(next) /\ next.op = call.op /\ next.who = call.who /\ next.into = call.into
      <4>1. CASE call.op = "start"
        <5>1. NewId \in PartyIds
          BY <1>5, NewIdIsNew DEF CreateParty
        <5>2. PICK seen : seen = Seen(NewId, Party(p, open))
          OBVIOUS
        <5>3. seen \in SeenDocs
          <6>1. Party(p, open) \in PartyDocs
            BY <1>2, OwnPartyDoc
          <6> QED
            BY <5>1, <5>2, <6>1 DEF Seen, SeenDocs, PartyDocs
        <5>4. next = [call EXCEPT !.seen = seen]
          BY <1>4, <4>1, <5>2
        <5> QED
          BY <1>1, <1>2, <5>3, <5>4 DEF CallDoc, CallDocs
      <4>2. CASE call.op # "start"
        BY <1>1, <1>4, <4>2
      <4> QED
        BY <4>1, <4>2
    <3>3. ASSUME NEW after, after.at = Settled(call), after.op = next.op, after.who = next.who,
                 after.seen = next.seen, after.into = next.into, after.todo = next.todo
          PROVE  /\ Fine(Held(after), Electing(after), Departing(after), Untold(after), Begun(after))'
                 /\ Permitted(after)'
      <4>1. PICK held2, electing2, departing2, untold2, begun2 :
               /\ held2 = Held(after) /\ electing2 = Electing(after)
               /\ departing2 = Departing(after) /\ untold2 = Untold(after) /\ begun2 = Begun(after)
        OBVIOUS
      <4>2. Settled(call) \in {"createAgain", "setEventParty", "setOpen"}
        BY <2>2 DEF Settled
      <4>3. electing2 = {} /\ begun \subseteq begun2
        BY <1>1, <3>2, <3>3, <4>1, <4>2 DEF Begun, Electing
      <4>4. Fine(held2, electing2, departing2, untold2, begun2)'
        BY <1>9, <4>3
      <4>5. Permitted(after)'
        BY <3>3, <4>2 DEF Permitted
      <4> QED
        BY <4>1, <4>4, <4>5
    <3> QED
      BY <1>1, <1>6, <3>1, <3>2, <3>3, FineGoes
  <2> QED
    BY <2>1, <2>2
<1> QED
  BY <1>7, <1>8, <1>9

LEMMA FineCreateAgain ==
    ASSUME TypeInv, Sequential, NEW a, CreateAgain(a), FineFor(calls[a])
    PROVE  FineAfter(a)
<1> DEFINE call == calls[a]
<1>1. /\ a \in DOMAIN calls /\ CallDoc(call) /\ Ready(call, "createAgain")
      /\ call.at = "createAgain" /\ call.into \notin PartyOf(call.who) /\ Active /\ One
  BY Now DEF CreateAgain, Current
<1>2. call.op = "kick" /\ call.who \in Players
  BY <1>1 DEF Ready, OpsAt, CallDoc
<1> PICK p, c, told : p = call.who /\ c = call.into /\ told = HeardLeft(c, p)
  OBVIOUS
<1>3. Fine({}, {}, {}, {}, {})
  <2>1. /\ Held(call) = {} /\ Electing(call) = {} /\ Departing(call) = {} /\ Untold(call) = {}
        /\ Begun(call) = {}
    BY <1>1, <1>2 DEF Held, Electing, Departing, Untold, Begun
  <2> QED
    BY <2>1 DEF FineFor
<1>4. failures = 0 => told = heard
  <2> SUFFICES ASSUME failures = 0 PROVE HeardLeft(c, p) = heard
    OBVIOUS
  <2>1. CASE c \notin DOMAIN heard
    BY <2>1 DEF HeardLeft
  <2>2. CASE c \in DOMAIN heard
    <3>1. /\ heard = [d \in DOMAIN heard |-> heard[d]] /\ p \notin parties[c].members
          /\ heard[c] = [leader |-> parties[c].leader, members |-> parties[c].members]
      BY <1>1, <1>3, <2>2 DEF Fine, ToldParties, PartyOf
    <3>2. [heard[c] EXCEPT !.members = @ \ {p}] = heard[c]
      <4>1. parties[c].members \ {p} = parties[c].members
        BY <3>1
      <4> QED
        BY <3>1, <4>1
    <3>3. HeardLeft(c, p) = [heard EXCEPT ![c] = [heard[c] EXCEPT !.members = @ \ {p}]]
      BY <2>2 DEF HeardLeft
    <3> QED
      BY <2>2, <3>1, <3>2, <3>3
  <2> QED
    BY <2>1, <2>2
<1>5. CreateParty(a, Party(p, FALSE), told, call, "return")
  BY DEF CreateAgain
<1>6. Return(a) /\ Outside /\ UNCHANGED events
  BY DEF CreateAgain, CreateParty, GoOrReturn, Outside, aside
<1>7. Fine({}, {}, {}, {}, {})'
  <2>1. CASE UNCHANGED parties /\ heard' = told
    <3>1. failures = 0 => UNCHANGED heard
      BY <1>4, <2>1
    <3>2. Started({})'
      BY <1>3, <1>6 DEF Fine, Started, Outside
    <3>3. \A S : {} \subseteq S
      OBVIOUS
    <3> QED
      BY <1>3, <1>6, <2>1, <3>1, <3>2, <3>3, FineSame
  <2>2. PICK held, begun : held = {} /\ begun = {}
    OBVIOUS
  <2>3. PICK open, next, at : open = FALSE /\ next = call /\ at = "return"
    OBVIOUS
  <2>4. CreateParty(a, Party(p, open), told, next, at) /\ p \in Players /\ open \in BOOLEAN
    BY <1>2, <1>5, <2>3
  <2>5. Fine(held, {}, {}, {}, begun)
    BY <1>3, <2>2
  <2>6. \/ UNCHANGED parties /\ heard' = told
        \/ \A held2, departing2, untold2, begun2 :
              held \subseteq held2 \cup {p} /\ begun \subseteq begun2 =>
                 Fine(held2, {}, departing2, untold2, begun2)'
    BY <1>4, <2>4, <2>5, FineCreate
  <2> QED
    BY <2>1, <2>2, <2>6
<1> QED
  BY <1>1, <1>6, <1>7, ReturnOne DEF FineAfter

LEMMA FineSetMembers ==
    ASSUME TypeInv, Sequential, NEW a, SetMembers(a), FineFor(calls[a])
    PROVE  FineAfter(a)
<1> DEFINE call == calls[a]
           c == call.seen.id
           emptied == [parties[c] EXCEPT !.members = {call.seen.leader}]
<1>1. /\ a \in DOMAIN calls /\ CallDoc(call) /\ Ready(call, "setMembers") /\ Active /\ One
      /\ call.at = "setMembers"
      /\ ReadNow(call) /\ call.seen.leader \in call.seen.members
      /\ call.todo = call.seen.members \ {call.seen.leader}
  BY Now DEF SetMembers, Current
<1>2. /\ c \in DOMAIN parties /\ call.seen.leader = parties[c].leader
      /\ call.seen.members = parties[c].members
  BY <1>1, ReadFields
<1>3. Carefree(call) /\ call.op # "disconnect"
  BY <1>1 DEF Carefree, Held, Electing, Departing, Untold, Ready, OpsAt
<1> PICK id, begun, todo : id = c /\ begun = Begun(call) /\ todo = call.todo
  OBVIOUS
<1>4. Fine({}, {}, {}, {}, begun)
  BY <1>3 DEF FineFor, Carefree
<1>5. /\ parties[c] \in PartyDocs /\ emptied.leader = parties[c].leader
      /\ emptied.members = {parties[c].leader}
  BY <1>2, ReadDoc DEF TypeInv, PartyDocs
<1>6. Indexed(c, emptied)
  <2>1. \A d \in DOMAIN parties \ {c} : parties[d].members \cap emptied.members = {}
    BY <1>1, <1>2, <1>5 DEF TypeInv, Unique
  <2>2. Leads(emptied.leader) \subseteq {c} /\ emptied.members # {}
    BY <1>2, <1>5, LeaderLeads
  <2> HIDE DEF emptied
  <2> QED
    BY <2>1, <2>2, IndexedWithMembers
<1>7. /\ parties' = Put(parties, c, emptied) /\ Go(a, call, "deleteInvites")
      /\ Outside /\ UNCHANGED <<heard, events>>
  BY <1>2, <1>6 DEF SetMembers, Outside, aside
<1>8. PICK party : party = emptied
  OBVIOUS
<1>9. Writes(id, party)
  BY <1>2, <1>7, <1>8 DEF Writes, Put
<1>10. \A x \in todo : Leads(x)' = {}
  <2> SUFFICES ASSUME NEW x \in todo PROVE Leads(x)' = {}
    OBVIOUS
  <2>1. x \in parties[id].members /\ x # parties[id].leader
    BY <1>1, <1>2
  <2>2. Leads(x) \subseteq {id}
    BY <1>2, <1>4, <2>1, MemberLeads DEF Fine
  <2>3. party.leader = parties[id].leader
    BY <1>5, <1>8
  <2> QED
    BY <1>9, <2>1, <2>2, <2>3 DEF Leads, Writes
<1>11. ASSUME NEW after, after.at = "deleteInvites", after.op = call.op, after.who = call.who,
              after.seen = call.seen, after.into = call.into, after.todo = call.todo
       PROVE  /\ Fine(Held(after), Electing(after), Departing(after), Untold(after), Begun(after))'
              /\ Permitted(after)'
  <2>1. PICK held2, electing2, departing2, untold2, begun2 :
           /\ held2 = Held(after) /\ electing2 = Electing(after)
           /\ departing2 = Departing(after) /\ untold2 = Untold(after) /\ begun2 = Begun(after)
    OBVIOUS
  <2>2. held2 = todo /\ electing2 = {} /\ untold2 = {id} /\ begun \subseteq begun2
    BY <1>1, <1>3, <1>11, <2>1 DEF Held, Electing, Untold, Begun
  <2>3. LedWell(id, party, {}, {})
    BY <1>1, <1>2, <1>5, <1>8 DEF LedWell
  <2>4. KeptWell(id, party, {}, todo, {}, {}, departing2)
    BY <1>1, <1>2, <1>5, <1>8 DEF KeptWell
  <2>5. {} \subseteq untold2 \cup {id} /\ id \in untold2
    BY <2>2
  <2>6. Fine(todo, {}, departing2, untold2, begun2)'
    BY <1>4, <1>7, <1>9, <2>2, <2>3, <2>4, <2>5, FineWrite
  <2>7. Fine(held2, electing2, departing2, untold2, begun2)'
    BY <2>2, <2>6
  <2>8. Permitted(after)'
    BY <1>10, <1>11 DEF Permitted, Leads
  <2> QED
    BY <2>1, <2>7, <2>8
<1> QED
  BY <1>1, <1>7, <1>11, FineGoes

\* A listener hears what has become of a party that a call has emptied.
LEMMA FineHeard ==
    ASSUME TypeInv, NEW id, NEW todo, NEW begun, Fine(todo, {}, {}, {id}, begun),
           Outside, UNCHANGED events,
           id \in DOMAIN parties, NEW party, Writes(id, party), party.members = {party.leader},
           parties[id].members = party.members,
           failures = 0 => Says(heard', id, party.leader, party.members),
           NEW held2, NEW departing2, NEW untold2, NEW begun2,
           todo \subseteq held2, begun \subseteq begun2
    PROVE  Fine(held2, {}, departing2, untold2, begun2)'
<1>1. LedWell(id, party, {}, {})
  BY DEF LedWell
<1>2. KeptWell(id, party, todo, held2, {}, {}, departing2)
  BY DEF KeptWell
<1>3. PICK untold, none : untold = {id} /\ none = {}
  OBVIOUS
<1>4. Fine(todo, none, none, untold, begun)
  BY <1>3
<1>5. untold \subseteq untold2 \cup {id}
  BY <1>3
<1>6. LedWell(id, party, none, none) /\ KeptWell(id, party, todo, held2, none, none, departing2)
  BY <1>1, <1>2, <1>3
<1>7. failures = 0 =>
         (id \in untold2 /\ UNCHANGED heard) \/ Says(heard', id, party.leader, party.members)
  OBVIOUS
<1>8. Fine(held2, none, departing2, untold2, begun2)'
  BY ONLY TypeInv, Outside, UNCHANGED events, <1>4, <1>5, <1>6, <1>7, FineWrite, Writes(id, party),
     begun \subseteq begun2
<1> QED
  BY <1>3, <1>8

LEMMA FineEmptied ==
    ASSUME TypeInv, Sequential, NEW a \in DOMAIN calls, FineFor(calls[a]),
           NEW call, call = calls[a], call.op \in {"empty", "start"},
           call.at \in {"deleteInvites", "openEmptied"}, HoldsLeader(call),
           Outside, UNCHANGED events,
           NEW party, Writes(call.seen.id, party), party.leader = call.seen.leader,
           party.members = {call.seen.leader},
           heard' = HeardParty(call.seen.id, call.seen.leader, heard),
           GoOrReturn(a, call, Emptied(call))
    PROVE  FineAfter(a)
<1>1. CallDoc(call) /\ Active /\ One
  BY DEF TypeInv, Active, CallOK, Sequential
<1>2. Held(call) = call.todo /\ Electing(call) = {} /\ Departing(call) = {} /\ Untold(call) = {call.seen.id}
  BY DEF Held, Electing, Departing, Untold
<1> PICK id, begun, todo : id = call.seen.id /\ begun = Begun(call) /\ todo = call.todo
  OBVIOUS
<1>3. Fine(todo, {}, {}, {id}, begun)
  BY <1>2 DEF FineFor
<1>4. ASSUME NEW held2, NEW departing2, NEW untold2, NEW begun2,
             todo \subseteq held2, begun \subseteq begun2
      PROVE  Fine(held2, {}, departing2, untold2, begun2)'
  <2>1. Writes(id, party) /\ party.members = {party.leader}
    OBVIOUS
  <2>2. failures = 0 => Says(heard', id, party.leader, party.members)
    <3> SUFFICES ASSUME failures = 0 PROVE Says(heard', id, party.leader, party.members)
      OBVIOUS
    <3>1. Says(HeardParty(id, party.leader, heard), id, party.leader, {party.leader})
      BY HeardOfParty
    <3> QED
      BY <3>1
  <2>3. id \in DOMAIN parties /\ parties[id].members = party.members
    BY DEF HoldsLeader
  <2> QED
    BY <1>3, <1>4, <2>1, <2>2, <2>3, FineHeard
<1>5. \A x \in todo : Leads(x)' = {}
  <2>1. \A x \in todo : Leads(x) = {}
    BY DEF FineFor, Permitted
  <2>2. id \in DOMAIN parties /\ parties[id].leader = party.leader
    BY DEF HoldsLeader
  <2> QED
    BY <2>1, <2>2 DEF Leads, Writes
<1>6. CASE Emptied(call) = "return"
  <2>1. todo = {} /\ begun = {}
    BY <1>6 DEF Emptied, Begun
  <2>2. Fine({}, {}, {}, {}, {})'
    BY <1>4, <2>1
  <2> QED
    BY <1>1, <1>6, <2>2, ReturnOne DEF GoOrReturn, FineAfter
<1>7. CASE Emptied(call) # "return"
  <2>1. Go(a, call, Emptied(call))
    BY <1>7 DEF GoOrReturn
  <2>2. ASSUME NEW after, after.at = Emptied(call), after.op = call.op, after.who = call.who,
               after.seen = call.seen, after.into = call.into, after.todo = call.todo
        PROVE  /\ Fine(Held(after), Electing(after), Departing(after), Untold(after), Begun(after))'
               /\ Permitted(after)'
    <3>1. PICK held2, electing2, departing2, untold2, begun2 :
             /\ held2 = Held(after) /\ electing2 = Electing(after)
             /\ departing2 = Departing(after) /\ untold2 = Untold(after) /\ begun2 = Begun(after)
      OBVIOUS
    <3>2. todo \subseteq held2 /\ electing2 = {} /\ begun \subseteq begun2
      BY <1>7, <2>2, <3>1 DEF Emptied, Held, Electing, Begun
    <3>3. Fine(held2, electing2, departing2, untold2, begun2)'
      BY <1>4, <3>2
    <3>4. Permitted(after)'
      BY <1>5, <1>7, <2>2 DEF Permitted, Leads, Emptied
    <3> QED
      BY <3>1, <3>3, <3>4
  <2> QED
    BY <1>1, <2>1, <2>2, FineGoes
<1> QED
  BY <1>6, <1>7

LEMMA FineDeleteInvites ==
    ASSUME TypeInv, Sequential, NEW a, DeleteInvites(a), FineFor(calls[a])
    PROVE  FineAfter(a)
<1> PICK call, c : call = calls[a] /\ c = call.seen.id
  OBVIOUS
<1>1. /\ a \in DOMAIN calls /\ CallDoc(call) /\ Ready(call, "deleteInvites") /\ Active /\ One
      /\ call.at = "deleteInvites"
      /\ call.op = "disconnect" => c \notin DOMAIN parties
      /\ call.op # "disconnect" => HoldsLeader(call) /\ parties[c].open = call.seen.open
  BY Now DEF DeleteInvites, Current
<1>2. call.op \in {"empty", "start", "disconnect"}
  BY <1>1 DEF Ready, OpsAt
<1>3. Outside /\ UNCHANGED <<parties, events>>
  BY DEF DeleteInvites, Outside, aside
<1>4. /\ Electing(call) = {} /\ Departing(call) = {} /\ Untold(call) = {c}
      /\ Held(call) = IF call.op = "disconnect" THEN {} ELSE call.todo
  BY <1>1 DEF Held, Electing, Departing, Untold
<1> PICK held, begun : held = Held(call) /\ begun = Begun(call)
  OBVIOUS
<1>5. Fine(held, {}, {}, {c}, begun)
  BY <1>4 DEF FineFor
<1>6. CASE call.op = "disconnect"
  <2>1. Return(a) /\ heard' = Without(heard, {c})
    BY <1>6 DEF DeleteInvites
  <2>2. held = {} /\ begun = {}
    BY <1>4, <1>6 DEF Begun
  <2>3. ToldParties({})'
    BY <1>1, <1>3, <1>5, <1>6, <2>1 DEF Fine, ToldParties, Without, Outside
  <2>4. Fine({}, {}, {}, {}, {})'
    BY <1>3, <1>5, <2>2, <2>3 DEF Fine, EverybodyIn, LeadersIn, OthersOnline, Stuck, Started, Waiting,
       PartyOf, Absent, Outside
  <2> QED
    BY <1>1, <2>1, <2>4, ReturnOne DEF FineAfter
<1>7. CASE call.op # "disconnect" /\ Go(a, call, "openEmptied") /\ UNCHANGED heard
  <2>1. ASSUME NEW after, after.at = "openEmptied", after.op = call.op, after.who = call.who,
               after.seen = call.seen, after.into = call.into, after.todo = call.todo
        PROVE  /\ Fine(Held(after), Electing(after), Departing(after), Untold(after), Begun(after))'
               /\ Permitted(after)'
    <3>1. PICK held2, electing2, departing2, untold2, begun2 :
             /\ held2 = Held(after) /\ electing2 = Electing(after)
             /\ departing2 = Departing(after) /\ untold2 = Untold(after) /\ begun2 = Begun(after)
      OBVIOUS
    <3>2. /\ held \subseteq held2 /\ {c} \subseteq untold2 /\ begun \subseteq begun2
          /\ electing2 = {} /\ {} \subseteq departing2
      BY <1>1, <1>4, <1>7, <2>1, <3>1 DEF Held, Electing, Untold, Begun
    <3>3. Started(begun2)'
      BY <1>3, <1>5, <3>2 DEF Fine, Started, Outside
    <3>4. Fine(held2, {}, departing2, untold2, begun2)'
      BY <1>3, <1>5, <1>7, <3>2, <3>3, FineSame
    <3>5. Permitted(after)'
      BY <1>1, <1>3, <1>7, <2>1 DEF FineFor, Permitted, Leads
    <3> QED
      BY <3>1, <3>2, <3>4, <3>5
  <2> QED
    BY <1>1, <1>3, <1>7, <2>1, FineGoes
<1>8. CASE /\ call.op # "disconnect" /\ GoOrReturn(a, call, Emptied(call))
           /\ heard' = HeardParty(c, call.seen.leader, heard)
  <2>1. PICK party : party = parties[c]
    OBVIOUS
  <2>2. Writes(c, party) /\ party.leader = call.seen.leader /\ party.members = {call.seen.leader}
    BY <1>1, <1>3, <1>8, <2>1 DEF Writes, HoldsLeader
  <2> QED
    BY <1>1, <1>2, <1>3, <1>8, <2>2, FineEmptied
<1> QED
  BY <1>6, <1>7, <1>8 DEF DeleteInvites

LEMMA FineOpenings ==
    ASSUME TypeInv, Sequential, NEW a, OpenEmptied(a) \/ OpenOrClose(a),
           FineFor(calls[a])
    PROVE  FineAfter(a)
<1> PICK call, c : call = calls[a] /\ c = call.seen.id
  OBVIOUS
<1>1. /\ a \in DOMAIN calls /\ CallDoc(call) /\ Active /\ One /\ Ready(call, call.at)
      /\ \/ OpenEmptied(a) /\ call.at = "openEmptied" /\ HoldsLeader(call)
         \/ OpenOrClose(a) /\ call.at = "setOpen" /\ c \in DOMAIN parties
  BY Now DEF OpenEmptied, OpenOrClose, SetOpen, Current
<1>2. c \in DOMAIN parties
  BY <1>1 DEF HoldsLeader
<1>3. /\ parties' = [parties EXCEPT ![c].open = Opens(call.op)]
      /\ Outside /\ UNCHANGED events
  BY <1>1, <1>2 DEF OpenEmptied, OpenOrClose, SetOpen, Outside, aside
<1>4. PICK party : party = [parties[c] EXCEPT !.open = Opens(call.op)]
  OBVIOUS
<1>5. party.leader = parties[c].leader /\ party.members = parties[c].members
  BY <1>2, <1>4, ReadDoc DEF TypeInv, PartyDocs
<1>6. Writes(c, party)
  BY <1>2, <1>3, <1>4 DEF Writes, TypeInv, Stored
<1>7. CASE OpenEmptied(a)
  <2>1. /\ call.at = "openEmptied" /\ HoldsLeader(call)
        /\ heard' = HeardParty(c, call.seen.leader, heard) /\ GoOrReturn(a, call, Emptied(call))
    BY <1>1, <1>2, <1>7 DEF OpenEmptied, OpenOrClose, SetOpen, At
  <2>2. call.op \in {"empty", "start"}
    BY <1>1, <2>1 DEF Ready, OpsAt
  <2>3. party.leader = call.seen.leader /\ party.members = {call.seen.leader}
    BY <1>5, <2>1 DEF HoldsLeader
  <2> QED
    BY <1>1, <1>3, <1>6, <2>1, <2>2, <2>3, FineEmptied
<1>8. CASE OpenOrClose(a)
  <2>1. /\ call.at = "setOpen" /\ UNCHANGED heard
        /\ GoOrReturn(a, call, IF call.op = "start" THEN "setEventParty" ELSE "return")
    BY <1>1, <1>2, <1>8 DEF OpenEmptied, OpenOrClose, SetOpen, At
  <2>2. Carefree(calls[a])
    BY <2>1 DEF Carefree, Held, Electing, Departing, Untold
  <2>3. DOMAIN parties' = DOMAIN parties /\ \A d \in DOMAIN parties : SameParty(d)
    BY <1>2, <1>5, <1>6 DEF Writes, SameParty
  <2>4. CASE call.op = "start"
    BY <1>1, <1>3, <2>1, <2>2, <2>3, <2>4, FineOn DEF GoOrReturn
  <2>5. CASE call.op # "start"
    <3>1. Begun(calls[a]) = {} /\ Return(a)
      BY <2>1, <2>5 DEF Begun, GoOrReturn
    <3> QED
      BY <1>1, <1>3, <2>1, <2>2, <2>3, <3>1, FineOver
  <2> QED
    BY <2>4, <2>5
<1> QED
  BY <1>7, <1>8

LEMMA FineRecreate ==
    ASSUME TypeInv, Sequential, NEW a, Recreate(a), FineFor(calls[a])
    PROVE  FineAfter(a)
<1> PICK call : call = calls[a]
  OBVIOUS
<1>1. /\ a \in DOMAIN calls /\ CallDoc(call) /\ Ready(call, "recreate") /\ Active /\ One
      /\ call.at = "recreate" /\ HoldsLeader(call)
  BY Now DEF Recreate, Current
<1>2. PICK p \in call.todo :
         LET next == [call EXCEPT !.todo = @ \ {p}]
         IN  CreateParty(a, Party(p, FALSE), heard, next, Emptied(next))
  BY DEF Recreate
<1>3. PICK next : next = [call EXCEPT !.todo = @ \ {p}]
  OBVIOUS
<1>4. /\ CallDoc(next) /\ next.op = call.op /\ next.who = call.who /\ next.into = call.into
      /\ next.seen = call.seen /\ next.todo = call.todo \ {p}
  BY <1>1, <1>3 DEF CallDoc, CallDocs
<1>5. call.op \in {"empty", "start"} /\ p \in Players
  BY <1>1 DEF Ready, OpsAt, CallDoc
<1> PICK begun, todo : begun = Begun(call) /\ todo = call.todo
  OBVIOUS
<1>6. Fine(todo, {}, {}, {}, begun)
  <2>1. Held(call) = todo /\ Electing(call) = {} /\ Departing(call) = {} /\ Untold(call) = {}
    BY <1>1, <1>5 DEF Held, Electing, Departing, Untold
  <2> QED
    BY <2>1 DEF FineFor
<1>7. PICK open, told : open = FALSE /\ told = heard
  OBVIOUS
<1>8. CreateParty(a, Party(p, open), told, next, Emptied(next)) /\ open \in BOOLEAN /\ told = heard
  BY <1>2, <1>3, <1>7
<1>9. PartyOf(p) = {} /\ \A x \in todo : Leads(x) = {}
  BY <1>1, <1>5 DEF HoldsLeader, FineFor, Permitted
<1>10. /\ GoOrReturn(a, next, Emptied(next)) /\ \A x : x # p => Leads(x)' \subseteq Leads(x)
       /\ \A held2, departing2, untold2, begun2 :
             todo \subseteq held2 \cup {p} /\ begun \subseteq begun2 =>
                Fine(held2, {}, departing2, untold2, begun2)'
  <2>1. PICK at : at = Emptied(next)
    OBVIOUS
  <2>2. /\ CreateParty(a, Party(p, open), told, next, at) /\ p \in Players /\ open \in BOOLEAN
        /\ failures = 0 => told = heard
    BY <1>5, <1>8, <2>1
  <2>3. \/ PartyOf(p) # {} \/ Leads(p) # {}
        \/ /\ GoOrReturn(a, next, at) /\ \A x : x # p => Leads(x)' \subseteq Leads(x)
           /\ \A held2, departing2, untold2, begun2 :
                 todo \subseteq held2 \cup {p} /\ begun \subseteq begun2 =>
                    Fine(held2, {}, departing2, untold2, begun2)'
    BY ONLY TypeInv, <1>6, <2>2, FineCreate
  <2> QED
    BY <1>9, <2>1, <2>3
<1>11. Outside
  BY <1>8 DEF CreateParty, Outside, aside
<1>12. CASE Emptied(next) = "return"
  <2>1. todo \subseteq {p} /\ begun = {}
    BY <1>4, <1>12 DEF Emptied, Begun
  <2>2. Fine({}, {}, {}, {}, {})'
    BY <1>10, <2>1
  <2> QED
    BY <1>1, <1>10, <1>12, <2>2, ReturnOne DEF GoOrReturn, FineAfter
<1>13. CASE Emptied(next) # "return"
  <2>1. Go(a, next, Emptied(next))
    BY <1>10, <1>13 DEF GoOrReturn
  <2>2. \A x \in next.todo : Leads(x)' = {}
    BY <1>4, <1>9, <1>10
  <2>3. ASSUME NEW after, after.at = Emptied(next), after.op = next.op, after.who = next.who,
               after.seen = next.seen, after.into = next.into, after.todo = next.todo
        PROVE  /\ Fine(Held(after), Electing(after), Departing(after), Untold(after), Begun(after))'
               /\ Permitted(after)'
    <3>1. PICK held2, electing2, departing2, untold2, begun2 :
             /\ held2 = Held(after) /\ electing2 = Electing(after)
             /\ departing2 = Departing(after) /\ untold2 = Untold(after) /\ begun2 = Begun(after)
      OBVIOUS
    <3>2. todo \subseteq held2 \cup {p} /\ electing2 = {} /\ begun \subseteq begun2
      BY <1>1, <1>4, <1>5, <1>13, <2>3, <3>1 DEF Emptied, Held, Electing, Begun
    <3>3. Fine(held2, electing2, departing2, untold2, begun2)'
      BY <1>10, <3>2
    <3>4. Permitted(after)'
      BY <1>13, <2>2, <2>3 DEF Permitted, Leads, Emptied
    <3> QED
      BY <3>1, <3>3, <3>4
  <2> QED
    BY <1>1, <1>4, <1>11, <2>1, <2>3, FineGoes
<1> QED
  BY <1>12, <1>13

LEMMA FineSteps ==
    ASSUME TypeInv, Sequential, NEW a, Step(a), FineFor(calls[a])
    PROVE  FineAfter(a)
BY FineJoins, FineAddMember, FineDeleteOwnParty, FineFindParty, FineRemoveMember, FineSetLeader,
   FineCreateOwnParty, FineCreateAgain, FineSetMembers, FineDeleteInvites, FineOpenings,
   FineRecreate, FineFindOwnerParty, FineEventSteps DEF Step

LEMMA ContainedStep ==
    ASSUME TypeInv, Sequential, Contained, NEW a, Step(a)
    PROVE  Contained'
<1>1. a \in DOMAIN calls
  BY SeqSteps
<1>2. FineAfter(a)
  BY <1>1, FineSteps DEF Contained
<1> QED
  BY <1>2 DEF Contained, FineAfter

-----------------------------------------------------------------------------
(* Requests, failures, and the theorems.                                   *)

\* A request begins a call, or changes neither parties nor calls.
LEMMA ContainedBegin ==
    ASSUME MaxCalls = 1, TypeInv, Sequential, Contained, NEW a, NEW call, Idle(a), Begin(a, call),
           UNCHANGED <<parties, online, connections, heard, aside>>,
           call.at \in {"removeMember", "findParty", "findTarget", "setLeader", "setOpen",
                        "setMembers", "findOwnerParty", "deleteEvent"},
           call.at = "setLeader" => call.op = "setLeader",
           Present(call), Permitted(call), Started({}) => Started(Begun(call))'
    PROVE  Contained'
<1>1. DOMAIN calls = {} /\ DOMAIN calls' = {a} /\ calls'[a] = call
  BY BeginOne DEF TypeInv, Sequential
<1>2. Fine({}, {}, {}, {}, {})
  BY <1>1 DEF Contained
<1>3. PICK held2, electing2, departing2, untold2, begun2 :
         /\ held2 = Held(call) /\ electing2 = Electing(call) /\ departing2 = Departing(call)
         /\ untold2 = Untold(call) /\ begun2 = Begun(call)
  OBVIOUS
<1>4. Started(begun2)'
  BY <1>2, <1>3 DEF Fine
<1>5. /\ Outside /\ UNCHANGED heard /\ \A S : {} \subseteq S
      /\ DOMAIN parties' = DOMAIN parties
      /\ \A c \in DOMAIN parties : /\ parties'[c].leader = parties[c].leader
                                   /\ parties'[c].members = parties[c].members
  BY DEF Outside, aside
<1>6. Fine(held2, electing2, departing2, untold2, begun2)'
  <2>1. electing2 = {}
    BY <1>3 DEF Electing
  <2>2. Fine(held2, {}, departing2, untold2, begun2)'
    BY <1>2, <1>4, <1>5, FineSame
  <2> QED
    BY <2>1, <2>2
<1>7. Present(call)' /\ Permitted(call)'
  BY PresentStill DEF Permitted
<1>8. FineAfter(a)
  BY <1>1, <1>3, <1>6, <1>7, FineThen
<1> QED
  BY <1>1, <1>8 DEF FineAfter, Contained

LEMMA ContainedRequests ==
    ASSUME MaxCalls = 1, TypeInv, Sequential, Contained, NEW p \in Players, NEW q \in Players,
           NEW open \in BOOLEAN,
           \/ LeaveParty(p) \/ KickPlayer(p, q) \/ JoinParty(p, q) \/ SetPartyLeader(p, q)
           \/ SetOpenParty(p, open)
    PROVE  Contained'
<1>1. /\ UNCHANGED <<parties, events, online, connections, heard, aside>> /\ Idle(p)
      /\ p \in online
  BY DEF LeaveParty, KickPlayer, JoinParty, SetPartyLeader, SetOpenParty
<1>2. PICK c, call :
         /\ c \in PartyOf(p)
         /\ \/ call = Call("leave", "removeMember", p, Read(c))
            \/ call = [Call("kick", "findParty", q, Read(c)) EXCEPT !.into = c]
            \/ call = [Call("join", "findTarget", p, Read(c)) EXCEPT !.other = q]
            \/ call = [Call("setLeader", "setLeader", p, Read(c)) EXCEPT !.other = q]
            \/ call = Call(IF open THEN "open" ELSE "close", "setOpen", p, Read(c))
         /\ call.at = "removeMember" => Cardinality(parties[c].members) # 1
         /\ Begin(p, call)
  BY DEF LeaveParty, KickPlayer, JoinParty, SetPartyLeader, SetOpenParty, Call
<1>3. /\ call.at \in {"removeMember", "findParty", "findTarget", "setLeader", "setOpen",
                      "setMembers", "findOwnerParty", "deleteEvent"}
      /\ call.at = "setLeader" => call.op = "setLeader"
      /\ call.op \in {"join", "setLeader"} => call.who = p
      /\ call.op # "start"
  BY <1>2 DEF Call
<1>4. Present(call) /\ Permitted(call)
  <2>1. call.at \in {"removeMember", "setLeader"} => call.who = p /\ call.seen.members = parties[c].members
    BY <1>2 DEF Call, Read, Seen
  <2>2. call.at = "removeMember" => call.seen.members # {call.who}
    BY <1>2, <2>1, FS_Singleton
  <2>3. call.at = "setLeader" => call.who \in call.seen.members
    BY <1>2, <2>1 DEF PartyOf
  <2> QED
    BY <1>1, <1>3, <2>2, <2>3 DEF Present, Permitted
<1>5. Started({}) => Started(Begun(call))'
  BY <1>1, <1>3 DEF Started, Begun, aside
<1> QED
  BY <1>1, <1>2, <1>3, <1>4, <1>5, ContainedBegin

LEMMA ContainedEmptyParty ==
    ASSUME MaxCalls = 1, TypeInv, Sequential, Contained, NEW a, NEW c \in DOMAIN parties,
           EmptyParty(a, c)
    PROVE  Contained'
<1>1. PICK call : call = [Call("empty", "setMembers", parties[c].leader, Read(c)) EXCEPT
                             !.todo = parties[c].members \ {parties[c].leader}]
  OBVIOUS
<1>2. call.at = "setMembers" /\ call.op = "empty"
  BY <1>1 DEF Call
<1>3. Begin(a, call) /\ Idle(a) /\ UNCHANGED <<parties, events, online, connections, heard, aside>>
  BY <1>1 DEF EmptyParty
<1>4. Present(call) /\ Permitted(call) /\ (Started({}) => Started(Begun(call))')
  BY <1>2, <1>3 DEF Present, Permitted, Started, Begun, aside
<1> QED
  BY <1>2, <1>3, <1>4, ContainedBegin

LEMMA ContainedEventRequests ==
    ASSUME MaxCalls = 1, TypeInv, Sequential, Contained, NEW e \in EventIds,
           StartEvent(e) \/ DeleteEvent(e)
    PROVE  Contained'
<1>1. UNCHANGED <<parties, online, connections, heard, aside>>
  BY DEF StartEvent, DeleteEvent
<1>2. CASE StartEvent(e)
  <2>1. PICK call : call = [Call("start", "findOwnerParty", events[e].owner, None) EXCEPT !.into = e]
    OBVIOUS
  <2>2. call.at = "findOwnerParty" /\ call.op = "start" /\ call.into = e
    BY <2>1 DEF Call
  <2>3. Begin("scheduler", call) /\ Idle("scheduler") /\ e \in DOMAIN events /\ SetTime(e, "started")
    BY <1>2, <2>1 DEF StartEvent
  <2>4. Present(call) /\ Permitted(call) /\ (Started({}) => Started(Begun(call))')
    <3>1. /\ DOMAIN events' = DOMAIN events
          /\ \A f \in DOMAIN events : f # e => events'[f] = events[f]
      BY <2>3 DEF SetTime
    <3> QED
      BY <1>1, <2>2, <3>1 DEF Present, Permitted, Started, Begun, aside
  <2> QED
    BY <1>1, <2>2, <2>3, <2>4, ContainedBegin
<1>3. CASE DeleteEvent(e)
  <2>1. PICK call : call = [Call("deleteEvent", "deleteEvent", None, None) EXCEPT
                               !.into = e, !.todo = events[e].party]
    OBVIOUS
  <2>2. call.at = "deleteEvent" /\ call.op = "deleteEvent"
    BY <2>1 DEF Call
  <2>3. Begin("admin", call) /\ Idle("admin") /\ UNCHANGED events
    BY <1>3, <2>1 DEF DeleteEvent
  <2>4. Present(call) /\ Permitted(call) /\ (Started({}) => Started(Begun(call))')
    BY <1>1, <2>2, <2>3 DEF Present, Permitted, Started, Begun, aside
  <2> QED
    BY <1>1, <2>2, <2>3, <2>4, ContainedBegin
<1> QED
  BY <1>2, <1>3

\* A request or a message that leaves the calls alone.
LEMMA ContainedStill ==
    ASSUME Contained, UNCHANGED <<calls, parties>>,
           \A held, electing, departing, untold, begun :
              Fine(held, electing, departing, untold, begun) =>
                 Fine(held, electing, departing, untold, begun)',
           \A call : Present(call) => Present(call)'
    PROVE  Contained'
<1> SUFFICES ASSUME NEW a \in DOMAIN calls PROVE FineFor(calls[a])'
  BY DEF Contained
<1>1. PICK call : call = calls[a]
  OBVIOUS
<1>2. /\ Fine(Held(call), Electing(call), Departing(call), Untold(call), Begun(call))
      /\ Present(call) /\ Permitted(call)
  BY <1>1 DEF Contained, FineFor
<1>3. PICK held, electing, departing, untold, begun :
         /\ held = Held(call) /\ electing = Electing(call) /\ departing = Departing(call)
         /\ untold = Untold(call) /\ begun = Begun(call)
  OBVIOUS
<1>4. Fine(held, electing, departing, untold, begun)' /\ Present(call)' /\ Permitted(call)'
  BY <1>2, <1>3 DEF Permitted, Leads
<1> QED
  BY <1>1, <1>3, <1>4 DEF FineFor, Fine, EverybodyIn, LeadersIn, OthersOnline, Stuck, ToldParties,
                          Started, Present, Permitted, Absent, Leads, Waiting, PartyOf

LEMMA ContainedSame ==
    ASSUME Contained, UNCHANGED <<parties, online, connections, calls, heard, hurt, failures>>,
           \A begun : Started(begun) => Started(begun)'
    PROVE  Contained'
<1>1. \A call : Present(call) => Present(call)'
  BY DEF Present, Waiting
<1>2. ASSUME NEW held, NEW electing, NEW departing, NEW untold, NEW begun,
             Fine(held, electing, departing, untold, begun)
      PROVE  Fine(held, electing, departing, untold, begun)'
  BY <1>2 DEF Fine, EverybodyIn, LeadersIn, OthersOnline, Stuck, ToldParties, PartyOf, Absent, Waiting
<1> QED
  BY <1>1, <1>2, ContainedStill

LEMMA ContainedInvites ==
    ASSUME Contained,
           \/ \E p, q \in Players : InvitePlayer(p, q)
           \/ \E p \in Players, allow \in BOOLEAN : UpdatePartySettings(p, allow)
           \/ \E i \in invites : InviteExpires(i)
           \/ UNCHANGED vars
    PROVE  Contained'
<1>1. UNCHANGED <<parties, events, online, connections, calls, heard, hurt, failures>>
  BY DEF InvitePlayer, UpdatePartySettings, InviteExpires, vars, aside
<1>2. \A begun : Started(begun) => Started(begun)'
  BY <1>1 DEF Started
<1> QED
  BY <1>1, <1>2, ContainedSame

LEMMA ContainedEvents ==
    ASSUME TypeInv, Contained, NEW e \in EventIds,
           \/ \E p \in Players : CreateEvent(e, p)
           \/ StartTimePasses(e) \/ UpdateEvent(e) \/ DisplayEvent(e)
    PROVE  Contained'
<1>1. UNCHANGED <<parties, online, connections, calls, heard, hurt, failures>>
  BY DEF CreateEvent, StartTimePasses, UpdateEvent, DisplayEvent, aside
<1>2. \A f \in DOMAIN events' : events'[f].when = "started" =>
         f \in DOMAIN events /\ events[f].when = "started" /\ events'[f].party = events[f].party
  <2>1. ASSUME NEW p \in Players, CreateEvent(e, p)
        PROVE  /\ DOMAIN events' = DOMAIN events \cup {e} /\ events'[e].when = "later"
               /\ \A f \in DOMAIN events : events'[f] = events[f]
    BY <2>1 DEF CreateEvent, InsertEvent, Put
  <2>2. ASSUME e \in DOMAIN events, NEW when \in {"later", "due"},
               SetTime(e, when) \/ MarkDisplayed(e)
        PROVE  /\ DOMAIN events' = DOMAIN events /\ \A f \in DOMAIN events \ {e} : events'[f] = events[f]
               /\ events'[e].party = events[e].party
               /\ events'[e].when = when \/ events'[e].when = events[e].when
    <3>1. events[e] \in EventDocs
      BY <2>2 DEF TypeInv, Stored
    <3> QED
      BY <2>2, <3>1 DEF SetTime, MarkDisplayed, EventDocs
  <2>3. CASE \E p \in Players : CreateEvent(e, p)
    BY <2>1, <2>3
  <2>4. CASE StartTimePasses(e) \/ UpdateEvent(e) \/ DisplayEvent(e)
    BY <2>2, <2>4 DEF StartTimePasses, UpdateEvent, DisplayEvent
  <2> QED
    BY <2>3, <2>4
<1>3. \A begun : Started(begun) => Started(begun)'
  BY <1>1, <1>2 DEF Started
<1> QED
  BY <1>1, <1>3, ContainedSame

LEMMA ContainedNetwork ==
    ASSUME TypeInv, Contained, NEW p \in Players, PlayerConnects(p) \/ PlayerDisconnects(p)
    PROVE  Contained'
<1>1. UNCHANGED <<parties, events, calls, heard, hurt, failures>> /\ Around
  BY DEF PlayerConnects, PlayerDisconnects, TypeInv, aside
<1>2. PICK type \in {"connect", "disconnect"} :
         /\ connections' = Append(connections, Connection(type, p))
         /\ online' = IF type = "connect" THEN online \cup {p} ELSE online \ {p}
  <2>1. CASE PlayerConnects(p)
    BY <2>1 DEF PlayerConnects
  <2>2. CASE PlayerDisconnects(p)
    BY <2>2 DEF PlayerDisconnects
  <2> QED
    BY <2>1, <2>2
<1>3. ASSUME NEW t, NEW q, Waiting(t, q) PROVE Waiting(t, q)'
  BY <1>1, <1>2, <1>3, WaitingStill
<1>4. Waiting(type, p)'
  BY <1>1, <1>2, WaitingNow
<1>5. ASSUME NEW q \in online', q \notin online PROVE Waiting("connect", q)'
  BY <1>2, <1>4, <1>5
<1>6. ASSUME NEW q \in online, q \notin online' PROVE Waiting("disconnect", q)'
  BY <1>2, <1>4, <1>6
<1>7. \A call : Present(call) => Present(call)'
  BY <1>3, <1>6 DEF Present
<1>8. ASSUME NEW held, NEW electing, NEW departing, NEW untold, NEW begun,
             Fine(held, electing, departing, untold, begun)
      PROVE  Fine(held, electing, departing, untold, begun)'
  <2>1. EverybodyIn(held)'
    BY <1>1, <1>3, <1>5, <1>8 DEF Fine, EverybodyIn, PartyOf
  <2>2. LeadersIn(electing)' /\ ToldParties(untold)' /\ Started(begun)'
    BY <1>1, <1>8 DEF Fine, LeadersIn, Absent, PartyOf, ToldParties, Started
  <2>3. OthersOnline(electing, departing)'
    BY <1>1, <1>3, <1>6, <1>8 DEF Fine, OthersOnline, Stuck, Absent
  <2> QED
    BY <2>1, <2>2, <2>3 DEF Fine
<1> QED
  BY <1>1, <1>7, <1>8, ContainedStill

\* The consumer has taken a message about p.
LEMMA ContainedConsumer ==
    ASSUME MaxCalls = 1, TypeInv, Sequential, Contained,
           HandlePlayerConnect \/ HandlePlayerDisconnect
    PROVE  Contained'
<1>0. /\ Idle("consumer") /\ connections # <<>> /\ connections' = Tail(connections)
      /\ UNCHANGED <<parties, events, online, heard, failures>>
  BY DEF HandlePlayerConnect, HandlePlayerDisconnect, Consume
<1>1. DOMAIN calls = {} /\ Around
  BY <1>0, NobodyCalls DEF TypeInv, Sequential
<1>2. Fine({}, {}, {}, {}, {})
  BY <1>1 DEF Contained
<1> PICK p, type : p = Head(connections).player /\ type = Head(connections).type
  OBVIOUS
<1>3. /\ Head(connections) = Connection(type, p) /\ type \in {"connect", "disconnect"}
      /\ HandlePlayerConnect => type = "connect"
      /\ HandlePlayerDisconnect => type = "disconnect"
  <2>1. Head(connections) \in [type : {"connect", "disconnect"}, player : Players]
    BY <1>0, HeadTailProperties DEF TypeInv, Around
  <2> QED
    BY <2>1 DEF Connection, HandlePlayerConnect, HandlePlayerDisconnect, Consume
<1>4. hurt' = hurt \/ (type = "connect" /\ hurt' = hurt \ {p} /\ ~ LeadsAbsent(p))
  BY <1>3 DEF HandlePlayerConnect, HandlePlayerDisconnect
<1>5. ASSUME NEW t, NEW q, Waiting(t, q), t # type \/ q # p PROVE Waiting(t, q)'
  <2>1. Connection(t, q) # Connection(type, p)
    BY <1>5 DEF Connection
  <2> QED
    BY <1>0, <1>1, <1>3, <1>5, <2>1, WaitingStill
<1>6. type = "connect" => p \in online \/ Waiting("disconnect", p)'
  <2> SUFFICES ASSUME type = "connect", p \notin online PROVE Waiting("disconnect", p)'
    OBVIOUS
  <2>1. 1 \in 1 .. Len(connections) /\ connections[1] = Connection(type, p) /\ connections[1].player = p
    <3>1. Len(connections) \in Nat /\ Len(connections) # 0 /\ connections[1] = Head(connections)
      BY <1>0, <1>1, EmptySeq, HeadTailProperties DEF Around
    <3> QED
      BY <1>3, <3>1
  <2>2. Waiting("disconnect", p)
    BY <2>1 DEF Sequential, Order, Latest, Waiting
  <2> QED
    BY <1>5, <2>2
<1>7. ASSUME NEW held2, NEW departing2, NEW untold2, NEW begun2,
             type = "connect" => p \in held2 \/ PartyOf(p) # {},
             type = "disconnect" => \/ p \in departing2
                                    \/ \A c \in PartyOf(p) : parties[c].leader = p
      PROVE  Fine(held2, {}, departing2, untold2, begun2)'
  <2>1. EverybodyIn(held2)'
    BY <1>0, <1>2, <1>3, <1>5, <1>7, <1>4 DEF Fine, EverybodyIn, PartyOf
  <2>2. LeadersIn({})'
    <3>1. \A c \in DOMAIN parties : Absent(c) => parties[c].leader \in hurt'
      BY <1>2, <1>4 DEF Fine, LeadersIn, Absent, LeadsAbsent
    <3> QED
      BY <1>0, <1>2, <3>1 DEF Fine, LeadersIn, Absent, PartyOf
  <2>3. OthersOnline({}, departing2)'
    <3> SUFFICES ASSUME NEW c \in DOMAIN parties, NEW q \in parties[c].members \ {parties[c].leader}
                 PROVE  \/ q \in online \cup hurt' \cup departing2 \/ Waiting("disconnect", q)'
                        \/ Stuck(c, {})'
      BY <1>0 DEF OthersOnline
    <3>1. q \in online \cup hurt \/ Waiting("disconnect", q) \/ Stuck(c, {})
      BY <1>2 DEF Fine, OthersOnline
    <3>2. Stuck(c, {}) => Stuck(c, {})'
      BY <1>0 DEF Stuck, Absent
    <3>3. CASE q # p
      BY <1>5, <1>4, <3>1, <3>2, <3>3
    <3>4. CASE q = p /\ type = "connect"
      BY <1>4, <1>6, <3>1, <3>2, <3>4
    <3>5. CASE q = p /\ type = "disconnect"
      BY <1>7, <3>5 DEF PartyOf
    <3> QED
      BY <1>3, <3>3, <3>4, <3>5
  <2>4. ToldParties(untold2)' /\ Started(begun2)'
    BY <1>0, <1>2 DEF Fine, ToldParties, Started
  <2> QED
    BY <2>1, <2>2, <2>3, <2>4 DEF Fine
<1>8. ASSUME NEW call, Begin("consumer", call), call.op \notin {"join", "setLeader"},
             call.at \in {"createParty", "deleteParty", "removeMember"},
             call.at = "removeMember" =>
                call.seen.members # {call.who} \/ (call.op = "disconnect" /\ call.seen.leader # call.who),
             type = "connect" => p \in Held(call) \/ PartyOf(p) # {},
             type = "disconnect" => \/ p \in Departing(call)
                                    \/ \A c \in PartyOf(p) : parties[c].leader = p
      PROVE  Contained'
  <2>1. DOMAIN calls' = {"consumer"} /\ calls'["consumer"] = call
    BY <1>0, <1>8, BeginOne DEF TypeInv, Sequential
  <2>2. PICK held2, electing2, departing2, untold2, begun2 :
           /\ held2 = Held(call) /\ electing2 = Electing(call) /\ departing2 = Departing(call)
           /\ untold2 = Untold(call) /\ begun2 = Begun(call)
    OBVIOUS
  <2>3. Fine(held2, electing2, departing2, untold2, begun2)'
    <3>1. electing2 = {}
      BY <1>8, <2>2 DEF Electing
    <3>2. Fine(held2, {}, departing2, untold2, begun2)'
      BY <1>7, <1>8, <2>2
    <3> QED
      BY <3>1, <3>2
  <2>4. Present(call)' /\ Permitted(call)'
    BY <1>8 DEF Present, Permitted
  <2>5. FineAfter("consumer")
    BY <2>1, <2>2, <2>3, <2>4, FineThen
  <2> QED
    BY <2>1, <2>5 DEF FineAfter, Contained
<1>9. ASSUME UNCHANGED calls, type = "connect" => PartyOf(p) # {},
             type = "disconnect" => \A c \in PartyOf(p) : parties[c].leader = p
      PROVE  Contained'
  <2>1. Fine({}, {}, {}, {}, {})' /\ DOMAIN calls' = {}
    BY <1>1, <1>7, <1>9
  <2> QED
    BY <2>1 DEF Contained
<1>10. CASE HandlePlayerConnect
  <2>1. CASE PartyOf(p) = {}
    <3>1. PICK call : call = Call("connect", "createParty", p, None)
      OBVIOUS
    <3>2. call.op = "connect" /\ call.at = "createParty" /\ Held(call) = {p}
      BY <3>1 DEF Call, Held
    <3>3. Begin("consumer", call)
      BY <1>10, <2>1, <3>1 DEF HandlePlayerConnect
    <3> QED
      BY <1>3, <1>8, <1>10, <3>2, <3>3
  <2>2. CASE PartyOf(p) # {}
    <3>1. UNCHANGED calls
      BY <1>10, <2>2 DEF HandlePlayerConnect
    <3> QED
      BY <1>3, <1>9, <1>10, <2>2, <3>1
  <2> QED
    BY <2>1, <2>2
<1>11. CASE HandlePlayerDisconnect
  <2>1. ASSUME NEW c \in PartyOf(p), NEW at,
               at = IF parties[c].leader = p /\ Cardinality(parties[c].members) < 2
                    THEN "deleteParty" ELSE "removeMember",
               Begin("consumer", Call("disconnect", at, p, Read(c)))
        PROVE  Contained'
    <3>1. PICK call : call = Call("disconnect", at, p, Read(c))
      OBVIOUS
    <3>2. /\ call.op = "disconnect" /\ call.at = at /\ call.who = p
          /\ call.seen.leader = parties[c].leader /\ call.seen.members = parties[c].members
          /\ at = "removeMember" => p \in Departing(call)
      BY <3>1 DEF Call, Departing, Read, Seen
    <3>3. at = "deleteParty" => \A d \in PartyOf(p) : parties[d].leader = p
      BY <2>1, OneParty
    <3>4. at = "removeMember" => parties[c].members # {p} \/ parties[c].leader # p
      <4> SUFFICES ASSUME parties[c].members = {p}, parties[c].leader = p PROVE at = "deleteParty"
        BY <2>1
      <4>1. Cardinality(parties[c].members) = 1
        BY FS_Singleton
      <4> QED
        BY <2>1, <4>1
    <3>5. at \in {"deleteParty", "removeMember"}
      BY <2>1
    <3> QED
      BY <1>3, <1>8, <1>11, <2>1, <3>1, <3>2, <3>3, <3>4, <3>5
  <2>2. CASE UNCHANGED calls /\ \A c \in PartyOf(p) : parties[c].leader = p
    BY <1>3, <1>9, <1>11, <2>2
  <2>3. \/ UNCHANGED calls /\ \A c \in PartyOf(p) : parties[c].leader = p
        \/ \E c \in PartyOf(p) :
              Begin("consumer", Call("disconnect",
                                     IF parties[c].leader = p /\ Cardinality(parties[c].members) < 2
                                     THEN "deleteParty" ELSE "removeMember", p, Read(c)))
    BY <1>11 DEF HandlePlayerDisconnect
  <2> QED
    BY <2>1, <2>2, <2>3
<1> QED
  BY <1>10, <1>11

\* A failure leaves its mark on all those the call was at work on.
LEMMA ContainedFailures ==
    ASSUME TypeInv, Sequential, Contained, Crash \/ \E a \in Actors : CallFails(a)
    PROVE  Contained'
<1>1. PICK S : Fail(S) /\ (S = DOMAIN calls \/ \E a \in DOMAIN calls : S = {a})
  BY DEF Crash, CallFails
<1>2. /\ UNCHANGED <<parties, events, online, connections>> /\ failures \in Nat
      /\ failures' = failures + 1
      /\ hurt' = hurt \cup UNION {AtStake(calls[a]) : a \in S}
  <2>1. failures \in 0 .. MaxFailures /\ MaxFailures \in Nat
    BY PartyAssumption DEF TypeInv, Around
  <2> QED
    BY <1>1, <2>1 DEF Fail
<1>3. S = DOMAIN calls /\ DOMAIN calls' = {}
  <2>1. S = DOMAIN calls
    BY <1>1 DEF Sequential, One
  <2> QED
    BY <1>1, <2>1 DEF Fail, Without
<1>4. ASSUME NEW held, NEW electing, NEW departing, NEW untold, NEW begun,
             Fine(held, electing, departing, untold, begun),
             held \subseteq hurt', departing \subseteq hurt',
             \A c \in electing : parties[c].leader \in hurt', \A c, d \in electing : c = d
      PROVE  Fine({}, {}, {}, {}, {})'
  <2>1. EverybodyIn({})'
    BY <1>2, <1>4 DEF Fine, EverybodyIn, PartyOf, Waiting
  <2>2. LeadersIn({})'
    <3>1. failures' > 0 /\ (failures' <= 1 => failures = 0)
      BY <1>2
    <3>2. \A c \in DOMAIN parties : Absent(c)' <=> Absent(c)
      BY <1>2 DEF Absent
    <3>3. \A c \in DOMAIN parties : Absent(c) => parties[c].leader \in hurt'
      BY <1>2, <1>4 DEF Fine, LeadersIn
    <3>4. failures = 0 => \A c \in DOMAIN parties : Absent(c) => c \in electing
      BY <1>4 DEF Fine, LeadersIn
    <3> QED
      BY <1>2, <1>4, <3>1, <3>2, <3>3, <3>4 DEF Fine, LeadersIn, PartyOf
  <2>3. OthersOnline({}, {})'
    BY <1>2, <1>4 DEF Fine, OthersOnline, Stuck, Absent, Waiting
  <2>4. ToldParties({})' /\ Started({})'
    <3>1. failures' # 0
      BY <1>2
    <3> QED
      BY <3>1 DEF ToldParties, Started
  <2> QED
    BY <2>1, <2>2, <2>3, <2>4 DEF Fine
<1>5. CASE DOMAIN calls = {}
  <2>1. Fine({}, {}, {}, {}, {})
    BY <1>5 DEF Contained
  <2> QED
    BY <1>3, <1>4, <2>1 DEF Contained
<1>6. ASSUME NEW a \in DOMAIN calls PROVE Contained'
  <2>1. PICK call : call = calls[a]
    OBVIOUS
  <2>2. Fine(Held(call), Electing(call), Departing(call), Untold(call), Begun(call))
    BY <2>1 DEF Contained, FineFor
  <2>3. Current(call) /\ Ready(call, call.at) /\ AtStake(call) \subseteq hurt'
    BY <1>2, <1>3, <2>1 DEF Sequential, TypeInv, Active, CallOK
  <2>4. Held(call) \subseteq AtStake(call) /\ Departing(call) \subseteq AtStake(call)
    BY <2>3 DEF Held, Departing, AtStake, Ready, OpsAt
  <2>5. \A c \in Electing(call) : parties[c].leader \in AtStake(call)
    BY <2>3 DEF Electing, AtStake, Ready, OpsAt, Current
  <2>6. \A c, d \in Electing(call) : c = d
    BY DEF Electing
  <2>7. PICK held, electing, departing, untold, begun :
           /\ held = Held(call) /\ electing = Electing(call) /\ departing = Departing(call)
           /\ untold = Untold(call) /\ begun = Begun(call)
    OBVIOUS
  <2>8. Fine({}, {}, {}, {}, {})'
    BY <1>4, <2>2, <2>3, <2>4, <2>5, <2>6, <2>7
  <2> QED
    BY <1>3, <2>8 DEF Contained
<1> QED
  BY <1>5, <1>6

LEMMA ContainedNext ==
    ASSUME MaxCalls = 1, TypeInv, Sequential, Contained, [Next]_vars
    PROVE  Contained'
<1>1. CASE Request
  <2>1. ASSUME NEW p \in Players, NEW q \in Players, NEW open \in BOOLEAN,
               \/ LeaveParty(p) \/ KickPlayer(p, q) \/ JoinParty(p, q) \/ SetPartyLeader(p, q)
               \/ SetOpenParty(p, open)
        PROVE  Contained'
    BY <2>1, ContainedRequests
  <2>2. CASE \E a \in Players \cup {"admin"}, c \in DOMAIN parties : EmptyParty(a, c)
    BY <2>2, ContainedEmptyParty
  <2>3. CASE \/ \E p, q \in Players : InvitePlayer(p, q)
             \/ \E p \in Players, allow \in BOOLEAN : UpdatePartySettings(p, allow)
             \/ \E i \in invites : InviteExpires(i)
    BY <2>3, ContainedInvites
  <2>4. ASSUME NEW e \in EventIds,
               \/ \E p \in Players : CreateEvent(e, p)
               \/ StartTimePasses(e) \/ UpdateEvent(e) \/ DisplayEvent(e)
        PROVE  Contained'
    BY <2>4, ContainedEvents
  <2>5. CASE \E e \in EventIds : StartEvent(e) \/ DeleteEvent(e)
    BY <2>5, ContainedEventRequests
  <2>6. CASE \E p \in Players : PlayerConnects(p) \/ PlayerDisconnects(p)
    BY <2>6, ContainedNetwork
  <2>7. CASE HandlePlayerConnect \/ HandlePlayerDisconnect
    BY <2>7, ContainedConsumer
  <2> QED
    BY <1>1, <2>1, <2>2, <2>3, <2>4, <2>5, <2>6, <2>7 DEF Request
<1>2. CASE \E a \in Actors : Step(a)
  BY <1>2, ContainedStep
<1>3. CASE Crash \/ \E a \in Actors : CallFails(a)
  BY <1>3, ContainedFailures
<1>4. CASE UNCHANGED vars
  BY <1>4, ContainedInvites
<1> QED
  BY <1>1, <1>2, <1>3, <1>4 DEF Next

LEMMA SequentialInvariance ==
    ASSUME MaxCalls = 1
    PROVE  Spec => [](TypeInv /\ Sequential /\ Contained)
<1>1. Init => Sequential /\ Contained
  <2> SUFFICES ASSUME Init PROVE Sequential /\ Contained
    OBVIOUS
  <2>1. DOMAIN calls = {} /\ DOMAIN parties = {} /\ DOMAIN events = {} /\ DOMAIN heard = {}
        /\ online = {} /\ hurt = {} /\ heard = [c \in DOMAIN heard |-> heard[c]]
    BY DEF Init, Empty
  <2>2. Sequential
    <3>1. connections = << >>
      BY DEF Init
    <3>2. Len(connections) = 0
      BY <3>1
    <3> QED
      BY <2>1, <3>2 DEF Sequential, One, Order, Leaving
  <2>3. Fine({}, {}, {}, {}, {})
    BY <2>1 DEF Fine, EverybodyIn, LeadersIn, OthersOnline, ToldParties, Started
  <2> QED
    BY <2>1, <2>2, <2>3 DEF Contained
<1>2. TypeInv /\ Sequential /\ Contained /\ [Next]_vars => Sequential' /\ Contained'
  BY SequentialNext, ContainedNext
<1> QED
  BY <1>1, <1>2, TypeInvariance, PTL DEF Spec

\* Calls that do not overlap lose nobody, though one of them may fail anywhere on its way:
\* whenever nothing is under way everybody on the network is in a party, every leader is in
\* his, and only leaders are off the network, but for those whom the failed call was about.
THEOREM NobodyIsLost ==
    ASSUME MaxCalls = 1
    PROVE  Spec => [](failures <= 1 => PlayersHaveParties)
<1>1. TypeInv /\ Sequential /\ Contained => (failures <= 1 => PlayersHaveParties)
  <2> SUFFICES ASSUME TypeInv, Contained, failures <= 1, Quiet PROVE PlayersHaveParties
    BY DEF PlayersHaveParties
  <2>1. DOMAIN calls = {} /\ Len(connections) = 0
    BY DEF Quiet, Empty
  <2>2. Fine({}, {}, {}, {}, {}) /\ \A type, p : ~ Waiting(type, p)
    BY <2>1 DEF Contained, Waiting
  <2>3. ~ (failures > 1)
    BY DEF TypeInv, Around
  <2> QED
    BY <2>2, <2>3 DEF PlayersHaveParties, Fine, EverybodyIn, LeadersIn, OthersOnline, Stuck, Absent
<1> QED
  BY <1>1, SequentialInvariance, PTL

\* Whatever fails, and however often: everybody on the network whom no failed call was about is
\* in a party, and where the leader is in the party only those calls have left members behind.
LossesMarked ==
    Quiet => /\ \A p \in online \ hurt : PartyOf(p) # {}
             /\ \A c \in DOMAIN parties :
                   /\ Absent(c) => parties[c].leader \in hurt
                   /\ ~ Absent(c) => parties[c].members \ {parties[c].leader} \subseteq online \cup hurt

\* Calls that do not overlap leave no other losses than those of the calls that failed, and of
\* parties whose leader such a call has taken out: of these the last member cannot be removed
\* when he disconnects while another such party is empty (the index on members.playerId has
\* room for one party without members, repository/mongo.go:83).
THEOREM LossesAreMarked ==
    ASSUME MaxCalls = 1
    PROVE  Spec => []LossesMarked
<1>1. TypeInv /\ Sequential /\ Contained => LossesMarked
  <2> SUFFICES ASSUME Contained, Quiet PROVE LossesMarked
    BY DEF LossesMarked
  <2>1. DOMAIN calls = {} /\ Len(connections) = 0
    BY DEF Quiet, Empty
  <2>2. Fine({}, {}, {}, {}, {}) /\ \A type, p : ~ Waiting(type, p)
    BY <2>1 DEF Contained, Waiting
  <2> QED
    BY <2>2 DEF LossesMarked, Fine, EverybodyIn, LeadersIn, OthersOnline, Stuck
<1> QED
  BY <1>1, SequentialInvariance, PTL

\* Calls that do not overlap tell a listener to the party topic all that becomes of the
\* parties, unless one of them fails.
THEOREM TopicIsComplete ==
    ASSUME MaxCalls = 1
    PROVE  Spec => []ListenersAgree
<1>1. TypeInv /\ Sequential /\ Contained => ListenersAgree
  <2> SUFFICES ASSUME Contained, failures = 0, Quiet
               PROVE  heard = [c \in DOMAIN parties |-> [leader |-> parties[c].leader,
                                                         members |-> parties[c].members]]
    BY DEF ListenersAgree
  <2>1. ToldParties({})
    BY DEF Quiet, Empty, Contained, Fine
  <2> QED
    BY <2>1 DEF ToldParties
<1> QED
  BY <1>1, SequentialInvariance, PTL

\* Calls that do not overlap start events as they should: the party of an event is open and
\* holds only the owner when it becomes the event's, whatever fails; and without failures an
\* event that has started has a party.
THEOREM EventsGetParties ==
    ASSUME MaxCalls = 1
    PROVE  Spec => []EventsStart
<1>1. TypeInv /\ Sequential /\ Contained => EventsStart
  <2> SUFFICES ASSUME TypeInv, Sequential, Contained PROVE EventsStart
    OBVIOUS
  <2>1. ASSUME NEW a \in DOMAIN calls, calls[a].at = "setEventParty"
        PROVE  LET c == calls[a].seen.id
               IN  c \in DOMAIN parties /\ parties[c].open /\ parties[c].members = {calls[a].who}
    BY <2>1 DEF Sequential, Current
  <2>2. ASSUME Quiet, failures = 0 PROVE Started({})
    BY <2>2 DEF Quiet, Empty, Contained, Fine
  <2> QED
    BY <2>1, <2>2 DEF EventsStart, Started
<1> QED
  BY <1>1, SequentialInvariance, PTL

-----------------------------------------------------------------------------
(* What events hold their parties by, whatever fails.                      *)

\* The call that has deleted event e takes it from party c next.
Taken(c, e) == \E a \in DOMAIN calls :
    calls[a].at = "removePartyEvent" /\ calls[a].into = e /\ c \in calls[a].todo

Carried == \A c \in DOMAIN parties : \A e \in parties[c].event \ hurt :
    (e \in DOMAIN events /\ events[e].party = {c}) \/ Taken(c, e)

Unstarted == \A e \in DOMAIN events : events[e].when # "started" => events[e].party = {}

\* What the call to start or to delete an event needs of it.
Serves(call) ==
    /\ call.op = "start" =>
          /\ call.into \in DOMAIN events /\ events[call.into].when = "started"
          /\ events[call.into].party = IF call.at = "setPartyEvent" THEN {call.seen.id} ELSE {}
    /\ call.at = "deleteEvent" =>
          call.into \in DOMAIN events /\ call.todo = events[call.into].party

Hosting == Carried /\ Unstarted /\ \A a \in DOMAIN calls : Serves(calls[a])

\* A step that no event is concerned with: the call goes on for the same event, if any,
\* and parties keep their events.
GoesBy(a) ==
    /\ DOMAIN calls' \subseteq {a}
    /\ a \in DOMAIN calls' =>
          /\ calls'[a].op = calls[a].op /\ calls'[a].at \notin {"setPartyEvent", "deleteEvent"}
          /\ calls[a].op = "start" => calls'[a].into = calls[a].into

KeepEvents == \A c \in DOMAIN parties' :
    parties'[c].event = {} \/ (c \in DOMAIN parties /\ parties'[c].event = parties[c].event)

LEMMA HostsStill ==
    ASSUME Hosting, One, NEW a \in DOMAIN calls, UNCHANGED <<events, hurt>>, GoesBy(a), KeepEvents,
           calls[a].at \notin {"setPartyEvent", "removePartyEvent"}
    PROVE  Hosting'
<1>1. \A c, e : ~ Taken(c, e)
  BY DEF Taken, One
<1>2. Carried'
  BY <1>1 DEF Hosting, Carried, KeepEvents
<1>3. Unstarted'
  BY DEF Hosting, Unstarted
<1>4. \A b \in DOMAIN calls' : Serves(calls[b])'
  BY DEF Hosting, Serves, GoesBy
<1> QED
  BY <1>2, <1>3, <1>4 DEF Hosting

\* What a call goes on as: it is of the same kind, and about the same event.
Again(a, next) == /\ {"op", "at", "into"} \subseteq DOMAIN next /\ next.op = calls[a].op
                  /\ next.op = "start" => next.into = calls[a].into

LEMMA GoBy ==
    ASSUME One, NEW a \in DOMAIN calls, NEW next, Again(a, next),
           NEW at, at \notin {"setPartyEvent", "deleteEvent"}, Go(a, next, at)
    PROVE  GoesBy(a)
<1>1. DOMAIN calls = {a}
  BY DEF One
<1>2. calls' = [calls EXCEPT ![a] = [next EXCEPT !.at = at]]
  BY DEF Go
<1>3. DOMAIN calls' = {a} /\ calls'[a] = [next EXCEPT !.at = at]
  BY <1>1, <1>2
<1> QED
  BY <1>3 DEF GoesBy, Again

LEMMA ReturnBy ==
    ASSUME One, NEW a \in DOMAIN calls, Return(a)
    PROVE  GoesBy(a)
BY ReturnOne DEF GoesBy

LEMMA GoOrReturnBy ==
    ASSUME One, NEW a \in DOMAIN calls, NEW next, Again(a, next),
           NEW at, at \notin {"setPartyEvent", "deleteEvent"}, GoOrReturn(a, next, at)
    PROVE  GoesBy(a)
BY GoBy, ReturnBy DEF GoOrReturn

\* Whatever is created, all parties there were keep their events.
LEMMA HostsCreate ==
    ASSUME TypeInv, One, NEW a \in DOMAIN calls, NEW party, party.event = {}, NEW told, NEW next,
           Again(a, next), NEW at, at \notin {"setPartyEvent", "deleteEvent"},
           CreateParty(a, party, told, next, at)
    PROVE  GoesBy(a) /\ KeepEvents /\ UNCHANGED <<events, hurt>>
<1>1. UNCHANGED <<events, hurt>>
  BY DEF CreateParty, aside
<1>2. CASE Return(a) /\ UNCHANGED parties
  BY <1>1, <1>2, ReturnBy DEF KeepEvents
<1>3. ASSUME GoOrReturn(a, next, at), DOMAIN parties' = DOMAIN parties \cup {NewId},
             parties'[NewId] = party, \A d \in DOMAIN parties : parties'[d] = parties[d]
      PROVE  GoesBy(a) /\ KeepEvents
  <2>1. GoesBy(a)
    BY <1>3, GoOrReturnBy
  <2> QED
    BY <1>3, <2>1 DEF KeepEvents
<1> QED
  BY <1>1, <1>2, <1>3, Created

\* A party that is written keeps the event it had.
LEMMA KeepWritten ==
    ASSUME NEW c \in DOMAIN parties, NEW party, party.event = parties[c].event,
           parties' = Put(parties, c, party)
    PROVE  KeepEvents
BY DEF Put, KeepEvents

LEMMA KeepOthers ==
    ASSUME NEW S, parties' = Without(parties, S)
    PROVE  KeepEvents
BY DEF Without, KeepEvents

\* The steps that change a party write a document that keeps its event.
LEMMA StepsKeep ==
    ASSUME TypeInv, NEW a,
           \/ FindTarget(a) \/ DeleteInvite(a) \/ AddMember(a) \/ DeleteOwnParty(a) \/ FindParty(a)
           \/ RemoveMember(a) \/ SetLeader(a) \/ SetMembers(a) \/ DeleteInvites(a)
           \/ OpenEmptied(a) \/ OpenOrClose(a) \/ FindOwnerParty(a)
    PROVE  KeepEvents
<1>1. \A c \in DOMAIN parties : parties[c] \in PartyDocs
  BY DEF TypeInv, Stored
<1>2. CASE UNCHANGED parties
  BY <1>2 DEF KeepEvents
<1>3. CASE AddMember(a)
  <2> DEFINE c == calls[a].into
             joined == [parties[c] EXCEPT !.members = @ \cup {calls[a].who}]
  <2>1. UNCHANGED parties \/ (c \in DOMAIN parties /\ parties' = Put(parties, c, joined))
    BY <1>3 DEF AddMember
  <2>2. c \in DOMAIN parties => joined.event = parties[c].event
    BY <1>1 DEF PartyDocs
  <2> QED
    BY <1>2, <2>1, <2>2, KeepWritten
<1>4. CASE DeleteOwnParty(a)
  BY <1>2, <1>4, KeepOthers DEF DeleteOwnParty
<1>5. CASE RemoveMember(a) \/ SetLeader(a) \/ OpenEmptied(a) \/ OpenOrClose(a)
  <2>1. CASE RemoveMember(a)
    BY <1>1, <1>2, <2>1 DEF RemoveMember, KeepEvents, PartyDocs
  <2>2. CASE SetLeader(a)
    BY <1>1, <1>2, <2>2 DEF SetLeader, KeepEvents, PartyDocs
  <2>3. CASE OpenEmptied(a) \/ OpenOrClose(a)
    BY <1>1, <1>2, <2>3 DEF OpenEmptied, OpenOrClose, SetOpen, KeepEvents, PartyDocs
  <2> QED
    BY <1>5, <2>1, <2>2, <2>3
<1>6. CASE SetMembers(a)
  <2> DEFINE c == calls[a].seen.id
             emptied == [parties[c] EXCEPT !.members = {calls[a].seen.leader}]
  <2>1. UNCHANGED parties \/ (c \in DOMAIN parties /\ parties' = Put(parties, c, emptied))
    BY <1>6 DEF SetMembers
  <2>2. c \in DOMAIN parties => emptied.event = parties[c].event
    BY <1>1 DEF PartyDocs
  <2> QED
    BY <1>2, <2>1, <2>2, KeepWritten
<1> QED
  BY <1>2, <1>3, <1>4, <1>5, <1>6
     DEF FindTarget, DeleteInvite, FindParty, DeleteInvites, FindOwnerParty

\* The calls of those steps go on for the same event.
LEMMA StepsGoBy ==
    ASSUME TypeInv, One, NEW a,
           \/ FindTarget(a) \/ DeleteInvite(a) \/ AddMember(a) \/ DeleteOwnParty(a) \/ FindParty(a)
           \/ RemoveMember(a) \/ SetLeader(a) \/ SetMembers(a) \/ DeleteInvites(a)
           \/ OpenEmptied(a) \/ OpenOrClose(a) \/ FindOwnerParty(a)
    PROVE  GoesBy(a)
<1> PICK call : call = calls[a]
  OBVIOUS
<1>1. a \in DOMAIN calls /\ CallDoc(call) /\ Active
  BY StepCall DEF TypeInv, FindTarget, DeleteInvite, AddMember, DeleteOwnParty, FindParty,
     RemoveMember, SetLeader, SetMembers, DeleteInvites, OpenEmptied, OpenOrClose, SetOpen,
     FindOwnerParty
<1>2. call \in CallDocs /\ Again(a, call)
  BY <1>1 DEF CallDoc, CallDocs, Again
<1>3. CASE Return(a)
  BY <1>1, <1>3, ReturnBy
<1>4. ASSUME NEW at, at \notin {"setPartyEvent", "deleteEvent"},
             Go(a, call, at) \/ GoOrReturn(a, call, at)
      PROVE  GoesBy(a)
  BY <1>1, <1>2, <1>4, GoBy, GoOrReturnBy
<1>5. \A op : Removed(op) \notin {"setPartyEvent", "deleteEvent"}
  BY DEF Removed
<1>6. Emptied(call) \notin {"setPartyEvent", "deleteEvent"}
  BY DEF Emptied
<1>7. CASE FindTarget(a)
  <2>1. call.op = "join"
    <3>1. Ready(calls[a], "findTarget")
      BY <1>7, StepCall DEF TypeInv, FindTarget
    <3> QED
      BY <3>1 DEF Ready, OpsAt
  <2>2. ASSUME NEW d, NEW at \in {"deleteInvite", "deleteParty", "findParty"},
               Go(a, [call EXCEPT !.into = d, !.other = None], at)
        PROVE  GoesBy(a)
    <3>1. Again(a, [call EXCEPT !.into = d, !.other = None])
      BY <1>2, <2>1 DEF Again, CallDocs
    <3> QED
      BY <1>1, <2>2, <3>1, GoBy
  <2> QED
    BY <1>3, <1>7, <2>2 DEF FindTarget, GiveUp
<1>8. CASE FindParty(a)
  <2>1. ASSUME NEW c, Go(a, [call EXCEPT !.seen = Read(c)], "removeMember") PROVE GoesBy(a)
    <3>1. Again(a, [call EXCEPT !.seen = Read(c)])
      BY <1>2 DEF Again, CallDocs
    <3> QED
      BY <1>1, <2>1, <3>1, GoBy
  <2> QED
    BY <1>3, <1>8, <2>1 DEF FindParty
<1>9. CASE RemoveMember(a)
  <2>1. ASSUME NEW q, Go(a, [call EXCEPT !.other = q], "setLeader") PROVE GoesBy(a)
    <3>1. Again(a, [call EXCEPT !.other = q])
      BY <1>2 DEF Again, CallDocs
    <3> QED
      BY <1>1, <2>1, <3>1, GoBy
  <2> QED
    BY <1>3, <1>4, <1>5, <1>9, <2>1 DEF RemoveMember
<1>10. CASE SetLeader(a)
  <2>1. Again(a, [call EXCEPT !.other = None])
    BY <1>2 DEF Again, CallDocs
  <2> QED
    BY <1>1, <1>3, <1>5, <1>10, <2>1, GoOrReturnBy DEF SetLeader
<1>11. CASE FindOwnerParty(a)
  <2>1. ASSUME NEW c, NEW S, Go(a, [call EXCEPT !.seen = Read(c), !.todo = S], "setMembers")
        PROVE  GoesBy(a)
    <3>1. Again(a, [call EXCEPT !.seen = Read(c), !.todo = S])
      BY <1>2 DEF Again, CallDocs
    <3> QED
      BY <1>1, <2>1, <3>1, GoBy
  <2>2. \/ Go(a, call, "createParty") \/ Go(a, call, "findParty")
        \/ \E c \in PartyOf(call.who) :
              Go(a, [call EXCEPT !.seen = Read(c), !.todo = parties[c].members \ {call.who}],
                 "setMembers")
    BY <1>11 DEF FindOwnerParty
  <2>3. ASSUME NEW c \in PartyOf(call.who),
               Go(a, [call EXCEPT !.seen = Read(c), !.todo = parties[c].members \ {call.who}],
                  "setMembers")
        PROVE  GoesBy(a)
    <3>1. PICK S : S = parties[c].members \ {call.who}
      OBVIOUS
    <3> QED
      BY <2>1, <2>3, <3>1
  <2>4. CASE Go(a, call, "createParty") \/ Go(a, call, "findParty")
    BY <1>4, <2>4
  <2> QED
    BY <2>2, <2>3, <2>4
<1>12. CASE AddMember(a)
  BY <1>3, <1>12 DEF AddMember
<1>13. CASE DeleteInvite(a)
  BY <1>3, <1>4, <1>13 DEF DeleteInvite, GiveUp
<1>14. CASE DeleteOwnParty(a)
  BY <1>3, <1>4, <1>14 DEF DeleteOwnParty
<1>15. CASE SetMembers(a)
  BY <1>3, <1>4, <1>15 DEF SetMembers
<1>16. CASE DeleteInvites(a)
  BY <1>3, <1>4, <1>6, <1>16 DEF DeleteInvites
<1>17. CASE OpenEmptied(a) \/ OpenOrClose(a)
  BY <1>3, <1>4, <1>6, <1>17 DEF OpenEmptied, OpenOrClose, SetOpen
<1> QED
  BY <1>7, <1>8, <1>9, <1>10, <1>11, <1>12, <1>13, <1>14, <1>15, <1>16, <1>17

\* The other steps that neither write an event nor an event of a party.
LEMMA CreatesBy ==
    ASSUME TypeInv, One, NEW a, CreateOwnParty(a) \/ CreateAgain(a) \/ Recreate(a)
    PROVE  GoesBy(a) /\ KeepEvents /\ UNCHANGED <<events, hurt>>
<1>1. a \in DOMAIN calls /\ calls[a] \in CallDocs /\ Again(a, calls[a])
  <2>1. a \in DOMAIN calls /\ CallDoc(calls[a])
    BY StepCall DEF TypeInv, CreateOwnParty, CreateAgain, Recreate
  <2> QED
    BY <2>1 DEF CallDoc, CallDocs, Again
<1>2. \A p, open : Party(p, open).event = {}
  BY DEF Party
<1>3. CASE CreateOwnParty(a)
  <2> DEFINE party == Party(calls[a].who, calls[a].op = "start" /\ calls[a].seen = None)
  <2>1. Again(a, [calls[a] EXCEPT !.seen = Seen(NewId, party)])
    BY <1>1 DEF Again, CallDocs
  <2>2. PICK next : next = IF calls[a].op = "start" THEN [calls[a] EXCEPT !.seen = Seen(NewId, party)]
                           ELSE calls[a]
    OBVIOUS
  <2>3. Again(a, next)
    BY <1>1, <2>1, <2>2
  <2>4. CreateParty(a, party, heard, next, Settled(calls[a]))
    BY <1>3, <2>2 DEF CreateOwnParty
  <2>5. Settled(calls[a]) \notin {"setPartyEvent", "deleteEvent"}
    BY DEF Settled
  <2> QED
    BY <1>1, <1>2, <2>3, <2>4, <2>5, HostsCreate
<1>4. CASE CreateAgain(a)
  <2>1. PICK party, told, next : /\ party = Party(calls[a].who, FALSE) /\ next = calls[a]
                                 /\ told = HeardLeft(calls[a].into, calls[a].who)
    OBVIOUS
  <2>2. CreateParty(a, party, told, next, "return")
    BY <1>4, <2>1 DEF CreateAgain
  <2>3. Again(a, next) /\ party.event = {}
    BY <1>1, <1>2, <2>1
  <2> QED
    BY ONLY TypeInv, One, <1>1, <2>2, <2>3, HostsCreate
<1>5. CASE Recreate(a)
  <2>1. PICK p \in calls[a].todo :
           LET call == [calls[a] EXCEPT !.todo = @ \ {p}]
           IN  CreateParty(a, Party(p, FALSE), heard, call, Emptied(call))
    BY <1>5 DEF Recreate
  <2>2. PICK next : next = [calls[a] EXCEPT !.todo = @ \ {p}]
    OBVIOUS
  <2>3. Again(a, next)
    BY <1>1, <2>2 DEF Again, CallDocs
  <2>4. CreateParty(a, Party(p, FALSE), heard, next, Emptied(next))
    BY <2>1, <2>2
  <2>5. Emptied(next) \notin {"setPartyEvent", "deleteEvent"}
    BY DEF Emptied
  <2> QED
    BY <1>1, <1>2, <2>3, <2>4, <2>5, HostsCreate
<1> QED
  BY <1>3, <1>4, <1>5

LEMMA HostsSteps ==
    ASSUME TypeInv, One, Hosting, NEW a, Step(a),
           ~ (SetEventParty(a) \/ SetPartyEvent(a) \/ DeleteEventDocument(a) \/ RemovePartyEvent(a))
    PROVE  Hosting'
<1>1. GoesBy(a) /\ KeepEvents
  BY StepsGoBy, StepsKeep, CreatesBy DEF Step
<1>2. UNCHANGED <<events, hurt>>
  BY CreatesBy DEF Step, FindTarget, DeleteInvite, AddMember, DeleteOwnParty, FindParty, RemoveMember,
     SetLeader, SetMembers, DeleteInvites, OpenEmptied, OpenOrClose, SetOpen, FindOwnerParty, aside
<1>3. a \in DOMAIN calls /\ calls[a].at \notin {"setPartyEvent", "removePartyEvent"}
  BY DEF Step, At, FindTarget, DeleteInvite, AddMember, DeleteOwnParty, FindParty, RemoveMember,
     SetLeader, SetMembers, DeleteInvites, OpenEmptied, OpenOrClose, SetOpen, FindOwnerParty,
     CreateOwnParty, CreateAgain, Recreate
<1> QED
  BY <1>1, <1>2, <1>3, HostsStill

\* The steps that do.
LEMMA HostsEventSteps ==
    ASSUME TypeInv, One, Hosting, NEW a,
           SetEventParty(a) \/ SetPartyEvent(a) \/ DeleteEventDocument(a) \/ RemovePartyEvent(a)
    PROVE  Hosting'
<1> PICK call : call = calls[a]
  OBVIOUS
<1>1. a \in DOMAIN calls /\ CallDoc(call) /\ Serves(call) /\ DOMAIN calls = {a} /\ UNCHANGED hurt
  BY StepCall DEF TypeInv, Hosting, One, SetEventParty, SetPartyEvent, DeleteEventDocument,
     RemovePartyEvent, aside
<1>2. call \in CallDocs
  BY <1>1 DEF CallDoc
<1>3. CASE SetEventParty(a)
  <2>1. call.op = "start" /\ call.at = "setEventParty"
    <3>1. Ready(calls[a], "setEventParty") /\ calls[a].at = "setEventParty"
      BY <1>3, StepCall DEF TypeInv, SetEventParty
    <3> QED
      BY <3>1 DEF Ready, OpsAt
  <2>2. call.into \in DOMAIN events /\ events[call.into].when = "started"
        /\ events[call.into].party = {}
    BY <1>1, <2>1 DEF Serves
  <2>3. /\ DOMAIN events' = DOMAIN events /\ events'[call.into].party = {call.seen.id}
        /\ events'[call.into].when = "started"
        /\ \A e \in DOMAIN events \ {call.into} : events'[e] = events[e]
    <3>1. events' = [events EXCEPT ![call.into].party = {call.seen.id}]
      BY <1>3, <2>2 DEF SetEventParty
    <3> QED
      BY <2>2, <3>1 DEF TypeInv, Stored, EventDocs
  <2>4. /\ DOMAIN calls' = {a} /\ calls'[a].at = "setPartyEvent" /\ calls'[a].op = "start"
        /\ calls'[a].into = call.into /\ calls'[a].seen = call.seen
    <3>1. calls' = [calls EXCEPT ![a] = [call EXCEPT !.at = "setPartyEvent"]]
      BY <1>3 DEF SetEventParty, Go
    <3> QED
      BY <1>1, <1>2, <2>1, <3>1 DEF CallDocs
  <2>5. UNCHANGED parties /\ \A c, e : ~ Taken(c, e)
    BY <1>1, <1>3, <2>1 DEF SetEventParty, Taken
  <2>6. Carried'
    <3>1. ASSUME NEW c \in DOMAIN parties, NEW e \in parties[c].event \ hurt PROVE e # call.into
      BY <1>1, <2>2, <2>5, <3>1 DEF Hosting, Carried
    <3>2. ASSUME NEW c \in DOMAIN parties, NEW e \in parties[c].event \ hurt
          PROVE  e \in DOMAIN events' /\ events'[e].party = {c}
      BY <2>3, <2>5, <3>1, <3>2 DEF Hosting, Carried
    <3> QED
      BY <1>1, <2>5, <3>2 DEF Carried
  <2>7. Unstarted'
    BY <2>2, <2>3 DEF Hosting, Unstarted
  <2>8. Serves(calls[a])'
    BY <2>2, <2>3, <2>4 DEF Serves
  <2> QED
    BY <2>4, <2>6, <2>7, <2>8 DEF Hosting
<1>4. CASE SetPartyEvent(a)
  <2>1. call.op = "start" /\ call.at = "setPartyEvent"
    <3>1. Ready(calls[a], "setPartyEvent") /\ calls[a].at = "setPartyEvent"
      BY <1>4, StepCall DEF TypeInv, SetPartyEvent
    <3> QED
      BY <3>1 DEF Ready, OpsAt
  <2>2. call.into \in DOMAIN events /\ events[call.into].party = {call.seen.id}
    BY <1>1, <2>1 DEF Serves
  <2>3. DOMAIN calls' = {} /\ UNCHANGED events
    BY <1>1, <1>4, ReturnOne DEF SetPartyEvent, Hosting, TypeInv
  <2>4. /\ DOMAIN parties' = DOMAIN parties
        /\ \A c \in DOMAIN parties :
              \/ parties'[c].event = parties[c].event
              \/ c = call.seen.id /\ parties'[c].event = {call.into}
    <3>1. CASE UNCHANGED parties
      BY <3>1
    <3>2. CASE parties' = [parties EXCEPT ![call.seen.id].event = {call.into}]
      BY <3>2 DEF TypeInv, Stored, PartyDocs
    <3> QED
      BY <1>4, <3>1, <3>2 DEF SetPartyEvent
  <2>5. \A c, e : ~ Taken(c, e)
    BY <1>1, <2>1 DEF Taken
  <2>6. Carried'
    BY <1>1, <2>2, <2>3, <2>4, <2>5 DEF Hosting, Carried
  <2> QED
    BY <2>3, <2>6 DEF Hosting, Unstarted
<1>5. CASE DeleteEventDocument(a)
  <2>1. call.at = "deleteEvent"
    BY <1>5 DEF DeleteEventDocument, At
  <2>2. call.into \in DOMAIN events /\ call.todo = events[call.into].party
    BY <1>1, <2>1 DEF Serves
  <2>3. /\ DOMAIN events' = DOMAIN events \ {call.into} /\ UNCHANGED parties
        /\ \A e \in DOMAIN events' : events'[e] = events[e]
    BY <1>5 DEF DeleteEventDocument, RemoveEvent, Without
  <2>4. \A c, e : ~ Taken(c, e)
    BY <1>1, <2>1 DEF Taken
  <2>5. /\ DOMAIN calls' \subseteq {a}
        /\ call.todo # {} => /\ DOMAIN calls' = {a} /\ calls'[a].at = "removePartyEvent"
                             /\ calls'[a].into = call.into /\ calls'[a].todo = call.todo
        /\ \A b \in DOMAIN calls' : calls'[b].at = "removePartyEvent" /\ calls'[b].op = "deleteEvent"
    <3>1. call.op = "deleteEvent"
      <4>1. Ready(calls[a], "deleteEvent")
        BY <1>5, StepCall DEF TypeInv, DeleteEventDocument
      <4> QED
        BY <4>1 DEF Ready, OpsAt
    <3>2. CASE call.todo # {}
      <4>1. calls' = [calls EXCEPT ![a] = [call EXCEPT !.at = "removePartyEvent"]]
        BY <1>5, <2>2, <3>2 DEF DeleteEventDocument, Go
      <4> QED
        BY <1>1, <1>2, <3>1, <4>1 DEF CallDocs
    <3>3. CASE call.todo = {}
      <4>1. Return(a)
        BY <1>5, <3>3 DEF DeleteEventDocument
      <4> QED
        BY <1>1, <3>3, <4>1 DEF Return, Without
    <3> QED
      BY <3>2, <3>3
  <2>6. Carried'
    <3>1. ASSUME NEW c \in DOMAIN parties, NEW e \in parties[c].event \ hurt
          PROVE  (e \in DOMAIN events' /\ events'[e].party = {c}) \/ Taken(c, e)'
      <4>1. e \in DOMAIN events /\ events[e].party = {c}
        BY <2>4, <3>1 DEF Hosting, Carried
      <4>2. CASE e = call.into
        BY <2>2, <2>5, <4>1, <4>2 DEF Taken
      <4>3. CASE e # call.into
        BY <2>3, <4>1, <4>3
      <4> QED
        BY <4>2, <4>3
    <3> QED
      BY <1>1, <2>3, <3>1 DEF Carried
  <2>7. Unstarted'
    BY <2>3 DEF Hosting, Unstarted
  <2>8. \A b \in DOMAIN calls' : Serves(calls[b])'
    BY <2>5 DEF Serves
  <2> QED
    BY <2>6, <2>7, <2>8 DEF Hosting
<1>6. CASE RemovePartyEvent(a)
  <2>1. DOMAIN calls' = {} /\ UNCHANGED events
    BY <1>1, <1>6, ReturnOne DEF RemovePartyEvent
  <2>2. /\ DOMAIN parties' = DOMAIN parties
        /\ \A c \in DOMAIN parties : c \notin call.todo => parties'[c] = parties[c]
        /\ \A c \in DOMAIN parties : c \in call.todo => parties'[c].event = {}
    BY <1>6 DEF RemovePartyEvent, TypeInv, Stored, PartyDocs
  <2>3. Carried'
    <3>1. ASSUME NEW c \in DOMAIN parties, NEW e \in parties'[c].event \ hurt
          PROVE  e \in DOMAIN events /\ events[e].party = {c}
      <4>1. c \notin call.todo /\ e \in parties[c].event
        BY <2>2, <3>1
      <4> QED
        BY <1>1, <3>1, <4>1 DEF Hosting, Carried, Taken
    <3> QED
      BY <1>1, <2>1, <2>2, <3>1 DEF Carried
  <2> QED
    BY <2>1, <2>3 DEF Hosting, Unstarted
<1> QED
  BY <1>3, <1>4, <1>5, <1>6

\* Nothing but the hurt, an event's time or a call is new: parties and what is known of
\* the events stay.
SameHosts ==
    /\ UNCHANGED parties
    /\ \A e \in EventIds : e \in hurt => e \in hurt'
    /\ \A e \in DOMAIN events : e \in DOMAIN events' /\ events'[e].party = events[e].party
    /\ \A e \in DOMAIN events' \ DOMAIN events : events'[e].party = {}
    /\ \A e \in DOMAIN events : events[e].when = "started" => events'[e].when = "started"
    /\ \A e \in DOMAIN events : events'[e].when # "started" => events[e].when # "started"

LEMMA HostsSame ==
    ASSUME TypeInv, Hosting, SameHosts, UNCHANGED calls
    PROVE  Hosting'
<1>1. \A c \in DOMAIN parties : parties[c].event \subseteq EventIds
  BY DEF TypeInv, Stored, PartyDocs
<1>2. Carried'
  BY <1>1 DEF Hosting, Carried, Taken, SameHosts
<1>3. Unstarted'
  BY DEF Hosting, Unstarted, SameHosts
<1>4. \A a \in DOMAIN calls' : Serves(calls[a])'
  BY DEF Hosting, Serves, SameHosts
<1> QED
  BY <1>2, <1>3, <1>4 DEF Hosting

LEMMA HostsBegin ==
    ASSUME MaxCalls = 1, TypeInv, One, Hosting, SameHosts, NEW a, NEW call, Idle(a), Begin(a, call),
           Serves(call)'
    PROVE  Hosting'
<1>1. DOMAIN calls = {} /\ DOMAIN calls' = {a} /\ calls'[a] = call
  BY BeginOne DEF TypeInv
<1>2. \A c \in DOMAIN parties : parties[c].event \subseteq EventIds
  BY DEF TypeInv, Stored, PartyDocs
<1>3. Carried'
  BY <1>1, <1>2 DEF Hosting, Carried, Taken, SameHosts
<1>4. Unstarted'
  BY DEF Hosting, Unstarted, SameHosts
<1>5. PICK next : next = call
  OBVIOUS
<1>6. Serves(next)'
  BY <1>5
<1> QED
  BY <1>1, <1>3, <1>4, <1>5, <1>6 DEF Hosting, Serves

\* A call that is not about an event.
LEMMA OtherCall ==
    ASSUME NEW call, call.op # "start", call.at # "deleteEvent"
    PROVE  Serves(call)'
BY DEF Serves

LEMMA HostsRequests ==
    ASSUME MaxCalls = 1, TypeInv, One, Hosting, NEW p \in Players, NEW q \in Players,
           NEW open \in BOOLEAN,
           \/ LeaveParty(p) \/ KickPlayer(p, q) \/ JoinParty(p, q) \/ SetPartyLeader(p, q)
           \/ SetOpenParty(p, open)
    PROVE  Hosting'
<1>1. SameHosts /\ Idle(p)
  BY DEF SameHosts, LeaveParty, KickPlayer, JoinParty, SetPartyLeader, SetOpenParty, aside
<1>2. PICK call : Begin(p, call) /\ call.op # "start" /\ call.at # "deleteEvent"
  <2>1. CASE LeaveParty(p)
    BY <2>1 DEF LeaveParty, Call
  <2>2. CASE KickPlayer(p, q)
    BY <2>2 DEF KickPlayer, Call
  <2>3. CASE JoinParty(p, q)
    BY <2>3 DEF JoinParty, Call
  <2>4. CASE SetPartyLeader(p, q)
    BY <2>4 DEF SetPartyLeader, Call
  <2>5. CASE SetOpenParty(p, open)
    BY <2>5 DEF SetOpenParty, Call
  <2> QED
    BY <2>1, <2>2, <2>3, <2>4, <2>5
<1> QED
  BY <1>1, <1>2, HostsBegin, OtherCall

LEMMA HostsEmptyParty ==
    ASSUME MaxCalls = 1, TypeInv, One, Hosting, NEW a, NEW c \in DOMAIN parties, EmptyParty(a, c)
    PROVE  Hosting'
<1>1. SameHosts /\ Idle(a)
  BY DEF SameHosts, EmptyParty, aside
<1>2. PICK call : Begin(a, call) /\ call.op # "start" /\ call.at # "deleteEvent"
  BY DEF EmptyParty, Call
<1> QED
  BY <1>1, <1>2, HostsBegin, OtherCall

LEMMA HostsInvites ==
    ASSUME TypeInv, Hosting,
           \/ \E p, q \in Players : InvitePlayer(p, q)
           \/ \E p \in Players, allow \in BOOLEAN : UpdatePartySettings(p, allow)
           \/ \E i \in invites : InviteExpires(i)
           \/ \E p \in Players : PlayerConnects(p) \/ PlayerDisconnects(p)
           \/ UNCHANGED vars
    PROVE  Hosting'
<1>1. UNCHANGED <<parties, events, hurt, calls>>
  BY DEF InvitePlayer, UpdatePartySettings, InviteExpires, PlayerConnects, PlayerDisconnects,
     vars, aside
<1> QED
  BY <1>1, HostsSame DEF SameHosts

LEMMA HostsEvents ==
    ASSUME TypeInv, Hosting, NEW e \in EventIds,
           \/ \E p \in Players : CreateEvent(e, p)
           \/ StartTimePasses(e) \/ UpdateEvent(e) \/ DisplayEvent(e)
    PROVE  Hosting'
<1>1. UNCHANGED <<parties, hurt, calls>>
  BY DEF CreateEvent, StartTimePasses, UpdateEvent, DisplayEvent, aside
<1>2. \A x \in DOMAIN events : events[x] \in EventDocs
  BY DEF TypeInv, Stored
<1>3. CASE \E p \in Players : CreateEvent(e, p)
  <2>1. PICK p \in Players : CreateEvent(e, p)
    BY <1>3
  <2>2. /\ DOMAIN events' = DOMAIN events \cup {e} /\ events'[e].party = {}
        /\ e \notin DOMAIN events /\ \A x \in DOMAIN events : events'[x] = events[x]
    BY <2>1 DEF CreateEvent, InsertEvent, Put
  <2> QED
    BY <1>1, <2>2, HostsSame DEF SameHosts
<1>4. CASE StartTimePasses(e)
  BY <1>1, <1>2, <1>4, HostsSame DEF StartTimePasses, SetTime, SameHosts, EventDocs
<1>5. CASE UpdateEvent(e)
  BY <1>1, <1>2, <1>5, HostsSame DEF UpdateEvent, SetTime, SameHosts, EventDocs
<1>6. CASE DisplayEvent(e)
  BY <1>1, <1>2, <1>6, HostsSame DEF DisplayEvent, MarkDisplayed, SameHosts, EventDocs
<1> QED
  BY <1>3, <1>4, <1>5, <1>6

LEMMA HostsEventRequests ==
    ASSUME MaxCalls = 1, TypeInv, One, Hosting, NEW e \in EventIds, StartEvent(e) \/ DeleteEvent(e)
    PROVE  Hosting'
<1>1. e \in DOMAIN events /\ events[e] \in EventDocs
  BY DEF TypeInv, Stored, StartEvent, DeleteEvent
<1>2. CASE StartEvent(e)
  <2>1. /\ DOMAIN events' = DOMAIN events /\ events'[e].party = events[e].party
        /\ events'[e].when = "started" /\ events[e].when = "due"
        /\ \A x \in DOMAIN events \ {e} : events'[x] = events[x]
    <3>1. events' = [events EXCEPT ![e].when = "started"] /\ events[e].when = "due"
      BY <1>2 DEF StartEvent, SetTime
    <3> QED
      BY <1>1, <3>1 DEF EventDocs
  <2>2. SameHosts /\ Idle("scheduler")
    BY <1>2, <2>1 DEF SameHosts, StartEvent, aside
  <2>3. PICK call : call = [Call("start", "findOwnerParty", events[e].owner, None) EXCEPT !.into = e]
    OBVIOUS
  <2>4. call.op = "start" /\ call.at = "findOwnerParty" /\ call.into = e
    BY <2>3 DEF Call
  <2>5. Serves(call)'
    BY <1>1, <2>1, <2>4 DEF Hosting, Unstarted, Serves
  <2> QED
    BY <1>2, <2>2, <2>3, <2>5, HostsBegin DEF StartEvent
<1>3. CASE DeleteEvent(e)
  <2>1. UNCHANGED events /\ SameHosts /\ Idle("admin")
    BY <1>3 DEF SameHosts, DeleteEvent, aside
  <2>2. PICK call : call = [Call("deleteEvent", "deleteEvent", None, None) EXCEPT
                               !.into = e, !.todo = events[e].party]
    OBVIOUS
  <2>3. call.op = "deleteEvent" /\ call.into = e /\ call.todo = events[e].party
    BY <2>2 DEF Call
  <2>4. Serves(call)'
    BY <1>1, <2>1, <2>3 DEF Serves
  <2> QED
    BY <1>3, <2>1, <2>2, <2>4, HostsBegin DEF DeleteEvent
<1> QED
  BY <1>2, <1>3

LEMMA HostsConsumer ==
    ASSUME MaxCalls = 1, TypeInv, One, Hosting, HandlePlayerConnect \/ HandlePlayerDisconnect
    PROVE  Hosting'
<1>1. PICK p : p = Head(connections).player /\ hurt' \in {hurt, hurt \ {p}}
  BY DEF HandlePlayerConnect, HandlePlayerDisconnect
<1>2. p \in Players
  <2>1. connections \in Seq([type : {"connect", "disconnect"}, player : Players])
        /\ connections # <<>>
    BY DEF TypeInv, Around, HandlePlayerConnect, HandlePlayerDisconnect, Consume
  <2>2. Head(connections) \in [type : {"connect", "disconnect"}, player : Players]
    BY <2>1, HeadTailProperties
  <2> QED
    BY <1>1, <2>2
<1>3. \A e \in EventIds : e \in hurt => e \in hurt'
  BY <1>1, <1>2, PartyAssumption
<1>4. SameHosts /\ Idle("consumer")
  BY <1>3 DEF SameHosts, HandlePlayerConnect, HandlePlayerDisconnect, Consume
<1>5. UNCHANGED calls \/ \E call : /\ Begin("consumer", call)
                                   /\ call.op # "start" /\ call.at # "deleteEvent"
  <2>1. CASE HandlePlayerConnect
    <3>1. \/ UNCHANGED calls
          \/ Begin("consumer", Call("connect", "createParty", Head(connections).player, None))
      BY <2>1 DEF HandlePlayerConnect
    <3> QED
      BY <3>1 DEF Call
  <2>2. CASE HandlePlayerDisconnect
    <3>1. UNCHANGED calls \/ \E c, at : /\ at \in {"deleteParty", "removeMember"}
                                        /\ Begin("consumer", Call("disconnect", at, p, Read(c)))
      BY <1>1, <2>2 DEF HandlePlayerDisconnect
    <3>2. \A c, at : /\ Call("disconnect", at, p, Read(c)).op = "disconnect"
                     /\ Call("disconnect", at, p, Read(c)).at = at
      BY DEF Call
    <3> QED
      BY <3>1, <3>2
  <2> QED
    BY <2>1, <2>2
<1> QED
  BY <1>4, <1>5, HostsSame, HostsBegin, OtherCall

\* The event that a failed call was about is hurt.
LEMMA HostsFailures ==
    ASSUME TypeInv, One, Hosting, Crash \/ \E a \in Actors : CallFails(a)
    PROVE  Hosting'
<1>1. /\ UNCHANGED <<parties, events>> /\ DOMAIN calls' \subseteq {}
      /\ hurt' = hurt \cup UNION {AtStake(calls[a]) : a \in DOMAIN calls}
  <2>1. CASE Crash
    BY <2>1 DEF Crash, Fail, Without
  <2>2. ASSUME NEW a \in Actors, CallFails(a)
        PROVE  /\ UNCHANGED <<parties, events>> /\ DOMAIN calls' \subseteq {}
               /\ hurt' = hurt \cup UNION {AtStake(calls[b]) : b \in DOMAIN calls}
    <3>1. DOMAIN calls = {a}
      BY <2>2 DEF CallFails, One
    <3> QED
      BY <2>2, <3>1 DEF CallFails, Fail, Without
  <2> QED
    BY <2>1, <2>2
<1>2. ASSUME NEW a \in DOMAIN calls, calls[a].at = "removePartyEvent" PROVE calls[a].into \in hurt'
  <2>1. calls[a].op = "deleteEvent"
    BY <1>2 DEF TypeInv, Active, CallOK, Ready, OpsAt
  <2>2. calls[a].into \in AtStake(calls[a])
    BY <2>1 DEF AtStake
  <2> QED
    BY <1>1, <2>2
<1>3. Carried'
  BY <1>1, <1>2 DEF Hosting, Carried, Taken
<1> QED
  BY <1>1, <1>3 DEF Hosting, Unstarted

LEMMA HostsNext ==
    ASSUME MaxCalls = 1, TypeInv, One, Hosting, [Next]_vars
    PROVE  Hosting'
<1>1. CASE Request
  <2>1. ASSUME NEW p \in Players, NEW q \in Players, NEW open \in BOOLEAN,
               \/ LeaveParty(p) \/ KickPlayer(p, q) \/ JoinParty(p, q) \/ SetPartyLeader(p, q)
               \/ SetOpenParty(p, open)
        PROVE  Hosting'
    BY <2>1, HostsRequests
  <2>2. CASE \E a \in Players \cup {"admin"}, c \in DOMAIN parties : EmptyParty(a, c)
    BY <2>2, HostsEmptyParty
  <2>3. CASE \/ \E p, q \in Players : InvitePlayer(p, q)
             \/ \E p \in Players, allow \in BOOLEAN : UpdatePartySettings(p, allow)
             \/ \E i \in invites : InviteExpires(i)
             \/ \E p \in Players : PlayerConnects(p) \/ PlayerDisconnects(p)
    BY <2>3, HostsInvites
  <2>4. CASE \E e \in EventIds : \/ \E p \in Players : CreateEvent(e, p)
                                 \/ StartTimePasses(e) \/ UpdateEvent(e) \/ DisplayEvent(e)
    BY <2>4, HostsEvents
  <2>5. CASE \E e \in EventIds : StartEvent(e) \/ DeleteEvent(e)
    BY <2>5, HostsEventRequests
  <2>6. CASE HandlePlayerConnect \/ HandlePlayerDisconnect
    BY <2>6, HostsConsumer
  <2> QED
    BY <1>1, <2>1, <2>2, <2>3, <2>4, <2>5, <2>6 DEF Request
<1>2. CASE \E a \in Actors : Step(a)
  BY <1>2, HostsSteps, HostsEventSteps
<1>3. CASE Crash \/ \E a \in Actors : CallFails(a)
  BY <1>3, HostsFailures
<1>4. CASE UNCHANGED vars
  BY <1>4, HostsInvites
<1> QED
  BY <1>1, <1>2, <1>3, <1>4 DEF Next

\* Calls that do not overlap leave no party with an event that is not its own, whatever
\* fails: an event that has a party is that party's, and an event that is gone is no
\* party's, but for the one that a failed call was about.
THEOREM EventsKeepParties ==
    ASSUME MaxCalls = 1
    PROVE  Spec => []EventPartyMatches
<1>1. Init => Hosting
  BY DEF Init, Empty, Hosting, Carried, Unstarted
<1>2. TypeInv /\ Sequential /\ Hosting /\ [Next]_vars => Hosting'
  BY HostsNext DEF Sequential
<1>3. Hosting => EventPartyMatches
  <2> SUFFICES ASSUME Hosting, Quiet PROVE EventPartyMatches
    BY DEF EventPartyMatches
  <2>1. \A c, e : ~ Taken(c, e)
    BY DEF Quiet, Empty, Taken
  <2> QED
    BY <2>1 DEF Hosting, Carried, EventPartyMatches
<1> QED
  BY <1>1, <1>2, <1>3, SequentialInvariance, PTL DEF Spec

=============================================================================
