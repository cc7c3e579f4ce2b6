------------------------------ MODULE McPlayer ------------------------------
(***************************************************************************)
(* The player service (mc-player-service): login sessions, the server a    *)
(* player is on, his badges and his experience.  It reads the connections  *)
(* the proxies announce and the roles PlayerRoles announces.               *)
(*                                                                         *)
(* One goroutine consumes both topics (slot "consumer"), the other calls   *)
(* are gRPC handlers (Slots).  A step is one repository call.              *)
(***************************************************************************)
EXTENDS PlayerRoles, FiniteSets

CONSTANTS Badges, Priority, Required,   \* badge-config: priorities, required badges
          Granted,      \* badge-config: role |-> the badge it grants, or None
          ByHand,       \* the badges given and taken by gRPC
          Slots,        \* bound: names of the gRPC calls under way at once
          MaxUnread,    \* bound: connection messages not yet read
          MaxXP,        \* bound: experience given
          MaxFailures   \* bound: calls that fail, crashes

Documents == [badges : SUBSET Badges, active : Badges \cup {None},
              server : {"off", "proxy", "server"}, xp : Nat]

\* A badge names the one role it comes with.
ASSUME McPlayerAssumption ==
    /\ IsFiniteSet(Badges) /\ IsFiniteSet(Slots)
    /\ Priority \in [Badges -> Int] /\ Required \subseteq Badges /\ ByHand \subseteq Badges
    /\ \A b, c \in Badges : b # c => Priority[b] # Priority[c]
    /\ Granted \in [Roles -> Badges \cup {None}] /\ None \notin Badges \cup Documents
    /\ \A r, q \in Roles : Granted[r] = Granted[q] /\ Granted[r] # None => r = q
    /\ "consumer" \notin Slots
    /\ MaxUnread \in Nat /\ MaxXP \in Nat /\ MaxFailures \in Nat

VARIABLES
    net,           \* player |-> where he is: "off", "proxy" or "server"
    connections,   \* topic mc-connections: what is not yet read
    doc,           \* collection player: his document, or None
    open,          \* collection loginSession: sessions without logout time
    ledger,        \* collection experienceTransaction: their sum
    calls,         \* slot |-> the call under way
    crossed,       \* history: <<player, field>> that two calls wrote at once
    failed,        \* history: players a call about whom has failed
    failures       \* history: their number

store == <<doc, open, ledger>>
proxies == <<net, connections>>
history == <<crossed, failed, failures>>
vars == <<rolesVars, proxies, store, calls, history>>

-----------------------------------------------------------------------------
(* Documents and badges.                                                   *)

Blank == [badges |-> {}, active |-> None, server |-> "off", xp |-> 0]

Exists(p) == doc[p] # None
PlayerOf(p) == IF Exists(p) THEN doc[p] ELSE Blank
Owns(p, b) == Exists(p) /\ b \in doc[p].badges
HasSession(p) == open[p] > 0

\* Where the tracker has a player.
Server(p) == PlayerOf(p).server

\* GetPlayer, like every other call that shows a player, is an error for one
\* who is on a server and has no login session.
GetPlayerFails(p) == Server(p) # "off" /\ ~ HasSession(p)

\* The badge of the highest priority; none that has priority 0.
calculateActiveBadge(badges) ==
    LET shown == {b \in badges : Priority[b] > 0}
    IN  IF shown = {} THEN None
        ELSE CHOOSE b \in shown : \A c \in shown : Priority[c] <= Priority[b]

\* What $set makes of a document, from one read before: badges and the active
\* badge are left alone where the one read has none (omitempty).
Saved(old, seen) ==
    [badges |-> IF seen.badges = {} THEN old.badges ELSE seen.badges,
     active |-> IF seen.active = None THEN old.active ELSE seen.active,
     server |-> seen.server,
     xp     |-> seen.xp]

\* The updates of one field or one session; a player without a document, or
\* without a session, is an error to some of them and nothing is written.
AddPlayerBadge(p, b) == doc' = [doc EXCEPT ![p].badges = @ \cup {b}]
SetServer(p, server) == doc' = IF Exists(p) THEN [doc EXCEPT ![p].server = server] ELSE doc
LogOut(p) == SetServer(p, "off")
GainExperience(p) == doc' = [doc EXCEPT ![p].xp = @ + 1]
RecordTransaction(p) == ledger' = [ledger EXCEPT ![p] = @ + 1]
OpenSession(p) == open' = [open EXCEPT ![p] = @ + 1]
CloseSession(p) == HasSession(p) /\ open' = [open EXCEPT ![p] = @ - 1]

-----------------------------------------------------------------------------
(* Calls.                                                                  *)

Callers == Slots \cup {"consumer"}

NoCall == [at |-> "idle"]
At(s, at) == calls[s].at = at

\* The fields of the document a call may write at each of its steps.
Writes(at) == CASE at \in {"session", "save"} -> {"badges", "xp"}
                [] at \in {"readBadges", "setActive", "saveBadges"} -> {"badges"}
                [] OTHER -> {}

UnderWay(p) == {s \in Callers : calls[s] # NoCall /\ calls[s].player = p}

\* A new call about p, which writes these fields, meets others that do.
Meets(p, fields) ==
    crossed' = crossed \cup {<<p, f>> : f \in {x \in fields :
                                  \E s \in UnderWay(p) : x \in Writes(calls[s].at)}}

Free(s) == calls[s] = NoCall
Go(s, call) == calls' = [calls EXCEPT ![s] = call]
Return(s) == Go(s, NoCall)

Init == /\ RolesInit
        /\ net = [p \in Players |-> "off"]
        /\ connections = <<>>
        /\ doc = [p \in Players |-> None]
        /\ open = [p \in Players |-> 0]
        /\ ledger = [p \in Players |-> 0]
        /\ calls = [s \in Callers |-> NoCall]
        /\ crossed = {} /\ failed = {} /\ failures = 0

-----------------------------------------------------------------------------
(* The proxies: where players are, and what is said about it.              *)

Message(p, kind) == [player |-> p, kind |-> kind]

Moves(p, from, to, kind) ==
    /\ net[p] \in from
    /\ Len(connections) < MaxUnread
    /\ net' = [net EXCEPT ![p] = to]
    /\ connections' = Append(connections, Message(p, kind))
    /\ UNCHANGED <<rolesVars, store, calls, history>>

Connect(p) == Moves(p, {"off"}, "proxy", "connect")
SwitchServer(p) == Moves(p, {"proxy", "server"}, "server", "switch")
Disconnect(p) == Moves(p, {"proxy", "server"}, "off", "disconnect")

-----------------------------------------------------------------------------
(* Badges: AddBadgeToPlayer, RemoveBadgeFromPlayer, SetActiveBadge.  The    *)
(* last part of each is common to the gRPC calls and the consumer.         *)

\* A player without a document is taken for one who has the badge.
AddBadge(s, p, b) ==
    /\ IF Exists(p) /\ ~ Owns(p, b)
       THEN /\ AddPlayerBadge(p, b)
            /\ IF b \in Required
               THEN Go(s, [player |-> p, at |-> "readBadges"])
               ELSE UNCHANGED calls
            /\ Meets(p, {"badges"})
       ELSE UNCHANGED <<doc, calls, crossed>>
    /\ UNCHANGED <<open, ledger>>

\* UpdateActiveBadge
ReadBadges(s) ==
    /\ At(s, "readBadges")
    /\ LET p == calls[s].player
       IN  Go(s, [player |-> p, at |-> "setActive",
                  active |-> calculateActiveBadge(doc[p].badges)])
    /\ UNCHANGED <<rolesVars, proxies, store, history>>

SetActivePlayerBadge(s) ==
    /\ At(s, "setActive")
    /\ doc' = [doc EXCEPT ![calls[s].player].active = calls[s].active]
    /\ Return(s)
    /\ UNCHANGED <<rolesVars, proxies, open, ledger, history>>

SetActiveBadge(s, p, b) ==
    /\ Owns(p, b)
    /\ Go(s, [player |-> p, at |-> "setActive", active |-> b])
    /\ Meets(p, {"badges"})
    /\ UNCHANGED store

\* Faulty variant: the badge stays active.
RemoveInactive(s, p, b) ==
    /\ Owns(p, b)
    /\ Go(s, [player |-> p, at |-> "saveBadges", badges |-> doc[p].badges \ {b},
              active |-> doc[p].active])
    /\ Meets(p, {"badges"})
    /\ UNCHANGED store

RemoveBadge(s, p, b) ==
    /\ Owns(p, b)
    /\ LET left == doc[p].badges \ {b}
       IN  Go(s, [player |-> p, at |-> "saveBadges", badges |-> left,
                  active |-> IF doc[p].active = b THEN calculateActiveBadge(left)
                             ELSE doc[p].active])
    /\ Meets(p, {"badges"})
    /\ UNCHANGED store

UpdatePlayerBadgesAndActive(s) ==
    /\ At(s, "saveBadges")
    /\ doc' = [doc EXCEPT ![calls[s].player].badges = calls[s].badges,
                          ![calls[s].player].active = calls[s].active]
    /\ Return(s)
    /\ UNCHANGED <<rolesVars, proxies, open, ledger, history>>

BadgeCall(s, p, b) ==
    /\ Free(s)
    /\ AddBadge(s, p, b) \/ RemoveBadge(s, p, b) \/ SetActiveBadge(s, p, b)
    /\ UNCHANGED <<rolesVars, proxies, failed, failures>>

-----------------------------------------------------------------------------
(* Experience.                                                             *)

AddExperienceToPlayer(s, p) ==
    /\ Free(s) /\ Exists(p)
    /\ ledger[p] < MaxXP
    /\ GainExperience(p)
    /\ Go(s, [player |-> p, at |-> "transaction"])
    /\ Meets(p, {"xp"})
    /\ UNCHANGED <<rolesVars, proxies, open, ledger, failed, failures>>

CreateExperienceTransaction(s) ==
    /\ At(s, "transaction")
    /\ RecordTransaction(calls[s].player)
    /\ Return(s)
    /\ UNCHANGED <<rolesVars, proxies, doc, open, history>>

-----------------------------------------------------------------------------
(* The consumer: one message of either topic at a time.                    *)

NextConnection(p, kind) ==
    /\ Free("consumer")
    /\ connections # <<>> /\ Head(connections) = Message(p, kind)
    /\ connections' = Tail(connections)
    /\ UNCHANGED <<rolesVars, net, ledger, failed, failures>>

\* Faulty variant: everybody is taken for a new player.
ConnectAsNew(p) ==
    /\ NextConnection(p, "connect")
    /\ Go("consumer", [player |-> p, at |-> "session", seen |-> [Blank EXCEPT !.server = "proxy"]])
    /\ Meets(p, {"badges", "xp"})
    /\ UNCHANGED <<doc, open>>

\* HandlePlayerConnect is given the document read before.
HandleConnect(p) ==
    /\ NextConnection(p, "connect")
    /\ Go("consumer", [player |-> p, at |-> "session",
                       seen |-> [PlayerOf(p) EXCEPT !.server = "proxy"]])
    /\ Meets(p, {"badges", "xp"})
    /\ UNCHANGED <<doc, open>>

\* An error here is only logged.
CreateLoginSession ==
    /\ At("consumer", "session")
    /\ LET p == calls["consumer"].player
       IN  \/ OpenSession(p) /\ UNCHANGED <<failed, failures>>
           \/ /\ failures < MaxFailures /\ failures' = failures + 1
              /\ failed' = failed \cup {p} /\ UNCHANGED open
    /\ calls' = [calls EXCEPT !["consumer"].at = "save"]
    /\ UNCHANGED <<rolesVars, proxies, doc, ledger, crossed>>

SavePlayer ==
    /\ At("consumer", "save")
    /\ LET p == calls["consumer"].player
       IN  doc' = [doc EXCEPT ![p] = Saved(PlayerOf(p), calls["consumer"].seen)]
    /\ Return("consumer")
    /\ UNCHANGED <<rolesVars, proxies, open, ledger, history>>

\* Faulty variant: the session is left open.
LogoutOnly(p) ==
    /\ NextConnection(p, "disconnect")
    /\ HasSession(p)
    /\ Go("consumer", [player |-> p, at |-> "logout"])
    /\ UNCHANGED <<doc, open, crossed>>

\* Without a session to close the message is dropped.
HandleDisconnect(p) ==
    /\ NextConnection(p, "disconnect")
    /\ IF HasSession(p)
       THEN Go("consumer", [player |-> p, at |-> "logoutTime"])
       ELSE UNCHANGED calls
    /\ UNCHANGED <<doc, open, crossed>>

\* Faulty variant: the player stays on his server.
CloseSessionOnly ==
    /\ At("consumer", "logoutTime")
    /\ CloseSession(calls["consumer"].player)
    /\ Return("consumer")
    /\ UNCHANGED <<rolesVars, proxies, doc, ledger, history>>

\* No session that matches is an error, and the handler returns.
SetLoginSessionLogoutTime ==
    /\ At("consumer", "logoutTime")
    /\ LET p == calls["consumer"].player
       IN  IF HasSession(p)
           THEN CloseSession(p) /\ Go("consumer", [player |-> p, at |-> "logout"])
           ELSE UNCHANGED open /\ Return("consumer")
    /\ UNCHANGED <<rolesVars, proxies, doc, ledger, history>>

PlayerLogout ==
    /\ At("consumer", "logout")
    /\ LogOut(calls["consumer"].player)
    /\ Return("consumer")
    /\ UNCHANGED <<rolesVars, proxies, open, ledger, history>>

HandleServerSwitch(p) ==
    /\ NextConnection(p, "switch")
    /\ SetServer(p, "server")
    /\ UNCHANGED <<calls, open, crossed>>

\* A change before the first login finds no player to give the badge to.
HandlePlayerRolesUpdate(i) ==
    LET g == grants[i]
        p == g.player
        b == Granted[g.role]
    IN  /\ Free("consumer")
        /\ b # None
        /\ Read(i, g.change = "ADD" /\ ~ Exists(p))
        /\ \/ g.change = "ADD" /\ AddBadge("consumer", p, b)
           \/ g.change = "REMOVE" /\ RemoveBadge("consumer", p, b)
           \/ g.change = "REMOVE" /\ ~ Owns(p, b) /\ UNCHANGED <<store, calls, crossed>>
        /\ UNCHANGED <<roles, roleCalls, proxies, failed, failures>>

-----------------------------------------------------------------------------
(* Failures.  A message that was being handled is lost; one that is handled *)
(* again would do what a new message of its kind does.                     *)

Fail(players) == /\ failures < MaxFailures
                 /\ failures' = failures + 1
                 /\ failed' = failed \cup players
                 /\ UNCHANGED <<rolesVars, proxies, store, crossed>>

\* A repository call fails, and with it the call that makes it.
CallFails(s) == /\ ~ Free(s) /\ ~ At(s, "session")
                /\ Fail({calls[s].player})
                /\ Return(s)

\* The first repository call of a handler fails: the message is dropped.
DropConnection == LET p == Head(connections).player
                  IN  /\ Free("consumer") /\ connections # <<>>
                      /\ connections' = Tail(connections)
                      /\ failures < MaxFailures /\ failures' = failures + 1
                      /\ failed' = failed \cup {p}
                      /\ UNCHANGED <<rolesVars, net, store, calls, crossed>>

DropGrant(i) == /\ Free("consumer")
                /\ Read(i, TRUE)
                /\ failures < MaxFailures /\ failures' = failures + 1
                /\ UNCHANGED <<roles, roleCalls, proxies, store, calls, crossed, failed>>

\* The process dies.
Crash == /\ \E s \in Callers : ~ Free(s)
         /\ Fail({p \in Players : UnderWay(p) # {}})
         /\ calls' = [s \in Callers |-> NoCall]

\* A role that grants no badge: the handler dereferences nil.
Panic(i) == /\ Free("consumer")
            /\ Granted[grants[i].role] = None
            /\ Read(i, FALSE)
            /\ failures < MaxFailures /\ failures' = failures + 1
            /\ failed' = failed \cup {p \in Players : UnderWay(p) # {}}
            /\ calls' = [s \in Callers |-> NoCall]
            /\ UNCHANGED <<roles, roleCalls, proxies, store, crossed>>

-----------------------------------------------------------------------------

Player(p) == Connect(p) \/ SwitchServer(p) \/ Disconnect(p)

Grpc(s) == \/ \E p \in Players, b \in ByHand : BadgeCall(s, p, b)
           \/ \E p \in Players : AddExperienceToPlayer(s, p)
           \/ CreateExperienceTransaction(s)

Anyone(s) == \/ ReadBadges(s) \/ SetActivePlayerBadge(s) \/ UpdatePlayerBadgesAndActive(s)
             \/ CallFails(s)

Consumer ==
    \/ \E p \in Players : HandleConnect(p) \/ HandleDisconnect(p) \/ HandleServerSwitch(p)
    \/ \E i \in 1 .. Len(grants) : HandlePlayerRolesUpdate(i) \/ Panic(i) \/ DropGrant(i)
    \/ CreateLoginSession \/ SavePlayer \/ SetLoginSessionLogoutTime \/ PlayerLogout

Next ==
    \/ RolesNext /\ UNCHANGED <<proxies, store, calls, history>>
    \/ \E p \in Players : Player(p)
    \/ \E s \in Slots : Grpc(s)
    \/ \E s \in Callers : Anyone(s)
    \/ Consumer
    \/ DropConnection \/ Crash

Spec == Init /\ [][Next]_vars

-----------------------------------------------------------------------------
(* Properties.                                                             *)

\* A call about p that is still to write the field.
Writing(p, field) == \E s \in UnderWay(p) : field \in Writes(calls[s].at)

\* Nothing said about where p is waits to be read, or is being handled.
Settled(p) == /\ \A i \in 1 .. Len(connections) : connections[i].player # p
              /\ calls["consumer"] # NoCall /\ calls["consumer"].player = p
                 => calls["consumer"].at \notin {"session", "save", "logoutTime", "logout"}

\* The state is well typed.
TypeOK ==
    /\ roles \in [Players -> {None} \cup SUBSET Roles]
    /\ roleCalls \in [RoleSlots -> {NoRoleCall} \cup
            [at : {"insert", "announce", "default"},
             grant : [player : Players, role : Roles, change : Changes]]]
    /\ grants \in Seq([player : Players, role : Roles, change : Changes])
    /\ tangled \subseteq Players \X Roles
    /\ net \in [Players -> {"off", "proxy", "server"}]
    /\ connections \in Seq([player : Players, kind : {"connect", "switch", "disconnect"}])
    /\ doc \in [Players -> {None} \cup Documents]
    /\ open \in [Players -> Nat] /\ ledger \in [Players -> Nat]
    /\ calls \in [Callers -> {NoCall}
            \cup [player : Players, at : {"session", "save"}, seen : Documents]
            \cup [player : Players, at : {"logoutTime", "logout", "readBadges", "transaction"}]
            \cup [player : Players, at : {"setActive"}, active : Badges \cup {None}]
            \cup [player : Players, at : {"saveBadges"}, badges : SUBSET Badges,
                  active : Badges \cup {None}]]
    /\ crossed \subseteq Players \X {"badges", "xp"}
    /\ failed \subseteq Players /\ failures \in 0 .. MaxFailures

\* When all that the proxies have said about a player is handled and no call
\* about him has failed, the tracker has him where he is, and he has exactly
\* one open login session when he is on the network and none otherwise.
TrackedWhereHeIs ==
    \A p \in Players :
        Settled(p) /\ p \notin failed =>
            /\ net[p] = Server(p)
            /\ open[p] = IF net[p] = "off" THEN 0 ELSE 1

\* Whoever is shown on a server has a login session, without which GetPlayer is
\* an error; the only exception is a logout half way.
OnlineHasSession ==
    \A p \in Players :
        p \notin failed /\ GetPlayerFails(p) =>
            calls["consumer"] = [player |-> p, at |-> "logout"]

\* The active badge is one the player owns, even when calls fail, unless two
\* calls wrote his badges at once.
ActiveBadgeOwned ==
    \A p \in Players :
        Exists(p) /\ <<p, "badges">> \notin crossed => doc[p].active \in doc[p].badges \cup {None}

\* A player's experience is the sum of his transactions, but for calls between
\* the two writes, unless a call failed or a login wrote an older document.
ExperienceAccounted ==
    \A p \in Players :
        Exists(p) /\ p \notin failed /\ <<p, "xp">> \notin crossed =>
            doc[p].xp = ledger[p] + Cardinality({s \in UnderWay(p) : At(s, "transaction")})

\* Whatever calls fail or stop half way, a player only gains experience, but for a
\* login that saves the document it read before another call gave him some
\* (HandlePlayerConnect, SavePlayer).
ExperienceGrows ==
    [][\A p \in Players :
           PlayerOf(p)'.xp < PlayerOf(p).xp
           => At("consumer", "save") /\ <<p, "xp">> \in crossed]_vars

\* A badge that comes with a role alone is owned by those who hold the role,
\* when the changes of the role are announced and handled one after another
\* and after the first login, and nothing crossed or failed.
BadgesFollowRoles ==
    \A p \in Players, r \in Roles :
        /\ Granted[r] \notin ByHand \cup {None}
        /\ p \notin failed /\ <<p, r>> \notin tangled /\ <<p, "badges">> \notin crossed
        /\ ~ Changing(p, r) /\ ~ Writing(p, "badges")
        /\ \A i \in 1 .. Len(grants) : grants[i].player = p => grants[i].role # r
        => (Owns(p, Granted[r]) <=> HoldsRole(p, r))

\* A role is only ever lost by a call that removes it and goes on to say so.
RolesKept ==
    [][\A p \in Players, r \in Roles :
           HoldsRole(p, r) /\ ~ HoldsRole(p, r)'
           => \E s \in RoleSlots : roleCalls'[s] = RoleCall(p, r, "REMOVE", "announce")]_vars

=============================================================================
