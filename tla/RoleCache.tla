----------------------------- MODULE RoleCache ------------------------------
(***************************************************************************)
(* What roles are: permission-service creates and updates them, announces  *)
(* them, and message-handler keeps a cache of them from which it decides   *)
(* how a chat message looks.                                               *)
(*                                                                         *)
(* Who holds which role is kept by PlayerRoles; here anybody may hold any  *)
(* roles that exist.                                                       *)
(***************************************************************************)
EXTENDS Sequences, Integers, FiniteSets

CONSTANTS Roles, DefaultRole, None,
          Priority,      \* of the roles
          Changes,       \* bound: the updates somebody asks for
          Slots,         \* bound: names of the calls under way at once
          MaxUnread      \* bound: announcements not read

Settings == {"displayName", "chat.parse"}

ASSUME RoleCacheAssumption ==
    /\ DefaultRole \in Roles /\ IsFiniteSet(Roles)
    /\ Priority \in [Roles -> Int]
    /\ \A r, q \in Roles : r # q => Priority[r] # Priority[q]
    /\ \A content \in SUBSET Settings : content # None
    /\ Changes \subseteq [role : Roles, set : SUBSET Settings, unset : SUBSET {"chat.parse"}]
    /\ MaxUnread \in Nat

VARIABLES
    role,       \* collection role: id |-> what is set in it, or None
    calls,      \* slot |-> the call under way
    unread,     \* topic permission-manager: what message-handler has not read
    last,       \* what it has read last since it started: one message or none
    cache,      \* roleCache of message-handler
    tangled     \* history: roles not announced and read in the order of the writes

vars == <<role, calls, unread, last, cache, tangled>>

-----------------------------------------------------------------------------
(* Roles.  What a role says is the set of what is set in it: a display name *)
(* and the permissions that are allowed.                                   *)

RoleExists(r) == role[r] # None

\* All roles, as they are at this moment.
GetAllRoles == role

\* An update takes permissions away and then sets others.
Changed(content, change) == (content \ change.unset) \cup change.set

\* The role of the highest priority that has a display name.
computeActiveDisplayNameRole(held) ==
    LET named == {r \in held : "displayName" \in role[r]}
    IN  IF named = {} THEN None
        ELSE CHOOSE r \in named : \A q \in named : Priority[q] <= Priority[r]

Message(r, content) == [role |-> r, content |-> content]

-----------------------------------------------------------------------------
(* Calls of permission-service.                                            *)

NoCall == [at |-> "idle"]
At(s, at) == calls[s].at = at
Free(s) == calls[s] = NoCall
About(r) == {s \in Slots : ~ Free(s) /\ calls[s].role = r}
Return(s) == calls' = [calls EXCEPT ![s] = NoCall]

\* r is written and not announced yet.
Announcing(r) == \E s \in About(r) : At(s, "announce")

\* r is written and is to be announced.  Of two announcements that wait at once
\* either may be the first.
Write(s, r, content) ==
    /\ role' = [role EXCEPT ![r] = content]
    /\ tangled' = IF Announcing(r) THEN tangled \cup {r} ELSE tangled
    /\ calls' = [t \in Slots |->
           IF t = s THEN [role |-> r, content |-> content, at |-> "announce"]
           ELSE IF t \in About(r) /\ At(t, "replace") THEN [calls[t] EXCEPT !.alone = FALSE]
           ELSE calls[t]]
    /\ UNCHANGED <<unread, last, cache>>

\* createDefaultRole has run.
Init == /\ role = [r \in Roles |-> IF r = DefaultRole THEN {"displayName"} ELSE None]
        /\ calls = [s \in Slots |-> NoCall]
        /\ unread = <<>> /\ last = {}
        /\ cache = role
        /\ tangled = {}

\* A new role has no permissions.  One that exists is an error, and nothing is
\* announced.
CreateRole(s, r, content) == /\ Free(s) /\ ~ RoleExists(r)
                             /\ content \subseteq {"displayName"}
                             /\ Write(s, r, content)

\* UpdateRole reads the role ...
UpdateRole(s, change) ==
    /\ Free(s) /\ RoleExists(change.role)
    /\ calls' = [calls EXCEPT ![s] = [role |-> change.role, at |-> "replace", change |-> change,
                                      content |-> Changed(role[change.role], change),
                                      alone |-> TRUE]]
    /\ UNCHANGED <<role, unread, last, cache, tangled>>

\* Faulty variant: what the role said before is forgotten.
ReplaceAll(s) == At(s, "replace") /\ Write(s, calls[s].role, calls[s].change.set)

\* ... and replaces it.
ReplaceRole(s) == At(s, "replace") /\ Write(s, calls[s].role, calls[s].content)

RoleUpdate(s) ==
    /\ At(s, "announce") /\ Len(unread) < MaxUnread
    /\ unread' = Append(unread, Message(calls[s].role, calls[s].content))
    /\ Return(s)
    /\ UNCHANGED <<role, last, cache, tangled>>

\* A repository call fails, the process dies, or the asynchronous writer loses
\* the message.
CallFails(s) ==
    /\ ~ Free(s)
    /\ tangled' = IF At(s, "announce") THEN tangled \cup {calls[s].role} ELSE tangled
    /\ Return(s)
    /\ UNCHANGED <<role, unread, last, cache>>

-----------------------------------------------------------------------------
(* message-handler.                                                        *)

\* The handler knows all these roles.
roleIdsToRoles(held, known) == \A r \in held : known[r] # None

\* Whose display name is shown: of the active role, unless the handler knows the
\* role without one, or of none.
getDisplayUsername(active, known) ==
    IF active # None /\ "displayName" \in known[active] THEN active ELSE None

playerHasPermission(held, known) == \E r \in held : "chat.parse" \in known[r]

\* How a message of somebody who holds these roles looks when the handler knows
\* those, and whether its content is parsed.
handlePlayerChatMessage(held, known) ==
    IF roleIdsToRoles(held, known)
    THEN [name  |-> getDisplayUsername(computeActiveDisplayNameRole(held), known),
          parse |-> playerHasPermission(held, known)]
    ELSE [dropped |-> TRUE]

\* Message i is the next: the topic may have several partitions, so an older one
\* about the same role may still be to come.
Read(i) ==
    /\ last' = {unread[i]}
    /\ unread' = SubSeq(unread, 1, i - 1) \o SubSeq(unread, i + 1, Len(unread))
    /\ tangled' = IF \E k \in 1 .. i - 1 : unread[k].role = unread[i].role
                  THEN tangled \cup {unread[i].role} ELSE tangled
    /\ UNCHANGED <<role, calls>>

\* Faulty variant: a role that is not known yet is not updated.
UpdateKnown(i) ==
    /\ Read(i)
    /\ LET m == unread[i]
       IN  cache' = IF cache[m.role] = None THEN cache ELSE [cache EXCEPT ![m.role] = m.content]

handleRoleUpdate(i) ==
    /\ Read(i)
    /\ cache' = [cache EXCEPT ![unread[i].role] = unread[i].content]

\* The process dies and starts again: it reads all roles, and then the topic from
\* where it was, or once more what it has read last, or without what it was
\* about to read.
cacheRoles ==
    /\ cache' = GetAllRoles
    /\ \/ unread' = unread
       \/ \E m \in last : unread' = <<m>> \o unread
       \/ unread # <<>> /\ unread' = Tail(unread)
    /\ last' = {}
    /\ tangled' = {r \in tangled : Announcing(r) \/ \E i \in 1 .. Len(unread') : unread'[i].role = r}
    /\ UNCHANGED <<role, calls>>

-----------------------------------------------------------------------------

Next ==
    \/ \E s \in Slots :
          \/ \E r \in Roles, content \in SUBSET Settings : CreateRole(s, r, content)
          \/ \E change \in Changes : UpdateRole(s, change)
          \/ ReplaceRole(s) \/ RoleUpdate(s) \/ CallFails(s)
    \/ \E i \in 1 .. Len(unread) : handleRoleUpdate(i)
    \/ cacheRoles

Spec == Init /\ [][Next]_vars

-----------------------------------------------------------------------------
(* Properties.                                                             *)

\* The state is well typed.
TypeOK ==
    /\ role \in [Roles -> {None} \cup SUBSET Settings]
    /\ calls \in [Slots -> {NoCall}
            \cup [role : Roles, at : {"replace"}, change : Changes, content : SUBSET Settings,
                  alone : BOOLEAN]
            \cup [role : Roles, at : {"announce"}, content : SUBSET Settings]]
    /\ unread \in Seq([role : Roles, content : SUBSET Settings])
    /\ last \subseteq [role : Roles, content : SUBSET Settings]
    /\ cache \in [Roles -> {None} \cup SUBSET Settings]
    /\ tangled \subseteq Roles

\* UpdateRole replaces the whole document by one it has read before, yet changes
\* nothing but what it was asked to, unless the role was written in between.
UpdatesKept ==
    [][\A r \in Roles :
           RoleExists(r) /\ role'[r] # role[r] =>
               \E s \in About(r) :
                   /\ At(s, "replace") /\ calls'[s].at = "announce"
                   /\ calls[s].alone => role'[r] = Changed(role[r], calls[s].change)]_vars

\* All that was announced about r is read, in the order of the writes.
Settled(r) == /\ r \notin tangled /\ ~ Announcing(r)
              /\ \A i \in 1 .. Len(unread) : unread[i].role # r

\* Chat messages look as the roles in the database say, though the handler has
\* them from its start and from the topic, and restarts in between: no message
\* is dropped for a role it does not know, no display name or permission is
\* missing or outdated, unless news about a role of the player is on its way.
ChatFollowsRoles ==
    \A held \in SUBSET {r \in Roles : RoleExists(r) /\ Settled(r)} :
        handlePlayerChatMessage(held, cache) = handlePlayerChatMessage(held, role)

=============================================================================
