---------------------------- MODULE PlayerRoles ----------------------------
(***************************************************************************)
(* The roles of players (permission-service) and the topic their changes   *)
(* are announced on.                                                       *)
(*                                                                         *)
(* A call is as many steps as it makes repository calls, and one more to   *)
(* announce.  DoesRoleExist is no step: roles are never deleted, so all it *)
(* does is to keep other ids out of Roles.                                 *)
(***************************************************************************)
EXTENDS Sequences, Integers

CONSTANTS Players, Roles,
          DefaultRole,
          None,         \* no document, no badge
          Asked,        \* bound: the changes of roles somebody asks for
          RoleSlots,    \* bound: names of the calls under way at once
          MaxGrants     \* bound: announcements not yet read

ASSUME RolesAssumption == /\ DefaultRole \in Roles
                          /\ \A held \in SUBSET Roles : held # None
                          /\ MaxGrants \in Nat

VARIABLES
    roles,       \* collection players: player |-> the roles he holds, or None
    roleCalls,   \* slot |-> the call under way
    grants,      \* topic permission-manager: the changes not yet read
    tangled      \* history: <<player, role>> of which changes crossed or got lost

rolesVars == <<roles, roleCalls, grants, tangled>>

-----------------------------------------------------------------------------

Changes == {"ADD", "REMOVE"}
Grant(p, r, change) == [player |-> p, role |-> r, change |-> change]

NoRoleCall == [at |-> "idle"]

\* A call to change a role: at "insert" or "announce"; one that only reads is
\* at "default", about to insert the default role.
RoleCall(p, r, change, at) == [at |-> at, grant |-> Grant(p, r, change)]

RoleAt(s, at) == roleCalls[s].at = at
Goes(s, call) == roleCalls[s] = NoRoleCall /\ roleCalls' = [roleCalls EXCEPT ![s] = call]
Ends(s) == roleCalls' = [roleCalls EXCEPT ![s] = NoRoleCall]

\* A change of this role is written or will be, and is not announced yet.
Changing(p, r) ==
    \E s \in RoleSlots : /\ roleCalls[s].at \in {"insert", "announce"}
                         /\ roleCalls[s].grant.player = p
                         /\ roleCalls[s].grant.role = r

\* A change that meets another one may be announced before it.
Tangles(p, r) == tangled' = IF Changing(p, r) THEN tangled \cup {<<p, r>>} ELSE tangled

HoldsRole(p, r) == roles[p] # None /\ r \in roles[p]

RolesInit == /\ roles = [p \in Players |-> None]
             /\ roleCalls = [s \in RoleSlots |-> NoRoleCall]
             /\ grants = <<>>
             /\ tangled = {}

-----------------------------------------------------------------------------
(* AddRoleToPlayer: $addToSet, and an insert where there is no document.   *)

AddRoleToPlayer(s, p, r) ==
    /\ <<r, "ADD">> \in Asked
    /\ ~ HoldsRole(p, r)
    /\ IF roles[p] = None
       THEN UNCHANGED roles /\ Goes(s, RoleCall(p, r, "ADD", "insert"))
       ELSE /\ roles' = [roles EXCEPT ![p] = @ \cup {r}]
            /\ Goes(s, RoleCall(p, r, "ADD", "announce"))
    /\ Tangles(p, r)
    /\ UNCHANGED grants

\* An insert into a collection that has the id already is an error.
InsertWithRole(s) ==
    /\ RoleAt(s, "insert")
    /\ LET g == roleCalls[s].grant
       IN  IF roles[g.player] = None
           THEN /\ roles' = [roles EXCEPT ![g.player] = {DefaultRole, g.role}]
                /\ roleCalls' = [roleCalls EXCEPT ![s].at = "announce"]
           ELSE UNCHANGED roles /\ Ends(s)
    /\ UNCHANGED <<grants, tangled>>

\* Faulty variant: nobody is told.
PullRole(s, p, r) ==
    /\ HoldsRole(p, r)
    /\ roles' = [roles EXCEPT ![p] = @ \ {r}]
    /\ UNCHANGED <<roleCalls, grants, tangled>>

RemoveRoleFromPlayer(s, p, r) ==
    /\ <<r, "REMOVE">> \in Asked
    /\ HoldsRole(p, r)
    /\ roles' = [roles EXCEPT ![p] = @ \ {r}]
    /\ Goes(s, RoleCall(p, r, "REMOVE", "announce"))
    /\ Tangles(p, r)
    /\ UNCHANGED grants

\* Both calls announce what they have changed.
AnnounceRole(s) ==
    /\ RoleAt(s, "announce")
    /\ Len(grants) < MaxGrants
    /\ grants' = Append(grants, roleCalls[s].grant)
    /\ Ends(s)
    /\ UNCHANGED <<roles, tangled>>

\* GetPlayerRoleIds inserts the default role where there is no document.
GetPlayerRoles(s, p) ==
    /\ roles[p] = None
    /\ Goes(s, RoleCall(p, DefaultRole, "ADD", "default"))
    /\ UNCHANGED <<roles, grants, tangled>>

\* Faulty variant: what another call has inserted is replaced.
ReplaceByDefault(s) ==
    /\ RoleAt(s, "default")
    /\ roles' = [roles EXCEPT ![roleCalls[s].grant.player] = {DefaultRole}]
    /\ Ends(s)
    /\ UNCHANGED <<grants, tangled>>

InsertDefault(s) ==
    /\ RoleAt(s, "default")
    /\ LET p == roleCalls[s].grant.player
       IN  roles' = IF roles[p] = None THEN [roles EXCEPT ![p] = {DefaultRole}] ELSE roles
    /\ Ends(s)
    /\ UNCHANGED <<grants, tangled>>

\* A repository call fails, the process dies, or the writer, which is
\* asynchronous, loses the message: what is written stays.
RoleCallFails(s) ==
    /\ roleCalls[s] # NoRoleCall
    /\ LET g == roleCalls[s].grant
       IN  tangled' = IF RoleAt(s, "announce") THEN tangled \cup {<<g.player, g.role>>} ELSE tangled
    /\ Ends(s)
    /\ UNCHANGED <<roles, grants>>

RolesNext ==
    \E s \in RoleSlots :
        \/ \E p \in Players, r \in Roles : AddRoleToPlayer(s, p, r) \/ RemoveRoleFromPlayer(s, p, r)
        \/ \E p \in Players : GetPlayerRoles(s, p)
        \/ InsertWithRole(s) \/ InsertDefault(s) \/ AnnounceRole(s) \/ RoleCallFails(s)

\* The topic may have several partitions, whose order is not kept: any message
\* may be read next, and so overtake others about its role.  It is in vain when
\* the reader can make nothing of it.
Read(i, inVain) ==
    LET g == grants[i]
        Overtaken(k) == grants[k].player = g.player /\ grants[k].role = g.role
    IN  /\ grants' = SubSeq(grants, 1, i - 1) \o SubSeq(grants, i + 1, Len(grants))
        /\ tangled' = IF inVain \/ \E k \in 1 .. i - 1 : Overtaken(k)
                      THEN tangled \cup {<<g.player, g.role>>} ELSE tangled

=============================================================================
