---------------------------- MODULE McPlayerProofs ----------------------------
(* Theorems about the player service and the roles of players, for any       *)
(* players, roles, badges, calls under way, unread messages and failures.    *)
EXTENDS McPlayer, FiniteSetTheorems, SequenceTheorems, WellFoundedInduction, TLAPS

\* The operators that only name a repository call or a call of the service are
\* expanded everywhere.
USE DEF At, Free, Go, Return, NoCall, store, proxies, history, rolesVars,
        AddPlayerBadge, SetServer, LogOut, GainExperience, RecordTransaction,
        OpenSession, CloseSession, Exists

-----------------------------------------------------------------------------
(* Lists: what is left of one when an item is taken out.                   *)

Without(list, i) == SubSeq(list, 1, i - 1) \o SubSeq(list, i + 1, Len(list))

\* Those before item i keep their place, those after it move up.
LEMMA TakenOut ==
    ASSUME NEW T, NEW list \in Seq(T), NEW i \in 1 .. Len(list)
    PROVE  /\ Without(list, i) \in Seq(T) /\ Len(Without(list, i)) = Len(list) - 1
           /\ \A k \in 1 .. Len(list) - 1 :
                 Without(list, i)[k] = list[IF k < i THEN k ELSE k + 1]
<1> DEFINE before == SubSeq(list, 1, i - 1)
           after == SubSeq(list, i + 1, Len(list))
<1>1. /\ before \in Seq(T) /\ Len(before) = i - 1
      /\ \A k \in 1 .. i - 1 : before[k] = list[k]
  <2>1. \A k \in 1 .. i - 1 : list[k] \in T
    OBVIOUS
  <2> QED
    BY <2>1, SubSeqProperties
<1>2. /\ after \in Seq(T) /\ Len(after) = Len(list) - i
      /\ \A k \in 1 .. Len(list) - i : after[k] = list[i + k]
  <2>1. \A k \in i + 1 .. Len(list) : list[k] \in T
    OBVIOUS
  <2> QED
    BY <2>1, SubSeqProperties
<1>3. /\ before \o after \in Seq(T) /\ Len(before \o after) = Len(before) + Len(after)
      /\ \A k \in 1 .. Len(before) + Len(after) :
            (before \o after)[k] = IF k <= Len(before) THEN before[k] ELSE after[k - Len(before)]
  <2> HIDE DEF before, after
  <2> QED
    BY <1>1, <1>2, ConcatProperties
<1>4. Without(list, i) = before \o after
  BY DEF Without
<1> HIDE DEF before, after
<1>5. Without(list, i) \in Seq(T) /\ Len(Without(list, i)) = Len(list) - 1
  BY <1>1, <1>2, <1>3, <1>4, SMTT(60)
<1>6. ASSUME NEW k \in 1 .. Len(list) - 1
      PROVE  Without(list, i)[k] = list[IF k < i THEN k ELSE k + 1]
  <2>1. CASE k < i
    BY <1>1, <1>2, <1>3, <1>4, <2>1
  <2>2. CASE ~ k < i
    <3>1. /\ k - Len(before) \in 1 .. Len(list) - i
          /\ Without(list, i)[k] = after[k - Len(before)]
      BY <1>1, <1>2, <1>3, <1>4, <2>2
    <3> QED
      BY <1>1, <1>2, <2>2, <3>1
  <2> QED
    BY <2>1, <2>2
<1> QED
  BY <1>5, <1>6

\* The first item gone.
LEMMA HeadGone ==
    ASSUME NEW T, NEW list \in Seq(T), list # <<>>
    PROVE  /\ Head(list) = list[1] /\ Tail(list) \in Seq(T) /\ Len(Tail(list)) = Len(list) - 1
           /\ \A k \in 1 .. Len(list) - 1 : Tail(list)[k] = list[k + 1]
  OBVIOUS

-----------------------------------------------------------------------------
(* Type correctness.                                                       *)

Places == {"off", "proxy", "server"}
Messages == [player : Players, kind : {"connect", "switch", "disconnect"}]
Grants == [player : Players, role : Roles, change : Changes]
RoleCalls == [at : {"insert", "announce", "default"}, grant : Grants]

Logins == [player : Players, at : {"session", "save"}, seen : Documents]
Steps == [player : Players, at : {"logoutTime", "logout", "readBadges", "transaction"}]
Activations == [player : Players, at : {"setActive"}, active : Badges \cup {None}]
Savings == [player : Players, at : {"saveBadges"}, badges : SUBSET Badges,
            active : Badges \cup {None}]
CallsUnderWay == Logins \cup Steps \cup Activations \cup Savings

\* A player has a document while a badge or experience call about him is under
\* way; only the consumer handles connections, and who connects is on a proxy.
Present ==
    \A s \in Callers :
        /\ calls[s].at \in {"readBadges", "setActive", "saveBadges", "transaction"}
           => Exists(calls[s].player)
        /\ s \in Slots => calls[s].at \notin {"session", "save", "logoutTime", "logout"}
        /\ calls[s].at \in {"session", "save"} => calls[s].seen.server = "proxy"

\* A session that is about to be closed is open.
Leaving == calls["consumer"].at = "logoutTime" => HasSession(calls["consumer"].player)

TypeInv == TypeOK /\ Present /\ Leaving

RolesType == /\ roles \in [Players -> {None} \cup SUBSET Roles]
             /\ roleCalls \in [RoleSlots -> {NoRoleCall} \cup RoleCalls]
             /\ grants \in Seq(Grants) /\ tangled \subseteq Players \X Roles
ProxiesType == net \in [Players -> Places] /\ connections \in Seq(Messages)
StoreType == /\ doc \in [Players -> {None} \cup Documents]
             /\ open \in [Players -> Nat] /\ ledger \in [Players -> Nat]
CallsType == calls \in [Callers -> {NoCall} \cup CallsUnderWay]
HistoryType == /\ crossed \subseteq Players \X {"badges", "xp"}
               /\ failed \subseteq Players /\ failures \in 0 .. MaxFailures

LEMMA Types == TypeOK <=> RolesType /\ ProxiesType /\ StoreType /\ CallsType /\ HistoryType
  BY DEF TypeOK, RolesType, ProxiesType, StoreType, CallsType, HistoryType, Places, Messages,
         Grants, RoleCalls, CallsUnderWay, Logins, Steps, Activations, Savings

LEMMA TypesNext ==
    TypeOK' <=> RolesType' /\ ProxiesType' /\ StoreType' /\ CallsType' /\ HistoryType'
  BY DEF TypeOK, RolesType, ProxiesType, StoreType, CallsType, HistoryType, Places, Messages,
         Grants, RoleCalls, CallsUnderWay, Logins, Steps, Activations, Savings

\* A slot holds no call, or one of a kind that its next step tells.
LEMMA Kinds ==
    ASSUME CallsType, NEW s \in Callers
    PROVE  \/ calls[s] = NoCall /\ calls[s].at = "idle"
           \/ calls[s] # NoCall /\ calls[s].at \in {"session", "save"} /\ calls[s] \in Logins
           \/ /\ calls[s] # NoCall /\ calls[s] \in Steps
              /\ calls[s].at \in {"logoutTime", "logout", "readBadges", "transaction"}
           \/ calls[s] # NoCall /\ calls[s].at = "setActive" /\ calls[s] \in Activations
           \/ calls[s] # NoCall /\ calls[s].at = "saveBadges" /\ calls[s] \in Savings
  BY DEF CallsType, CallsUnderWay, Logins, Steps, Activations, Savings

\* The player a call is about.
LEMMA PlayerOfCall ==
    ASSUME CallsType, NEW s \in Callers, calls[s] # NoCall
    PROVE  calls[s].player \in Players
  BY Kinds DEF Logins, Steps, Activations, Savings

-----------------------------------------------------------------------------
(* Badges.                                                                 *)

\* Of some badges one has the highest priority: there are finitely many.  A smallest
\* set of badges without one would have one when a badge is taken away.
LEMMA Highest ==
    ASSUME NEW S \in SUBSET Badges, S # {}
    PROVE  \E b \in S : \A c \in S : Priority[c] <= Priority[b]
<1> DEFINE HasHighest(X) == \E b \in X : \A c \in X : Priority[c] <= Priority[b]
           Lacking == {X \in FiniteSubsetsOf(Badges) : X # {} /\ ~ HasHighest(X)}
<1> SUFFICES ASSUME Lacking # {} PROVE FALSE
  <2>1. IsFiniteSet(S)
    BY FS_Subset, McPlayerAssumption
  <2> QED
    BY <2>1 DEF FiniteSubsetsOf
<1>1. PICK X \in Lacking : \A Y \in Lacking : ~ (<<Y, X>> \in StrictSubsetOrdering(Badges))
  BY FS_StrictSubsetOrderingWellFounded, WFMin
<1>2. PICK x \in X : TRUE
  OBVIOUS
<1> DEFINE Y == X \ {x}
<1>3. X \subseteq Badges /\ IsFiniteSet(X) /\ Y \subseteq Badges /\ IsFiniteSet(Y)
  BY FS_RemoveElement DEF FiniteSubsetsOf
<1>4. \A b \in Badges : Priority[b] \in Int
  BY McPlayerAssumption
<1>5. CASE Y = {}
  BY <1>2, <1>3, <1>4, <1>5
<1>6. CASE Y # {}
  <2>1. <<Y, X>> \in StrictSubsetOrdering(Badges)
    BY <1>2, <1>3 DEF StrictSubsetOrdering
  <2>2. HasHighest(Y)
    BY <1>1, <1>3, <1>6, <2>1 DEF FiniteSubsetsOf
  <2>3. PICK y \in Y : \A c \in Y : Priority[c] <= Priority[y]
    BY <2>2
  <2>4. CASE Priority[y] <= Priority[x]
    BY <1>2, <1>3, <1>4, <2>3, <2>4
  <2>5. CASE ~ (Priority[y] <= Priority[x])
    BY <1>2, <1>3, <1>4, <2>3, <2>5
  <2> QED
    BY <2>4, <2>5
<1> QED
  BY <1>5, <1>6

\* So the badge to be active is one of those it is chosen from.
LEMMA ActiveIsOne ==
    ASSUME NEW badges \in SUBSET Badges
    PROVE  calculateActiveBadge(badges) \in badges \cup {None}
<1> DEFINE shown == {b \in badges : Priority[b] > 0}
<1>1. CASE shown = {}
  BY <1>1 DEF calculateActiveBadge
<1>2. CASE shown # {}
  <2>1. \E b \in shown : \A c \in shown : Priority[c] <= Priority[b]
    BY <1>2, Highest
  <2> QED
    BY <1>2, <2>1 DEF calculateActiveBadge
<1> QED
  BY <1>1, <1>2

-----------------------------------------------------------------------------

LEMMA RolesTyped ==
    ASSUME TypeOK, RolesNext
    PROVE  RolesType'
<1> USE Types DEF RolesType
<1>1. PICK s \in RoleSlots :
        \/ \E p \in Players, r \in Roles : AddRoleToPlayer(s, p, r) \/ RemoveRoleFromPlayer(s, p, r)
        \/ \E p \in Players : GetPlayerRoles(s, p)
        \/ InsertWithRole(s) \/ InsertDefault(s) \/ AnnounceRole(s) \/ RoleCallFails(s)
  BY DEF RolesNext
<1>2. DefaultRole \in Roles /\ \A held \in SUBSET Roles : held # None
  BY RolesAssumption
<1>3. \A x \in {"insert", "announce", "default"}, change \in Changes, p \in Players, r \in Roles :
        RoleCall(p, r, change, x) \in RoleCalls
  BY DEF RoleCall, Grant, RoleCalls, Grants
<1>4. /\ roleCalls[s] # NoRoleCall => roleCalls[s] \in RoleCalls /\ roleCalls[s].grant \in Grants
      /\ \A x \in {"insert", "announce", "default"} : RoleAt(s, x) => roleCalls[s] # NoRoleCall
  BY DEF RoleCalls, NoRoleCall, RoleAt
<1>5. CASE \E p \in Players, r \in Roles : AddRoleToPlayer(s, p, r) \/ RemoveRoleFromPlayer(s, p, r)
  BY <1>3, <1>5 DEF AddRoleToPlayer, RemoveRoleFromPlayer, Goes, Tangles, HoldsRole, Changes
<1>6. CASE \E p \in Players : GetPlayerRoles(s, p)
  BY <1>2, <1>3, <1>6 DEF GetPlayerRoles, Goes, Changes
<1>7. CASE InsertWithRole(s)
  <2>1. [roleCalls[s] EXCEPT !.at = "announce"] \in RoleCalls
    BY <1>4, <1>7 DEF InsertWithRole, RoleCalls
  <2>2. roleCalls[s].grant.player \in Players /\ roleCalls[s].grant.role \in Roles
    BY <1>4, <1>7 DEF InsertWithRole, Grants
  <2> QED
    BY <1>2, <1>7, <2>1, <2>2 DEF InsertWithRole, Ends
<1>8. CASE InsertDefault(s)
  <2>1. roleCalls[s].grant.player \in Players
    BY <1>4, <1>8 DEF InsertDefault, Grants
  <2> QED
    BY <1>2, <1>8, <2>1 DEF InsertDefault, Ends
<1>9. CASE AnnounceRole(s)
  <2>1. roleCalls[s].grant \in Grants
    BY <1>4, <1>9 DEF AnnounceRole
  <2>2. grants' \in Seq(Grants)
    BY <1>9, <2>1 DEF AnnounceRole
  <2> QED
    BY <1>9, <2>2 DEF AnnounceRole, Ends
<1>10. CASE RoleCallFails(s)
  <2>1. roleCalls[s].grant.player \in Players /\ roleCalls[s].grant.role \in Roles
    BY <1>4, <1>10 DEF RoleCallFails, Grants
  <2> QED
    BY <1>10, <2>1 DEF RoleCallFails, Ends
<1> QED
  BY <1>1, <1>5, <1>6, <1>7, <1>8, <1>9, <1>10

\* What the consumer reads, and what is left of the topic.
LEMMA ReadTyped ==
    ASSUME RolesType, NEW i \in 1 .. Len(grants), NEW inVain \in BOOLEAN, Read(i, inVain),
           UNCHANGED <<roles, roleCalls>>
    PROVE  RolesType' /\ grants[i] \in Grants /\ grants' = Without(grants, i)
<1>1. grants[i] \in Grants /\ grants' = Without(grants, i)
  BY DEF RolesType, Read, Without
<1>2. grants' \in Seq(Grants)
  BY <1>1, TakenOut DEF RolesType
<1>3. grants[i].player \in Players /\ grants[i].role \in Roles
  BY <1>1 DEF Grants
<1>4. tangled' \subseteq Players \X Roles
  BY <1>3 DEF Read, RolesType
<1> QED
  BY <1>1, <1>2, <1>4 DEF RolesType

LEMMA TypePlayer ==
    ASSUME TypeInv, NEW p \in Players, Player(p)
    PROVE  TypeInv'
<1> USE Types, TypesNext DEF TypeInv
<1>1. PICK from \in SUBSET Places, to \in Places, kind \in {"connect", "switch", "disconnect"} :
        Moves(p, from, to, kind)
  BY DEF Player, Connect, SwitchServer, Disconnect, Places
<1>2. Message(p, kind) \in Messages
  BY DEF Message, Messages
<1>3. ProxiesType'
  BY <1>1, <1>2 DEF Moves, ProxiesType
<1> QED
  BY <1>1, <1>3 DEF Moves, RolesType, StoreType, CallsType, HistoryType, Present, Leaving, HasSession

\* Writing into a document leaves a document.
LEMMA Documented ==
    ASSUME StoreType, NEW p \in Players, Exists(p)
    PROVE  /\ doc[p] \in Documents
           /\ \A badges \in SUBSET Badges : [doc[p] EXCEPT !.badges = badges] \in Documents
           /\ \A active \in Badges \cup {None} : [doc[p] EXCEPT !.active = active] \in Documents
           /\ \A server \in Places : [doc[p] EXCEPT !.server = server] \in Documents
           /\ \A xp \in Nat : [doc[p] EXCEPT !.xp = xp] \in Documents
  BY DEF StoreType, Documents, Places

\* A document in the place of one, or of none, keeps the others.
LEMMA DocKept ==
    ASSUME StoreType, NEW p \in Players, NEW d \in Documents, doc' = [doc EXCEPT ![p] = d]
    PROVE  /\ doc' \in [Players -> {None} \cup Documents]
           /\ \A q \in Players : Exists(q) \/ q = p => Exists(q)'
  BY McPlayerAssumption DEF StoreType

LEMMA MeetsTyped ==
    ASSUME HistoryType, NEW p \in Players, NEW fields \in SUBSET {"badges", "xp"}, Meets(p, fields)
    PROVE  crossed' \subseteq Players \X {"badges", "xp"} /\ crossed \subseteq crossed'
  BY DEF HistoryType, Meets

\* A call takes the place of what its slot holds.
LEMMA CallsKept ==
    ASSUME CallsType, Present, NEW s \in Callers, NEW call \in {NoCall} \cup CallsUnderWay,
           calls' = [calls EXCEPT ![s] = call],
           \A q \in Players : Exists(q) => Exists(q)',
           call.at \in {"readBadges", "setActive", "saveBadges", "transaction"}
               => call.player \in Players /\ Exists(call.player)',
           s \in Slots => call.at \notin {"session", "save", "logoutTime", "logout"},
           call.at \in {"session", "save"} => call.seen.server = "proxy"
    PROVE  CallsType' /\ Present'
<1>1. CallsType'
  BY DEF CallsType
<1>2. ASSUME NEW t \in Callers
      PROVE  /\ calls'[t].at \in {"readBadges", "setActive", "saveBadges", "transaction"}
                => doc'[calls'[t].player] # None
             /\ t \in Slots => calls'[t].at \notin {"session", "save", "logoutTime", "logout"}
             /\ calls'[t].at \in {"session", "save"} => calls'[t].seen.server = "proxy"
  <2>1. CASE t = s
    BY <2>1 DEF CallsType
  <2>2. CASE t # s
    <3>1. calls'[t] = calls[t]
      BY <2>2 DEF CallsType
    <3>2. calls[t] # NoCall => calls[t].player \in Players
      BY PlayerOfCall
    <3> QED
      BY <3>1, <3>2 DEF Present
  <2> QED
    BY <2>1, <2>2
<1>3. Callers' = Callers
  BY DEF Callers
<1> QED
  BY <1>1, <1>2, <1>3 DEF Present

\* Calls that stay, where no document is lost.
LEMMA CallsStay ==
    ASSUME CallsType, Present, UNCHANGED calls, \A q \in Players : Exists(q) => Exists(q)'
    PROVE  CallsType' /\ Present'
<1>1. \A t \in Callers : calls[t] # NoCall => calls[t].player \in Players
  BY PlayerOfCall
<1> QED
  BY <1>1 DEF CallsType, Present, Callers

LEMMA TypeAddBadge ==
    ASSUME TypeInv, NEW s \in Callers, NEW p \in Players, NEW b \in Badges, AddBadge(s, p, b)
    PROVE  StoreType' /\ CallsType' /\ Present' /\ crossed' \subseteq Players \X {"badges", "xp"}
<1> USE Types DEF TypeInv
<1>1. CASE Exists(p) /\ ~ Owns(p, b)
  <2>1. doc[p] \in Documents
    BY <1>1, Documented
  <2>2. [doc[p] EXCEPT !.badges = @ \cup {b}] \in Documents
    BY <2>1 DEF Documents
  <2>3. doc' = [doc EXCEPT ![p] = [doc[p] EXCEPT !.badges = @ \cup {b}]]
    BY <1>1 DEF AddBadge
  <2>4. StoreType' /\ \A q \in Players : Exists(q) => Exists(q)'
    BY <2>2, <2>3, DocKept DEF AddBadge, StoreType
  <2>5. [player |-> p, at |-> "readBadges"] \in Steps
    BY DEF Steps
  <2>6. CallsType' /\ Present'
    <3>1. CASE b \in Required
      <4> DEFINE call == [player |-> p, at |-> "readBadges"]
      <4>1. calls' = [calls EXCEPT ![s] = call] /\ call \in CallsUnderWay
        BY <1>1, <2>5, <3>1 DEF AddBadge, CallsUnderWay
      <4>2. call.at = "readBadges" /\ call.player = p /\ Exists(p)'
        BY <1>1, <2>4
      <4> HIDE DEF call
      <4> QED
        BY <2>4, <4>1, <4>2, CallsKept
    <3>2. CASE b \notin Required
      BY <1>1, <2>4, <3>2, CallsStay DEF AddBadge
    <3> QED
      BY <3>1, <3>2
  <2> QED
    BY <1>1, <2>4, <2>6, MeetsTyped DEF AddBadge
<1>2. CASE ~ (Exists(p) /\ ~ Owns(p, b))
  BY <1>2, CallsStay DEF AddBadge, StoreType, HistoryType
<1> QED
  BY <1>1, <1>2

LEMMA TypeChangeBadge ==
    ASSUME TypeInv, NEW s \in Callers, NEW p \in Players, NEW b \in Badges,
           RemoveBadge(s, p, b) \/ SetActiveBadge(s, p, b)
    PROVE  StoreType' /\ CallsType' /\ Present' /\ crossed' \subseteq Players \X {"badges", "xp"}
<1> USE Types DEF TypeInv
<1>1. Exists(p) /\ doc[p] \in Documents
  BY Documented DEF RemoveBadge, SetActiveBadge, Owns
<1>2. UNCHANGED store /\ StoreType'
  BY DEF RemoveBadge, SetActiveBadge, StoreType
<1>3. crossed' \subseteq Players \X {"badges", "xp"}
  BY MeetsTyped DEF RemoveBadge, SetActiveBadge
<1>4. PICK call \in CallsUnderWay :
        calls' = [calls EXCEPT ![s] = call] /\ call.player = p /\ call.at \in {"saveBadges", "setActive"}
  <2>1. CASE RemoveBadge(s, p, b)
    <3> DEFINE left == doc[p].badges \ {b}
               active == IF doc[p].active = b THEN calculateActiveBadge(left) ELSE doc[p].active
               call == [player |-> p, at |-> "saveBadges", badges |-> left, active |-> active]
    <3>1. left \in SUBSET Badges /\ active \in Badges \cup {None}
      BY <1>1, ActiveIsOne DEF Documents
    <3>2. calls' = [calls EXCEPT ![s] = call]
      BY <2>1 DEF RemoveBadge
    <3> HIDE DEF left, active
    <3>3. call \in CallsUnderWay
      BY <3>1 DEF CallsUnderWay, Savings
    <3> QED
      BY <3>2, <3>3
  <2>2. CASE SetActiveBadge(s, p, b)
    <3>1. [player |-> p, at |-> "setActive", active |-> b] \in CallsUnderWay
      BY DEF CallsUnderWay, Activations
    <3> QED
      BY <2>2, <3>1 DEF SetActiveBadge
  <2> QED
    BY <2>1, <2>2
<1>5. CallsType' /\ Present'
  BY <1>1, <1>2, <1>4, CallsKept
<1> QED
  BY <1>2, <1>3, <1>5

\* What a step of the consumer or of a gRPC call must leave typed.
Typed == StoreType' /\ CallsType' /\ HistoryType' /\ Present' /\ Leaving'

LEMMA TypeBadgeCall ==
    ASSUME TypeInv, NEW s \in Slots, NEW p \in Players, NEW b \in Badges, BadgeCall(s, p, b)
    PROVE  Typed
<1> USE Types DEF TypeInv
<1>1. s \in Callers /\ s # "consumer"
  BY McPlayerAssumption DEF Callers
<1>2. AddBadge(s, p, b) \/ RemoveBadge(s, p, b) \/ SetActiveBadge(s, p, b)
  BY DEF BadgeCall
<1>3. StoreType' /\ CallsType' /\ Present' /\ crossed' \subseteq Players \X {"badges", "xp"}
  BY <1>1, <1>2, TypeAddBadge, TypeChangeBadge
<1>4. UNCHANGED open /\ calls'["consumer"] = calls["consumer"]
  <2>1. \/ UNCHANGED calls
        \/ \E call : calls' = [calls EXCEPT ![s] = call]
    BY <1>2 DEF AddBadge, RemoveBadge, SetActiveBadge
  <2>2. UNCHANGED open
    BY <1>2 DEF AddBadge, RemoveBadge, SetActiveBadge
  <2> QED
    BY <1>1, <2>1, <2>2 DEF CallsType, Callers
<1>5. HistoryType'
  BY <1>3 DEF BadgeCall, HistoryType
<1>6. Leaving'
  BY <1>4 DEF Leaving, HasSession
<1> QED
  BY <1>3, <1>5, <1>6 DEF Typed

LEMMA TypeExperience ==
    ASSUME TypeInv, NEW s \in Slots,
           (\E p \in Players : AddExperienceToPlayer(s, p)) \/ CreateExperienceTransaction(s)
    PROVE  Typed
<1> USE Types DEF TypeInv
<1>1. s \in Callers /\ s # "consumer" /\ UNCHANGED open
  BY McPlayerAssumption DEF Callers, AddExperienceToPlayer, CreateExperienceTransaction
<1>2. ASSUME NEW p \in Players, AddExperienceToPlayer(s, p)
      PROVE  StoreType' /\ CallsType' /\ Present' /\ HistoryType' /\ calls'["consumer"] = calls["consumer"]
  <2>1. doc[p] \in Documents /\ [doc[p] EXCEPT !.xp = @ + 1] \in Documents
    BY <1>2, Documented DEF AddExperienceToPlayer, Documents
  <2>2. doc' = [doc EXCEPT ![p] = [doc[p] EXCEPT !.xp = @ + 1]]
    BY <1>2 DEF AddExperienceToPlayer
  <2>3. StoreType' /\ \A q \in Players : Exists(q) => Exists(q)'
    BY <1>2, <2>1, <2>2, DocKept DEF AddExperienceToPlayer, StoreType
  <2> DEFINE call == [player |-> p, at |-> "transaction"]
  <2>4. /\ calls' = [calls EXCEPT ![s] = call] /\ call \in CallsUnderWay
        /\ call.at = "transaction" /\ call.player = p /\ Exists(p)'
    BY <1>2, <2>3 DEF AddExperienceToPlayer, CallsUnderWay, Steps
  <2> HIDE DEF call
  <2>5. CallsType' /\ Present'
    BY <1>1, <2>3, <2>4, CallsKept
  <2>6. HistoryType'
    BY <1>2, MeetsTyped DEF AddExperienceToPlayer, HistoryType
  <2> QED
    BY <1>1, <2>3, <2>4, <2>5, <2>6 DEF CallsType
<1>3. ASSUME CreateExperienceTransaction(s)
      PROVE  StoreType' /\ CallsType' /\ Present' /\ HistoryType' /\ calls'["consumer"] = calls["consumer"]
  <2>1. calls[s].player \in Players
    BY <1>1, <1>3, Kinds DEF CreateExperienceTransaction, Steps
  <2>2. StoreType'
    BY <1>3, <2>1 DEF CreateExperienceTransaction, StoreType
  <2>3. CallsType' /\ Present'
    <3>1. calls' = [calls EXCEPT ![s] = NoCall] /\ UNCHANGED doc
      BY <1>3 DEF CreateExperienceTransaction
    <3> QED
      BY <1>1, <3>1, CallsKept
  <2> QED
    BY <1>1, <1>3, <2>2, <2>3 DEF CreateExperienceTransaction, CallsType, HistoryType
<1>4. Leaving'
  BY <1>1, <1>2, <1>3 DEF Leaving, HasSession
<1> QED
  BY <1>2, <1>3, <1>4 DEF Typed

LEMMA TypeAnyone ==
    ASSUME TypeInv, NEW s \in Callers, Anyone(s)
    PROVE  Typed
<1> USE Types DEF TypeInv
<1>1. /\ UNCHANGED <<open, ledger, crossed>> /\ HistoryType'
      /\ calls'["consumer"].at # "logoutTime" \/ calls'["consumer"] = calls["consumer"]
  <2>1. calls[s] # NoCall => calls[s].player \in Players
    BY PlayerOfCall
  <2>2. CASE CallFails(s)
    <3>1. UNCHANGED <<open, ledger, crossed>> /\ calls' = [calls EXCEPT ![s] = NoCall]
      BY <2>2 DEF CallFails, Fail
    <3>2. HistoryType'
      BY <2>1, <2>2, McPlayerAssumption DEF CallFails, Fail, HistoryType
    <3> QED
      BY <3>1, <3>2 DEF CallsType, Callers
  <2>3. CASE ReadBadges(s) \/ SetActivePlayerBadge(s) \/ UpdatePlayerBadgesAndActive(s)
    BY <2>3 DEF ReadBadges, SetActivePlayerBadge, UpdatePlayerBadgesAndActive, HistoryType, CallsType, Callers
  <2> QED
    BY <2>2, <2>3 DEF Anyone
<1>2. StoreType' /\ CallsType' /\ Present'
  <2>1. CASE ReadBadges(s)
    <3> DEFINE p == calls[s].player
               call == [player |-> p, at |-> "setActive",
                        active |-> calculateActiveBadge(doc[p].badges)]
    <3>1. p \in Players /\ Exists(p) /\ doc[p] \in Documents
      BY <2>1, Kinds, Documented DEF ReadBadges, Present, Steps
    <3>2. calculateActiveBadge(doc[p].badges) \in Badges \cup {None}
      BY <3>1, ActiveIsOne DEF Documents
    <3>3. /\ calls' = [calls EXCEPT ![s] = call] /\ call \in CallsUnderWay /\ UNCHANGED store
          /\ call.at = "setActive" /\ call.player = p
      BY <2>1, <3>1, <3>2 DEF ReadBadges, CallsUnderWay, Activations
    <3> HIDE DEF call
    <3> QED
      BY <3>1, <3>3, CallsKept DEF StoreType
  <2>2. CASE SetActivePlayerBadge(s)
    <3> DEFINE p == calls[s].player
    <3>1. p \in Players /\ Exists(p) /\ calls[s].active \in Badges \cup {None}
      BY <2>2, Kinds DEF SetActivePlayerBadge, Present, Activations
    <3>2. doc' = [doc EXCEPT ![p] = [doc[p] EXCEPT !.active = calls[s].active]]
      BY <2>2 DEF SetActivePlayerBadge
    <3> HIDE DEF p
    <3>3. StoreType' /\ \A q \in Players : Exists(q) => Exists(q)'
      BY <1>1, <3>1, <3>2, Documented, DocKept DEF StoreType
    <3>4. calls' = [calls EXCEPT ![s] = NoCall]
      BY <2>2 DEF SetActivePlayerBadge
    <3> QED
      BY <3>3, <3>4, CallsKept
  <2>3. CASE UpdatePlayerBadgesAndActive(s)
    <3> DEFINE p == calls[s].player
               d == [doc[p] EXCEPT !.badges = calls[s].badges, !.active = calls[s].active]
    <3>1. /\ p \in Players /\ Exists(p) /\ calls[s].active \in Badges \cup {None}
          /\ calls[s].badges \in SUBSET Badges
      BY <2>3, Kinds DEF UpdatePlayerBadgesAndActive, Present, Savings
    <3>2. doc' = [doc EXCEPT ![p] = d]
      BY <2>3 DEF UpdatePlayerBadgesAndActive
    <3>3. doc[p] \in Documents
      BY <3>1, Documented
    <3>7. d \in Documents
      BY <3>1, <3>3 DEF Documents
    <3> HIDE DEF p, d
    <3>4. StoreType' /\ \A q \in Players : Exists(q) => Exists(q)'
      BY <1>1, <3>1, <3>2, <3>7, DocKept DEF StoreType
    <3>5. calls' = [calls EXCEPT ![s] = NoCall]
      BY <2>3 DEF UpdatePlayerBadgesAndActive
    <3> QED
      BY <3>4, <3>5, CallsKept
  <2>4. CASE CallFails(s)
    <3>1. calls' = [calls EXCEPT ![s] = NoCall] /\ UNCHANGED store
      BY <2>4 DEF CallFails, Fail
    <3> QED
      BY <3>1, CallsKept DEF StoreType
  <2> QED
    BY <2>1, <2>2, <2>3, <2>4 DEF Anyone
<1>3. Leaving'
  BY <1>1 DEF Leaving, HasSession
<1> QED
  BY <1>1, <1>2, <1>3 DEF Typed

\* The next connection message, and what is left of the topic.
LEMMA ConnectionTyped ==
    ASSUME TypeInv, NEW p \in Players, NEW kind \in {"connect", "switch", "disconnect"},
           NextConnection(p, kind)
    PROVE  ProxiesType' /\ RolesType'
  BY Types, HeadGone DEF TypeInv, NextConnection, ProxiesType, RolesType

LEMMA TypeConnections ==
    ASSUME TypeInv, NEW p \in Players,
           HandleConnect(p) \/ HandleDisconnect(p) \/ HandleServerSwitch(p)
    PROVE  Typed /\ ProxiesType' /\ RolesType'
<1> USE Types DEF TypeInv
<1>1. "consumer" \in Callers /\ "consumer" \notin Slots
  BY McPlayerAssumption DEF Callers
<1>2. ProxiesType' /\ RolesType' /\ UNCHANGED <<open, ledger, failed, failures>>
  BY ConnectionTyped DEF HandleConnect, HandleDisconnect, HandleServerSwitch, NextConnection
<1>3. CASE HandleConnect(p)
  <2> DEFINE call == [player |-> p, at |-> "session", seen |-> [PlayerOf(p) EXCEPT !.server = "proxy"]]
  <2>1. PlayerOf(p) \in Documents
    BY Documented DEF PlayerOf, Blank, Documents
  <2>2. [PlayerOf(p) EXCEPT !.server = "proxy"] \in Documents
    BY <2>1 DEF Documents
  <2>4. [PlayerOf(p) EXCEPT !.server = "proxy"].server = "proxy"
    BY <2>1 DEF Documents
  <2>3. /\ calls' = [calls EXCEPT !["consumer"] = call] /\ call \in CallsUnderWay /\ UNCHANGED doc
        /\ call.at = "session" /\ call.seen.server = "proxy"
    BY <1>3, <2>2, <2>4 DEF HandleConnect, CallsUnderWay, Logins
  <2> HIDE DEF call
  <2>5. CallsType' /\ Present'
    BY <1>1, <2>3, CallsKept
  <2>6. HistoryType'
    BY <1>2, <1>3, MeetsTyped DEF HandleConnect, HistoryType
  <2>7. Leaving'
    BY <1>1, <2>3 DEF Leaving, CallsType
  <2> QED
    BY <1>2, <2>3, <2>5, <2>6, <2>7 DEF Typed, StoreType
<1>4. CASE HandleDisconnect(p)
  <2>1. UNCHANGED <<doc, open, crossed>>
    BY <1>4 DEF HandleDisconnect
  <2>2. CASE HasSession(p)
    <3> DEFINE call == [player |-> p, at |-> "logoutTime"]
    <3>1. /\ calls' = [calls EXCEPT !["consumer"] = call] /\ call \in CallsUnderWay
          /\ call.at = "logoutTime" /\ call.player = p
      BY <1>4, <2>2 DEF HandleDisconnect, CallsUnderWay, Steps
    <3> HIDE DEF call
    <3>2. CallsType' /\ Present'
      BY <1>1, <2>1, <3>1, CallsKept
    <3>3. Leaving'
      BY <1>1, <2>1, <2>2, <3>1 DEF Leaving, CallsType, HasSession
    <3> QED
      BY <1>2, <2>1, <3>2, <3>3 DEF Typed, StoreType, HistoryType
  <2>3. CASE ~ HasSession(p)
    <3>1. UNCHANGED calls
      BY <1>4, <2>3 DEF HandleDisconnect
    <3> QED
      BY <1>2, <2>1, <3>1, CallsStay DEF Typed, StoreType, HistoryType, Leaving, HasSession
  <2> QED
    BY <2>2, <2>3
<1>5. CASE HandleServerSwitch(p)
  <2>1. UNCHANGED <<calls, open, crossed>>
    BY <1>5 DEF HandleServerSwitch
  <2>2. StoreType' /\ \A q \in Players : Exists(q) => Exists(q)'
    <3>1. CASE Exists(p)
      <4>1. doc' = [doc EXCEPT ![p] = [doc[p] EXCEPT !.server = "server"]]
        BY <1>5, <3>1 DEF HandleServerSwitch
      <4>2. [doc[p] EXCEPT !.server = "server"] \in Documents
        BY <3>1, Documented DEF Places
      <4> QED
        BY <1>2, <2>1, <4>1, <4>2, DocKept DEF StoreType
    <3>2. CASE ~ Exists(p)
      BY <1>2, <1>5, <2>1, <3>2 DEF HandleServerSwitch, StoreType
    <3> QED
      BY <3>1, <3>2
  <2> QED
    BY <1>2, <2>1, <2>2, CallsStay DEF Typed, HistoryType, Leaving, HasSession
<1> QED
  BY <1>3, <1>4, <1>5

LEMMA TypeLogin ==
    ASSUME TypeInv, CreateLoginSession \/ SavePlayer
    PROVE  Typed
<1> USE Types DEF TypeInv
<1> DEFINE call == calls["consumer"]
           p == call.player
<1>1. /\ "consumer" \in Callers /\ "consumer" \notin Slots
      /\ call \in Logins /\ p \in Players /\ call.seen \in Documents /\ call.seen.server = "proxy"
  BY Kinds, McPlayerAssumption DEF Callers, CreateLoginSession, SavePlayer, Logins, Present
<1>2. CASE CreateLoginSession
  <2>1. calls' = [calls EXCEPT !["consumer"] = [call EXCEPT !.at = "save"]]
    BY <1>2 DEF CreateLoginSession
  <2>2. /\ [call EXCEPT !.at = "save"] \in Logins /\ [call EXCEPT !.at = "save"].at = "save"
        /\ [call EXCEPT !.at = "save"].seen = call.seen
    BY <1>1 DEF Logins
  <2>3. UNCHANGED <<doc, ledger, crossed>>
    BY <1>2 DEF CreateLoginSession
  <2>4. CallsType' /\ Present'
    <3> DEFINE next == [call EXCEPT !.at = "save"]
    <3>1. next \in CallsUnderWay /\ next.at = "save" /\ next.seen.server = "proxy"
      BY <1>1, <2>2 DEF CallsUnderWay
    <3> HIDE DEF call, next
    <3> QED
      BY <1>1, <2>1, <2>3, <3>1, CallsKept DEF next
  <2>5. StoreType' /\ HistoryType'
    BY <1>1, <1>2, <2>3, McPlayerAssumption DEF CreateLoginSession, StoreType, HistoryType
  <2>6. Leaving'
    BY <1>1, <2>1, <2>2 DEF Leaving, CallsType
  <2> QED
    BY <2>4, <2>5, <2>6 DEF Typed
<1>3. CASE SavePlayer
  <2>1. PlayerOf(p) \in Documents
    BY <1>1, Documented DEF PlayerOf, Blank, Documents
  <2>2. Saved(PlayerOf(p), call.seen) \in Documents
    BY <1>1, <2>1 DEF Saved, Documents
  <2>3. doc' = [doc EXCEPT ![p] = Saved(PlayerOf(p), call.seen)]
    BY <1>3 DEF SavePlayer
  <2> HIDE DEF p, call
  <2>4. StoreType' /\ \A q \in Players : Exists(q) => Exists(q)'
    BY <1>1, <1>3, <2>2, <2>3, DocKept DEF SavePlayer, StoreType
  <2>5. calls' = [calls EXCEPT !["consumer"] = NoCall]
    BY <1>3 DEF SavePlayer
  <2> QED
    <3>1. CallsType' /\ Present'
      BY <1>1, <2>4, <2>5, CallsKept
    <3>2. HistoryType' /\ Leaving'
      BY <1>1, <1>3, <2>5 DEF SavePlayer, HistoryType, Leaving, CallsType
    <3> QED
      BY <2>4, <3>1, <3>2 DEF Typed
<1> QED
  BY <1>2, <1>3

LEMMA TypeLogout ==
    ASSUME TypeInv, SetLoginSessionLogoutTime \/ PlayerLogout
    PROVE  Typed
<1> USE Types DEF TypeInv
<1> DEFINE call == calls["consumer"]
           p == call.player
<1>1. "consumer" \in Callers /\ "consumer" \notin Slots /\ call \in Steps /\ p \in Players
  BY Kinds, McPlayerAssumption DEF Callers, SetLoginSessionLogoutTime, PlayerLogout, Steps
<1>2. CASE SetLoginSessionLogoutTime
  <2>1. open[p] > 0
    BY <1>2 DEF SetLoginSessionLogoutTime, Leaving, HasSession
  <2>2. StoreType' /\ UNCHANGED doc /\ HistoryType'
    BY <1>1, <1>2, <2>1 DEF SetLoginSessionLogoutTime, StoreType, HistoryType
  <2> DEFINE next == [player |-> p, at |-> "logout"]
  <2>3. calls' = [calls EXCEPT !["consumer"] = next] /\ next \in CallsUnderWay /\ next.at = "logout"
    BY <1>1, <1>2, <2>1 DEF SetLoginSessionLogoutTime, HasSession, CallsUnderWay, Steps
  <2> HIDE DEF call, p, next
  <2>4. CallsType' /\ Present'
    BY <1>1, <2>2, <2>3, CallsKept
  <2> QED
    BY <1>1, <2>2, <2>3, <2>4 DEF Typed, Leaving, CallsType
<1>3. CASE PlayerLogout
  <2>1. StoreType' /\ \A q \in Players : Exists(q) => Exists(q)'
    <3>1. CASE Exists(p)
      <4>1. doc' = [doc EXCEPT ![p] = [doc[p] EXCEPT !.server = "off"]]
        BY <1>3, <3>1 DEF PlayerLogout
      <4>2. [doc[p] EXCEPT !.server = "off"] \in Documents
        BY <1>1, <3>1, Documented DEF Places
      <4> HIDE DEF call, p
      <4> QED
        BY <1>1, <1>3, <4>1, <4>2, DocKept DEF StoreType, PlayerLogout
    <3>2. CASE ~ Exists(p)
      BY <1>3, <3>2 DEF PlayerLogout, StoreType
    <3> QED
      BY <3>1, <3>2
  <2>2. calls' = [calls EXCEPT !["consumer"] = NoCall]
    BY <1>3 DEF PlayerLogout
  <2> QED
    <3>1. CallsType' /\ Present'
      BY <1>1, <2>1, <2>2, CallsKept
    <3>2. HistoryType' /\ Leaving'
      BY <1>1, <1>3, <2>2 DEF PlayerLogout, HistoryType, Leaving, CallsType
    <3> QED
      BY <2>1, <3>1, <3>2 DEF Typed
<1> QED
  BY <1>2, <1>3

LEMMA TypeRolesUpdate ==
    ASSUME TypeInv, NEW i \in 1 .. Len(grants), HandlePlayerRolesUpdate(i)
    PROVE  Typed /\ ProxiesType' /\ RolesType'
<1> USE Types DEF TypeInv
<1> DEFINE g == grants[i]
           p == g.player
           b == Granted[g.role]
<1>1. "consumer" \in Callers /\ "consumer" \notin Slots
  BY McPlayerAssumption DEF Callers
<1>2. RolesType' /\ g \in Grants /\ UNCHANGED <<proxies, failed, failures>>
  <2>1. /\ Read(i, g.change = "ADD" /\ ~ Exists(p))
        /\ UNCHANGED <<roles, roleCalls, proxies, failed, failures>>
    BY DEF HandlePlayerRolesUpdate
  <2>2. \E inVain \in BOOLEAN : Read(i, inVain)
    BY <2>1
  <2> QED
    BY <2>1, <2>2, ReadTyped
<1>3. p \in Players /\ b \in Badges
  BY <1>2, McPlayerAssumption DEF Grants, HandlePlayerRolesUpdate
<1>4. /\ Free("consumer")
      /\ \/ AddBadge("consumer", p, b) \/ RemoveBadge("consumer", p, b)
         \/ UNCHANGED <<store, calls, crossed>>
  BY DEF HandlePlayerRolesUpdate
<1>5. ProxiesType'
  BY <1>2 DEF ProxiesType
<1> HIDE DEF g, p, b
<1>6. StoreType' /\ CallsType' /\ Present' /\ crossed' \subseteq Players \X {"badges", "xp"}
  <2>1. CASE UNCHANGED <<store, calls, crossed>>
    BY <2>1, CallsStay DEF StoreType, HistoryType
  <2> QED
    BY <1>1, <1>3, <1>4, <2>1, TypeAddBadge, TypeChangeBadge
<1>7. calls'["consumer"].at # "logoutTime"
  <2>1. CASE AddBadge("consumer", p, b)
    BY <1>1, <1>4, <2>1 DEF AddBadge, CallsType
  <2>2. CASE RemoveBadge("consumer", p, b)
    BY <1>1, <1>4, <2>2 DEF RemoveBadge, CallsType
  <2> QED
    BY <1>4, <2>1, <2>2
<1> QED
  BY <1>2, <1>5, <1>6, <1>7 DEF Typed, Leaving, HistoryType

LEMMA TypeTrouble ==
    ASSUME TypeInv,
           DropConnection \/ Crash \/ \E i \in 1 .. Len(grants) : Panic(i) \/ DropGrant(i)
    PROVE  Typed /\ ProxiesType' /\ RolesType'
<1> USE Types DEF TypeInv
<1>1. "consumer" \in Callers
  BY DEF Callers
<1>2. UNCHANGED <<store, crossed>>
  BY DEF DropConnection, Crash, Fail, Panic, DropGrant
<1>3. UNCHANGED calls \/ calls' = [s \in Callers |-> NoCall]
  BY DEF DropConnection, Crash, Panic, DropGrant
<1>4. StoreType' /\ CallsType' /\ Present' /\ Leaving'
  <2>1. CASE UNCHANGED calls
    BY <1>2, <2>1, CallsStay DEF StoreType, Leaving, HasSession
  <2>2. CASE calls' = [s \in Callers |-> NoCall]
    BY <1>1, <1>2, <2>2 DEF StoreType, CallsType, Present, Leaving, Callers
  <2> QED
    BY <1>3, <2>1, <2>2
<1>5. CASE DropConnection
  <2>1. Head(connections).player \in Players /\ ProxiesType'
    <3>1. connections \in Seq(Messages) /\ connections # <<>> /\ connections' = Tail(connections)
      BY <1>5 DEF DropConnection, ProxiesType
    <3>2. Head(connections) \in Messages
      BY <3>1
    <3> QED
      BY <1>5, <3>1, <3>2, HeadGone DEF DropConnection, ProxiesType, Messages
  <2> QED
    BY <1>4, <1>5, <2>1, McPlayerAssumption DEF Typed, DropConnection, HistoryType, RolesType
<1>6. CASE Crash
  BY <1>4, <1>6, McPlayerAssumption DEF Typed, Crash, Fail, HistoryType, RolesType, ProxiesType
<1>7. CASE \E i \in 1 .. Len(grants) : Panic(i) \/ DropGrant(i)
  <2>1. PICK i \in 1 .. Len(grants) : Panic(i) \/ DropGrant(i)
    BY <1>7
  <2>2. RolesType'
    BY <2>1, ReadTyped DEF Panic, DropGrant
  <2>3. HistoryType' /\ ProxiesType'
    <3>1. failures' \in 0 .. MaxFailures /\ failed' \subseteq Players
      <4>1. failures < MaxFailures /\ failures' = failures + 1
        BY <2>1 DEF Panic, DropGrant
      <4>2. failures' \in 0 .. MaxFailures
        BY <4>1, McPlayerAssumption DEF HistoryType
      <4>3. failed' = failed \/ failed' = failed \cup {p \in Players : UnderWay(p) # {}}
        BY <2>1 DEF Panic, DropGrant
      <4> QED
        BY <4>2, <4>3 DEF HistoryType
    <3> QED
      BY <2>1, <3>1 DEF Panic, DropGrant, HistoryType, ProxiesType
  <2> QED
    BY <1>4, <2>2, <2>3 DEF Typed
<1> QED
  BY <1>5, <1>6, <1>7

LEMMA TypeInit == Init => TypeInv
<1> SUFFICES ASSUME Init PROVE TypeInv
  OBVIOUS
<1>1. RolesType /\ ProxiesType
  BY DEF Init, RolesInit, RolesType, ProxiesType, Places
<1>2. StoreType /\ CallsType /\ HistoryType
  BY McPlayerAssumption DEF Init, StoreType, CallsType, HistoryType
<1>3. Present /\ Leaving
  BY DEF Init, Present, Leaving, Callers
<1> QED
  BY <1>1, <1>2, <1>3, Types DEF TypeInv

\* The steps of gRPC calls leave the topics alone.
LEMMA GrpcElsewhere ==
    ASSUME \/ \E s \in Slots : Grpc(s)
           \/ \E s \in Callers : Anyone(s)
           \/ CreateLoginSession \/ SavePlayer \/ SetLoginSessionLogoutTime \/ PlayerLogout
    PROVE  UNCHANGED <<rolesVars, proxies>>
  BY DEF Grpc, Anyone, BadgeCall, AddExperienceToPlayer, CreateExperienceTransaction, ReadBadges,
         SetActivePlayerBadge, UpdatePlayerBadgesAndActive, CallFails, Fail,
         CreateLoginSession, SavePlayer, SetLoginSessionLogoutTime, PlayerLogout

LEMMA TypeNext == TypeInv /\ [Next]_vars => TypeInv'
<1> SUFFICES ASSUME TypeInv, [Next]_vars PROVE TypeInv'
  OBVIOUS
<1>1. CASE RolesNext /\ UNCHANGED <<proxies, store, calls, history>>
  <2>1. RolesType'
    BY <1>1, RolesTyped DEF TypeInv
  <2>2. CallsType' /\ Present' /\ Leaving'
    BY <1>1, Types, CallsStay DEF TypeInv, Leaving, HasSession
  <2> QED
    BY <1>1, <2>1, <2>2, Types, TypesNext DEF TypeInv, ProxiesType, StoreType, HistoryType
<1>2. CASE \E p \in Players : Player(p)
  BY <1>2, TypePlayer
<1>3. CASE \/ \E s \in Slots : Grpc(s)
           \/ \E s \in Callers : Anyone(s)
           \/ CreateLoginSession \/ SavePlayer \/ SetLoginSessionLogoutTime \/ PlayerLogout
  <2>1. Typed
    <3>1. ASSUME NEW s \in Slots, Grpc(s) PROVE Typed
      <4>1. ByHand \subseteq Badges
        BY McPlayerAssumption
      <4> QED
        BY <3>1, <4>1, TypeBadgeCall, TypeExperience DEF Grpc
    <3> QED
      BY <1>3, <3>1, TypeAnyone, TypeLogin, TypeLogout
  <2>2. RolesType' /\ ProxiesType'
    BY <1>3, GrpcElsewhere, Types DEF TypeInv, RolesType, ProxiesType
  <2> QED
    BY <2>1, <2>2, TypesNext DEF Typed, TypeInv
<1>4. CASE \E p \in Players : HandleConnect(p) \/ HandleDisconnect(p) \/ HandleServerSwitch(p)
  BY <1>4, TypeConnections, TypesNext DEF Typed, TypeInv
<1>5. CASE \E i \in 1 .. Len(grants) : HandlePlayerRolesUpdate(i)
  BY <1>5, TypeRolesUpdate, TypesNext DEF Typed, TypeInv
<1>6. CASE DropConnection \/ Crash \/ \E i \in 1 .. Len(grants) : Panic(i) \/ DropGrant(i)
  BY <1>6, TypeTrouble, TypesNext DEF Typed, TypeInv
<1>7. CASE UNCHANGED vars
  BY <1>7 DEF vars, TypeInv, TypeOK, Present, Leaving, HasSession, Callers
<1> QED
  BY <1>1, <1>2, <1>3, <1>4, <1>5, <1>6, <1>7 DEF Next, Consumer

\* The state is well typed (TypeOK of McPlayer), whatever calls are under way.
THEOREM TypeCorrect == Spec => []TypeOK
<1>1. TypeInv => TypeOK
  BY DEF TypeInv
<1> QED
  BY <1>1, TypeInit, TypeNext, PTL DEF Spec

-----------------------------------------------------------------------------
(* Steps about one player.                                                 *)

\* The step is one of slot s about p: it leaves the documents of others and the
\* calls of other slots alone.
OnlyAbout(s, p) ==
    /\ \A q \in Players \ {p} : doc'[q] = doc[q] /\ open'[q] = open[q] /\ ledger'[q] = ledger[q]
    /\ \A t \in Callers \ {s} : calls'[t] = calls[t]
    /\ calls[s] = NoCall \/ calls[s].player = p
    /\ calls'[s] = NoCall \/ calls'[s].player = p
    /\ crossed \subseteq crossed' /\ failed \subseteq failed'

LEMMA AboutBadge ==
    ASSUME TypeInv, NEW s \in Callers, NEW p \in Players, NEW b \in Badges, Free(s),
           AddBadge(s, p, b) \/ RemoveBadge(s, p, b) \/ SetActiveBadge(s, p, b),
           UNCHANGED failed
    PROVE  OnlyAbout(s, p) /\ calls' = [calls EXCEPT ![s] = calls'[s]]
<1>1. StoreType /\ CallsType
  BY Types DEF TypeInv
<1>2. CASE AddBadge(s, p, b)
  <2>1. \/ calls' = [calls EXCEPT ![s] = [player |-> p, at |-> "readBadges"]]
        \/ UNCHANGED calls
    BY <1>2 DEF AddBadge
  <2>2. \/ doc' = [doc EXCEPT ![p].badges = @ \cup {b}]
        \/ UNCHANGED doc
    BY <1>2 DEF AddBadge
  <2>3. UNCHANGED <<open, ledger>> /\ crossed \subseteq crossed'
    BY <1>2 DEF AddBadge, Meets
  <2> QED
    BY <1>1, <2>1, <2>2, <2>3 DEF OnlyAbout, StoreType, CallsType
<1>3. CASE RemoveBadge(s, p, b) \/ SetActiveBadge(s, p, b)
  <2>1. PICK call : calls' = [calls EXCEPT ![s] = call] /\ call.player = p
    <3>1. ASSUME NEW badges, NEW active
          PROVE  [player |-> p, at |-> "saveBadges", badges |-> badges, active |-> active].player = p
      OBVIOUS
    <3>2. CASE RemoveBadge(s, p, b)
      BY <3>1, <3>2, ZenonT(60) DEF RemoveBadge
    <3>3. CASE SetActiveBadge(s, p, b)
      <4> DEFINE call == [player |-> p, at |-> "setActive", active |-> b]
      <4>1. calls' = [calls EXCEPT ![s] = call] /\ call.player = p
        BY <3>3 DEF SetActiveBadge
      <4> HIDE DEF call
      <4> QED
        BY <4>1
    <3> QED
      BY <1>3, <3>2, <3>3
  <2>2. UNCHANGED store /\ crossed \subseteq crossed'
    BY <1>3 DEF RemoveBadge, SetActiveBadge, Meets
  <2> QED
    BY <1>1, <2>1, <2>2 DEF OnlyAbout, StoreType, CallsType
<1> QED
  BY <1>2, <1>3

LEMMA AboutExperience ==
    ASSUME TypeInv, NEW s \in Callers, NEW p \in Players,
           \/ AddExperienceToPlayer(s, p)
           \/ CreateExperienceTransaction(s) /\ p = calls[s].player
    PROVE  OnlyAbout(s, p) /\ calls' = [calls EXCEPT ![s] = calls'[s]]
<1>1. StoreType /\ CallsType
  BY Types DEF TypeInv
<1>2. CASE AddExperienceToPlayer(s, p)
  BY <1>1, <1>2 DEF AddExperienceToPlayer, Meets, OnlyAbout, StoreType, CallsType
<1>3. CASE CreateExperienceTransaction(s) /\ p = calls[s].player
  BY <1>1, <1>3 DEF CreateExperienceTransaction, OnlyAbout, StoreType, CallsType
<1> QED
  BY <1>2, <1>3

LEMMA AboutAnyone ==
    ASSUME TypeInv, NEW s \in Callers, Anyone(s)
    PROVE  /\ calls[s] # NoCall /\ calls[s].player \in Players
           /\ OnlyAbout(s, calls[s].player) /\ calls' = [calls EXCEPT ![s] = calls'[s]]
<1>1. StoreType /\ CallsType
  BY Types DEF TypeInv
<1>2. calls[s] # NoCall /\ calls[s].player \in Players
  <2>1. calls[s] # NoCall
    BY <1>1, Kinds DEF Anyone, CallFails, ReadBadges, SetActivePlayerBadge, UpdatePlayerBadgesAndActive
  <2> QED
    BY <1>1, <2>1, PlayerOfCall
<1> DEFINE p == calls[s].player
<1>3. PICK call : calls' = [calls EXCEPT ![s] = call] /\ (call = NoCall \/ call.player = p)
  BY DEF Anyone, CallFails, ReadBadges, SetActivePlayerBadge, UpdatePlayerBadgesAndActive
<1>4. /\ \A q \in Players \ {p} : doc'[q] = doc[q]
      /\ UNCHANGED <<open, ledger, crossed>> /\ failed \subseteq failed'
  <2>1. CASE CallFails(s) \/ ReadBadges(s)
    BY <2>1 DEF CallFails, Fail, ReadBadges
  <2>2. CASE SetActivePlayerBadge(s)
    BY <1>1, <1>2, <2>2 DEF SetActivePlayerBadge, StoreType
  <2>3. CASE UpdatePlayerBadgesAndActive(s)
    BY <1>1, <1>2, <2>3 DEF UpdatePlayerBadgesAndActive, StoreType
  <2> QED
    BY <2>1, <2>2, <2>3 DEF Anyone
<1> HIDE DEF p
<1>5. OnlyAbout(s, p) /\ calls' = [calls EXCEPT ![s] = calls'[s]]
  BY <1>1, <1>2, <1>3, <1>4 DEF OnlyAbout, CallsType, p
<1> QED
  BY <1>2, <1>5 DEF p

LEMMA AboutConnection ==
    ASSUME TypeInv, NEW p \in Players,
           HandleConnect(p) \/ HandleDisconnect(p) \/ HandleServerSwitch(p)
    PROVE  OnlyAbout("consumer", p) /\ calls' = [calls EXCEPT !["consumer"] = calls'["consumer"]]
<1>1. StoreType /\ CallsType /\ "consumer" \in Callers
  BY Types DEF TypeInv, Callers
<1>2. /\ calls["consumer"] = NoCall /\ UNCHANGED <<open, ledger, failed>>
      /\ crossed \subseteq crossed'
  BY DEF HandleConnect, HandleDisconnect, HandleServerSwitch, NextConnection, Meets
<1>3. \/ UNCHANGED calls
      \/ \E call : calls' = [calls EXCEPT !["consumer"] = call] /\ call.player = p
  <2>1. CASE HandleConnect(p)
    <3>1. ASSUME NEW seen PROVE [player |-> p, at |-> "session", seen |-> seen].player = p
      OBVIOUS
    <3> QED
      BY <2>1, <3>1 DEF HandleConnect
  <2>2. CASE HandleDisconnect(p)
    <3> DEFINE call == [player |-> p, at |-> "logoutTime"]
    <3>1. (calls' = [calls EXCEPT !["consumer"] = call] \/ UNCHANGED calls) /\ call.player = p
      BY <2>2 DEF HandleDisconnect
    <3> HIDE DEF call
    <3> QED
      BY <3>1
  <2>3. CASE HandleServerSwitch(p)
    BY <2>3 DEF HandleServerSwitch
  <2> QED
    BY <2>1, <2>2, <2>3
<1>4. \A q \in Players \ {p} : doc'[q] = doc[q]
  BY <1>1 DEF HandleConnect, HandleDisconnect, HandleServerSwitch, StoreType
<1> QED
  BY <1>1, <1>2, <1>3, <1>4 DEF OnlyAbout, CallsType

LEMMA AboutHandler ==
    ASSUME TypeInv,
           CreateLoginSession \/ SavePlayer \/ SetLoginSessionLogoutTime \/ PlayerLogout
    PROVE  /\ calls["consumer"] # NoCall /\ calls["consumer"].player \in Players
           /\ OnlyAbout("consumer", calls["consumer"].player)
           /\ calls' = [calls EXCEPT !["consumer"] = calls'["consumer"]]
<1>1. StoreType /\ CallsType /\ "consumer" \in Callers
  BY Types DEF TypeInv, Callers
<1> DEFINE p == calls["consumer"].player
<1>2. /\ calls["consumer"] # NoCall /\ p \in Players
      /\ CreateLoginSession => [calls["consumer"] EXCEPT !.at = "save"].player = p
  BY <1>1, Kinds DEF CreateLoginSession, SavePlayer, SetLoginSessionLogoutTime, PlayerLogout,
                     Logins, Steps
<1>3. PICK call : calls' = [calls EXCEPT !["consumer"] = call] /\ (call = NoCall \/ call.player = p)
  BY <1>2 DEF CreateLoginSession, SavePlayer, SetLoginSessionLogoutTime, PlayerLogout
<1>4. /\ \A q \in Players \ {p} : doc'[q] = doc[q] /\ open'[q] = open[q]
      /\ UNCHANGED <<ledger, crossed>> /\ failed \subseteq failed'
  BY <1>1, <1>2 DEF CreateLoginSession, SavePlayer, SetLoginSessionLogoutTime, PlayerLogout, StoreType
<1> HIDE DEF p
<1>5. OnlyAbout("consumer", p) /\ calls' = [calls EXCEPT !["consumer"] = calls'["consumer"]]
  BY <1>1, <1>2, <1>3, <1>4 DEF OnlyAbout, CallsType, p
<1> QED
  BY <1>2, <1>5 DEF p

\* A change of roles that is read is about a player and a badge, or does nothing
\* but be read.
LEMMA AboutRolesUpdate ==
    ASSUME TypeInv, NEW i \in 1 .. Len(grants), HandlePlayerRolesUpdate(i)
    PROVE  LET p == grants[i].player
               b == Granted[grants[i].role]
           IN  /\ p \in Players /\ b \in Badges /\ calls["consumer"] = NoCall
               /\ OnlyAbout("consumer", p)
               /\ calls' = [calls EXCEPT !["consumer"] = calls'["consumer"]]
               /\ UNCHANGED <<proxies, failed, open, ledger>>
<1> DEFINE g == grants[i]
           p == g.player
           b == Granted[g.role]
<1>1. RolesType /\ StoreType /\ CallsType /\ "consumer" \in Callers
  BY Types DEF TypeInv, Callers
<1>2. g \in Grants /\ UNCHANGED <<proxies, failed>> /\ calls["consumer"] = NoCall
  BY <1>1 DEF HandlePlayerRolesUpdate, RolesType
<1>3. p \in Players /\ b \in Badges
  BY <1>2, McPlayerAssumption DEF Grants, HandlePlayerRolesUpdate
<1>4. \/ AddBadge("consumer", p, b) \/ RemoveBadge("consumer", p, b)
      \/ UNCHANGED <<store, calls, crossed>>
  BY DEF HandlePlayerRolesUpdate
<1>5. UNCHANGED <<open, ledger>>
  BY <1>4 DEF AddBadge, RemoveBadge
<1> HIDE DEF g, p, b
<1>6. CASE AddBadge("consumer", p, b) \/ RemoveBadge("consumer", p, b)
  BY <1>1, <1>2, <1>3, <1>5, <1>6, AboutBadge DEF g, p, b
<1>7. CASE UNCHANGED <<store, calls, crossed>>
  BY <1>1, <1>2, <1>3, <1>5, <1>7 DEF OnlyAbout, CallsType, g, p, b
<1> QED
  BY <1>4, <1>6, <1>7

-----------------------------------------------------------------------------
(* The active badge.                                                       *)

LEMMA WritesAre ==
    /\ \A at \in {"session", "save"} : Writes(at) = {"badges", "xp"}
    /\ \A at \in {"readBadges", "setActive", "saveBadges"} : Writes(at) = {"badges"}
    /\ \A at \in {"idle", "logoutTime", "logout", "transaction"} : Writes(at) = {}
  BY DEF Writes

\* One call about p at most is still to write his badges.
Lone(p) ==
    \A s, t \in UnderWay(p) :
        "badges" \in Writes(calls[s].at) /\ "badges" \in Writes(calls[t].at) => s = t

\* What a call is about to write fits what is stored: a login what it has read, an
\* active badge the player's badges; and badges given by roles are none that gRPC
\* calls take away.
Prepared(p, s) ==
    /\ calls[s].at \in {"session", "save"} => /\ calls[s].seen.badges = PlayerOf(p).badges
                                              /\ calls[s].seen.active = PlayerOf(p).active
    /\ calls[s].at = "setActive" => calls[s].active \in PlayerOf(p).badges \cup {None}
    /\ calls[s].at = "saveBadges" =>
          /\ calls[s].active \in calls[s].badges \cup {None}
          /\ s \in Slots => \A b \in Badges \ ByHand :
                               b \in calls[s].badges <=> b \in PlayerOf(p).badges

ActiveOwned(p) == PlayerOf(p).active \in PlayerOf(p).badges \cup {None}

Badged(p) == Lone(p) /\ ActiveOwned(p) /\ \A s \in UnderWay(p) : Prepared(p, s)

BadgeInv == \A p \in Players : <<p, "badges">> \notin crossed => Badged(p)

\* A call that may write a field of p meets no other, unless they cross.
LEMMA Met ==
    ASSUME NEW p, NEW fields, NEW f \in fields, Meets(p, fields), <<p, f>> \notin crossed'
    PROVE  <<p, f>> \notin crossed /\ \A t \in UnderWay(p) : f \notin Writes(calls[t].at)
  BY DEF Meets

\* A step of slot s, the only one that may write p's badges.
LEMMA BadgedStep ==
    ASSUME NEW p \in Players, NEW s \in Callers, OnlyAbout(s, p),
           \A t \in UnderWay(p) \ {s} : "badges" \notin Writes(calls[t].at),
           ActiveOwned(p)', calls'[s] # NoCall => Prepared(p, s)', CallsType
    PROVE  Badged(p)'
<1>1. ASSUME NEW t \in UnderWay(p)', t # s
      PROVE  t \in UnderWay(p) /\ calls'[t] = calls[t] /\ "badges" \notin Writes(calls[t].at)
  BY <1>1 DEF UnderWay, OnlyAbout, Callers
<1>2. Lone(p)'
  BY <1>1 DEF Lone
<1>3. ASSUME NEW t \in UnderWay(p)' PROVE Prepared(p, t)'
  <2>1. CASE t = s
    BY <2>1 DEF UnderWay
  <2>2. CASE t # s
    <3>1. calls'[t].at \notin {"session", "save", "readBadges", "setActive", "saveBadges"}
      BY <1>1, <2>2, WritesAre
    <3> QED
      BY <3>1 DEF Prepared
  <2> QED
    BY <2>1, <2>2
<1> QED
  BY <1>2, <1>3 DEF Badged

\* A step that leaves p's badges alone and begins no call to write them.
LEMMA BadgedStays ==
    ASSUME NEW p \in Players, Badged(p),
           PlayerOf(p)'.badges = PlayerOf(p).badges, PlayerOf(p)'.active = PlayerOf(p).active,
           \A t \in UnderWay(p)' : \/ t \in UnderWay(p) /\ calls'[t] = calls[t]
                                   \/ calls'[t].at \in {"logoutTime", "logout", "transaction"}
    PROVE  Badged(p)'
<1>1. ASSUME NEW t \in UnderWay(p)', "badges" \in Writes(calls'[t].at)
      PROVE  t \in UnderWay(p) /\ calls'[t] = calls[t]
  BY <1>1, WritesAre
<1>2. Lone(p)'
  BY <1>1 DEF Badged, Lone
<1>3. ASSUME NEW t \in UnderWay(p)' PROVE Prepared(p, t)'
  <2>1. CASE t \in UnderWay(p) /\ calls'[t] = calls[t]
    BY <2>1 DEF Badged, Prepared
  <2>2. CASE calls'[t].at \in {"logoutTime", "logout", "transaction"}
    BY <2>2 DEF Prepared
  <2> QED
    BY <2>1, <2>2
<1> QED
  BY <1>2, <1>3 DEF Badged, ActiveOwned

\* A step about somebody else.
LEMMA BadgedElsewhere ==
    ASSUME NEW p \in Players, NEW q \in Players \ {p}, NEW s \in Callers, OnlyAbout(s, p), Badged(q)
    PROVE  Badged(q)'
<1>1. PlayerOf(q)' = PlayerOf(q)
  BY DEF OnlyAbout, PlayerOf
<1>2. \A t \in UnderWay(q)' : t \in UnderWay(q) /\ calls'[t] = calls[t]
  BY DEF OnlyAbout, UnderWay, Callers
<1> QED
  BY <1>1, <1>2, BadgedStays

\* So of a step about p only what it does to p matters.
LEMMA BadgeOthers ==
    ASSUME BadgeInv, NEW p \in Players, NEW s \in Callers, OnlyAbout(s, p),
           <<p, "badges">> \notin crossed' => Badged(p)'
    PROVE  BadgeInv'
<1> SUFFICES ASSUME NEW q \in Players, <<q, "badges">> \notin crossed' PROVE Badged(q)'
  BY DEF BadgeInv
<1>1. CASE q = p
  BY <1>1
<1>2. CASE q # p
  BY <1>2, BadgedElsewhere DEF BadgeInv, OnlyAbout
<1> QED
  BY <1>1, <1>2

\* A new call about p's badges crosses with others, or meets none.
LEMMA BadgesBadge ==
    ASSUME TypeInv, BadgeInv, NEW s \in Callers, NEW p \in Players, NEW b \in Badges, Free(s),
           s \in Slots => b \in ByHand, UNCHANGED failed,
           AddBadge(s, p, b) \/ RemoveBadge(s, p, b) \/ SetActiveBadge(s, p, b)
    PROVE  BadgeInv'
<1>1. StoreType /\ CallsType /\ OnlyAbout(s, p) /\ calls' = [calls EXCEPT ![s] = calls'[s]]
  BY Types, AboutBadge DEF TypeInv
<1> SUFFICES ASSUME <<p, "badges">> \notin crossed' PROVE Badged(p)'
  BY <1>1, BadgeOthers
<1>2. <<p, "badges">> \notin crossed /\ Badged(p)
  BY <1>1 DEF OnlyAbout, BadgeInv
<1>3. CASE UNCHANGED <<doc, calls>>
  BY <1>2, <1>3, BadgedStays DEF PlayerOf, UnderWay
<1>4. CASE ~ UNCHANGED <<doc, calls>>
  <2>1. Exists(p) /\ doc[p] \in Documents /\ \A t \in UnderWay(p) : "badges" \notin Writes(calls[t].at)
    <3>1. Meets(p, {"badges"}) /\ Exists(p)
      BY <1>4 DEF AddBadge, RemoveBadge, SetActiveBadge, Owns
    <3> QED
      BY <1>1, <3>1, Met, Documented
  <2>2. CASE AddBadge(s, p, b)
    <3>1. /\ doc' = [doc EXCEPT ![p].badges = @ \cup {b}]
          /\ calls'[s] = NoCall \/ calls'[s] = [player |-> p, at |-> "readBadges"]
      BY <1>1, <1>4, <2>2 DEF AddBadge, CallsType
    <3>2. doc'[p] = [doc[p] EXCEPT !.badges = @ \cup {b}]
      BY <1>1, <3>1 DEF StoreType
    <3>3. doc'[p] # None
      BY <2>1, <3>2, McPlayerAssumption DEF Documents
    <3>4. PlayerOf(p)'.badges = PlayerOf(p).badges \cup {b} /\ PlayerOf(p)'.active = PlayerOf(p).active
      BY <2>1, <3>2, <3>3 DEF PlayerOf, Documents
    <3>5. ActiveOwned(p)'
      BY <1>2, <3>4 DEF Badged, ActiveOwned
    <3>6. calls'[s] # NoCall => Prepared(p, s)'
      BY <3>1 DEF Prepared
    <3> QED
      BY <1>1, <2>1, <3>5, <3>6, BadgedStep
  <2>3. CASE RemoveBadge(s, p, b)
    <3> DEFINE left == doc[p].badges \ {b}
               active == IF doc[p].active = b THEN calculateActiveBadge(left) ELSE doc[p].active
               call == [player |-> p, at |-> "saveBadges", badges |-> left, active |-> active]
    <3>1. left \subseteq Badges /\ UNCHANGED doc /\ PlayerOf(p) = doc[p]
      BY <2>1, <2>3 DEF RemoveBadge, Documents, PlayerOf
    <3>2. calls'[s] = call
      BY <1>1, <2>3 DEF RemoveBadge, CallsType
    <3>3. active \in left \cup {None}
      BY <1>2, <3>1, ActiveIsOne DEF Badged, ActiveOwned
    <3>4. s \in Slots => \A c \in Badges \ ByHand : c \in left <=> c \in doc[p].badges
      OBVIOUS
    <3>5. PlayerOf(p)' = PlayerOf(p)
      BY <3>1 DEF PlayerOf
    <3> HIDE DEF left, active
    <3>6. call.at = "saveBadges" /\ call.badges = left /\ call.active = active
      OBVIOUS
    <3> HIDE DEF call
    <3>7. Prepared(p, s)'
      BY <3>1, <3>2, <3>3, <3>4, <3>5, <3>6 DEF Prepared
    <3>8. ActiveOwned(p)'
      BY <1>2, <3>5 DEF Badged, ActiveOwned
    <3> QED
      BY <1>1, <2>1, <3>7, <3>8, BadgedStep
  <2>4. CASE SetActiveBadge(s, p, b)
    <3>1. /\ calls'[s] = [player |-> p, at |-> "setActive", active |-> b]
          /\ b \in doc[p].badges /\ PlayerOf(p) = doc[p] /\ UNCHANGED doc
      BY <1>1, <2>1, <2>4 DEF SetActiveBadge, CallsType, Owns, PlayerOf
    <3>2. PlayerOf(p)' = PlayerOf(p)
      BY <3>1 DEF PlayerOf
    <3>3. Prepared(p, s)'
      BY <3>1, <3>2 DEF Prepared
    <3>4. ActiveOwned(p)'
      BY <1>2, <3>2 DEF Badged, ActiveOwned
    <3> QED
      BY <1>1, <2>1, <3>3, <3>4, BadgedStep
  <2> QED
    BY <2>2, <2>3, <2>4
<1> QED
  BY <1>3, <1>4

LEMMA BadgesExperience ==
    ASSUME TypeInv, BadgeInv, NEW s \in Slots, NEW p \in Players,
           \/ AddExperienceToPlayer(s, p)
           \/ CreateExperienceTransaction(s) /\ p = calls[s].player
    PROVE  BadgeInv'
<1>1. /\ StoreType /\ CallsType /\ s \in Callers
      /\ OnlyAbout(s, p) /\ calls' = [calls EXCEPT ![s] = calls'[s]]
  BY Types, AboutExperience DEF TypeInv, Callers
<1> SUFFICES ASSUME <<p, "badges">> \notin crossed' PROVE Badged(p)'
  BY <1>1, BadgeOthers
<1>2. Badged(p)
  BY <1>1 DEF OnlyAbout, BadgeInv
<1>3. PlayerOf(p)'.badges = PlayerOf(p).badges /\ PlayerOf(p)'.active = PlayerOf(p).active
  <2>1. CASE AddExperienceToPlayer(s, p)
    <3>1. doc[p] \in Documents /\ doc'[p] = [doc[p] EXCEPT !.xp = @ + 1] /\ Exists(p)
      BY <1>1, <2>1, Documented DEF AddExperienceToPlayer, StoreType
    <3>2. doc'[p] # None
      BY <3>1, McPlayerAssumption DEF Documents
    <3> QED
      BY <3>1, <3>2 DEF PlayerOf, Documents
  <2>2. CASE CreateExperienceTransaction(s)
    BY <2>2 DEF CreateExperienceTransaction, PlayerOf
  <2> QED
    BY <2>1, <2>2
<1>4. calls'[s] = NoCall \/ calls'[s].at = "transaction"
  BY <1>1 DEF AddExperienceToPlayer, CreateExperienceTransaction, CallsType
<1>5. \A t \in UnderWay(p)' : \/ t \in UnderWay(p) /\ calls'[t] = calls[t]
                              \/ calls'[t].at \in {"logoutTime", "logout", "transaction"}
  BY <1>1, <1>4 DEF UnderWay, OnlyAbout, Callers
<1> QED
  BY <1>2, <1>3, <1>5, BadgedStays

\* A call that is to write p's badges is the only one, unless it crosses.
LEMMA OnlyWriter ==
    ASSUME NEW p \in Players, Badged(p), NEW s \in UnderWay(p), "badges" \in Writes(calls[s].at)
    PROVE  \A t \in UnderWay(p) \ {s} : "badges" \notin Writes(calls[t].at)
  BY DEF Badged, Lone

LEMMA BadgesAnyone ==
    ASSUME TypeInv, BadgeInv, NEW s \in Callers, Anyone(s)
    PROVE  BadgeInv'
<1>1. PICK p \in Players :
        /\ StoreType /\ CallsType /\ p = calls[s].player /\ calls[s] # NoCall
        /\ OnlyAbout(s, p) /\ calls' = [calls EXCEPT ![s] = calls'[s]]
  BY Types, AboutAnyone DEF TypeInv
<1> SUFFICES ASSUME <<p, "badges">> \notin crossed' PROVE Badged(p)'
  BY <1>1, BadgeOthers
<1>2. Badged(p) /\ s \in UnderWay(p) /\ Prepared(p, s)
  BY <1>1 DEF OnlyAbout, BadgeInv, Badged, UnderWay
<1>3. CASE CallFails(s)
  <2>1. UNCHANGED doc /\ calls'[s] = NoCall
    BY <1>1, <1>3 DEF CallFails, Fail, CallsType
  <2>2. \A t \in UnderWay(p)' : t \in UnderWay(p) /\ calls'[t] = calls[t]
    BY <1>1, <2>1 DEF UnderWay, OnlyAbout, Callers
  <2> QED
    BY <1>2, <2>1, <2>2, BadgedStays DEF PlayerOf
<1>4. CASE ReadBadges(s) \/ SetActivePlayerBadge(s) \/ UpdatePlayerBadgesAndActive(s)
  <2>1. /\ Exists(p) /\ doc[p] \in Documents /\ PlayerOf(p) = doc[p]
        /\ \A t \in UnderWay(p) \ {s} : "badges" \notin Writes(calls[t].at)
    <3>1. calls[s].at \in {"readBadges", "setActive", "saveBadges"}
      BY <1>4 DEF ReadBadges, SetActivePlayerBadge, UpdatePlayerBadgesAndActive
    <3>2. Exists(p)
      BY <1>1, <3>1 DEF TypeInv, Present
    <3> QED
      BY <1>1, <1>2, <3>1, <3>2, WritesAre, OnlyWriter, Documented DEF PlayerOf
  <2>2. CASE ReadBadges(s)
    <3> DEFINE active == calculateActiveBadge(doc[p].badges)
    <3>1. calls'[s] = [player |-> p, at |-> "setActive", active |-> active] /\ UNCHANGED doc
      BY <1>1, <2>2 DEF ReadBadges, CallsType
    <3>2. active \in PlayerOf(p).badges \cup {None} /\ PlayerOf(p)' = PlayerOf(p)
      BY <2>1, <3>1, ActiveIsOne DEF Documents, PlayerOf
    <3> HIDE DEF active
    <3>3. Prepared(p, s)'
      BY <3>1, <3>2 DEF Prepared
    <3>4. ActiveOwned(p)'
      BY <1>2, <3>2 DEF Badged, ActiveOwned
    <3> QED
      BY <1>1, <2>1, <3>3, <3>4, BadgedStep
  <2>3. CASE SetActivePlayerBadge(s)
    <3>1. /\ doc'[p] = [doc[p] EXCEPT !.active = calls[s].active] /\ calls'[s] = NoCall
          /\ calls[s].active \in doc[p].badges \cup {None}
      BY <1>1, <1>2, <2>1, <2>3 DEF SetActivePlayerBadge, StoreType, CallsType, Prepared
    <3>2. ActiveOwned(p)'
      <4>1. doc'[p].badges = doc[p].badges /\ doc'[p].active = calls[s].active
        BY <2>1, <3>1 DEF Documents
      <4>2. doc'[p] # None
        <5>1. [doc[p] EXCEPT !.active = calls[s].active] \in Documents
          BY <2>1, <3>1 DEF Documents
        <5> QED
          BY <3>1, <5>1, McPlayerAssumption
      <4> QED
        BY <3>1, <4>1, <4>2 DEF ActiveOwned, PlayerOf
    <3> QED
      BY <1>1, <2>1, <3>1, <3>2, BadgedStep
  <2>4. CASE UpdatePlayerBadgesAndActive(s)
    <3>1. /\ doc'[p] = [doc[p] EXCEPT !.badges = calls[s].badges, !.active = calls[s].active]
          /\ calls'[s] = NoCall /\ calls[s].active \in calls[s].badges \cup {None}
          /\ calls[s].badges \subseteq Badges
      BY <1>1, <1>2, <2>1, <2>4, Kinds DEF UpdatePlayerBadgesAndActive, StoreType, CallsType, Prepared, Savings
    <3>2. ActiveOwned(p)'
      <4>1. doc'[p].badges = calls[s].badges /\ doc'[p].active = calls[s].active
        BY <2>1, <3>1 DEF Documents
      <4>2. doc'[p] # None
        <5>1. [doc[p] EXCEPT !.badges = calls[s].badges, !.active = calls[s].active] \in Documents
          BY <2>1, <3>1 DEF Documents
        <5> QED
          BY <3>1, <5>1, McPlayerAssumption
      <4> QED
        BY <3>1, <4>1, <4>2 DEF ActiveOwned, PlayerOf
    <3> QED
      BY <1>1, <2>1, <3>1, <3>2, BadgedStep
  <2> QED
    BY <1>4, <2>2, <2>3, <2>4
<1> QED
  BY <1>3, <1>4 DEF Anyone

\* A login has read the badges it writes back; what else the connections of a
\* player change does not touch them.
LEMMA BadgesConnection ==
    ASSUME TypeInv, BadgeInv, NEW p \in Players,
           HandleConnect(p) \/ HandleDisconnect(p) \/ HandleServerSwitch(p)
    PROVE  BadgeInv'
<1>1. /\ StoreType /\ CallsType /\ "consumer" \in Callers
      /\ OnlyAbout("consumer", p) /\ calls' = [calls EXCEPT !["consumer"] = calls'["consumer"]]
  BY Types, AboutConnection DEF TypeInv, Callers
<1> SUFFICES ASSUME <<p, "badges">> \notin crossed' PROVE Badged(p)'
  BY <1>1, BadgeOthers
<1>2. Badged(p)
  BY <1>1 DEF OnlyAbout, BadgeInv
<1>3. CASE HandleConnect(p)
  <2> DEFINE seen == [PlayerOf(p) EXCEPT !.server = "proxy"]
  <2>1. PlayerOf(p) \in Documents /\ UNCHANGED doc
    BY <1>1, <1>3, Documented DEF PlayerOf, Blank, Documents, HandleConnect
  <2>2. seen.badges = PlayerOf(p).badges /\ seen.active = PlayerOf(p).active
    BY <2>1 DEF Documents
  <2>3. PlayerOf(p)' = PlayerOf(p)
    BY <2>1 DEF PlayerOf
  <2>4. calls'["consumer"] = [player |-> p, at |-> "session", seen |-> seen]
    BY <1>1, <1>3 DEF HandleConnect, CallsType
  <2> HIDE DEF seen
  <2>5. Prepared(p, "consumer")'
    BY <2>2, <2>3, <2>4 DEF Prepared
  <2>6. ActiveOwned(p)'
    BY <1>2, <2>3 DEF Badged, ActiveOwned
  <2>7. \A t \in UnderWay(p) : "badges" \notin Writes(calls[t].at)
    BY <1>3, Met DEF HandleConnect
  <2> QED
    BY <1>1, <2>5, <2>6, <2>7, BadgedStep
<1>4. CASE HandleDisconnect(p) \/ HandleServerSwitch(p)
  <2>1. PlayerOf(p)'.badges = PlayerOf(p).badges /\ PlayerOf(p)'.active = PlayerOf(p).active
    <3>1. CASE UNCHANGED doc
      BY <3>1 DEF PlayerOf
    <3>2. CASE Exists(p) /\ doc'[p] = [doc[p] EXCEPT !.server = "server"]
      <4>1. doc[p] \in Documents /\ doc'[p] # None
        <5>1. doc[p] \in Documents
          BY <1>1, <3>2, Documented
        <5>2. [doc[p] EXCEPT !.server = "server"] \in Documents
          BY <5>1 DEF Documents
        <5> QED
          BY <3>2, <5>1, <5>2, McPlayerAssumption
      <4> QED
        BY <3>2, <4>1 DEF PlayerOf, Documents
    <3> QED
      BY <1>1, <1>4, <3>1, <3>2 DEF HandleDisconnect, HandleServerSwitch, StoreType
  <2>2. calls'["consumer"] = calls["consumer"] \/ calls'["consumer"].at = "logoutTime"
    BY <1>1, <1>4 DEF HandleDisconnect, HandleServerSwitch, CallsType
  <2>3. \A t \in UnderWay(p)' : \/ t \in UnderWay(p) /\ calls'[t] = calls[t]
                                \/ calls'[t].at \in {"logoutTime", "logout", "transaction"}
    BY <1>1, <2>2 DEF UnderWay, OnlyAbout, Callers
  <2> QED
    BY <1>2, <2>1, <2>3, BadgedStays
<1> QED
  BY <1>3, <1>4

\* A login writes back the badges there are.
LEMMA BadgesLogin ==
    ASSUME TypeInv, BadgeInv, CreateLoginSession \/ SavePlayer
    PROVE  BadgeInv'
<1>1. PICK p \in Players :
        /\ StoreType /\ CallsType /\ "consumer" \in Callers
        /\ p = calls["consumer"].player /\ calls["consumer"] # NoCall
        /\ OnlyAbout("consumer", p) /\ calls' = [calls EXCEPT !["consumer"] = calls'["consumer"]]
  BY Types, AboutHandler DEF TypeInv, Callers
<1> SUFFICES ASSUME <<p, "badges">> \notin crossed' PROVE Badged(p)'
  BY <1>1, BadgeOthers
<1>2. Badged(p) /\ "consumer" \in UnderWay(p) /\ Prepared(p, "consumer")
  BY <1>1 DEF OnlyAbout, BadgeInv, Badged, UnderWay
<1>3. /\ calls["consumer"].at \in {"session", "save"} /\ calls["consumer"] \in Logins
      /\ PlayerOf(p) \in Documents
  BY <1>1, Kinds, Documented DEF CreateLoginSession, SavePlayer, PlayerOf, Blank, Documents
<1>4. \A t \in UnderWay(p) \ {"consumer"} : "badges" \notin Writes(calls[t].at)
  BY <1>2, <1>3, WritesAre, OnlyWriter
<1>5. CASE CreateLoginSession
  <2>1. /\ calls'["consumer"] = [calls["consumer"] EXCEPT !.at = "save"] /\ UNCHANGED doc
    BY <1>1, <1>5 DEF CreateLoginSession, CallsType
  <2>2. calls'["consumer"].at = "save" /\ calls'["consumer"].seen = calls["consumer"].seen
    BY <1>3, <2>1 DEF Logins
  <2>3. PlayerOf(p)' = PlayerOf(p)
    BY <2>1 DEF PlayerOf
  <2>4. Prepared(p, "consumer")'
    BY <1>2, <1>3, <2>2, <2>3 DEF Prepared
  <2>5. ActiveOwned(p)'
    BY <1>2, <2>3 DEF Badged, ActiveOwned
  <2> QED
    BY <1>1, <1>4, <2>4, <2>5, BadgedStep
<1>6. CASE SavePlayer
  <2> DEFINE seen == calls["consumer"].seen
             new == Saved(PlayerOf(p), seen)
  <2>1. /\ doc'[p] = new /\ calls'["consumer"] = NoCall
        /\ seen \in Documents /\ seen.badges = PlayerOf(p).badges /\ seen.active = PlayerOf(p).active
    BY <1>1, <1>2, <1>3, <1>6 DEF SavePlayer, StoreType, CallsType, Prepared, Logins
  <2>2. new.badges = PlayerOf(p).badges /\ new.active = PlayerOf(p).active /\ new \in Documents
    BY <1>3, <2>1 DEF Saved, Documents
  <2> HIDE DEF new
  <2>3. PlayerOf(p)' = new
    BY <2>1, <2>2, McPlayerAssumption DEF PlayerOf
  <2>4. ActiveOwned(p)'
    BY <1>2, <2>2, <2>3 DEF Badged, ActiveOwned
  <2> QED
    BY <1>1, <1>4, <2>1, <2>4, BadgedStep
<1> QED
  BY <1>5, <1>6

LEMMA BadgesLogout ==
    ASSUME TypeInv, BadgeInv, SetLoginSessionLogoutTime \/ PlayerLogout
    PROVE  BadgeInv'
<1>1. PICK p \in Players :
        /\ StoreType /\ CallsType /\ "consumer" \in Callers
        /\ p = calls["consumer"].player
        /\ OnlyAbout("consumer", p) /\ calls' = [calls EXCEPT !["consumer"] = calls'["consumer"]]
  BY Types, AboutHandler DEF TypeInv, Callers
<1> SUFFICES ASSUME <<p, "badges">> \notin crossed' PROVE Badged(p)'
  BY <1>1, BadgeOthers
<1>2. Badged(p)
  BY <1>1 DEF OnlyAbout, BadgeInv
<1>3. PlayerOf(p)'.badges = PlayerOf(p).badges /\ PlayerOf(p)'.active = PlayerOf(p).active
  <2>1. CASE UNCHANGED doc
    BY <2>1 DEF PlayerOf
  <2>2. CASE Exists(p) /\ doc'[p] = [doc[p] EXCEPT !.server = "off"]
    <3>1. doc[p] \in Documents /\ doc'[p] # None
      <4>1. doc[p] \in Documents
        BY <1>1, <2>2, Documented
      <4>2. [doc[p] EXCEPT !.server = "off"] \in Documents
        BY <4>1 DEF Documents
      <4> QED
        BY <2>2, <4>1, <4>2, McPlayerAssumption
    <3> QED
      BY <2>2, <3>1 DEF PlayerOf, Documents
  <2> QED
    BY <1>1, <2>1, <2>2 DEF SetLoginSessionLogoutTime, PlayerLogout, StoreType
<1>4. calls'["consumer"] = NoCall \/ calls'["consumer"].at = "logout"
  BY <1>1 DEF SetLoginSessionLogoutTime, PlayerLogout, CallsType
<1>5. \A t \in UnderWay(p)' : \/ t \in UnderWay(p) /\ calls'[t] = calls[t]
                              \/ calls'[t].at \in {"logoutTime", "logout", "transaction"}
  BY <1>1, <1>4 DEF UnderWay, OnlyAbout, Callers
<1> QED
  BY <1>2, <1>3, <1>5, BadgedStays

\* Calls that are lost write nothing.
LEMMA BadgesTrouble ==
    ASSUME BadgeInv, UNCHANGED <<doc, crossed>>,
           UNCHANGED calls \/ calls' = [s \in Callers |-> NoCall]
    PROVE  BadgeInv'
<1> SUFFICES ASSUME NEW p \in Players, <<p, "badges">> \notin crossed PROVE Badged(p)'
  BY DEF BadgeInv
<1>1. PlayerOf(p)' = PlayerOf(p)
  BY DEF PlayerOf
<1>2. \A t \in UnderWay(p)' : t \in UnderWay(p) /\ calls'[t] = calls[t]
  BY DEF UnderWay, Callers
<1> QED
  BY <1>1, <1>2, BadgedStays DEF BadgeInv

LEMMA BadgeInit == Init => BadgeInv
  BY DEF Init, BadgeInv, Badged, Lone, ActiveOwned, UnderWay, PlayerOf, Blank, Callers

LEMMA BadgeNext == TypeInv /\ BadgeInv /\ [Next]_vars => BadgeInv'
<1> SUFFICES ASSUME TypeInv, BadgeInv, [Next]_vars PROVE BadgeInv'
  OBVIOUS
<1>1. ASSUME UNCHANGED <<doc, crossed, calls>> PROVE BadgeInv'
  BY <1>1, BadgesTrouble
<1>2. CASE (RolesNext /\ UNCHANGED <<proxies, store, calls, history>>) \/ UNCHANGED vars
  BY <1>1, <1>2 DEF vars
<1>3. CASE \E p \in Players : Player(p)
  BY <1>1, <1>3 DEF Player, Connect, SwitchServer, Disconnect, Moves
<1>4. ASSUME NEW s \in Slots, Grpc(s) PROVE BadgeInv'
  <2>1. s \in Callers /\ ByHand \subseteq Badges
    BY McPlayerAssumption DEF Callers
  <2>2. ASSUME NEW p \in Players, NEW b \in ByHand, BadgeCall(s, p, b) PROVE BadgeInv'
    BY <2>1, <2>2, BadgesBadge DEF BadgeCall
  <2>3. CASE CreateExperienceTransaction(s)
    <3>1. calls[s].player \in Players
      BY <2>1, <2>3, Types, Kinds DEF TypeInv, CreateExperienceTransaction, Steps
    <3> QED
      BY <2>3, <3>1, BadgesExperience
  <2> QED
    BY <1>4, <2>2, <2>3, BadgesExperience DEF Grpc
<1>5. CASE \E s \in Callers : Anyone(s)
  BY <1>5, BadgesAnyone
<1>6. CASE \E p \in Players : HandleConnect(p) \/ HandleDisconnect(p) \/ HandleServerSwitch(p)
  BY <1>6, BadgesConnection
<1>7. CASE CreateLoginSession \/ SavePlayer \/ SetLoginSessionLogoutTime \/ PlayerLogout
  BY <1>7, BadgesLogin, BadgesLogout
<1>8. ASSUME NEW i \in 1 .. Len(grants), HandlePlayerRolesUpdate(i) PROVE BadgeInv'
  <2> DEFINE p == grants[i].player
             b == Granted[grants[i].role]
  <2>1. /\ p \in Players /\ b \in Badges /\ Free("consumer") /\ UNCHANGED failed
        /\ "consumer" \in Callers /\ "consumer" \notin Slots
    BY <1>8, AboutRolesUpdate, McPlayerAssumption DEF Callers
  <2>2. \/ AddBadge("consumer", p, b) \/ RemoveBadge("consumer", p, b)
        \/ UNCHANGED <<store, calls, crossed>>
    BY <1>8 DEF HandlePlayerRolesUpdate
  <2> HIDE DEF p, b
  <2> QED
    BY <1>1, <2>1, <2>2, BadgesBadge
<1>9. CASE DropConnection \/ Crash \/ \E i \in 1 .. Len(grants) : Panic(i) \/ DropGrant(i)
  <2>1. UNCHANGED <<doc, crossed>> /\ (UNCHANGED calls \/ calls' = [s \in Callers |-> NoCall])
    BY <1>9 DEF DropConnection, Crash, Fail, Panic, DropGrant
  <2> QED
    BY <2>1, BadgesTrouble
<1> QED
  BY <1>2, <1>3, <1>4, <1>5, <1>6, <1>7, <1>8, <1>9 DEF Next, Consumer

\* The active badge is one the player owns, whatever calls fail, as long as no two
\* calls write his badges at once (ActiveBadgeOwned of McPlayer).
THEOREM ActiveBadgeCorrect == Spec => []ActiveBadgeOwned
<1>1. BadgeInv => ActiveBadgeOwned
  BY DEF BadgeInv, ActiveBadgeOwned, Badged, ActiveOwned, PlayerOf
<1> QED
  BY <1>1, TypeInit, TypeNext, BadgeInit, BadgeNext, PTL DEF Spec

-----------------------------------------------------------------------------
(* Experience.                                                             *)

\* The calls that have given p experience and not yet recorded it.
Paying(p) == {s \in UnderWay(p) : At(s, "transaction")}

Accounted(p) == PlayerOf(p).xp = ledger[p] + Cardinality(Paying(p))

\* A login under way has read what the player has now.
UpToDate(p) ==
    \A s \in UnderWay(p) :
       calls[s].at \in {"session", "save"} => calls[s].seen.xp = PlayerOf(p).xp

\* The second holds of players about whom calls have failed, too.
ExperienceInv ==
    \A p \in Players : <<p, "xp">> \notin crossed => /\ p \notin failed => Accounted(p)
                                                  /\ UpToDate(p)

\* What a step may do to a player's experience.
Saves(p) == At("consumer", "save") /\ <<p, "xp">> \in crossed
Gains == \A p \in Players : \/ PlayerOf(p)'.xp = PlayerOf(p).xp
                            \/ PlayerOf(p)'.xp = PlayerOf(p).xp + 1
                            \/ Saves(p)

LEMMA PayingFinite == \A p \in Players : IsFiniteSet(Paying(p))
<1>1. IsFiniteSet(Callers)
  BY McPlayerAssumption, FS_AddElement, FS_Union, FS_Singleton DEF Callers
<1>2. \A p \in Players : Paying(p) \subseteq Callers
  BY DEF Paying, UnderWay
<1> QED
  BY <1>1, <1>2, FS_Subset

\* A step of slot s that gives p no experience and records none.
LEMMA ExperienceKept ==
    ASSUME ExperienceInv, NEW p \in Players, NEW s \in Callers, OnlyAbout(s, p),
           PlayerOf(p)'.xp = PlayerOf(p).xp \/ Saves(p),
           p \notin failed' /\ <<p, "xp">> \notin crossed' =>
               /\ ledger'[p] = ledger[p]
               /\ calls[s].at # "transaction" /\ calls'[s].at # "transaction",
           <<p, "xp">> \notin crossed' /\ calls'[s].at \in {"session", "save"}
               => calls'[s].seen.xp = PlayerOf(p).xp
    PROVE  ExperienceInv' /\ Gains
<1>1. Gains
  BY DEF Gains, OnlyAbout, PlayerOf
<1> SUFFICES ASSUME NEW q \in Players, <<q, "xp">> \notin crossed'
             PROVE  (q \notin failed' => Accounted(q)') /\ UpToDate(q)'
  BY <1>1 DEF ExperienceInv
<1>2. (q \notin failed' => Accounted(q)) /\ UpToDate(q)
  BY DEF ExperienceInv, OnlyAbout
<1>3. PlayerOf(q)'.xp = PlayerOf(q).xp
  BY DEF OnlyAbout, PlayerOf, Saves
<1>4. ASSUME q \notin failed' PROVE Accounted(q)'
  <2>1. Paying(q)' = Paying(q)
    <3>1. ASSUME NEW t \in Callers PROVE t \in Paying(q)' <=> t \in Paying(q)
      <4>1. CASE t = s
        BY <1>4, <4>1 DEF OnlyAbout, Paying, UnderWay
      <4>2. CASE t # s
        BY <4>2 DEF OnlyAbout, Paying, UnderWay, Callers
      <4> QED
        BY <4>1, <4>2
    <3>2. Paying(q) \subseteq Callers /\ Paying(q)' \subseteq Callers
      BY DEF Paying, UnderWay, Callers
    <3> QED
      BY <3>1, <3>2
  <2>2. ledger'[q] = ledger[q]
    BY <1>4 DEF OnlyAbout
  <2> QED
    BY <1>2, <1>3, <1>4, <2>1, <2>2 DEF Accounted
<1>5. ASSUME NEW t \in UnderWay(q)', calls'[t].at \in {"session", "save"}
      PROVE  calls'[t].seen.xp = PlayerOf(q)'.xp
  <2>1. CASE t = s
    BY <1>3, <1>5, <2>1 DEF OnlyAbout, UnderWay
  <2>2. CASE t # s
    <3>1. t \in UnderWay(q) /\ calls'[t] = calls[t]
      BY <2>2 DEF OnlyAbout, UnderWay, Callers
    <3> QED
      BY <1>2, <1>3, <1>5, <3>1 DEF UpToDate
  <2> QED
    BY <2>1, <2>2
<1> QED
  BY <1>4, <1>5 DEF UpToDate

\* Experience is given: a call is to record it.
LEMMA ExperienceGiven ==
    ASSUME TypeInv, ExperienceInv, NEW s \in Slots, NEW p \in Players, AddExperienceToPlayer(s, p)
    PROVE  ExperienceInv' /\ Gains
<1>1. /\ StoreType /\ CallsType /\ s \in Callers /\ Exists(p) /\ doc[p] \in Documents
      /\ OnlyAbout(s, p)
  BY Types, AboutExperience, Documented DEF TypeInv, Callers, AddExperienceToPlayer
<1>2. /\ calls[s] = NoCall /\ calls'[s] = [player |-> p, at |-> "transaction"]
      /\ doc'[p] = [doc[p] EXCEPT !.xp = @ + 1] /\ UNCHANGED ledger
  BY <1>1 DEF AddExperienceToPlayer, CallsType, StoreType
<1>3. PlayerOf(p)'.xp = PlayerOf(p).xp + 1 /\ PlayerOf(p).xp \in Nat /\ ledger[p] \in Nat
  <2>1. [doc[p] EXCEPT !.xp = @ + 1] \in Documents
    BY <1>1 DEF Documents
  <2> QED
    BY <1>1, <1>2, <2>1, McPlayerAssumption DEF PlayerOf, Documents, StoreType
<1>4. Gains
  BY <1>1, <1>3 DEF Gains, OnlyAbout, PlayerOf
<1> SUFFICES ASSUME NEW q \in Players, <<q, "xp">> \notin crossed'
             PROVE  (q \notin failed' => Accounted(q)') /\ UpToDate(q)'
  BY <1>4 DEF ExperienceInv
<1>5. (q \notin failed' => Accounted(q)) /\ UpToDate(q)
  BY <1>1 DEF ExperienceInv, OnlyAbout
<1>6. ASSUME NEW t \in Callers, t # s
      PROVE  /\ t \in UnderWay(q)' <=> t \in UnderWay(q)
             /\ calls'[t] = calls[t]
  BY <1>1, <1>6 DEF OnlyAbout, UnderWay, Callers
<1>7. UnderWay(q) \subseteq Callers /\ UnderWay(q)' \subseteq Callers /\ s \notin UnderWay(q)
  BY <1>2 DEF UnderWay, Callers
<1>8. CASE q = p
  <2>2. s \in UnderWay(p)' /\ At(s, "transaction")'
    BY <1>1, <1>2 DEF UnderWay, Callers
  <2>3. Paying(p)' = Paying(p) \cup {s} /\ s \notin Paying(p)
    BY <1>6, <1>7, <1>8, <2>2 DEF Paying
  <2>4. Cardinality(Paying(p)') = Cardinality(Paying(p)) + 1 /\ Cardinality(Paying(p)) \in Nat
    BY <2>3, PayingFinite, FS_AddElement, FS_CardinalityType
  <2>5. \A t \in UnderWay(p) : calls[t].at \notin {"session", "save"}
    <3>1. \A t \in UnderWay(p) : "xp" \notin Writes(calls[t].at)
      BY <1>8, Met DEF AddExperienceToPlayer
    <3> QED
      BY <3>1, WritesAre
  <2>6. \A t \in UnderWay(p)' : calls'[t].at \notin {"session", "save"}
    BY <1>2, <1>6, <1>7, <1>8, <2>5
  <2> QED
    BY <1>2, <1>5, <1>8, <1>3, <2>4, <2>6 DEF Accounted, UpToDate
<1>9. CASE q # p
  <2>1. UnderWay(q)' = UnderWay(q)
    BY <1>2, <1>6, <1>7, <1>9 DEF UnderWay
  <2>2. Paying(q)' = Paying(q) /\ PlayerOf(q)' = PlayerOf(q) /\ ledger'[q] = ledger[q]
    BY <1>1, <1>6, <1>7, <1>9, <2>1 DEF Paying, OnlyAbout, PlayerOf
  <2> QED
    BY <1>5, <1>6, <1>7, <2>1, <2>2 DEF Accounted, UpToDate
<1> QED
  BY <1>8, <1>9

\* It is recorded: the call is over.
LEMMA ExperienceRecorded ==
    ASSUME TypeInv, ExperienceInv, NEW s \in Slots, CreateExperienceTransaction(s)
    PROVE  ExperienceInv' /\ Gains
<1>1. PICK p \in Players :
        /\ StoreType /\ CallsType /\ s \in Callers
        /\ p = calls[s].player /\ calls[s] # NoCall
        /\ OnlyAbout(s, p) /\ calls' = [calls EXCEPT ![s] = calls'[s]]
  <2>1. StoreType /\ CallsType /\ s \in Callers
    BY Types DEF TypeInv, Callers
  <2>2. calls[s].player \in Players /\ calls[s] # NoCall
    BY <2>1, Kinds DEF CreateExperienceTransaction, Steps
  <2> QED
    BY <2>1, <2>2, AboutExperience
<1>2. /\ calls[s].at = "transaction" /\ calls'[s] = NoCall
      /\ UNCHANGED <<doc, failed, crossed>> /\ ledger' = [ledger EXCEPT ![p] = @ + 1]
  BY <1>1 DEF CreateExperienceTransaction, CallsType
<1>3. Gains
  BY <1>2 DEF Gains, PlayerOf
<1> SUFFICES ASSUME NEW q \in Players, <<q, "xp">> \notin crossed
             PROVE  (q \notin failed => Accounted(q)') /\ UpToDate(q)'
  BY <1>2, <1>3 DEF ExperienceInv
<1>4. (q \notin failed => Accounted(q)) /\ UpToDate(q) /\ PlayerOf(q)' = PlayerOf(q)
  BY <1>2 DEF ExperienceInv, PlayerOf
<1>5. \A t \in UnderWay(q)' : t \in UnderWay(q) /\ calls'[t] = calls[t]
  BY <1>1, <1>2 DEF UnderWay, OnlyAbout, Callers
<1>6. ledger'[q] + Cardinality(Paying(q)') = ledger[q] + Cardinality(Paying(q))
  <2>1. CASE q = p
    <3>1. Paying(p)' = Paying(p) \ {s} /\ s \in Paying(p)
      BY <1>1, <1>2 DEF Paying, UnderWay, OnlyAbout, Callers
    <3>2. /\ Cardinality(Paying(p)') = Cardinality(Paying(p)) - 1 /\ Cardinality(Paying(p)) \in Nat
      BY <3>1, PayingFinite, FS_RemoveElement, FS_CardinalityType
    <3>3. ledger'[p] = ledger[p] + 1 /\ ledger[p] \in Nat
      BY <1>1, <1>2 DEF StoreType
    <3> QED
      BY <2>1, <3>2, <3>3
  <2>2. CASE q # p
    <3>1. Paying(q)' = Paying(q)
      BY <1>1, <1>2, <2>2 DEF Paying, UnderWay, OnlyAbout, Callers
    <3>2. ledger'[q] = ledger[q]
      BY <1>1, <2>2 DEF OnlyAbout
    <3> QED
      BY <3>1, <3>2
  <2> QED
    BY <2>1, <2>2
<1> QED
  BY <1>4, <1>5, <1>6 DEF Accounted, UpToDate

\* What is written of badges and of the server leaves the experience as it is.
LEMMA SameExperience ==
    ASSUME StoreType, NEW p \in Players,
           \/ doc'[p] = doc[p]
           \/ /\ Exists(p)
              /\ \/ \E badges \in SUBSET Badges : doc'[p] = [doc[p] EXCEPT !.badges = badges]
                 \/ \E active \in Badges \cup {None} : doc'[p] = [doc[p] EXCEPT !.active = active]
                 \/ \E server \in Places : doc'[p] = [doc[p] EXCEPT !.server = server]
                 \/ \E badges \in SUBSET Badges, active \in Badges \cup {None} :
                       doc'[p] = [doc[p] EXCEPT !.badges = badges, !.active = active]
    PROVE  PlayerOf(p)'.xp = PlayerOf(p).xp
<1>1. CASE doc'[p] = doc[p]
  BY <1>1 DEF PlayerOf
<1>2. CASE Exists(p) /\ doc'[p] # doc[p]
  <2>1. doc[p] \in Documents
    BY <1>2, Documented
  <2>2. doc'[p] \in Documents /\ doc'[p].xp = doc[p].xp
    BY <1>2, <2>1 DEF Documents, Places
  <2> QED
    BY <1>2, <2>2, McPlayerAssumption DEF PlayerOf
<1> QED
  BY <1>1, <1>2

LEMMA ExperienceBadge ==
    ASSUME TypeInv, ExperienceInv, NEW s \in Callers, NEW p \in Players, NEW b \in Badges, Free(s),
           AddBadge(s, p, b) \/ RemoveBadge(s, p, b) \/ SetActiveBadge(s, p, b),
           UNCHANGED failed
    PROVE  ExperienceInv' /\ Gains
<1>1. StoreType /\ CallsType /\ OnlyAbout(s, p) /\ calls' = [calls EXCEPT ![s] = calls'[s]]
  BY Types, AboutBadge DEF TypeInv
<1>2. UNCHANGED ledger
  BY DEF AddBadge, RemoveBadge, SetActiveBadge
<1>3. PlayerOf(p)'.xp = PlayerOf(p).xp
  <2>1. CASE UNCHANGED doc
    BY <1>1, <2>1, SameExperience
  <2>2. CASE Exists(p) /\ doc' = [doc EXCEPT ![p].badges = @ \cup {b}]
    <3>1. doc[p] \in Documents /\ doc'[p] = [doc[p] EXCEPT !.badges = @ \cup {b}]
      BY <1>1, <2>2, Documented DEF StoreType
    <3>2. doc'[p] = [doc[p] EXCEPT !.badges = doc[p].badges \cup {b}] /\ doc[p].badges \cup {b} \in SUBSET Badges
      BY <3>1 DEF Documents
    <3> QED
      BY <1>1, <2>2, <3>2, SameExperience
  <2> QED
    BY <2>1, <2>2 DEF AddBadge, RemoveBadge, SetActiveBadge
<1>4. calls'[s].at \in {"idle", "readBadges", "saveBadges", "setActive"}
  <2>1. CASE AddBadge(s, p, b)
    BY <1>1, <2>1 DEF AddBadge, CallsType
  <2>2. CASE RemoveBadge(s, p, b)
    BY <1>1, <2>2 DEF RemoveBadge, CallsType
  <2>3. CASE SetActiveBadge(s, p, b)
    BY <1>1, <2>3 DEF SetActiveBadge, CallsType
  <2> QED
    BY <2>1, <2>2, <2>3
<1>5. /\ calls[s].at # "transaction" /\ calls'[s].at # "transaction"
      /\ calls'[s].at \notin {"session", "save"} /\ ledger'[p] = ledger[p]
  BY <1>2, <1>4
<1> QED
  BY <1>1, <1>3, <1>5, ExperienceKept

LEMMA ExperienceAnyone ==
    ASSUME TypeInv, ExperienceInv, NEW s \in Callers, Anyone(s)
    PROVE  ExperienceInv' /\ Gains
<1>1. PICK p \in Players :
        /\ StoreType /\ CallsType /\ p = calls[s].player /\ calls[s] # NoCall
        /\ OnlyAbout(s, p) /\ calls' = [calls EXCEPT ![s] = calls'[s]]
  BY Types, AboutAnyone DEF TypeInv
<1>2. UNCHANGED ledger
  BY DEF Anyone, CallFails, Fail, ReadBadges, SetActivePlayerBadge, UpdatePlayerBadgesAndActive
<1>3. CASE CallFails(s)
  <2>1. /\ p \in failed' /\ calls'[s] = NoCall /\ PlayerOf(p)'.xp = PlayerOf(p).xp
        /\ calls'[s].at \notin {"session", "save"}
    BY <1>1, <1>3 DEF CallFails, Fail, PlayerOf, CallsType
  <2> QED
    BY <1>1, <2>1, ExperienceKept
<1>4. CASE ReadBadges(s)
  <2>1. /\ PlayerOf(p)'.xp = PlayerOf(p).xp /\ calls[s].at = "readBadges"
        /\ calls'[s].at = "setActive"
    BY <1>1, <1>4 DEF ReadBadges, PlayerOf, CallsType
  <2> QED
    BY <1>1, <1>2, <2>1, ExperienceKept
<1>5. CASE SetActivePlayerBadge(s)
  <2>1. /\ calls[s].active \in Badges \cup {None} /\ Exists(p) /\ calls[s].at = "setActive"
        /\ doc'[p] = [doc[p] EXCEPT !.active = calls[s].active] /\ calls'[s] = NoCall
    BY <1>1, <1>5, Kinds DEF SetActivePlayerBadge, TypeInv, Present, StoreType, CallsType, Activations
  <2>2. PlayerOf(p)'.xp = PlayerOf(p).xp
    BY <1>1, <2>1, SameExperience
  <2> QED
    <3>1. /\ calls[s].at # "transaction" /\ calls'[s].at # "transaction"
          /\ calls'[s].at \notin {"session", "save"} /\ ledger'[p] = ledger[p]
      BY <1>2, <2>1
    <3> QED
      BY <1>1, <2>2, <3>1, ExperienceKept
<1>6. CASE UpdatePlayerBadgesAndActive(s)
  <2>1. /\ calls[s].active \in Badges \cup {None} /\ calls[s].badges \in SUBSET Badges
        /\ Exists(p) /\ calls[s].at = "saveBadges" /\ calls'[s] = NoCall
        /\ doc'[p] = [doc[p] EXCEPT !.badges = calls[s].badges, !.active = calls[s].active]
    BY <1>1, <1>6, Kinds DEF UpdatePlayerBadgesAndActive, TypeInv, Present, StoreType, CallsType, Savings
  <2>2. PlayerOf(p)'.xp = PlayerOf(p).xp
    <3>1. \E badges \in SUBSET Badges, active \in Badges \cup {None} :
             doc'[p] = [doc[p] EXCEPT !.badges = badges, !.active = active]
      BY <2>1
    <3> QED
      BY <1>1, <2>1, <3>1, SameExperience
  <2> QED
    <3>1. /\ calls[s].at # "transaction" /\ calls'[s].at # "transaction"
          /\ calls'[s].at \notin {"session", "save"} /\ ledger'[p] = ledger[p]
      BY <1>2, <2>1
    <3> QED
      BY <1>1, <2>2, <3>1, ExperienceKept
<1> QED
  BY <1>3, <1>4, <1>5, <1>6 DEF Anyone

LEMMA ExperienceConnection ==
    ASSUME TypeInv, ExperienceInv, NEW p \in Players,
           HandleConnect(p) \/ HandleDisconnect(p) \/ HandleServerSwitch(p)
    PROVE  ExperienceInv' /\ Gains
<1>1. /\ StoreType /\ CallsType /\ "consumer" \in Callers /\ calls["consumer"] = NoCall
      /\ OnlyAbout("consumer", p) /\ calls' = [calls EXCEPT !["consumer"] = calls'["consumer"]]
      /\ UNCHANGED ledger
  BY Types, AboutConnection
  DEF TypeInv, Callers, HandleConnect, HandleDisconnect, HandleServerSwitch, NextConnection
<1>2. PlayerOf(p)'.xp = PlayerOf(p).xp
  <2>1. \/ doc'[p] = doc[p]
        \/ Exists(p) /\ doc'[p] = [doc[p] EXCEPT !.server = "server"]
    BY <1>1 DEF HandleConnect, HandleDisconnect, HandleServerSwitch, StoreType
  <2> QED
    BY <1>1, <2>1, SameExperience DEF Places
<1>3. CASE HandleConnect(p)
  <2> DEFINE seen == [PlayerOf(p) EXCEPT !.server = "proxy"]
  <2>1. PlayerOf(p) \in Documents
    BY <1>1, Documented DEF PlayerOf, Blank, Documents
  <2>2. seen.xp = PlayerOf(p).xp
    BY <2>1 DEF Documents
  <2>3. calls'["consumer"] = [player |-> p, at |-> "session", seen |-> seen]
    BY <1>1, <1>3 DEF HandleConnect, CallsType
  <2> HIDE DEF seen
  <2> QED
    <3>1. /\ calls["consumer"].at # "transaction" /\ calls'["consumer"].at = "session"
          /\ calls'["consumer"].seen.xp = PlayerOf(p).xp /\ ledger'[p] = ledger[p]
      BY <1>1, <2>2, <2>3
    <3> QED
      BY <1>1, <1>2, <3>1, ExperienceKept
<1>4. CASE HandleDisconnect(p) \/ HandleServerSwitch(p)
  <2>1. calls'["consumer"].at \in {"idle", "logoutTime"}
    BY <1>1, <1>4 DEF HandleDisconnect, HandleServerSwitch, CallsType
  <2> QED
    <3>1. /\ calls["consumer"].at # "transaction" /\ calls'["consumer"].at # "transaction"
          /\ calls'["consumer"].at \notin {"session", "save"} /\ ledger'[p] = ledger[p]
      BY <1>1, <2>1
    <3> QED
      BY <1>1, <1>2, <3>1, ExperienceKept
<1> QED
  BY <1>3, <1>4

LEMMA ExperienceHandler ==
    ASSUME TypeInv, ExperienceInv,
           CreateLoginSession \/ SavePlayer \/ SetLoginSessionLogoutTime \/ PlayerLogout
    PROVE  ExperienceInv' /\ Gains
<1>1. PICK p \in Players :
        /\ StoreType /\ CallsType /\ "consumer" \in Callers
        /\ p = calls["consumer"].player /\ calls["consumer"] # NoCall
        /\ OnlyAbout("consumer", p) /\ calls' = [calls EXCEPT !["consumer"] = calls'["consumer"]]
  BY Types, AboutHandler DEF TypeInv, Callers
<1>2. UNCHANGED ledger /\ calls["consumer"].at \in {"session", "save", "logoutTime", "logout"}
  BY DEF CreateLoginSession, SavePlayer, SetLoginSessionLogoutTime, PlayerLogout
<1>3. CASE CreateLoginSession \/ SavePlayer
  <2>1. calls["consumer"] \in Logins /\ PlayerOf(p) \in Documents
    BY <1>1, <1>3, Kinds, Documented DEF CreateLoginSession, SavePlayer, PlayerOf, Blank, Documents
  <2>2. <<p, "xp">> \notin crossed => calls["consumer"].seen.xp = PlayerOf(p).xp
    <3>1. "consumer" \in UnderWay(p)
      BY <1>1 DEF UnderWay
    <3> QED
      BY <1>3, <3>1 DEF ExperienceInv, UpToDate, CreateLoginSession, SavePlayer
  <2>3. CASE CreateLoginSession
    <3>1. UNCHANGED <<doc, crossed>> /\ calls'["consumer"] = [calls["consumer"] EXCEPT !.at = "save"]
      BY <1>1, <2>3 DEF CreateLoginSession, CallsType
    <3>2. calls'["consumer"].at = "save" /\ calls'["consumer"].seen = calls["consumer"].seen
      BY <2>1, <3>1 DEF Logins
    <3>3. PlayerOf(p)'.xp = PlayerOf(p).xp
      BY <3>1 DEF PlayerOf
    <3> QED
      BY <1>1, <1>2, <2>2, <3>1, <3>2, <3>3, ExperienceKept
  <2>4. CASE SavePlayer
    <3> DEFINE new == Saved(PlayerOf(p), calls["consumer"].seen)
    <3>1. /\ doc'[p] = new /\ calls'["consumer"] = NoCall /\ At("consumer", "save")
          /\ calls'["consumer"].at \notin {"session", "save", "transaction"}
      BY <1>1, <2>4 DEF SavePlayer, StoreType, CallsType
    <3>2. new.xp = calls["consumer"].seen.xp /\ new \in Documents
      BY <2>1 DEF Saved, Documents, Logins
    <3> HIDE DEF new
    <3>3. PlayerOf(p)'.xp = PlayerOf(p).xp \/ Saves(p)
      BY <2>2, <3>1, <3>2, McPlayerAssumption DEF PlayerOf, Saves
    <3> QED
      BY <1>1, <1>2, <3>1, <3>3, ExperienceKept
  <2> QED
    BY <1>3, <2>3, <2>4
<1>4. CASE SetLoginSessionLogoutTime \/ PlayerLogout
  <2>1. calls'["consumer"].at \in {"idle", "logout"}
    BY <1>1, <1>4 DEF SetLoginSessionLogoutTime, PlayerLogout, CallsType
  <2>2. PlayerOf(p)'.xp = PlayerOf(p).xp
    <3>1. \/ doc'[p] = doc[p]
          \/ Exists(p) /\ doc'[p] = [doc[p] EXCEPT !.server = "off"]
      BY <1>1, <1>4 DEF SetLoginSessionLogoutTime, PlayerLogout, StoreType
    <3> QED
      BY <1>1, <3>1, SameExperience DEF Places
  <2> QED
    BY <1>1, <1>2, <2>1, <2>2, ExperienceKept
<1> QED
  BY <1>3, <1>4

\* Whoever's call is lost counts as failed.
LEMMA ExperienceTrouble ==
    ASSUME ExperienceInv, UNCHANGED <<doc, ledger, crossed>>, failed \subseteq failed',
           \/ UNCHANGED calls
           \/ /\ calls' = [s \in Callers |-> NoCall]
              /\ \A p \in Players : UnderWay(p) # {} => p \in failed'
    PROVE  ExperienceInv' /\ Gains
<1>1. Gains
  BY DEF Gains, PlayerOf
<1> SUFFICES ASSUME NEW p \in Players, <<p, "xp">> \notin crossed'
             PROVE  (p \notin failed' => Accounted(p)') /\ UpToDate(p)'
  BY <1>1 DEF ExperienceInv
<1>2. (p \notin failed' => Accounted(p)) /\ UpToDate(p) /\ PlayerOf(p)' = PlayerOf(p)
  BY DEF ExperienceInv, PlayerOf
<1>3. /\ \A t \in UnderWay(p)' : t \in UnderWay(p) /\ calls'[t] = calls[t]
      /\ p \notin failed' => UnderWay(p)' = UnderWay(p)
  BY DEF UnderWay, Callers
<1>4. p \notin failed' => Paying(p)' = Paying(p)
  BY <1>3 DEF Paying
<1> QED
  BY <1>2, <1>3, <1>4 DEF Accounted, UpToDate

LEMMA ExperienceInit == Init => ExperienceInv
<1> SUFFICES ASSUME Init, NEW p \in Players PROVE Accounted(p) /\ UpToDate(p)
  BY DEF ExperienceInv
<1>1. UnderWay(p) = {}
  BY DEF Init, UnderWay
<1>2. Paying(p) = {} /\ PlayerOf(p).xp = 0 /\ ledger[p] = 0
  BY <1>1 DEF Init, Paying, PlayerOf, Blank
<1> QED
  BY <1>1, <1>2, FS_EmptySet DEF Accounted, UpToDate

LEMMA ExperienceNext == TypeInv /\ ExperienceInv /\ [Next]_vars => ExperienceInv' /\ Gains
<1> SUFFICES ASSUME TypeInv, ExperienceInv, [Next]_vars PROVE ExperienceInv' /\ Gains
  OBVIOUS
<1>1. ASSUME UNCHANGED <<doc, ledger, crossed, calls>>, failed \subseteq failed' PROVE ExperienceInv' /\ Gains
  BY <1>1, ExperienceTrouble
<1>2. CASE (RolesNext /\ UNCHANGED <<proxies, store, calls, history>>) \/ UNCHANGED vars
  BY <1>1, <1>2 DEF vars
<1>3. CASE \E p \in Players : Player(p)
  BY <1>1, <1>3 DEF Player, Connect, SwitchServer, Disconnect, Moves
<1>4. ASSUME NEW s \in Slots, Grpc(s) PROVE ExperienceInv' /\ Gains
  <2>1. s \in Callers /\ ByHand \subseteq Badges
    BY McPlayerAssumption DEF Callers
  <2>2. ASSUME NEW p \in Players, NEW b \in ByHand, BadgeCall(s, p, b) PROVE ExperienceInv' /\ Gains
    BY <2>1, <2>2, ExperienceBadge DEF BadgeCall
  <2> QED
    BY <1>4, <2>2, ExperienceGiven, ExperienceRecorded DEF Grpc
<1>5. CASE \E s \in Callers : Anyone(s)
  BY <1>5, ExperienceAnyone
<1>6. CASE \E p \in Players : HandleConnect(p) \/ HandleDisconnect(p) \/ HandleServerSwitch(p)
  BY <1>6, ExperienceConnection
<1>7. CASE CreateLoginSession \/ SavePlayer \/ SetLoginSessionLogoutTime \/ PlayerLogout
  BY <1>7, ExperienceHandler
<1>8. ASSUME NEW i \in 1 .. Len(grants), HandlePlayerRolesUpdate(i) PROVE ExperienceInv' /\ Gains
  <2> DEFINE p == grants[i].player
             b == Granted[grants[i].role]
  <2>1. /\ p \in Players /\ b \in Badges /\ Free("consumer") /\ UNCHANGED failed
        /\ "consumer" \in Callers
    BY <1>8, AboutRolesUpdate DEF Callers
  <2>2. \/ AddBadge("consumer", p, b) \/ RemoveBadge("consumer", p, b)
        \/ UNCHANGED <<store, calls, crossed>>
    BY <1>8 DEF HandlePlayerRolesUpdate
  <2> HIDE DEF p, b
  <2> QED
    BY <1>1, <2>1, <2>2, ExperienceBadge
<1>9. CASE DropConnection \/ Crash \/ \E i \in 1 .. Len(grants) : Panic(i) \/ DropGrant(i)
  <2>1. UNCHANGED <<doc, ledger, crossed>> /\ failed \subseteq failed'
    BY <1>9 DEF DropConnection, Crash, Fail, Panic, DropGrant
  <2>2. \/ UNCHANGED calls
        \/ /\ calls' = [s \in Callers |-> NoCall]
           /\ \A p \in Players : UnderWay(p) # {} => p \in failed'
    BY <1>9 DEF DropConnection, Crash, Fail, Panic, DropGrant
  <2> QED
    BY <2>1, <2>2, ExperienceTrouble
<1> QED
  BY <1>2, <1>3, <1>4, <1>5, <1>6, <1>7, <1>8, <1>9 DEF Next, Consumer

\* A player's experience is the sum of his transactions, but for calls between the
\* two writes, unless a call about him failed or a login crossed with a gain
\* (ExperienceAccounted of McPlayer).
THEOREM ExperienceCorrect == Spec => []ExperienceAccounted
<1>1. ExperienceInv => ExperienceAccounted
  BY DEF ExperienceInv, ExperienceAccounted, Accounted, Paying, PlayerOf
<1> QED
  BY <1>1, TypeInit, TypeNext, ExperienceInit, ExperienceNext, PTL DEF Spec

\* A player only gains experience, however many calls interleave or fail, but for a
\* login that saves a document read before another call gave him some
\* (ExperienceGrows of McPlayer).
THEOREM ExperienceOnlyGrows == Spec => ExperienceGrows
<1> DEFINE Kept(p) == PlayerOf(p)'.xp < PlayerOf(p).xp
                      => At("consumer", "save") /\ <<p, "xp">> \in crossed
<1>1. ASSUME TypeInv, ExperienceInv, [Next]_vars, NEW p \in Players PROVE Kept(p)
  <2>1. PlayerOf(p) \in Documents
    BY <1>1, Types, Documented DEF TypeInv, PlayerOf, Blank, Documents
  <2>2. PlayerOf(p).xp \in Nat
    BY <2>1 DEF Documents
  <2>3. \/ PlayerOf(p)'.xp = PlayerOf(p).xp
        \/ PlayerOf(p)'.xp = PlayerOf(p).xp + 1
        \/ Saves(p)
    BY <1>1, ExperienceNext DEF Gains
  <2> QED
    BY <2>2, <2>3 DEF Saves
<1>2. TypeInv /\ ExperienceInv /\ [Next]_vars => [\A p \in Players : Kept(p)]_vars
  BY <1>1
<1> QED
  BY <1>2, TypeInit, TypeNext, ExperienceInit, ExperienceNext, PTL DEF Spec, ExperienceGrows

-----------------------------------------------------------------------------
(* Lists of news.                                                          *)

\* What is said about something by the items of a list: A are the places of these
\* items and v what each says.  Before the first of them it is "from", after the last
\* it is "to", and R tells what may come after what.
Trail(A, v, from, to, R) ==
    /\ \A i \in A : (\A k \in A : i <= k) => <<from, v[i]>> \in R
    /\ \A i, j \in A : i < j /\ (\A k \in A : k <= i \/ j <= k) => <<v[i], v[j]>> \in R
    /\ \A i \in A : (\A k \in A : k <= i) => v[i] = to
    /\ A = {} => from = to

\* One more item at the end.
LEMMA TrailAppend ==
    ASSUME NEW n \in Nat, NEW A \in SUBSET (1 .. n), NEW v, NEW from, NEW to, NEW R,
           Trail(A, v, from, to, R), NEW w, NEW last, <<to, last>> \in R,
           \A i \in A : w[i] = v[i], w[n + 1] = last
    PROVE  Trail(A \cup {n + 1}, w, from, last, R)
<1> DEFINE B == A \cup {n + 1}
<1>1. \A i \in A : i \in Nat /\ i <= n
  OBVIOUS
<1>2. ASSUME NEW i \in B, \A k \in B : i <= k PROVE <<from, w[i]>> \in R
  <2>1. CASE i \in A
    BY <1>2, <2>1 DEF Trail
  <2>2. CASE i = n + 1
    <3>1. A = {}
      BY <1>1, <1>2, <2>2
    <3> QED
      BY <2>2, <3>1 DEF Trail
  <2> QED
    BY <2>1, <2>2
<1>3. ASSUME NEW i \in B, NEW j \in B, i < j, \A k \in B : k <= i \/ j <= k
      PROVE  <<w[i], w[j]>> \in R
  <2>1. i \in A
    BY <1>1, <1>3
  <2>2. CASE j \in A
    BY <1>3, <2>1, <2>2 DEF Trail
  <2>3. CASE j = n + 1
    <3>1. \A k \in A : k <= i
      BY <1>1, <1>3, <2>3
    <3> QED
      BY <2>1, <2>3, <3>1 DEF Trail
  <2> QED
    BY <2>2, <2>3
<1>4. ASSUME NEW i \in B, \A k \in B : k <= i PROVE w[i] = last
  <2>1. i = n + 1
    BY <1>1, <1>4
  <2> QED
    BY <2>1
<1> QED
  BY <1>2, <1>3, <1>4 DEF Trail

\* Item m is taken out; it is no news of this, or the first.  Those after it move up.
LEMMA TrailTake ==
    ASSUME NEW n \in Nat, NEW A \in SUBSET (1 .. n), NEW v, NEW from, NEW to, NEW R,
           Trail(A, v, from, to, R), NEW m \in 1 .. n, NEW w, NEW start,
           \/ m \notin A /\ start = from
           \/ m \in A /\ (\A k \in A : m <= k) /\ start = v[m],
           NEW B \in SUBSET (1 .. n - 1),
           \A i \in 1 .. n - 1 : i \in B <=> (IF i < m THEN i ELSE i + 1) \in A,
           \A i \in B : w[i] = v[IF i < m THEN i ELSE i + 1]
    PROVE  Trail(B, w, start, to, R)
<1> DEFINE Was(i) == IF i < m THEN i ELSE i + 1
<1>1. \A i \in B : Was(i) \in A /\ Was(i) # m /\ w[i] = v[Was(i)]
  OBVIOUS
<1>2. \A k \in A : k # m => \E i \in B : Was(i) = k
  <2> SUFFICES ASSUME NEW k \in A, k # m PROVE \E i \in B : Was(i) = k
    OBVIOUS
  <2>1. CASE k < m
    <3>1. k \in 1 .. n - 1 /\ Was(k) = k
      BY <2>1
    <3> QED
      BY <3>1
  <2>2. CASE ~ k < m
    <3>1. k - 1 \in 1 .. n - 1 /\ Was(k - 1) = k
      BY <2>2
    <3> QED
      BY <3>1
  <2> QED
    BY <2>1, <2>2
<1>3. \A i, j \in B : (i < j <=> Was(i) < Was(j)) /\ (i <= j <=> Was(i) <= Was(j))
  OBVIOUS
<1>6. \A i \in B : i \in Nat /\ Was(i) \in Nat
  OBVIOUS
<1>7. \A k \in A : k \in Nat
  OBVIOUS
<1> HIDE DEF Was
<1>4. CASE m \notin A /\ start = from
  <2>1. ASSUME NEW i \in B, \A k \in B : i <= k PROVE <<start, w[i]>> \in R
    <3>1. \A k \in A : Was(i) <= k
      BY <1>1, <1>2, <1>3, <1>4, <2>1
    <3> QED
      BY <1>1, <1>4, <3>1 DEF Trail
  <2>2. ASSUME NEW i \in B, NEW j \in B, i < j, \A k \in B : k <= i \/ j <= k
        PROVE  <<w[i], w[j]>> \in R
    <3>1. Was(i) < Was(j) /\ \A k \in A : k <= Was(i) \/ Was(j) <= k
      BY <1>1, <1>2, <1>3, <1>4, <2>2
    <3> QED
      BY <1>1, <3>1 DEF Trail
  <2>3. ASSUME NEW i \in B, \A k \in B : k <= i PROVE w[i] = to
    <3>1. \A k \in A : k <= Was(i)
      BY <1>1, <1>2, <1>3, <1>4, <2>3
    <3> QED
      BY <1>1, <3>1 DEF Trail
  <2>4. ASSUME B = {} PROVE start = to
    <3>1. A = {}
      BY <1>2, <1>4, <2>4
    <3> QED
      BY <1>4, <3>1 DEF Trail
  <2> QED
    BY <2>1, <2>2, <2>3, <2>4 DEF Trail
<1>5. CASE m \in A /\ (\A k \in A : m <= k) /\ start = v[m]
  <2>1. ASSUME NEW i \in B, \A k \in B : i <= k PROVE <<start, w[i]>> \in R
    <3>1. m < Was(i) /\ \A k \in A : k <= m \/ Was(i) <= k
      BY <1>1, <1>2, <1>3, <1>5, <1>6, <1>7, <2>1
    <3> QED
      BY <1>1, <1>5, <3>1 DEF Trail
  <2>2. ASSUME NEW i \in B, NEW j \in B, i < j, \A k \in B : k <= i \/ j <= k
        PROVE  <<w[i], w[j]>> \in R
    <3>1. Was(i) < Was(j) /\ \A k \in A : k <= Was(i) \/ Was(j) <= k
      BY <1>1, <1>2, <1>3, <1>5, <1>6, <1>7, <2>2
    <3> QED
      BY <1>1, <3>1 DEF Trail
  <2>3. ASSUME NEW i \in B, \A k \in B : k <= i PROVE w[i] = to
    <3>1. \A k \in A : k <= Was(i)
      BY <1>1, <1>2, <1>3, <1>5, <1>6, <1>7, <2>3
    <3> QED
      BY <1>1, <3>1 DEF Trail
  <2>4. ASSUME B = {} PROVE start = to
    <3>1. A = {m}
      BY <1>2, <1>5, <2>4
    <3> QED
      BY <1>5, <3>1 DEF Trail
  <2> QED
    BY <2>1, <2>2, <2>3, <2>4 DEF Trail
<1> QED
  BY <1>4, <1>5

\* What is said elsewhere does not matter.
LEMMA TrailSame ==
    ASSUME NEW A, NEW v, NEW from, NEW to, NEW R, Trail(A, v, from, to, R),
           NEW w, \A i \in A : w[i] = v[i]
    PROVE  Trail(A, w, from, to, R)
  BY DEF Trail

-----------------------------------------------------------------------------
(* Sessions and the tracker.                                               *)

\* Where the consumer stands with p: what it does for a connection of his, or "idle".
Handling == {"session", "save", "logoutTime", "logout"}
Stage(p) == IF calls["consumer"] # NoCall /\ calls["consumer"].player = p
            THEN calls["consumer"].at ELSE "idle"

\* Where p is once the message being handled is.
Known(p) == IF Stage(p) \in {"session", "save"} THEN "proxy"
            ELSE IF Stage(p) \in {"logoutTime", "logout"} THEN "off"
            ELSE Server(p)

SessionsOf(p) == IF Stage(p) \in {"session", "logout"} THEN 0
                 ELSE IF Stage(p) \in {"save", "logoutTime"} THEN 1
                 ELSE IF Server(p) = "off" THEN 0 ELSE 1

\* Who connects was off, who switches or disconnects was not.
Where == [connect |-> "proxy", switch |-> "server", disconnect |-> "off"]
Follows == {m \in Places \X Places : m[2] = "proxy" <=> m[1] = "off"}

Said(p) == {i \in 1 .. Len(connections) : connections[i].player = p}
Positions == [i \in 1 .. Len(connections) |-> Where[connections[i].kind]]

\* The unread messages about p lead from where the service knows him to be to where
\* he is, and there is a session exactly while he is known to be somewhere.
Tracked(p) ==
    /\ Stage(p) = "session" => Server(p) = "off"
    /\ open[p] = SessionsOf(p)
    /\ Trail(Said(p), Positions, Known(p), net[p], Follows)

TrackInv == \A p \in Players : p \notin failed => Tracked(p)

LEMMA ServerIs == ASSUME StoreType, NEW p \in Players PROVE Server(p) \in Places
  BY Documented DEF Server, PlayerOf, Blank, Documents, Places

\* A step that does not change what the service knows of p, and reads and writes
\* no connection message.
LEMMA TrackedStays ==
    ASSUME NEW p \in Players, Tracked(p),
           UNCHANGED proxies, Server(p)' = Server(p), open'[p] = open[p],
           Stage(p)' = Stage(p) \/ (Stage(p) \notin Handling /\ Stage(p)' \notin Handling)
    PROVE  Tracked(p)'
<1>1. Known(p)' = Known(p) /\ SessionsOf(p)' = SessionsOf(p)
  BY DEF Known, SessionsOf, Handling
<1>2. UNCHANGED <<Said(p), Positions, net>>
  BY DEF Said, Positions
<1> QED
  BY <1>1, <1>2 DEF Tracked, Handling

\* A step of the consumer about p tells nothing of q.
LEMMA StageElsewhere ==
    ASSUME NEW p \in Players, NEW q \in Players, NEW s \in Callers, OnlyAbout(s, p),
           q # p \/ s # "consumer"
    PROVE  Stage(q)' = Stage(q)
  BY DEF OnlyAbout, Stage, Callers

LEMMA ServerElsewhere ==
    ASSUME NEW p \in Players, NEW q \in Players \ {p}, NEW s \in Callers, OnlyAbout(s, p)
    PROVE  Server(q)' = Server(q) /\ open'[q] = open[q]
  BY DEF OnlyAbout, Server, PlayerOf

LEMMA TrackOthers ==
    ASSUME TrackInv, NEW p \in Players, NEW s \in Callers, OnlyAbout(s, p), UNCHANGED proxies,
           p \notin failed' => Tracked(p)'
    PROVE  TrackInv'
<1> SUFFICES ASSUME NEW q \in Players, q \notin failed' PROVE Tracked(q)'
  BY DEF TrackInv
<1>1. CASE q = p
  BY <1>1
<1>2. CASE q # p
  <2>1. Tracked(q)
    BY DEF TrackInv, OnlyAbout
  <2> QED
    BY <1>2, <2>1, StageElsewhere, ServerElsewhere, TrackedStays
<1> QED
  BY <1>1, <1>2

\* What is written of badges and experience leaves the server as it is.
LEMMA SameServer ==
    ASSUME StoreType, NEW p \in Players,
           \/ doc'[p] = doc[p]
           \/ /\ Exists(p)
              /\ \/ \E badges \in SUBSET Badges, active \in Badges \cup {None} :
                       doc'[p] = [doc[p] EXCEPT !.badges = badges, !.active = active]
                 \/ \E badges \in SUBSET Badges : doc'[p] = [doc[p] EXCEPT !.badges = badges]
                 \/ \E active \in Badges \cup {None} : doc'[p] = [doc[p] EXCEPT !.active = active]
                 \/ \E xp \in Nat : doc'[p] = [doc[p] EXCEPT !.xp = xp]
    PROVE  Server(p)' = Server(p)
<1>1. CASE doc'[p] = doc[p]
  BY <1>1 DEF PlayerOf, Server
<1>2. CASE Exists(p) /\ doc'[p] # doc[p]
  <2>1. doc[p] \in Documents
    BY <1>2, Documented
  <2>2. doc'[p] \in Documents /\ doc'[p].server = doc[p].server
    BY <1>2, <2>1 DEF Documents
  <2> QED
    BY <1>2, <2>2, McPlayerAssumption DEF PlayerOf, Server
<1> QED
  BY <1>1, <1>2

-----------------------------------------------------------------------------

LEMMA TrackBadge ==
    ASSUME TypeInv, TrackInv, NEW s \in Callers, NEW p \in Players, NEW b \in Badges, Free(s),
           AddBadge(s, p, b) \/ RemoveBadge(s, p, b) \/ SetActiveBadge(s, p, b),
           UNCHANGED <<proxies, failed>>
    PROVE  TrackInv'
<1>1. StoreType /\ CallsType /\ OnlyAbout(s, p) /\ calls' = [calls EXCEPT ![s] = calls'[s]]
  BY Types, AboutBadge DEF TypeInv
<1>2. UNCHANGED open
  BY DEF AddBadge, RemoveBadge, SetActiveBadge
<1>3. Server(p)' = Server(p)
  <2>1. CASE UNCHANGED doc
    BY <1>1, <2>1, SameServer
  <2>2. CASE Exists(p) /\ doc' = [doc EXCEPT ![p].badges = @ \cup {b}]
    <3>1. doc[p] \in Documents /\ doc'[p] = [doc[p] EXCEPT !.badges = @ \cup {b}]
      BY <1>1, <2>2, Documented DEF StoreType
    <3>2. doc'[p] = [doc[p] EXCEPT !.badges = doc[p].badges \cup {b}] /\ doc[p].badges \cup {b} \in SUBSET Badges
      BY <3>1 DEF Documents
    <3> QED
      BY <1>1, <2>2, <3>2, SameServer
  <2> QED
    BY <2>1, <2>2 DEF AddBadge, RemoveBadge, SetActiveBadge
<1>4. calls'[s].at \in {"idle", "readBadges", "saveBadges", "setActive"}
  <2>1. CASE AddBadge(s, p, b)
    BY <1>1, <2>1 DEF AddBadge, CallsType
  <2>2. CASE RemoveBadge(s, p, b)
    BY <1>1, <2>2 DEF RemoveBadge, CallsType
  <2>3. CASE SetActiveBadge(s, p, b)
    BY <1>1, <2>3 DEF SetActiveBadge, CallsType
  <2> QED
    BY <2>1, <2>2, <2>3
<1>5. Stage(p)' = Stage(p) \/ (Stage(p) \notin Handling /\ Stage(p)' \notin Handling)
  <2>1. CASE s = "consumer"
    BY <1>4, <2>1 DEF Stage, Handling
  <2>2. CASE s # "consumer"
    BY <1>1, <2>2, StageElsewhere
  <2> QED
    BY <2>1, <2>2
<1>6. p \notin failed' => Tracked(p)'
  BY <1>1, <1>2, <1>3, <1>5, TrackedStays DEF TrackInv
<1> QED
  BY <1>1, <1>6, TrackOthers

LEMMA TrackExperience ==
    ASSUME TypeInv, TrackInv, NEW s \in Slots, NEW p \in Players,
           \/ AddExperienceToPlayer(s, p)
           \/ CreateExperienceTransaction(s) /\ p = calls[s].player
    PROVE  TrackInv'
<1>1. StoreType /\ CallsType /\ OnlyAbout(s, p) /\ s \in Callers /\ s # "consumer"
  BY Types, AboutExperience, McPlayerAssumption DEF TypeInv, Callers
<1>2. UNCHANGED <<proxies, open, failed>>
  BY DEF AddExperienceToPlayer, CreateExperienceTransaction
<1>3. Server(p)' = Server(p)
  <2>1. CASE AddExperienceToPlayer(s, p)
    <3>1. doc[p] \in Documents /\ doc'[p] = [doc[p] EXCEPT !.xp = @ + 1] /\ Exists(p)
      BY <1>1, <2>1, Documented DEF StoreType, AddExperienceToPlayer
    <3>2. doc'[p] = [doc[p] EXCEPT !.xp = doc[p].xp + 1] /\ doc[p].xp + 1 \in Nat
      BY <3>1 DEF Documents
    <3> QED
      BY <1>1, <3>1, <3>2, SameServer
  <2>2. CASE CreateExperienceTransaction(s)
    BY <1>1, <2>2, SameServer DEF CreateExperienceTransaction
  <2> QED
    BY <2>1, <2>2
<1>4. p \notin failed' => Tracked(p)'
  BY <1>1, <1>2, <1>3, StageElsewhere, TrackedStays DEF TrackInv
<1> QED
  BY <1>1, <1>2, <1>4, TrackOthers

LEMMA TrackAnyone ==
    ASSUME TypeInv, TrackInv, NEW s \in Callers, Anyone(s)
    PROVE  TrackInv'
<1>1. PICK p \in Players :
        /\ StoreType /\ CallsType /\ p = calls[s].player /\ calls[s] # NoCall
        /\ OnlyAbout(s, p) /\ calls' = [calls EXCEPT ![s] = calls'[s]]
  BY Types, AboutAnyone DEF TypeInv
<1>2. UNCHANGED <<proxies, open>>
  BY DEF Anyone, CallFails, Fail, ReadBadges, SetActivePlayerBadge, UpdatePlayerBadgesAndActive
<1>3. CASE CallFails(s)
  <2>1. p \in failed'
    BY <1>1, <1>3 DEF CallFails, Fail
  <2> QED
    BY <1>1, <1>2, <2>1, TrackOthers
<1>4. CASE ReadBadges(s) \/ SetActivePlayerBadge(s) \/ UpdatePlayerBadgesAndActive(s)
  <2>1. Server(p)' = Server(p)
    <3>1. CASE ReadBadges(s)
      BY <1>1, <3>1, SameServer DEF ReadBadges
    <3>2. CASE SetActivePlayerBadge(s)
      <4>1. /\ calls[s].active \in Badges \cup {None} /\ Exists(p)
            /\ doc'[p] = [doc[p] EXCEPT !.active = calls[s].active]
        BY <1>1, <3>2, Kinds DEF SetActivePlayerBadge, TypeInv, Present, StoreType, Activations
      <4> QED
        BY <1>1, <4>1, SameServer
    <3>3. CASE UpdatePlayerBadgesAndActive(s)
      <4>1. /\ calls[s].active \in Badges \cup {None} /\ calls[s].badges \in SUBSET Badges /\ Exists(p)
            /\ doc'[p] = [doc[p] EXCEPT !.badges = calls[s].badges, !.active = calls[s].active]
        BY <1>1, <3>3, Kinds DEF UpdatePlayerBadgesAndActive, TypeInv, Present, StoreType, Savings
      <4>2. \E badges \in SUBSET Badges, active \in Badges \cup {None} :
               doc'[p] = [doc[p] EXCEPT !.badges = badges, !.active = active]
        BY <4>1
      <4> QED
        BY <1>1, <4>1, <4>2, SameServer
    <3> QED
      BY <1>4, <3>1, <3>2, <3>3
  <2>2. Stage(p)' = Stage(p) \/ (Stage(p) \notin Handling /\ Stage(p)' \notin Handling)
    <3>1. calls[s].at \notin Handling /\ calls'[s].at \notin Handling
      BY <1>1, <1>4 DEF ReadBadges, SetActivePlayerBadge, UpdatePlayerBadgesAndActive, CallsType, Handling
    <3>2. CASE s = "consumer"
      BY <3>1, <3>2 DEF Stage, Handling
    <3>3. CASE s # "consumer"
      BY <1>1, <3>3, StageElsewhere
    <3> QED
      BY <3>2, <3>3
  <2>3. p \notin failed' => Tracked(p)'
    BY <1>1, <1>2, <2>1, <2>2, TrackedStays DEF TrackInv, OnlyAbout
  <2> QED
    BY <1>1, <1>2, <2>3, TrackOthers
<1> QED
  BY <1>3, <1>4 DEF Anyone

\* In particular the first item of a list.
LEMMA TrailHead ==
    ASSUME NEW n \in Nat, 1 \in 1 .. n, NEW A \in SUBSET (1 .. n), NEW v, NEW from, NEW to, NEW R,
           Trail(A, v, from, to, R), NEW w, NEW B \in SUBSET (1 .. n - 1),
           \A i \in 1 .. n - 1 : i \in B <=> i + 1 \in A,
           \A i \in B : w[i] = v[i + 1]
    PROVE  Trail(B, w, IF 1 \in A THEN v[1] ELSE from, to, R)
<1> DEFINE start == IF 1 \in A THEN v[1] ELSE from
<1>1. PICK m \in 1 .. n : m = 1
  OBVIOUS
<1>2. /\ \/ m \notin A /\ start = from
         \/ m \in A /\ (\A k \in A : m <= k) /\ start = v[m]
      /\ \A i \in 1 .. n - 1 : i \in B <=> (IF i < m THEN i ELSE i + 1) \in A
      /\ \A i \in B : w[i] = v[IF i < m THEN i ELSE i + 1]
  BY <1>1
<1> HIDE DEF start
<1>3. Trail(B, w, start, to, R)
  BY <1>2, TrailTake
<1> QED
  BY <1>3 DEF start

-----------------------------------------------------------------------------

\* A proxy says where p is now.
LEMMA TrackPlayer ==
    ASSUME TypeInv, TrackInv, NEW p \in Players, Player(p)
    PROVE  TrackInv'
<1>1. ProxiesType
  BY Types DEF TypeInv
<1>2. PICK kind \in {"connect", "switch", "disconnect"} :
        /\ <<net[p], Where[kind]>> \in Follows
        /\ net' = [net EXCEPT ![p] = Where[kind]]
        /\ connections' = Append(connections, Message(p, kind))
        /\ UNCHANGED <<rolesVars, store, calls, history>>
  <2>1. CASE Connect(p)
    <3>1. /\ <<net[p], Where["connect"]>> \in Follows /\ net' = [net EXCEPT ![p] = Where["connect"]]
          /\ connections' = Append(connections, Message(p, "connect"))
      BY <2>1 DEF Connect, Moves, Where, Follows, Places
    <3> QED
      BY <2>1, <3>1 DEF Connect, Moves
  <2>2. CASE SwitchServer(p)
    <3>1. /\ <<net[p], Where["switch"]>> \in Follows /\ net' = [net EXCEPT ![p] = Where["switch"]]
          /\ connections' = Append(connections, Message(p, "switch"))
      BY <2>2 DEF SwitchServer, Moves, Where, Follows, Places
    <3> QED
      BY <2>2, <3>1 DEF SwitchServer, Moves
  <2>3. CASE Disconnect(p)
    <3>1. /\ <<net[p], Where["disconnect"]>> \in Follows
          /\ net' = [net EXCEPT ![p] = Where["disconnect"]]
          /\ connections' = Append(connections, Message(p, "disconnect"))
      BY <2>3 DEF Disconnect, Moves, Where, Follows, Places
    <3> QED
      BY <2>3, <3>1 DEF Disconnect, Moves
  <2> QED
    BY <2>1, <2>2, <2>3 DEF Player
<1>3. PICK n \in Nat : n = Len(connections)
  BY <1>1 DEF ProxiesType
<1>4. /\ Len(connections') = n + 1 /\ connections'[n + 1] = Message(p, kind)
      /\ \A i \in 1 .. n : connections'[i] = connections[i]
  BY <1>1, <1>2, <1>3 DEF ProxiesType, Message, Messages
<1>5. Positions'[n + 1] = Where[kind] /\ \A i \in 1 .. n : Positions'[i] = Positions[i]
  BY <1>3, <1>4 DEF Positions, Message
<1> SUFFICES ASSUME NEW q \in Players, q \notin failed' PROVE Tracked(q)'
  BY DEF TrackInv
<1>6. Tracked(q) /\ UNCHANGED <<Known(q), SessionsOf(q), Stage(q), Server(q), open>>
  BY <1>2 DEF TrackInv, Known, SessionsOf, Stage, Server, PlayerOf
<1>7. CASE q = p
  <2>1. Said(p)' = Said(p) \cup {n + 1} /\ Said(p) \subseteq 1 .. n
    BY <1>3, <1>4 DEF Said, Message
  <2>2. net'[p] = Where[kind] /\ \A i \in Said(p) : Positions'[i] = Positions[i]
    BY <1>1, <1>2, <1>5, <2>1 DEF ProxiesType
  <2>3. Trail(Said(p)', Positions', Known(p), net'[p], Follows)
    BY <1>2, <1>5, <1>6, <1>7, <2>1, <2>2, TrailAppend DEF Tracked
  <2> QED
    BY <1>6, <1>7, <2>3 DEF Tracked
<1>8. CASE q # p
  <2>1. Said(q)' = Said(q) /\ Said(q) \subseteq 1 .. n
    BY <1>3, <1>4, <1>8 DEF Said, Message
  <2>2. net'[q] = net[q] /\ \A i \in Said(q) : Positions'[i] = Positions[i]
    BY <1>1, <1>2, <1>5, <1>8, <2>1 DEF ProxiesType
  <2>3. Trail(Said(q)', Positions', Known(q), net'[q], Follows)
    BY <1>6, <2>1, <2>2, TrailSame DEF Tracked
  <2> QED
    BY <1>6, <2>3 DEF Tracked
<1> QED
  BY <1>7, <1>8

\* The first message is read: what it says of its player may follow what was known.
LEMMA TrailRead ==
    ASSUME ProxiesType, connections # <<>>, connections' = Tail(connections), UNCHANGED net,
           NEW q \in Players, NEW from, Trail(Said(q), Positions, from, net[q], Follows)
    PROVE  LET m == Head(connections)
           IN  /\ m \in Messages
               /\ m.player # q => Trail(Said(q)', Positions', from, net'[q], Follows)
               /\ m.player = q => /\ <<from, Where[m.kind]>> \in Follows
                                  /\ Trail(Said(q)', Positions', Where[m.kind], net'[q], Follows)
<1>1. PICK n \in Nat : n = Len(connections) /\ 1 \in 1 .. n
  BY DEF ProxiesType
<1>2. /\ Head(connections) = connections[1] /\ connections[1] \in Messages
      /\ Len(connections') = n - 1 /\ \A i \in 1 .. n - 1 : connections'[i] = connections[i + 1]
  BY <1>1, HeadGone DEF ProxiesType
<1>3. Positions[1] = Where[connections[1].kind]
  BY <1>1 DEF Positions
<1>4. \A i \in 1 .. n - 1 : Positions'[i] = Positions[i + 1]
  BY <1>1, <1>2 DEF Positions
<1>5. /\ Said(q) \in SUBSET (1 .. n) /\ Said(q)' \in SUBSET (1 .. n - 1)
      /\ \A i \in 1 .. n - 1 : i \in Said(q)' <=> i + 1 \in Said(q)
      /\ 1 \in Said(q) <=> connections[1].player = q
  BY <1>1, <1>2 DEF Said
<1> DEFINE start == IF connections[1].player = q THEN Positions[1] ELSE from
<1>6. \A k \in Said(q) : 1 <= k
  BY <1>5
<1>7. \A i \in Said(q)' : Positions'[i] = Positions[i + 1]
  BY <1>4, <1>5
<1>8. Trail(Said(q)', Positions', IF 1 \in Said(q) THEN Positions[1] ELSE from, net[q], Follows)
  BY <1>1, <1>5, <1>7, TrailHead
<1>9. connections[1].player = q => <<from, Positions[1]>> \in Follows
  BY <1>5, <1>6 DEF Trail
<1> QED
  BY <1>2, <1>3, <1>5, <1>8, <1>9

\* The consumer reads that p has moved.
LEMMA TrackConnection ==
    ASSUME TypeInv, TrackInv, NEW p \in Players,
           HandleConnect(p) \/ HandleDisconnect(p) \/ HandleServerSwitch(p)
    PROVE  TrackInv'
<1>1. /\ ProxiesType /\ StoreType /\ CallsType /\ "consumer" \in Callers
      /\ OnlyAbout("consumer", p) /\ calls' = [calls EXCEPT !["consumer"] = calls'["consumer"]]
  BY Types, AboutConnection DEF TypeInv, Callers
<1>2. PICK kind \in {"connect", "disconnect", "switch"} :
        /\ NextConnection(p, kind)
        /\ \/ kind = "connect" /\ HandleConnect(p)
           \/ kind = "disconnect" /\ HandleDisconnect(p)
           \/ kind = "switch" /\ HandleServerSwitch(p)
  BY DEF HandleConnect, HandleDisconnect, HandleServerSwitch
<1>3. /\ connections # <<>> /\ connections' = Tail(connections) /\ UNCHANGED net
      /\ Head(connections) = Message(p, kind) /\ calls["consumer"] = NoCall
  BY <1>2 DEF NextConnection
<1>4. Head(connections).player = p /\ Head(connections).kind = kind
  BY <1>3 DEF Message
<1>5. UNCHANGED open
  BY DEF HandleConnect, HandleDisconnect, HandleServerSwitch
<1>6. ASSUME NEW q \in Players, q \notin failed'
      PROVE  /\ Tracked(q)
             /\ q # p => Trail(Said(q)', Positions', Known(q), net'[q], Follows)
             /\ q = p => /\ <<Known(p), Where[kind]>> \in Follows
                         /\ Trail(Said(p)', Positions', Where[kind], net'[p], Follows)
  <2>1. Tracked(q)
    BY <1>1, <1>6 DEF TrackInv, OnlyAbout
  <2>2. Trail(Said(q), Positions, Known(q), net[q], Follows)
    BY <2>1 DEF Tracked
  <2> QED
    BY <1>1, <1>3, <1>4, <2>1, <2>2, TrailRead
<1>7. ASSUME NEW q \in Players, q # p, q \notin failed' PROVE Tracked(q)'
  <2>1. Stage(q)' = Stage(q) /\ Server(q)' = Server(q) /\ open'[q] = open[q]
    BY <1>1, <1>7, StageElsewhere, ServerElsewhere
  <2>2. Known(q)' = Known(q) /\ SessionsOf(q)' = SessionsOf(q)
    BY <2>1 DEF Known, SessionsOf
  <2> QED
    BY <1>6, <1>7, <2>1, <2>2 DEF Tracked
<1>8. ASSUME p \notin failed' PROVE Tracked(p)'
  <2>1. Stage(p) = "idle" /\ Known(p) = Server(p)
    BY <1>3 DEF Stage, Known
  <2>2. /\ open[p] = IF Server(p) = "off" THEN 0 ELSE 1
        /\ <<Server(p), Where[kind]>> \in Follows
        /\ Trail(Said(p)', Positions', Where[kind], net'[p], Follows)
    BY <1>6, <1>8, <2>1 DEF Tracked, SessionsOf
  <2>3. CASE HandleConnect(p) /\ kind = "connect"
    <3>1. Server(p) = "off" /\ Where[kind] = "proxy"
      BY <2>2, <2>3 DEF Follows, Where
    <3>2. Stage(p)' = "session" /\ Server(p)' = Server(p)
      BY <1>1, <2>3 DEF HandleConnect, CallsType, Stage, Server, PlayerOf
    <3>3. Known(p)' = "proxy" /\ SessionsOf(p)' = 0
      BY <3>2 DEF Known, SessionsOf
    <3> QED
      BY <1>5, <2>2, <3>1, <3>2, <3>3 DEF Tracked
  <2>4. CASE HandleDisconnect(p) /\ kind = "disconnect"
    <3>1. Server(p) # "off" /\ Where[kind] = "off"
      BY <2>2, <2>4 DEF Follows, Where
    <3>2. HasSession(p) /\ open[p] = 1
      BY <2>2, <3>1 DEF HasSession
    <3>3. Stage(p)' = "logoutTime"
      BY <1>1, <2>4, <3>2 DEF HandleDisconnect, CallsType, Stage
    <3>4. Known(p)' = "off" /\ SessionsOf(p)' = 1
      BY <3>3 DEF Known, SessionsOf
    <3> QED
      BY <1>5, <2>2, <3>1, <3>2, <3>3, <3>4 DEF Tracked
  <2>5. CASE HandleServerSwitch(p) /\ kind = "switch"
    <3>1. Server(p) # "off" /\ Where[kind] = "server"
      BY <2>2, <2>5 DEF Follows, Where
    <3>2. Exists(p)
      BY <3>1 DEF Server, PlayerOf, Blank
    <3>3. doc[p] \in Documents /\ doc' = [doc EXCEPT ![p].server = "server"]
      BY <1>1, <2>5, <3>2, Documented DEF HandleServerSwitch
    <3>4. doc'[p] \in Documents /\ doc'[p].server = "server"
      BY <1>1, <3>2, <3>3, Documented DEF StoreType, Documents, Places
    <3>5. Server(p)' = "server" /\ Stage(p)' = "idle"
      BY <1>3, <2>5, <3>4, McPlayerAssumption DEF HandleServerSwitch, Stage, Server, PlayerOf
    <3>6. Known(p)' = "server" /\ SessionsOf(p)' = 1
      BY <3>5 DEF Known, SessionsOf
    <3> QED
      BY <1>5, <2>2, <3>1, <3>5, <3>6 DEF Tracked
  <2> QED
    BY <1>2, <2>3, <2>4, <2>5
<1> QED
  BY <1>7, <1>8 DEF TrackInv

\* The rest of a login and of a logout.
LEMMA TrackHandler ==
    ASSUME TypeInv, TrackInv,
           CreateLoginSession \/ SavePlayer \/ SetLoginSessionLogoutTime \/ PlayerLogout
    PROVE  TrackInv'
<1>1. PICK p \in Players :
        /\ StoreType /\ CallsType /\ "consumer" \in Callers
        /\ p = calls["consumer"].player /\ calls["consumer"] # NoCall
        /\ OnlyAbout("consumer", p) /\ calls' = [calls EXCEPT !["consumer"] = calls'["consumer"]]
  BY Types, AboutHandler DEF TypeInv, Callers
<1>2. UNCHANGED proxies /\ Stage(p) = calls["consumer"].at
  BY <1>1 DEF CreateLoginSession, SavePlayer, SetLoginSessionLogoutTime, PlayerLogout, Stage
<1>3. ASSUME p \notin failed',
             Known(p)' = Known(p), open'[p] = SessionsOf(p)', Stage(p)' # "session"
      PROVE  TrackInv'
  <2>1. UNCHANGED <<Said(p), Positions, net>>
    BY <1>2 DEF Said, Positions
  <2>2. Tracked(p)
    BY <1>1, <1>3 DEF TrackInv, OnlyAbout
  <2>3. Tracked(p)'
    BY <1>3, <2>1, <2>2 DEF Tracked
  <2> QED
    BY <1>1, <1>2, <2>3, TrackOthers
<1>4. SUFFICES ASSUME p \notin failed' PROVE TrackInv'
  BY <1>1, <1>2, TrackOthers
<1>5. open[p] = SessionsOf(p) /\ (Stage(p) = "session" => Server(p) = "off")
  BY <1>1, <1>4 DEF TrackInv, OnlyAbout, Tracked
<1>6. CASE CreateLoginSession
  <2>1. calls["consumer"] \in Logins /\ Stage(p) = "session" /\ open[p] = 0
    BY <1>1, <1>2, <1>5, <1>6, Kinds DEF CreateLoginSession, SessionsOf
  <2>2. calls'["consumer"] = [calls["consumer"] EXCEPT !.at = "save"]
    BY <1>1, <1>6 DEF CreateLoginSession, CallsType
  <2>3. calls'["consumer"].at = "save" /\ calls'["consumer"].player = p /\ calls'["consumer"] # NoCall
    BY <1>1, <2>1, <2>2 DEF Logins
  <2>4. Stage(p)' = "save" /\ open'[p] = 1
    BY <1>1, <1>4, <1>6, <2>1, <2>3 DEF CreateLoginSession, Stage, StoreType
  <2> QED
    BY <1>3, <1>4, <2>1, <2>4 DEF Known, SessionsOf
<1>7. CASE SavePlayer
  <2>1. calls["consumer"] \in Logins /\ Stage(p) = "save" /\ calls["consumer"].seen.server = "proxy"
    BY <1>1, <1>2, <1>7, Kinds DEF SavePlayer, TypeInv, Present
  <2> DEFINE new == Saved(PlayerOf(p), calls["consumer"].seen)
  <2>2. doc'[p] = new /\ calls'["consumer"] = NoCall /\ UNCHANGED open
    BY <1>1, <1>7 DEF SavePlayer, StoreType, CallsType
  <2>3. PlayerOf(p) \in Documents
    BY <1>1, Documented DEF PlayerOf, Blank, Documents
  <2>4. new.server = "proxy" /\ new \in Documents
    BY <2>1, <2>3 DEF Saved, Documents, Logins
  <2> HIDE DEF new
  <2>5. Server(p)' = "proxy" /\ Stage(p)' = "idle"
    BY <2>2, <2>4, McPlayerAssumption DEF Server, PlayerOf, Stage
  <2> QED
    BY <1>3, <1>4, <1>5, <2>1, <2>2, <2>5 DEF Known, SessionsOf
<1>8. CASE SetLoginSessionLogoutTime
  <2>1. Stage(p) = "logoutTime" /\ open[p] = 1
    BY <1>2, <1>5, <1>8 DEF SetLoginSessionLogoutTime, SessionsOf
  <2>2. Stage(p)' = "logout" /\ open'[p] = 0
    BY <1>1, <1>8, <2>1 DEF SetLoginSessionLogoutTime, HasSession, Stage, StoreType, CallsType
  <2> QED
    BY <1>3, <1>4, <2>1, <2>2 DEF Known, SessionsOf
<1>9. CASE PlayerLogout
  <2>1. Stage(p) = "logout" /\ open[p] = 0
    BY <1>2, <1>5, <1>9 DEF PlayerLogout, SessionsOf
  <2>2. Server(p)' = "off"
    <3>1. CASE Exists(p)
      <4>1. doc' = [doc EXCEPT ![p].server = "off"] /\ doc[p] \in Documents
        BY <1>1, <1>9, <3>1, Documented DEF PlayerLogout
      <4>2. doc'[p] \in Documents /\ doc'[p].server = "off"
        BY <1>1, <4>1 DEF StoreType, Documents
      <4> QED
        BY <4>2, McPlayerAssumption DEF Server, PlayerOf
    <3>2. CASE ~ Exists(p)
      BY <1>1, <1>9, <3>2 DEF PlayerLogout, Server, PlayerOf, Blank
    <3> QED
      BY <3>1, <3>2
  <2>3. Stage(p)' = "idle" /\ UNCHANGED open
    BY <1>1, <1>9 DEF PlayerLogout, Stage, CallsType
  <2> QED
    BY <1>3, <1>4, <2>1, <2>2, <2>3 DEF Known, SessionsOf
<1> QED
  BY <1>6, <1>7, <1>8, <1>9

\* Whoever's message or call is lost counts as failed.
LEMMA TrackDrop == ASSUME TypeInv, TrackInv, DropConnection PROVE TrackInv'
<1>1. /\ ProxiesType /\ connections # <<>> /\ connections' = Tail(connections) /\ UNCHANGED net
      /\ failed' = failed \cup {Head(connections).player}
  BY Types DEF TypeInv, DropConnection
<1> SUFFICES ASSUME NEW q \in Players, q \notin failed' PROVE Tracked(q)'
  BY DEF TrackInv
<1>2. Tracked(q) /\ Head(connections).player # q
  BY <1>1 DEF TrackInv
<1>3. UNCHANGED <<Known(q), SessionsOf(q), Stage(q), Server(q), open>>
  BY DEF DropConnection, Known, SessionsOf, Stage, Server, PlayerOf
<1>4. Trail(Said(q)', Positions', Known(q), net'[q], Follows)
  BY <1>1, <1>2, TrailRead DEF Tracked
<1> QED
  BY <1>2, <1>3, <1>4 DEF Tracked

LEMMA TrackTrouble ==
    ASSUME TrackInv, UNCHANGED <<proxies, doc, open>>, failed \subseteq failed',
           \/ UNCHANGED calls
           \/ /\ calls' = [s \in Callers |-> NoCall]
              /\ \A p \in Players : UnderWay(p) # {} => p \in failed'
    PROVE  TrackInv'
<1> SUFFICES ASSUME NEW p \in Players, p \notin failed' PROVE Tracked(p)'
  BY DEF TrackInv
<1>1. Tracked(p) /\ Server(p)' = Server(p)
  BY DEF TrackInv, Server, PlayerOf
<1>2. Stage(p)' = Stage(p)
  BY DEF Stage, UnderWay, Callers
<1> QED
  BY <1>1, <1>2, TrackedStays

LEMMA TrackInit == Init => TrackInv
<1> SUFFICES ASSUME Init, NEW p \in Players PROVE Tracked(p)
  BY DEF TrackInv
<1>1. Stage(p) = "idle" /\ Server(p) = "off" /\ open[p] = 0 /\ net[p] = "off"
  BY DEF Init, Stage, Server, PlayerOf, Blank, Callers
<1>2. Said(p) = {}
  BY DEF Init, Said
<1> QED
  BY <1>1, <1>2 DEF Tracked, Trail, Known, SessionsOf

LEMMA TrackNext == TypeInv /\ TrackInv /\ [Next]_vars => TrackInv'
<1> SUFFICES ASSUME TypeInv, TrackInv, [Next]_vars PROVE TrackInv'
  OBVIOUS
<1>1. ASSUME UNCHANGED <<proxies, doc, open, calls>>, failed \subseteq failed' PROVE TrackInv'
  BY <1>1, TrackTrouble
<1>2. CASE (RolesNext /\ UNCHANGED <<proxies, store, calls, history>>) \/ UNCHANGED vars
  BY <1>1, <1>2 DEF vars
<1>3. CASE \E p \in Players : Player(p)
  BY <1>3, TrackPlayer
<1>4. ASSUME NEW s \in Slots, Grpc(s) PROVE TrackInv'
  <2>1. s \in Callers /\ ByHand \subseteq Badges /\ CallsType
    BY McPlayerAssumption, Types DEF Callers, TypeInv
  <2>2. ASSUME NEW p \in Players, NEW b \in ByHand, BadgeCall(s, p, b) PROVE TrackInv'
    BY <2>1, <2>2, TrackBadge DEF BadgeCall
  <2>3. ASSUME CreateExperienceTransaction(s) PROVE TrackInv'
    <3>1. calls[s] # NoCall
      BY <2>3 DEF CreateExperienceTransaction
    <3> QED
      BY <2>1, <2>3, <3>1, PlayerOfCall, TrackExperience
  <2> QED
    BY <1>4, <2>2, <2>3, TrackExperience DEF Grpc
<1>5. CASE \E s \in Callers : Anyone(s)
  BY <1>5, TrackAnyone
<1>6. CASE \E p \in Players : HandleConnect(p) \/ HandleDisconnect(p) \/ HandleServerSwitch(p)
  BY <1>6, TrackConnection
<1>7. CASE CreateLoginSession \/ SavePlayer \/ SetLoginSessionLogoutTime \/ PlayerLogout
  BY <1>7, TrackHandler
<1>8. ASSUME NEW i \in 1 .. Len(grants), HandlePlayerRolesUpdate(i) PROVE TrackInv'
  <2> DEFINE p == grants[i].player
             b == Granted[grants[i].role]
  <2>1. /\ p \in Players /\ b \in Badges /\ Free("consumer") /\ UNCHANGED <<proxies, failed>>
        /\ "consumer" \in Callers
    BY <1>8, AboutRolesUpdate DEF Callers
  <2>2. \/ AddBadge("consumer", p, b) \/ RemoveBadge("consumer", p, b)
        \/ UNCHANGED <<store, calls, crossed>>
    BY <1>8 DEF HandlePlayerRolesUpdate
  <2> HIDE DEF p, b
  <2> QED
    BY <1>1, <2>1, <2>2, TrackBadge
<1>9. CASE Crash \/ \E i \in 1 .. Len(grants) : Panic(i) \/ DropGrant(i)
  <2>1. UNCHANGED <<proxies, doc, open>> /\ failed \subseteq failed'
    BY <1>9 DEF Crash, Fail, Panic, DropGrant
  <2>2. \/ UNCHANGED calls
        \/ /\ calls' = [s \in Callers |-> NoCall]
           /\ \A p \in Players : UnderWay(p) # {} => p \in failed'
    BY <1>9 DEF Crash, Fail, Panic, DropGrant
  <2> QED
    BY <2>1, <2>2, TrackTrouble
<1> QED
  BY <1>2, <1>3, <1>4, <1>5, <1>6, <1>7, <1>8, <1>9, TrackDrop DEF Next, Consumer

LEMMA TrackAlways == Spec => [](TypeInv /\ TrackInv)
  BY TypeInit, TypeNext, TrackInit, TrackNext, PTL DEF Spec

\* When all that the proxies have said about a player is handled and no call about him
\* has failed, the tracker has him where he is, with one login session when he is on the
\* network and none otherwise (TrackedWhereHeIs of McPlayer).
THEOREM TrackerCorrect == Spec => []TrackedWhereHeIs
<1>1. TypeInv /\ TrackInv => TrackedWhereHeIs
  <2> SUFFICES ASSUME TypeInv, TrackInv, NEW p \in Players, Settled(p), p \notin failed
               PROVE  net[p] = Server(p) /\ open[p] = IF net[p] = "off" THEN 0 ELSE 1
    BY DEF TrackedWhereHeIs
  <2>1. Tracked(p) /\ Said(p) = {}
    BY DEF TrackInv, Settled, Said
  <2>2. Stage(p) \notin Handling
    BY DEF Settled, Stage, Handling
  <2>3. Known(p) = Server(p) /\ SessionsOf(p) = IF Server(p) = "off" THEN 0 ELSE 1
    BY <2>2 DEF Known, SessionsOf, Handling
  <2> QED
    BY <2>1, <2>3 DEF Tracked, Trail
<1> QED
  BY <1>1, TrackAlways, PTL

\* Whoever is shown on a server has a login session, but for a logout half way
\* (OnlineHasSession of McPlayer).
THEOREM SessionCorrect == Spec => []OnlineHasSession
<1>1. TypeInv /\ TrackInv => OnlineHasSession
  <2> SUFFICES ASSUME TypeInv, TrackInv, NEW p \in Players, p \notin failed, GetPlayerFails(p)
               PROVE  calls["consumer"] = [player |-> p, at |-> "logout"]
    BY DEF OnlineHasSession
  <2>1. Server(p) # "off" /\ open[p] = 0 /\ Tracked(p)
    BY Types DEF GetPlayerFails, HasSession, TrackInv, TypeInv, StoreType
  <2>2. Stage(p) = "logout"
    BY <2>1 DEF Tracked, SessionsOf
  <2>3. calls["consumer"] \in Steps
    BY <2>2, Types, Kinds DEF Stage, TypeInv, Callers
  <2> QED
    BY <2>2, <2>3 DEF Stage, Steps
<1> QED
  BY <1>1, TrackAlways, PTL

-----------------------------------------------------------------------------
(* Roles and the badges that come with them.                               *)

\* The calls that change whether p holds r and have not said so.
ChangesOf(p, r) == {s \in RoleSlots : /\ roleCalls[s].at \in {"insert", "announce"}
                                      /\ roleCalls[s].grant.player = p
                                      /\ roleCalls[s].grant.role = r}

\* There is one at most, and what it is about to say is so.
OneChange(p, r) ==
    /\ \A s, t \in ChangesOf(p, r) : s = t
    /\ \A s \in ChangesOf(p, r) :
          /\ RoleAt(s, "insert") => ~ HoldsRole(p, r) /\ roleCalls[s].grant.change = "ADD"
          /\ RoleAt(s, "announce") => roleCalls[s].grant.change = IF HoldsRole(p, r) THEN "ADD"
                                                                  ELSE "REMOVE"

\* Additions and removals of a role take turns.
Alternates == {<<"ADD", "REMOVE">>, <<"REMOVE", "ADD">>}

\* The change of r announced last: what is not announced yet is the opposite.
Announced(p, r) == IF \E s \in ChangesOf(p, r) : RoleAt(s, "announce")
                   THEN (IF HoldsRole(p, r) THEN "REMOVE" ELSE "ADD")
                   ELSE (IF HoldsRole(p, r) THEN "ADD" ELSE "REMOVE")

\* A step of a slot that changes nothing about r.
LEMMA OtherChange ==
    ASSUME NEW p, NEW r, NEW s \in RoleSlots, OneChange(p, r),
           \A t \in RoleSlots \ {s} : roleCalls'[t] = roleCalls[t],
           s \notin ChangesOf(p, r), s \notin ChangesOf(p, r)',
           HoldsRole(p, r)' <=> HoldsRole(p, r)
    PROVE  OneChange(p, r)' /\ Announced(p, r)' = Announced(p, r)
<1>1. ChangesOf(p, r)' = ChangesOf(p, r) /\ \A t \in ChangesOf(p, r) : roleCalls'[t] = roleCalls[t]
  BY DEF ChangesOf
<1> QED
  BY <1>1 DEF OneChange, Announced, RoleAt

\* A step that lets the only change end, before it is written or when it is announced.
LEMMA ChangeEnds ==
    ASSUME NEW p, NEW r, NEW s \in ChangesOf(p, r), OneChange(p, r),
           \A t \in RoleSlots \ {s} : roleCalls'[t] = roleCalls[t],
           roleCalls'[s] = NoRoleCall, UNCHANGED roles
    PROVE  /\ OneChange(p, r)'
           /\ Announced(p, r)' = IF HoldsRole(p, r) THEN "ADD" ELSE "REMOVE"
           /\ RoleAt(s, "insert") => Announced(p, r)' = Announced(p, r)
           /\ RoleAt(s, "announce") => /\ <<Announced(p, r), Announced(p, r)'>> \in Alternates
                                       /\ Announced(p, r)' = roleCalls[s].grant.change
<1>1. ChangesOf(p, r) = {s}
  BY DEF OneChange
<1>2. ChangesOf(p, r)' = {}
  <2>1. s \notin ChangesOf(p, r)'
    BY DEF ChangesOf, NoRoleCall
  <2>2. \A t \in RoleSlots \ {s} : t \in ChangesOf(p, r)' <=> t \in ChangesOf(p, r)
    BY DEF ChangesOf
  <2> QED
    BY <1>1, <2>1, <2>2 DEF ChangesOf
<1>3. HoldsRole(p, r)' <=> HoldsRole(p, r)
  BY DEF HoldsRole
<1> QED
  BY <1>1, <1>2, <1>3 DEF OneChange, Announced, RoleAt, Alternates

\* A step of slot s that changes whether p holds r, or is going to, is one of no other
\* about it.
LEMMA ChangeStarts ==
    ASSUME NEW p, NEW r, NEW s \in RoleSlots, ChangesOf(p, r) \subseteq {s},
           \A t \in RoleSlots \ {s} : roleCalls'[t] = roleCalls[t],
           s \in ChangesOf(p, r)'
    PROVE  ChangesOf(p, r)' = {s}
  BY DEF ChangesOf

LEMMA RolesStep ==
    ASSUME TypeInv, RolesNext, NEW p \in Players, NEW r \in Roles \ {DefaultRole},
           OneChange(p, r), <<p, r>> \notin tangled'
    PROVE  /\ OneChange(p, r)'
           /\ \/ UNCHANGED grants /\ Announced(p, r)' = Announced(p, r)
              \/ \E g \in Grants :
                    /\ grants' = Append(grants, g)
                    /\ IF g.player = p /\ g.role = r
                       THEN Announced(p, r)' = g.change /\ <<Announced(p, r), g.change>> \in Alternates
                       ELSE Announced(p, r)' = Announced(p, r)
<1>1. PICK s \in RoleSlots :
        \/ \E q \in Players, x \in Roles : AddRoleToPlayer(s, q, x) \/ RemoveRoleFromPlayer(s, q, x)
        \/ \E q \in Players : GetPlayerRoles(s, q)
        \/ InsertWithRole(s) \/ InsertDefault(s) \/ AnnounceRole(s) \/ RoleCallFails(s)
  BY DEF RolesNext
<1>2. /\ RolesType
      /\ \A held \in SUBSET Roles : held # None
  BY Types, RolesAssumption DEF TypeInv
<1>3. /\ roleCalls[s] # NoRoleCall => roleCalls[s] \in RoleCalls /\ roleCalls[s].grant \in Grants
      /\ \A x \in {"insert", "announce", "default"} : RoleAt(s, x) => roleCalls[s] # NoRoleCall
  BY <1>2 DEF RoleCalls, NoRoleCall, RoleAt, RolesType
<1>4. ASSUME NEW call, roleCalls' = [roleCalls EXCEPT ![s] = call]
      PROVE  roleCalls'[s] = call /\ \A t \in RoleSlots \ {s} : roleCalls'[t] = roleCalls[t]
  BY <1>2, <1>4 DEF RolesType
<1>5. ASSUME NEW q \in Players, NEW x \in Roles, AddRoleToPlayer(s, q, x) \/ RemoveRoleFromPlayer(s, q, x)
      PROVE  /\ OneChange(p, r)' /\ Announced(p, r)' = Announced(p, r) /\ UNCHANGED grants
  <2>1. PICK change \in Changes, at \in {"insert", "announce"} :
          /\ Goes(s, RoleCall(q, x, change, at)) /\ Tangles(q, x) /\ UNCHANGED grants
          /\ change = "ADD" <=> ~ HoldsRole(q, x)
          /\ at = "insert" => roles[q] = None /\ UNCHANGED roles
          /\ at = "announce" => /\ roles[q] # None
                                /\ roles' = [roles EXCEPT ![q] = IF change = "ADD" THEN @ \cup {x}
                                                                 ELSE @ \ {x}]
    BY <1>2, <1>5 DEF AddRoleToPlayer, RemoveRoleFromPlayer, Changes, HoldsRole, RolesType
  <2>2. /\ roleCalls[s] = NoRoleCall /\ s \notin ChangesOf(p, r)
        /\ roleCalls'[s] = RoleCall(q, x, change, at)
        /\ \A t \in RoleSlots \ {s} : roleCalls'[t] = roleCalls[t]
    <3>1. /\ roleCalls[s] = NoRoleCall
          /\ roleCalls' = [roleCalls EXCEPT ![s] = RoleCall(q, x, change, at)]
      BY <2>1 DEF Goes
    <3>2. s \notin ChangesOf(p, r)
      BY <3>1 DEF ChangesOf, NoRoleCall
    <3> QED
      BY <1>4, <3>1, <3>2
  <2>3. CASE q = p /\ x = r
    <3>1. ChangesOf(p, r) = {}
      BY <2>1, <2>3 DEF Tangles, Changing, ChangesOf
    <3>2. s \in ChangesOf(p, r)'
      BY <2>2, <2>3 DEF ChangesOf, RoleCall, Grant
    <3>3. ChangesOf(p, r)' = {s}
      BY <2>2, <3>1, <3>2, ChangeStarts
    <3>4. RoleAt(s, at)' /\ roleCalls'[s].at = at /\ roleCalls'[s].grant.change = change
      BY <2>2 DEF RoleAt, RoleCall, Grant
    <3>5. CASE at = "insert"
      <4>1. ~ HoldsRole(p, r) /\ ~ HoldsRole(p, r)' /\ change = "ADD"
        BY <2>1, <2>3, <3>5 DEF HoldsRole
      <4> QED
        BY <2>1, <3>1, <3>3, <3>4, <3>5, <4>1 DEF OneChange, Announced, RoleAt
    <3>6. CASE at = "announce"
      <4>1. HoldsRole(p, r) <=> change = "REMOVE"
        BY <2>1, <2>3 DEF Changes
      <4>2. HoldsRole(p, r)' <=> change = "ADD"
        <5>1. /\ roles[p] \in SUBSET Roles
              /\ roles'[p] = IF change = "ADD" THEN roles[p] \cup {r} ELSE roles[p] \ {r}
          BY <1>2, <2>1, <2>3, <3>6 DEF RolesType
        <5>2. roles'[p] \in SUBSET Roles
          BY <5>1
        <5> QED
          BY <1>2, <5>1, <5>2 DEF HoldsRole
      <4> QED
        BY <2>1, <3>1, <3>3, <3>4, <3>6, <4>1, <4>2 DEF OneChange, Announced, RoleAt, Changes
    <3> QED
      BY <3>5, <3>6
  <2>4. CASE ~ (q = p /\ x = r)
    <3>1. s \notin ChangesOf(p, r)'
      BY <2>2, <2>4 DEF ChangesOf, RoleCall, Grant
    <3>2. HoldsRole(p, r)' <=> HoldsRole(p, r)
      <4>1. CASE at = "insert" \/ q # p
        BY <1>2, <2>1, <4>1 DEF HoldsRole, RolesType
      <4>2. CASE at = "announce" /\ q = p /\ x # r
        <5>1. /\ roles[p] \in SUBSET Roles
              /\ roles'[p] = IF change = "ADD" THEN roles[p] \cup {x} ELSE roles[p] \ {x}
          BY <1>2, <2>1, <4>2 DEF RolesType
        <5>2. roles'[p] \in SUBSET Roles
          BY <5>1
        <5> QED
          BY <1>2, <4>2, <5>1, <5>2 DEF HoldsRole
      <4> QED
        BY <2>4, <4>1, <4>2
    <3> QED
      BY <2>1, <2>2, <3>1, <3>2, OtherChange
  <2> QED
    BY <2>3, <2>4
<1>6. CASE \E q \in Players : GetPlayerRoles(s, q)
  <2>1. /\ s \notin ChangesOf(p, r) /\ s \notin ChangesOf(p, r)'
        /\ \A t \in RoleSlots \ {s} : roleCalls'[t] = roleCalls[t]
    BY <1>4, <1>6 DEF GetPlayerRoles, Goes, RoleCall, ChangesOf, NoRoleCall
  <2>2. UNCHANGED <<roles, grants>>
    BY <1>6 DEF GetPlayerRoles
  <2> QED
    BY <2>1, <2>2, OtherChange DEF HoldsRole
<1>7. CASE InsertDefault(s)
  <2> DEFINE q == roleCalls[s].grant.player
  <2>1. /\ s \notin ChangesOf(p, r) /\ s \notin ChangesOf(p, r)' /\ UNCHANGED grants
        /\ \A t \in RoleSlots \ {s} : roleCalls'[t] = roleCalls[t]
    BY <1>4, <1>7 DEF InsertDefault, Ends, RoleAt, ChangesOf, NoRoleCall
  <2>2. HoldsRole(p, r)' <=> HoldsRole(p, r)
    BY <1>2, <1>7 DEF InsertDefault, HoldsRole, RolesType
  <2> QED
    BY <2>1, <2>2, OtherChange
<1>8. CASE InsertWithRole(s)
  <2>1. PICK g \in Grants : g = roleCalls[s].grant /\ roleCalls[s] \in RoleCalls
    BY <1>3, <1>8 DEF InsertWithRole
  <2>2. CASE roles[g.player] = None
    <3>1. /\ roles' = [roles EXCEPT ![g.player] = {DefaultRole, g.role}] /\ UNCHANGED grants
          /\ roleCalls' = [roleCalls EXCEPT ![s] = [roleCalls[s] EXCEPT !.at = "announce"]]
      BY <1>2, <1>8, <2>1, <2>2 DEF InsertWithRole, RolesType
    <3>2. /\ roleCalls'[s].at = "announce" /\ roleCalls'[s].grant = g
          /\ \A t \in RoleSlots \ {s} : roleCalls'[t] = roleCalls[t]
      <4>1. roleCalls'[s] = [roleCalls[s] EXCEPT !.at = "announce"]
        BY <1>4, <3>1
      <4> QED
        BY <1>4, <2>1, <3>1, <4>1 DEF RoleCalls
    <3>3. CASE g.player = p /\ g.role = r
      <4>1. s \in ChangesOf(p, r) /\ s \in ChangesOf(p, r)'
        BY <1>8, <2>1, <3>2, <3>3 DEF InsertWithRole, RoleAt, ChangesOf
      <4>2. ChangesOf(p, r) = {s} /\ ChangesOf(p, r)' = {s}
        BY <3>2, <4>1, ChangeStarts DEF OneChange
      <4>3. ~ HoldsRole(p, r) /\ g.change = "ADD"
        BY <1>8, <2>1, <4>1 DEF OneChange, InsertWithRole
      <4>4. HoldsRole(p, r)'
        <5>1. roles'[p] = {DefaultRole, r} /\ roles'[p] \in SUBSET Roles
          BY <1>2, <3>1, <3>3, RolesAssumption DEF RolesType
        <5> QED
          BY <1>2, <5>1 DEF HoldsRole
      <4>5. ~ RoleAt(s, "announce") /\ RoleAt(s, "announce")'
        BY <1>8, <3>2 DEF InsertWithRole, RoleAt
      <4> QED
        BY <3>1, <3>2, <4>2, <4>3, <4>4, <4>5 DEF OneChange, Announced, RoleAt
    <3>4. CASE ~ (g.player = p /\ g.role = r)
      <4>1. s \notin ChangesOf(p, r) /\ s \notin ChangesOf(p, r)'
        BY <2>1, <3>2, <3>4 DEF ChangesOf
      <4>2. HoldsRole(p, r)' <=> HoldsRole(p, r)
        BY <1>2, <2>1, <2>2, <3>1, <3>4 DEF HoldsRole, RolesType, Grants
      <4> QED
        BY <3>1, <3>2, <4>1, <4>2, OtherChange
    <3> QED
      BY <3>3, <3>4
  <2>3. CASE roles[g.player] # None
    <3>1. /\ UNCHANGED <<roles, grants>> /\ RoleAt(s, "insert") /\ roleCalls'[s] = NoRoleCall
          /\ \A t \in RoleSlots \ {s} : roleCalls'[t] = roleCalls[t]
      BY <1>4, <1>8, <2>1, <2>3 DEF InsertWithRole, Ends
    <3>2. CASE s \in ChangesOf(p, r)
      BY <3>1, <3>2, ChangeEnds
    <3>3. CASE s \notin ChangesOf(p, r)
      <4>1. s \notin ChangesOf(p, r)'
        BY <3>1 DEF ChangesOf, NoRoleCall
      <4> QED
        BY <3>1, <3>3, <4>1, OtherChange DEF HoldsRole
    <3> QED
      BY <3>2, <3>3
  <2> QED
    BY <2>2, <2>3
<1>9. CASE AnnounceRole(s)
  <2>1. PICK g \in Grants : g = roleCalls[s].grant /\ grants' = Append(grants, g)
    BY <1>3, <1>9 DEF AnnounceRole
  <2>2. /\ UNCHANGED roles /\ RoleAt(s, "announce") /\ roleCalls'[s] = NoRoleCall
        /\ \A t \in RoleSlots \ {s} : roleCalls'[t] = roleCalls[t]
    BY <1>4, <1>9 DEF AnnounceRole, Ends
  <2>3. CASE g.player = p /\ g.role = r
    <3>1. s \in ChangesOf(p, r)
      BY <2>1, <2>2, <2>3 DEF ChangesOf, RoleAt
    <3> QED
      BY <2>1, <2>2, <2>3, <3>1, ChangeEnds
  <2>4. CASE ~ (g.player = p /\ g.role = r)
    <3>1. s \notin ChangesOf(p, r) /\ s \notin ChangesOf(p, r)'
      BY <2>1, <2>2, <2>4 DEF ChangesOf, NoRoleCall
    <3> QED
      BY <2>1, <2>2, <2>4, <3>1, OtherChange DEF HoldsRole
  <2> QED
    BY <2>3, <2>4
<1>10. CASE RoleCallFails(s)
  <2>1. /\ UNCHANGED <<roles, grants>> /\ roleCalls'[s] = NoRoleCall /\ roleCalls[s] # NoRoleCall
        /\ \A t \in RoleSlots \ {s} : roleCalls'[t] = roleCalls[t]
    BY <1>4, <1>10 DEF RoleCallFails, Ends
  <2>2. CASE s \in ChangesOf(p, r)
    <3>1. RoleAt(s, "insert")
      BY <1>10, <2>2 DEF RoleCallFails, ChangesOf, RoleAt
    <3> QED
      BY <2>1, <2>2, <3>1, ChangeEnds
  <2>3. CASE s \notin ChangesOf(p, r)
    <3>1. s \notin ChangesOf(p, r)'
      BY <2>1 DEF ChangesOf, NoRoleCall
    <3> QED
      BY <2>1, <2>3, <3>1, OtherChange DEF HoldsRole
  <2> QED
    BY <2>2, <2>3
<1> QED
  BY <1>1, <1>5, <1>6, <1>7, <1>8, <1>9, <1>10

-----------------------------------------------------------------------------

\* The roles that give a badge nobody gives by hand; the default role is left out, for
\* it may come without being announced.
Giving == {r \in Roles \ {DefaultRole} : Granted[r] \notin ByHand \cup {None}}

\* Whether the badge of r is p's, or will be when the consumer has taken another away.
Handled(p, r) ==
    IF Granted[r] \in (IF Stage(p) = "saveBadges" THEN calls["consumer"].badges
                       ELSE PlayerOf(p).badges)
    THEN "ADD" ELSE "REMOVE"

About(p, r) == {i \in 1 .. Len(grants) : grants[i].player = p /\ grants[i].role = r}
ToldChanges == [i \in 1 .. Len(grants) |-> grants[i].change]

\* The unread changes of r lead from what the badge tells to what is announced.
Granting(p, r) ==
    /\ OneChange(p, r)
    /\ p \notin failed /\ <<p, "badges">> \notin crossed =>
           Trail(About(p, r), ToldChanges, Handled(p, r), Announced(p, r), Alternates)

GrantInv == \A p \in Players, r \in Giving : <<p, r>> \notin tangled => Granting(p, r)

\* Steps that read and announce no change of roles, and leave the badges as they are.
LEMMA GrantingStays ==
    ASSUME NEW p \in Players, NEW r \in Giving, Granting(p, r), UNCHANGED rolesVars,
           failed \subseteq failed', crossed \subseteq crossed',
           p \notin failed' /\ <<p, "badges">> \notin crossed' => Handled(p, r)' = Handled(p, r)
    PROVE  Granting(p, r)'
<1>1. UNCHANGED <<About(p, r), ToldChanges, Announced(p, r), OneChange(p, r)>>
  BY DEF About, ToldChanges, Announced, OneChange, ChangesOf, HoldsRole, RoleAt
<1> QED
  BY <1>1 DEF Granting

LEMMA HandledElsewhere ==
    ASSUME NEW p \in Players, NEW q \in Players \ {p}, NEW s \in Callers, OnlyAbout(s, p),
           NEW r \in Giving
    PROVE  Handled(q, r)' = Handled(q, r)
<1>1. PlayerOf(q)' = PlayerOf(q)
  BY DEF OnlyAbout, PlayerOf
<1>2. Stage(q)' = Stage(q)
  BY StageElsewhere
<1>3. Stage(q) = "saveBadges" => calls'["consumer"] = calls["consumer"]
  BY DEF OnlyAbout, Stage, Callers
<1> QED
  BY <1>1, <1>2, <1>3 DEF Handled

LEMMA GrantOthers ==
    ASSUME GrantInv, UNCHANGED rolesVars, NEW p \in Players, NEW s \in Callers, OnlyAbout(s, p),
           \A r \in Giving : p \notin failed' /\ <<p, "badges">> \notin crossed'
                             => Handled(p, r)' = Handled(p, r)
    PROVE  GrantInv'
<1> SUFFICES ASSUME NEW q \in Players, NEW r \in Giving, <<q, r>> \notin tangled' PROVE Granting(q, r)'
  BY DEF GrantInv
<1>1. Granting(q, r) /\ failed \subseteq failed' /\ crossed \subseteq crossed'
  BY DEF GrantInv, OnlyAbout
<1>2. q # p => Handled(q, r)' = Handled(q, r)
  BY HandledElsewhere
<1> QED
  BY <1>1, <1>2, GrantingStays

\* What is written of the active badge, the server and experience leaves the badges as
\* they are.
LEMMA SameBadges ==
    ASSUME StoreType, NEW p \in Players,
           \/ doc'[p] = doc[p]
           \/ /\ Exists(p)
              /\ \/ \E active \in Badges \cup {None} : doc'[p] = [doc[p] EXCEPT !.active = active]
                 \/ \E server \in Places : doc'[p] = [doc[p] EXCEPT !.server = server]
                 \/ \E xp \in Nat : doc'[p] = [doc[p] EXCEPT !.xp = xp]
    PROVE  PlayerOf(p)'.badges = PlayerOf(p).badges
<1>1. CASE doc'[p] = doc[p]
  BY <1>1 DEF PlayerOf
<1>2. CASE Exists(p) /\ doc'[p] # doc[p]
  <2>1. doc[p] \in Documents
    BY <1>2, Documented
  <2>2. doc'[p] \in Documents /\ doc'[p].badges = doc[p].badges
    BY <1>2, <2>1 DEF Documents, Places
  <2> QED
    BY <1>2, <2>2, McPlayerAssumption DEF PlayerOf
<1> QED
  BY <1>1, <1>2

\* A step of slot s that does not change who has the badge of r is no matter, unless
\* the consumer is about to save some.
LEMMA SameHandled ==
    ASSUME NEW p \in Players, NEW s \in Callers, OnlyAbout(s, p), NEW r \in Giving,
           Granted[r] \in PlayerOf(p)'.badges <=> Granted[r] \in PlayerOf(p).badges,
           s = "consumer" => calls[s].at # "saveBadges" /\ calls'[s].at # "saveBadges"
    PROVE  Handled(p, r)' = Handled(p, r)
<1>1. CASE s = "consumer"
  <2>1. Stage(p) # "saveBadges" /\ Stage(p)' # "saveBadges"
    BY <1>1 DEF Stage
  <2> QED
    BY <2>1 DEF Handled
<1>2. CASE s # "consumer"
  <2>1. Stage(p)' = Stage(p)
    BY <1>2, StageElsewhere
  <2>2. calls'["consumer"] = calls["consumer"]
    BY <1>2 DEF OnlyAbout, Callers
  <2> QED
    BY <2>1, <2>2 DEF Handled
<1> QED
  BY <1>1, <1>2

-----------------------------------------------------------------------------

LEMMA GrantBadge ==
    ASSUME TypeInv, GrantInv, NEW s \in Slots, NEW p \in Players, NEW b \in ByHand, BadgeCall(s, p, b)
    PROVE  GrantInv'
<1>1. /\ StoreType /\ CallsType /\ s \in Callers /\ s # "consumer" /\ b \in Badges
      /\ UNCHANGED rolesVars
  BY Types, McPlayerAssumption DEF TypeInv, Callers, BadgeCall
<1>2. OnlyAbout(s, p)
  BY <1>1, AboutBadge DEF BadgeCall
<1>3. ASSUME NEW r \in Giving PROVE Handled(p, r)' = Handled(p, r)
  <2>1. Granted[r] \in PlayerOf(p)'.badges <=> Granted[r] \in PlayerOf(p).badges
    <3>1. CASE UNCHANGED doc
      BY <3>1 DEF PlayerOf
    <3>2. CASE Exists(p) /\ doc' = [doc EXCEPT ![p].badges = @ \cup {b}]
      <4>1. doc[p] \in Documents /\ doc'[p] = [doc[p] EXCEPT !.badges = doc[p].badges \cup {b}]
        BY <1>1, <3>2, Documented DEF StoreType
      <4>2. doc'[p] \in Documents /\ doc'[p].badges = doc[p].badges \cup {b}
        BY <1>1, <4>1 DEF Documents
      <4>3. PlayerOf(p) = doc[p] /\ PlayerOf(p)' = doc'[p]
        BY <3>2, <4>2, McPlayerAssumption DEF PlayerOf
      <4> QED
        BY <4>2, <4>3 DEF Giving
    <3> QED
      BY <3>1, <3>2 DEF BadgeCall, AddBadge, RemoveBadge, SetActiveBadge
  <2> QED
    BY <1>1, <1>2, <2>1, SameHandled
<1> QED
  BY <1>1, <1>2, <1>3, GrantOthers

LEMMA GrantExperience ==
    ASSUME TypeInv, GrantInv, NEW s \in Slots, NEW p \in Players,
           \/ AddExperienceToPlayer(s, p)
           \/ CreateExperienceTransaction(s) /\ p = calls[s].player
    PROVE  GrantInv'
<1>1. StoreType /\ CallsType /\ OnlyAbout(s, p) /\ s \in Callers /\ s # "consumer"
  BY Types, AboutExperience, McPlayerAssumption DEF TypeInv, Callers
<1>2. UNCHANGED rolesVars
  BY DEF AddExperienceToPlayer, CreateExperienceTransaction
<1>3. PlayerOf(p)'.badges = PlayerOf(p).badges
  <2>1. CASE AddExperienceToPlayer(s, p)
    <3>1. doc[p] \in Documents /\ doc'[p] = [doc[p] EXCEPT !.xp = @ + 1] /\ Exists(p)
      BY <1>1, <2>1, Documented DEF StoreType, AddExperienceToPlayer
    <3>2. doc'[p] = [doc[p] EXCEPT !.xp = doc[p].xp + 1] /\ doc[p].xp + 1 \in Nat
      BY <3>1 DEF Documents
    <3> QED
      BY <1>1, <3>1, <3>2, SameBadges
  <2>2. CASE CreateExperienceTransaction(s)
    BY <1>1, <2>2, SameBadges DEF CreateExperienceTransaction
  <2> QED
    BY <2>1, <2>2
<1>4. \A r \in Giving : Handled(p, r)' = Handled(p, r)
  BY <1>1, <1>3, SameHandled
<1> QED
  BY <1>1, <1>2, <1>4, GrantOthers

\* A removal keeps the badges of roles that others have, as they are stored.
LEMMA GrantAnyone ==
    ASSUME TypeInv, BadgeInv, GrantInv, NEW s \in Callers, Anyone(s)
    PROVE  GrantInv'
<1>1. PICK p \in Players :
        /\ StoreType /\ CallsType /\ p = calls[s].player /\ calls[s] # NoCall
        /\ OnlyAbout(s, p) /\ calls' = [calls EXCEPT ![s] = calls'[s]]
  BY Types, AboutAnyone DEF TypeInv
<1>2. UNCHANGED rolesVars
  BY DEF Anyone, CallFails, Fail, ReadBadges, SetActivePlayerBadge, UpdatePlayerBadgesAndActive
<1>3. SUFFICES ASSUME NEW r \in Giving, p \notin failed', <<p, "badges">> \notin crossed'
               PROVE  Handled(p, r)' = Handled(p, r)
  BY <1>1, <1>2, GrantOthers
<1>4. CASE CallFails(s)
  BY <1>1, <1>3, <1>4 DEF CallFails, Fail
<1>5. CASE ReadBadges(s)
  <2>1. /\ calls[s].at = "readBadges" /\ calls'[s].at = "setActive"
        /\ PlayerOf(p)'.badges = PlayerOf(p).badges
    BY <1>1, <1>5, SameBadges DEF ReadBadges, CallsType
  <2> QED
    BY <1>1, <2>1, SameHandled
<1>6. CASE SetActivePlayerBadge(s)
  <2>1. /\ calls[s].active \in Badges \cup {None} /\ Exists(p)
        /\ doc'[p] = [doc[p] EXCEPT !.active = calls[s].active]
    BY <1>1, <1>6, Kinds DEF SetActivePlayerBadge, TypeInv, Present, StoreType, Activations
  <2>2. calls[s].at = "setActive" /\ calls'[s] = NoCall
    BY <1>1, <1>6 DEF SetActivePlayerBadge, CallsType
  <2>3. PlayerOf(p)'.badges = PlayerOf(p).badges
    BY <1>1, <2>1, SameBadges
  <2> QED
    BY <1>1, <2>2, <2>3, SameHandled
<1>7. CASE UpdatePlayerBadgesAndActive(s)
  <2>1. /\ calls[s].active \in Badges \cup {None} /\ calls[s].badges \in SUBSET Badges
        /\ doc'[p] = [doc[p] EXCEPT !.badges = calls[s].badges, !.active = calls[s].active]
        /\ Exists(p) /\ doc[p] \in Documents /\ calls[s].at = "saveBadges" /\ calls'[s] = NoCall
    BY <1>1, <1>7, Kinds, Documented
    DEF UpdatePlayerBadgesAndActive, TypeInv, Present, StoreType, CallsType, Savings
  <2>2. doc'[p] \in Documents /\ doc'[p].badges = calls[s].badges
    BY <2>1 DEF Documents
  <2>3. PlayerOf(p)'.badges = calls[s].badges
    BY <2>2, McPlayerAssumption DEF PlayerOf
  <2>4. CASE s = "consumer"
    <3>1. Stage(p) = "saveBadges" /\ Stage(p)' # "saveBadges"
      BY <1>1, <2>1, <2>4 DEF Stage
    <3> QED
      BY <2>3, <2>4, <3>1 DEF Handled
  <2>5. CASE s # "consumer"
    <3>1. s \in Slots /\ Prepared(p, s) /\ Granted[r] \in Badges \ ByHand
      BY <1>1, <1>3, <2>5, McPlayerAssumption DEF Callers, BadgeInv, Badged, UnderWay, OnlyAbout, Giving
    <3>2. Granted[r] \in PlayerOf(p)'.badges <=> Granted[r] \in PlayerOf(p).badges
      BY <2>1, <2>3, <3>1 DEF Prepared
    <3> QED
      BY <1>1, <2>5, <3>2, SameHandled
  <2> QED
    BY <2>4, <2>5
<1> QED
  BY <1>4, <1>5, <1>6, <1>7 DEF Anyone

LEMMA GrantConnection ==
    ASSUME TypeInv, GrantInv, NEW p \in Players,
           HandleConnect(p) \/ HandleDisconnect(p) \/ HandleServerSwitch(p)
    PROVE  GrantInv'
<1>1. /\ StoreType /\ CallsType /\ "consumer" \in Callers
      /\ OnlyAbout("consumer", p) /\ calls' = [calls EXCEPT !["consumer"] = calls'["consumer"]]
  BY Types, AboutConnection DEF TypeInv, Callers
<1>2. UNCHANGED rolesVars /\ calls["consumer"] = NoCall
  BY DEF HandleConnect, HandleDisconnect, HandleServerSwitch, NextConnection
<1>3. calls'["consumer"].at # "saveBadges"
  BY <1>1, <1>2 DEF HandleConnect, HandleDisconnect, HandleServerSwitch, CallsType
<1>4. PlayerOf(p)'.badges = PlayerOf(p).badges
  <2>1. doc'[p] = doc[p] \/ (Exists(p) /\ doc'[p] = [doc[p] EXCEPT !.server = "server"])
    BY <1>1 DEF HandleConnect, HandleDisconnect, HandleServerSwitch, StoreType
  <2> QED
    BY <1>1, <2>1, SameBadges DEF Places
<1>5. \A r \in Giving : Handled(p, r)' = Handled(p, r)
  BY <1>1, <1>2, <1>3, <1>4, SameHandled
<1> QED
  BY <1>1, <1>2, <1>5, GrantOthers

\* A login writes the badges back that it has read.
LEMMA GrantHandler ==
    ASSUME TypeInv, BadgeInv, GrantInv,
           CreateLoginSession \/ SavePlayer \/ SetLoginSessionLogoutTime \/ PlayerLogout
    PROVE  GrantInv'
<1>1. PICK p \in Players :
        /\ StoreType /\ CallsType /\ "consumer" \in Callers
        /\ p = calls["consumer"].player /\ calls["consumer"] # NoCall
        /\ OnlyAbout("consumer", p) /\ calls' = [calls EXCEPT !["consumer"] = calls'["consumer"]]
  BY Types, AboutHandler DEF TypeInv, Callers
<1>2. UNCHANGED rolesVars /\ calls["consumer"].at \in Handling
  BY DEF CreateLoginSession, SavePlayer, SetLoginSessionLogoutTime, PlayerLogout, Handling
<1>3. SUFFICES ASSUME <<p, "badges">> \notin crossed' PROVE PlayerOf(p)'.badges = PlayerOf(p).badges
  <2>1. calls'["consumer"].at # "saveBadges"
    <3>1. CASE CreateLoginSession
      <4>1. calls'["consumer"] = [calls["consumer"] EXCEPT !.at = "save"] /\ calls["consumer"] \in Logins
        BY <1>1, <3>1, Kinds DEF CreateLoginSession, CallsType
      <4> QED
        BY <4>1 DEF Logins
    <3>2. CASE SavePlayer \/ SetLoginSessionLogoutTime \/ PlayerLogout
      BY <1>1, <3>2 DEF SavePlayer, SetLoginSessionLogoutTime, PlayerLogout, CallsType
    <3> QED
      BY <3>1, <3>2
  <2>2. ASSUME NEW r \in Giving, PlayerOf(p)'.badges = PlayerOf(p).badges
        PROVE  Handled(p, r)' = Handled(p, r)
    BY <1>1, <1>2, <2>1, <2>2, SameHandled DEF Handling
  <2> QED
    BY <1>1, <1>2, <1>3, <2>2, GrantOthers
<1>4. CASE SavePlayer
  <2>1. /\ calls["consumer"] \in Logins /\ PlayerOf(p) \in Documents
        /\ calls["consumer"].seen.badges = PlayerOf(p).badges
    <3>1. Prepared(p, "consumer")
      BY <1>1, <1>3 DEF BadgeInv, Badged, UnderWay, OnlyAbout
    <3> QED
      BY <1>1, <1>4, <3>1, Kinds, Documented DEF Prepared, SavePlayer, PlayerOf, Blank, Documents
  <2> DEFINE new == Saved(PlayerOf(p), calls["consumer"].seen)
  <2>2. doc'[p] = new
    BY <1>1, <1>4 DEF SavePlayer, StoreType
  <2>3. new.badges = PlayerOf(p).badges /\ new \in Documents
    BY <2>1 DEF Saved, Documents, Logins
  <2> HIDE DEF new
  <2> QED
    BY <2>2, <2>3, McPlayerAssumption DEF PlayerOf
<1>5. CASE CreateLoginSession \/ SetLoginSessionLogoutTime \/ PlayerLogout
  <2>1. doc'[p] = doc[p] \/ (Exists(p) /\ doc'[p] = [doc[p] EXCEPT !.server = "off"])
    BY <1>1, <1>5 DEF CreateLoginSession, SetLoginSessionLogoutTime, PlayerLogout, StoreType
  <2> QED
    BY <1>1, <2>1, SameBadges DEF Places
<1> QED
  BY <1>4, <1>5

\* The permission service changes a role or announces a change.
LEMMA GrantRoles ==
    ASSUME TypeInv, GrantInv, RolesNext, UNCHANGED <<proxies, store, calls, history>>
    PROVE  GrantInv'
<1> SUFFICES ASSUME NEW p \in Players, NEW r \in Giving, <<p, r>> \notin tangled'
             PROVE  Granting(p, r)'
  BY DEF GrantInv
<1>1. RolesType /\ r \in Roles \ {DefaultRole}
  BY Types DEF TypeInv, Giving
<1>2. tangled \subseteq tangled'
  BY DEF RolesNext, AddRoleToPlayer, RemoveRoleFromPlayer, Tangles, GetPlayerRoles, InsertWithRole,
         InsertDefault, AnnounceRole, RoleCallFails
<1>3. Granting(p, r)
  BY <1>2 DEF GrantInv
<1>4. UNCHANGED Handled(p, r)
  BY DEF Handled, Stage, PlayerOf
<1>5. /\ OneChange(p, r)'
      /\ \/ UNCHANGED grants /\ Announced(p, r)' = Announced(p, r)
         \/ \E g \in Grants :
               /\ grants' = Append(grants, g)
               /\ IF g.player = p /\ g.role = r
                  THEN Announced(p, r)' = g.change /\ <<Announced(p, r), g.change>> \in Alternates
                  ELSE Announced(p, r)' = Announced(p, r)
  BY <1>1, <1>3, RolesStep DEF Granting
<1> SUFFICES ASSUME Trail(About(p, r), ToldChanges, Handled(p, r), Announced(p, r), Alternates)
             PROVE  Trail(About(p, r)', ToldChanges', Handled(p, r), Announced(p, r)', Alternates)
  BY <1>3, <1>4, <1>5 DEF Granting
<1>6. CASE UNCHANGED grants /\ Announced(p, r)' = Announced(p, r)
  BY <1>6 DEF About, ToldChanges
<1>7. ASSUME NEW g \in Grants, grants' = Append(grants, g),
             IF g.player = p /\ g.role = r
             THEN Announced(p, r)' = g.change /\ <<Announced(p, r), g.change>> \in Alternates
             ELSE Announced(p, r)' = Announced(p, r)
      PROVE  Trail(About(p, r)', ToldChanges', Handled(p, r), Announced(p, r)', Alternates)
  <2>1. PICK n \in Nat : n = Len(grants)
    BY <1>1 DEF RolesType
  <2>2. /\ Len(grants') = n + 1 /\ grants'[n + 1] = g
        /\ \A i \in 1 .. n : grants'[i] = grants[i]
    BY <1>1, <1>7, <2>1 DEF RolesType
  <2>3. ToldChanges'[n + 1] = g.change /\ \A i \in 1 .. n : ToldChanges'[i] = ToldChanges[i]
    BY <2>1, <2>2 DEF ToldChanges
  <2>4. CASE g.player = p /\ g.role = r
    <3>1. About(p, r)' = About(p, r) \cup {n + 1} /\ About(p, r) \subseteq 1 .. n
      BY <2>1, <2>2, <2>4 DEF About
    <3>2. \A i \in About(p, r) : ToldChanges'[i] = ToldChanges[i]
      BY <2>3, <3>1
    <3> QED
      BY <1>7, <2>3, <2>4, <3>1, <3>2, TrailAppend
  <2>5. CASE ~ (g.player = p /\ g.role = r)
    <3>1. About(p, r)' = About(p, r) /\ About(p, r) \subseteq 1 .. n
      BY <2>1, <2>2, <2>5 DEF About
    <3>2. \A i \in About(p, r) : ToldChanges'[i] = ToldChanges[i]
      BY <2>3, <3>1
    <3> QED
      BY <1>7, <2>5, <3>1, <3>2, TrailSame
  <2> QED
    BY <2>4, <2>5
<1> QED
  BY <1>5, <1>6, <1>7

\* The first news is taken from anywhere in the list.
LEMMA TrailFirst ==
    ASSUME NEW n \in Nat, NEW A \in SUBSET (1 .. n), NEW v, NEW from, NEW to, NEW R,
           Trail(A, v, from, to, R), NEW m \in A, \A k \in A : m <= k,
           NEW w, NEW B \in SUBSET (1 .. n - 1),
           \A i \in 1 .. n - 1 : i \in B <=> (IF i < m THEN i ELSE i + 1) \in A,
           \A i \in B : w[i] = v[IF i < m THEN i ELSE i + 1]
    PROVE  Trail(B, w, v[m], to, R)
<1>1. PICK start : start = v[m]
  OBVIOUS
<1>2. m \in 1 .. n
  OBVIOUS
<1>3. Trail(B, w, start, to, R)
  BY <1>1, <1>2, TrailTake
<1> QED
  BY <1>1, <1>3

\* A change is read: if it is of r, it is the first of those, or changes of r crossed.
LEMMA TrailGrant ==
    ASSUME RolesType, NEW i \in 1 .. Len(grants), NEW inVain \in BOOLEAN, Read(i, inVain),
           NEW p, NEW r, <<p, r>> \notin tangled',
           NEW from, NEW to, Trail(About(p, r), ToldChanges, from, to, Alternates)
    PROVE  IF grants[i].player = p /\ grants[i].role = r
           THEN ~ inVain /\ Trail(About(p, r)', ToldChanges', grants[i].change, to, Alternates)
           ELSE Trail(About(p, r)', ToldChanges', from, to, Alternates)
<1>1. PICK n \in Nat : n = Len(grants) /\ i \in 1 .. n
  BY DEF RolesType
<1>2. /\ Len(grants') = n - 1
      /\ \A k \in 1 .. n - 1 : grants'[k] = grants[IF k < i THEN k ELSE k + 1]
  <2>1. grants' = Without(grants, i)
    BY DEF Read, Without
  <2> QED
    BY <1>1, <2>1, TakenOut DEF RolesType
<1>3. /\ About(p, r) \in SUBSET (1 .. n) /\ About(p, r)' \in SUBSET (1 .. n - 1)
      /\ \A k \in 1 .. n - 1 : k \in About(p, r)' <=> (IF k < i THEN k ELSE k + 1) \in About(p, r)
  BY <1>1, <1>2 DEF About
<1>4. \A k \in About(p, r)' : ToldChanges'[k] = ToldChanges[IF k < i THEN k ELSE k + 1]
  BY <1>1, <1>2, <1>3 DEF ToldChanges
<1>5. CASE grants[i].player = p /\ grants[i].role = r
  <2>1. ~ inVain /\ \A k \in 1 .. i - 1 : ~ (grants[k].player = p /\ grants[k].role = r)
    BY <1>5 DEF Read
  <2>2. i \in About(p, r) /\ \A k \in About(p, r) : i <= k
    BY <1>1, <1>5, <2>1 DEF About
  <2>3. ToldChanges[i] = grants[i].change
    BY <1>1 DEF ToldChanges
  <2>4. Trail(About(p, r)', ToldChanges', ToldChanges[i], to, Alternates)
    BY <1>1, <1>3, <1>4, <2>2, TrailFirst
  <2> QED
    BY <1>5, <2>1, <2>3, <2>4
<1>6. CASE ~ (grants[i].player = p /\ grants[i].role = r)
  <2>1. i \notin About(p, r)
    BY <1>6 DEF About
  <2>2. Trail(About(p, r)', ToldChanges', from, to, Alternates)
    BY <1>1, <1>3, <1>4, <2>1, TrailTake
  <2> QED
    BY <1>6, <2>2
<1> QED
  BY <1>5, <1>6

\* What is left of a change when it is read: the badge of its role is as it says, that
\* of another is as it was.
LEMMA GrantUpdate ==
    ASSUME TypeInv, GrantInv, NEW i \in 1 .. Len(grants), HandlePlayerRolesUpdate(i)
    PROVE  GrantInv'
<1>1. PICK q \in Players, x \in Roles, change \in Changes :
        /\ q = grants[i].player /\ x = grants[i].role /\ change = grants[i].change
        /\ Granted[x] \in Badges /\ calls["consumer"] = NoCall
        /\ OnlyAbout("consumer", q) /\ calls' = [calls EXCEPT !["consumer"] = calls'["consumer"]]
        /\ UNCHANGED <<roles, roleCalls, failed>>
        /\ RolesType /\ StoreType /\ CallsType /\ "consumer" \in Callers
  <2>1. RolesType /\ StoreType /\ CallsType /\ "consumer" \in Callers
    BY Types DEF TypeInv, Callers
  <2>2. grants[i] \in Grants
    BY <2>1 DEF RolesType
  <2> QED
    BY <2>1, <2>2, AboutRolesUpdate DEF Grants, HandlePlayerRolesUpdate
<1>2. PICK inVain \in BOOLEAN : Read(i, inVain) /\ (inVain <=> change = "ADD" /\ ~ Exists(q))
  BY <1>1 DEF HandlePlayerRolesUpdate
<1>3. \/ change = "ADD" /\ AddBadge("consumer", q, Granted[x])
      \/ change = "REMOVE" /\ RemoveBadge("consumer", q, Granted[x])
      \/ change = "REMOVE" /\ ~ Owns(q, Granted[x]) /\ UNCHANGED <<store, calls, crossed>>
  BY <1>1 DEF HandlePlayerRolesUpdate
<1> SUFFICES ASSUME NEW p \in Players, NEW r \in Giving, <<p, r>> \notin tangled'
             PROVE  Granting(p, r)'
  BY DEF GrantInv
<1>4. Granting(p, r) /\ r \in Roles /\ Granted[r] # None
  BY <1>2 DEF GrantInv, Read, Giving
<1>5. UNCHANGED <<Announced(p, r), OneChange(p, r)>>
  BY <1>1 DEF Announced, OneChange, ChangesOf, HoldsRole, RoleAt
<1>6. SUFFICES ASSUME p \notin failed', <<p, "badges">> \notin crossed'
               PROVE  Trail(About(p, r)', ToldChanges', Handled(p, r)', Announced(p, r), Alternates)
  BY <1>4, <1>5 DEF Granting
<1>7. Trail(About(p, r), ToldChanges, Handled(p, r), Announced(p, r), Alternates)
  BY <1>1, <1>4, <1>6 DEF Granting, OnlyAbout
<1>8. IF q = p /\ x = r
      THEN ~ inVain /\ Trail(About(p, r)', ToldChanges', change, Announced(p, r), Alternates)
      ELSE Trail(About(p, r)', ToldChanges', Handled(p, r), Announced(p, r), Alternates)
  BY <1>1, <1>2, <1>7, TrailGrant
<1>9. CASE p # q
  <2>1. Handled(p, r)' = Handled(p, r)
    BY <1>1, <1>9, HandledElsewhere
  <2> QED
    BY <1>8, <1>9, <2>1
<1>10. CASE p = q
  <2>1. Stage(p) = "idle"
    BY <1>1 DEF Stage
  <2>2. r # x => Granted[r] # Granted[x]
    BY <1>1, <1>4, McPlayerAssumption
  <2>3. CASE change = "ADD" /\ AddBadge("consumer", q, Granted[x])
    <3>1. Stage(p)' # "saveBadges"
      BY <1>1, <1>10, <2>3 DEF AddBadge, CallsType, Stage
    <3>2. ASSUME Exists(p)
          PROVE  Granted[r] \in PlayerOf(p)'.badges <=> r = x \/ Granted[r] \in PlayerOf(p).badges
      <4>1. doc[p] \in Documents /\ PlayerOf(p) = doc[p]
        BY <1>1, <3>2, Documented DEF PlayerOf
      <4>2. CASE Owns(p, Granted[x])
        BY <1>10, <2>3, <4>1, <4>2 DEF AddBadge, PlayerOf, Owns
      <4>3. CASE ~ Owns(p, Granted[x])
        <5>1. doc'[p] = [doc[p] EXCEPT !.badges = doc[p].badges \cup {Granted[x]}]
          BY <1>1, <1>10, <2>3, <3>2, <4>3 DEF AddBadge, StoreType
        <5>2. doc'[p] \in Documents /\ doc'[p].badges = doc[p].badges \cup {Granted[x]}
          BY <1>1, <4>1, <5>1 DEF Documents
        <5>3. PlayerOf(p)'.badges = doc[p].badges \cup {Granted[x]}
          BY <5>2, McPlayerAssumption DEF PlayerOf
        <5> QED
          BY <2>2, <4>1, <5>3
      <4> QED
        BY <4>2, <4>3
    <3>3. ASSUME ~ Exists(p) PROVE PlayerOf(p)' = PlayerOf(p) /\ r # x
      BY <1>2, <1>8, <1>10, <2>3, <3>3 DEF AddBadge, PlayerOf
    <3> QED
      BY <1>8, <1>10, <2>1, <2>3, <3>1, <3>2, <3>3 DEF Handled
  <2>4. CASE change = "REMOVE" /\ RemoveBadge("consumer", q, Granted[x])
    <3>1. /\ Exists(p) /\ UNCHANGED doc
          /\ calls'["consumer"].at = "saveBadges" /\ calls'["consumer"].player = p
          /\ calls'["consumer"].badges = doc[p].badges \ {Granted[x]}
      BY <1>1, <1>10, <2>4 DEF RemoveBadge, CallsType, Owns
    <3>2. Stage(p)' = "saveBadges" /\ PlayerOf(p) = doc[p]
      BY <3>1 DEF Stage, PlayerOf
    <3> QED
      BY <1>8, <1>10, <2>1, <2>2, <2>4, <3>1, <3>2 DEF Handled
  <2>5. CASE change = "REMOVE" /\ ~ Owns(q, Granted[x]) /\ UNCHANGED <<store, calls, crossed>>
    <3>1. Granted[x] \notin PlayerOf(p).badges
      BY <1>10, <2>5 DEF Owns, PlayerOf, Blank
    <3>2. Handled(p, r)' = Handled(p, r)
      BY <2>5 DEF Handled, PlayerOf, Stage
    <3> QED
      BY <1>8, <1>10, <2>1, <2>5, <3>1, <3>2 DEF Handled
  <2> QED
    BY <1>3, <2>3, <2>4, <2>5
<1> QED
  BY <1>9, <1>10

\* A change that the consumer drops, or dies of, is none that gives a badge, or is one
\* that got lost.
LEMMA GrantDropped ==
    ASSUME TypeInv, GrantInv, NEW i \in 1 .. Len(grants), Panic(i) \/ DropGrant(i)
    PROVE  GrantInv'
<1>1. PICK inVain \in BOOLEAN : Read(i, inVain) /\ (~ inVain => Granted[grants[i].role] = None)
  BY DEF Panic, DropGrant
<1>2. /\ UNCHANGED <<roles, roleCalls, doc, crossed>> /\ RolesType /\ failed \subseteq failed'
      /\ UNCHANGED calls \/ (/\ calls' = [s \in Callers |-> NoCall] /\ calls["consumer"] = NoCall)
      /\ "consumer" \in Callers
  BY Types DEF TypeInv, Panic, DropGrant, Callers
<1> SUFFICES ASSUME NEW p \in Players, NEW r \in Giving, <<p, r>> \notin tangled'
             PROVE  Granting(p, r)'
  BY DEF GrantInv
<1>3. Granting(p, r) /\ Granted[r] # None
  BY <1>1 DEF GrantInv, Read, Giving
<1>4. UNCHANGED <<Announced(p, r), OneChange(p, r)>>
  BY <1>2 DEF Announced, OneChange, ChangesOf, HoldsRole, RoleAt
<1>5. UNCHANGED Handled(p, r)
  BY <1>2 DEF Handled, Stage, PlayerOf
<1>6. ASSUME Trail(About(p, r), ToldChanges, Handled(p, r), Announced(p, r), Alternates)
      PROVE  Trail(About(p, r)', ToldChanges', Handled(p, r), Announced(p, r), Alternates)
  BY <1>1, <1>2, <1>3, <1>6, TrailGrant
<1> QED
  BY <1>2, <1>3, <1>4, <1>5, <1>6 DEF Granting

\* Whoever's call is lost counts as failed.
LEMMA GrantTrouble ==
    ASSUME GrantInv, UNCHANGED rolesVars, UNCHANGED doc, failed \subseteq failed',
           crossed \subseteq crossed',
           \/ UNCHANGED calls
           \/ /\ calls' = [s \in Callers |-> NoCall]
              /\ \A p \in Players : UnderWay(p) # {} => p \in failed'
    PROVE  GrantInv'
<1> SUFFICES ASSUME NEW p \in Players, NEW r \in Giving, <<p, r>> \notin tangled'
             PROVE  Granting(p, r)'
  BY DEF GrantInv
<1>1. Granting(p, r)
  BY DEF GrantInv
<1>2. p \notin failed' => Stage(p)' = Stage(p) /\ (Stage(p) = "saveBadges" => UNCHANGED calls)
  BY DEF Stage, UnderWay, Callers
<1>3. p \notin failed' => Handled(p, r)' = Handled(p, r)
  BY <1>2 DEF Handled, PlayerOf
<1> QED
  BY <1>1, <1>3, GrantingStays

LEMMA GrantInit == Init => GrantInv
<1> SUFFICES ASSUME Init, NEW p \in Players, NEW r \in Giving PROVE Granting(p, r)
  BY DEF GrantInv
<1>1. ChangesOf(p, r) = {} /\ ~ HoldsRole(p, r)
  BY DEF Init, RolesInit, ChangesOf, NoRoleCall, HoldsRole
<1>2. About(p, r) = {} /\ PlayerOf(p).badges = {} /\ Stage(p) = "idle"
  BY DEF Init, RolesInit, About, PlayerOf, Blank, Stage, Callers
<1>3. Handled(p, r) = "REMOVE" /\ Announced(p, r) = "REMOVE" /\ OneChange(p, r)
  BY <1>1, <1>2 DEF Handled, Announced, OneChange
<1> QED
  BY <1>2, <1>3 DEF Granting, Trail

LEMMA GrantNext == TypeInv /\ BadgeInv /\ GrantInv /\ [Next]_vars => GrantInv'
<1> SUFFICES ASSUME TypeInv, BadgeInv, GrantInv, [Next]_vars PROVE GrantInv'
  OBVIOUS
<1>1. CASE UNCHANGED vars \/ \E p \in Players : Player(p)
  <2>1. UNCHANGED <<rolesVars, doc, calls, failed, crossed>>
    BY <1>1 DEF vars, Player, Connect, SwitchServer, Disconnect, Moves
  <2> QED
    BY <2>1, GrantTrouble
<1>2. CASE RolesNext /\ UNCHANGED <<proxies, store, calls, history>>
  BY <1>2, GrantRoles
<1>3. ASSUME NEW s \in Slots, Grpc(s) PROVE GrantInv'
  <2>1. s \in Callers /\ CallsType
    BY Types DEF Callers, TypeInv
  <2>2. ASSUME CreateExperienceTransaction(s) PROVE GrantInv'
    <3>1. calls[s] # NoCall
      BY <2>2 DEF CreateExperienceTransaction
    <3> QED
      BY <2>1, <2>2, <3>1, PlayerOfCall, GrantExperience
  <2> QED
    BY <1>3, <2>2, GrantBadge, GrantExperience DEF Grpc
<1>4. CASE \E s \in Callers : Anyone(s)
  BY <1>4, GrantAnyone
<1>5. CASE \E p \in Players : HandleConnect(p) \/ HandleDisconnect(p) \/ HandleServerSwitch(p)
  BY <1>5, GrantConnection
<1>6. CASE CreateLoginSession \/ SavePlayer \/ SetLoginSessionLogoutTime \/ PlayerLogout
  BY <1>6, GrantHandler
<1>7. CASE \E i \in 1 .. Len(grants) : HandlePlayerRolesUpdate(i) \/ Panic(i) \/ DropGrant(i)
  BY <1>7, GrantUpdate, GrantDropped
<1>8. CASE DropConnection \/ Crash
  <2>1. /\ UNCHANGED rolesVars /\ UNCHANGED doc /\ failed \subseteq failed' /\ crossed \subseteq crossed'
        /\ \/ UNCHANGED calls
           \/ /\ calls' = [s \in Callers |-> NoCall]
              /\ \A p \in Players : UnderWay(p) # {} => p \in failed'
    BY <1>8 DEF DropConnection, Crash, Fail
  <2> QED
    BY <2>1, GrantTrouble
<1> QED
  BY <1>1, <1>2, <1>3, <1>4, <1>5, <1>6, <1>7, <1>8 DEF Next, Consumer

\* A badge that comes with a role alone is owned by those who hold the role, when nothing
\* about it is under way and nothing crossed, got lost or failed (BadgesFollowRoles of
\* McPlayer).  Nobody announces the default role, so it must not come with a badge.
THEOREM RoleBadgesCorrect ==
    ASSUME Granted[DefaultRole] = None
    PROVE  Spec => []BadgesFollowRoles
<1>1. TypeInv /\ BadgeInv /\ GrantInv => BadgesFollowRoles
  <2> SUFFICES ASSUME TypeInv, GrantInv, NEW p \in Players, NEW r \in Roles,
                      Granted[r] \notin ByHand \cup {None}, p \notin failed,
                      <<p, r>> \notin tangled, <<p, "badges">> \notin crossed,
                      ~ Changing(p, r), ~ Writing(p, "badges"),
                      \A i \in 1 .. Len(grants) : grants[i].player = p => grants[i].role # r
               PROVE  Owns(p, Granted[r]) <=> HoldsRole(p, r)
    BY DEF BadgesFollowRoles
  <2>1. r \in Giving
    BY DEF Giving
  <2>2. ChangesOf(p, r) = {} /\ About(p, r) = {}
    BY DEF Changing, ChangesOf, About
  <2>3. Stage(p) # "saveBadges"
    BY WritesAre DEF Writing, Stage, UnderWay, Callers
  <2>4. Handled(p, r) = Announced(p, r)
    BY <2>1, <2>2 DEF GrantInv, Granting, Trail
  <2>5. Owns(p, Granted[r]) <=> Granted[r] \in PlayerOf(p).badges
    BY DEF Owns, PlayerOf, Blank
  <2> QED
    BY <2>2, <2>3, <2>4, <2>5 DEF Handled, Announced
<1> QED
  BY <1>1, TypeInit, TypeNext, BadgeInit, BadgeNext, GrantInit, GrantNext, PTL DEF Spec

\* A role is only ever lost by a call that removes it and goes on to say so: no insert
\* replaces what another call has written (RolesKept of McPlayer).
THEOREM RolesAreKept == Spec => RolesKept
<1> DEFINE Kept(p, r) ==
        HoldsRole(p, r) /\ ~ HoldsRole(p, r)'
        => \E s \in RoleSlots : roleCalls'[s] = RoleCall(p, r, "REMOVE", "announce")
<1>1. ASSUME TypeInv, [Next]_vars, NEW p \in Players, NEW r \in Roles PROVE Kept(p, r)
  <2> SUFFICES ASSUME HoldsRole(p, r), ~ HoldsRole(p, r)' PROVE Kept(p, r)
    OBVIOUS
  <2>1. roles[p] \in SUBSET Roles /\ roles[p] # None /\ r \in roles[p] /\ RolesType
    BY <1>1, Types DEF TypeInv, RolesType, HoldsRole
  <2>2. ~ UNCHANGED roles
    BY DEF HoldsRole
  <2>3. RolesNext
    <3>1. CASE \E s \in Slots : Grpc(s)
      BY <2>2, <3>1 DEF Grpc, BadgeCall, AddExperienceToPlayer, CreateExperienceTransaction
    <3>2. CASE Consumer
      BY <2>2, <3>2 DEF Consumer, HandleConnect, HandleDisconnect, HandleServerSwitch, NextConnection,
                        HandlePlayerRolesUpdate, Panic, DropGrant, CreateLoginSession, SavePlayer,
                        SetLoginSessionLogoutTime, PlayerLogout
    <3>3. CASE DropConnection \/ Crash \/ (\E s \in Callers : Anyone(s)) \/ (\E q \in Players : Player(q))
      BY <2>2, <3>3 DEF DropConnection, Crash, Fail, Anyone, ReadBadges, SetActivePlayerBadge,
                        UpdatePlayerBadgesAndActive, CallFails, Player, Connect, SwitchServer,
                        Disconnect, Moves
    <3> QED
      BY <1>1, <2>2, <3>1, <3>2, <3>3 DEF Next, vars
  <2>4. PICK s \in RoleSlots :
            \/ \E q \in Players, x \in Roles : AddRoleToPlayer(s, q, x) \/ RemoveRoleFromPlayer(s, q, x)
            \/ \E q \in Players : GetPlayerRoles(s, q)
            \/ InsertWithRole(s) \/ InsertDefault(s) \/ AnnounceRole(s) \/ RoleCallFails(s)
    BY <2>3 DEF RolesNext
  <2>5. ASSUME NEW q \in Players, NEW x \in Roles, AddRoleToPlayer(s, q, x) PROVE FALSE
    <3>1. roles'[p] = roles[p] \/ roles'[p] = roles[p] \cup {x}
      BY <2>1, <2>5 DEF AddRoleToPlayer, RolesType
    <3>2. roles[p] \cup {x} \in SUBSET Roles
      BY <2>1
    <3> QED
      BY <2>1, <3>1, <3>2, RolesAssumption DEF HoldsRole
  <2>6. CASE InsertWithRole(s) \/ InsertDefault(s)
    <3>1. roles'[p] = roles[p]
      BY <2>1, <2>6 DEF InsertWithRole, InsertDefault, RolesType
    <3> QED
      BY <3>1 DEF HoldsRole
  <2>7. ASSUME NEW q \in Players, NEW x \in Roles, RemoveRoleFromPlayer(s, q, x)
        PROVE  roleCalls'[s] = RoleCall(p, r, "REMOVE", "announce")
    <3>1. roles' = [roles EXCEPT ![q] = @ \ {x}] /\ roleCalls'[s] = RoleCall(q, x, "REMOVE", "announce")
      BY <2>1, <2>7 DEF RemoveRoleFromPlayer, Goes, RolesType
    <3>2. q = p /\ x = r
      <4>1. roles'[p] = roles[p] \/ (q = p /\ roles'[p] = roles[p] \ {x})
        BY <2>1, <3>1 DEF RolesType
      <4>2. roles[p] \ {x} \in SUBSET Roles
        BY <2>1
      <4> QED
        BY <2>1, <4>1, <4>2, RolesAssumption DEF HoldsRole
    <3> QED
      BY <3>1, <3>2
  <2>8. CASE (\E q \in Players : GetPlayerRoles(s, q)) \/ AnnounceRole(s) \/ RoleCallFails(s)
    BY <2>2, <2>8 DEF GetPlayerRoles, AnnounceRole, RoleCallFails
  <2> QED
    BY <2>4, <2>5, <2>6, <2>7, <2>8
<1>2. TypeInv /\ [Next]_vars => [\A p \in Players, r \in Roles : Kept(p, r)]_vars
  BY <1>1
<1> QED
  BY <1>2, TypeInit, TypeNext, PTL DEF Spec, RolesKept

=============================================================================
