--------------------------- MODULE RoleCacheProofs ---------------------------
(* Theorems about roles and the cache of message-handler, for any roles,     *)
(* changes, calls under way, restarts and unread announcements.              *)
EXTENDS RoleCache, FiniteSetTheorems, SequenceTheorems, WellFoundedInduction, TLAPS

-----------------------------------------------------------------------------
(* Type correctness.                                                       *)

Contents == SUBSET Settings
Messages == [role : Roles, content : Contents]
Replacing == [role : Roles, at : {"replace"}, change : Changes, content : Contents, alone : BOOLEAN]
Announcements == [role : Roles, at : {"announce"}, content : Contents]

\* A slot holds no call, one that is to replace a role or one that is to announce it.
LEMMA Kinds ==
    ASSUME TypeOK, NEW s \in Slots
    PROVE  \/ Free(s) /\ ~ At(s, "replace") /\ ~ At(s, "announce")
           \/ ~ Free(s) /\ At(s, "replace") /\ ~ At(s, "announce") /\ calls[s] \in Replacing
           \/ ~ Free(s) /\ At(s, "announce") /\ ~ At(s, "replace") /\ calls[s] \in Announcements
BY DEF TypeOK, Free, At, NoCall, Replacing, Announcements, Contents

LEMMA ChangedType ==
    ASSUME NEW content \in Contents, NEW change \in Changes
    PROVE  Changed(content, change) \in Contents
BY RoleCacheAssumption DEF Changed, Contents, Settings

LEMMA TypeWrite ==
    ASSUME TypeOK, NEW s \in Slots, NEW r \in Roles, NEW content \in Contents,
           Write(s, r, content)
    PROVE  TypeOK'
<1>1. role' \in [Roles -> {None} \cup Contents]
  BY DEF TypeOK, Write, Contents
<1>2. calls' \in [Slots -> {NoCall} \cup Replacing \cup Announcements]
  <2>1. [role |-> r, content |-> content, at |-> "announce"] \in Announcements
    BY DEF Announcements
  <2>2. ASSUME NEW t \in Slots, t \in About(r), At(t, "replace")
        PROVE  [calls[t] EXCEPT !.alone = FALSE] \in Replacing
    BY <2>2, Kinds DEF Replacing
  <2>3. ASSUME NEW t \in Slots
        PROVE  calls[t] \in {NoCall} \cup Replacing \cup Announcements
    BY Kinds DEF Free
  <2> QED
    BY <2>1, <2>2, <2>3 DEF Write
<1> QED
  BY <1>1, <1>2 DEF TypeOK, Write, Contents, Replacing, Announcements

LEMMA TypeCalls ==
    ASSUME TypeOK, NEW s \in Slots,
           \/ \E change \in Changes : UpdateRole(s, change)
           \/ RoleUpdate(s) \/ CallFails(s)
    PROVE  TypeOK'
<1>1. ASSUME NEW change \in Changes, UpdateRole(s, change) PROVE TypeOK'
  <2>1. change.role \in Roles /\ role[change.role] \in Contents
    BY <1>1, RoleCacheAssumption DEF TypeOK, UpdateRole, RoleExists, Contents
  <2>2. Changed(role[change.role], change) \in Contents
    BY <2>1, ChangedType
  <2> QED
    BY <1>1, <2>1, <2>2 DEF TypeOK, UpdateRole, Contents
<1>2. CASE RoleUpdate(s)
  <2>1. calls[s] \in Announcements
    BY <1>2, Kinds DEF RoleUpdate
  <2>2. Message(calls[s].role, calls[s].content) \in Messages
    BY <2>1 DEF Message, Messages, Announcements
  <2> QED
    BY <1>2, <2>2 DEF TypeOK, RoleUpdate, Return, Messages, Contents
<1>3. CASE CallFails(s)
  <2>1. calls[s].role \in Roles
    BY <1>3, Kinds DEF CallFails, Replacing, Announcements
  <2> QED
    BY <1>3, <2>1 DEF TypeOK, CallFails, Return
<1> QED
  BY <1>1, <1>2, <1>3

-----------------------------------------------------------------------------
(* The topic.                                                              *)

\* What is left of the topic without message i: those before i keep their place,
\* those after it move up.
Without(i) == SubSeq(unread, 1, i - 1) \o SubSeq(unread, i + 1, Len(unread))

LEMMA WithoutOne ==
    ASSUME unread \in Seq(Messages), NEW i \in 1 .. Len(unread)
    PROVE  /\ Without(i) \in Seq(Messages) /\ Len(Without(i)) = Len(unread) - 1
           /\ \A k \in 1 .. Len(unread) - 1 :
                 Without(i)[k] = unread[IF k < i THEN k ELSE k + 1]
<1> DEFINE before == SubSeq(unread, 1, i - 1)
           after == SubSeq(unread, i + 1, Len(unread))
<1>1. /\ before \in Seq(Messages) /\ Len(before) = i - 1
      /\ \A k \in 1 .. i - 1 : before[k] = unread[k]
  <2>1. \A k \in 1 .. i - 1 : unread[k] \in Messages
    OBVIOUS
  <2> QED
    BY <2>1, SubSeqProperties
<1>2. /\ after \in Seq(Messages) /\ Len(after) = Len(unread) - i
      /\ \A k \in 1 .. Len(unread) - i : after[k] = unread[i + k]
  <2>1. \A k \in i + 1 .. Len(unread) : unread[k] \in Messages
    OBVIOUS
  <2> QED
    BY <2>1, SubSeqProperties
<1>3. /\ before \o after \in Seq(Messages) /\ Len(before \o after) = Len(before) + Len(after)
      /\ \A k \in 1 .. Len(before) + Len(after) :
            (before \o after)[k] = IF k <= Len(before) THEN before[k] ELSE after[k - Len(before)]
  <2> HIDE DEF before, after
  <2> QED
    BY <1>1, <1>2, ConcatProperties
<1>5. Without(i) = before \o after
  BY DEF Without
<1> HIDE DEF before, after
<1>4. Without(i) \in Seq(Messages) /\ Len(Without(i)) = Len(unread) - 1
  BY <1>1, <1>2, <1>3, <1>5, SMTT(60)
<1>6. ASSUME NEW k \in 1 .. Len(unread) - 1
      PROVE  Without(i)[k] = unread[IF k < i THEN k ELSE k + 1]
  <2>1. CASE k < i
    BY <1>1, <1>2, <1>3, <1>5, <2>1
  <2>2. CASE ~ k < i
    <3>1. /\ k - Len(before) \in 1 .. Len(unread) - i
          /\ Without(i)[k] = after[k - Len(before)]
      BY <1>1, <1>2, <1>3, <1>5, <2>2
    <3> QED
      BY <1>1, <1>2, <2>2, <3>1
  <2> QED
    BY <2>1, <2>2
<1> QED
  BY <1>4, <1>6

\* The topic after handleRoleUpdate has taken message i.
LEMMA ReadLeaves ==
    ASSUME TypeOK, NEW i \in 1 .. Len(unread), handleRoleUpdate(i)
    PROVE  /\ unread[i] \in Messages
           /\ unread' = Without(i) /\ unread' \in Seq(Messages) /\ Len(unread') = Len(unread) - 1
           /\ \A k \in 1 .. Len(unread) - 1 : unread'[k] = unread[IF k < i THEN k ELSE k + 1]
<1>1. unread \in Seq(Messages)
  BY DEF TypeOK, Messages, Contents
<1>2. unread' = Without(i)
  BY DEF handleRoleUpdate, Read, Without
<1> QED
  BY <1>1, <1>2, WithoutOne, SMTT(60)

\* The topic after a restart: with message m read again, without the first one, or
\* as it was.
LEMMA RestartLeaves ==
    ASSUME TypeOK, cacheRoles
    PROVE  /\ unread' \in Seq(Messages)
           /\ \/ unread' = unread
              \/ \E m \in last : /\ Len(unread') = Len(unread) + 1 /\ unread'[1] = m
                                 /\ \A k \in 1 .. Len(unread) : unread'[k + 1] = unread[k]
              \/ /\ Len(unread') = Len(unread) - 1
                 /\ \A k \in 1 .. Len(unread) - 1 : unread'[k] = unread[k + 1]
<1>1. unread \in Seq(Messages) /\ last \subseteq Messages
  BY DEF TypeOK, Messages, Contents
<1>2. ASSUME NEW m \in last, unread' = <<m>> \o unread
      PROVE  /\ unread' \in Seq(Messages) /\ Len(unread') = Len(unread) + 1 /\ unread'[1] = m
             /\ \A k \in 1 .. Len(unread) : unread'[k + 1] = unread[k]
  <2>1. <<m>> \in Seq(Messages) /\ Len(<<m>>) = 1 /\ <<m>>[1] = m
    BY <1>1
  <2> QED
    BY <1>1, <1>2, <2>1, ConcatProperties
<1>3. ASSUME unread # <<>>, unread' = Tail(unread)
      PROVE  /\ unread' \in Seq(Messages) /\ Len(unread') = Len(unread) - 1
             /\ \A k \in 1 .. Len(unread) - 1 : unread'[k] = unread[k + 1]
  BY <1>1, <1>3, HeadTailProperties
<1> QED
  BY <1>1, <1>2, <1>3 DEF cacheRoles

LEMMA TypeHandler ==
    ASSUME TypeOK, cacheRoles \/ \E i \in 1 .. Len(unread) : handleRoleUpdate(i)
    PROVE  TypeOK'
<1>1. ASSUME NEW i \in 1 .. Len(unread), handleRoleUpdate(i) PROVE TypeOK'
  <2>1. unread[i] \in Messages /\ unread' \in Seq(Messages)
    BY <1>1, ReadLeaves
  <2> QED
    BY <1>1, <2>1 DEF TypeOK, handleRoleUpdate, Read, Messages, Contents
<1>2. CASE cacheRoles
  BY <1>2, RestartLeaves DEF TypeOK, cacheRoles, GetAllRoles, Messages, Contents
<1> QED
  BY <1>1, <1>2

\* Every call that writes a role does so in a slot where nothing is announced.
LEMMA Writers ==
    ASSUME TypeOK, NEW s \in Slots,
           ReplaceRole(s) \/ \E r \in Roles, content \in SUBSET Settings : CreateRole(s, r, content)
    PROVE  \E r \in Roles, content \in Contents : ~ At(s, "announce") /\ Write(s, r, content)
<1>1. CASE ReplaceRole(s)
  BY <1>1, Kinds DEF ReplaceRole, Replacing
<1>2. CASE \E r \in Roles, content \in SUBSET Settings : CreateRole(s, r, content)
  BY <1>2, Kinds DEF CreateRole, Contents
<1> QED
  BY <1>1, <1>2

\* The roles, the calls under way, the topic and the cache are well typed in every
\* reachable state.
THEOREM TypeCorrect == Spec => []TypeOK
<1>1. Init => TypeOK
  BY RoleCacheAssumption DEF Init, TypeOK, Settings
<1>2. TypeOK /\ [Next]_vars => TypeOK'
  <2> SUFFICES ASSUME TypeOK, [Next]_vars PROVE TypeOK'
    OBVIOUS
  <2>1. ASSUME NEW s \in Slots,
               ReplaceRole(s) \/ \E r \in Roles, content \in SUBSET Settings : CreateRole(s, r, content)
        PROVE  TypeOK'
    BY <2>1, Writers, TypeWrite
  <2>2. ASSUME NEW s \in Slots,
               \/ \E change \in Changes : UpdateRole(s, change)
               \/ RoleUpdate(s) \/ CallFails(s)
        PROVE  TypeOK'
    BY <2>2, TypeCalls
  <2>3. CASE cacheRoles \/ \E i \in 1 .. Len(unread) : handleRoleUpdate(i)
    BY <2>3, TypeHandler
  <2>4. CASE UNCHANGED vars
    BY <2>4 DEF TypeOK, vars
  <2> QED
    BY <2>1, <2>2, <2>3, <2>4 DEF Next
<1> QED
  BY <1>1, <1>2, PTL DEF Spec

-----------------------------------------------------------------------------
(* What the steps keep.                                                    *)

\* An update that nothing was written beside knows what the role says.
Alone ==
    \A s \in Slots : At(s, "replace") /\ calls[s].alone =>
        /\ RoleExists(calls[s].role)
        /\ calls[s].content = Changed(role[calls[s].role], calls[s].change)

\* One announcement at a time waits about a role that is not tangled, and says what
\* the role says.
OneAnnouncement ==
    \A s \in Slots : At(s, "announce") /\ calls[s].role \notin tangled =>
        /\ calls[s].content = role[calls[s].role]
        /\ \A t \in Slots : At(t, "announce") /\ calls[t].role = calls[s].role => t = s

\* Message i is the last about r that waits to be read.
Latest(r, i) ==
    /\ i \in 1 .. Len(unread) /\ unread[i].role = r
    /\ \A k \in 1 .. Len(unread) : unread[k].role = r => k <= i

\* What is announced last about a role that is not tangled is what the role says:
\* the last message that waits, or else what the handler knows.
NewsOf(r) ==
    /\ \A i \in 1 .. Len(unread) : Latest(r, i) => unread[i].content = role[r]
    /\ (\A i \in 1 .. Len(unread) : unread[i].role # r) => cache[r] = role[r]

News == \A r \in Roles : r \notin tangled /\ ~ Announcing(r) => NewsOf(r)

\* The handler knows what it has read last.
Remembered == \A m \in last : cache[m.role] = m.content

IInv == TypeOK /\ Alone /\ OneAnnouncement /\ News /\ Remembered


\* A write: the role says what its only announcement will say.
LEMMA WriteKeeps ==
    ASSUME IInv, NEW s \in Slots, NEW r \in Roles, NEW content \in Contents,
           ~ At(s, "announce"), Write(s, r, content)
    PROVE  Alone' /\ OneAnnouncement' /\ News' /\ Remembered'
<1>1. /\ calls'[s] = [role |-> r, content |-> content, at |-> "announce"]
      /\ \A t \in Slots \ {s} :
            calls'[t] = IF t \in About(r) /\ At(t, "replace")
                        THEN [calls[t] EXCEPT !.alone = FALSE] ELSE calls[t]
  BY DEF Write
<1>2. role'[r] = content /\ \A q \in Roles \ {r} : role'[q] = role[q]
  BY DEF IInv, TypeOK, Write
<1>3. ASSUME NEW t \in Slots \ {s}, t \in About(r) /\ At(t, "replace")
      PROVE  /\ calls'[t].at = "replace" /\ ~ calls'[t].alone
             /\ \A q \in Roles : t \in About(q)' => t \in About(q)
  BY <1>1, <1>3, Kinds DEF IInv, Replacing, At, About, Free, NoCall
<1>4. ASSUME NEW t \in Slots, At(t, "announce")'
      PROVE  t = s \/ (At(t, "announce") /\ calls'[t] = calls[t])
  BY <1>1, <1>3, <1>4 DEF At
<1>5. Alone'
  <2> SUFFICES ASSUME NEW t \in Slots, At(t, "replace")', calls'[t].alone
               PROVE  /\ RoleExists(calls[t].role)'
                      /\ calls'[t].content = Changed(role'[calls'[t].role], calls'[t].change)
    BY DEF Alone
  <2>1. t # s /\ ~ (t \in About(r) /\ At(t, "replace"))
    BY <1>1, <1>3 DEF At
  <2>2. calls'[t] = calls[t] /\ At(t, "replace") /\ t \notin About(r)
    BY <1>1, <2>1 DEF At
  <2>3. calls[t].role \in Roles \ {r}
    BY <2>2, Kinds DEF IInv, Replacing, About
  <2> QED
    BY <1>2, <2>2, <2>3 DEF IInv, Alone, RoleExists
<1>6. OneAnnouncement'
  <2> SUFFICES ASSUME NEW t \in Slots, At(t, "announce")', calls'[t].role \notin tangled'
               PROVE  /\ calls'[t].content = role'[calls'[t].role]
                      /\ \A u \in Slots : At(u, "announce")' /\ calls'[u].role = calls'[t].role => u = t
    BY DEF OneAnnouncement
  <2>1. ASSUME NEW u \in Slots \ {s}, At(u, "announce")', calls'[u].role = r
        PROVE  r \in tangled'
    BY <1>4, <2>1, Kinds DEF IInv, Write, Announcing, About
  <2>2. tangled \subseteq tangled'
    BY DEF Write
  <2>3. CASE t = s
    BY <1>1, <1>2, <2>1, <2>3
  <2>4. CASE t # s
    <3>1. At(t, "announce") /\ calls'[t] = calls[t] /\ calls[t].role # r
      BY <1>4, <2>1, <2>4
    <3>2. calls[t].role \in Roles \ {r}
      BY <3>1, Kinds DEF IInv, Announcements
    <3> QED
      BY <1>1, <1>2, <1>4, <2>2, <3>1, <3>2 DEF IInv, OneAnnouncement
  <2> QED
    BY <2>3, <2>4
<1>7. News'
  <2> SUFFICES ASSUME NEW q \in Roles, q \notin tangled', ~ Announcing(q)'
               PROVE  NewsOf(q)'
    BY DEF News
  <2>1. q # r
    BY <1>1 DEF Announcing, About, At, Free, NoCall
  <2>2. q \notin tangled /\ ~ Announcing(q)
    <3>1. ASSUME NEW t \in About(q), At(t, "announce") PROVE FALSE
      <4>1. t \in Slots \ {s} /\ calls'[t] = calls[t]
        BY <1>1, <3>1, Kinds DEF IInv, About
      <4> QED
        BY <3>1, <4>1 DEF Announcing, About, At, Free
    <3> QED
      BY <3>1 DEF Write, Announcing
  <2> QED
    BY <1>2, <2>1, <2>2 DEF IInv, News, NewsOf, Latest, Write
<1> QED
  BY <1>5, <1>6, <1>7 DEF IInv, Remembered, Write

\* The read of an update: what it will write is computed from what the role says.
LEMMA UpdateRoleKeeps ==
    ASSUME IInv, NEW s \in Slots, NEW change \in Changes, UpdateRole(s, change)
    PROVE  Alone' /\ OneAnnouncement' /\ News' /\ Remembered'
<1>1. /\ calls'[s].role = change.role /\ calls'[s].at = "replace" /\ calls'[s].change = change
      /\ calls'[s].content = Changed(role[change.role], change)
      /\ \A t \in Slots \ {s} : calls'[t] = calls[t]
      /\ RoleExists(change.role)
      /\ UNCHANGED <<role, unread, last, cache, tangled>>
  BY DEF IInv, TypeOK, UpdateRole
<1>2. \A t \in Slots : At(t, "announce")' <=> At(t, "announce") /\ t # s
  BY <1>1 DEF At
<1>3. ~ At(s, "announce")
  BY Kinds DEF IInv, UpdateRole
<1>4. Alone'
  BY <1>1 DEF IInv, Alone, At, RoleExists
<1>5. OneAnnouncement'
  BY <1>1, <1>2 DEF IInv, OneAnnouncement
<1>6. \A r \in Roles : Announcing(r) => Announcing(r)'
  BY <1>1, <1>2, <1>3 DEF Announcing, About, Free
<1>7. News'
  BY <1>1, <1>6 DEF IInv, News, NewsOf, Latest
<1> QED
  BY <1>1, <1>4, <1>5, <1>7 DEF IInv, Remembered

\* A call is over: what the others know and announce is as before.
LEMMA ReturnKeeps ==
    ASSUME IInv, NEW s \in Slots, Return(s), UNCHANGED role, tangled \subseteq tangled'
    PROVE  /\ Alone' /\ OneAnnouncement'
           /\ \A t \in Slots \ {s} : calls'[t] = calls[t]
           /\ \A t \in Slots : At(t, "announce")' <=> At(t, "announce") /\ t # s
           /\ \A r \in Roles : Announcing(r) /\ ~ (At(s, "announce") /\ calls[s].role = r)
                                   => Announcing(r)'
<1>1. /\ calls'[s] = NoCall /\ \A t \in Slots \ {s} : calls'[t] = calls[t]
  BY DEF IInv, TypeOK, Return
<1>2. \A t \in Slots, at \in {"announce", "replace"} : At(t, at)' <=> At(t, at) /\ t # s
  BY <1>1 DEF At, NoCall
<1>3. Alone'
  BY <1>1, <1>2 DEF IInv, Alone, RoleExists
<1>4. OneAnnouncement'
  BY <1>1, <1>2 DEF IInv, OneAnnouncement
<1>5. ASSUME NEW r \in Roles, Announcing(r), ~ (At(s, "announce") /\ calls[s].role = r)
      PROVE  Announcing(r)'
  <2> PICK t \in About(r) : At(t, "announce")
    BY <1>5 DEF Announcing
  <2>1. t # s /\ t \in Slots
    BY <1>5 DEF About
  <2> QED
    BY <1>1, <1>2, <2>1 DEF Announcing, About, Free
<1> QED
  BY <1>1, <1>2, <1>3, <1>4, <1>5

\* The announcement of a role that is not tangled is the last about it, and says
\* what the role says.
LEMMA RoleUpdateKeeps ==
    ASSUME IInv, NEW s \in Slots, RoleUpdate(s)
    PROVE  Alone' /\ OneAnnouncement' /\ News' /\ Remembered'
<1> DEFINE r == calls[s].role
<1>1. At(s, "announce") /\ UNCHANGED <<role, last, cache, tangled>> /\ Return(s)
  BY DEF RoleUpdate
<1>2. r \in Roles /\ calls[s].content \in Contents
  BY <1>1, Kinds DEF IInv, Announcements
<1>3. unread \in Seq(Messages) /\ Message(r, calls[s].content) \in Messages
  BY <1>2 DEF IInv, TypeOK, Messages, Contents, Message
<1>4. /\ Len(unread') = Len(unread) + 1
      /\ \A i \in 1 .. Len(unread) : unread'[i] = unread[i]
      /\ unread'[Len(unread) + 1].role = r
      /\ unread'[Len(unread) + 1].content = calls[s].content
  BY <1>3, AppendProperties DEF RoleUpdate, Message
<1>5. /\ Alone' /\ OneAnnouncement'
      /\ \A q \in Roles : Announcing(q) /\ q # r => Announcing(q)'
  BY <1>1, <1>2, ReturnKeeps
<1>6. News'
  <2> SUFFICES ASSUME NEW q \in Roles, q \notin tangled, ~ Announcing(q)'
               PROVE  NewsOf(q)'
    BY <1>1 DEF News
  <2>0. Len(unread) \in Nat
    BY <1>3
  <2>1. CASE q = r
    <3>1. calls[s].content = role[r]
      BY <1>1, <2>1 DEF IInv, OneAnnouncement
    <3>2. \A i \in 1 .. Len(unread') : Latest(q, i)' => i = Len(unread')
      BY <2>0, <1>4, <2>1 DEF Latest
    <3> QED
      BY <1>1, <1>4, <2>0, <2>1, <3>1, <3>2 DEF NewsOf
  <2>2. CASE q # r
    <3>1. NewsOf(q)
      BY <1>5, <2>2 DEF IInv, News
    <3>2. \A i \in 1 .. Len(unread') : Latest(q, i)' => i \in 1 .. Len(unread) /\ Latest(q, i)
      BY <1>4, <2>0, <2>2 DEF Latest
    <3>3. (\A i \in 1 .. Len(unread') : unread'[i].role # q) => \A i \in 1 .. Len(unread) : unread[i].role # q
      BY <1>4, <2>0
    <3> QED
      BY <1>1, <1>4, <3>1, <3>2, <3>3 DEF NewsOf
  <2> QED
    BY <2>1, <2>2
<1> QED
  BY <1>1, <1>5, <1>6 DEF IInv, Remembered

\* A call fails: a role that is written and will not be announced is tangled.
LEMMA CallFailsKeeps ==
    ASSUME IInv, NEW s \in Slots, CallFails(s)
    PROVE  Alone' /\ OneAnnouncement' /\ News' /\ Remembered'
<1>1. /\ UNCHANGED <<role, unread, last, cache>> /\ Return(s) /\ tangled \subseteq tangled'
      /\ At(s, "announce") => calls[s].role \in tangled'
  BY DEF CallFails
<1>2. /\ Alone' /\ OneAnnouncement'
      /\ \A r \in Roles : Announcing(r) /\ ~ (At(s, "announce") /\ calls[s].role = r) => Announcing(r)'
  BY <1>1, ReturnKeeps
<1>3. News'
  BY <1>1, <1>2 DEF IInv, News, NewsOf, Latest
<1> QED
  BY <1>1, <1>2, <1>3 DEF IInv, Remembered

\* A message is read: the oldest about its role, unless the role is tangled now.
LEMMA HandleKeeps ==
    ASSUME IInv, NEW i \in 1 .. Len(unread), handleRoleUpdate(i)
    PROVE  Alone' /\ OneAnnouncement' /\ News' /\ Remembered'
<1> DEFINE m == unread[i]
<1>1. /\ UNCHANGED <<role, calls>> /\ last' = {m} /\ tangled \subseteq tangled'
      /\ (\E k \in 1 .. i - 1 : unread[k].role = m.role) => m.role \in tangled'
  BY DEF handleRoleUpdate, Read
<1>2. /\ m \in Messages
      /\ Len(unread') = Len(unread) - 1
      /\ \A k \in 1 .. Len(unread) - 1 : unread'[k] = unread[IF k < i THEN k ELSE k + 1]
  BY ReadLeaves DEF IInv
<1>3. /\ cache'[m.role] = m.content
      /\ \A q \in Roles \ {m.role} : cache'[q] = cache[q]
  BY <1>2 DEF IInv, TypeOK, handleRoleUpdate, Messages
<1>4. Len(unread) \in Nat
  BY DEF IInv, TypeOK
<1>5. ASSUME NEW k \in 1 .. Len(unread), k # i
      PROVE  LET j == IF k < i THEN k ELSE k - 1
             IN  j \in 1 .. Len(unread') /\ unread'[j] = unread[k]
  BY <1>2, <1>4, <1>5
<1>6. ASSUME NEW j \in 1 .. Len(unread')
      PROVE  LET k == IF j < i THEN j ELSE j + 1
             IN  k \in 1 .. Len(unread) /\ k # i /\ unread'[j] = unread[k]
  BY <1>2, <1>4, <1>6
<1>7. Alone' /\ OneAnnouncement'
  BY <1>1 DEF IInv, Alone, OneAnnouncement, At, RoleExists
<1>8. News'
  <2> SUFFICES ASSUME NEW q \in Roles, q \notin tangled', ~ Announcing(q)'
               PROVE  NewsOf(q)'
    BY DEF News
  <2>1. NewsOf(q)
    BY <1>1 DEF IInv, News, Announcing, About, Free, At
  <2>2. ASSUME NEW j \in 1 .. Len(unread'), Latest(q, j)'
        PROVE  unread'[j].content = role'[q]
    <3> DEFINE k == IF j < i THEN j ELSE j + 1
    <3>1. k \in 1 .. Len(unread) /\ unread'[j] = unread[k] /\ unread[k].role = q
      BY <1>6, <2>2 DEF Latest
    <3>2. ASSUME NEW h \in 1 .. Len(unread), unread[h].role = q, h > k PROVE FALSE
      <4>1. CASE h = i
        BY <1>1, <3>1, <3>2, <4>1
      <4>2. CASE h # i
        BY <1>5, <2>2, <3>2, <4>2 DEF Latest
      <4> QED
        BY <4>1, <4>2
    <3>3. Latest(q, k)
      BY <3>1, <3>2, <1>4 DEF Latest
    <3> QED
      BY <1>1, <2>1, <3>1, <3>3 DEF NewsOf
  <2>3. ASSUME \A j \in 1 .. Len(unread') : unread'[j].role # q
        PROVE  cache'[q] = role'[q]
    <3>1. \A k \in 1 .. Len(unread) : k # i => unread[k].role # q
      BY <1>5, <2>3
    <3>2. CASE m.role = q
      <4>1. Latest(q, i)
        BY <3>1, <3>2, <1>4 DEF Latest
      <4> QED
        BY <1>1, <1>3, <2>1, <3>2, <4>1 DEF NewsOf
    <3>3. CASE m.role # q
      BY <1>1, <1>3, <2>1, <3>1, <3>3 DEF NewsOf
    <3> QED
      BY <3>2, <3>3
  <2> QED
    BY <2>2, <2>3 DEF NewsOf
<1> QED
  BY <1>1, <1>3, <1>7, <1>8 DEF Remembered

\* The handler starts again: it knows what the roles say now, and what it reads
\* again it had known last.
LEMMA RestartKeeps ==
    ASSUME IInv, cacheRoles
    PROVE  Alone' /\ OneAnnouncement' /\ News' /\ Remembered'
<1>1. /\ UNCHANGED <<role, calls>> /\ cache' = role /\ last' = {}
      /\ \A r \in Roles : r \in tangled /\ Announcing(r) => r \in tangled'
      /\ \A r \in Roles, i \in 1 .. Len(unread') : r \in tangled /\ unread'[i].role = r => r \in tangled'
  BY DEF cacheRoles, GetAllRoles, IInv, TypeOK
<1>2. Alone'
  BY <1>1 DEF IInv, Alone, At, RoleExists
<1>3. OneAnnouncement'
  <2>1. ASSUME NEW s \in Slots, At(s, "announce"), calls[s].role \notin tangled'
        PROVE  calls[s].role \notin tangled
    <3>1. calls[s].role \in Roles /\ s \in About(calls[s].role)
      BY <2>1, Kinds DEF IInv, Announcements, About
    <3> QED
      BY <1>1, <2>1, <3>1 DEF Announcing
  <2> QED
    BY <1>1, <2>1 DEF IInv, OneAnnouncement, At
<1>4. News'
  <2> SUFFICES ASSUME NEW q \in Roles, q \notin tangled', ~ Announcing(q)',
                      NEW j \in 1 .. Len(unread'), Latest(q, j)'
               PROVE  unread'[j].content = role[q]
    BY <1>1 DEF News, NewsOf
  <2>0. Len(unread) \in Nat /\ unread'[j].role = q
    BY DEF IInv, TypeOK, Latest
  <2>1. NewsOf(q)
    BY <1>1, <2>0 DEF IInv, News, Announcing, About, Free, At
  <2>2. CASE unread' = unread
    BY <2>1, <2>2 DEF NewsOf, Latest
  <2>3. ASSUME NEW m \in last, Len(unread') = Len(unread) + 1, unread'[1] = m,
               \A k \in 1 .. Len(unread) : unread'[k + 1] = unread[k]
        PROVE  unread'[j].content = role[q]
    <3>1. CASE j = 1
      <4>1. \A k \in 1 .. Len(unread) : unread[k].role # q
        <5> SUFFICES ASSUME NEW k \in 1 .. Len(unread), unread[k].role = q PROVE FALSE
          OBVIOUS
        <5>1. k + 1 \in 1 .. Len(unread') /\ unread'[k + 1].role = q
          BY <2>0, <2>3
        <5> QED
          BY <3>1, <5>1 DEF Latest
      <4> QED
        BY <2>0, <2>1, <2>3, <3>1, <4>1 DEF IInv, Remembered, NewsOf
    <3>2. CASE j # 1
      <4>1. j - 1 \in 1 .. Len(unread) /\ unread'[j] = unread[j - 1]
        BY <2>0, <2>3, <3>2
      <4>2. ASSUME NEW k \in 1 .. Len(unread), unread[k].role = q PROVE k <= j - 1
        <5>1. k + 1 \in 1 .. Len(unread') /\ unread'[k + 1].role = q
          BY <2>0, <2>3, <4>2
        <5>2. k + 1 <= j
          BY <5>1 DEF Latest
        <5> QED
          BY <5>2, <2>0
      <4>3. Latest(q, j - 1)
        BY <2>0, <4>1, <4>2 DEF Latest
      <4> QED
        BY <2>1, <4>1, <4>3 DEF NewsOf
    <3> QED
      BY <3>1, <3>2
  <2>4. ASSUME Len(unread') = Len(unread) - 1,
               \A k \in 1 .. Len(unread) - 1 : unread'[k] = unread[k + 1]
        PROVE  unread'[j].content = role[q]
    <3>1. j + 1 \in 1 .. Len(unread) /\ unread'[j] = unread[j + 1]
      BY <2>0, <2>4
    <3>2. ASSUME NEW k \in 1 .. Len(unread), unread[k].role = q PROVE k <= j + 1
      <4>1. CASE k = 1
        BY <4>1, <2>0
      <4>2. CASE k # 1
        <5>1. k - 1 \in 1 .. Len(unread') /\ unread'[k - 1].role = q
          BY <2>0, <2>4, <3>2, <4>2
        <5>2. k - 1 <= j
          BY <5>1 DEF Latest
        <5> QED
          BY <5>2, <2>0
      <4> QED
        BY <4>1, <4>2
    <3>3. Latest(q, j + 1)
      BY <2>0, <3>1, <3>2 DEF Latest
    <3> QED
      BY <2>1, <3>1, <3>3 DEF NewsOf
  <2> QED
    BY <2>2, <2>3, <2>4, RestartLeaves DEF IInv
<1> QED
  BY <1>1, <1>2, <1>3, <1>4 DEF Remembered

\* What the steps keep holds in every reachable state.
LEMMA Invariance == Spec => []IInv
<1>1. Init => IInv
  <2> SUFFICES ASSUME Init PROVE IInv
    OBVIOUS
  <2>1. TypeOK
    BY RoleCacheAssumption DEF Init, TypeOK, Settings
  <2>2. \A s \in Slots : ~ At(s, "announce") /\ ~ At(s, "replace")
    BY DEF Init, At, NoCall
  <2>3. Alone /\ OneAnnouncement
    BY <2>2 DEF Alone, OneAnnouncement
  <2>4. News /\ Remembered
    BY DEF Init, News, NewsOf, Remembered
  <2> QED
    BY <2>1, <2>3, <2>4 DEF IInv
<1>2. IInv /\ [Next]_vars => Alone' /\ OneAnnouncement' /\ News' /\ Remembered'
  <2> SUFFICES ASSUME IInv, [Next]_vars PROVE Alone' /\ OneAnnouncement' /\ News' /\ Remembered'
    OBVIOUS
  <2>1. ASSUME NEW s \in Slots,
               ReplaceRole(s) \/ \E r \in Roles, content \in SUBSET Settings : CreateRole(s, r, content)
        PROVE  Alone' /\ OneAnnouncement' /\ News' /\ Remembered'
    BY <2>1, Writers, WriteKeeps DEF IInv
  <2>2. ASSUME NEW s \in Slots,
               \/ \E change \in Changes : UpdateRole(s, change)
               \/ RoleUpdate(s) \/ CallFails(s)
        PROVE  Alone' /\ OneAnnouncement' /\ News' /\ Remembered'
    BY <2>2, UpdateRoleKeeps, RoleUpdateKeeps, CallFailsKeeps
  <2>3. CASE cacheRoles \/ \E i \in 1 .. Len(unread) : handleRoleUpdate(i)
    BY <2>3, HandleKeeps, RestartKeeps
  <2>4. CASE UNCHANGED vars
    BY <2>4 DEF vars, IInv, Alone, OneAnnouncement, News, NewsOf, Latest, Remembered,
                Announcing, About, At, Free, RoleExists
  <2> QED
    BY <2>1, <2>2, <2>3, <2>4 DEF Next
<1>3. IInv <=> TypeOK /\ Alone /\ OneAnnouncement /\ News /\ Remembered
  BY DEF IInv
<1> QED
  BY <1>1, <1>2, <1>3, TypeCorrect, PTL DEF Spec

-----------------------------------------------------------------------------
(* The properties.                                                         *)

\* Of some roles one has the highest priority: there are finitely many.  A smallest
\* set of roles without one would have one when a role is taken away.
LEMMA Highest ==
    ASSUME NEW S \in SUBSET Roles, S # {}
    PROVE  \E r \in S : \A q \in S : Priority[q] <= Priority[r]
<1> DEFINE HasHighest(X) == \E r \in X : \A q \in X : Priority[q] <= Priority[r]
           Without1 == {X \in FiniteSubsetsOf(Roles) : X # {} /\ ~ HasHighest(X)}
<1> SUFFICES ASSUME Without1 # {} PROVE FALSE
  <2>1. IsFiniteSet(S)
    BY FS_Subset, RoleCacheAssumption
  <2> QED
    BY <2>1 DEF FiniteSubsetsOf
<1>1. PICK X \in Without1 : \A Y \in Without1 : ~ (<<Y, X>> \in StrictSubsetOrdering(Roles))
  BY FS_StrictSubsetOrderingWellFounded, WFMin
<1>2. PICK x \in X : TRUE
  OBVIOUS
<1> DEFINE Y == X \ {x}
<1>3. X \subseteq Roles /\ IsFiniteSet(X) /\ Y \subseteq Roles /\ IsFiniteSet(Y)
  BY FS_RemoveElement DEF FiniteSubsetsOf
<1>4. \A r \in Roles : Priority[r] \in Int
  BY RoleCacheAssumption
<1>5. CASE Y = {}
  BY <1>2, <1>3, <1>4, <1>5
<1>6. CASE Y # {}
  <2>1. <<Y, X>> \in StrictSubsetOrdering(Roles)
    BY <1>2, <1>3 DEF StrictSubsetOrdering
  <2>2. HasHighest(Y)
    BY <1>1, <1>3, <1>6, <2>1 DEF FiniteSubsetsOf
  <2>3. PICK y \in Y : \A q \in Y : Priority[q] <= Priority[y]
    BY <2>2
  <2>4. CASE Priority[y] <= Priority[x]
    BY <1>2, <1>3, <1>4, <2>3, <2>4
  <2>5. CASE ~ (Priority[y] <= Priority[x])
    BY <1>2, <1>3, <1>4, <2>3, <2>5
  <2> QED
    BY <2>4, <2>5
<1> QED
  BY <1>5, <1>6

\* So the role whose display name is shown is one that the player holds.
LEMMA ActiveRoleHeld ==
    ASSUME NEW held \in SUBSET Roles
    PROVE  computeActiveDisplayNameRole(held) \in held \cup {None}
<1> DEFINE named == {r \in held : "displayName" \in role[r]}
<1>1. CASE named = {}
  BY <1>1 DEF computeActiveDisplayNameRole
<1>2. CASE named # {}
  <2>1. \E r \in named : \A q \in named : Priority[q] <= Priority[r]
    BY <1>2, Highest
  <2> QED
    BY <1>2, <2>1 DEF computeActiveDisplayNameRole
<1> QED
  BY <1>1, <1>2

LEMMA CacheAgrees ==
    ASSUME IInv, NEW held \in SUBSET Roles, \A r \in held : RoleExists(r) /\ Settled(r)
    PROVE  handlePlayerChatMessage(held, cache) = handlePlayerChatMessage(held, role)
<1>1. \A r \in held : cache[r] = role[r]
  BY DEF IInv, News, NewsOf, Settled
<1>2. computeActiveDisplayNameRole(held) \in held \cup {None}
  BY ActiveRoleHeld
<1>3. roleIdsToRoles(held, cache) = roleIdsToRoles(held, role)
  BY <1>1 DEF roleIdsToRoles
<1>4. playerHasPermission(held, cache) = playerHasPermission(held, role)
  BY <1>1 DEF playerHasPermission
<1>5. \A active \in held \cup {None} : getDisplayUsername(active, cache) = getDisplayUsername(active, role)
  BY <1>1 DEF getDisplayUsername
<1> QED
  BY <1>2, <1>3, <1>4, <1>5 DEF handlePlayerChatMessage

\* However updates, announcements, reads and restarts interleave, a chat message of
\* somebody whose roles are settled looks as the roles in the database say.
THEOREM ChatCorrect == Spec => []ChatFollowsRoles
<1>1. IInv => ChatFollowsRoles
  BY CacheAgrees DEF ChatFollowsRoles
<1> QED
  BY <1>1, Invariance, PTL

\* An update that replaces a whole role changes what it was asked to and nothing
\* else, unless the role was written since it was read.
THEOREM UpdatesAreKept == Spec => UpdatesKept
<1> DEFINE Kept(r) ==
        RoleExists(r) /\ role'[r] # role[r] =>
            \E s \in About(r) :
                /\ At(s, "replace") /\ calls'[s].at = "announce"
                /\ calls[s].alone => role'[r] = Changed(role[r], calls[s].change)
<1>1. ASSUME IInv, [Next]_vars, NEW r \in Roles PROVE Kept(r)
  <2> SUFFICES ASSUME RoleExists(r), role'[r] # role[r] PROVE Kept(r)
    OBVIOUS
  <2>1. PICK s \in Slots :
            ReplaceRole(s) \/ \E q \in Roles, content \in SUBSET Settings : CreateRole(s, q, content)
    BY <1>1 DEF Next, vars, UpdateRole, RoleUpdate, CallFails, handleRoleUpdate, Read, cacheRoles
  <2>2. ASSUME NEW q \in Roles, NEW content \in SUBSET Settings, CreateRole(s, q, content)
        PROVE  FALSE
    BY <1>1, <2>2 DEF CreateRole, Write, IInv, TypeOK, RoleExists
  <2>3. ReplaceRole(s)
    BY <2>1, <2>2
  <2>4. calls[s] \in Replacing /\ ~ Free(s) /\ At(s, "replace")
    BY <1>1, <2>3, Kinds DEF IInv, ReplaceRole
  <2>5. calls[s].role = r /\ role'[r] = calls[s].content
    BY <1>1, <2>3, <2>4 DEF ReplaceRole, Write, IInv, TypeOK, Replacing
  <2>6. calls'[s].at = "announce"
    BY <2>3 DEF ReplaceRole, Write
  <2>7. calls[s].alone => role'[r] = Changed(role[r], calls[s].change)
    BY <1>1, <2>4, <2>5 DEF IInv, Alone
  <2> QED
    BY <2>4, <2>5, <2>6, <2>7 DEF About
<1>2. IInv /\ [Next]_vars => [\A r \in Roles : Kept(r)]_vars
  BY <1>1
<1> QED
  BY <1>2, Invariance, PTL DEF Spec, UpdatesKept

=============================================================================
