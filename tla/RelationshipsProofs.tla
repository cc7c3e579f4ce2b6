------------------------- MODULE RelationshipsProofs -------------------------
(* Theorems about the relationship manager, for any number of players and of *)
(* calls under way at once.                                                  *)
EXTENDS Relationships, FiniteSetTheorems, TLAPS

\* The names of the repository calls stand for what they do, everywhere.
USE DEF PendingExists, DeletePending, PendingOf, DeletePlayerBlock, FriendAdded, FriendRemoved

-----------------------------------------------------------------------------
(* Type correctness.                                                       *)

CallSet == [from : Players, to : Players, at : Steps]

\* An insert that the unique index allows keeps the number of documents.
LEMMA InsertType ==
    ASSUME NEW coll \in [Pairs -> 0 .. 1], NEW x \in Pairs, Insertable(coll, x)
    PROVE  Insert(coll, x) \in [Pairs -> 0 .. 1]
BY DEF Insert, Insertable

\* So does the deletion of a document that is there.
LEMMA DeleteType ==
    ASSUME NEW coll \in [Pairs -> 0 .. 1], NEW x \in Pairs, coll[x] > 0
    PROVE  Delete(coll, x) \in [Pairs -> 0 .. 1]
BY DEF Delete

\* A call that is not idle is about two players.
LEMMA CallType ==
    ASSUME TypeOK, NEW s \in Slots, calls[s].at # "idle"
    PROVE  /\ calls[s] \in CallSet
           /\ s \in UnderWay
           /\ <<calls[s].from, calls[s].to>> \in Pairs
           /\ PairOf(s) \in SUBSET Players
<1>1. calls[s] \in CallSet \cup {NoCall}
  BY DEF TypeOK, CallSet
<1>2. calls[s] # NoCall
  BY DEF NoCall
<1> QED
  BY <1>1, <1>2 DEF CallSet, UnderWay, Pairs, PairOf

\* Calls that go on, return or begin stay well typed.
LEMMA CallsType ==
    ASSUME TypeOK, NEW s \in Slots,
           \/ Return(s)
           \/ calls[s].at # "idle" /\ \E at \in Steps : Go(s, at)
           \/ \E a, b \in Players, at \in Steps : calls' = [calls EXCEPT ![s] = Call(a, b, at)]
    PROVE  calls' \in [Slots -> CallSet \cup {NoCall}]
<1>1. calls \in [Slots -> CallSet \cup {NoCall}]
  BY DEF TypeOK, CallSet
<1>2. CASE Return(s)
  BY <1>1, <1>2 DEF Return
<1>3. CASE calls[s].at # "idle" /\ \E at \in Steps : Go(s, at)
  <2>1. calls[s] \in CallSet
    BY <1>3, CallType
  <2> QED
    BY <1>1, <1>3, <2>1 DEF Go, CallSet
<1>4. CASE \E a, b \in Players, at \in Steps : calls' = [calls EXCEPT ![s] = Call(a, b, at)]
  BY <1>1, <1>4 DEF Call, CallSet
<1> QED
  BY <1>2, <1>3, <1>4

\* Only pairs of calls under way are counted as crossed.
LEMMA MeetsType ==
    ASSUME TypeOK, NEW pairs, Meets(pairs)
    PROVE  crossed' \subseteq SUBSET Players /\ failed' \subseteq SUBSET Players
<1>1. ASSUME NEW s \in UnderWay PROVE PairOf(s) \in SUBSET Players
  <2>1. calls[s] \in CallSet
    BY DEF UnderWay, TypeOK, CallSet
  <2> QED
    BY <2>1 DEF CallSet, PairOf
<1> QED
  BY <1>1 DEF Meets, TypeOK

LEMMA AboutType ==
    ASSUME NEW coll, NEW a \in Players, NEW b \in Players, NEW x \in About(coll, a, b)
    PROVE  x \in Pairs /\ coll[x] > 0 /\ x \in {<<a, b>>, <<b, a>>}
BY DEF About, Pairs

\* The start of a call keeps the types.
LEMMA StartType ==
    ASSUME TypeOK, NEW s \in Slots, NEW a \in Players, NEW b \in Players, Start(s, a, b)
    PROVE  TypeOK'
<1>1. CASE AddFriend(s, a, b)
  <2>1. Begin(s, a, b, "getBlocks") /\ asked' \subseteq Pairs
    BY <1>1 DEF AddFriend, TypeOK, Pairs
  <2>2. calls' \in [Slots -> CallSet \cup {NoCall}]
    BY <2>1, CallsType DEF Begin, Steps
  <2>3. crossed' \subseteq SUBSET Players /\ failed' \subseteq SUBSET Players
    BY <2>1, MeetsType DEF Begin
  <2> QED
    BY <1>1, <2>1, <2>2, <2>3 DEF AddFriend, TypeOK, CallSet, collections
<1>2. CASE RemoveFriend(s, a, b)
  <2>1. Begin(s, a, b, "announceRemoved") /\ friends' \in [Pairs -> 0 .. 1]
    BY <1>2, AboutType, DeleteType DEF RemoveFriend, TypeOK
  <2>2. calls' \in [Slots -> CallSet \cup {NoCall}]
    BY <2>1, CallsType DEF Begin, Steps
  <2>3. crossed' \subseteq SUBSET Players /\ failed' \subseteq SUBSET Players
    BY <2>1, MeetsType DEF Begin
  <2> QED
    BY <1>2, <2>1, <2>2, <2>3 DEF RemoveFriend, TypeOK, CallSet
<1>3. CASE CreateBlock(s, a, b)
  <2>1. Begin(s, a, b, "createBlock")
    BY <1>3 DEF CreateBlock
  <2>2. calls' \in [Slots -> CallSet \cup {NoCall}]
    BY <2>1, CallsType DEF Begin, Steps
  <2>3. crossed' \subseteq SUBSET Players /\ failed' \subseteq SUBSET Players
    BY <2>1, MeetsType DEF Begin
  <2> QED
    BY <1>3, <2>2, <2>3 DEF CreateBlock, TypeOK, CallSet, collections
<1> QED
  BY <1>1, <1>2, <1>3 DEF Start

\* A step of a call under way keeps the types.
LEMMA ContinueType ==
    ASSUME TypeOK, NEW s \in Slots, Continue(s)
    PROVE  TypeOK'
<1>1. calls[s].at # "idle"
  <2>1. CASE CallFails(s)
    <3>1. calls[s] \in CallSet
      BY <2>1 DEF CallFails, UnderWay, TypeOK, CallSet
    <3> QED
      BY <3>1 DEF CallSet, Steps
  <2>2. CASE ~ CallFails(s)
    BY <2>2 DEF Continue, At, CheckBlocks, CheckRequested, CheckOpposite, CreateFriend,
            DeleteRequest, AnnounceAdded, CreateRequest, AnnounceRemoved, CreatePlayerBlock
  <2> QED
    BY <2>1, <2>2
<1>2. /\ calls[s] \in CallSet
      /\ <<calls[s].from, calls[s].to>> \in Pairs
      /\ PairOf(s) \in SUBSET Players
  BY <1>1, CallType
<1>3. Return(s) \/ (\E at \in Steps : Go(s, at)) => calls' \in [Slots -> CallSet \cup {NoCall}]
  BY <1>1, CallsType
<1>4. CASE CheckBlocks(s) \/ CheckRequested(s) \/ CheckOpposite(s)
  <2>1. calls' \in [Slots -> CallSet \cup {NoCall}]
    BY <1>3, <1>4 DEF CheckBlocks, CheckRequested, CheckOpposite, Steps
  <2> QED
    BY <1>4, <2>1 DEF CheckBlocks, CheckRequested, CheckOpposite, TypeOK, CallSet,
                      collections, history
<1>5. CASE CreateFriend(s)
  <2>1. calls' \in [Slots -> CallSet \cup {NoCall}]
    BY <1>3, <1>5 DEF CreateFriend, Steps
  <2>2. friends' \in [Pairs -> 0 .. 1]
    BY <1>2, <1>5, InsertType DEF CreateFriend, TypeOK
  <2> QED
    BY <1>5, <2>1, <2>2 DEF CreateFriend, TypeOK, CallSet, history
<1>6. CASE DeleteRequest(s)
  <2>1. calls' \in [Slots -> CallSet \cup {NoCall}]
    BY <1>3, <1>6 DEF DeleteRequest, Steps
  <2>2. pending' \in [Pairs -> 0 .. 1]
    BY <1>2, <1>6, AboutType, DeleteType DEF DeleteRequest, TypeOK, CallSet
  <2> QED
    BY <1>6, <2>1, <2>2 DEF DeleteRequest, TypeOK, CallSet, history
<1>7. CASE AnnounceAdded(s) \/ AnnounceRemoved(s)
  <2>1. calls' \in [Slots -> CallSet \cup {NoCall}]
    BY <1>3, <1>7 DEF AnnounceAdded, AnnounceRemoved
  <2> QED
    BY <1>2, <1>7, <2>1 DEF AnnounceAdded, AnnounceRemoved, TypeOK, CallSet, collections,
                            history
<1>8. CASE CreateRequest(s)
  <2>1. calls' \in [Slots -> CallSet \cup {NoCall}]
    BY <1>3, <1>8 DEF CreateRequest
  <2>2. pending' \in [Pairs -> 0 .. 1]
    BY <1>2, <1>8, InsertType DEF CreateRequest, TypeOK
  <2> QED
    BY <1>8, <2>1, <2>2 DEF CreateRequest, TypeOK, CallSet, history
<1>9. CASE CreatePlayerBlock(s)
  <2>1. calls' \in [Slots -> CallSet \cup {NoCall}]
    BY <1>3, <1>9 DEF CreatePlayerBlock
  <2>2. blocks' \in [Pairs -> 0 .. 1]
    BY <1>2, <1>9, InsertType DEF CreatePlayerBlock, TypeOK
  <2> QED
    BY <1>9, <2>1, <2>2 DEF CreatePlayerBlock, TypeOK, CallSet, history
<1>10. CASE CallFails(s)
  <2>1. calls' \in [Slots -> CallSet \cup {NoCall}]
    BY <1>3, <1>10 DEF CallFails
  <2> QED
    BY <1>2, <1>10, <2>1 DEF CallFails, TypeOK, CallSet, collections
<1> QED
  BY <1>4, <1>5, <1>6, <1>7, <1>8, <1>9, <1>10 DEF Continue

\* So do the calls of one step.
LEMMA AtOnceType ==
    ASSUME TypeOK, NEW a \in Players, NEW b \in Players,
           AtOnce(a, b) \/ \E incoming \in BOOLEAN : MassDenyFriendRequest(a, incoming)
    PROVE  TypeOK'
<1>1. CASE DenyFriendRequest(a, b)
  <2>1. pending' \in [Pairs -> 0 .. 1]
    BY <1>1, AboutType, DeleteType DEF DenyFriendRequest, TypeOK
  <2>2. crossed' \subseteq SUBSET Players /\ failed' \subseteq SUBSET Players
    BY <1>1, MeetsType DEF DenyFriendRequest
  <2> QED
    BY <1>1, <2>1, <2>2 DEF DenyFriendRequest, TypeOK
<1>2. CASE DeleteBlock(a, b)
  <2>1. blocks' \in [Pairs -> 0 .. 1]
    BY <1>2, DeleteType DEF DeleteBlock, TypeOK, Pairs
  <2>2. crossed' \subseteq SUBSET Players /\ failed' \subseteq SUBSET Players
    BY <1>2, MeetsType DEF DeleteBlock
  <2> QED
    BY <1>2, <2>1, <2>2 DEF DeleteBlock, TypeOK
<1>3. ASSUME NEW incoming \in BOOLEAN, MassDenyFriendRequest(a, incoming)
      PROVE  TypeOK'
  <2>1. pending' \in [Pairs -> 0 .. 1]
    BY <1>3 DEF MassDenyFriendRequest, TypeOK
  <2>2. crossed' \subseteq SUBSET Players /\ failed' \subseteq SUBSET Players
    BY <1>3, MeetsType DEF MassDenyFriendRequest
  <2> QED
    BY <1>3, <2>1, <2>2 DEF MassDenyFriendRequest, TypeOK
<1> QED
  BY <1>1, <1>2, <1>3 DEF AtOnce

LEMMA InitType == Init => TypeOK
BY DEF Init, TypeOK

\* The collections keep to their unique indexes and the calls to their steps,
\* whatever calls interleave or fail.
THEOREM TypeCorrect == Spec => []TypeOK
<1>1. TypeOK /\ [Next]_vars => TypeOK'
  <2> SUFFICES ASSUME TypeOK, [Next]_vars PROVE TypeOK'
    OBVIOUS
  <2>1. CASE Next
    BY <2>1, StartType, ContinueType, AtOnceType DEF Next
  <2>2. CASE UNCHANGED vars
    BY <2>2 DEF vars, collections, history, TypeOK
  <2> QED
    BY <2>1, <2>2
<1> QED
  BY <1>1, InitType, PTL DEF Spec

-----------------------------------------------------------------------------
(* Consent.                                                                *)

\* The steps of AddFriend before the friendship is stored.
Asking == {"getBlocks", "isRequested", "isOpposite", "createFriend", "createRequest"}

\* Every request was made by its requester, and every call that is about to make
\* a friendship has found the request of the other.
ConsentInv ==
    /\ \A x \in Pairs : pending[x] > 0 => x \in asked
    /\ \A s \in Slots :
          /\ calls[s].at \in Asking => <<calls[s].from, calls[s].to>> \in asked
          /\ calls[s].at = "createFriend" => <<calls[s].to, calls[s].from>> \in asked
    /\ FriendsConsented

\* A deletion adds no document.
LEMMA DeletedSubset ==
    ASSUME NEW coll \in [Pairs -> 0 .. 1], NEW y \in Pairs, NEW x \in Pairs,
           Delete(coll, y)[x] > 0
    PROVE  coll[x] > 0
BY DEF Delete

\* An insertion adds one.
LEMMA InsertedSubset ==
    ASSUME NEW coll \in [Pairs -> 0 .. 1], NEW y \in Pairs, NEW x \in Pairs,
           Insert(coll, y)[x] > 0
    PROVE  x = y \/ coll[x] > 0
BY DEF Insert

LEMMA ConsentStart ==
    ASSUME TypeOK, ConsentInv, NEW s \in Slots, NEW a \in Players, NEW b \in Players,
           Start(s, a, b)
    PROVE  ConsentInv'
<1>1. PICK at \in {"getBlocks", "announceRemoved", "createBlock"} :
         /\ calls' = [calls EXCEPT ![s] = Call(a, b, at)]
         /\ at = "getBlocks" => <<a, b>> \in asked'
  BY DEF Start, AddFriend, RemoveFriend, CreateBlock, Begin
<1>2. asked \subseteq asked' /\ UNCHANGED <<pending, blocks>>
  BY DEF Start, AddFriend, RemoveFriend, CreateBlock, collections
<1>3. \A x \in Pairs : friends'[x] > 0 => friends[x] > 0
  <2>1. CASE RemoveFriend(s, a, b)
    BY <2>1, AboutType, DeletedSubset DEF RemoveFriend, TypeOK
  <2>2. CASE ~ RemoveFriend(s, a, b)
    BY <2>2 DEF Start, AddFriend, CreateBlock, collections
  <2> QED
    BY <2>1, <2>2
<1>4. ASSUME NEW t \in Slots
      PROVE  /\ calls'[t].at \in Asking => <<calls'[t].from, calls'[t].to>> \in asked'
             /\ calls'[t].at = "createFriend" => <<calls'[t].to, calls'[t].from>> \in asked'
  <2>1. CASE t = s
    BY <1>1, <2>1 DEF TypeOK, Call, Asking
  <2>2. CASE t # s
    BY <1>1, <1>2, <2>2 DEF TypeOK, ConsentInv
  <2> QED
    BY <2>1, <2>2
<1> QED
  BY <1>2, <1>3, <1>4 DEF ConsentInv, FriendsConsented

LEMMA ConsentContinue ==
    ASSUME TypeOK, ConsentInv, NEW s \in Slots, Continue(s)
    PROVE  ConsentInv'
<1> DEFINE one == <<calls[s].from, calls[s].to>>
           other == <<calls[s].to, calls[s].from>>
<1>1. UNCHANGED asked
  BY DEF Continue, CheckBlocks, CheckRequested, CheckOpposite, CreateFriend, DeleteRequest,
         AnnounceAdded, CreateRequest, AnnounceRemoved, CreatePlayerBlock, CallFails, history
<1>2. ASSUME calls[s].at # "idle" PROVE one \in Pairs /\ other \in Pairs
  BY <1>2, CallType DEF Pairs
<1>3. ASSUME NEW x \in Pairs, pending'[x] > 0 PROVE x \in asked
  <2>1. CASE DeleteRequest(s)
    <3>1. calls[s].from \in Players /\ calls[s].to \in Players
      BY <2>1, CallType DEF DeleteRequest, At, CallSet
    <3> QED
      BY <1>3, <2>1, <3>1, AboutType, DeletedSubset DEF DeleteRequest, TypeOK, ConsentInv
  <2>2. CASE CreateRequest(s)
    <3>1. one \in Pairs /\ one \in asked
      BY <1>2, <2>2 DEF CreateRequest, At, ConsentInv, Asking
    <3> QED
      BY <1>3, <2>2, <3>1, InsertedSubset DEF CreateRequest, TypeOK, ConsentInv
  <2>3. CASE UNCHANGED pending
    BY <1>3, <2>3 DEF ConsentInv
  <2> QED
    BY <2>1, <2>2, <2>3
    DEF Continue, CheckBlocks, CheckRequested, CheckOpposite, CreateFriend, AnnounceAdded,
        AnnounceRemoved, CreatePlayerBlock, CallFails, collections
<1>4. ASSUME NEW x \in Pairs, friends'[x] > 0 PROVE {x, <<x[2], x[1]>>} \subseteq asked
  <2>1. CASE CreateFriend(s)
    <3>1. one \in Pairs /\ one \in asked /\ other \in asked
      BY <1>2, <2>1 DEF CreateFriend, At, ConsentInv, Asking
    <3>2. x = one \/ friends[x] > 0
      BY <1>4, <2>1, <3>1, InsertedSubset DEF CreateFriend, TypeOK
    <3> QED
      BY <3>1, <3>2 DEF ConsentInv, FriendsConsented
  <2>2. CASE UNCHANGED friends
    BY <1>4, <2>2 DEF ConsentInv, FriendsConsented
  <2> QED
    BY <2>1, <2>2
    DEF Continue, CheckBlocks, CheckRequested, CheckOpposite, DeleteRequest, AnnounceAdded,
        CreateRequest, AnnounceRemoved, CreatePlayerBlock, CallFails, collections
<1>5. \/ Return(s)
      \/ \E at \in Steps :
            /\ calls[s].at # "idle" /\ Go(s, at)
            /\ at \in Asking => calls[s].at \in Asking
            /\ at = "createFriend" => other \in asked
  <2>1. CASE CheckBlocks(s) \/ CheckRequested(s)
    BY <2>1 DEF CheckBlocks, CheckRequested, At, Steps, Asking
  <2>2. CASE CheckOpposite(s)
    BY <1>2, <2>2 DEF CheckOpposite, At, Steps, Asking, ConsentInv
  <2>3. CASE CreateFriend(s) \/ DeleteRequest(s)
    BY <2>3 DEF CreateFriend, DeleteRequest, At, Steps, Asking
  <2> QED
    BY <2>1, <2>2, <2>3
    DEF Continue, AnnounceAdded, CreateRequest, AnnounceRemoved, CreatePlayerBlock, CallFails
<1>6. ASSUME NEW t \in Slots
      PROVE  /\ calls'[t].at \in Asking => <<calls'[t].from, calls'[t].to>> \in asked
             /\ calls'[t].at = "createFriend" => <<calls'[t].to, calls'[t].from>> \in asked
  <2>1. CASE t # s
    BY <1>5, <2>1 DEF Return, Go, TypeOK, ConsentInv
  <2>2. CASE t = s /\ Return(s)
    BY <2>2 DEF Return, NoCall, Asking, TypeOK
  <2>3. CASE t = s /\ ~ Return(s)
    <3>1. PICK at \in Steps : /\ calls[s].at # "idle" /\ Go(s, at)
                              /\ at \in Asking => calls[s].at \in Asking
                              /\ at = "createFriend" => other \in asked
      BY <1>5, <2>3
    <3>2. /\ calls'[s].at = at /\ calls'[s].from = calls[s].from
          /\ calls'[s].to = calls[s].to
      BY <3>1, CallType DEF Go, TypeOK, CallSet
    <3> QED
      BY <2>3, <3>1, <3>2 DEF ConsentInv
  <2> QED
    BY <2>1, <2>2, <2>3
<1> QED
  BY <1>1, <1>3, <1>4, <1>6 DEF ConsentInv, FriendsConsented

LEMMA ConsentAtOnce ==
    ASSUME TypeOK, ConsentInv, NEW a \in Players, NEW b \in Players,
           AtOnce(a, b) \/ \E incoming \in BOOLEAN : MassDenyFriendRequest(a, incoming)
    PROVE  ConsentInv'
<1>1. UNCHANGED <<friends, calls, asked>>
  BY DEF AtOnce, DenyFriendRequest, DeleteBlock, MassDenyFriendRequest
<1>2. ASSUME NEW x \in Pairs, pending'[x] > 0 PROVE pending[x] > 0
  <2>1. CASE DenyFriendRequest(a, b)
    BY <1>2, <2>1, AboutType, DeletedSubset DEF DenyFriendRequest, TypeOK
  <2>2. CASE \E incoming \in BOOLEAN : MassDenyFriendRequest(a, incoming)
    BY <1>2, <2>2 DEF MassDenyFriendRequest
  <2> QED
    BY <1>2, <2>1, <2>2 DEF AtOnce, DeleteBlock
<1> QED
  BY <1>1, <1>2 DEF ConsentInv, FriendsConsented

\* Nobody becomes a friend of somebody he has not asked himself, however many
\* calls of however many players interleave or fail.
THEOREM Consent == Spec => []FriendsConsented
<1>1. Init => ConsentInv
  BY DEF Init, ConsentInv, FriendsConsented, NoCall, Asking
<1>2. TypeOK /\ ConsentInv /\ [Next]_vars => ConsentInv'
  <2> SUFFICES ASSUME TypeOK, ConsentInv, [Next]_vars PROVE ConsentInv'
    OBVIOUS
  <2>1. CASE Next
    BY <2>1, ConsentStart, ConsentContinue, ConsentAtOnce DEF Next
  <2>2. CASE UNCHANGED vars
    BY <2>2 DEF vars, collections, history, ConsentInv, FriendsConsented
  <2> QED
    BY <2>1, <2>2
<1>3. ConsentInv => FriendsConsented
  BY DEF ConsentInv
<1> QED
  BY <1>1, <1>2, <1>3, TypeCorrect, PTL DEF Spec

-----------------------------------------------------------------------------
(* Pairs whose calls do not cross.                                         *)

\* Two calls under way about one pair have crossed.
Alone == \A s, t \in UnderWay : s # t /\ PairOf(s) = PairOf(t) => PairOf(s) \in crossed

\* What a new call changes of the calls.
LEMMA StartCalls ==
    ASSUME TypeOK, NEW s \in Slots, NEW a \in Players, NEW b \in Players, Start(s, a, b)
    PROVE  /\ s \notin UnderWay
           /\ crossed \subseteq crossed'
           /\ {a, b} \notin crossed' => \A t \in UnderWay : PairOf(t) # {a, b}
           /\ \A t \in UnderWay' : t # s => t \in UnderWay /\ calls'[t] = calls[t]
           /\ s \in UnderWay' /\ calls'[s].from = a /\ calls'[s].to = b
           /\ calls'[s].at = IF AddFriend(s, a, b) THEN "getBlocks"
                             ELSE IF RemoveFriend(s, a, b) THEN "announceRemoved"
                             ELSE "createBlock"
<1>1. PICK at \in {"getBlocks", "announceRemoved", "createBlock"} :
         /\ Begin(s, a, b, at)
         /\ at = IF AddFriend(s, a, b) THEN "getBlocks"
                 ELSE IF RemoveFriend(s, a, b) THEN "announceRemoved"
                 ELSE "createBlock"
  BY DEF Start, AddFriend, RemoveFriend, CreateBlock
<1>2. calls' = [calls EXCEPT ![s] = Call(a, b, at)] /\ calls[s] = NoCall
  BY <1>1 DEF Begin
<1>3. calls'[s] = Call(a, b, at) /\ \A t \in Slots : t # s => calls'[t] = calls[t]
  BY <1>2 DEF TypeOK
<1>4. Call(a, b, at).from = a /\ Call(a, b, at).to = b /\ Call(a, b, at).at = at
  BY DEF Call
<1>5. Call(a, b, at) # NoCall
  BY <1>4 DEF NoCall
<1>6. crossed' = crossed \cup ({{a, b}} \cap {PairOf(t) : t \in UnderWay})
  BY <1>1 DEF Begin, Meets
<1> QED
  BY <1>1, <1>2, <1>3, <1>4, <1>5, <1>6 DEF UnderWay

\* What a step of a call under way changes of the calls.
LEMMA ContinueCalls ==
    ASSUME TypeOK, NEW s \in Slots, Continue(s)
    PROVE  /\ s \in UnderWay /\ calls[s] \in CallSet
           /\ crossed' = crossed
           /\ \A t \in UnderWay' : /\ t \in UnderWay
                                   /\ calls'[t].from = calls[t].from
                                   /\ calls'[t].to = calls[t].to
                                   /\ t # s => calls'[t] = calls[t]
           /\ \/ Return(s)
              \/ \E at \in Steps : Go(s, at)
<1>1. Return(s) \/ \E at \in Steps : Go(s, at)
  BY DEF Continue, CheckBlocks, CheckRequested, CheckOpposite, CreateFriend, DeleteRequest,
         AnnounceAdded, CreateRequest, AnnounceRemoved, CreatePlayerBlock, CallFails, Steps
<1>2. s \in UnderWay /\ calls[s] \in CallSet
  <2>1. CASE CallFails(s)
    BY <2>1 DEF CallFails, UnderWay, TypeOK, CallSet
  <2>2. CASE ~ CallFails(s)
    <3>1. calls[s].at # "idle"
      BY <2>2 DEF Continue, At, CheckBlocks, CheckRequested, CheckOpposite, CreateFriend,
              DeleteRequest, AnnounceAdded, CreateRequest, AnnounceRemoved, CreatePlayerBlock
    <3> QED
      BY <3>1, CallType
  <2> QED
    BY <2>1, <2>2
<1>3. crossed' = crossed
  BY DEF Continue, CheckBlocks, CheckRequested, CheckOpposite, CreateFriend, DeleteRequest,
         AnnounceAdded, CreateRequest, AnnounceRemoved, CreatePlayerBlock, CallFails, history
<1>4. ASSUME NEW t \in UnderWay'
      PROVE  /\ t \in UnderWay
             /\ calls'[t].from = calls[t].from
             /\ calls'[t].to = calls[t].to
             /\ t # s => calls'[t] = calls[t]
  <2>1. t \in Slots /\ calls'[t] # NoCall
    BY <1>4 DEF UnderWay
  <2>2. CASE t = s
    <3>1. PICK at \in Steps : Go(s, at)
      BY <1>1, <2>1, <2>2 DEF Return, TypeOK
    <3> QED
      BY <1>2, <2>2, <3>1 DEF Go, TypeOK, CallSet
  <2>3. CASE t # s
    BY <1>1, <2>1, <2>3 DEF Return, Go, TypeOK, UnderWay
  <2> QED
    BY <2>2, <2>3
<1> QED
  BY <1>1, <1>2, <1>3, <1>4

\* Only the start of a call and the calls of one step add to the pairs that have
\* crossed; the latter change no call.
LEMMA AtOnceCalls ==
    ASSUME NEW a \in Players, NEW b \in Players,
           AtOnce(a, b) \/ \E incoming \in BOOLEAN : MassDenyFriendRequest(a, incoming)
    PROVE  /\ UNCHANGED <<calls, friends>>
           /\ crossed \subseteq crossed'
BY DEF AtOnce, DenyFriendRequest, DeleteBlock, MassDenyFriendRequest, Meets

LEMMA AloneStep ==
    ASSUME TypeOK, Alone, [Next]_vars
    PROVE  Alone'
<1> SUFFICES ASSUME NEW t \in UnderWay', NEW u \in UnderWay', t # u,
                    {calls'[t].from, calls'[t].to} = {calls'[u].from, calls'[u].to}
             PROVE  {calls'[t].from, calls'[t].to} \in crossed'
  BY DEF Alone, PairOf
<1>1. ASSUME NEW s \in Slots, NEW a \in Players, NEW b \in Players, Start(s, a, b)
      PROVE  {calls'[t].from, calls'[t].to} \in crossed'
  <2>1. CASE t = s \/ u = s
    BY <1>1, <2>1, StartCalls DEF PairOf
  <2>2. CASE t # s /\ u # s
    BY <1>1, <2>2, StartCalls DEF PairOf, Alone
  <2> QED
    BY <2>1, <2>2
<1>2. ASSUME NEW s \in Slots, Continue(s)
      PROVE  {calls'[t].from, calls'[t].to} \in crossed'
  BY <1>2, ContinueCalls DEF PairOf, Alone
<1>3. ASSUME NEW a \in Players, NEW b \in Players,
             AtOnce(a, b) \/ \E incoming \in BOOLEAN : MassDenyFriendRequest(a, incoming)
      PROVE  {calls'[t].from, calls'[t].to} \in crossed'
  BY <1>3, AtOnceCalls DEF UnderWay, PairOf, Alone
<1>4. CASE UNCHANGED vars
  BY <1>4 DEF vars, history, UnderWay, PairOf, Alone
<1> QED
  BY <1>1, <1>2, <1>3, <1>4 DEF Next

-----------------------------------------------------------------------------
(* Friends and blocks.                                                     *)

\* Friends and blocked, as they are used below.
LEMMA AboutEmpty ==
    ASSUME NEW coll, NEW a, NEW b
    PROVE  About(coll, a, b) # {} <=> coll[<<a, b>>] > 0 \/ coll[<<b, a>>] > 0
BY DEF About

\* A call that is about to store a friendship stands before no block, one that is
\* about to store a block before no friendship.
Guarded(s) ==
    /\ calls[s].at \in {"isRequested", "isOpposite", "createFriend"}
          => About(blocks, calls[s].from, calls[s].to) = {}
    /\ calls[s].at = "createBlock" => About(friends, calls[s].from, calls[s].to) = {}

\* Friends whose calls have not crossed have no block in either direction.
NoBlockBetweenFriends ==
    \A a, b \in Players :
        AreFriends(a, b) /\ {a, b} \notin crossed => About(blocks, a, b) = {}

\* Every call is, unless it has been crossed.
UnblockedInv == /\ \A s \in UnderWay : PairOf(s) \notin crossed => Guarded(s)
                /\ NoBlockBetweenFriends

\* A step that adds neither a friendship nor a block, and leaves the calls as
\* they are or guarded, keeps the invariant.
LEMMA UnblockedFrame ==
    ASSUME TypeOK, UnblockedInv,
           crossed \subseteq crossed',
           \A x \in Pairs : friends'[x] > 0 => friends[x] > 0,
           \A x \in Pairs : blocks'[x] > 0 => blocks[x] > 0,
           \A s \in UnderWay' :
              /\ calls'[s].from \in Players /\ calls'[s].to \in Players
              /\ \/ s \in UnderWay /\ calls'[s] = calls[s]
                 \/ {calls'[s].from, calls'[s].to} \in crossed'
                 \/ /\ calls'[s].at \in {"isRequested", "isOpposite", "createFriend"}
                          => About(blocks, calls'[s].from, calls'[s].to) = {}
                    /\ calls'[s].at = "createBlock"
                          => About(friends, calls'[s].from, calls'[s].to) = {}
    PROVE  UnblockedInv'
<1>1. ASSUME NEW a \in Players, NEW b \in Players
      PROVE  /\ About(blocks, a, b) = {} => About(blocks', a, b) = {}
             /\ About(friends, a, b) = {} => About(friends', a, b) = {}
  BY <1>1, AboutEmpty DEF Pairs
<1>2. ASSUME NEW s \in UnderWay', {calls'[s].from, calls'[s].to} \notin crossed'
      PROVE  /\ calls'[s].at \in {"isRequested", "isOpposite", "createFriend"}
                   => About(blocks', calls'[s].from, calls'[s].to) = {}
             /\ calls'[s].at = "createBlock" => About(friends', calls'[s].from, calls'[s].to) = {}
  <2>1. CASE s \in UnderWay /\ calls'[s] = calls[s]
    BY <1>1, <1>2, <2>1 DEF UnblockedInv, Guarded, PairOf
  <2>2. CASE ~ (s \in UnderWay /\ calls'[s] = calls[s])
    BY <1>1, <1>2, <2>2
  <2> QED
    BY <2>1, <2>2
<1>3. NoBlockBetweenFriends'
  BY <1>1 DEF UnblockedInv, NoBlockBetweenFriends, AreFriends
<1> QED
  BY <1>2, <1>3 DEF UnblockedInv, Guarded, PairOf

LEMMA UnblockedStart ==
    ASSUME TypeOK, UnblockedInv, NEW s \in Slots, NEW a \in Players, NEW b \in Players,
           Start(s, a, b)
    PROVE  UnblockedInv'
<1>1. UNCHANGED blocks
  BY DEF Start, AddFriend, RemoveFriend, CreateBlock, collections
<1>2. \A x \in Pairs : friends'[x] > 0 => friends[x] > 0
  <2>1. CASE RemoveFriend(s, a, b)
    BY <2>1, AboutType, DeletedSubset DEF RemoveFriend, TypeOK
  <2>2. CASE ~ RemoveFriend(s, a, b)
    BY <2>2 DEF Start, AddFriend, CreateBlock, collections
  <2> QED
    BY <2>1, <2>2
<1>3. ASSUME NEW t \in UnderWay'
      PROVE  /\ calls'[t].from \in Players /\ calls'[t].to \in Players
             /\ \/ t \in UnderWay /\ calls'[t] = calls[t]
                \/ /\ calls'[t].at \in {"isRequested", "isOpposite", "createFriend"}
                         => About(blocks, calls'[t].from, calls'[t].to) = {}
                   /\ calls'[t].at = "createBlock"
                         => About(friends, calls'[t].from, calls'[t].to) = {}
  <2>1. CASE t # s
    BY <1>3, <2>1, StartCalls DEF UnderWay, TypeOK
  <2>2. CASE t = s
    BY <2>2, StartCalls DEF Start, CreateBlock, AreFriends
  <2> QED
    BY <2>1, <2>2
<1>4. crossed \subseteq crossed'
  BY StartCalls
<1> QED
  BY <1>1, <1>2, <1>3, <1>4, UnblockedFrame

LEMMA UnblockedAtOnce ==
    ASSUME TypeOK, UnblockedInv, NEW a \in Players, NEW b \in Players,
           AtOnce(a, b) \/ \E incoming \in BOOLEAN : MassDenyFriendRequest(a, incoming)
    PROVE  UnblockedInv'
<1>1. UNCHANGED <<calls, friends>> /\ crossed \subseteq crossed'
  BY AtOnceCalls
<1>2. \A x \in Pairs : blocks'[x] > 0 => blocks[x] > 0
  <2>1. CASE DeleteBlock(a, b)
    BY <2>1, DeletedSubset DEF DeleteBlock, TypeOK, Pairs
  <2>2. CASE ~ DeleteBlock(a, b)
    BY <2>2 DEF AtOnce, DenyFriendRequest, MassDenyFriendRequest
  <2> QED
    BY <2>1, <2>2
<1>3. \A t \in UnderWay' : /\ t \in UnderWay /\ calls'[t] = calls[t]
                           /\ calls'[t].from \in Players /\ calls'[t].to \in Players
  BY <1>1 DEF UnderWay, TypeOK
<1> QED
  BY <1>1, <1>2, <1>3, UnblockedFrame

\* The two steps that store: the pair of the call has no other call under way.
LEMMA UnblockedStore ==
    ASSUME TypeOK, Alone, UnblockedInv, NEW s \in Slots,
           CreateFriend(s) \/ CreatePlayerBlock(s)
    PROVE  UnblockedInv'
<1> DEFINE one == <<calls[s].from, calls[s].to>>
<1>1. Continue(s)
  BY DEF Continue
<1>2. s \in UnderWay /\ calls[s] \in CallSet /\ one \in Pairs /\ crossed' = crossed
  BY <1>1, ContinueCalls DEF CallSet, Pairs
<1>3. /\ \A x \in Pairs : friends'[x] > 0 => friends[x] > 0 \/ (CreateFriend(s) /\ x = one)
      /\ \A x \in Pairs : blocks'[x] > 0 => blocks[x] > 0 \/ (CreatePlayerBlock(s) /\ x = one)
  <2>1. CASE CreateFriend(s)
    BY <1>2, <2>1, InsertedSubset DEF CreateFriend, TypeOK
  <2>2. CASE CreatePlayerBlock(s)
    BY <1>2, <2>2, InsertedSubset DEF CreatePlayerBlock, TypeOK
  <2> QED
    BY <2>1, <2>2
<1>4. PairOf(s) \notin crossed =>
         /\ CreateFriend(s) => About(blocks, calls[s].from, calls[s].to) = {}
         /\ CreatePlayerBlock(s) => About(friends, calls[s].from, calls[s].to) = {}
  BY <1>2 DEF UnblockedInv, Guarded, CreateFriend, CreatePlayerBlock, At
<1>5. calls'[s].at \notin {"isRequested", "isOpposite", "createFriend", "createBlock"}
  BY <1>2 DEF CreateFriend, CreatePlayerBlock, Go, Return, NoCall, TypeOK
<1>6. ~ (CreateFriend(s) /\ CreatePlayerBlock(s))
  BY DEF CreateFriend, CreatePlayerBlock, At
<1>7. ASSUME NEW t \in UnderWay', {calls'[t].from, calls'[t].to} \notin crossed'
      PROVE  /\ calls'[t].at \in {"isRequested", "isOpposite", "createFriend"}
                   => About(blocks', calls'[t].from, calls'[t].to) = {}
             /\ calls'[t].at = "createBlock" => About(friends', calls'[t].from, calls'[t].to) = {}
  <2>1. CASE t = s
    BY <1>5, <2>1
  <2>2. CASE t # s
    <3>1. t \in UnderWay /\ calls'[t] = calls[t] /\ calls[t].at # "idle"
      BY <1>1, <1>7, <2>2, ContinueCalls DEF UnderWay, TypeOK, NoCall, CallSet, Steps
    <3>2. calls[t].from \in Players /\ calls[t].to \in Players
      BY <3>1, CallType DEF CallSet, UnderWay
    <3>3. PairOf(t) \notin crossed /\ PairOf(s) # PairOf(t)
      BY <1>2, <1>7, <2>2, <3>1 DEF Alone, PairOf
    <3>4. one # <<calls[t].from, calls[t].to>> /\ one # <<calls[t].to, calls[t].from>>
      BY <3>3 DEF PairOf
    <3>5. Guarded(t)
      BY <3>1, <3>3 DEF UnblockedInv
    <3>6. <<calls[t].from, calls[t].to>> \in Pairs /\ <<calls[t].to, calls[t].from>> \in Pairs
      BY <3>2 DEF Pairs
    <3> QED
      BY <1>3, <3>1, <3>4, <3>5, <3>6, AboutEmpty DEF Guarded
  <2> QED
    BY <2>1, <2>2
<1>8. ASSUME NEW a \in Players, NEW b \in Players, About(friends', a, b) # {},
             {a, b} \notin crossed
      PROVE  About(blocks', a, b) = {}
  <2>1. <<a, b>> \in Pairs /\ <<b, a>> \in Pairs
    BY DEF Pairs
  <2>2. CASE {a, b} = PairOf(s)
    <3>1. one = <<a, b>> \/ one = <<b, a>>
      BY <2>2 DEF PairOf
    <3>2. /\ CreateFriend(s) => About(blocks, a, b) = {}
          /\ CreatePlayerBlock(s) => About(friends, a, b) = {}
      BY <1>4, <1>8, <2>2, <3>1, AboutEmpty
    <3> QED
      BY <1>3, <1>6, <1>8, <2>1, <3>2, AboutEmpty
  <2>3. CASE {a, b} # PairOf(s)
    <3>1. one # <<a, b>> /\ one # <<b, a>>
      BY <2>3 DEF PairOf
    <3>2. About(friends, a, b) # {} => About(blocks, a, b) = {}
      BY <1>8 DEF UnblockedInv, NoBlockBetweenFriends, AreFriends
    <3> QED
      BY <1>3, <1>8, <2>1, <3>1, <3>2, AboutEmpty
  <2> QED
    BY <2>2, <2>3
<1> QED
  BY <1>2, <1>7, <1>8 DEF UnblockedInv, Guarded, PairOf, NoBlockBetweenFriends, AreFriends

\* The other steps of a call: only the check of blocks brings it to a guarded
\* step.
LEMMA UnblockedOther ==
    ASSUME TypeOK, UnblockedInv, NEW s \in Slots, Continue(s),
           ~ CreateFriend(s), ~ CreatePlayerBlock(s)
    PROVE  UnblockedInv'
<1>1. UNCHANGED <<friends, blocks>>
  BY DEF Continue, CheckBlocks, CheckRequested, CheckOpposite, DeleteRequest,
         AnnounceAdded, CreateRequest, AnnounceRemoved, CallFails, collections
<1>2. ASSUME NEW t \in UnderWay'
      PROVE  calls'[t].from \in Players /\ calls'[t].to \in Players
  <2>1. t \in UnderWay /\ calls'[t].from = calls[t].from /\ calls'[t].to = calls[t].to
    BY ContinueCalls
  <2>2. calls[t] \in CallSet
    BY <2>1 DEF UnderWay, TypeOK, CallSet
  <2> QED
    BY <2>1, <2>2 DEF CallSet
<1>3. ASSUME s \in UnderWay', PairOf(s) \notin crossed
      PROVE  /\ calls'[s].at \in {"isRequested", "isOpposite", "createFriend"}
                   => About(blocks, calls[s].from, calls[s].to) = {}
             /\ calls'[s].at # "createBlock"
  <2>1. ~ Return(s) /\ calls[s] \in CallSet /\ s \in UnderWay
    BY <1>3, ContinueCalls DEF UnderWay, Return, TypeOK
  <2>2. \A at : Go(s, at) => calls'[s].at = at
    BY <2>1 DEF Go, TypeOK, CallSet
  <2>3. CASE CheckBlocks(s)
    BY <2>1, <2>2, <2>3 DEF CheckBlocks
  <2>4. CASE CheckRequested(s) \/ CheckOpposite(s)
    <3>1. About(blocks, calls[s].from, calls[s].to) = {}
      BY <1>3, <2>1, <2>4 DEF CheckRequested, CheckOpposite, At, UnblockedInv, Guarded
    <3> QED
      BY <2>1, <2>2, <2>4, <3>1 DEF CheckRequested, CheckOpposite
  <2>5. CASE DeleteRequest(s)
    BY <2>1, <2>2, <2>5 DEF DeleteRequest
  <2> QED
    BY <2>1, <2>3, <2>4, <2>5
    DEF Continue, AnnounceAdded, CreateRequest, AnnounceRemoved, CallFails
<1>4. ASSUME NEW t \in UnderWay'
      PROVE  \/ t \in UnderWay /\ calls'[t] = calls[t]
             \/ {calls'[t].from, calls'[t].to} \in crossed'
             \/ /\ calls'[t].at \in {"isRequested", "isOpposite", "createFriend"}
                      => About(blocks, calls'[t].from, calls'[t].to) = {}
                /\ calls'[t].at = "createBlock"
                      => About(friends, calls'[t].from, calls'[t].to) = {}
  <2>1. /\ t \in UnderWay /\ (t # s => calls'[t] = calls[t])
        /\ calls'[t].from = calls[t].from /\ calls'[t].to = calls[t].to
        /\ crossed' = crossed
    BY ContinueCalls
  <2>2. CASE t = s /\ PairOf(s) \notin crossed
    BY <1>3, <2>1, <2>2
  <2>3. CASE t = s /\ PairOf(s) \in crossed
    BY <2>1, <2>3 DEF PairOf
  <2>4. CASE t # s
    BY <2>1, <2>4
  <2> QED
    BY <2>2, <2>3, <2>4
<1>5. crossed \subseteq crossed'
  BY ContinueCalls
<1> QED
  BY <1>1, <1>2, <1>4, <1>5, UnblockedFrame

\* Players whose calls never cross are never friends and blocked at once, however
\* many other calls interleave and whichever fail.
THEOREM Unblocked == Spec => []FriendsUnblocked
<1>1. Init => Alone /\ UnblockedInv
  BY DEF Init, Alone, UnblockedInv, UnderWay, NoBlockBetweenFriends, AreFriends, About, Pairs
<1>2. TypeOK /\ Alone /\ UnblockedInv /\ [Next]_vars => Alone' /\ UnblockedInv'
  <2> SUFFICES ASSUME TypeOK, Alone, UnblockedInv, [Next]_vars PROVE UnblockedInv'
    BY AloneStep
  <2>1. CASE Next
    BY <2>1, UnblockedStart, UnblockedAtOnce, UnblockedStore, UnblockedOther DEF Next
  <2>2. CASE UNCHANGED vars
    BY <2>2 DEF vars, collections, history, UnblockedInv, Guarded, PairOf, UnderWay,
                NoBlockBetweenFriends, AreFriends
  <2> QED
    BY <2>1, <2>2
<1>3. UnblockedInv => FriendsUnblocked
  BY DEF UnblockedInv, NoBlockBetweenFriends, FriendsUnblocked, IsBlocked
<1> QED
  BY <1>1, <1>2, <1>3, TypeCorrect, PTL DEF Spec

-----------------------------------------------------------------------------
(* One friendship, one request, and a topic that says so.                  *)

\* There is one document about the two, in one direction, or none.
Lone(coll, a, b) == a = b \/ coll[<<a, b>>] = 0 \/ coll[<<b, a>>] = 0

Requested(a, b) == pending[<<a, b>>] > 0

\* What the checks of a call have found is still so.
Prepared(call) ==
    LET a == call.from
        b == call.to
    IN  /\ call.at \in Asking \cup {"announceRemoved"} => ~ AreFriends(a, b)
        /\ call.at \in {"deleteRequest", "announceAdded"} => AreFriends(a, b)
        /\ call.at \in {"isOpposite", "createFriend", "createRequest"} => ~ Requested(a, b)
        /\ call.at = "createRequest" => ~ Requested(b, a)
        /\ call.at \in {"createFriend", "deleteRequest"} => Requested(b, a)

\* A call about the two is at one of these steps.
Busy(a, b, steps) == \E s \in UnderWay : PairOf(s) = {a, b} /\ calls[s].at \in steps

\* Friends have no request, and the topic says who is a friend, but for the call that is
\* about to see to it.
Settled(a, b) ==
    /\ AreFriends(a, b) /\ ~ Busy(a, b, {"deleteRequest"}) =>
          ~ Requested(a, b) /\ ~ Requested(b, a)
    /\ ~ Busy(a, b, {"deleteRequest", "announceAdded", "announceRemoved"}) =>
          (AreFriends(a, b) <=> {a, b} \in heard)

PairInv(a, b) == {a, b} \notin crossed =>
    /\ Lone(friends, a, b) /\ Lone(pending, a, b)
    /\ \A s \in UnderWay : PairOf(s) = {a, b} => Prepared(calls[s])
    /\ {a, b} \notin failed => Settled(a, b)

Orderly == \A a, b \in Players : PairInv(a, b)

LEMMA FriendsEither ==
    ASSUME NEW a, NEW b
    PROVE  AreFriends(a, b) <=> friends[<<a, b>>] > 0 \/ friends[<<b, a>>] > 0
BY AboutEmpty DEF AreFriends

\* A step that does not touch the two.
Untouched(a, b) ==
    /\ \A x \in {<<a, b>>, <<b, a>>} : friends'[x] = friends[x] /\ pending'[x] = pending[x]
    /\ {a, b} \in heard' <=> {a, b} \in heard
    /\ \A s \in UnderWay : PairOf(s) = {a, b} => s \in UnderWay' /\ calls'[s] = calls[s]
    /\ \A s \in UnderWay' : PairOf(s)' = {a, b} => s \in UnderWay /\ calls'[s] = calls[s]
    /\ crossed \subseteq crossed' /\ failed \subseteq failed'

LEMMA PairStays ==
    ASSUME NEW a, NEW b, PairInv(a, b), Untouched(a, b)
    PROVE  PairInv(a, b)'
<1>1. AreFriends(a, b)' <=> AreFriends(a, b)
  BY DEF Untouched, AreFriends, About
<1>2. /\ Lone(friends, a, b)' <=> Lone(friends, a, b)
      /\ Lone(pending, a, b)' <=> Lone(pending, a, b)
      /\ Requested(a, b)' <=> Requested(a, b)
      /\ Requested(b, a)' <=> Requested(b, a)
  BY DEF Untouched, Lone, Requested
<1>3. \A steps : Busy(a, b, steps)' <=> Busy(a, b, steps)
  BY DEF Untouched, Busy, PairOf
<1>4. Settled(a, b) => Settled(a, b)'
  BY <1>1, <1>2, <1>3 DEF Settled, Untouched
<1>5. ASSUME NEW s \in UnderWay', PairOf(s)' = {a, b}, {a, b} \notin crossed
      PROVE  Prepared(calls[s])'
  <2>1. s \in UnderWay /\ calls'[s] = calls[s] /\ PairOf(s) = {a, b}
    BY <1>5 DEF Untouched, PairOf
  <2>2. Prepared(calls[s])
    BY <1>5, <2>1 DEF PairInv
  <2>3. \/ calls[s].from = a /\ calls[s].to = b
        \/ calls[s].from = b /\ calls[s].to = a
    BY <2>1 DEF PairOf
  <2>4. AreFriends(b, a)' <=> AreFriends(b, a)
    BY DEF Untouched, AreFriends, About
  <2>5. CASE calls[s].from = a /\ calls[s].to = b
    BY <1>1, <1>2, <2>1, <2>2, <2>5 DEF Prepared
  <2>6. CASE calls[s].from = b /\ calls[s].to = a
    BY <1>2, <2>1, <2>2, <2>4, <2>6 DEF Prepared
  <2> QED
    BY <2>3, <2>5, <2>6
<1> QED
  BY <1>2, <1>4, <1>5 DEF PairInv, Untouched

LEMMA PairSymmetryNext ==
    ASSUME NEW a, NEW b, PairInv(a, b)'
    PROVE  PairInv(b, a)'
<1>1. {a, b} = {b, a}
  OBVIOUS
<1>2. AreFriends(a, b)' <=> AreFriends(b, a)'
  BY AboutEmpty DEF AreFriends
<1>3. Settled(a, b)' => Settled(b, a)'
  BY <1>1, <1>2 DEF Settled, Busy
<1> QED
  BY <1>1, <1>3 DEF PairInv, Lone

\* All is well with the two when no call about them is under way any more.
LEMMA PairDone ==
    ASSUME NEW a, NEW b, \A s \in UnderWay' : PairOf(s)' # {a, b},
           Lone(friends, a, b)', Lone(pending, a, b)',
           {a, b} \notin failed' =>
              /\ AreFriends(a, b)' => ~ Requested(a, b)' /\ ~ Requested(b, a)'
              /\ AreFriends(a, b)' <=> {a, b} \in heard'
    PROVE  PairInv(a, b)'
<1>1. {a, b} \notin failed' => Settled(a, b)'
  BY DEF Settled
<1> QED
  BY <1>1 DEF PairInv

\* Or when the one there is goes on prepared.
LEMMA PairGoesOn ==
    ASSUME NEW s \in UnderWay', NEW a, NEW b, a = calls'[s].from, b = calls'[s].to,
           \A u \in UnderWay' : PairOf(u)' = {a, b} => u = s,
           Lone(friends, a, b)', Lone(pending, a, b)', Prepared(calls[s])',
           {a, b} \notin failed' =>
              /\ AreFriends(a, b)' /\ calls'[s].at # "deleteRequest" =>
                    ~ Requested(a, b)' /\ ~ Requested(b, a)'
              /\ calls'[s].at \notin {"deleteRequest", "announceAdded", "announceRemoved"} =>
                    (AreFriends(a, b)' <=> {a, b} \in heard')
    PROVE  PairInv(a, b)'
<1>1. PairOf(s)' = {a, b}
  BY DEF PairOf
<1>2. \A steps : Busy(a, b, steps)' <=> calls'[s].at \in steps
  BY <1>1 DEF Busy
<1>3. {a, b} \notin failed' => Settled(a, b)'
  BY <1>2 DEF Settled
<1> QED
  BY <1>1, <1>3 DEF PairInv

\* What holds of the pair of the only call about it.
LEMMA PairNow ==
    ASSUME NEW s \in UnderWay, NEW a, NEW b, a = calls[s].from, b = calls[s].to,
           \A u \in UnderWay : PairOf(u) = {a, b} => u = s,
           PairInv(a, b), {a, b} \notin crossed
    PROVE  /\ Lone(friends, a, b) /\ Lone(pending, a, b) /\ Prepared(calls[s])
           /\ {a, b} \notin failed =>
              /\ AreFriends(a, b) /\ calls[s].at # "deleteRequest" =>
                    ~ Requested(a, b) /\ ~ Requested(b, a)
              /\ calls[s].at \notin {"deleteRequest", "announceAdded", "announceRemoved"} =>
                    (AreFriends(a, b) <=> {a, b} \in heard)
<1>1. PairOf(s) = {a, b}
  BY DEF PairOf
<1>2. \A steps : Busy(a, b, steps) <=> calls[s].at \in steps
  BY <1>1 DEF Busy
<1> QED
  BY <1>1, <1>2 DEF PairInv, Settled

\* One step of a call, seen from its pair.
LEMMA OwnPair ==
    ASSUME TypeOK, Alone, Orderly, NEW s \in Slots, Continue(s), NEW a \in Players, NEW b \in Players,
           a = calls[s].from, b = calls[s].to, {a, b} \notin crossed
    PROVE  PairInv(a, b)'
<1>1. s \in UnderWay /\ calls[s] \in CallSet /\ crossed' = crossed
  BY ContinueCalls
<1>2. \A u \in UnderWay : PairOf(u) = {a, b} => u = s
  BY <1>1 DEF Alone, PairOf
<1>3. PairInv(a, b)
  BY DEF Orderly
<1>4. /\ Lone(friends, a, b) /\ Lone(pending, a, b) /\ Prepared(calls[s])
      /\ {a, b} \notin failed =>
            /\ AreFriends(a, b) /\ calls[s].at # "deleteRequest" =>
                  ~ Requested(a, b) /\ ~ Requested(b, a)
            /\ calls[s].at \notin {"deleteRequest", "announceAdded", "announceRemoved"} =>
                  (AreFriends(a, b) <=> {a, b} \in heard)
  BY <1>1, <1>2, <1>3, PairNow
<1>5. \A u \in UnderWay' : PairOf(u)' = {a, b} => u = s
  BY <1>2, ContinueCalls DEF PairOf
<1>6. Return(s) => \A u \in UnderWay' : PairOf(u)' # {a, b}
  BY <1>5 DEF Return, UnderWay, TypeOK
<1>7. \A at \in Steps : Go(s, at) => /\ s \in UnderWay' /\ calls'[s].at = at
                                     /\ calls'[s].from = a /\ calls'[s].to = b
  <2> SUFFICES ASSUME NEW at \in Steps, Go(s, at)
               PROVE  /\ s \in UnderWay' /\ calls'[s].at = at
                      /\ calls'[s].from = a /\ calls'[s].to = b
    OBVIOUS
  <2>1. calls'[s] = [calls[s] EXCEPT !.at = at]
    BY <1>1 DEF Go, TypeOK
  <2>2. calls'[s].at = at /\ calls'[s].from = a /\ calls'[s].to = b /\ calls'[s] \in CallSet
    BY <1>1, <2>1 DEF CallSet
  <2>3. calls'[s] # NoCall
    BY <2>2 DEF CallSet, NoCall, Steps
  <2> QED
    BY <2>2, <2>3 DEF UnderWay
<1>8. AreFriends(a, b) <=> friends[<<a, b>>] > 0 \/ friends[<<b, a>>] > 0
  BY FriendsEither
<1>9. AreFriends(a, b)' <=> friends'[<<a, b>>] > 0 \/ friends'[<<b, a>>] > 0
  BY AboutEmpty DEF AreFriends
\* Nothing is written: the call returns or goes on prepared.
<1>10. ASSUME UNCHANGED <<friends, pending, heard>>, failed \subseteq failed',
              calls[s].at \notin {"deleteRequest", "announceAdded", "announceRemoved"}
                 \/ {a, b} \in failed',
              Return(s)
       PROVE  PairInv(a, b)'
  <2>1. (AreFriends(a, b)' <=> AreFriends(a, b)) /\ (Requested(a, b)' <=> Requested(a, b))
        /\ (Requested(b, a)' <=> Requested(b, a))
        /\ Lone(friends, a, b)' /\ Lone(pending, a, b)'
    BY <1>4, <1>8, <1>9, <1>10 DEF Requested, Lone
  <2> QED
    BY <1>4, <1>6, <1>10, <2>1, PairDone
<1>11. ASSUME UNCHANGED <<friends, pending, heard, failed>>, NEW at \in Steps, Go(s, at),
              {calls[s].at, at} \cap {"deleteRequest", "announceAdded", "announceRemoved"} = {},
              at \in Asking => ~ AreFriends(a, b),
              at \in {"isOpposite", "createFriend", "createRequest"} => ~ Requested(a, b),
              at = "createRequest" => ~ Requested(b, a),
              at = "createFriend" => Requested(b, a)
       PROVE  PairInv(a, b)'
  <2>1. /\ AreFriends(a, b)' <=> AreFriends(a, b)
        /\ Requested(a, b)' <=> Requested(a, b)
        /\ Requested(b, a)' <=> Requested(b, a)
        /\ Lone(friends, a, b)' /\ Lone(pending, a, b)'
    BY <1>4, <1>8, <1>9, <1>11 DEF Requested, Lone
  <2>2. s \in UnderWay' /\ calls'[s].at = at /\ calls'[s].from = a /\ calls'[s].to = b
    BY <1>7, <1>11
  <2>3. Prepared(calls[s])'
    BY <1>11, <2>1, <2>2 DEF Prepared
  <2> QED
    BY <1>4, <1>5, <1>11, <2>1, <2>2, <2>3, PairGoesOn
<1> USE DEF At
<1>12. CASE CheckBlocks(s)
  <2>1. calls[s].at = "getBlocks" /\ ~ AreFriends(a, b)
    BY <1>4, <1>12 DEF CheckBlocks, Prepared, Asking
  <2> QED
    BY <1>10, <1>11, <1>12, <2>1 DEF CheckBlocks, Steps, collections, history
<1>13. CASE CheckRequested(s)
  <2>1. calls[s].at = "isRequested" /\ ~ AreFriends(a, b)
    BY <1>4, <1>13 DEF CheckRequested, Prepared, Asking
  <2> QED
    BY <1>10, <1>11, <1>13, <2>1 DEF CheckRequested, Steps, collections, history, Requested
<1>14. CASE CheckOpposite(s)
  <2>1. calls[s].at = "isOpposite" /\ ~ AreFriends(a, b) /\ ~ Requested(a, b)
    BY <1>4, <1>14 DEF CheckOpposite, Prepared, Asking
  <2> QED
    BY <1>10, <1>11, <1>14, <2>1 DEF CheckOpposite, Steps, collections, history, Requested
<1>15. /\ <<a, b>> \in Pairs /\ <<b, a>> \in Pairs /\ PairOf(s) = {a, b}
       /\ a # b => <<a, b>> # <<b, a>>
  BY DEF Pairs, PairOf
<1>16. /\ friends \in [Pairs -> 0 .. 1] /\ pending \in [Pairs -> 0 .. 1]
  BY DEF TypeOK
<1>17. CASE CreateFriend(s)
  <2>1. calls[s].at = "createFriend" /\ ~ AreFriends(a, b) /\ ~ Requested(a, b) /\ Requested(b, a)
    BY <1>4, <1>17 DEF CreateFriend, Prepared, Asking
  <2>2. friends[<<a, b>>] = 0 /\ friends[<<b, a>>] = 0
    BY <1>8, <1>15, <1>16, <2>1
  <2>3. /\ friends' = Insert(friends, <<a, b>>) /\ Go(s, "deleteRequest")
        /\ UNCHANGED <<pending, failed>>
    BY <1>17, <2>2 DEF CreateFriend, Insertable, history
  <2>4. friends'[<<a, b>>] = 1 /\ (a # b => friends'[<<b, a>>] = 0)
    BY <1>15, <1>16, <2>2, <2>3 DEF Insert
  <2>5. /\ AreFriends(a, b)' /\ Lone(friends, a, b)' /\ Lone(pending, a, b)'
        /\ Requested(b, a)'
    BY <1>4, <1>9, <2>1, <2>3, <2>4 DEF Lone, Requested
  <2>6. s \in UnderWay' /\ calls'[s].at = "deleteRequest" /\ calls'[s].from = a /\ calls'[s].to = b
    BY <1>7, <2>3 DEF Steps
  <2>7. Prepared(calls[s])'
    BY <2>5, <2>6 DEF Prepared, Asking
  <2> QED
    BY <1>5, <2>5, <2>6, <2>7, PairGoesOn
<1>18. CASE DeleteRequest(s)
  <2>1. calls[s].at = "deleteRequest" /\ AreFriends(a, b) /\ Requested(b, a)
    BY <1>4, <1>18 DEF DeleteRequest, Prepared
  <2>2. About(pending, a, b) # {}
    BY <2>1, AboutEmpty DEF Requested
  <2>3. PICK x \in About(pending, a, b) : pending' = Delete(pending, x) /\ Go(s, "announceAdded")
    BY <1>18, <2>2 DEF DeleteRequest
  <2>4. UNCHANGED <<friends, failed>>
    BY <1>18 DEF DeleteRequest, history
  <2>5. x \in {<<a, b>>, <<b, a>>} /\ pending[x] > 0
    BY AboutType
  <2>6. ~ Requested(a, b)' /\ ~ Requested(b, a)'
    BY <1>4, <1>15, <1>16, <2>3, <2>5 DEF Requested, Lone, Delete
  <2>7. AreFriends(a, b)' /\ Lone(friends, a, b)' /\ Lone(pending, a, b)'
    <3>1. AreFriends(a, b)' /\ Lone(friends, a, b)'
      BY <1>4, <1>8, <1>9, <2>1, <2>4 DEF Lone
    <3>2. pending'[<<a, b>>] = 0 /\ pending'[<<b, a>>] = 0
      BY <1>4, <1>15, <1>16, <2>3, <2>5 DEF Lone, Delete
    <3> QED
      BY <3>1, <3>2 DEF Lone
  <2>8. s \in UnderWay' /\ calls'[s].at = "announceAdded" /\ calls'[s].from = a /\ calls'[s].to = b
    BY <1>7, <2>3 DEF Steps
  <2>9. Prepared(calls[s])'
    BY <2>7, <2>8 DEF Prepared, Asking
  <2> QED
    BY <1>5, <2>6, <2>7, <2>8, <2>9, PairGoesOn
<1>19. CASE AnnounceAdded(s)
  <2>1. calls[s].at = "announceAdded" /\ AreFriends(a, b)
    BY <1>4, <1>19 DEF AnnounceAdded, Prepared
  <2>2. UNCHANGED <<friends, pending, failed>> /\ {a, b} \in heard' /\ Return(s)
    BY <1>15, <1>19 DEF AnnounceAdded, collections, history
  <2>3. /\ AreFriends(a, b)' /\ Lone(friends, a, b)' /\ Lone(pending, a, b)'
        /\ Requested(a, b)' <=> Requested(a, b)
        /\ Requested(b, a)' <=> Requested(b, a)
    BY <1>4, <1>8, <1>9, <2>1, <2>2 DEF Lone, Requested
  <2> QED
    BY <1>4, <1>6, <2>1, <2>2, <2>3, PairDone
<1>20. CASE CreateRequest(s)
  <2>1. calls[s].at = "createRequest" /\ ~ AreFriends(a, b) /\ ~ Requested(a, b) /\ ~ Requested(b, a)
    BY <1>4, <1>20 DEF CreateRequest, Prepared, Asking
  <2>2. UNCHANGED <<friends, heard, failed>> /\ Return(s)
    BY <1>20 DEF CreateRequest, history
  <2>3. pending[<<a, b>>] = 0 /\ pending[<<b, a>>] = 0
    BY <1>15, <1>16, <2>1 DEF Requested
  <2>4. a # b => pending'[<<b, a>>] = 0
    BY <1>15, <1>16, <1>20, <2>3 DEF CreateRequest, Insert
  <2>5. ~ AreFriends(a, b)' /\ Lone(friends, a, b)' /\ Lone(pending, a, b)'
    BY <1>4, <1>8, <1>9, <2>1, <2>2, <2>4 DEF Lone
  <2> QED
    BY <1>4, <1>6, <2>1, <2>2, <2>5, PairDone
<1>21. CASE AnnounceRemoved(s)
  <2>1. calls[s].at = "announceRemoved" /\ ~ AreFriends(a, b)
    BY <1>4, <1>21 DEF AnnounceRemoved, Prepared
  <2>2. UNCHANGED <<friends, pending, failed>> /\ {a, b} \notin heard' /\ Return(s)
    BY <1>15, <1>21 DEF AnnounceRemoved, collections, history
  <2>3. ~ AreFriends(a, b)' /\ Lone(friends, a, b)' /\ Lone(pending, a, b)'
    BY <1>4, <1>8, <1>9, <2>1, <2>2 DEF Lone
  <2> QED
    BY <1>6, <2>2, <2>3, PairDone
<1>22. CASE CreatePlayerBlock(s)
  BY <1>10, <1>22 DEF CreatePlayerBlock, history
<1>23. CASE CallFails(s)
  <2>1. UNCHANGED <<friends, pending, heard>> /\ {a, b} \in failed' /\ failed \subseteq failed'
        /\ Return(s)
    BY <1>15, <1>23 DEF CallFails, collections
  <2> QED
    BY <1>10, <2>1
<1> QED
  BY <1>12, <1>13, <1>14, <1>17, <1>18, <1>19, <1>20, <1>21, <1>22, <1>23 DEF Continue

\* It leaves every other pair alone.
LEMMA OtherPairs ==
    ASSUME TypeOK, NEW s \in Slots, Continue(s), NEW a \in Players, NEW b \in Players,
           PairOf(s) # {a, b}
    PROVE  Untouched(a, b)
<1> DEFINE one == <<calls[s].from, calls[s].to>>
           other == <<calls[s].to, calls[s].from>>
<1>1. /\ s \in UnderWay /\ calls[s] \in CallSet /\ crossed' = crossed
      /\ Return(s) \/ \E at \in Steps : Go(s, at)
  BY ContinueCalls
<1>2. /\ one \in Pairs /\ other \in Pairs /\ <<a, b>> \in Pairs /\ <<b, a>> \in Pairs
      /\ <<a, b>> \notin {one, other} /\ <<b, a>> \notin {one, other}
  BY <1>1 DEF CallSet, Pairs, PairOf
<1>3. /\ \A x \in Pairs : friends'[x] = friends[x] \/ x = one
      /\ \A x \in Pairs : pending'[x] = pending[x] \/ x \in {one, other}
  BY <1>2, AboutType DEF Continue, CheckBlocks, CheckRequested, CheckOpposite, CreateFriend,
     DeleteRequest, AnnounceAdded, CreateRequest, AnnounceRemoved, CreatePlayerBlock, CallFails,
     collections, Insert, Delete, TypeOK, About
<1>4. {a, b} \in heard' <=> {a, b} \in heard
  BY DEF Continue, CheckBlocks, CheckRequested, CheckOpposite, CreateFriend, DeleteRequest,
     AnnounceAdded, CreateRequest, AnnounceRemoved, CreatePlayerBlock, CallFails
<1>5. failed \subseteq failed'
  BY DEF Continue, CheckBlocks, CheckRequested, CheckOpposite, CreateFriend, DeleteRequest,
     AnnounceAdded, CreateRequest, AnnounceRemoved, CreatePlayerBlock, CallFails, history
<1>6. \A u \in Slots : u # s => calls'[u] = calls[u]
  BY <1>1 DEF Return, Go, TypeOK
<1>7. ASSUME NEW u \in UnderWay, PairOf(u) = {a, b} PROVE u \in UnderWay' /\ calls'[u] = calls[u]
  BY <1>6, <1>7 DEF UnderWay
<1>8. ASSUME NEW u \in UnderWay', PairOf(u)' = {a, b} PROVE u \in UnderWay /\ calls'[u] = calls[u]
  <2>1. u # s
    BY <1>8, ContinueCalls DEF PairOf
  <2> QED
    BY <1>6, <1>8, <2>1 DEF UnderWay
<1> QED
  BY <1>1, <1>2, <1>3, <1>4, <1>5, <1>7, <1>8 DEF Untouched

\* Of a pair that has crossed nothing is said.
LEMMA PairCrossed == ASSUME NEW a, NEW b, {a, b} \in crossed' PROVE PairInv(a, b)'
BY DEF PairInv

\* Between calls.
LEMMA PairIdle ==
    ASSUME NEW a, NEW b, PairInv(a, b), {a, b} \notin crossed, \A s \in UnderWay : PairOf(s) # {a, b}
    PROVE  /\ Lone(friends, a, b) /\ Lone(pending, a, b)
           /\ {a, b} \notin failed =>
                 /\ AreFriends(a, b) => ~ Requested(a, b) /\ ~ Requested(b, a)
                 /\ AreFriends(a, b) <=> {a, b} \in heard
<1>1. \A steps : ~ Busy(a, b, steps)
  BY DEF Busy
<1> QED
  BY <1>1 DEF PairInv, Settled

\* A new call about the two, of which none was under way.
LEMMA OwnStart ==
    ASSUME TypeOK, Orderly, NEW s \in Slots, NEW a \in Players, NEW b \in Players, Start(s, a, b)
    PROVE  PairInv(a, b)'
<1> SUFFICES ASSUME {a, b} \notin crossed' PROVE PairInv(a, b)'
  BY PairCrossed
<1>1. /\ crossed \subseteq crossed' /\ \A t \in UnderWay : PairOf(t) # {a, b}
      /\ \A t \in UnderWay' : t # s => t \in UnderWay /\ calls'[t] = calls[t]
      /\ s \in UnderWay' /\ calls'[s].from = a /\ calls'[s].to = b
      /\ calls'[s].at = IF AddFriend(s, a, b) THEN "getBlocks"
                        ELSE IF RemoveFriend(s, a, b) THEN "announceRemoved"
                        ELSE "createBlock"
  BY StartCalls
<1>2. \A u \in UnderWay' : PairOf(u)' = {a, b} => u = s
  BY <1>1 DEF PairOf
<1>3. /\ Lone(friends, a, b) /\ Lone(pending, a, b)
      /\ {a, b} \notin failed =>
            /\ AreFriends(a, b) => ~ Requested(a, b) /\ ~ Requested(b, a)
            /\ AreFriends(a, b) <=> {a, b} \in heard
  BY <1>1, PairIdle DEF Orderly
<1>4. UNCHANGED <<pending, heard, failed>>
  BY DEF Start, AddFriend, RemoveFriend, CreateBlock, Begin, Meets, collections
<1>5. AreFriends(a, b) <=> friends[<<a, b>>] > 0 \/ friends[<<b, a>>] > 0
  BY FriendsEither
<1>6. AreFriends(a, b)' <=> friends'[<<a, b>>] > 0 \/ friends'[<<b, a>>] > 0
  BY AboutEmpty DEF AreFriends
<1>7. Lone(pending, a, b)'
  BY <1>3, <1>4 DEF Lone
<1>8. CASE AddFriend(s, a, b) \/ (CreateBlock(s, a, b) /\ ~ RemoveFriend(s, a, b))
  <2>1. UNCHANGED friends /\ ~ AreFriends(a, b)
    BY <1>8 DEF AddFriend, CreateBlock, collections
  <2>2. ~ AreFriends(a, b)' /\ Lone(friends, a, b)'
    BY <1>3, <1>5, <1>6, <2>1 DEF Lone
  <2>3. calls'[s].at \in {"getBlocks", "createBlock"}
    BY <1>1, <1>8
  <2>4. Prepared(calls[s])'
    BY <1>1, <2>2, <2>3 DEF Prepared
  <2> QED
    BY <1>1, <1>2, <1>3, <1>4, <1>7, <2>1, <2>2, <2>4, PairGoesOn
<1>9. CASE RemoveFriend(s, a, b) /\ ~ AddFriend(s, a, b)
  <2>1. PICK x \in About(friends, a, b) : friends' = Delete(friends, x)
    BY <1>9 DEF RemoveFriend
  <2>2. x \in {<<a, b>>, <<b, a>>} /\ friends[x] > 0
    BY AboutType
  <2>3. /\ <<a, b>> \in Pairs /\ <<b, a>> \in Pairs /\ (a # b => <<a, b>> # <<b, a>>)
        /\ friends \in [Pairs -> 0 .. 1]
    BY DEF Pairs, TypeOK
  <2>4. friends'[<<a, b>>] = 0 /\ friends'[<<b, a>>] = 0
    BY <1>3, <2>1, <2>2, <2>3 DEF Lone, Delete
  <2>5. ~ AreFriends(a, b)' /\ Lone(friends, a, b)'
    BY <1>6, <2>4 DEF Lone
  <2>6. calls'[s].at = "announceRemoved"
    BY <1>1, <1>9
  <2>7. Prepared(calls[s])'
    BY <1>1, <2>5, <2>6 DEF Prepared
  <2> QED
    BY <1>1, <1>2, <1>7, <2>5, <2>6, <2>7, PairGoesOn
<1> QED
  BY <1>8, <1>9 DEF Start

LEMMA OtherStart ==
    ASSUME TypeOK, NEW s \in Slots, NEW c \in Players, NEW d \in Players, Start(s, c, d),
           NEW a \in Players, NEW b \in Players, {c, d} # {a, b}
    PROVE  Untouched(a, b)
<1>1. UNCHANGED <<pending, heard, failed>>
  BY DEF Start, AddFriend, RemoveFriend, CreateBlock, Begin, Meets, collections
<1>2. \A x \in {<<a, b>>, <<b, a>>} : friends'[x] = friends[x]
  <2>1. CASE RemoveFriend(s, c, d)
    <3>1. PICK y \in About(friends, c, d) : friends' = Delete(friends, y)
      BY <2>1 DEF RemoveFriend
    <3>2. y \in {<<c, d>>, <<d, c>>}
      BY AboutType
    <3>3. y \notin {<<a, b>>, <<b, a>>}
      BY <3>2
    <3> QED
      BY <3>1, <3>3 DEF Delete, TypeOK, Pairs
  <2>2. CASE ~ RemoveFriend(s, c, d)
    BY <2>2 DEF Start, AddFriend, CreateBlock, collections
  <2> QED
    BY <2>1, <2>2
<1>3. /\ s \notin UnderWay /\ crossed \subseteq crossed'
      /\ \A t \in UnderWay' : t # s => t \in UnderWay /\ calls'[t] = calls[t]
      /\ calls'[s].from = c /\ calls'[s].to = d
  BY StartCalls
<1>4. ASSUME NEW u \in UnderWay PROVE u \in UnderWay' /\ calls'[u] = calls[u]
  <2>1. u # s
    BY <1>3
  <2>2. calls'[u] = calls[u]
    BY <2>1 DEF Start, AddFriend, RemoveFriend, CreateBlock, Begin, UnderWay, TypeOK
  <2> QED
    BY <2>2 DEF UnderWay
<1>5. ASSUME NEW u \in UnderWay', PairOf(u)' = {a, b} PROVE u \in UnderWay /\ calls'[u] = calls[u]
  BY <1>3, <1>5 DEF PairOf
<1> QED
  BY <1>1, <1>2, <1>3, <1>4, <1>5 DEF Untouched

\* A call of one step takes requests back, or meets a call under way.
LEMMA PairAtOnce ==
    ASSUME TypeOK, Orderly, NEW c \in Players, NEW d \in Players,
           AtOnce(c, d) \/ \E incoming \in BOOLEAN : MassDenyFriendRequest(c, incoming),
           NEW a \in Players, NEW b \in Players
    PROVE  PairInv(a, b)'
<1>1. UNCHANGED <<friends, calls, heard, failed>> /\ crossed \subseteq crossed'
  BY DEF AtOnce, DenyFriendRequest, DeleteBlock, MassDenyFriendRequest, Meets
<1>2. \A x \in {<<a, b>>, <<b, a>>} : pending'[x] \in {0, pending[x]}
  <2>1. CASE DenyFriendRequest(c, d)
    <3>1. PICK y \in About(pending, c, d) : pending' = Delete(pending, y)
      BY <2>1 DEF DenyFriendRequest
    <3>2. y \in Pairs /\ pending[y] > 0
      BY AboutType
    <3> QED
      BY <3>1, <3>2 DEF Delete, TypeOK, Pairs
  <2>2. CASE \E incoming \in BOOLEAN : MassDenyFriendRequest(c, incoming)
    BY <2>2 DEF MassDenyFriendRequest, Pairs
  <2>3. CASE DeleteBlock(c, d)
    BY <2>3 DEF DeleteBlock
  <2> QED
    BY <2>1, <2>2, <2>3 DEF AtOnce
<1>3. \/ \A x \in {<<a, b>>, <<b, a>>} : pending'[x] = pending[x]
      \/ {a, b} \in crossed'
      \/ \A s \in UnderWay : PairOf(s) # {a, b}
  <2> SUFFICES ASSUME NEW x \in {<<a, b>>, <<b, a>>}, pending'[x] # pending[x],
                      NEW s \in UnderWay, PairOf(s) = {a, b}
               PROVE  {a, b} \in crossed'
    OBVIOUS
  <2>1. CASE DenyFriendRequest(c, d)
    <3>1. PICK y \in About(pending, c, d) : pending' = Delete(pending, y)
      BY <2>1 DEF DenyFriendRequest
    <3>2. x = y /\ y \in {<<c, d>>, <<d, c>>}
      BY <3>1, AboutType DEF Delete, TypeOK, Pairs
    <3>3. {c, d} = {a, b}
      BY <3>2
    <3> QED
      BY <2>1, <3>3 DEF DenyFriendRequest, Meets
  <2>2. ASSUME NEW incoming \in BOOLEAN, MassDenyFriendRequest(c, incoming)
        PROVE  {a, b} \in crossed'
    <3>1. PICK denied : /\ pending' = [y \in Pairs |-> IF y \in denied THEN 0 ELSE pending[y]]
                        /\ Meets({{y[1], y[2]} : y \in denied})
      BY <2>2 DEF MassDenyFriendRequest
    <3>2. x \in denied /\ {x[1], x[2]} = {a, b}
      BY <3>1 DEF Pairs
    <3>3. {a, b} \in {{y[1], y[2]} : y \in denied}
      BY <3>2
    <3> QED
      BY <3>1, <3>3 DEF Meets
  <2>3. CASE DeleteBlock(c, d)
    BY <2>3 DEF DeleteBlock
  <2> QED
    BY <2>1, <2>2, <2>3 DEF AtOnce
<1>4. CASE \A x \in {<<a, b>>, <<b, a>>} : pending'[x] = pending[x]
  <2>1. Untouched(a, b)
    BY <1>1, <1>4 DEF Untouched, UnderWay, PairOf
  <2> QED
    BY <2>1, PairStays DEF Orderly
<1>5. CASE {a, b} \in crossed'
  BY <1>5, PairCrossed
<1>6. CASE {a, b} \notin crossed' /\ \A s \in UnderWay : PairOf(s) # {a, b}
  <2>1. /\ Lone(friends, a, b) /\ Lone(pending, a, b)
        /\ {a, b} \notin failed =>
              /\ AreFriends(a, b) => ~ Requested(a, b) /\ ~ Requested(b, a)
              /\ AreFriends(a, b) <=> {a, b} \in heard
    BY <1>1, <1>6, PairIdle DEF Orderly
  <2>2. /\ AreFriends(a, b)' <=> AreFriends(a, b)
        /\ Lone(friends, a, b)' /\ Lone(pending, a, b)'
        /\ Requested(a, b)' => Requested(a, b)
        /\ Requested(b, a)' => Requested(b, a)
    <3>1. AreFriends(a, b)' <=> AreFriends(a, b)
      BY <1>1 DEF AreFriends, About
    <3> QED
      BY <1>1, <1>2, <2>1, <3>1 DEF Lone, Requested
  <2>3. \A s \in UnderWay' : PairOf(s)' # {a, b}
    BY <1>1, <1>6 DEF UnderWay, PairOf
  <2> QED
    BY <1>1, <2>1, <2>2, <2>3, PairDone
<1> QED
  BY <1>3, <1>4, <1>5, <1>6

LEMMA OrderlyNext ==
    ASSUME TypeOK, Alone, Orderly, [Next]_vars
    PROVE  Orderly'
<1> SUFFICES ASSUME NEW a \in Players, NEW b \in Players PROVE PairInv(a, b)'
  BY DEF Orderly
<1>1. PairInv(a, b)
  BY DEF Orderly
<1>2. ASSUME NEW s \in Slots, NEW c \in Players, NEW d \in Players, Start(s, c, d)
      PROVE  PairInv(a, b)'
  <2>1. CASE {c, d} = {a, b}
    <3>1. PairInv(c, d)'
      BY <1>2, OwnStart
    <3>2. (c = a /\ d = b) \/ (c = b /\ d = a)
      BY <2>1
    <3> QED
      BY <3>1, <3>2, PairSymmetryNext
  <2>2. CASE {c, d} # {a, b}
    BY <1>1, <1>2, <2>2, OtherStart, PairStays
  <2> QED
    BY <2>1, <2>2
<1>3. ASSUME NEW s \in Slots, Continue(s) PROVE PairInv(a, b)'
  <2>1. s \in UnderWay /\ calls[s] \in CallSet /\ crossed' = crossed
    BY <1>3, ContinueCalls
  <2>2. CASE PairOf(s) = {a, b} /\ {a, b} \notin crossed
    <3>1. PICK c \in Players, d \in Players : c = calls[s].from /\ d = calls[s].to
      BY <2>1 DEF CallSet
    <3>2. (c = a /\ d = b) \/ (c = b /\ d = a)
      BY <2>2, <3>1 DEF PairOf
    <3>3. {c, d} \notin crossed
      BY <2>2, <3>2
    <3>4. PairInv(c, d)'
      BY <1>3, <3>1, <3>3, OwnPair
    <3> QED
      BY <3>2, <3>4, PairSymmetryNext
  <2>3. CASE {a, b} \in crossed
    BY <2>1, <2>3, PairCrossed
  <2>4. CASE PairOf(s) # {a, b}
    BY <1>1, <1>3, <2>4, OtherPairs, PairStays
  <2> QED
    BY <2>2, <2>3, <2>4
<1>4. ASSUME NEW c \in Players, NEW d \in Players,
             AtOnce(c, d) \/ \E incoming \in BOOLEAN : MassDenyFriendRequest(c, incoming)
      PROVE  PairInv(a, b)'
  BY <1>4, PairAtOnce
<1>5. CASE UNCHANGED vars
  <2>1. Untouched(a, b)
    BY <1>5 DEF vars, collections, history, Untouched, UnderWay, PairOf
  <2> QED
    BY <1>1, <2>1, PairStays
<1> QED
  BY <1>2, <1>3, <1>4, <1>5 DEF Next

LEMMA Orderliness == Spec => [](TypeOK /\ Orderly)
<1>1. Init => Alone /\ Orderly
  <2> SUFFICES ASSUME Init PROVE Alone /\ Orderly
    OBVIOUS
  <2>1. UnderWay = {} /\ Alone
    BY DEF Init, UnderWay, Alone
  <2>2. ASSUME NEW a \in Players, NEW b \in Players PROVE PairInv(a, b)
    <3>1. <<a, b>> \in Pairs /\ <<b, a>> \in Pairs
      BY DEF Pairs
    <3>2. /\ friends[<<a, b>>] = 0 /\ friends[<<b, a>>] = 0
          /\ pending[<<a, b>>] = 0 /\ pending[<<b, a>>] = 0 /\ heard = {}
      BY <3>1 DEF Init
    <3>3. ~ AreFriends(a, b)
      BY <3>2, FriendsEither
    <3> QED
      BY <2>1, <3>2, <3>3 DEF PairInv, Settled, Lone
  <2> QED
    BY <2>1, <2>2 DEF Orderly
<1>2. TypeOK /\ Alone /\ Orderly /\ [Next]_vars => Alone' /\ Orderly'
  BY AloneStep, OrderlyNext
<1> QED
  BY <1>1, <1>2, TypeCorrect, PTL DEF Spec

\* Two players whose calls never cross have one friendship and one request at most,
\* however many other calls interleave and whichever fail.
THEOREM OneOfEach == Spec => []OneDocument
<1>1. TypeOK /\ Orderly => OneDocument
  <2> SUFFICES ASSUME Orderly, NEW a \in Players, NEW b \in Players, {a, b} \notin crossed
               PROVE  /\ Cardinality(About(friends, a, b)) <= 1
                      /\ Cardinality(About(pending, a, b)) <= 1
    BY DEF OneDocument
  <2>1. Lone(friends, a, b) /\ Lone(pending, a, b)
    BY DEF Orderly, PairInv
  <2>2. ASSUME NEW coll, Lone(coll, a, b) PROVE Cardinality(About(coll, a, b)) <= 1
    <3>1. PICK x : About(coll, a, b) = {} \/ About(coll, a, b) = {x}
      BY <2>2 DEF Lone, About
    <3>2. Cardinality({}) = 0 /\ Cardinality({x}) = 1
      BY FS_EmptySet, FS_Singleton
    <3> QED
      BY <3>1, <3>2
  <2> QED
    BY <2>1, <2>2
<1> QED
  BY <1>1, Orderliness, PTL

\* No request is left between friends whose calls neither crossed nor failed.
THEOREM NoRequestLeft == Spec => []RequestsSettled
<1>1. TypeOK /\ Orderly => RequestsSettled
  <2> SUFFICES ASSUME Orderly, NEW a \in Players, NEW b \in Players, AreFriends(a, b),
                      {a, b} \notin crossed \cup failed,
                      \A s \in UnderWay : PairOf(s) = {a, b} => ~ At(s, "deleteRequest")
               PROVE  About(pending, a, b) = {}
    BY DEF RequestsSettled
  <2>1. ~ Busy(a, b, {"deleteRequest"})
    BY DEF Busy, At
  <2>2. ~ Requested(a, b) /\ ~ Requested(b, a)
    BY <2>1 DEF Orderly, PairInv, Settled
  <2> QED
    BY <2>2, AboutEmpty DEF Requested
<1> QED
  BY <1>1, Orderliness, PTL

\* Friend lists are mutual and the topic says the same, for players whose calls neither
\* crossed nor failed, once the last of them is over.
THEOREM TopicTellsFriends == Spec => []ListenersAgree
<1>1. TypeOK /\ Orderly => ListenersAgree
  <2> SUFFICES ASSUME Orderly, NEW a \in Players, NEW b \in Players,
                      {a, b} \notin crossed \cup failed, \A s \in UnderWay : PairOf(s) # {a, b}
               PROVE  b \in FriendsOf(a) <=> {a, b} \in heard
    BY DEF ListenersAgree
  <2>1. AreFriends(a, b) <=> {a, b} \in heard
    BY PairIdle DEF Orderly
  <2>2. b \in FriendsOf(a) <=> AreFriends(a, b)
    <3>1. ASSUME b \in FriendsOf(a) PROVE AreFriends(a, b)
      <4>1. PICK x \in Pairs : /\ friends[x] > 0 /\ a \in {x[1], x[2]}
                               /\ b = IF x[1] = a THEN x[2] ELSE x[1]
        BY <3>1 DEF FriendsOf, FriendConnections
      <4>2. x = <<a, b>> \/ x = <<b, a>>
        BY <4>1 DEF Pairs
      <4> QED
        BY <4>1, <4>2, FriendsEither
    <3>2. ASSUME AreFriends(a, b) PROVE b \in FriendsOf(a)
      <4>1. PICK x \in {<<a, b>>, <<b, a>>} : friends[x] > 0
        BY <3>2, FriendsEither
      <4>2. x \in FriendConnections(a) /\ b = IF x[1] = a THEN x[2] ELSE x[1]
        BY <4>1 DEF FriendConnections, Pairs
      <4> QED
        BY <4>2 DEF FriendsOf
    <3> QED
      BY <3>1, <3>2
  <2> QED
    BY <2>1, <2>2
<1> QED
  BY <1>1, Orderliness, PTL

=============================================================================
