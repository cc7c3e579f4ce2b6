--------------------------- MODULE Relationships ---------------------------
(***************************************************************************)
(* The relationship manager: friends, friend requests and blocks           *)
(* (relationship-manager/internal/service, repository and kafka).          *)
(*                                                                         *)
(* Calls run interleaved, one repository call a step.  Calls that make one *)
(* repository call only are one step.  The goroutine that announces a new  *)
(* friendship is the last step of its call.  A call that ends early leaves *)
(* what it has written.                                                    *)
(***************************************************************************)
EXTENDS Integers, FiniteSets

CONSTANTS Players,
          Contacts,     \* bound: <<a, b>> when a asks something of b
          Slots,        \* bound: names of the calls under way at once
          MaxFailures   \* bound: pairs of players whose calls may fail

ASSUME RelationshipAssumption == Contacts \subseteq Players \X Players /\ MaxFailures \in Nat

VARIABLES
    friends,   \* collection friend: <<one, two>> |-> number of documents
    pending,   \* collection pendingFriend: <<requester, target>> |-> likewise
    blocks,    \* collection block: <<blocker, blocked>> |-> likewise
    calls,     \* slot |-> the call under way
    heard,     \* pairs of which the topic said last that they are friends
    asked,     \* history: <<a, b>> when a has asked b to be a friend
    crossed,   \* history: pairs two calls about which were under way at once
    failed     \* history: pairs a call about which has failed

collections == <<friends, pending, blocks>>
history == <<asked, crossed, failed>>
vars == <<collections, calls, heard, history>>

-----------------------------------------------------------------------------
(* The collections.                                                        *)

Pairs == Players \X Players

\* The documents of a collection about a and b, whoever comes first.
About(coll, a, b) == {x \in {<<a, b>>, <<b, a>>} : coll[x] > 0}

\* Faulty variant: the unique index on the two players is missing.
InsertedTwice(coll, x) == coll[x] < 2

\* The unique index on the two players, in this order, allows an insert.
Insertable(coll, x) == coll[x] = 0

Insert(coll, x) == [coll EXCEPT ![x] = @ + 1]
Delete(coll, x) == [coll EXCEPT ![x] = @ - 1]

AreFriends(a, b) == About(friends, a, b) # {}

\* The friendships of p, on either side.
FriendConnections(p) == {x \in Pairs : friends[x] > 0 /\ p \in {x[1], x[2]}}

\* The list of friends; those told when p connects or disconnects are in it.
FriendsOf(p) == {IF x[1] = p THEN x[2] ELSE x[1] : x \in FriendConnections(p)}

\* a has asked b.
PendingExists(a, b) == pending[<<a, b>>] > 0

\* A request is deleted whoever of the two made it.
DeletePending(a, b) == \E x \in About(pending, a, b) : pending' = Delete(pending, x)

\* The requests to a, or those of a.
PendingOf(a, incoming) == {x \in Pairs : pending[x] > 0 /\ a = IF incoming THEN x[2] ELSE x[1]}

\* The block that IsBlocked shows to a.
IsBlocked(a, b) == LET found == About(blocks, a, b)
                   IN  IF Cardinality(found) > 1 THEN {x \in found : x[2] = a} ELSE found

\* The block of a; one of b stays.
DeletePlayerBlock(a, b) == blocks[<<a, b>>] > 0 /\ blocks' = Delete(blocks, <<a, b>>)

\* The relationship topic.
FriendAdded(pair) == heard' = heard \cup {pair}
FriendRemoved(pair) == heard' = heard \ {pair}

-----------------------------------------------------------------------------
(* Calls.                                                                  *)

Steps == {"getBlocks", "isRequested", "isOpposite", "createFriend", "deleteRequest",
          "announceAdded", "createRequest", "announceRemoved", "createBlock"}

NoCall == [at |-> "idle"]
Call(a, b, at) == [from |-> a, to |-> b, at |-> at]

At(s, at) == calls[s].at = at
UnderWay == {s \in Slots : calls[s] # NoCall}
PairOf(s) == {calls[s].from, calls[s].to}

\* A new call about these pairs meets the calls under way.
Meets(pairs) == /\ crossed' = crossed \cup (pairs \cap {PairOf(s) : s \in UnderWay})
                /\ UNCHANGED failed

Begin(s, a, b, at) == /\ <<a, b>> \in Contacts
                      /\ calls[s] = NoCall
                      /\ calls' = [calls EXCEPT ![s] = Call(a, b, at)]
                      /\ Meets({{a, b}})

Go(s, at) == calls' = [calls EXCEPT ![s].at = at]
Return(s) == calls' = [calls EXCEPT ![s] = NoCall]

Init == /\ friends = [x \in Pairs |-> 0]
        /\ pending = [x \in Pairs |-> 0]
        /\ blocks = [x \in Pairs |-> 0]
        /\ calls = [s \in Slots |-> NoCall]
        /\ heard = {} /\ asked = {} /\ crossed = {} /\ failed = {}

-----------------------------------------------------------------------------
(* AddFriend.  Every check but the last may end the call with a reply.     *)

AddFriend(s, a, b) ==
    /\ ~ AreFriends(a, b)
    /\ Begin(s, a, b, "getBlocks")
    /\ asked' = asked \cup {<<a, b>>}
    /\ UNCHANGED <<collections, heard>>

CheckBlocks(s) ==
    /\ At(s, "getBlocks")
    /\ IF About(blocks, calls[s].from, calls[s].to) = {} THEN Go(s, "isRequested") ELSE Return(s)
    /\ UNCHANGED <<collections, heard, history>>

\* Faulty variant: the target's own request is not looked for.
CheckRequestedOnly(s) ==
    /\ At(s, "isRequested")
    /\ IF PendingExists(calls[s].from, calls[s].to) THEN Return(s) ELSE Go(s, "createRequest")
    /\ UNCHANGED <<collections, heard, history>>

CheckRequested(s) ==
    /\ At(s, "isRequested")
    /\ IF PendingExists(calls[s].from, calls[s].to) THEN Return(s) ELSE Go(s, "isOpposite")
    /\ UNCHANGED <<collections, heard, history>>

\* Faulty variant: the players are not exchanged.
CheckOwnRequest(s) ==
    /\ At(s, "isOpposite")
    /\ Go(s, IF PendingExists(calls[s].from, calls[s].to) THEN "createFriend"
             ELSE "createRequest")
    /\ UNCHANGED <<collections, heard, history>>

CheckOpposite(s) ==
    /\ At(s, "isOpposite")
    /\ Go(s, IF PendingExists(calls[s].to, calls[s].from) THEN "createFriend"
             ELSE "createRequest")
    /\ UNCHANGED <<collections, heard, history>>

\* Faulty variant: the request stays.
CreateFriendOnly(s) ==
    /\ At(s, "createFriend")
    /\ LET x == <<calls[s].from, calls[s].to>>
       IN  /\ Insertable(friends, x)
           /\ friends' = Insert(friends, x)
           /\ Go(s, "announceAdded")
    /\ UNCHANGED <<pending, blocks, heard, history>>

CreateFriend(s) ==
    /\ At(s, "createFriend")
    /\ LET x == <<calls[s].from, calls[s].to>>
       IN  IF Insertable(friends, x)
           THEN friends' = Insert(friends, x) /\ Go(s, "deleteRequest")
           ELSE UNCHANGED friends /\ Return(s)
    /\ UNCHANGED <<pending, blocks, heard, history>>

\* The request of either of the two; none is an error.
DeleteRequest(s) ==
    /\ At(s, "deleteRequest")
    /\ \/ DeletePending(calls[s].from, calls[s].to) /\ Go(s, "announceAdded")
       \/ /\ About(pending, calls[s].from, calls[s].to) = {}
          /\ UNCHANGED pending /\ Return(s)
    /\ UNCHANGED <<friends, blocks, heard, history>>

AnnounceAdded(s) ==
    /\ At(s, "announceAdded")
    /\ FriendAdded(PairOf(s))
    /\ Return(s)
    /\ UNCHANGED <<collections, history>>

CreateRequest(s) ==
    /\ At(s, "createRequest")
    /\ LET x == <<calls[s].from, calls[s].to>>
       IN  pending' = IF Insertable(pending, x) THEN Insert(pending, x) ELSE pending
    /\ Return(s)
    /\ UNCHANGED <<friends, blocks, heard, history>>

-----------------------------------------------------------------------------
(* The other calls.                                                        *)

\* Faulty variant: the friend is not told.
RemoveFriendSilently(s, a, b) ==
    /\ <<a, b>> \in Contacts
    /\ \E x \in About(friends, a, b) : friends' = Delete(friends, x)
    /\ Meets({{a, b}})
    /\ UNCHANGED <<pending, blocks, calls, heard, asked>>

RemoveFriend(s, a, b) ==
    /\ \E x \in About(friends, a, b) : friends' = Delete(friends, x)
    /\ Begin(s, a, b, "announceRemoved")
    /\ UNCHANGED <<pending, blocks, heard, asked>>

AnnounceRemoved(s) ==
    /\ At(s, "announceRemoved")
    /\ FriendRemoved(PairOf(s))
    /\ Return(s)
    /\ UNCHANGED <<collections, history>>

\* The target denies the request, or the requester takes it back.
DenyFriendRequest(a, b) ==
    /\ <<a, b>> \in Contacts
    /\ DeletePending(a, b)
    /\ Meets({{a, b}})
    /\ UNCHANGED <<friends, blocks, calls, heard, asked>>

\* All requests of one direction are denied.
MassDenyFriendRequest(a, incoming) ==
    /\ LET denied == PendingOf(a, incoming)
       IN  /\ denied # {}
           /\ pending' = [x \in Pairs |-> IF x \in denied THEN 0 ELSE pending[x]]
           /\ Meets({{x[1], x[2]} : x \in denied})
    /\ UNCHANGED <<friends, blocks, calls, heard, asked>>

\* Faulty variant: friends are not looked for.
BlockAnybody(s, a, b) ==
    /\ Begin(s, a, b, "createBlock")
    /\ UNCHANGED <<collections, heard, asked>>

CreateBlock(s, a, b) ==
    /\ ~ AreFriends(a, b)
    /\ Begin(s, a, b, "createBlock")
    /\ UNCHANGED <<collections, heard, asked>>

CreatePlayerBlock(s) ==
    /\ At(s, "createBlock")
    /\ LET x == <<calls[s].from, calls[s].to>>
       IN  blocks' = IF Insertable(blocks, x) THEN Insert(blocks, x) ELSE blocks
    /\ Return(s)
    /\ UNCHANGED <<friends, pending, heard, history>>

DeleteBlock(a, b) ==
    /\ <<a, b>> \in Contacts
    /\ DeletePlayerBlock(a, b)
    /\ Meets({{a, b}})
    /\ UNCHANGED <<friends, pending, calls, heard, asked>>

\* A repository call returns an error or the process dies: the call ends here.
CallFails(s) ==
    /\ s \in UnderWay
    /\ PairOf(s) \in failed \/ Cardinality(failed) < MaxFailures
    /\ failed' = failed \cup {PairOf(s)}
    /\ Return(s)
    /\ UNCHANGED <<collections, heard, asked, crossed>>

-----------------------------------------------------------------------------

Start(s, a, b) == AddFriend(s, a, b) \/ RemoveFriend(s, a, b) \/ CreateBlock(s, a, b)

Continue(s) ==
    \/ CheckBlocks(s) \/ CheckRequested(s) \/ CheckOpposite(s)
    \/ CreateFriend(s) \/ DeleteRequest(s) \/ AnnounceAdded(s) \/ CreateRequest(s)
    \/ AnnounceRemoved(s) \/ CreatePlayerBlock(s)
    \/ CallFails(s)

AtOnce(a, b) == DenyFriendRequest(a, b) \/ DeleteBlock(a, b)

Next ==
    \/ \E s \in Slots, a \in Players, b \in Players : Start(s, a, b)
    \/ \E s \in Slots : Continue(s)
    \/ \E a \in Players, b \in Players : AtOnce(a, b)
    \/ \E a \in Players, incoming \in BOOLEAN : MassDenyFriendRequest(a, incoming)

Spec == Init /\ [][Next]_vars

-----------------------------------------------------------------------------
(* Properties.                                                             *)

\* The state is well typed; no collection has two documents about the same two
\* players in the same order, whatever calls run at once (the unique indexes).
TypeOK == /\ friends \in [Pairs -> 0 .. 1]
          /\ pending \in [Pairs -> 0 .. 1]
          /\ blocks \in [Pairs -> 0 .. 1]
          /\ calls \in [Slots -> [from : Players, to : Players, at : Steps] \cup {NoCall}]
          /\ heard \subseteq SUBSET Players
          /\ asked \subseteq Pairs
          /\ crossed \subseteq SUBSET Players
          /\ failed \subseteq SUBSET Players

\* Nobody becomes a friend of somebody he has not asked himself, whatever calls
\* cross or fail: AddFriend accepts only a request it has seen.
FriendsConsented == \A x \in Pairs : friends[x] > 0 => {x, <<x[2], x[1]>>} \subseteq asked

\* Players whose calls never cross are never friends and shown a block of one by
\* the other: AddFriend looks for blocks, CreateBlock for the friendship.
FriendsUnblocked ==
    \A a, b \in Players :
        AreFriends(a, b) /\ {a, b} \notin crossed => IsBlocked(a, b) = {}

\* Two players whose calls never cross have one friendship or one request at
\* most, so that RemoveFriend and DenyFriendRequest really end it.
OneDocument ==
    \A a, b \in Players :
        {a, b} \notin crossed => /\ Cardinality(About(friends, a, b)) <= 1
                                 /\ Cardinality(About(pending, a, b)) <= 1

\* No request is left between friends whose calls neither crossed nor failed,
\* once the call that accepted it has deleted it.
RequestsSettled ==
    \A a, b \in Players :
        /\ AreFriends(a, b) /\ {a, b} \notin crossed \cup failed
        /\ \A s \in UnderWay : PairOf(s) = {a, b} => ~ At(s, "deleteRequest")
        => About(pending, a, b) = {}

\* The relationship topic and the friend lists, and so who is told of a
\* connection, agree on who is a friend of whom and are mutual, unless calls about
\* the two crossed or failed, or one is still under way.
ListenersAgree ==
    \A a, b \in Players :
        /\ {a, b} \notin crossed \cup failed
        /\ \A s \in UnderWay : PairOf(s) # {a, b}
        => (b \in FriendsOf(a) <=> {a, b} \in heard)

=============================================================================
