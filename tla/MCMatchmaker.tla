---------------------------- MODULE MCMatchmaker ----------------------------
(* Instances of the matchmaker's queue.  Ids of a pool are interchangeable,   *)
(* and so are players when the members of every party may dequeue it.         *)
EXTENDS Matchmaker, TLC

Ids == Permutations(PartyIds) \cup Permutations(TicketIds) \cup Permutations(PendingMatchIds)
PlayersAndIds == Ids \cup Permutations(Players) \cup Permutations(Maps)

\* The parties a behaviour starts with are named in one way: FirstParty is that
\* of FirstPlayer.
FirstPlayer == CHOOSE p \in Players : TRUE
FirstParty == CHOOSE c \in PartyIds : TRUE
OneNaming == /\ partyChanges = 0 =>
                   \A c \in DOMAIN parties : FirstPlayer \in parties[c].members => c = FirstParty
=============================================================================
