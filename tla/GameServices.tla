---------------------------- MODULE GameServices ----------------------------
(***************************************************************************)
(* The two services that only listen to game servers, side by side: the    *)
(* game tracker and the data of players.  They share no topic and no       *)
(* collection, so either is described while the other is at rest.          *)
(***************************************************************************)
EXTENDS GameTracker

CONSTANTS Players,
          MaxUpdates            \* bound: updates of a player in a mode

VARIABLES updated, updates, documents, saving, outOfOrder, lost, faults,
          running               \* the service that is not at rest

playerDataVars == <<updated, updates, documents, saving, outOfOrder, lost, faults>>

PlayerData == INSTANCE GamePlayerData WITH MaxSent <- MaxUpdates

InitBoth == Init /\ PlayerData!Init /\ running \in {"games", "players"}

NextEither ==
    /\ \/ running = "games" /\ Next /\ UNCHANGED playerDataVars
       \/ running = "players" /\ PlayerData!Next /\ UNCHANGED vars
    /\ UNCHANGED running

SpecBoth == InitBoth /\ [][NextEither]_<<vars, playerDataVars, running>>

\* The property of GamePlayerData: the data of a player who is not being updated
\* are, field by field, those last sent for him, whichever fields came together.
FieldsAsSent == PlayerData!FieldsAsSent

=============================================================================
