--------------------------- MODULE MCGameTracker ----------------------------
(***************************************************************************)
(* Small instances of the two services that only listen to game servers:   *)
(* the game tracker with two games of block sumo and one of tower defence, *)
(* and the data of players.                                                *)
(***************************************************************************)
EXTENDS GameServices, TLC

CONSTANTS sumo1, sumo2, tower   \* games

SomeMode == sumo1 :> "blockSumo" @@ sumo2 :> "blockSumo" @@ tower :> "towerDefence"

Symmetry == Permutations({sumo1, sumo2})

=============================================================================
