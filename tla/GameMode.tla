------------------------------- MODULE GameMode -------------------------------
(* What the match functions know of a game mode (GameModeConfig).            *)
EXTENDS Integers, FiniteSetsExt

CONSTANTS MinPlayers,  \* fewest players of a match
          MaxPlayers   \* most players of a match

ASSUME GameModeAssumption == /\ MinPlayers \in Nat \ {0}
                             /\ MaxPlayers \in Nat
                             /\ MinPlayers <= MaxPlayers

\* The players of the tickets of T, where size maps a ticket to its players.
Total(size, T) == MapThenSumSet(LAMBDA t : size[t], T)

=============================================================================
