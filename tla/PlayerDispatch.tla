--------------------------- MODULE PlayerDispatch ---------------------------
(***************************************************************************)
(* What the lobby and proxy controllers of the matchmaker promise, without *)
(* saying how: a player who asks to be placed waits, is taken into a batch *)
(* together with everyone else who waits, and leaves the batch in exactly  *)
(* one announced match, of a size the controller may form.  Nobody leaves  *)
(* a batch unannounced unless the service is shutting down.                *)
(*                                                                         *)
(* SimpleController is the detailed specification that implements this one. *)
(***************************************************************************)
CONSTANTS Players,   \* players that may ask for a lobby (or a proxy)
          MatchSets  \* the sets of players that one match may be for

VARIABLES waiting,    \* player |-> autoTeleport, asked and not taken yet
          taken,      \* player |-> autoTeleport, taken and not announced yet
          lastMatch,  \* player |-> autoTeleport, the last match announced
          stopping    \* the service is shutting down

vars == <<waiting, taken, lastMatch, stopping>>

Without(f, S) == [p \in DOMAIN f \ S |-> f[p]]

NoPlayers == [p \in {} |-> FALSE]

Init == /\ waiting = NoPlayers
        /\ taken = NoPlayers
        /\ lastMatch = NoPlayers
        /\ stopping = FALSE

\* A later request of the same player replaces the flag of the earlier one.
Request(p, autoTeleport) ==
    /\ waiting' = [q \in DOMAIN waiting \cup {p} |->
                      IF q = p THEN autoTeleport ELSE waiting[q]]
    /\ UNCHANGED <<taken, lastMatch, stopping>>

Take == /\ DOMAIN taken = {}
        /\ taken' = waiting
        /\ waiting' = NoPlayers
        /\ UNCHANGED <<lastMatch, stopping>>

Dispatch(S) ==
    /\ S \in MatchSets
    /\ lastMatch' = [p \in S |-> taken[p]]
    /\ taken' = Without(taken, S)
    /\ UNCHANGED <<waiting, stopping>>

Lose(S) ==
    /\ stopping
    /\ taken' = Without(taken, S)
    /\ UNCHANGED <<waiting, lastMatch, stopping>>

Stop == /\ stopping' = TRUE
        /\ UNCHANGED <<waiting, taken, lastMatch>>

Next == \/ \E p \in Players, a \in BOOLEAN : Request(p, a)
        \/ Take
        \/ \E S \in SUBSET DOMAIN taken : Dispatch(S) \/ Lose(S)
        \/ Stop

Spec == Init /\ [][Next]_vars

=============================================================================
