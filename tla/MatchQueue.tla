----------------------------- MODULE MatchQueue -----------------------------
(***************************************************************************)
(* What the queue of a game mode promises, without saying how: a ticket    *)
(* waits with the players it came with, and leaves for one of two reasons  *)
(* only, that somebody asked for it or that a match with it was announced. *)
(* It is in one announced match at most, which leaves as a whole, and every *)
(* match has a number of players that the mode allows.  That a ticket      *)
(* shall leave may be forgotten again.                                     *)
(*                                                                         *)
(* Matchmaker is the detailed specification that implements this one.      *)
(***************************************************************************)
EXTENDS FiniteSetsExt

CONSTANTS Players, TicketIds,
          MatchSizes  \* how many players a match may have

VARIABLES queue,   \* ticket |-> [players, asked: whether it shall leave]
          matches  \* the announced matches that have not left, each its tickets

vars == <<queue, matches>>

Init == queue = [t \in {} |-> {}] /\ matches = {}

Join(t, S) ==
    /\ t \notin DOMAIN queue
    /\ queue' = [u \in DOMAIN queue \cup {t} |->
                    IF u = t THEN [players |-> S, asked |-> FALSE] ELSE queue[u]]
    /\ UNCHANGED matches

\* The tickets of T shall leave, or need not any more.
Ask(T, asked) ==
    /\ queue' = [u \in DOMAIN queue |->
                    IF u \in T THEN [queue[u] EXCEPT !.asked = asked] ELSE queue[u]]
    /\ UNCHANGED matches

PlayersOf(T) ==
    LET size == [t \in DOMAIN queue |-> Cardinality(queue[t].players)]
    IN  MapThenSumSet(LAMBDA t : size[t], T)

\* A match is announced for each of the groups of tickets.
Match(groups) ==
    /\ \A T \in groups : T # {} /\ PlayersOf(T) \in MatchSizes
    /\ \A T \in groups, U \in groups \cup matches : T # U => T \cap U = {}
    /\ groups \cap matches = {}
    /\ matches' = matches \cup groups
    /\ UNCHANGED queue

Remove(T) == queue' = [u \in DOMAIN queue \ T |-> queue[u]]

LeaveAsked(T) == /\ \A t \in T : queue[t].asked
                 /\ T \cap UNION matches = {}
                 /\ Remove(T)
                 /\ UNCHANGED matches

LeaveMatched(T) == Remove(T) /\ matches' = matches \ {T}

Next == \/ \E t \in TicketIds, S \in SUBSET Players : Join(t, S)
        \/ \E T \in SUBSET DOMAIN queue : LeaveAsked(T) \/ \E asked \in BOOLEAN : Ask(T, asked)
        \/ \E T \in matches : LeaveMatched(T)
        \/ \E groups \in SUBSET SUBSET DOMAIN queue : Match(groups)

Spec == Init /\ [][Next]_vars

=============================================================================
