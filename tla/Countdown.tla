------------------------------ MODULE Countdown ------------------------------
(***************************************************************************)
(* The match function of the COUNTDOWN method (matchmaker/internal/        *)
(* matchfunction/countdown.go) as operators: what one call may answer, for *)
(* every order in which Go may visit its maps.                             *)
(*                                                                         *)
(* size maps a ticket to its number of players; a pending match is the bag *)
(* of its ticket ids (a list in the code, whose order nothing depends on,  *)
(* but which may name a ticket twice).                                     *)
(***************************************************************************)
EXTENDS GameMode, FiniteSets, SequencesExt

\* Players of the pending match, those of the tickets outside T not counted.
PendingMatchPlayerCount(size, T, bag) ==
    MapThenSumSet(LAMBDA t : bag[t] * size[t], T \cap DOMAIN bag)

\* Faulty variant: one player too few is accepted.
InvalidOffByOne(size, pendingMatches) ==
    {m \in DOMAIN pendingMatches :
        PendingMatchPlayerCount(size, DOMAIN size, pendingMatches[m]) < MinPlayers - 1}

\* The pending matches that have too few players left.
Invalid(size, pendingMatches) ==
    {m \in DOMAIN pendingMatches :
        PendingMatchPlayerCount(size, DOMAIN size, pendingMatches[m]) < MinPlayers}

\* X is what a loop over left may put into space when it takes whatever fits.
IsFilling(size, left, space, X) ==
    /\ X # {} => Total(size, X) <= space
    /\ \A t \in left \ X : size[t] > space - Total(size, X)

\* Tickets still waiting when the i-th pending match of order is filled.
LeftAt(waiting, order, i, added) ==
    waiting \ UNION {added[order[j]] : j \in 1 .. i - 1}

\* What fillPendingMatches may add to every pending match.  The space of a
\* match is MaxPlayers less the players of those of its tickets that are still
\* in the map of waiting tickets.
Fillings(size, waiting, pendingMatches) ==
    {added \in [DOMAIN pendingMatches -> SUBSET waiting] :
        \E order \in SetToSeqs(DOMAIN pendingMatches) :
            \A i \in DOMAIN order :
                LET left == LeftAt(waiting, order, i, added)
                    space == MaxPlayers
                               - PendingMatchPlayerCount(size, left, pendingMatches[order[i]])
                IN  /\ added[order[i]] \subseteq left
                    /\ IsFilling(size, left, space, added[order[i]])}

\* The list of a pending match after the tickets of X were appended.
WithTickets(bag, X) ==
    [t \in DOMAIN bag \cup X |-> (IF t \in DOMAIN bag THEN bag[t] ELSE 0)
                                    + (IF t \in X THEN 1 ELSE 0)]

\* What one iteration of createPendingMatches may take of the tickets: the
\* largest first, those of one size in any order.
Packs(size, left) ==
    {X \in SUBSET left :
        /\ Total(size, X) <= MaxPlayers
        /\ \A t \in left \ X :
              size[t] > MaxPlayers - Total(size, {x \in X : size[x] >= size[t]})}

\* The number of iterations: the tickets taken are not removed, so each takes X
\* again, until the running count of players falls below MinPlayers.
Iterations(size, left, X) ==
    CHOOSE n \in 1 .. Total(size, left) :
        /\ Total(size, left) - n * Total(size, X) < MinPlayers
        /\ Total(size, left) - (n - 1) * Total(size, X) >= MinPlayers

\* Faulty variant: exactly enough players are not enough.
NewMatchesOffByOne(size, left) ==
    IF Total(size, left) > MinPlayers
    THEN {[tickets |-> X, copies |-> Iterations(size, left, X)] : X \in Packs(size, left)}
    ELSE {[tickets |-> {}, copies |-> 0]}

\* The sets of new pending matches, each given by its tickets and their number.
NewMatches(size, left) ==
    IF Total(size, left) >= MinPlayers
    THEN {[tickets |-> X, copies |-> Iterations(size, left, X)] : X \in Packs(size, left)}
    ELSE {[tickets |-> {}, copies |-> 0]}

=============================================================================
