------------------------------- MODULE MapVotes -------------------------------
(***************************************************************************)
(* The map of a match (calculateMaps in matchmaker/internal/director): one *)
(* pass over the counted votes, in the order in which Go visits a map.     *)
(***************************************************************************)
EXTENDS Integers, FiniteSets, SequencesExt

\* How often each map was voted for in votes, a player |-> map.
CountVotes(votes) ==
    [map \in Range(votes) |-> Cardinality({p \in DOMAIN votes : votes[p] = map})]

\* The most votes among the first i maps.
MostVotes(counts, order) ==
    LET most[i \in 0 .. Len(order)] ==
            IF i = 0 THEN 0
            ELSE IF counts[order[i]] > most[i - 1] THEN counts[order[i]] ELSE most[i - 1]
    IN  most

\* Faulty variant: a map with more votes joins the ones before it.
MostVotedKeepsEarlier(counts, order) ==
    LET most == MostVotes(counts, order)
    IN  {order[i] : i \in {j \in DOMAIN order : counts[order[j]] = most[j]}}

\* A map with as many votes as the most so far joins the list, and stays in it
\* unless a later one has more, which starts the list afresh.
MostVoted(counts, order) ==
    LET most == MostVotes(counts, order)
    IN  {order[i] : i \in {j \in DOMAIN order : /\ counts[order[j]] = most[j]
                                                /\ most[j] = most[Len(order)]}}

\* The maps one of which is drawn: the most voted ones, or all of the mode.
MapPools(counts, maps) ==
    {IF DOMAIN counts = {} THEN maps ELSE MostVoted(counts, order) :
        order \in SetToSeqs(DOMAIN counts)}

=============================================================================
