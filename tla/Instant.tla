------------------------------- MODULE Instant -------------------------------
(***************************************************************************)
(* The match function of the INSTANT method (matchmaker/internal/          *)
(* matchfunction/instant.go): one pass over the tickets in the order in    *)
(* which the database returned them.  A match is the set of its tickets.   *)
(***************************************************************************)
EXTENDS GameMode, Sequences

\* Faulty variant: a match is made when it is full, before the next ticket is
\* counted.
PassChecksFirst(size, order) ==
    LET pass[i \in 0 .. Len(order)] ==
            IF i = 0 THEN [match |-> 1, count |-> 0]
            ELSE IF pass[i - 1].count >= MaxPlayers
                 THEN [match |-> pass[i - 1].match + 1, count |-> size[order[i]]]
                 ELSE [match |-> pass[i - 1].match, count |-> pass[i - 1].count + size[order[i]]]
    IN  pass

\* The number of the match that the i-th ticket goes into and the players that
\* match has then.  A match that the ticket would make too full is made as it
\* is, however small, and the ticket starts another.
Pass(size, order) ==
    LET pass[i \in 0 .. Len(order)] ==
            IF i = 0 THEN [match |-> 1, count |-> 0]
            ELSE LET count == pass[i - 1].count + size[order[i]]
                 IN  IF count > MaxPlayers
                     THEN [match |-> pass[i - 1].match + 1, count |-> size[order[i]]]
                     ELSE [match |-> pass[i - 1].match, count |-> count]
    IN  pass

\* The matches made of the tickets in this order; the last needs MinPlayers.
RunInstant(size, order) ==
    LET pass == Pass(size, order)
        last == pass[Len(order)]
        made == IF last.count >= MinPlayers THEN last.match ELSE last.match - 1
    IN  [k \in 1 .. made |-> {order[i] : i \in {j \in DOMAIN order : pass[j].match = k}}]

=============================================================================
