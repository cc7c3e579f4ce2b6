-------------------------- MODULE SimpleController --------------------------
(***************************************************************************)
(* The controller that places players on lobbies and on proxies            *)
(* (matchmaker/internal/simplecontroller).  gRPC handlers call QueuePlayer *)
(* concurrently; one goroutine takes everyone queued so far, cuts them     *)
(* into matches, allocates a server for every match in parallel, waits for *)
(* all the answers, and announces the matches on Kafka.                    *)
(*                                                                         *)
(* A match is identified with the set of its players; the ticket of player *)
(* p carries the flag batch[p].  Range over a Go map visits the players in *)
(* any order.                                                              *)
(***************************************************************************)
EXTENDS Naturals, FiniteSets

CONSTANTS Players,         \* players that may be queued
          PlayersPerMatch  \* size of a full match, Config.Lobby.MatchSize

ASSUME ControllerAssumption == /\ IsFiniteSet(Players)
                               /\ PlayersPerMatch \in Nat \ {0}

VARIABLES
    queuedPlayers,  \* the map shared with the handlers: player |-> autoTeleport
    pc,             \* where the goroutine of run is in its loop
    batch,          \* the copy that resetQueuedPlayers returned
    unplaced,       \* players of batch the loop over playerMap has still to visit
    currentMatch,   \* the match being filled
    matches,        \* the matches of matchAllocationReqMap not announced yet
    answered,       \* matches whose allocation goroutine has ended
    lastMatch,      \* the tickets of the last MatchCreated message
    ctxDone         \* the context was cancelled (SIGTERM)

vars == <<queuedPlayers, pc, batch, unplaced, currentMatch, matches, answered,
          lastMatch, ctxDone>>

\* What only the goroutine of run uses.
loopVars == <<batch, unplaced, currentMatch, matches, answered>>

NoPlayers == [p \in {} |-> FALSE]

PcValues == {"loop", "create", "allocate", "notify", "stopped"}

Init == /\ queuedPlayers = NoPlayers
        /\ pc = "loop"
        /\ batch = NoPlayers
        /\ unplaced = {}
        /\ currentMatch = {}
        /\ matches = {}
        /\ answered = {}
        /\ lastMatch = NoPlayers
        /\ ctxDone = FALSE

-----------------------------------------------------------------------------
(* The handlers: SendPlayersToLobby and LoginQueueByPlayer.                *)

QueuePlayer(p, autoTeleport) ==
    /\ queuedPlayers' = [q \in DOMAIN queuedPlayers \cup {p} |->
                            IF q = p THEN autoTeleport ELSE queuedPlayers[q]]
    /\ UNCHANGED <<pc, loopVars, lastMatch, ctxDone>>

\* SendPlayersToLobby queues the players it was given (and the members of their
\* parties) one after the other; the lock is taken anew for each.
SendPlayerToLobby(p) == QueuePlayer(p, TRUE)

LoginQueueByPlayer(p) == QueuePlayer(p, FALSE)

-----------------------------------------------------------------------------
(* The loop of run.                                                        *)

\* Faulty variant: the lock is released between the copy and the replacement,
\* so who queues in between is in neither map.
ResetAfterUnlock ==
    /\ pc = "loop"
    /\ ~ctxDone
    /\ \E S \in SUBSET DOMAIN queuedPlayers :
          /\ batch' = [p \in S |-> queuedPlayers[p]]
          /\ unplaced' = S
    /\ queuedPlayers' = NoPlayers
    /\ pc' = "create"
    /\ UNCHANGED <<currentMatch, matches, answered, lastMatch, ctxDone>>

\* Under the lock the map is copied and replaced by an empty one.
ResetQueuedPlayers ==
    /\ pc = "loop"
    /\ ~ctxDone
    /\ batch' = queuedPlayers
    /\ unplaced' = DOMAIN queuedPlayers
    /\ queuedPlayers' = NoPlayers
    /\ pc' = "create"
    /\ UNCHANGED <<currentMatch, matches, answered, lastMatch, ctxDone>>

\* Faulty variants of the loop body: the closed match goes on being filled, and
\* a match is closed one player late.
PlaceKeepsMatch(p) ==
    /\ pc = "create"
    /\ p \in unplaced
    /\ unplaced' = unplaced \ {p}
    /\ currentMatch' = currentMatch \cup {p}
    /\ matches' = IF Cardinality(currentMatch') >= PlayersPerMatch
                  THEN matches \cup {currentMatch'} ELSE matches
    /\ UNCHANGED <<queuedPlayers, pc, batch, answered, lastMatch, ctxDone>>

PlaceOneTooMany(p) ==
    /\ pc = "create"
    /\ p \in unplaced
    /\ unplaced' = unplaced \ {p}
    /\ LET filled == currentMatch \cup {p}
       IN  IF Cardinality(filled) > PlayersPerMatch
           THEN /\ matches' = matches \cup {filled}
                /\ currentMatch' = {}
           ELSE /\ currentMatch' = filled
                /\ UNCHANGED matches
    /\ UNCHANGED <<queuedPlayers, pc, batch, answered, lastMatch, ctxDone>>

\* One iteration of the loop of createMatchesFromPlayers: a full match is
\* closed at once.
PlacePlayer(p) ==
    /\ pc = "create"
    /\ p \in unplaced
    /\ unplaced' = unplaced \ {p}
    /\ LET filled == currentMatch \cup {p}
       IN  IF Cardinality(filled) >= PlayersPerMatch
           THEN /\ matches' = matches \cup {filled}
                /\ currentMatch' = {}
           ELSE /\ currentMatch' = filled
                /\ UNCHANGED matches
    /\ UNCHANGED <<queuedPlayers, pc, batch, answered, lastMatch, ctxDone>>

\* Faulty variant: the players of the last, partial match are forgotten.
ForgetLastMatch ==
    /\ pc = "create"
    /\ unplaced = {}
    /\ currentMatch' = {}
    /\ pc' = "allocate"
    /\ UNCHANGED <<queuedPlayers, batch, unplaced, matches, answered, lastMatch, ctxDone>>

\* After the loop the last match is closed too when anybody is in it.
CloseLastMatch ==
    /\ pc = "create"
    /\ unplaced = {}
    /\ matches' = matches \cup ({currentMatch} \ {{}})
    /\ currentMatch' = {}
    /\ pc' = "allocate"
    /\ UNCHANGED <<queuedPlayers, batch, unplaced, answered, lastMatch, ctxDone>>

\* AllocateServers runs one goroutine per match, and they end in any order.
\* A server fills match.Assignment, an error is only logged: neither decides
\* what happens next, so the two answers are one step.
AllocateServer(m) ==
    /\ pc = "allocate"
    /\ m \in matches \ answered
    /\ answered' = answered \cup {m}
    /\ UNCHANGED <<queuedPlayers, pc, batch, unplaced, currentMatch, matches, lastMatch, ctxDone>>

\* wg.Wait returns when every goroutine has ended; the matches without a
\* server are announced like the others.
AllocationsDone ==
    /\ pc = "allocate"
    /\ matches = answered
    /\ pc' = "notify"
    /\ UNCHANGED <<queuedPlayers, loopVars, lastMatch, ctxDone>>

\* notifier.MatchCreated for one match.  The writer is asynchronous: it takes
\* the message unless it was closed, which the cancelled context makes it.
MatchCreated(m) ==
    /\ pc = "notify"
    /\ m \in matches
    /\ matches' = matches \ {m}
    /\ \/ lastMatch' = [p \in m |-> batch[p]]
       \/ ctxDone /\ UNCHANGED lastMatch
    /\ UNCHANGED <<queuedPlayers, pc, batch, unplaced, currentMatch, answered, ctxDone>>

\* Faulty variant: the answers of the last run are kept for the next one.
NextRunKeepsAnswers ==
    /\ pc = "notify"
    /\ matches = {}
    /\ pc' = "loop"
    /\ batch' = NoPlayers
    /\ UNCHANGED <<queuedPlayers, unplaced, currentMatch, matches, answered, lastMatch, ctxDone>>

\* The sleep until the next run, and the next iteration with fresh locals.
NextRun ==
    /\ pc = "notify"
    /\ matches = {}
    /\ pc' = "loop"
    /\ batch' = NoPlayers
    /\ answered' = {}
    /\ UNCHANGED <<queuedPlayers, unplaced, currentMatch, matches, lastMatch, ctxDone>>

\* ctx.Err() is looked at only between two runs.
StopLoop ==
    /\ pc = "loop"
    /\ ctxDone
    /\ pc' = "stopped"
    /\ UNCHANGED <<queuedPlayers, loopVars, lastMatch, ctxDone>>

\* SIGINT or SIGTERM.
Cancel ==
    /\ ~ctxDone
    /\ ctxDone' = TRUE
    /\ UNCHANGED <<queuedPlayers, pc, loopVars, lastMatch>>

-----------------------------------------------------------------------------
Loop == \/ ResetQueuedPlayers
        \/ \E p \in Players : PlacePlayer(p)
        \/ CloseLastMatch
        \/ \E m \in matches : AllocateServer(m)
        \/ AllocationsDone
        \/ \E m \in matches : MatchCreated(m)
        \/ NextRun
        \/ StopLoop

Next == \/ \E p \in Players : SendPlayerToLobby(p) \/ LoginQueueByPlayer(p)
        \/ Loop
        \/ Cancel

Spec == Init /\ [][Next]_vars

\* The goroutine never blocks for ever: a step it can take it takes.
FairSpec == Spec /\ WF_vars(Loop)

-----------------------------------------------------------------------------
PlayerMap == UNION {[S -> BOOLEAN] : S \in SUBSET Players}

TypeOK == /\ queuedPlayers \in PlayerMap
          /\ pc \in PcValues
          /\ batch \in PlayerMap
          /\ unplaced \subseteq DOMAIN batch
          /\ currentMatch \subseteq DOMAIN batch
          /\ matches \subseteq SUBSET (DOMAIN batch)
          /\ answered \subseteq SUBSET (DOMAIN batch)
          /\ lastMatch \in PlayerMap
          /\ ctxDone \in BOOLEAN

\* The locals of an iteration by where the loop is.
LoopShape ==
    /\ pc \in {"loop", "stopped"} =>
          unplaced = {} /\ currentMatch = {} /\ matches = {} /\ answered = {}
    /\ pc \in {"allocate", "notify"} => unplaced = {} /\ currentMatch = {}
    /\ pc = "create" =>
          /\ answered = {}
          /\ \A m \in matches : Cardinality(m) = PlayersPerMatch

\* Players of the batch that no MatchCreated message has named yet.
Unannounced == unplaced \cup currentMatch \cup UNION matches

\* Nobody is placed twice: the players still to visit, the match being filled
\* and the closed matches share no player, whatever the order in which the
\* map is visited (createMatchesFromPlayers).
PlacedOnce ==
    /\ unplaced \cap currentMatch = {}
    /\ \A m \in matches : m \cap (unplaced \cup currentMatch) = {}
    /\ \A m, n \in matches : m # n => m \cap n = {}

\* No match is larger than a server was sized for, none is empty, and until
\* one is announced at most one of a run is not full: players are not spread
\* over more servers than needed (createMatchesFromPlayers).
MatchesFilled ==
    /\ \A m \in matches : m # {} /\ Cardinality(m) <= PlayersPerMatch
    /\ Cardinality(currentMatch) < PlayersPerMatch
    /\ \A m, n \in matches :
          Cardinality(m) < PlayersPerMatch /\ Cardinality(n) < PlayersPerMatch => m = n

\* The inductive invariant: PlacedOnce and MatchesFilled with what they rest on.
IInv == TypeOK /\ LoopShape /\ PlacedOnce /\ MatchesFilled

\* The sets of players that a match may be for.
MatchSets == {S \in SUBSET Players : S # {} /\ Cardinality(S) <= PlayersPerMatch}

\* The controller implements PlayerDispatch: every batch is everybody who
\* waited, and each of its players leaves it in one announced match, with the
\* flag of the last request, unless the service is shutting down (run).
Dispatch == INSTANCE PlayerDispatch WITH
               waiting <- queuedPlayers,
               taken <- [p \in Unannounced |-> batch[p]],
               stopping <- ctxDone

RefinesDispatch == Dispatch!Spec

\* A queued player is announced in a match, or the service shuts down: no
\* failed allocation and no other player's request delays it for ever (run).
QueuedPlayerIsMatched ==
    \A p \in Players : p \in DOMAIN queuedPlayers ~> (p \in DOMAIN lastMatch \/ ctxDone)

=============================================================================
