---------------------------- MODULE GameTracker -----------------------------
(***************************************************************************)
(* The game tracker: one goroutine reads what game servers announce about  *)
(* their games, keeps the live games in one collection and moves a game to *)
(* the other when it is finished.  A step is one repository call with the  *)
(* local work up to the next.                                              *)
(***************************************************************************)
EXTENDS Integers, FiniteSets

CONSTANTS Games, None,
          Mode,          \* game |-> "blockSumo" or "towerDefence"
          MaxSent,       \* bound: messages about a game
          MaxUnread,     \* bound: messages not yet read
          MaxFailures    \* bound: failed calls and crashes

\* The data of game modes, and documents.
Data == UNION {[S -> 1 .. MaxSent] : S \in SUBSET Games}
Docs == [common : 1 .. MaxSent, data : Data]

ASSUME GameTrackerAssumption ==
    /\ Mode \in [Games -> {"blockSumo", "towerDefence"}]
    /\ None \notin Games \cup Docs
    /\ {MaxSent, MaxUnread, MaxFailures} \subseteq Nat

VARIABLES
    sent,        \* game |-> the last message about it, or None, with what it adds up to
    unread,      \* topic game-tracker: the messages not read
    live,        \* collection liveGame: id |-> document, or None
    historic,    \* collection historicGame: id |-> document, or None
    example,     \* dataType: the one LiveBlockSumoData that all games are parsed into
    call,        \* the message being handled and the next repository call
    disordered,  \* history: games whose messages were not read in order
    mixed,       \* history: games saved with what another game had left in example
    failed,      \* history: games a message about which was lost or panicked
    failures     \* history: their number

store == <<live, historic>>
history == <<disordered, mixed, failed, failures>>
vars == <<sent, unread, store, example, call, history>>

-----------------------------------------------------------------------------
(* Data.  What a game mode keeps is a set of entries, those of the players  *)
(* of a game: a function from games to the number of the message they come  *)
(* from.  One without entries is missing.                                   *)

Empty == [g \in {} |-> 0]
Entries(g, n) == [h \in {g} |-> n]

\* Decoding a document into a structure that holds entries already: those that
\* are in the document are replaced, the others stay.
Over(old, new) == [g \in DOMAIN old \cup DOMAIN new |-> IF g \in DOMAIN new THEN new[g] ELSE old[g]]

\* A document: the number of the message the common data are from, and the data
\* of the game mode.  What says how to parse them (gameDataType) is left out: it is
\* set with the data of a live game, and nothing reads historic games.
Doc(n, data) == [common |-> n, data |-> data]

IsLive(g) == live[g] # None

\* $set leaves the data alone where the game has none (omitempty).
Saved(old, game) ==
    IF old # None /\ game.data = Empty THEN [game EXCEPT !.data = old.data] ELSE game

\* A message: the n-th about its game, with or without data of the game mode.
Message(g, kind, n, content) == [game |-> g, kind |-> kind, n |-> n, content |-> content]

-----------------------------------------------------------------------------
(* The game servers.                                                       *)

Nothing == [kind |-> "none", n |-> 0, data |-> Empty]

Init == /\ sent = [g \in Games |-> Nothing]
        /\ unread = {}
        /\ live = [g \in Games |-> None] /\ historic = [g \in Games |-> None]
        /\ example = Empty
        /\ call = [at |-> "idle"]
        /\ disordered = {} /\ mixed = {} /\ failed = {} /\ failures = 0

\* What the data of a game are after a message, if it says what they are.  Block
\* sumo has no data to start with; the finish stands for itself.
Says(g, kind, n, content) ==
    IF content THEN Entries(g, n) ELSE IF kind = "finish" THEN Empty ELSE sent[g].data

Send(g, kind, content) ==
    LET n == sent[g].n + 1
    IN  /\ n <= MaxSent /\ Cardinality(unread) < MaxUnread
        /\ sent' = [sent EXCEPT ![g] = [kind |-> kind, n |-> n, data |-> Says(g, kind, n, content)]]
        /\ unread' = unread \cup {Message(g, kind, n, content)}
        /\ UNCHANGED <<store, example, call, history>>

Start(g, content) == /\ sent[g].kind = "none" /\ (content => Mode[g] = "towerDefence")
                     /\ Send(g, "start", content)
Update(g, content) == sent[g].kind \in {"start", "update"} /\ Send(g, "update", content)
Finish(g, content) == sent[g].kind \in {"start", "update"} /\ Send(g, "finish", content)

-----------------------------------------------------------------------------
(* The consumer.                                                           *)

Idle == call = [at |-> "idle"]
Return == call' = [at |-> "idle"]

\* The next message: the topic may have several partitions, so others about its
\* game may be older.
Read(m, kind) ==
    /\ Idle /\ m \in unread /\ m.kind = kind
    /\ unread' = unread \ {m}
    /\ disordered' = IF \E o \in unread : o.game = m.game /\ o.n < m.n
                     THEN disordered \cup {m.game} ELSE disordered
    /\ UNCHANGED <<sent, store, failed, failures>>

\* Faulty variant: nothing is registered to parse what m holds.
NotParsed(m, data) == data

\* The data of m, or those there are.
Parsed(m, data) == IF m.content THEN Entries(m.game, m.n) ELSE data

handleGameStartMessage(m) ==
    /\ Read(m, "start")
    /\ call' = [at |-> "saveLive", msg |-> m, doc |-> Doc(m.n, Parsed(m, Empty))]
    /\ UNCHANGED <<example, mixed>>

\* GetLiveGame parses the data into the example of their type (ParseGameData),
\* and returns that; tower defence data replace all of theirs.
IsExample(g) == Mode[g] = "blockSumo" /\ live[g].data # Empty
Found(g) == IF IsExample(g) THEN Over(example, live[g].data) ELSE live[g].data

\* An update of tower defence data that were never set.
Panics(m) == /\ m.kind = "update" /\ m.content /\ Mode[m.game] = "towerDefence"
             /\ IsLive(m.game) /\ live[m.game].data = Empty

\* An update of a game that is not there is dropped.
handleGameUpdateMessage(m) ==
    /\ Read(m, "update")
    /\ ~ Panics(m)
    /\ LET g == m.game
           data == Parsed(m, Found(g))
       IN  IF ~ IsLive(g)
           THEN UNCHANGED <<example, call, mixed>>
           ELSE /\ call' = [at |-> "saveLive", msg |-> m, doc |-> Doc(m.n, data)]
                /\ example' = IF IsExample(g) THEN data ELSE example
                /\ mixed' = IF ~ m.content /\ Found(g) # live[g].data THEN mixed \cup {g} ELSE mixed

\* Faulty variant: the data are saved in place of the document.
SaveData ==
    /\ call.at = "saveLive"
    /\ live' = [live EXCEPT ![call.msg.game] = call.doc.data]
    /\ Return
    /\ UNCHANGED <<sent, unread, historic, example, history>>

SaveLiveGame ==
    /\ call.at = "saveLive"
    /\ live' = [live EXCEPT ![call.msg.game] = Saved(@, call.doc)]
    /\ Return
    /\ UNCHANGED <<sent, unread, historic, example, history>>

\* Faulty variant: the game is only stored as historic.
FinishOnly(m) ==
    /\ Read(m, "finish")
    /\ IF ~ IsLive(m.game) THEN UNCHANGED call
       ELSE call' = [at |-> "saveHistoric", msg |-> m]
    /\ UNCHANGED <<example, mixed>>

\* So is its finish.  GetLiveGame parses the data here too.
handleGameFinishMessage(m) ==
    /\ Read(m, "finish")
    /\ IF ~ IsLive(m.game) THEN UNCHANGED <<example, call>>
       ELSE /\ call' = [at |-> "deleteLive", msg |-> m]
            /\ example' = IF IsExample(m.game) THEN Found(m.game) ELSE example
    /\ UNCHANGED mixed

DeleteLiveGame ==
    /\ call.at = "deleteLive"
    /\ live' = [live EXCEPT ![call.msg.game] = None]
    /\ call' = [call EXCEPT !.at = "saveHistoric"]
    /\ UNCHANGED <<sent, unread, historic, example, history>>

\* An insert of an id that is there is an error.
SaveHistoricGame ==
    /\ call.at = "saveHistoric"
    /\ LET m == call.msg
       IN  historic' = IF historic[m.game] # None THEN historic
                       ELSE [historic EXCEPT ![m.game] = Doc(m.n, Parsed(m, Empty))]
    /\ Return
    /\ UNCHANGED <<sent, unread, live, example, history>>

-----------------------------------------------------------------------------
(* Failures.                                                               *)

Fail(g) == /\ failures < MaxFailures
           /\ failures' = failures + 1
           /\ failed' = failed \cup {g}
           /\ UNCHANGED <<sent, store, mixed>>

\* A repository call fails: the message is dropped.
CallFails ==
    /\ ~ Idle
    /\ Fail(call.msg.game)
    /\ Return
    /\ UNCHANGED <<unread, example, disordered>>

\* The first call of a handler fails.
DropMessage(m) ==
    /\ Idle /\ m \in unread
    /\ Fail(m.game)
    /\ unread' = unread \ {m}
    /\ UNCHANGED <<call, example, disordered>>

\* The process dies and starts again; the message is read once more, or not.
Crash ==
    /\ ~ Idle
    /\ Fail(call.msg.game)
    /\ unread' \in {unread, unread \cup {call.msg}}
    /\ example' = Empty
    /\ Return
    /\ UNCHANGED disordered

\* It dies of the message; one that is read again would kill it again.
Panic(m) ==
    /\ Idle /\ m \in unread /\ Panics(m)
    /\ Fail(m.game)
    /\ unread' = unread \ {m}
    /\ example' = Empty
    /\ UNCHANGED <<call, disordered>>

-----------------------------------------------------------------------------

Next ==
    \/ \E g \in Games, content \in BOOLEAN :
          Start(g, content) \/ Update(g, content) \/ Finish(g, content)
    \/ \E m \in unread : \/ handleGameStartMessage(m) \/ handleGameUpdateMessage(m)
                         \/ handleGameFinishMessage(m) \/ DropMessage(m) \/ Panic(m)
    \/ SaveLiveGame \/ DeleteLiveGame \/ SaveHistoricGame
    \/ CallFails \/ Crash

Spec == Init /\ [][Next]_vars

-----------------------------------------------------------------------------
(* Properties.                                                             *)

Messages == [game : Games, kind : {"start", "update", "finish"}, n : 1 .. MaxSent, content : BOOLEAN]

\* The state is well typed.
TypeOK ==
    /\ sent \in [Games -> [kind : {"none", "start", "update", "finish"}, n : 0 .. MaxSent, data : Data]]
    /\ unread \subseteq Messages
    /\ live \in [Games -> {None} \cup Docs] /\ historic \in [Games -> {None} \cup Docs]
    /\ example \in Data
    /\ call \in {[at |-> "idle"]} \cup [at : {"saveLive"}, msg : Messages, doc : Docs]
                \cup [at : {"deleteLive", "saveHistoric"}, msg : Messages]
    /\ disordered \cup mixed \cup failed \subseteq Games /\ failures \in 0 .. MaxFailures

\* When all that was said about a game has been handled in order and nothing
\* failed, a live game has the common data of the last message and the data of
\* the last that had some, and a finished one is historic with those of the
\* finish and no longer live - unless it was saved with entries of another
\* game, which happens to block sumo games whose updates have no data.
AsSent ==
    \A g \in Games :
        /\ \A m \in unread : m.game # g
        /\ Idle \/ call.msg.game # g
        /\ g \notin disordered \cup failed
        => LET doc == IF sent[g].kind = "none" THEN None ELSE Doc(sent[g].n, sent[g].data)
           IN  IF sent[g].kind = "finish" THEN live[g] = None /\ historic[g] = doc
               ELSE historic[g] = None /\ (g \in mixed \/ live[g] = doc)

\* A game that is historic stays as it is and does not come back to life, even
\* when calls fail, the process dies or a message is handled twice.
FinishedStaysFinished ==
    [][\A g \in Games \ disordered' :
           historic[g] # None => historic'[g] = historic[g] /\ live'[g] = None]_vars

=============================================================================
