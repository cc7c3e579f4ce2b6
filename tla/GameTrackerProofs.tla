-------------------------- MODULE GameTrackerProofs --------------------------
(* Theorems about the game tracker, for any number of games, messages,       *)
(* failures, crashes and redeliveries, and about the two services that only  *)
(* listen to game servers together.                                          *)
EXTENDS GameServices, TLAPS

\* The theorems about the data of players.
PlayerDataProofs == INSTANCE GamePlayerDataProofs WITH MaxSent <- MaxUpdates

-----------------------------------------------------------------------------
(* Type correctness.                                                       *)

\* Entries of one game, those of two messages together, and the absence of any.
LEMMA DataType ==
    /\ Empty \in Data
    /\ \A g \in Games, n \in 1 .. MaxSent : Entries(g, n) \in Data
    /\ \A old, new \in Data : Over(old, new) \in Data
<1>1. \A S \in SUBSET Games : [S -> 1 .. MaxSent] \subseteq Data
  BY DEF Data
<1>2. Empty \in [{} -> 1 .. MaxSent]
  BY DEF Empty
<1>3. \A g \in Games, n \in 1 .. MaxSent : Entries(g, n) \in [{g} -> 1 .. MaxSent]
  BY DEF Entries
<1>4. ASSUME NEW old \in Data, NEW new \in Data PROVE Over(old, new) \in Data
  <2> PICK S \in SUBSET Games, T \in SUBSET Games :
          old \in [S -> 1 .. MaxSent] /\ new \in [T -> 1 .. MaxSent]
    BY DEF Data
  <2>1. Over(old, new) \in [S \cup T -> 1 .. MaxSent]
    BY DEF Over
  <2> QED
    BY <1>1, <2>1
<1>5. Empty \in Data
  BY <1>1, <1>2
<1>6. ASSUME NEW g \in Games, NEW n \in 1 .. MaxSent PROVE Entries(g, n) \in Data
  <2>1. [{g} -> 1 .. MaxSent] \subseteq Data
    BY <1>1
  <2> QED
    BY <1>3, <2>1
<1> QED
  BY <1>4, <1>5, <1>6

\* So the documents that are saved are documents.
LEMMA DocType ==
    /\ \A n \in 1 .. MaxSent, data \in Data : Doc(n, data) \in Docs
    /\ \A m \in Messages, data \in Data : Parsed(m, data) \in Data
    /\ \A old \in {None} \cup Docs, doc \in Docs : Saved(old, doc) \in Docs
BY DataType DEF Doc, Docs, Parsed, Messages, Saved

LEMMA FoundType ==
    ASSUME TypeOK, NEW g \in Games, IsLive(g)
    PROVE  Found(g) \in Data
BY DataType DEF TypeOK, IsLive, Found, Docs

Calls == [at : {"saveLive"}, msg : Messages, doc : Docs]
            \cup [at : {"deleteLive", "saveHistoric"}, msg : Messages]

LEMMA TypeSend ==
    ASSUME TypeOK, NEW g \in Games, NEW content \in BOOLEAN,
           Start(g, content) \/ Update(g, content) \/ Finish(g, content)
    PROVE  TypeOK'
<1> PICK kind \in {"start", "update", "finish"} : Send(g, kind, content)
  BY DEF Start, Update, Finish
<1> DEFINE n == sent[g].n + 1
<1>1. n \in 1 .. MaxSent
  BY GameTrackerAssumption DEF TypeOK, Send
<1>2. Says(g, kind, n, content) \in Data
  BY <1>1, DataType DEF Says, TypeOK
<1>3. Message(g, kind, n, content) \in Messages
  BY <1>1 DEF Message, Messages
<1>4. sent' \in [Games -> [kind : {"none", "start", "update", "finish"}, n : 0 .. MaxSent, data : Data]]
  BY <1>1, <1>2 DEF TypeOK, Send
<1> QED
  BY <1>3, <1>4 DEF TypeOK, Send, store, history

LEMMA TypeHandle ==
    ASSUME TypeOK, NEW m \in unread,
           \/ handleGameStartMessage(m) \/ handleGameUpdateMessage(m)
           \/ handleGameFinishMessage(m)
    PROVE  TypeOK'
<1>1. m \in Messages /\ m.game \in Games /\ m.n \in 1 .. MaxSent
  BY DEF TypeOK, Messages
<1>2. /\ unread' \subseteq unread /\ UNCHANGED <<sent, live, historic, failed, failures>>
      /\ disordered' \subseteq Games
  BY <1>1 DEF TypeOK, handleGameStartMessage, handleGameUpdateMessage, handleGameFinishMessage, Read, store
<1>3. call' \in {[at |-> "idle"]} \cup Calls /\ example' \in Data /\ mixed' \subseteq Games
  <2>1. CASE handleGameStartMessage(m)
    BY <1>1, <2>1, DataType, DocType DEF handleGameStartMessage, TypeOK, Calls
  <2>2. CASE handleGameUpdateMessage(m)
    BY <1>1, <2>2, DocType, FoundType DEF handleGameUpdateMessage, TypeOK, Calls
  <2>3. CASE handleGameFinishMessage(m)
    BY <1>1, <2>3, FoundType DEF handleGameFinishMessage, TypeOK, Calls
  <2> QED
    BY <2>1, <2>2, <2>3
<1> QED
  BY <1>2, <1>3 DEF TypeOK, Calls

LEMMA TypeStore ==
    ASSUME TypeOK, SaveLiveGame \/ DeleteLiveGame \/ SaveHistoricGame
    PROVE  TypeOK'
<1>1. /\ call \in Calls
      /\ UNCHANGED <<sent, unread, example, disordered, mixed, failed, failures>>
  BY DEF TypeOK, Calls, SaveLiveGame, DeleteLiveGame, SaveHistoricGame, history
<1>2. call.msg \in Messages /\ call.msg.game \in Games
  BY <1>1 DEF Calls, Messages
<1>3. /\ live' \in [Games -> {None} \cup Docs] /\ historic' \in [Games -> {None} \cup Docs]
      /\ call' \in {[at |-> "idle"]} \cup Calls
  <2>1. CASE SaveLiveGame
    BY <1>1, <1>2, <2>1, DocType DEF SaveLiveGame, TypeOK, Calls, Return
  <2>2. CASE DeleteLiveGame
    BY <1>1, <1>2, <2>2 DEF DeleteLiveGame, TypeOK, Calls
  <2>3. CASE SaveHistoricGame
    <3>1. Doc(call.msg.n, Parsed(call.msg, Empty)) \in Docs
      BY <1>2, DataType, DocType DEF Messages
    <3> QED
      BY <1>2, <2>3, <3>1 DEF SaveHistoricGame, TypeOK, Return
  <2> QED
    BY <2>1, <2>2, <2>3
<1> QED
  BY <1>1, <1>3 DEF TypeOK, Calls

LEMMA TypeFail ==
    ASSUME TypeOK, CallFails \/ Crash \/ \E m \in unread : DropMessage(m) \/ Panic(m)
    PROVE  TypeOK'
<1>1. ~ Idle => call.msg \in Messages
  BY DEF TypeOK, Idle
<1>2. PICK g \in Games : Fail(g)
  BY <1>1 DEF TypeOK, Messages, CallFails, Crash, DropMessage, Panic
<1>3. failures' \in 0 .. MaxFailures /\ failed' \subseteq Games
  BY <1>2, GameTrackerAssumption DEF TypeOK, Fail
<1>4. unread' \subseteq Messages /\ example' \in Data /\ call' \in {call, [at |-> "idle"]} /\ UNCHANGED disordered
  BY <1>1, DataType DEF TypeOK, CallFails, Crash, DropMessage, Panic, Return
<1> QED
  BY <1>2, <1>3, <1>4 DEF TypeOK, Fail, store

\* Whatever is sent, lost, read again or cut short, the collections hold games and
\* the call under way is about a message (consumer.go, mongo.go).
THEOREM TypeCorrect == Spec => []TypeOK
<1>1. Init => TypeOK
  BY DataType, GameTrackerAssumption DEF Init, TypeOK, Nothing
<1>2. TypeOK /\ [Next]_vars => TypeOK'
  <2>1. TypeOK /\ Next => TypeOK'
    BY TypeSend, TypeHandle, TypeStore, TypeFail DEF Next
  <2>2. TypeOK /\ UNCHANGED vars => TypeOK'
    BY DEF TypeOK, vars, store, history
  <2> QED
    BY <2>1, <2>2
<1> QED
  BY <1>1, <1>2, PTL DEF Spec

-----------------------------------------------------------------------------
(* The invariant.                                                          *)

\* What is true of a message about a game that was sent and is not handled: it is
\* a finish exactly when it is the last that can be sent.
Said(m) ==
    /\ m.game \in Games /\ m.n \in Nat
    /\ m.kind = "finish" => sent[m.game].kind = "finish" /\ m.n = sent[m.game].n
    /\ m.kind # "finish" => m.n <= sent[m.game].n
    /\ m.kind # "finish" /\ sent[m.game].kind = "finish" => m.n < sent[m.game].n

MessagesSaid ==
    /\ DOMAIN sent = Games
    /\ \A g \in Games : sent[g].n \in Nat
    /\ \A m \in unread : Said(m)

\* So it is of the message being handled, a finish when its game is being moved.
Moves == {"deleteLive", "saveHistoric"}
CallSaid ==
    \/ Idle
    \/ call.at = "saveLive" /\ Said(call.msg)
    \/ call \in [at : Moves, msg : {call.msg}] /\ Said(call.msg) /\ call.msg.kind = "finish"

Moving(g) == call.at \in Moves /\ call.msg.game = g
Saving(g) == call.at = "saveLive" /\ call.msg.game = g

\* Of a game that is moved, or was, nothing but its finish is still to be handled,
\* and it is not live once it was deleted.
Ended(g) ==
    /\ sent[g].kind = "finish"
    /\ \A m \in unread : m.game = g => m.kind = "finish"
    /\ ~ Saving(g)
    /\ historic[g] # None \/ (Moving(g) /\ call.at = "saveHistoric") => live[g] = None

GamesEnd ==
    /\ DOMAIN live = Games /\ DOMAIN historic = Games
    /\ \A g \in Games \ disordered : historic[g] # None \/ Moving(g) => Ended(g)

FinishInv == MessagesSaid /\ CallSaid /\ GamesEnd

\* A step of FinishedStaysFinished.
StaysFinished ==
    \A g \in Games \ disordered' :
        historic[g] # None => historic'[g] = historic[g] /\ live'[g] = None

-----------------------------------------------------------------------------
(* The game servers.                                                       *)

\* Nothing is said about a game after its finish, and what was said stays true.
LEMMA SendKeeps ==
    ASSUME FinishInv, NEW g \in Games, NEW content,
           Start(g, content) \/ Update(g, content) \/ Finish(g, content)
    PROVE  FinishInv' /\ StaysFinished
<1> PICK kind \in {"start", "update", "finish"} : Send(g, kind, content) /\ sent[g].kind # "finish"
  BY DEF Start, Update, Finish
<1> DEFINE n == sent[g].n + 1
<1>1. /\ sent' = [sent EXCEPT ![g] = [kind |-> kind, n |-> n, data |-> Says(g, kind, n, content)]]
      /\ unread' = unread \cup {[game |-> g, kind |-> kind, n |-> n, content |-> content]}
      /\ UNCHANGED <<live, historic, call, disordered>>
  BY DEF Send, Message, store, history
<1>2. /\ DOMAIN sent' = Games /\ sent'[g].kind = kind /\ sent'[g].n = n
      /\ \A h \in Games \ {g} : sent'[h] = sent[h]
      /\ n \in Nat /\ sent[g].n < n
  BY <1>1 DEF FinishInv, MessagesSaid
<1>3. ASSUME NEW m, Said(m) PROVE Said(m)'
  <2>1. CASE m.game = g
    BY <1>2, <1>3, <2>1 DEF Said, FinishInv, MessagesSaid
  <2>2. CASE m.game # g
    BY <1>2, <1>3, <2>2 DEF Said
  <2> QED
    BY <2>1, <2>2
<1>4. MessagesSaid'
  <2>1. ASSUME NEW m \in unread' \ unread PROVE Said(m)'
    BY <1>1, <1>2, <2>1 DEF Said
  <2> QED
    BY <1>1, <1>2, <1>3, <2>1 DEF FinishInv, MessagesSaid
<1>5. CallSaid'
  BY <1>1, <1>3 DEF FinishInv, CallSaid, Idle
<1>6. GamesEnd'
  BY <1>1, <1>2 DEF FinishInv, GamesEnd, Ended, Moving, Saving
<1>7. StaysFinished
  BY <1>1 DEF FinishInv, GamesEnd, Ended, StaysFinished
<1> QED
  BY <1>4, <1>5, <1>6, <1>7 DEF FinishInv

-----------------------------------------------------------------------------
(* The consumer.                                                           *)

\* A message that is read is one that was said; if its game ended it is the finish.
LEMMA ReadKeeps ==
    ASSUME FinishInv, NEW m, NEW kind, Read(m, kind)
    PROVE  /\ Said(m)' /\ m.kind = kind /\ MessagesSaid'
           /\ DOMAIN live' = Games /\ DOMAIN historic' = Games /\ UNCHANGED <<sent, live, historic>>
           /\ disordered \subseteq disordered'
           /\ \A g \in Games : ~ Moving(g) /\ ~ Saving(g)
           /\ \A g \in Games \ disordered :
                 historic[g] # None => /\ sent[g].kind = "finish" /\ live[g] = None
                                       /\ \A o \in unread : o.game = g => o.kind = "finish"
           /\ unread' \subseteq unread /\ m \in unread
           /\ m.game \notin disordered' => \A o \in unread : o.game = m.game => ~ (o.n < m.n)
BY DEF FinishInv, Read, Idle, MessagesSaid, Said, GamesEnd, Ended, Moving, Saving, Moves, store

LEMMA StartKeeps ==
    ASSUME FinishInv, NEW m, handleGameStartMessage(m)
    PROVE  FinishInv' /\ StaysFinished
<1>1. /\ Read(m, "start") /\ call'.at = "saveLive" /\ call'.msg = m
  BY DEF handleGameStartMessage
<1>2. CallSaid'
  BY <1>1, ReadKeeps DEF CallSaid, Said
<1>3. GamesEnd'
  BY <1>1, ReadKeeps DEF GamesEnd, Ended, Moving, Saving, Moves
<1>4. StaysFinished
  BY <1>1, ReadKeeps DEF StaysFinished
<1> QED
  BY <1>1, <1>2, <1>3, <1>4, ReadKeeps DEF FinishInv

LEMMA UpdateKeeps ==
    ASSUME FinishInv, NEW m, handleGameUpdateMessage(m)
    PROVE  FinishInv' /\ StaysFinished
<1>1. /\ Read(m, "update")
      /\ UNCHANGED call \/ (call'.at = "saveLive" /\ call'.msg = m)
  BY DEF handleGameUpdateMessage
<1>2. Idle
  BY <1>1 DEF Read
<1>3. CallSaid'
  BY <1>1, <1>2, ReadKeeps DEF CallSaid, Idle
<1>4. GamesEnd'
  BY <1>1, <1>2, ReadKeeps DEF GamesEnd, Ended, Moving, Saving, Moves, Idle
<1>5. StaysFinished
  BY <1>1, ReadKeeps DEF StaysFinished
<1> QED
  BY <1>1, <1>3, <1>4, <1>5, ReadKeeps DEF FinishInv

\* The finish of a game read in order is the last message about it.
LEMMA FinishKeeps ==
    ASSUME FinishInv, NEW m, handleGameFinishMessage(m)
    PROVE  FinishInv' /\ StaysFinished
<1>1. /\ Read(m, "finish")
      /\ \/ UNCHANGED call
         \/ call' = [at |-> "deleteLive", msg |-> m] /\ live[m.game] # None
  BY DEF handleGameFinishMessage, IsLive
<1>2. Idle
  BY <1>1 DEF Read
<1>3. CallSaid'
  BY <1>1, <1>2, ReadKeeps DEF CallSaid, Idle, Moves
<1>4. GamesEnd'
  <2>1. CASE UNCHANGED call
    BY <1>1, <1>2, <2>1, ReadKeeps DEF GamesEnd, Ended, Moving, Saving, Moves, Idle
  <2>2. CASE call' = [at |-> "deleteLive", msg |-> m] /\ live[m.game] # None
    <3>1. m.game \notin disordered' =>
            \A o \in unread : o.game = m.game => o.kind = "finish"
      BY <1>1, ReadKeeps DEF FinishInv, MessagesSaid, Said
    <3>2. sent'[m.game].kind = "finish"
      BY <1>1, ReadKeeps DEF Said
    <3> QED
      BY <1>1, <2>2, <3>1, <3>2, ReadKeeps DEF GamesEnd, Ended, Moving, Saving, Moves
  <2> QED
    BY <1>1, <2>1, <2>2
<1>5. StaysFinished
  BY <1>1, ReadKeeps DEF StaysFinished
<1> QED
  BY <1>1, <1>3, <1>4, <1>5, ReadKeeps DEF FinishInv

\* Nobody saves a game that ended.
LEMMA SaveLiveKeeps ==
    ASSUME FinishInv, SaveLiveGame
    PROVE  FinishInv' /\ StaysFinished
<1>1. /\ call.at = "saveLive" /\ Said(call.msg) /\ call' = [at |-> "idle"]
      /\ UNCHANGED <<sent, unread, historic, disordered>>
  BY DEF FinishInv, SaveLiveGame, CallSaid, Idle, Moves, Return, history
<1>2. DOMAIN live' = Games /\ \A h \in Games \ {call.msg.game} : live'[h] = live[h]
  BY <1>1 DEF FinishInv, GamesEnd, SaveLiveGame
<1>3. MessagesSaid' /\ CallSaid'
  BY <1>1 DEF FinishInv, MessagesSaid, CallSaid, Said, Idle
<1>4. \A g \in Games \ disordered : historic[g] # None => g # call.msg.game
  BY <1>1 DEF FinishInv, GamesEnd, Ended, Saving
<1>5. GamesEnd'
  BY <1>1, <1>2, <1>4 DEF FinishInv, GamesEnd, Ended, Moving, Saving, Moves
<1>6. StaysFinished
  BY <1>1, <1>2, <1>4 DEF FinishInv, GamesEnd, Ended, StaysFinished
<1> QED
  BY <1>3, <1>5, <1>6 DEF FinishInv

LEMMA DeleteLiveKeeps ==
    ASSUME FinishInv, DeleteLiveGame
    PROVE  FinishInv' /\ StaysFinished
<1>1. /\ call \in [at : Moves, msg : {call.msg}] /\ Said(call.msg) /\ call.msg.kind = "finish"
      /\ call.at = "deleteLive" /\ call' = [call EXCEPT !.at = "saveHistoric"]
      /\ UNCHANGED <<sent, unread, historic, disordered>>
  BY DEF FinishInv, DeleteLiveGame, CallSaid, Idle, history
<1>2. call'.at = "saveHistoric" /\ call'.msg = call.msg /\ call' \in [at : Moves, msg : {call'.msg}]
  BY <1>1 DEF Moves
<1>3. /\ DOMAIN live' = Games /\ live'[call.msg.game] = None
      /\ \A h \in Games \ {call.msg.game} : live'[h] = live[h]
  BY <1>1 DEF FinishInv, GamesEnd, DeleteLiveGame, Said
<1>4. MessagesSaid' /\ CallSaid'
  BY <1>1, <1>2 DEF FinishInv, MessagesSaid, CallSaid, Said
<1>5. GamesEnd'
  BY <1>1, <1>2, <1>3 DEF FinishInv, GamesEnd, Ended, Moving, Saving, Moves
<1>6. StaysFinished
  BY <1>1, <1>3 DEF FinishInv, GamesEnd, Ended, StaysFinished
<1> QED
  BY <1>4, <1>5, <1>6 DEF FinishInv

LEMMA SaveHistoricKeeps ==
    ASSUME FinishInv, SaveHistoricGame
    PROVE  FinishInv' /\ StaysFinished
<1>1. /\ call.at = "saveHistoric" /\ Said(call.msg) /\ call' = [at |-> "idle"]
      /\ UNCHANGED <<sent, unread, live, disordered>>
  BY DEF FinishInv, SaveHistoricGame, CallSaid, Idle, Moves, Return, history
<1>2. /\ DOMAIN historic' = Games
      /\ \A h \in Games \ {call.msg.game} : historic'[h] = historic[h]
      /\ \A h \in Games : historic[h] # None => historic'[h] = historic[h]
  BY <1>1 DEF FinishInv, GamesEnd, SaveHistoricGame
<1>3. MessagesSaid' /\ CallSaid'
  BY <1>1 DEF FinishInv, MessagesSaid, CallSaid, Said, Idle
<1>4. GamesEnd'
  BY <1>1, <1>2 DEF FinishInv, GamesEnd, Ended, Moving, Saving, Moves
<1>5. StaysFinished
  BY <1>1, <1>2 DEF FinishInv, GamesEnd, Ended, StaysFinished
<1> QED
  BY <1>3, <1>4, <1>5 DEF FinishInv

-----------------------------------------------------------------------------
(* Failures: the call ends, and messages are lost or read once more.       *)

LEMMA FailureKeeps ==
    ASSUME FinishInv,
           CallFails \/ Crash \/ \E m \in unread : DropMessage(m) \/ Panic(m)
    PROVE  FinishInv' /\ StaysFinished
<1>1. /\ UNCHANGED <<sent, live, historic, disordered>>
      /\ call' = [at |-> "idle"]
      /\ \/ unread' \subseteq unread
         \/ ~ Idle /\ unread' = unread \cup {call.msg}
  BY DEF CallFails, Crash, DropMessage, Panic, Fail, Return, Idle, store
<1>2. ~ Idle => Said(call.msg) /\ (Saving(call.msg.game) \/ call.msg.kind = "finish")
  BY DEF FinishInv, CallSaid, Saving
<1>3. MessagesSaid' /\ CallSaid'
  BY <1>1, <1>2 DEF FinishInv, MessagesSaid, CallSaid, Said, Idle
<1>4. GamesEnd'
  BY <1>1, <1>2 DEF FinishInv, GamesEnd, Ended, Moving, Saving, Moves
<1>5. StaysFinished
  BY <1>1 DEF FinishInv, GamesEnd, Ended, StaysFinished
<1> QED
  BY <1>3, <1>4, <1>5 DEF FinishInv

-----------------------------------------------------------------------------

LEMMA FinishInvCorrect == Spec => []FinishInv
<1>1. Init => FinishInv
  BY DEF Init, FinishInv, MessagesSaid, CallSaid, GamesEnd, Moving, Moves, Idle, Nothing
<1>2. FinishInv /\ [Next]_vars => FinishInv'
  <2> SUFFICES ASSUME FinishInv, [Next]_vars PROVE FinishInv'
    OBVIOUS
  <2>1. CASE Next
    BY <2>1, SendKeeps, StartKeeps, UpdateKeeps, FinishKeeps, SaveLiveKeeps, DeleteLiveKeeps,
       SaveHistoricKeeps, FailureKeeps DEF Next
  <2>2. CASE UNCHANGED vars
    BY <2>2 DEF vars, store, history, FinishInv, MessagesSaid, CallSaid, Said, Idle, GamesEnd,
                Ended, Moving, Saving
  <2> QED
    BY <2>1, <2>2
<1> QED
  BY <1>1, <1>2, PTL DEF Spec

\* A finished game whose messages are read in order stays as it was stored and is
\* never live again, whichever calls fail, wherever the process dies and however
\* often a message is read (consumer.go).
THEOREM FinishedForGood == Spec => FinishedStaysFinished
<1>1. FinishInv /\ [Next]_vars => [StaysFinished]_vars
  BY SendKeeps, StartKeeps, UpdateKeeps, FinishKeeps, SaveLiveKeeps, DeleteLiveKeeps,
     SaveHistoricKeeps, FailureKeeps DEF Next
<1> QED
  BY <1>1, FinishInvCorrect, PTL DEF Spec, FinishedStaysFinished, StaysFinished

-----------------------------------------------------------------------------
(* The collections hold what the games have sent.                          *)

\* What a reader of the store and of the call under way would find of a game.
AboutGame(g) == {m \in unread : m.game = g}
WithData(g) == {m \in AboutGame(g) : m.content}
Number(g) == IF Saving(g) THEN call.doc.common ELSE IF live[g] = None THEN 0 ELSE live[g].common
DataKnown(g) ==
    IF Saving(g) THEN Saved(live[g], call.doc).data ELSE IF live[g] = None THEN Empty ELSE live[g].data

\* The messages about a game are numbered, and the first is its start.
Numbered(g) ==
    /\ (sent[g].n = 0) <=> (sent[g].kind = "none")
    /\ \A m \in AboutGame(g) : 0 < m.n /\ m.n <= sent[g].n /\ (m.kind = "start" <=> m.n = 1)
    /\ \A m, o \in AboutGame(g) : m.n = o.n => m = o

\* A game is live, or about to be, as soon as its start is read.
Waiting(g) == sent[g].kind = "none" \/ \E m \in AboutGame(g) : m.kind = "start"
Started(g) ==
    IF Waiting(g)
    THEN live[g] = None /\ ~ Saving(g)
    ELSE live[g] # None \/ Saving(g) \/ historic[g] # None \/ (Moving(g) /\ call.at = "saveHistoric")

\* The stages of a game: it goes on; its finish is not read; it is being moved;
\* it is historic.
Moved(g) ==
    \/ historic[g] = None /\ ~ Moving(g) /\ sent[g].kind # "finish"
    \/ /\ historic[g] = None /\ ~ Moving(g)
       /\ \E m \in AboutGame(g) : m.kind = "finish" /\ Parsed(m, Empty) = sent[g].data
    \/ /\ historic[g] = None /\ Moving(g) /\ AboutGame(g) = {}
       /\ Parsed(call.msg, Empty) = sent[g].data
    \/ /\ historic[g] = Doc(sent[g].n, sent[g].data) /\ ~ Moving(g) /\ AboutGame(g) = {}
       /\ live[g] = None

\* The messages not read lead from what is known to what was sent last.
CommonLeads(g) ==
    IF AboutGame(g) = {} THEN sent[g].n = Number(g)
    ELSE \E m \in AboutGame(g) : m.n = sent[g].n
DataLeads(g) ==
    IF WithData(g) = {} THEN sent[g].data = DataKnown(g)
    ELSE \E m \in WithData(g) : /\ sent[g].data = Entries(g, m.n)
                                /\ \A o \in WithData(g) : o.n <= m.n
Leads(g) == sent[g].kind # "finish" => CommonLeads(g) /\ (g \notin mixed => DataLeads(g))

Followed(g) == Numbered(g) /\ Started(g) /\ Moved(g) /\ Leads(g)

\* All this of games whose messages are read in order and without a failure.
SentInv == \A g \in Games \ (disordered \cup failed) : Followed(g)

IInv == TypeOK /\ FinishInv /\ SentInv

-----------------------------------------------------------------------------
(* Games about which nothing happens.                                      *)

LEMMA Untouched ==
    ASSUME NEW g, Followed(g), sent'[g] = sent[g], live'[g] = live[g], historic'[g] = historic[g],
           AboutGame(g)' = AboutGame(g), mixed \subseteq mixed',
           \/ call' = call
           \/ ~ Saving(g) /\ ~ Moving(g) /\ ~ Saving(g)' /\ ~ Moving(g)'
    PROVE  Followed(g)'
<1>1. /\ Saving(g)' = Saving(g) /\ Moving(g)' = Moving(g) /\ Waiting(g)' = Waiting(g)
      /\ WithData(g)' = WithData(g)
      /\ Number(g)' = Number(g) /\ DataKnown(g)' = DataKnown(g)
      /\ Saving(g) \/ Moving(g) => call' = call
  BY DEF Saving, Moving, Waiting, WithData, Number, DataKnown
<1>2. Numbered(g)' /\ Started(g)' /\ Moved(g)'
  BY <1>1 DEF Followed, Numbered, Started, Moved
<1>3. Leads(g)'
  BY <1>1 DEF Followed, Leads, CommonLeads, DataLeads
<1> QED
  BY <1>2, <1>3 DEF Followed

\* A game that was not finished is neither moved nor historic.
LEMMA GoesOn ==
    ASSUME IInv, NEW g \in Games \ disordered, sent[g].kind # "finish"
    PROVE  historic[g] = None /\ ~ Moving(g)
BY DEF IInv, FinishInv, GamesEnd, Ended

LEMMA AboutTyped ==
    ASSUME TypeOK, NEW g \in Games
    PROVE  /\ \A m \in AboutGame(g) : m \in Messages /\ m.n \in Nat /\ m.game = g /\ m.content \in BOOLEAN
           /\ sent[g].n \in Nat
BY GameTrackerAssumption DEF TypeOK, AboutGame, Messages

LEMMA NoneIsNoDocument == None \notin Docs
BY GameTrackerAssumption

LEMMA EntriesAreSome == \A g, n : Entries(g, n) # Empty
<1> SUFFICES ASSUME NEW g, NEW n PROVE Entries(g, n) # Empty
  OBVIOUS
<1>1. DOMAIN Entries(g, n) = {g} /\ DOMAIN Empty = {}
  BY DEF Entries, Empty
<1> QED
  BY <1>1

-----------------------------------------------------------------------------
(* The game servers.                                                       *)

LEMMA SendFollowed ==
    ASSUME IInv, NEW g \in Games, NEW content \in BOOLEAN,
           Start(g, content) \/ Update(g, content) \/ Finish(g, content)
    PROVE  SentInv'
<1> PICK kind \in {"start", "update", "finish"} :
        /\ Send(g, kind, content) /\ sent[g].kind # "finish"
        /\ kind = "start" <=> sent[g].kind = "none"
  BY DEF Start, Update, Finish
<1> DEFINE n == sent[g].n + 1
           msg == Message(g, kind, n, content)
<1>1. /\ sent' = [sent EXCEPT ![g] = [kind |-> kind, n |-> n, data |-> Says(g, kind, n, content)]]
      /\ unread' = unread \cup {msg}
      /\ UNCHANGED <<live, historic, call, disordered, mixed, failed>>
  BY DEF Send, store, history
<1>2. /\ sent'[g] = [kind |-> kind, n |-> n, data |-> Says(g, kind, n, content)]
      /\ \A h \in Games \ {g} : sent'[h] = sent[h]
  BY <1>1 DEF IInv, TypeOK
<1>3. msg.game = g /\ msg.n = n /\ msg.kind = kind /\ msg.content = content /\ n \in Nat /\ sent[g].n \in Nat
  BY AboutTyped DEF IInv, Message
<1>4. \A h \in Games : AboutGame(h)' = IF h = g THEN AboutGame(g) \cup {msg} ELSE AboutGame(h)
  BY <1>1, <1>3 DEF AboutGame
<1> HIDE DEF msg
<1>5. ASSUME NEW h \in Games \ (disordered \cup failed), h # g PROVE Followed(h)'
  <2>1. Followed(h) /\ AboutGame(h)' = AboutGame(h)
    BY <1>4, <1>5 DEF IInv, SentInv
  <2> QED
    BY <1>1, <1>2, <1>5, <2>1, Untouched
<1>6. ASSUME g \notin disordered \cup failed PROVE Followed(g)'
  <2>1. Followed(g) /\ historic[g] = None /\ ~ Moving(g)
    BY <1>6, GoesOn DEF IInv, SentInv
  <2>2. /\ AboutGame(g)' = AboutGame(g) \cup {msg}
        /\ \A o \in AboutGame(g) : o.n \in Nat /\ 0 < o.n /\ o.n < n
    BY <1>3, <1>4, <2>1, AboutTyped DEF IInv, Followed, Numbered
  <2>3. WithData(g)' = IF content THEN WithData(g) \cup {msg} ELSE WithData(g)
    BY <1>3, <2>2 DEF WithData
  <2>4. /\ Saving(g)' = Saving(g) /\ Moving(g)' = Moving(g)
        /\ DataKnown(g)' = DataKnown(g) /\ live'[g] = live[g] /\ historic'[g] = historic[g]
    BY <1>1 DEF Saving, Moving, DataKnown
  <2>5. Numbered(g)'
    <3>1. kind = "start" <=> n = 1
      BY <1>3, <2>1 DEF Followed, Numbered
    <3> QED
      BY <1>2, <1>3, <2>1, <2>2, <3>1 DEF Followed, Numbered
  <2>6. Started(g)'
    <3>1. Waiting(g)' = Waiting(g)
      BY <1>2, <1>3, <2>2 DEF Waiting
    <3> QED
      BY <1>1, <2>1, <2>4, <3>1 DEF Followed, Started
  <2>7. kind = "finish" => Parsed(msg, Empty) = sent'[g].data
    BY <1>2, <1>3 DEF Parsed, Says
  <2>8. Moved(g)'
    BY <1>2, <1>3, <2>1, <2>2, <2>4, <2>7 DEF Moved, Parsed
  <2>9. ASSUME kind # "finish" PROVE CommonLeads(g)' /\ (g \notin mixed' => DataLeads(g)')
    <3>1. CommonLeads(g)'
      BY <1>2, <1>3, <2>2 DEF CommonLeads
    <3>2. ASSUME g \notin mixed PROVE DataLeads(g)'
      <4>1. DataLeads(g)
        BY <2>1, <3>2 DEF Followed, Leads
      <4>2. sent'[g].data = IF content THEN Entries(g, n) ELSE sent[g].data
        BY <1>2, <2>9 DEF Says
      <4>3. CASE content
        <5>1. /\ WithData(g)' = WithData(g) \cup {msg} /\ sent'[g].data = Entries(g, msg.n)
              /\ \A o \in WithData(g)' : o.n <= msg.n
          BY <1>3, <2>2, <2>3, <4>2, <4>3 DEF WithData
        <5> QED
          BY <5>1 DEF DataLeads
      <4>4. CASE ~ content
        BY <2>3, <2>4, <4>1, <4>2, <4>4 DEF DataLeads
      <4> QED
        BY <4>3, <4>4
    <3> QED
      BY <1>1, <3>1, <3>2
  <2>10. Leads(g)'
    BY <1>2, <2>9 DEF Leads
  <2> QED
    BY <2>5, <2>6, <2>8, <2>10 DEF Followed
<1> QED
  BY <1>1, <1>5, <1>6 DEF SentInv

-----------------------------------------------------------------------------
(* The consumer.                                                           *)

\* What is read in order is the first of the messages about its game, which is
\* live unless this is its start.
LEMMA ReadFirst ==
    ASSUME IInv, NEW m \in unread, NEW kind, Read(m, kind), m.game \notin disordered' \cup failed
    PROVE  /\ m.game \in Games \ disordered /\ m \in AboutGame(m.game) /\ Followed(m.game)
           /\ AboutGame(m.game)' = AboutGame(m.game) \ {m}
           /\ WithData(m.game)' = WithData(m.game) \ {m}
           /\ \A o \in AboutGame(m.game) : o # m => m.n < o.n
           /\ m.n \in Nat /\ m.n <= sent[m.game].n
           /\ historic[m.game] = None /\ ~ Moving(m.game) /\ ~ Saving(m.game)
           /\ kind # "start" => live[m.game] # None /\ ~ Waiting(m.game)
           /\ kind = "start" => live[m.game] = None
<1> DEFINE g == m.game
<1>1. /\ Idle /\ m.kind = kind /\ unread' = unread \ {m} /\ disordered \subseteq disordered'
      /\ \A o \in unread : o.game = g => ~ (o.n < m.n)
  BY DEF Read
<1>2. g \in Games \ disordered /\ m \in AboutGame(g) /\ Followed(g)
  BY <1>1 DEF IInv, TypeOK, Messages, AboutGame, SentInv
<1>3. AboutGame(g)' = AboutGame(g) \ {m} /\ WithData(g)' = WithData(g) \ {m}
  BY <1>1 DEF AboutGame, WithData
<1>4. \A o \in AboutGame(g) : o # m => m.n < o.n
  <2>1. \A o \in AboutGame(g) : o.n \in Nat /\ (o.n = m.n => o = m) /\ ~ (o.n < m.n)
    BY <1>1, <1>2, AboutTyped DEF IInv, Followed, Numbered, AboutGame
  <2> QED
    BY <1>2, <2>1
<1>5. ~ Moving(g) /\ ~ Saving(g)
  BY <1>1 DEF Idle, Moving, Saving, Moves
<1>6. historic[g] = None
  BY <1>2 DEF Followed, Moved
<1>7. m.n \in Nat /\ 0 < m.n /\ m.n <= sent[g].n /\ sent[g].kind # "none" /\ sent[g].n \in Nat
  BY <1>2, AboutTyped DEF IInv, Followed, Numbered
<1>8. ASSUME kind # "start" PROVE live[g] # None /\ ~ Waiting(g)
  <2>1. ~ Waiting(g)
    BY <1>1, <1>2, <1>4, <1>7, <1>8, AboutTyped DEF Followed, Numbered, Waiting, IInv
  <2> QED
    BY <1>2, <1>5, <1>6, <2>1 DEF Followed, Started
<1>9. ASSUME kind = "start" PROVE live[g] = None
  BY <1>1, <1>2, <1>9 DEF Followed, Started, Waiting
<1> QED
  BY <1>2, <1>3, <1>4, <1>5, <1>6, <1>7, <1>8, <1>9

\* The games the message is not about.
LEMMA ReadOthers ==
    ASSUME IInv, NEW m \in unread, NEW kind, Read(m, kind), mixed \subseteq mixed',
           call' = call \/ call'.msg = m,
           NEW h \in Games \ (disordered \cup failed), h # m.game
    PROVE  Followed(h)'
<1>1. /\ AboutGame(h)' = AboutGame(h) /\ UNCHANGED <<sent, live, historic>>
      /\ ~ Saving(h) /\ ~ Moving(h)
  BY DEF Read, AboutGame, store, Idle, Saving, Moving, Moves
<1>2. call' = call \/ (~ Saving(h)' /\ ~ Moving(h)')
  BY DEF Saving, Moving
<1> QED
  BY <1>1, <1>2, Untouched DEF IInv, SentInv

\* A start or an update that is read is about to be saved as the document that
\* is known, with the data that are known unless it has some.
LEMMA ReadLeads ==
    ASSUME IInv, NEW m \in unread, NEW kind, Read(m, kind), kind # "finish",
           m.game \notin disordered' \cup failed,
           Saving(m.game)', call'.doc.common = m.n, ~ Moving(m.game)',
           m.game \notin mixed' =>
              /\ m.game \notin mixed
              /\ DataKnown(m.game)' = IF m.content THEN Entries(m.game, m.n) ELSE DataKnown(m.game)
    PROVE  Followed(m.game)'
<1> DEFINE g == m.game
<1>1. UNCHANGED <<sent, live, historic>> /\ m.kind = kind
  BY DEF Read, store
<1>2. /\ g \in Games \ disordered /\ m \in AboutGame(g) /\ Followed(g)
      /\ AboutGame(g)' = AboutGame(g) \ {m} /\ WithData(g)' = WithData(g) \ {m}
      /\ \A o \in AboutGame(g) : o # m => m.n < o.n
      /\ m.n \in Nat /\ m.n <= sent[g].n
      /\ historic[g] = None /\ ~ Moving(g) /\ ~ Saving(g)
  BY ReadFirst
<1>3. \A o \in AboutGame(g) : o.n \in Nat /\ o.n <= sent[g].n /\ o.content \in BOOLEAN
  BY <1>2, AboutTyped DEF IInv, Followed, Numbered
<1>4. Numbered(g)'
  BY <1>1, <1>2 DEF Followed, Numbered
<1>5. Started(g)'
  <2>1. ~ Waiting(g)'
    <3>1. CASE kind = "start"
      <4>1. m.n = 1 /\ \A o \in AboutGame(g) : o.kind = "start" => o.n = 1
        BY <1>1, <1>2, <3>1 DEF Followed, Numbered
      <4>2. \A o \in AboutGame(g) : o # m => o.n # 1
        BY <1>2, <1>3, <4>1
      <4>3. sent[g].kind # "none"
        BY <1>2, <1>3, <4>1 DEF Followed, Numbered
      <4> QED
        BY <1>1, <1>2, <4>1, <4>2, <4>3 DEF Waiting
    <3>2. CASE kind # "start"
      BY <1>1, <1>2, <3>2, ReadFirst DEF Waiting
    <3> QED
      BY <3>1, <3>2
  <2> QED
    BY <2>1 DEF Started
<1>6. Moved(g)'
  BY <1>1, <1>2 DEF Followed, Moved, Parsed
<1>7. ASSUME sent[g].kind # "finish" PROVE CommonLeads(g)'
  <2>1. Number(g)' = m.n
    BY DEF Number
  <2>2. PICK o \in AboutGame(g) : o.n = sent[g].n
    BY <1>2, <1>7 DEF Followed, Leads, CommonLeads
  <2>3. CASE AboutGame(g)' = {}
    BY <1>1, <1>2, <2>1, <2>2, <2>3 DEF CommonLeads
  <2>4. CASE AboutGame(g)' # {}
    <3>1. PICK x \in AboutGame(g) : x # m
      BY <1>2, <2>4
    <3>2. o # m
      BY <1>2, <1>3, <2>2, <3>1
    <3> QED
      BY <1>1, <1>2, <2>2, <2>4, <3>2 DEF CommonLeads
  <2> QED
    BY <2>3, <2>4
<1>8. ASSUME sent[g].kind # "finish", g \notin mixed' PROVE DataLeads(g)'
  <2>1. DataLeads(g) /\ DataKnown(g)' = IF m.content THEN Entries(g, m.n) ELSE DataKnown(g)
    BY <1>2, <1>8 DEF Followed, Leads
  <2>2. CASE m.content
    <3>1. m \in WithData(g) /\ WithData(g) \subseteq AboutGame(g)
      BY <1>2, <2>2 DEF WithData
    <3>2. PICK o \in WithData(g) : sent[g].data = Entries(g, o.n) /\ \A x \in WithData(g) : x.n <= o.n
      BY <2>1, <3>1 DEF DataLeads
    <3>3. CASE o = m
      <4>1. WithData(g)' = {}
        BY <1>2, <1>3, <3>1, <3>2, <3>3
      <4> QED
        BY <1>1, <2>1, <2>2, <3>2, <3>3, <4>1 DEF DataLeads
    <3>4. CASE o # m
      <4>1. /\ o \in WithData(g)' /\ sent'[g].data = Entries(g, o.n)
            /\ \A x \in WithData(g)' : x.n <= o.n
        BY <1>1, <1>2, <3>2, <3>4
      <4> QED
        BY <4>1 DEF DataLeads
    <3> QED
      BY <3>3, <3>4
  <2>3. CASE ~ m.content
    <3>1. WithData(g)' = WithData(g)
      BY <1>2, <2>3 DEF WithData
    <3> QED
      BY <1>1, <2>1, <2>3, <3>1 DEF DataLeads
  <2> QED
    BY <1>2, <1>3, <2>2, <2>3
<1>9. Leads(g)'
  BY <1>1, <1>7, <1>8 DEF Leads
<1> QED
  BY <1>4, <1>5, <1>6, <1>9 DEF Followed

LEMMA HandleFollowed ==
    ASSUME IInv, NEW m \in unread,
           \/ handleGameStartMessage(m) \/ handleGameUpdateMessage(m)
           \/ handleGameFinishMessage(m)
    PROVE  SentInv'
<1> DEFINE g == m.game
<1>1. UNCHANGED <<sent, live, historic, failed>> /\ disordered \subseteq disordered'
  BY DEF handleGameStartMessage, handleGameUpdateMessage, handleGameFinishMessage, Read, store
<1>2. /\ \E kind : Read(m, kind)
      /\ mixed \subseteq mixed'
      /\ call' = call \/ call'.msg = m
  BY DEF handleGameStartMessage, handleGameUpdateMessage, handleGameFinishMessage
<1>3. ASSUME NEW h \in Games \ (disordered \cup failed), h # g PROVE Followed(h)'
  BY <1>2, <1>3, ReadOthers
<1>4. ASSUME g \notin disordered' \cup failed PROVE Followed(g)'
  <2>1. CASE handleGameStartMessage(m)
    <3>1. /\ Read(m, "start") /\ call' = [at |-> "saveLive", msg |-> m, doc |-> Doc(m.n, Parsed(m, Empty))]
          /\ mixed' = mixed
      BY <2>1 DEF handleGameStartMessage
    <3>2. /\ Saving(g)' /\ ~ Moving(g)' /\ call'.doc = Doc(m.n, Parsed(m, Empty)) /\ call'.doc.common = m.n
      BY <3>1 DEF Saving, Moving, Moves, Doc
    <3>3. live[g] = None /\ ~ Saving(g)
      BY <1>4, <3>1, ReadFirst
    <3>4. DataKnown(g)' = Parsed(m, Empty) /\ DataKnown(g) = Empty
      BY <1>1, <3>2, <3>3 DEF DataKnown, Saved, Doc
    <3>5. DataKnown(g)' = IF m.content THEN Entries(g, m.n) ELSE DataKnown(g)
      BY <3>4 DEF Parsed
    <3> QED
      BY <1>4, <3>1, <3>2, <3>5, ReadLeads
  <2>2. CASE handleGameUpdateMessage(m)
    <3>1. Read(m, "update") /\ live[g] # None /\ ~ Saving(g)
      BY <1>4, <2>2, ReadFirst DEF handleGameUpdateMessage
    <3>2. /\ call' = [at |-> "saveLive", msg |-> m, doc |-> Doc(m.n, Parsed(m, Found(g)))]
          /\ mixed' = IF ~ m.content /\ Found(g) # live[g].data THEN mixed \cup {g} ELSE mixed
      BY <2>2, <3>1 DEF handleGameUpdateMessage, IsLive
    <3>3. /\ Saving(g)' /\ ~ Moving(g)' /\ call'.doc = Doc(m.n, Parsed(m, Found(g))) /\ call'.doc.common = m.n
      BY <3>2 DEF Saving, Moving, Moves, Doc
    <3>4. DataKnown(g) = live[g].data
      BY <3>1 DEF DataKnown
    <3>5. DataKnown(g)' = Saved(live[g], Doc(m.n, Parsed(m, Found(g)))).data
      BY <1>1, <3>3 DEF DataKnown
    <3>6. ASSUME g \notin mixed'
          PROVE  DataKnown(g)' = IF m.content THEN Entries(g, m.n) ELSE DataKnown(g)
      <4>1. CASE m.content
        <5>1. Parsed(m, Found(g)) = Entries(g, m.n) /\ Entries(g, m.n) # Empty
          BY <4>1, EntriesAreSome DEF Parsed
        <5> QED
          BY <3>5, <4>1, <5>1 DEF Saved, Doc
      <4>2. CASE ~ m.content
        <5>1. Parsed(m, Found(g)) = live[g].data
          BY <3>2, <3>6, <4>2 DEF Parsed
        <5> QED
          BY <3>4, <3>5, <4>2, <5>1 DEF Saved, Doc
      <4> QED
        BY <4>1, <4>2
    <3> QED
      BY <1>2, <1>4, <3>1, <3>3, <3>6, ReadLeads
  <2>3. CASE handleGameFinishMessage(m)
    <3>1. /\ Read(m, "finish") /\ live[g] # None /\ ~ Waiting(g) /\ m \in AboutGame(g) /\ Followed(g)
          /\ AboutGame(g)' = AboutGame(g) \ {m} /\ historic[g] = None /\ ~ Moving(g) /\ ~ Saving(g)
          /\ \A o \in AboutGame(g) : o # m => m.n < o.n
      BY <1>4, <2>3, ReadFirst DEF handleGameFinishMessage
    <3>2. /\ call' = [at |-> "deleteLive", msg |-> m] /\ mixed' = mixed
      BY <2>3, <3>1 DEF handleGameFinishMessage, IsLive
    <3>3. /\ Moving(g)' /\ ~ Saving(g)'
      BY <3>2 DEF Moving, Saving, Moves
    <3>4. sent[g].kind = "finish" /\ m.n = sent[g].n
      BY <3>1 DEF IInv, FinishInv, MessagesSaid, Said, Read
    <3>5. AboutGame(g) = {m}
      <4>1. \A o \in AboutGame(g) : o.n \in Nat /\ o.n <= sent[g].n
        BY <3>1, AboutTyped DEF IInv, Followed, Numbered, Read, TypeOK, Messages
      <4> QED
        BY <3>1, <3>4, <4>1
    <3>6. Parsed(m, Empty) = sent[g].data
      BY <3>1, <3>4, <3>5 DEF Followed, Moved
    <3>7. Numbered(g)' /\ Started(g)'
      BY <1>1, <3>1, <3>4, <3>5 DEF Followed, Numbered, Started, Waiting
    <3>8. Moved(g)'
      <4>1. historic'[g] = None /\ AboutGame(g)' = {} /\ call'.msg = m /\ sent'[g].data = sent[g].data
        BY <1>1, <3>1, <3>2, <3>5
      <4>2. Parsed(call.msg, Empty)' = sent'[g].data
        BY <3>6, <4>1 DEF Parsed
      <4> QED
        BY <3>3, <4>1, <4>2 DEF Moved
    <3>9. Leads(g)'
      BY <1>1, <3>4 DEF Leads
    <3> QED
      BY <3>7, <3>8, <3>9 DEF Followed
  <2> QED
    BY <2>1, <2>2, <2>3
<1> QED
  BY <1>1, <1>3, <1>4 DEF SentInv

\* The game the call under way is about is a game, and the call is about no other.
LEMMA CallTyped ==
    ASSUME IInv, ~ Idle
    PROVE  /\ call.msg \in Messages /\ call.msg.game \in Games /\ Said(call.msg)
           /\ call.at = "saveLive" => call.doc \in Docs
           /\ call.at \in Moves => call.msg.kind = "finish"
           /\ \A h \in Games \ {call.msg.game} : ~ Saving(h) /\ ~ Moving(h)
<1>1. call.msg \in Messages /\ call.at = "saveLive" => call.doc \in Docs
  BY DEF IInv, TypeOK, Idle
<1>2. Said(call.msg) /\ (call.at \in Moves => call.msg.kind = "finish")
  BY DEF IInv, FinishInv, CallSaid, Moves
<1>3. call.msg \in Messages
  BY DEF IInv, TypeOK, Idle
<1> QED
  BY <1>1, <1>2, <1>3 DEF Messages, Saving, Moving

\* A document that is saved is what was known before.
LEMMA SaveLiveFollowed ==
    ASSUME IInv, SaveLiveGame
    PROVE  SentInv'
<1> PICK g : g = call.msg.game
  OBVIOUS
<1> DEFINE doc == Saved(live[g], call.doc)
<1>1. /\ call.at = "saveLive" /\ ~ Idle /\ call' = [at |-> "idle"]
      /\ live' = [live EXCEPT ![g] = doc]
      /\ UNCHANGED <<sent, unread, historic, disordered, mixed, failed>>
  BY DEF SaveLiveGame, Idle, Return, history
<1>2. /\ g \in Games /\ call.doc \in Docs /\ Saving(g) /\ ~ Moving(g)
      /\ \A h \in Games \ {g} : ~ Saving(h) /\ ~ Moving(h)
  BY <1>1, CallTyped DEF Saving, Moving, Moves
<1>3. doc \in Docs /\ doc # None /\ doc.common = call.doc.common
  <2>1. live[g] \in {None} \cup Docs
    BY <1>2 DEF IInv, TypeOK
  <2>2. doc \in Docs
    BY <1>2, <2>1, DocType
  <2>3. doc.common = call.doc.common
    BY <1>2 DEF Saved, Docs
  <2> QED
    BY <2>2, <2>3, NoneIsNoDocument
<1>4. /\ live'[g] = doc /\ \A h \in Games \ {g} : live'[h] = live[h]
      /\ \A h \in Games : AboutGame(h)' = AboutGame(h) /\ ~ Saving(h)' /\ ~ Moving(h)'
  BY <1>1, <1>2 DEF IInv, TypeOK, AboutGame, Saving, Moving, Moves
<1>5. ASSUME NEW h \in Games \ (disordered \cup failed), h # g PROVE Followed(h)'
  BY <1>1, <1>2, <1>4, <1>5, Untouched DEF IInv, SentInv
<1>6. ASSUME g \notin disordered \cup failed PROVE Followed(g)'
  <2>1. Followed(g)
    BY <1>2, <1>6 DEF IInv, SentInv
  <2>2. Waiting(g)' = Waiting(g) /\ WithData(g)' = WithData(g)
    BY <1>1, <1>2, <1>4 DEF Waiting, WithData
  <2>3. Number(g)' = Number(g) /\ DataKnown(g)' = DataKnown(g)
    BY <1>2, <1>3, <1>4 DEF Number, DataKnown
  <2>4. Numbered(g)' /\ Leads(g)'
    BY <1>1, <1>2, <1>4, <2>1, <2>2, <2>3 DEF Followed, Numbered, Leads, CommonLeads, DataLeads
  <2>5. Started(g)'
    BY <1>2, <1>3, <1>4, <2>1, <2>2 DEF Followed, Started
  <2>6. Moved(g)'
    <3>1. historic[g] = None
      BY <1>2, <1>6 DEF IInv, FinishInv, GamesEnd, Ended
    <3>2. Doc(sent[g].n, sent[g].data) # None
      <4>1. call.msg \in Messages /\ Said(call.msg) /\ sent[g].n \in 0 .. MaxSent /\ sent[g].data \in Data
        BY <1>1, <1>2, CallTyped DEF IInv, TypeOK
      <4>2. sent[g].n \in 1 .. MaxSent
        BY <4>1, GameTrackerAssumption DEF Said, Messages
      <4> QED
        BY <4>1, <4>2, DocType, NoneIsNoDocument
    <3> QED
      BY <1>1, <1>2, <1>4, <2>1, <3>1, <3>2 DEF Followed, Moved, Parsed
  <2> QED
    BY <2>4, <2>5, <2>6 DEF Followed
<1> QED
  BY <1>1, <1>5, <1>6 DEF SentInv

\* Between the two calls of a finish the game is nowhere.
LEMMA DeleteLiveFollowed ==
    ASSUME IInv, DeleteLiveGame
    PROVE  SentInv'
<1> PICK g : g = call.msg.game
  OBVIOUS
<1>1. /\ call.at = "deleteLive" /\ ~ Idle /\ live' = [live EXCEPT ![g] = None]
      /\ call' = [call EXCEPT !.at = "saveHistoric"]
      /\ UNCHANGED <<sent, unread, historic, disordered, mixed, failed>>
  BY DEF DeleteLiveGame, Idle, history
<1>2. /\ g \in Games /\ Moving(g) /\ Said(call.msg) /\ call.msg.kind = "finish"
      /\ \A h \in Games \ {g} : ~ Saving(h) /\ ~ Moving(h)
  BY <1>1, CallTyped DEF Moving, Moves
<1>3. call'.at = "saveHistoric" /\ call'.msg = call.msg
  <2>1. call \in [at : {"deleteLive", "saveHistoric"}, msg : Messages]
    BY <1>1 DEF IInv, TypeOK
  <2> QED
    BY <1>1, <2>1
<1>4. /\ live'[g] = None /\ \A h \in Games \ {g} : live'[h] = live[h] /\ ~ Saving(h)' /\ ~ Moving(h)'
      /\ \A h \in Games : AboutGame(h)' = AboutGame(h)
      /\ Moving(g)' /\ ~ Saving(g)' /\ ~ Saving(g)
  BY <1>1, <1>2, <1>3 DEF IInv, TypeOK, AboutGame, Saving, Moving, Moves
<1>5. ASSUME NEW h \in Games \ (disordered \cup failed), h # g PROVE Followed(h)'
  BY <1>1, <1>2, <1>4, <1>5, Untouched DEF IInv, SentInv
<1>6. ASSUME g \notin disordered \cup failed PROVE Followed(g)'
  <2>1. Followed(g) /\ sent[g].kind = "finish"
    BY <1>2, <1>6 DEF IInv, SentInv, Said
  <2>2. AboutGame(g) = {} /\ historic[g] = None /\ Parsed(call.msg, Empty) = sent[g].data
    BY <1>2, <2>1 DEF Followed, Moved
  <2>3. Numbered(g)' /\ Leads(g)'
    BY <1>1, <1>2, <1>4, <2>1, <2>2 DEF Followed, Numbered, Leads
  <2>4. Started(g)'
    BY <1>3, <1>4 DEF Started
  <2>5. Moved(g)'
    BY <1>1, <1>2, <1>3, <1>4, <2>2 DEF Moved, Parsed
  <2> QED
    BY <2>3, <2>4, <2>5 DEF Followed
<1> QED
  BY <1>1, <1>5, <1>6 DEF SentInv

LEMMA SaveHistoricFollowed ==
    ASSUME IInv, SaveHistoricGame
    PROVE  SentInv'
<1> PICK g : g = call.msg.game
  OBVIOUS
<1>1. /\ call.at = "saveHistoric" /\ ~ Idle /\ call' = [at |-> "idle"]
      /\ historic' = IF historic[g] # None THEN historic
                     ELSE [historic EXCEPT ![g] = Doc(call.msg.n, Parsed(call.msg, Empty))]
      /\ UNCHANGED <<sent, unread, live, disordered, mixed, failed>>
  BY DEF SaveHistoricGame, Idle, Return, history
<1>2. /\ g \in Games /\ Moving(g) /\ ~ Saving(g) /\ Said(call.msg) /\ call.msg.kind = "finish" /\ call.msg \in Messages
      /\ \A h \in Games \ {g} : ~ Saving(h) /\ ~ Moving(h)
  BY <1>1, CallTyped DEF Moving, Saving, Moves
<1>3. /\ \A h \in Games \ {g} : historic'[h] = historic[h]
      /\ \A h \in Games : AboutGame(h)' = AboutGame(h) /\ ~ Saving(h)' /\ ~ Moving(h)'
  BY <1>1, <1>2 DEF IInv, TypeOK, AboutGame, Saving, Moving, Moves
<1>4. ASSUME NEW h \in Games \ (disordered \cup failed), h # g PROVE Followed(h)'
  BY <1>1, <1>2, <1>3, <1>4, Untouched DEF IInv, SentInv
<1>5. ASSUME g \notin disordered \cup failed PROVE Followed(g)'
  <2>1. Followed(g) /\ sent[g].kind = "finish" /\ call.msg.n = sent[g].n
    BY <1>2, <1>5 DEF IInv, SentInv, Said
  <2>2. AboutGame(g) = {} /\ historic[g] = None /\ Parsed(call.msg, Empty) = sent[g].data
    BY <1>2, <2>1 DEF Followed, Moved
  <2>3. live[g] = None
    BY <1>1, <1>2, <1>5 DEF IInv, FinishInv, GamesEnd, Ended
  <2>4. historic'[g] = Doc(sent[g].n, sent[g].data)
    BY <1>1, <1>2, <2>1, <2>2 DEF IInv, TypeOK
  <2>5. historic'[g] # None
    <3>1. sent[g].data \in Data /\ sent[g].n \in 1 .. MaxSent
      BY <1>2, <2>1 DEF IInv, TypeOK, Messages
    <3> QED
      BY <2>4, <3>1, DocType, NoneIsNoDocument
  <2>6. Numbered(g)' /\ Leads(g)'
    BY <1>1, <1>2, <1>3, <2>1, <2>2 DEF Followed, Numbered, Leads
  <2>7. Started(g)'
    BY <1>1, <1>2, <1>3, <2>1, <2>2, <2>5 DEF Started, Waiting
  <2>8. Moved(g)'
    BY <1>1, <1>2, <1>3, <2>2, <2>3, <2>4 DEF Moved
  <2> QED
    BY <2>6, <2>7, <2>8 DEF Followed
<1> QED
  BY <1>1, <1>4, <1>5 DEF SentInv

-----------------------------------------------------------------------------
(* Failures concern one game.                                              *)

LEMMA FailureFollowed ==
    ASSUME IInv, CallFails \/ Crash \/ \E m \in unread : DropMessage(m) \/ Panic(m)
    PROVE  SentInv'
<1>1. PICK g :
        /\ UNCHANGED <<sent, live, historic, disordered, mixed>> /\ failed' = failed \cup {g}
        /\ \A h \in Games \ {g} : AboutGame(h)' = AboutGame(h) /\ ~ Saving(h) /\ ~ Moving(h)
        /\ \A h \in Games : ~ Saving(h)' /\ ~ Moving(h)'
  <2>1. CASE CallFails \/ Crash
    <3>1. ~ Idle /\ Fail(call.msg.game) /\ UNCHANGED disordered /\ unread' \in {unread, unread \cup {call.msg}}
          /\ call' = [at |-> "idle"]
      BY <2>1 DEF CallFails, Crash, Return
    <3>2. \A h \in Games \ {call.msg.game} : AboutGame(h)' = AboutGame(h) /\ ~ Saving(h) /\ ~ Moving(h)
      BY <3>1, CallTyped DEF AboutGame
    <3> QED
      BY <3>1, <3>2 DEF Fail, store, Saving, Moving, Moves
  <2>2. CASE \E m \in unread : DropMessage(m) \/ Panic(m)
    <3> PICK m \in unread : DropMessage(m) \/ Panic(m)
      BY <2>2
    <3>1. Idle /\ Fail(m.game) /\ UNCHANGED <<disordered, call>> /\ unread' = unread \ {m}
      BY DEF DropMessage, Panic
    <3>2. \A h \in Games \ {m.game} : AboutGame(h)' = AboutGame(h) /\ ~ Saving(h) /\ ~ Moving(h)
      BY <3>1 DEF AboutGame, Idle, Saving, Moving, Moves
    <3> QED
      BY <3>1, <3>2 DEF Fail, store, Saving, Moving, Moves, Idle
  <2> QED
    BY <2>1, <2>2
<1>2. ASSUME NEW h \in Games \ (disordered \cup failed), h # g PROVE Followed(h)'
  BY <1>1, <1>2, Untouched DEF IInv, SentInv
<1> QED
  BY <1>1, <1>2 DEF SentInv

-----------------------------------------------------------------------------

LEMMA InitFollowed == Init => SentInv
<1> SUFFICES ASSUME Init, NEW g \in Games PROVE Followed(g)
  BY DEF SentInv
<1>1. /\ sent[g] = Nothing /\ live[g] = None /\ historic[g] = None
      /\ AboutGame(g) = {} /\ WithData(g) = {} /\ ~ Saving(g) /\ ~ Moving(g)
  BY DEF Init, AboutGame, WithData, Saving, Moving, Moves
<1> QED
  BY <1>1 DEF Followed, Numbered, Started, Waiting, Moved, Leads, CommonLeads, DataLeads, Number,
              DataKnown, Nothing

\* With nothing unread and no call about a game, the stage it is in says where it is.
LEMMA InvImpliesAsSent == IInv => AsSent
<1> SUFFICES ASSUME IInv, NEW g \in Games, \A m \in unread : m.game # g,
                    Idle \/ call.msg.game # g, g \notin disordered \cup failed
             PROVE  LET doc == IF sent[g].kind = "none" THEN None ELSE Doc(sent[g].n, sent[g].data)
                    IN  IF sent[g].kind = "finish" THEN live[g] = None /\ historic[g] = doc
                        ELSE historic[g] = None /\ (g \in mixed \/ live[g] = doc)
  BY DEF AsSent
<1>1. /\ Followed(g) /\ AboutGame(g) = {} /\ WithData(g) = {} /\ ~ Saving(g) /\ ~ Moving(g)
  BY DEF IInv, SentInv, AboutGame, WithData, Saving, Moving, Moves, Idle
<1>2. CASE sent[g].kind = "finish"
  BY <1>1, <1>2 DEF Followed, Moved
<1>3. CASE sent[g].kind = "none"
  BY <1>1, <1>3, GoesOn DEF Followed, Started, Waiting
<1>4. CASE sent[g].kind \notin {"none", "finish"}
  <2>1. historic[g] = None /\ live[g] # None /\ live[g] \in Docs
    BY <1>1, <1>4, GoesOn DEF Followed, Started, Waiting, IInv, TypeOK
  <2>2. sent[g].n = live[g].common /\ (g \notin mixed => sent[g].data = live[g].data)
    BY <1>1, <1>4, <2>1 DEF Followed, Leads, CommonLeads, DataLeads, Number, DataKnown
  <2>3. live[g] = Doc(live[g].common, live[g].data)
    BY <2>1 DEF Docs, Doc
  <2> QED
    BY <1>4, <2>1, <2>2, <2>3
<1> QED
  BY <1>2, <1>3, <1>4

\* The collections hold what the games have sent: the live game has the data last
\* sent, the historic one those of the finish, and it is in one of them only
\* (consumer.go:74-196, mongo.go:151).
THEOREM CollectionsCorrect == Spec => []AsSent
<1>1. SentInv /\ TypeOK /\ FinishInv /\ [Next]_vars => SentInv'
  <2> SUFFICES ASSUME IInv, [Next]_vars PROVE SentInv'
    BY DEF IInv
  <2>1. CASE Next
    BY <2>1, SendFollowed, HandleFollowed, SaveLiveFollowed, DeleteLiveFollowed, SaveHistoricFollowed,
       FailureFollowed DEF Next
  <2>2. CASE UNCHANGED vars
    <3>1. \A g \in Games : AboutGame(g)' = AboutGame(g)
      BY <2>2 DEF vars, AboutGame
    <3> QED
      BY <2>2, <3>1, Untouched DEF vars, store, history, IInv, SentInv
  <2> QED
    BY <2>1, <2>2
<1>2. Spec => []FinishInv
  BY FinishInvCorrect
<1>3. SentInv /\ TypeOK /\ FinishInv => AsSent
  BY InvImpliesAsSent DEF IInv
<1> QED
  BY <1>1, <1>2, <1>3, InitFollowed, TypeCorrect, PTL DEF Spec

-----------------------------------------------------------------------------
(* Both services.                                                          *)

\* Side by side each of the two services does what it does alone, so all that is
\* proved of either holds of both.
THEOREM ServicesApart == SpecBoth => Spec /\ PlayerData!Spec
<1>1. InitBoth => Init /\ PlayerData!Init
  BY DEF InitBoth
<1>2. [NextEither]_<<vars, playerDataVars, running>> => [Next]_vars /\ [PlayerData!Next]_(PlayerData!vars)
  BY DEF NextEither, playerDataVars, PlayerData!vars
<1> QED
  BY <1>1, <1>2, PTL DEF SpecBoth, Spec, PlayerData!Spec

\* The data of players are the fields last sent for them, whatever the games do
\* meanwhile (consumer.go:94-141, game_data_mongo.go:49-104 of game-player-data).
THEOREM FieldsCorrectOfBoth ==
    ASSUME PlayerDataProofs!NoneApart
    PROVE  SpecBoth => []FieldsAsSent
<1>1. InitBoth => PlayerDataProofs!Init
  BY DEF InitBoth, PlayerData!Init, PlayerDataProofs!Init, PlayerData!Whose, PlayerDataProofs!Whose,
     PlayerData!Zero, PlayerDataProofs!Zero, PlayerData!Modes, PlayerDataProofs!Modes,
     PlayerData!Fields, PlayerDataProofs!Fields
<1>2. [NextEither]_<<vars, playerDataVars, running>> => [PlayerDataProofs!Next]_(PlayerDataProofs!vars)
  <2>1. PlayerData!vars = PlayerDataProofs!vars
    BY DEF PlayerData!vars, PlayerDataProofs!vars
  <2>2. PlayerData!Next <=> PlayerDataProofs!Next
    BY DEF PlayerData!Next, PlayerDataProofs!Next, PlayerData!Send, PlayerDataProofs!Send, PlayerData!Update,
           PlayerDataProofs!Update, PlayerData!Masked, PlayerDataProofs!Masked, PlayerData!Read,
           PlayerDataProofs!Read, PlayerData!HandleUpdate, PlayerDataProofs!HandleUpdate,
           PlayerData!handleBlockSumoUpdate, PlayerDataProofs!handleBlockSumoUpdate,
           PlayerData!handleMarathonUpdate, PlayerDataProofs!handleMarathonUpdate, PlayerData!Save,
           PlayerDataProofs!Save, PlayerData!FindFails, PlayerDataProofs!FindFails, PlayerData!Fault,
           PlayerDataProofs!Fault, PlayerData!SaveFails, PlayerDataProofs!SaveFails,
           PlayerData!DereferencesNil, PlayerDataProofs!DereferencesNil, PlayerData!GetOrDefault,
           PlayerDataProofs!GetOrDefault, PlayerData!Zero, PlayerDataProofs!Zero, PlayerData!Fields,
           PlayerDataProofs!Fields, PlayerData!Modes, PlayerDataProofs!Modes, PlayerData!Whose,
           PlayerDataProofs!Whose, PlayerData!Cardinality, PlayerDataProofs!Cardinality
  <2> QED
    BY <2>1, <2>2 DEF NextEither, playerDataVars, PlayerData!vars, PlayerDataProofs!vars
<1>3. PlayerDataProofs!Spec => []PlayerDataProofs!FieldsAsSent
  BY PlayerDataProofs!FieldsCorrect
<1>4. PlayerDataProofs!FieldsAsSent => FieldsAsSent
  BY DEF FieldsAsSent, PlayerData!FieldsAsSent, PlayerDataProofs!FieldsAsSent,
         PlayerData!GetMultipleGamePlayerData, PlayerDataProofs!GetMultipleGamePlayerData,
         PlayerData!GetGamePlayerData, PlayerDataProofs!GetGamePlayerData, PlayerData!Modes,
         PlayerDataProofs!Modes, PlayerData!Fields, PlayerDataProofs!Fields, PlayerData!Zero,
         PlayerDataProofs!Zero
<1> QED
  BY <1>1, <1>2, <1>3, <1>4, PTL DEF SpecBoth, PlayerDataProofs!Spec

=============================================================================
