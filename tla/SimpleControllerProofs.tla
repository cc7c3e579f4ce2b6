----------------------- MODULE SimpleControllerProofs -----------------------
(***************************************************************************)
(* Proofs about SimpleController for every set of players and every size   *)
(* of a match: the inductive invariant IInv, the safety invariants it      *)
(* contains, and the refinement of PlayerDispatch.                         *)
(***************************************************************************)
EXTENDS SimpleController, FiniteSetTheorems, TLAPS

USE ControllerAssumption

\* A set of players is finite, so its size is a number.
LEMMA PlayerSets ==
    \A S \in SUBSET Players : IsFiniteSet(S) /\ Cardinality(S) \in Nat
  BY FS_Subset, FS_CardinalityType

\* Adding one player to a match adds one to its size.
LEMMA OneMore ==
    ASSUME NEW S \in SUBSET Players, NEW p \in Players, p \notin S
    PROVE  Cardinality(S \cup {p}) = Cardinality(S) + 1
  BY PlayerSets, FS_AddElement

\* The functions from sets of players to flags are closed under restriction.
LEMMA PlayerMapType ==
    /\ NoPlayers \in PlayerMap
    /\ \A f \in PlayerMap : DOMAIN f \subseteq Players /\ f \in [DOMAIN f -> BOOLEAN]
    /\ \A S \in SUBSET Players : [S -> BOOLEAN] \subseteq PlayerMap
  BY DEF PlayerMap, NoPlayers

-----------------------------------------------------------------------------
LEMMA InitIInv == Init => IInv
  <1> SUFFICES ASSUME Init PROVE IInv
    OBVIOUS
  <1>1. TypeOK
    BY PlayerMapType DEF Init, TypeOK, PcValues, NoPlayers
  <1>2. LoopShape
    BY DEF Init, LoopShape
  <1>3. PlacedOnce
    BY DEF Init, PlacedOnce
  <1>4. MatchesFilled
    BY FS_EmptySet DEF Init, MatchesFilled
  <1> QED
    BY <1>1, <1>2, <1>3, <1>4 DEF IInv

\* A handler changes only the shared map.
LEMMA QueuePlayerIInv ==
    ASSUME IInv, NEW p \in Players, NEW a \in BOOLEAN, QueuePlayer(p, a)
    PROVE  IInv'
  <1>1. queuedPlayers' \in PlayerMap
    <2>1. queuedPlayers' \in [DOMAIN queuedPlayers \cup {p} -> BOOLEAN]
      BY PlayerMapType DEF QueuePlayer, IInv, TypeOK
    <2>2. DOMAIN queuedPlayers \cup {p} \in SUBSET Players
      BY PlayerMapType DEF IInv, TypeOK
    <2> QED
      BY <2>1, <2>2, PlayerMapType
  <1> QED
    BY <1>1 DEF IInv, QueuePlayer, loopVars, TypeOK, LoopShape, PlacedOnce, MatchesFilled

LEMMA ResetIInv ==
    ASSUME IInv, ResetQueuedPlayers PROVE IInv'
  <1>1. TypeOK'
    BY PlayerMapType DEF IInv, TypeOK, LoopShape, ResetQueuedPlayers, PcValues
  <1>2. LoopShape'
    BY DEF IInv, LoopShape, ResetQueuedPlayers
  <1>3. PlacedOnce'
    BY DEF IInv, LoopShape, PlacedOnce, ResetQueuedPlayers
  <1>4. MatchesFilled'
    BY DEF IInv, LoopShape, MatchesFilled, ResetQueuedPlayers
  <1> QED
    BY <1>1, <1>2, <1>3, <1>4 DEF IInv

\* The loop that cuts the batch: the size of the match being filled is what
\* decides, so its growth by one is the heart of the argument.
LEMMA PlaceIInv ==
    ASSUME IInv, NEW p \in Players, PlacePlayer(p) PROVE IInv'
  <1> DEFINE filled == currentMatch \cup {p}
  <1>1. /\ p \in DOMAIN batch /\ p \notin currentMatch /\ DOMAIN batch \subseteq Players
        /\ currentMatch \in SUBSET Players /\ filled \in SUBSET (DOMAIN batch)
    BY PlayerMapType DEF IInv, TypeOK, PlacedOnce, PlacePlayer
  <1>2. /\ Cardinality(currentMatch) \in Nat
        /\ Cardinality(filled) = Cardinality(currentMatch) + 1
    BY <1>1, PlayerSets, OneMore
  <1>3. TypeOK'
    BY <1>1 DEF IInv, TypeOK, PlacePlayer, PcValues
  <1>4. PlacedOnce'
    <2>1. /\ unplaced' = unplaced \ {p}
          /\ \/ matches' = matches \cup {filled} /\ currentMatch' = {}
             \/ matches' = matches /\ currentMatch' = filled
      BY DEF PlacePlayer
    <2>2. p \in unplaced /\ filled \cap unplaced' = {}
      BY <2>1 DEF PlacePlayer, IInv, PlacedOnce
    <2>3. \A m \in matches : m \cap filled = {} /\ m \cap unplaced' = {}
      BY <2>1, <2>2 DEF IInv, PlacedOnce
    <2>4. CASE matches' = matches \cup {filled} /\ currentMatch' = {}
      BY <2>2, <2>3, <2>4 DEF IInv, PlacedOnce
    <2>5. CASE matches' = matches /\ currentMatch' = filled
      BY <2>2, <2>3, <2>5 DEF IInv, PlacedOnce
    <2> QED
      BY <2>1, <2>4, <2>5
  <1>5. CASE Cardinality(filled) >= PlayersPerMatch
    <2>1. Cardinality(filled) = PlayersPerMatch
      BY <1>2, <1>5 DEF IInv, MatchesFilled
    <2>2. matches' = matches \cup {filled} /\ currentMatch' = {}
      BY <1>5 DEF PlacePlayer
    <2>3. LoopShape'
      BY <2>1, <2>2 DEF IInv, LoopShape, PlacePlayer
    <2>4. MatchesFilled'
      <3>1. \A m \in matches' : m # {} /\ Cardinality(m) = PlayersPerMatch
        BY <2>1, <2>2 DEF IInv, LoopShape, MatchesFilled, PlacePlayer
      <3>2. Cardinality(currentMatch') = 0
        BY <2>2, FS_EmptySet
      <3> QED
        BY <3>1, <3>2 DEF MatchesFilled
    <2> QED
      BY <1>3, <1>4, <2>3, <2>4 DEF IInv
  <1>6. CASE ~(Cardinality(filled) >= PlayersPerMatch)
    <2>1. matches' = matches /\ currentMatch' = filled
      BY <1>6 DEF PlacePlayer
    <2>2. LoopShape'
      BY <2>1 DEF IInv, LoopShape, PlacePlayer
    <2>3. Cardinality(filled) < PlayersPerMatch
      BY <1>2, <1>6
    <2>4. MatchesFilled'
      BY <2>1, <2>3 DEF IInv, MatchesFilled
    <2> QED
      BY <1>3, <1>4, <2>2, <2>4 DEF IInv
  <1> QED
    BY <1>5, <1>6

\* Closing the partial match adds the only match that may not be full.
LEMMA CloseIInv ==
    ASSUME IInv, CloseLastMatch PROVE IInv'
  <1>1. TypeOK'
    BY DEF IInv, TypeOK, CloseLastMatch, PcValues
  <1>2. LoopShape'
    BY DEF IInv, LoopShape, CloseLastMatch
  <1>3. PlacedOnce'
    BY DEF IInv, PlacedOnce, CloseLastMatch
  <1>4. MatchesFilled'
    <2>1. Cardinality({}) = 0
      BY FS_EmptySet
    <2>2. \A m \in matches : Cardinality(m) = PlayersPerMatch
      BY DEF IInv, LoopShape, CloseLastMatch
    <2>3. \A m \in matches' : m \in matches \/ (m = currentMatch /\ m # {})
      BY DEF CloseLastMatch
    <2>4. \A m \in matches' : m # {} /\ Cardinality(m) <= PlayersPerMatch
      <3> SUFFICES ASSUME NEW m \in matches'
                   PROVE  m # {} /\ Cardinality(m) <= PlayersPerMatch
        OBVIOUS
      <3>1. CASE m \in matches
        BY <3>1 DEF IInv, MatchesFilled
      <3>2. CASE m = currentMatch /\ m # {}
        <4>1. Cardinality(currentMatch) \in Nat
          BY PlayerSets, PlayerMapType DEF IInv, TypeOK
        <4> QED
          BY <3>2, <4>1 DEF IInv, MatchesFilled
      <3> QED
        BY <2>3, <3>1, <3>2
    <2>5. \A m, n \in matches' :
             Cardinality(m) < PlayersPerMatch /\ Cardinality(n) < PlayersPerMatch => m = n
      BY <2>2, <2>3
    <2> QED
      BY <2>1, <2>4, <2>5 DEF MatchesFilled, CloseLastMatch
  <1> QED
    BY <1>1, <1>2, <1>3, <1>4 DEF IInv

LEMMA AllocateIInv ==
    ASSUME IInv, NEW m \in matches, AllocateServer(m) PROVE IInv'
  BY DEF IInv, TypeOK, LoopShape, PlacedOnce, MatchesFilled, AllocateServer

LEMMA AllocationsDoneIInv ==
    ASSUME IInv, AllocationsDone PROVE IInv'
  BY DEF IInv, TypeOK, PcValues, LoopShape, PlacedOnce, MatchesFilled, AllocationsDone,
         loopVars

LEMMA MatchCreatedIInv ==
    ASSUME IInv, NEW m \in matches, MatchCreated(m) PROVE IInv'
  <1>1. lastMatch' \in PlayerMap
    <2>1. CASE lastMatch' = [p \in m |-> batch[p]]
      <3>1. m \in SUBSET Players /\ lastMatch' \in [m -> BOOLEAN]
        BY <2>1, PlayerMapType DEF IInv, TypeOK
      <3> QED
        BY <3>1, PlayerMapType
    <2>2. CASE UNCHANGED lastMatch
      BY <2>2 DEF IInv, TypeOK
    <2> QED
      BY <2>1, <2>2 DEF MatchCreated
  <1>2. TypeOK'
    BY <1>1 DEF IInv, TypeOK, MatchCreated
  <1>3. LoopShape' /\ PlacedOnce' /\ MatchesFilled'
    BY DEF IInv, LoopShape, PlacedOnce, MatchesFilled, MatchCreated
  <1> QED
    BY <1>2, <1>3 DEF IInv

LEMMA NextRunIInv ==
    ASSUME IInv, NextRun PROVE IInv'
  <1>1. TypeOK'
    BY PlayerMapType DEF IInv, TypeOK, LoopShape, NextRun, PcValues, NoPlayers
  <1>2. LoopShape' /\ PlacedOnce' /\ MatchesFilled'
    BY DEF IInv, LoopShape, PlacedOnce, MatchesFilled, NextRun
  <1> QED
    BY <1>1, <1>2 DEF IInv

LEMMA StopIInv ==
    ASSUME IInv, StopLoop \/ Cancel PROVE IInv'
  BY DEF IInv, TypeOK, PcValues, LoopShape, PlacedOnce, MatchesFilled, StopLoop, Cancel,
         loopVars

LEMMA NextIInv == IInv /\ [Next]_vars => IInv'
  <1> SUFFICES ASSUME IInv, [Next]_vars PROVE IInv'
    OBVIOUS
  <1>1. ASSUME NEW p \in Players, SendPlayerToLobby(p) \/ LoginQueueByPlayer(p) PROVE IInv'
    BY <1>1, QueuePlayerIInv DEF SendPlayerToLobby, LoginQueueByPlayer
  <1>2. CASE ResetQueuedPlayers
    BY <1>2, ResetIInv
  <1>3. ASSUME NEW p \in Players, PlacePlayer(p) PROVE IInv'
    BY <1>3, PlaceIInv
  <1>4. CASE CloseLastMatch
    BY <1>4, CloseIInv
  <1>5. ASSUME NEW m \in matches, AllocateServer(m) PROVE IInv'
    BY <1>5, AllocateIInv
  <1>6. CASE AllocationsDone
    BY <1>6, AllocationsDoneIInv
  <1>7. ASSUME NEW m \in matches, MatchCreated(m) PROVE IInv'
    BY <1>7, MatchCreatedIInv
  <1>8. CASE NextRun
    BY <1>8, NextRunIInv
  <1>9. CASE StopLoop \/ Cancel
    BY <1>9, StopIInv
  <1>10. CASE UNCHANGED vars
    BY <1>10 DEF vars, IInv, TypeOK, LoopShape, PlacedOnce, MatchesFilled
  <1> QED
    BY <1>1, <1>2, <1>3, <1>4, <1>5, <1>6, <1>7, <1>8, <1>9, <1>10 DEF Next, Loop

\* The locals of run and the shared map always satisfy the inductive invariant.
THEOREM Invariance == Spec => []IInv
  BY InitIInv, NextIInv, PTL DEF Spec

\* The variables keep their types, for any players and any match size.
THEOREM TypeCorrect == Spec => []TypeOK
  <1>1. IInv => TypeOK
    BY DEF IInv
  <1> QED
    BY <1>1, Invariance, PTL

\* No player of a batch is placed in two matches, whatever the map order.
THEOREM NobodyPlacedTwice == Spec => []PlacedOnce
  <1>1. IInv => PlacedOnce
    BY DEF IInv
  <1> QED
    BY <1>1, Invariance, PTL

\* Matches never exceed the configured size and at most one is not full.
THEOREM MatchSizes == Spec => []MatchesFilled
  <1>1. IInv => MatchesFilled
    BY DEF IInv
  <1> QED
    BY <1>1, Invariance, PTL

-----------------------------------------------------------------------------
(* The refinement of PlayerDispatch.                                       *)

taken == [p \in Unannounced |-> batch[p]]

\* The initial state of the controller is the initial state of the promise.
LEMMA RefinesInit == Init => Dispatch!Init
  BY DEF Init, Dispatch!Init, Dispatch!NoPlayers, NoPlayers, Unannounced

\* A step that leaves the abstract variables alone is a stutter of the promise.
LEMMA Stutters ==
    ASSUME UNCHANGED <<queuedPlayers, lastMatch, ctxDone>>, taken' = taken
    PROVE  UNCHANGED Dispatch!vars
  BY DEF Dispatch!vars, taken

\* Announcing a match is a dispatch of its players, or their loss on shutdown.
LEMMA RefinesMatchCreated ==
    ASSUME IInv, NEW m \in matches, MatchCreated(m)
    PROVE  Dispatch!Next
  <1>1. Unannounced' = Unannounced \ m /\ m \subseteq Unannounced
    BY DEF IInv, LoopShape, PlacedOnce, MatchCreated, Unannounced
  <1>2. /\ taken' = Dispatch!Without(taken, m)
        /\ m \in SUBSET DOMAIN taken
        /\ \A p \in m : taken[p] = batch[p]
    BY <1>1 DEF taken, Dispatch!Without, MatchCreated
  <1>3. UNCHANGED <<queuedPlayers, ctxDone>>
    BY DEF MatchCreated
  <1>4. CASE lastMatch' = [p \in m |-> batch[p]]
    <2>1. m \in MatchSets
      BY PlayerMapType DEF IInv, TypeOK, MatchesFilled, MatchSets
    <2>2. lastMatch' = [p \in m |-> taken[p]]
      BY <1>2, <1>4
    <2>3. Dispatch!Dispatch(m)
      BY <1>2, <1>3, <2>1, <2>2 DEF Dispatch!Dispatch, Dispatch!Without, taken
    <2> QED
      BY <1>2, <2>3 DEF Dispatch!Next, taken
  <1>5. CASE ctxDone /\ UNCHANGED lastMatch
    <2>1. Dispatch!Lose(m)
      BY <1>2, <1>3, <1>5 DEF Dispatch!Lose, taken
    <2> QED
      BY <1>2, <2>1 DEF Dispatch!Next, taken
  <1> QED
    BY <1>4, <1>5 DEF MatchCreated

\* Every step of the controller is a step or a stutter of the promise.
LEMMA RefinesNext ==
    ASSUME IInv, [Next]_vars PROVE [Dispatch!Next]_(Dispatch!vars)
  <1>1. ASSUME NEW p \in Players, SendPlayerToLobby(p) \/ LoginQueueByPlayer(p)
        PROVE  Dispatch!Next
    <2>1. PICK a \in BOOLEAN : QueuePlayer(p, a)
      BY <1>1 DEF SendPlayerToLobby, LoginQueueByPlayer
    <2>2. Unannounced' = Unannounced /\ batch' = batch
      BY <2>1 DEF QueuePlayer, loopVars, Unannounced
    <2>3. Dispatch!Request(p, a)
      BY <2>1, <2>2 DEF Dispatch!Request, QueuePlayer, loopVars
    <2> QED
      BY <2>3 DEF Dispatch!Next
  <1>2. CASE ResetQueuedPlayers
    <2>1. Unannounced = {} /\ Unannounced' = DOMAIN queuedPlayers
      BY <1>2 DEF IInv, LoopShape, ResetQueuedPlayers, Unannounced
    <2>2. taken' = queuedPlayers
      BY <1>2, <2>1, PlayerMapType DEF taken, ResetQueuedPlayers, IInv, TypeOK
    <2>3. Dispatch!Take
      BY <1>2, <2>1, <2>2 DEF Dispatch!Take, ResetQueuedPlayers, NoPlayers,
                              Dispatch!NoPlayers, taken
    <2> QED
      BY <2>3 DEF Dispatch!Next
  <1>3. ASSUME NEW p \in Players, PlacePlayer(p) PROVE UNCHANGED Dispatch!vars
    <2>1. Unannounced' = Unannounced /\ batch' = batch
      BY <1>3 DEF PlacePlayer, Unannounced
    <2> QED
      BY <1>3, <2>1, Stutters DEF PlacePlayer, taken
  <1>4. CASE CloseLastMatch
    <2>1. Unannounced' = Unannounced /\ batch' = batch
      BY <1>4 DEF CloseLastMatch, Unannounced
    <2> QED
      BY <1>4, <2>1, Stutters DEF CloseLastMatch, taken
  <1>5. ASSUME NEW m \in matches, AllocateServer(m) PROVE UNCHANGED Dispatch!vars
    BY <1>5, Stutters DEF AllocateServer, taken, Unannounced
  <1>6. CASE AllocationsDone \/ StopLoop \/ UNCHANGED vars
    BY <1>6, Stutters DEF AllocationsDone, StopLoop, vars, loopVars, taken, Unannounced
  <1>7. ASSUME NEW m \in matches, MatchCreated(m) PROVE Dispatch!Next
    BY <1>7, RefinesMatchCreated
  <1>8. CASE NextRun
    <2>1. Unannounced = {} /\ Unannounced' = {}
      BY <1>8 DEF IInv, LoopShape, NextRun, Unannounced
    <2>2. taken' = taken
      BY <2>1 DEF taken
    <2> QED
      BY <1>8, <2>2, Stutters DEF NextRun
  <1>9. CASE Cancel
    <2>1. Dispatch!Stop
      BY <1>9 DEF Dispatch!Stop, Cancel, loopVars, Unannounced
    <2> QED
      BY <2>1 DEF Dispatch!Next
  <1> QED
    BY <1>1, <1>2, <1>3, <1>4, <1>5, <1>6, <1>7, <1>8, <1>9 DEF Next, Loop

\* The controller implements PlayerDispatch: nobody who was queued is lost,
\* announced twice or announced with a flag other than the last one asked for.
THEOREM Refinement == Spec => RefinesDispatch
  <1>1. IInv /\ [Next]_vars => [Dispatch!Next]_(Dispatch!vars)
    BY RefinesNext
  <1> QED
    BY <1>1, RefinesInit, Invariance, PTL DEF Spec, RefinesDispatch, Dispatch!Spec

=============================================================================
