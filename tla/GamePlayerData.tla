--------------------------- MODULE GamePlayerData ---------------------------
(***************************************************************************)
(* What players have set up for themselves in block sumo and marathon      *)
(* (game-player-data): one goroutine reads the updates that game servers   *)
(* send and writes the fields they name into the player's document, which  *)
(* the gRPC service shows.  A step is one repository call with the local   *)
(* work up to the next.  Updates for any other mode are logged, no more.   *)
(***************************************************************************)
EXTENDS Integers, FiniteSets

CONSTANTS Players, None,
          MaxSent,       \* bound: updates of a player in a mode
          MaxUnread,     \* bound: updates not read yet
          MaxFailures    \* bound: failed calls and crashes

VARIABLES
    updated,     \* <<mode, player>> |-> the number of updates sent and, by field, of the last that set it
    updates,     \* topic game-player-data: the updates not read
    documents,   \* the collections: <<mode, player>> |-> document, or None
    saving,      \* the update being handled, with the document to save, or None
    outOfOrder,  \* history: whose updates were not read in order
    lost,        \* history: whose updates failed
    faults       \* history: their number

vars == <<updated, updates, documents, saving, outOfOrder, lost, faults>>

-----------------------------------------------------------------------------
(* Data.  The value of a field is the number of the update it is from; a   *)
(* field never set has the zero value.                                     *)

Fields == [blockSumo |-> {"blockSlot", "shearsSlot"},
           marathon |-> {"time", "blockPalette", "animation"}]
Modes == DOMAIN Fields

Whose == Modes \X Players
Zero(mode) == [f \in Fields[mode] |-> 0]

\* An update: the paths of its mask, and whether it has the mask and, if it names
\* the animation, one, both of which are optional.  No mask has no paths.
Update(w, n, paths, whole) == [whose |-> w, n |-> n, paths |-> paths, whole |-> whole]

\* Faulty variant: the document is built from the update alone.
OnlyDefault(w) == Zero(w[1])

\* The document of a player in a mode, or a new one.
GetOrDefault(w) == IF documents[w] = None THEN Zero(w[1]) ELSE documents[w]

\* The fields in the mask are taken from the update, the others stay.
Masked(doc, u) == [f \in DOMAIN doc |-> IF f \in u.paths THEN u.n ELSE doc[f]]

\* GetGamePlayerData shows one document, and is an error without; of several
\* players it shows those who have one.
GetGamePlayerData(mode, p) == documents[<<mode, p>>]
GetMultipleGamePlayerData(mode, ps) ==
    [p \in {q \in ps : documents[<<mode, q>>] # None} |-> documents[<<mode, p>>]]

-----------------------------------------------------------------------------
Init ==
    /\ updated = [w \in Whose |-> [n |-> 0, last |-> Zero(w[1])]]
    /\ updates = {}
    /\ documents = [w \in Whose |-> None]
    /\ saving = None
    /\ outOfOrder = {} /\ lost = {} /\ faults = 0

Send(w, paths, whole) ==
    LET u == Update(w, updated[w].n + 1, paths, whole)
    IN  /\ u.n <= MaxSent /\ Cardinality(updates) < MaxUnread
        /\ ~ whole => paths = {} \/ "animation" \in paths
        /\ updated' = [updated EXCEPT ![w] = [n |-> u.n, last |-> Masked(@.last, u)]]
        /\ updates' = updates \cup {u}
        /\ UNCHANGED <<documents, saving, outOfOrder, lost, faults>>

-----------------------------------------------------------------------------
(* The consumer.                                                           *)

\* The messages have no key: one of another partition may be older.
Read(u, mode) ==
    /\ saving = None /\ u \in updates /\ u.whose[1] = mode
    /\ updates' = updates \ {u}
    /\ outOfOrder' = outOfOrder \cup {w \in {u.whose} : \E v \in updates : v.whose = w /\ v.n < u.n}
    /\ UNCHANGED <<updated, documents>>

\* The mask and the animation are read through pointers, which may be nil.
HandleUpdate(u, mode) ==
    /\ Read(u, mode) /\ u.whole
    /\ saving' = [update |-> u, document |-> Masked(GetOrDefault(u.whose), u)]
    /\ UNCHANGED <<lost, faults>>

handleBlockSumoUpdate(u) == HandleUpdate(u, "blockSumo")
handleMarathonUpdate(u) == HandleUpdate(u, "marathon")

Save ==
    /\ saving # None
    /\ documents' = [documents EXCEPT ![saving.update.whose] = saving.document]
    /\ saving' = None
    /\ UNCHANGED <<updated, updates, outOfOrder, lost, faults>>

-----------------------------------------------------------------------------
(* Failures.                                                               *)

Fault(w) == /\ faults < MaxFailures
            /\ faults' = faults + 1
            /\ lost' = lost \cup {w}
            /\ saving' = None

\* A repository call fails: the update is dropped.
FindFails(u) == Read(u, u.whose[1]) /\ Fault(u.whose)

\* The process ends before the document is saved, or the save fails; the update
\* may be read once more.
SaveFails ==
    /\ saving # None
    /\ Fault(saving.update.whose)
    /\ updates' \in {updates, updates \cup {saving.update}}
    /\ UNCHANGED <<updated, documents, outOfOrder>>

\* The process ends because of the update; one read again would end it again.
DereferencesNil(u) == ~ u.whole /\ Read(u, u.whose[1]) /\ Fault(u.whose)

-----------------------------------------------------------------------------
Next ==
    \/ \E w \in Whose : \E paths \in SUBSET Fields[w[1]], whole \in BOOLEAN : Send(w, paths, whole)
    \/ \E u \in updates : \/ handleBlockSumoUpdate(u) \/ handleMarathonUpdate(u)
                          \/ FindFails(u) \/ DereferencesNil(u)
    \/ Save \/ SaveFails

Spec == Init /\ [][Next]_vars

-----------------------------------------------------------------------------
(* Properties.                                                             *)

\* When all the updates of a player in a mode are handled, in order and without
\* a failure, the service shows, field by field, the last that set it: an update
\* of one field never takes back another.  Who was never updated is not found.
FieldsAsSent ==
    \A mode \in Modes :
        LET settled == {p \in Players : LET w == <<mode, p>>
                                        IN  /\ w \notin outOfOrder \cup lost
                                            /\ \A u \in updates : u.whose # w
                                            /\ saving = None \/ saving.update.whose # w}
        IN  /\ \A p \in settled : (updated[<<mode, p>>].n = 0) <=> (GetGamePlayerData(mode, p) = None)
            /\ \A p \in DOMAIN GetMultipleGamePlayerData(mode, settled) :
                  GetMultipleGamePlayerData(mode, settled)[p] = updated[<<mode, p>>].last

=============================================================================
