------------------------ MODULE GamePlayerDataProofs ------------------------
(* Theorems about the data of players, for any number of players, updates,   *)
(* failures and redeliveries.                                                *)
EXTENDS GamePlayerData, TLAPS

-----------------------------------------------------------------------------
(* The invariant.                                                          *)

DataOf(w) == [Fields[w[1]] -> Nat]
AnyData == UNION {DataOf(w) : w \in Whose}
AnyUpdate == [whose : Whose, n : Nat, paths : SUBSET UNION {Fields[mode] : mode \in Modes}, whole : BOOLEAN]

\* None is neither a document nor an update that is being handled.
NoneApart == None \notin AnyData \cup [update : AnyUpdate, document : AnyData]

TypeInv ==
    /\ DOMAIN updated = Whose /\ DOMAIN documents = Whose
    /\ \A w \in Whose : /\ updated[w] \in [n : Nat, last : DataOf(w)]
                        /\ documents[w] \in {None} \cup DataOf(w)
    /\ updates \subseteq AnyUpdate
    /\ \/ saving = None
       \/ /\ saving.update \in AnyUpdate
          /\ saving \in [update : {saving.update}, document : DataOf(saving.update.whose)]

About(w) == {u \in updates : u.whose = w}
SavingFor(w) == saving # None /\ saving.update.whose = w

\* What the document is as soon as the update under way is saved.
Known(w) == IF SavingFor(w) THEN saving.document ELSE GetOrDefault(w)

\* The updates not read yet are later than all that is known, and each of them
\* has a number of its own.
Later(w) ==
    /\ \A u, v \in About(w) : u.n = v.n => u = v
    /\ \A u \in About(w) : 0 < u.n /\ u.n <= updated[w].n
    /\ \A u \in About(w), f \in Fields[w[1]] : Known(w)[f] < u.n

\* They lead from what is known of a field to the last that was sent.
Leads(w, f) ==
    /\ Known(w)[f] <= updated[w].n /\ updated[w].last[f] <= updated[w].n
    /\ \A u \in About(w) : f \in u.paths => u.n <= updated[w].last[f]
    /\ \/ updated[w].last[f] = Known(w)[f]
       \/ \E u \in About(w) : f \in u.paths /\ u.n = updated[w].last[f]

\* Nothing is there, read or unread, of who was never updated, and of him only.
Nothing(w) == documents[w] = None /\ ~ SavingFor(w) /\ About(w) = {}

OrderInv ==
    \A w \in Whose \ (outOfOrder \cup lost) :
        /\ Later(w)
        /\ \A f \in Fields[w[1]] : Leads(w, f)
        /\ (updated[w].n = 0) <=> Nothing(w)

IInv == TypeInv /\ OrderInv

-----------------------------------------------------------------------------
(* Data.                                                                   *)

LEMMA ZeroType ==
    ASSUME NEW w \in Whose
    PROVE  /\ w[1] \in Modes /\ DataOf(w) \subseteq AnyData
           /\ Zero(w[1]) \in DataOf(w)
           /\ \A f \in Fields[w[1]] : Zero(w[1])[f] = 0
BY DEF Whose, DataOf, AnyData, Zero

\* An update sets the fields it names.
LEMMA MaskedFields ==
    ASSUME NEW w, NEW doc \in DataOf(w), NEW u, u.n \in Nat
    PROVE  /\ Masked(doc, u) \in DataOf(w)
           /\ \A f \in Fields[w[1]] : Masked(doc, u)[f] = IF f \in u.paths THEN u.n ELSE doc[f]
BY DEF DataOf, Masked

LEMMA KnownType ==
    ASSUME TypeInv, NEW w \in Whose
    PROVE  /\ GetOrDefault(w) \in DataOf(w) /\ Known(w) \in DataOf(w)
           /\ \A f \in Fields[w[1]] : Known(w)[f] \in Nat
BY ZeroType DEF TypeInv, GetOrDefault, Known, SavingFor, DataOf

LEMMA UpdatesTyped ==
    ASSUME TypeInv, NEW u \in updates
    PROVE  u \in AnyUpdate /\ u.whose \in Whose /\ u.n \in Nat
BY DEF TypeInv, AnyUpdate

-----------------------------------------------------------------------------
(* A new update is the last.                                               *)

LEMMA SendKeeps ==
    ASSUME IInv, NEW w \in Whose, NEW paths \in SUBSET Fields[w[1]], NEW whole \in BOOLEAN,
           Send(w, paths, whole)
    PROVE  IInv'
<1> DEFINE u == Update(w, updated[w].n + 1, paths, whole)
<1>1. /\ u \in AnyUpdate /\ u.whose = w /\ u.n = updated[w].n + 1 /\ u.n \in Nat /\ u.paths = paths
  <2>1. updated[w].n \in Nat
    BY DEF IInv, TypeInv
  <2>2. paths \in SUBSET UNION {Fields[mode] : mode \in Modes}
    BY ZeroType
  <2> QED
    BY <2>1, <2>2 DEF Update, AnyUpdate
<1>2. /\ updated' = [updated EXCEPT ![w] = [n |-> u.n, last |-> Masked(@.last, u)]]
      /\ updates' = updates \cup {u}
      /\ UNCHANGED <<documents, saving, outOfOrder, lost, faults>>
  BY DEF Send
<1> HIDE DEF u
<1>3. /\ updated[w].last \in DataOf(w) /\ Masked(updated[w].last, u) \in DataOf(w)
      /\ \A f \in Fields[w[1]] :
            Masked(updated[w].last, u)[f] = IF f \in paths THEN u.n ELSE updated[w].last[f]
  <2>1. updated[w].last \in DataOf(w)
    BY DEF IInv, TypeInv
  <2> QED
    BY <1>1, <2>1, MaskedFields
<1>4. /\ updated'[w].n = u.n /\ updated'[w].last = Masked(updated[w].last, u)
      /\ \A x \in Whose \ {w} : updated'[x] = updated[x]
  BY <1>2 DEF IInv, TypeInv
<1>5. TypeInv'
  BY <1>1, <1>2, <1>3, <1>4 DEF IInv, TypeInv
<1>6. ASSUME NEW x \in Whose PROVE Known(x)' = Known(x) /\ SavingFor(x)' = SavingFor(x)
  BY <1>2 DEF Known, SavingFor, GetOrDefault
<1>7. ASSUME NEW x \in Whose PROVE About(x)' = IF x = w THEN About(x) \cup {u} ELSE About(x)
  BY <1>1, <1>2 DEF About
<1>8. ASSUME NEW x \in Whose \ (outOfOrder \cup lost)
      PROVE  /\ Later(x)' /\ (\A f \in Fields[x[1]] : Leads(x, f))'
             /\ ((updated[x].n = 0) <=> Nothing(x))'
  <2>1. Later(x) /\ (\A f \in Fields[x[1]] : Leads(x, f)) /\ ((updated[x].n = 0) <=> Nothing(x))
    BY DEF IInv, OrderInv
  <2>2. \A v \in About(x) : v.n \in Nat
    BY UpdatesTyped DEF IInv, About
  <2>3. \A f \in Fields[x[1]] : Known(x)[f] \in Nat
    BY KnownType DEF IInv
  <2>4. CASE x # w
    BY <1>2, <1>4, <1>6, <1>7, <2>1, <2>4 DEF Later, Leads, Nothing
  <2>5. CASE x = w
    <3>1. Later(w)'
      <4>1. updated[w].n \in Nat /\ u.n = updated[w].n + 1 /\ 0 < u.n
        BY <1>1 DEF IInv, TypeInv
      <4>2. \A v \in About(w) : v.n < u.n
        BY <2>1, <2>2, <2>5, <4>1 DEF Later
      <4>3. \A f \in Fields[w[1]] : Known(w)[f] < u.n
        BY <2>1, <2>3, <2>5, <4>1 DEF Leads
      <4>4. /\ About(w)' = About(w) \cup {u} /\ Known(w)' = Known(w) /\ updated'[w].n = u.n
            /\ \A v \in About(w) : v.n \in Nat
        BY <1>4, <1>6, <1>7, <2>2, <2>5
      <4>5. \A v1, v2 \in About(w)' : v1.n = v2.n => v1 = v2
        BY <2>1, <2>5, <4>2, <4>4 DEF Later
      <4>6. \A v \in About(w)' : 0 < v.n /\ v.n <= updated'[w].n
        BY <1>1, <2>1, <2>5, <4>1, <4>2, <4>4 DEF Later
      <4>7. \A v \in About(w)', f \in Fields[w[1]] : Known(w)'[f] < v.n
        BY <2>1, <2>5, <4>3, <4>4 DEF Later
      <4> QED
        BY <4>5, <4>6, <4>7 DEF Later
    <3>2. ASSUME NEW f \in Fields[w[1]] PROVE Leads(w, f)'
      <4>0. updated[w].last[f] \in Nat /\ updated[w].n \in Nat
        BY <1>3 DEF DataOf, IInv, TypeInv
      <4>1. CASE f \in paths
        BY <1>1, <1>3, <1>4, <1>6, <1>7, <2>1, <2>2, <2>3, <2>5, <4>0, <4>1 DEF Later, Leads
      <4>2. CASE f \notin paths
        BY <1>1, <1>3, <1>4, <1>6, <1>7, <2>1, <2>2, <2>3, <2>5, <4>0, <4>2 DEF Later, Leads
      <4> QED
        BY <4>1, <4>2
    <3>3. ((updated[w].n = 0) <=> Nothing(w))'
      BY <1>1, <1>4, <1>7 DEF Nothing, IInv, TypeInv
    <3> QED
      BY <2>5, <3>1, <3>2, <3>3
  <2> QED
    BY <2>4, <2>5
<1>9. OrderInv'
  BY <1>2, <1>8 DEF OrderInv
<1> QED
  BY <1>5, <1>9 DEF IInv

-----------------------------------------------------------------------------
(* The consumer.                                                           *)

\* What is read in order is the first of the updates there are.
LEMMA ReadFirst ==
    ASSUME IInv, NEW u \in updates, Read(u, u.whose[1])
    PROVE  /\ saving = None /\ UNCHANGED <<updated, documents>> /\ updates' = updates \ {u}
           /\ outOfOrder \subseteq outOfOrder'
           /\ u.whose \notin outOfOrder' => \A v \in About(u.whose) : ~ (v.n < u.n)
           /\ \A w \in Whose : About(w)' = About(w) \ {u}
           /\ \A w \in Whose : ~ SavingFor(w)
BY DEF Read, About, SavingFor

LEMMA HandleKeeps ==
    ASSUME NoneApart, IInv, NEW u \in updates, HandleUpdate(u, u.whose[1])
    PROVE  IInv'
<1> DEFINE w == u.whose
<1>1. w \in Whose /\ u.n \in Nat /\ u \in AnyUpdate
  BY UpdatesTyped DEF IInv
<1>2. /\ saving' = [update |-> u, document |-> Masked(GetOrDefault(w), u)]
      /\ UNCHANGED <<updated, documents, lost>> /\ updates' = updates \ {u}
  BY ReadFirst DEF HandleUpdate
<1>3. /\ GetOrDefault(w) \in DataOf(w) /\ Masked(GetOrDefault(w), u) \in DataOf(w)
      /\ \A f \in Fields[w[1]] :
            Masked(GetOrDefault(w), u)[f] = IF f \in u.paths THEN u.n ELSE GetOrDefault(w)[f]
  BY <1>1, KnownType, MaskedFields DEF IInv
<1>4. saving' # None
  <2>1. saving' \in [update : AnyUpdate, document : AnyData]
    BY <1>1, <1>2, <1>3, ZeroType
  <2> QED
    BY <2>1 DEF NoneApart
<1>5. TypeInv'
  BY <1>1, <1>2, <1>3 DEF IInv, TypeInv
<1>6. /\ Known(w)' = Masked(GetOrDefault(w), u) /\ Known(w) = GetOrDefault(w) /\ SavingFor(w)'
      /\ \A x \in Whose \ {w} : Known(x)' = Known(x) /\ ~ SavingFor(x)'
  BY <1>1, <1>2, <1>4, ReadFirst DEF HandleUpdate, Known, SavingFor, GetOrDefault
<1>7. ASSUME NEW x \in Whose \ (outOfOrder' \cup lost)
      PROVE  /\ Later(x)' /\ (\A f \in Fields[x[1]] : Leads(x, f))'
             /\ ((updated[x].n = 0) <=> Nothing(x))'
  <2>1. Later(x) /\ (\A f \in Fields[x[1]] : Leads(x, f)) /\ ((updated[x].n = 0) <=> Nothing(x))
    BY ReadFirst DEF HandleUpdate, IInv, OrderInv
  <2>2. \A v \in About(x) : v.n \in Nat
    BY UpdatesTyped DEF IInv, About
  <2>3. About(x)' = About(x) \ {u} /\ ~ SavingFor(x)
    BY ReadFirst DEF HandleUpdate
  <2>4. CASE x # w
    <3>1. About(x)' = About(x)
      BY <2>3, <2>4 DEF About
    <3> QED
      BY <1>2, <1>6, <2>1, <2>3, <2>4, <3>1 DEF Later, Leads, Nothing
  <2>5. CASE x = w
    <3>0. u \in About(w) /\ \A v \in About(w) \ {u} : u.n < v.n
      <4>1. u \in About(w) /\ \A v \in About(w) : ~ (v.n < u.n)
        BY <1>1, <2>5, ReadFirst DEF HandleUpdate, About
      <4> QED
        BY <1>1, <2>1, <2>2, <2>5, <4>1 DEF Later
    <3>1. Later(w)'
      BY <1>2, <1>3, <1>6, <2>1, <2>3, <2>5, <3>0 DEF Later
    <3>2. ASSUME NEW f \in Fields[w[1]] PROVE Leads(w, f)'
      <4>0. /\ updated[w].last[f] \in Nat /\ updated[w].n \in Nat /\ GetOrDefault(w)[f] \in Nat
            /\ GetOrDefault(w)[f] < u.n /\ u.n <= updated[w].n /\ Leads(w, f)
        BY <1>1, <1>3, <1>6, <2>1, <2>5, <3>0 DEF DataOf, IInv, TypeInv, Later
      <4>1. CASE f \in u.paths
        BY <1>1, <1>2, <1>3, <1>6, <2>2, <2>3, <2>5, <3>0, <4>0, <4>1 DEF Leads
      <4>2. CASE f \notin u.paths
        BY <1>1, <1>2, <1>3, <1>6, <2>2, <2>3, <2>5, <3>0, <4>0, <4>2 DEF Leads
      <4> QED
        BY <4>1, <4>2
    <3>3. ((updated[w].n = 0) <=> Nothing(w))'
      BY <1>2, <1>6, <2>1, <2>5, <3>0 DEF Nothing
    <3> QED
      BY <2>5, <3>1, <3>2, <3>3
  <2> QED
    BY <2>4, <2>5
<1>8. OrderInv'
  BY <1>2, <1>7 DEF OrderInv
<1> QED
  BY <1>5, <1>8 DEF IInv

\* What is saved was known.
LEMMA SaveKeeps ==
    ASSUME NoneApart, IInv, Save
    PROVE  IInv'
<1> DEFINE w == saving.update.whose
<1>1. /\ saving # None /\ w \in Whose /\ saving.document \in DataOf(w)
      /\ documents' = [documents EXCEPT ![w] = saving.document] /\ saving' = None
      /\ UNCHANGED <<updated, updates, outOfOrder, lost>>
  BY DEF Save, IInv, TypeInv, AnyUpdate
<1>2. documents'[w] = saving.document /\ documents'[w] # None
  <2>1. saving.document # None
    BY <1>1, ZeroType DEF NoneApart
  <2> QED
    BY <1>1, <2>1 DEF IInv, TypeInv
<1>3. TypeInv'
  BY <1>1 DEF IInv, TypeInv
<1>4. ASSUME NEW x \in Whose
      PROVE  Known(x)' = Known(x) /\ About(x)' = About(x) /\ Nothing(x)' = Nothing(x)
  <2>1. ~ SavingFor(x)' /\ About(x)' = About(x)
    BY <1>1 DEF SavingFor, About
  <2>2. CASE x = w
    BY <1>1, <1>2, <2>1, <2>2 DEF Known, GetOrDefault, SavingFor, Nothing
  <2>3. CASE x # w
    BY <1>1, <2>1, <2>3 DEF Known, GetOrDefault, SavingFor, Nothing, IInv, TypeInv
  <2> QED
    BY <2>2, <2>3
<1>5. OrderInv'
  BY <1>1, <1>4 DEF IInv, OrderInv, Later, Leads
<1> QED
  BY <1>3, <1>5 DEF IInv

-----------------------------------------------------------------------------
(* Failures lose the update of one player, and may bring it back.          *)

LEMMA FailureKeeps ==
    ASSUME IInv, SaveFails \/ \E u \in updates : FindFails(u) \/ DereferencesNil(u)
    PROVE  IInv'
<1>1. PICK w :
        /\ UNCHANGED <<updated, documents>> /\ saving' = None
        /\ outOfOrder \subseteq outOfOrder' /\ lost' = lost \cup {w}
        /\ updates' \subseteq AnyUpdate
        /\ \A x \in Whose \ {w} : About(x)' = About(x) /\ ~ SavingFor(x)
  <2>1. CASE SaveFails
    <3>1. saving.update \in AnyUpdate /\ updates' \subseteq AnyUpdate
      BY <2>1 DEF SaveFails, IInv, TypeInv
    <3>2. \A x \in Whose \ {saving.update.whose} : About(x)' = About(x) /\ ~ SavingFor(x)
      BY <2>1 DEF SaveFails, About, SavingFor
    <3> QED
      BY <2>1, <3>1, <3>2 DEF SaveFails, Fault
  <2>2. CASE \E u \in updates : FindFails(u) \/ DereferencesNil(u)
    <3> PICK u \in updates : Read(u, u.whose[1]) /\ Fault(u.whose)
      BY <2>2 DEF FindFails, DereferencesNil
    <3>1. updates' \subseteq AnyUpdate
      BY ReadFirst DEF IInv, TypeInv
    <3>2. \A x \in Whose \ {u.whose} : About(x)' = About(x) /\ ~ SavingFor(x)
      BY ReadFirst DEF About
    <3> QED
      BY <3>1, <3>2, ReadFirst DEF Fault
  <2> QED
    BY <2>1, <2>2
<1>2. TypeInv'
  BY <1>1 DEF IInv, TypeInv
<1>3. ASSUME NEW x \in Whose \ {w}
      PROVE  Known(x)' = Known(x) /\ Nothing(x)' = Nothing(x)
  BY <1>1 DEF Known, GetOrDefault, SavingFor, Nothing
<1>4. OrderInv'
  BY <1>1, <1>3 DEF IInv, OrderInv, Later, Leads
<1> QED
  BY <1>2, <1>4 DEF IInv

-----------------------------------------------------------------------------

LEMMA InitEstablishes == Init => IInv
<1> SUFFICES ASSUME Init PROVE IInv
  OBVIOUS
<1>1. TypeInv
  BY ZeroType DEF Init, TypeInv
<1>2. ASSUME NEW w \in Whose
      PROVE  Later(w) /\ (\A f \in Fields[w[1]] : Leads(w, f)) /\ ((updated[w].n = 0) <=> Nothing(w))
  <2>1. About(w) = {} /\ ~ SavingFor(w) /\ Known(w) = Zero(w[1]) /\ documents[w] = None
        /\ updated[w].n = 0 /\ updated[w].last = Zero(w[1])
    BY DEF Init, About, SavingFor, Known, GetOrDefault
  <2> QED
    BY <2>1, ZeroType DEF Later, Leads, Nothing
<1> QED
  BY <1>1, <1>2 DEF IInv, OrderInv

LEMMA NextKeeps ==
    ASSUME NoneApart, IInv, [Next]_vars
    PROVE  IInv'
<1>1. CASE Next
  <2>1. ASSUME NEW u \in updates, handleBlockSumoUpdate(u) \/ handleMarathonUpdate(u) PROVE IInv'
    <3>1. HandleUpdate(u, u.whose[1])
      BY <2>1 DEF handleBlockSumoUpdate, handleMarathonUpdate, HandleUpdate, Read
    <3> QED
      BY <3>1, HandleKeeps
  <2> QED
    BY <1>1, <2>1, SendKeeps, SaveKeeps, FailureKeeps DEF Next
<1>2. CASE UNCHANGED vars
  BY <1>2 DEF vars, IInv, TypeInv, OrderInv, Later, Leads, Nothing, Known, SavingFor, About, GetOrDefault
<1> QED
  BY <1>1, <1>2

\* With nothing unread the document that is known is the one last sent.
LEMMA InvImpliesFieldsAsSent ==
    ASSUME NoneApart, IInv
    PROVE  FieldsAsSent
<1> SUFFICES ASSUME NEW mode \in Modes, NEW p \in Players,
                    <<mode, p>> \notin outOfOrder \cup lost,
                    \A u \in updates : u.whose # <<mode, p>>,
                    saving = None \/ saving.update.whose # <<mode, p>>
             PROVE  /\ (updated[<<mode, p>>].n = 0) <=> (documents[<<mode, p>>] = None)
                    /\ documents[<<mode, p>>] # None =>
                          documents[<<mode, p>>] = updated[<<mode, p>>].last
  BY DEF FieldsAsSent, GetGamePlayerData, GetMultipleGamePlayerData
<1> DEFINE w == <<mode, p>>
<1>1. w \in Whose /\ About(w) = {} /\ ~ SavingFor(w)
  BY DEF Whose, About, SavingFor
<1>2. /\ \A f \in Fields[w[1]] : Leads(w, f)
      /\ (updated[w].n = 0) <=> Nothing(w)
  BY <1>1 DEF IInv, OrderInv
<1>3. ASSUME documents[w] # None PROVE documents[w] = updated[w].last
  <2>1. Known(w) = documents[w] /\ documents[w] \in DataOf(w) /\ updated[w].last \in DataOf(w)
    BY <1>1, <1>3 DEF Known, GetOrDefault, IInv, TypeInv
  <2>2. \A f \in Fields[w[1]] : documents[w][f] = updated[w].last[f]
    BY <1>1, <1>2, <2>1 DEF Leads
  <2> QED
    BY <2>1, <2>2 DEF DataOf
<1> QED
  BY <1>1, <1>2, <1>3 DEF Nothing

\* What the service shows of a player, field by field, is what was sent last,
\* however many updates came, together or apart, and whatever failed for others
\* (consumer.go:94, game_data_mongo.go:49).
THEOREM FieldsCorrect ==
    ASSUME NoneApart
    PROVE  Spec => []FieldsAsSent
<1>1. IInv /\ [Next]_vars => IInv'
  BY NextKeeps
<1>2. IInv => FieldsAsSent
  BY InvImpliesFieldsAsSent
<1> QED
  BY <1>1, <1>2, InitEstablishes, PTL DEF Spec

=============================================================================
