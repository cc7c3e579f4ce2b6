--------------------------- MODULE MCPartyManager ---------------------------
(* Small instances of the party manager.                                   *)
EXTENDS PartyManager, TLC

CONSTANTS p1, p2, p3   \* players

Symmetry == Permutations(Players)

\* p1 differs from the others where only he has settings.
Others == Permutations({p2, p3})

(***************************************************************************)
(* States that differ only in the ids of parties are the same for TLC: a   *)
(* party goes by its leader, who leads no other, and one that is gone by   *)
(* what still names it.                                                    *)
(***************************************************************************)
IdsOf(call) == {call.into} \cup call.todo \cup (IF call.seen = None THEN {} ELSE {call.seen.id})

NameOf(c) ==
    IF c = None \/ c \in EventIds THEN c
    ELSE IF c \in DOMAIN parties THEN parties[c].leader
    ELSE [invited |-> {i[2] : i \in {j \in invites : j[1] = c}},
          events |-> {e \in DOMAIN events : c \in events[e].party},
          calls |-> {a \in DOMAIN calls : c \in IdsOf(calls[a])}]

NamedCall(call) ==
    [call EXCEPT !.into = NameOf(@),
                 !.seen = IF @ = None THEN None ELSE [@ EXCEPT !.id = NameOf(@)],
                 !.todo = IF call.op = "deleteEvent" THEN {NameOf(c) : c \in @} ELSE @]

WithoutIds ==
    <<{parties[c] : c \in DOMAIN parties},
      {<<NameOf(i[1]), i[2]>> : i \in invites},
      [e \in DOMAIN events |-> [events[e] EXCEPT !.party = {NameOf(c) : c \in @}]],
      online, connections,
      [a \in DOMAIN calls |-> NamedCall(calls[a])],
      aside,
      {<<NameOf(c), heard[c]>> : c \in DOMAIN heard}>>

-----------------------------------------------------------------------------
(* Events are met apart from invites, changed settings and failures, and   *)
(* are all p1's: any owner is like any other as long as nobody's settings  *)
(* have changed.                                                           *)

\* p is off the network, or about to be, and has yet to lose his party.
Leaving(p) == \/ p \in hurt
              \/ Connection("disconnect", p) \in {connections[i] : i \in DOMAIN connections}
              \/ \E a \in DOMAIN calls : calls[a].op = "disconnect" /\ calls[a].who = p

\* Something is left of an event: its document, its mark on a party, a call about
\* it, or a party whose leader left while it had the mark.
EventAbout ==
    \/ events # Empty
    \/ hurt \cap EventIds # {}
    \/ \E a \in DOMAIN calls : calls[a].into \in EventIds
    \/ \E c \in DOMAIN parties :
          \/ parties[c].event # {}
          \/ parties[c].leader \notin online /\ ~ Leaving(parties[c].leader)

EventsApart ==
    /\ EventAbout => invites = {} /\ memberInvites = {} /\ failures = 0
    /\ \A e \in DOMAIN events : events[e].owner = p1

-----------------------------------------------------------------------------
\* Nobody's disconnection is under way.
NobodyDisconnects ==
    /\ \A i \in DOMAIN connections : connections[i].type # "disconnect"
    /\ \A a \in DOMAIN calls : calls[a].op # "disconnect"

=============================================================================
