----------------------------- MODULE MCMcPlayer -----------------------------
(* A small instance of the player service and of the roles of players.     *)
EXTENDS McPlayer, TLC

CONSTANTS default, staff,          \* roles
          staffBadge, donorBadge   \* badges

\* As in badge-config: the badge of a role is required; the default role
\* grants none.
SomePriority == staffBadge :> 200 @@ donorBadge :> 300
SomeGranted == staff :> staffBadge @@ default :> None

\* The default role may be taken away; that it may be given back adds nothing.
SomeAsked == {<<staff, "ADD">>, <<staff, "REMOVE">>, <<default, "REMOVE">>}

\* What happens after two kinds of trouble with the same player is left out.
OneTrouble == Cardinality(crossed) + Cardinality(tangled) + failures <= 1

Symmetry == Permutations(RoleSlots)

=============================================================================
