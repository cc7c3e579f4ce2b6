-------------------------- MODULE MCRelationships --------------------------
(* Small instances of the relationship manager.                            *)
EXTENDS Relationships, TLC

CONSTANTS p1, p2

\* p1 and p2 deal with each other, and p1, by mistake, with himself.
SomeContacts == {<<p1, p2>>, <<p2, p1>>, <<p1, p1>>}

Symmetry == Permutations(Slots)

=============================================================================
