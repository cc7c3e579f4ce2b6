------------------------- MODULE MCSimpleController -------------------------
(* Three players and matches of two: one full match and one that is not.   *)
EXTENDS SimpleController
=============================================================================
