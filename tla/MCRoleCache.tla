---------------------------- MODULE MCRoleCache -----------------------------
(* A small instance of the roles and of the cache of message-handler.      *)
EXTENDS RoleCache, TLC

CONSTANTS default, staff   \* roles

SomePriority == default :> 0 @@ staff :> 100

\* One thing at a time; the default role may be given a permission.
Change(r, set, unset) == [role |-> r, set |-> set, unset |-> unset]
SomeChanges == {Change(staff, {"displayName"}, {}), Change(staff, {"chat.parse"}, {}),
                Change(staff, {}, {"chat.parse"}), Change(default, {"chat.parse"}, {})}

Symmetry == Permutations(Slots)

=============================================================================
