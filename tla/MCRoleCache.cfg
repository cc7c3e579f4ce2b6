SPECIFICATION Spec
CONSTANTS
    default = default
    staff = staff
    None = None
    s1 = s1
    s2 = s2
    Roles = {default, staff}
    DefaultRole = default
    Priority <- SomePriority
    Changes <- SomeChanges
    Slots = {s1, s2}
    MaxUnread = 2
SYMMETRY Symmetry
INVARIANT
    ChatFollowsRoles
PROPERTIES
    UpdatesKept
