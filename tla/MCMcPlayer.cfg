SPECIFICATION Spec
CONSTANTS
    p1 = p1
    default = default
    staff = staff
    staffBadge = staffBadge
    donorBadge = donorBadge
    None = None
    a1 = a1
    r1 = r1
    r2 = r2
    Players = {p1}
    Roles = {default, staff}
    DefaultRole = default
    RoleSlots = {r1, r2}
    MaxGrants = 2
    Asked <- SomeAsked
    Badges = {staffBadge, donorBadge}
    Priority <- SomePriority
    Required = {staffBadge}
    Granted <- SomeGranted
    ByHand = {donorBadge}
    Slots = {a1}
    MaxUnread = 1
    MaxXP = 1
    MaxFailures = 1
SYMMETRY Symmetry
INVARIANTS
    TrackedWhereHeIs
    OnlineHasSession
    ActiveBadgeOwned
    ExperienceAccounted
    BadgesFollowRoles
PROPERTIES
    ExperienceGrows
    RolesKept
CONSTRAINT
    OneTrouble
