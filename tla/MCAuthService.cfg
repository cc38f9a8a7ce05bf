\* Two overlapping requests, two users, two roles.
SPECIFICATION Spec
\* The behaviour ends when every request has.
CHECK_DEADLOCK FALSE
CONSTANTS
    Users = {u1, u2}
    Roles = {r1, r2}
    Emails = {e1, e2}
    Passwords = {p1, p2}
    Names = {"admin", "staff"}
    Permissions <- MCPermissions
    ActivePermissions <- MCPermissions
    PermissionSets <- MCPermissionSets
    LoginMaxAttempts = 2
    Sessions = {s1, s2}
    Unused = Unused
    Deleted = Deleted
    NoUser = NoUser
    NoRole = NoRole
SYMMETRY Symmetry
INVARIANTS
    TypeOK
    AccountsAreDistinct
PROPERTIES
    OnlyPermittedChange
    OnlyAdministratorsActivate
    RolesAsAssigned
    SignInLeavesNoTrace
