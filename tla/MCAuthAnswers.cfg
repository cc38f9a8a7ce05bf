\* One user changes a password; nothing else runs.
SPECIFICATION Spec
CHECK_DEADLOCK FALSE
CONSTANTS
    Users = {u1}
    Roles = {r1}
    Emails = {e1}
    Passwords = {p1, p2}
    Names = {"admin"}
    Permissions <- MCPermissions
    ActivePermissions <- MCPermissions
    PermissionSets <- MCPermissionSets
    LoginMaxAttempts = 2
    Sessions = {s1}
    Unused = Unused
    Deleted = Deleted
    NoUser = NoUser
    NoRole = NoRole
PROPERTIES
    AnsweredChangesAreKept
