----------------------------- MODULE AuthStore -----------------------------
(***************************************************************************)
(* The tables of auth-service, and what its repositories read from them.   *)
(*                                                                         *)
(* A user has one login name here, the e-mail address: the user name is    *)
(* checked, constrained and written in the same way.  Names of persons,    *)
(* descriptions, time stamps and is_superuser, which no endpoint looks at, *)
(* are left out.                                                           *)
(***************************************************************************)
EXTENDS Naturals, FiniteSets

CONSTANTS
    Users,              \* ids of users
    Roles,              \* ids of roles
    Emails,
    Passwords,          \* those validate_password_strength lets pass
    Names,              \* names of roles
    Permissions,        \* names of permissions
    ActivePermissions,  \* those with is_active
    PermissionSets,     \* bound: the sets of permissions a role is given
    LoginMaxAttempts,   \* settings.login_max_attempts
    Unused,             \* an id no row has been inserted with
    Deleted             \* an id whose row is gone; ids are never used again

ASSUME StoreAssumption ==
    /\ ActivePermissions \subseteq Permissions
    /\ PermissionSets \subseteq SUBSET Permissions
    /\ LoginMaxAttempts \in Nat \ {0}

VARIABLES
    user,  \* [Users -> User \cup {Unused, Deleted}], the committed users
    role   \* [Roles -> Role \cup {Unused, Deleted}], the committed roles

\* `roles' are the rows of user_roles, `permissions' those of role_permissions.
User == [email    : Emails,
         password : Passwords,
         active   : BOOLEAN,
         verified : BOOLEAN,
         failed   : 0..LoginMaxAttempts,
         locked   : BOOLEAN,
         roles    : SUBSET Roles]

Role == [name : Names, active : BOOLEAN, permissions : SUBSET Permissions]

\* No row is what stands for there being none.
ASSUME RowAssumption ==
    /\ Unused \notin User \cup Role
    /\ Deleted \notin User \cup Role

\* select(User) ... where(User.id == u) finds a row; likewise for roles.
Exists(u) == user[u] \notin {Unused, Deleted}

RoleExists(r) == role[r] \notin {Unused, Deleted}

ExistsByEmail(e, except) == \E u \in Users \ {except} : Exists(u) /\ user[u].email = e

ExistsByName(n, except) == \E r \in Roles \ {except} : RoleExists(r) /\ role[r].name = n

\* Both foreign keys of user_roles cascade.
LinksExist == \A u \in Users : Exists(u) => \A r \in user[u].roles : RoleExists(r)

StoreTypeOK ==
    /\ user \in [Users -> User \cup {Unused, Deleted}]
    /\ role \in [Roles -> Role \cup {Unused, Deleted}]
    /\ LinksExist

\* get_by_login: the rows a login name stands for.
GetByLogin(e) == {u \in Users : Exists(u) /\ user[u].email = e}

\* get_permissions_by_ids returns the active ones only, and the request is
\* refused unless that is all of them.
Assignable(permissions) == permissions \subseteq ActivePermissions

\* What the active permissions of a user's active roles come to.
Rights(u) ==
    {p \in ActivePermissions :
        \E r \in user[u].roles : role[r].active /\ p \in role[r].permissions}
=============================================================================
