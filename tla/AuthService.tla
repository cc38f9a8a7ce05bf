---------------------------- MODULE AuthService ----------------------------
(***************************************************************************)
(* auth-service: accounts, roles and permissions, sign-in and passwords.   *)
(*                                                                         *)
(* Every request has a database session of its own.  It reads the user who *)
(* makes it, the row it is about and what it must check, changes its copy, *)
(* flushes, and commits if it is an endpoint of users.py or roles.py: no   *)
(* endpoint of auth.py commits, and get_db closes the session without.     *)
(* Other sessions run between any two of these.  A row the session has is  *)
(* not read again: a query that finds it gives the copy.  A request that   *)
(* is refused while it reads has changed nothing, and stays where it is.   *)
(***************************************************************************)
EXTENDS AuthStore

CONSTANTS
    Sessions,
    NoUser,  \* the target of a request that has none
    NoRole

ASSUME RequestAssumption == NoUser \notin Users /\ NoRole \notin Roles

VARIABLES
    tokens,   \* [Users -> SUBSET TokenType], tokens in a user's hands
    sess      \* [Sessions -> Session]

vars == <<user, role, tokens, sess>>

TokenType == {"access", "refresh", "password_reset", "email_verification"}

UserUpdates == {"update_me", "update_user", "activate_user", "deactivate_user"}
RoleLists   == {"assign_roles", "remove_roles"}
SignIns     == {"login", "refresh_token", "change_password", "reset_password", "verify_email"}

Ops == UserUpdates \cup RoleLists \cup SignIns \cup
       {"none", "create_user", "delete_user", "create_role", "update_role",
        "delete_role", "update_role_permissions"}

\* `copy' is a row as read: that of the user who makes the request, and then of
\* the one it is about.  `new' is the copy as changed, `seen' the rows of roles
\* that came with a user, while they matter, and `rights' what the user who makes
\* the request had the right to when it began.
Session == [pc     : {"idle", "current", "found", "read", "answered", "done"},
            op     : Ops,
            target : Users \cup {NoUser},
            copy   : User \cup {Unused},
            new    : User \cup {Unused},
            role   : Roles \cup {NoRole},
            rcopy  : Role \cup {Unused},
            rnew   : Role \cup {Unused},
            seen   : [Roles -> Role \cup {Unused}],
            rights : SUBSET Permissions]

Unseen == [r \in Roles |-> Unused]

Idle == [pc |-> "idle", op |-> "none", target |-> NoUser, copy |-> Unused, new |-> Unused,
         role |-> NoRole, rcopy |-> Unused, rnew |-> Unused, seen |-> Unseen,
         rights |-> {}]

Done == [Idle EXCEPT !.pc = "done"]

TypeOK ==
    /\ StoreTypeOK
    /\ tokens \in [Users -> SUBSET TokenType]
    /\ sess \in [Sessions -> Session]

\* The row create_user inserts.
Created(e, p) ==
    [email |-> e, password |-> p, active |-> TRUE, verified |-> FALSE,
     failed |-> 0, locked |-> FALSE, roles |-> {}]

\* What a sign-in or a refresh hands out.
SignInTokens == {"access", "refresh"}

\* What a forgotten password and a new address should get by e-mail.
MailedTokens == {"password_reset", "email_verification"}

\* A token says whose it is and of what kind; that it also expires is left out.
Issued(u, types) == [tokens EXCEPT ![u] = @ \cup types]

\* A role, and an account with password p, of an earlier life.
EarlierRoles == [name : Names, active : BOOLEAN, permissions : PermissionSets]

EarlierUsers(p) ==
    {row \in User : row.password = p /\ ~row.verified /\ row.failed = 0 /\ ~row.locked}

\* Users and roles an earlier life of the service has left, and all the tokens
\* their users may have: those of the two kinds that are mailed come from the
\* functions that make them, as the endpoints that should send them fail first.
Init ==
    /\ role \in [Roles -> {Unused} \cup EarlierRoles]
    /\ \A q, r \in Roles : q # r /\ RoleExists(q) /\ RoleExists(r) => role[q].name # role[r].name
    /\ \E p \in Passwords : user \in [Users -> {Unused} \cup EarlierUsers(p)]
    /\ \A u, v \in Users : u # v /\ Exists(u) /\ Exists(v) => user[u].email # user[v].email
    /\ LinksExist
    /\ tokens = [u \in Users |-> IF Exists(u) THEN SignInTokens \cup MailedTokens ELSE {}]
    /\ sess = [s \in Sessions |-> Idle]

----------------------------------------------------------------------------
(* What the services make of a row                                         *)

\* One field at a time: a request that changes several writes the same columns.
\* The address must be free, the user's own excepted.
SelfUpdates(u, copy) ==
    {[copy EXCEPT !.email = e] : e \in {f \in Emails : ~ExistsByEmail(f, u)}}
        \cup {[copy EXCEPT !.active = b] : b \in BOOLEAN}

AdminUpdates(u, copy) ==
    {[copy EXCEPT !.email = e] : e \in {f \in Emails : ~ExistsByEmail(f, u)}}
        \cup {[copy EXCEPT !.active = b] : b \in BOOLEAN}
        \cup {[copy EXCEPT !.verified = b] : b \in BOOLEAN}

Activated(copy) == [copy EXCEPT !.active = TRUE, !.locked = FALSE, !.failed = 0]

Deactivated(copy) == [copy EXCEPT !.active = FALSE]

RoleUpdates(r, copy) ==
    {[copy EXCEPT !.name = n] : n \in {m \in Names : ~ExistsByName(m, r)}}
        \cup {[copy EXCEPT !.active = b] : b \in BOOLEAN}

SignedIn(copy) == [copy EXCEPT !.failed = 0, !.locked = FALSE]

\* The attempt is counted, and the last one that is allowed locks the account.
FailedAttempt(copy) ==
    [copy EXCEPT !.failed = copy.failed + 1, !.locked = copy.failed + 1 >= LoginMaxAttempts]

WithPassword(copy, p) == [copy EXCEPT !.password = p]

\* authenticate, reset_password and change_password: a copy after the call.
Authenticated(copy, p) == IF p = copy.password THEN SignedIn(copy) ELSE FailedAttempt(copy)

PasswordResets(copy) == {WithPassword(copy, p) : p \in Passwords}

\* The current password is right, and the new one is another.
PasswordChanges(copy) == {WithPassword(copy, p) : p \in Passwords \ {copy.password}}

Verified(copy) == [copy EXCEPT !.verified = TRUE]

\* Neither inactive nor locked.
MayLogin(u) == user[u].active /\ ~user[u].locked

----------------------------------------------------------------------------
(* Requests                                                                *)

\* A token of the kind the endpoint asks for.
Presents(u, type) == type \in tokens[u]

\* get_current_user
Current(a) == Presents(a, "access") /\ Exists(a) /\ user[a].active

Free(s) == sess[s].pc = "idle"

\* What a session has of roles R when it has `seen' already.
WithRoles(seen, R) == [r \in Roles |-> IF r \in R /\ seen[r] = Unused THEN role[r] ELSE seen[r]]

\* Token and user are checked, and the user's roles loaded with the user.
GetCurrentUser(s, a) ==
    /\ Free(s) /\ Current(a)
    /\ sess' = [sess EXCEPT ![s] =
                  [Idle EXCEPT !.pc = "current", !.target = a, !.copy = user[a],
                               !.seen = WithRoles(Unseen, user[a].roles), !.rights = Rights(a)]]
    /\ UNCHANGED <<user, role, tokens>>

Signed(s) == sess[s].pc = "current"

\* A bug to catch: a role that was switched off still gives its permissions.
PermittedByAnyRole(s, p) ==
    Signed(s) /\ \E r \in sess[s].copy.roles : p \in sess[s].seen[r].permissions

\* require_permissions, on the rows that were loaded and not on the token's claims.
Permitted(s, p) ==
    /\ Signed(s)
    /\ \E r \in sess[s].copy.roles :
          /\ sess[s].seen[r].active
          /\ p \in sess[s].seen[r].permissions \cap ActivePermissions

\* The row a query for u, or for r, gives the session.
UserRow(s, u) == IF u = sess[s].target THEN sess[s].copy ELSE user[u]

RoleRow(s, r) ==
    IF r = sess[s].role THEN sess[s].rcopy ELSE WithRoles(sess[s].seen, {r})[r]

\* The session has read the user or the role of the request (found), and what it
\* asks for may be done to it (read).
ReadUser(s, pc, op, u, new, seen) ==
    /\ sess' = [sess EXCEPT ![s] =
                  [Idle EXCEPT !.pc = pc, !.op = op, !.target = u, !.copy = UserRow(s, u),
                               !.new = new, !.seen = seen, !.rights = sess[s].rights]]
    /\ UNCHANGED <<user, role, tokens>>

ReadRole(s, pc, op, r, new) ==
    /\ sess' = [sess EXCEPT ![s] =
                  [Idle EXCEPT !.pc = pc, !.op = op, !.role = r, !.rcopy = RoleRow(s, r),
                               !.rnew = new, !.rights = sess[s].rights]]
    /\ UNCHANGED <<user, role, tokens>>

Found(s, op) == sess[s].pc = "found" /\ sess[s].op = op

\* Registration: nobody is signed in.  The id is the next unused one.
CreateUser(s) ==
    /\ Free(s)
    /\ \E e \in Emails, p \in Passwords :
          /\ ~ExistsByEmail(e, NoUser)
          /\ sess' = [sess EXCEPT ![s] = [Idle EXCEPT !.pc = "read", !.op = "create_user",
                                                      !.new = Created(e, p)]]
    /\ UNCHANGED <<user, role, tokens>>

\* The row is the one get_current_user has read; the address is looked up now.
UpdateMe(s) ==
    LET a == sess[s].target
    IN  /\ Signed(s)
        /\ \E new \in SelfUpdates(a, sess[s].copy) : ReadUser(s, "read", "update_me", a, new, Unseen)

GetUserToUpdate(s, u) ==
    /\ Permitted(s, "users:update") /\ Exists(u)
    /\ ReadUser(s, "found", "update_user", u, Unused, Unseen)

UpdateUser(s) ==
    LET u == sess[s].target
    IN  /\ Found(s, "update_user")
        /\ \E new \in AdminUpdates(u, sess[s].copy) : ReadUser(s, "read", "update_user", u, new, Unseen)

DeleteUser(s, u) ==
    /\ Permitted(s, "users:delete") /\ Exists(u)
    /\ ReadUser(s, "read", "delete_user", u, UserRow(s, u), Unseen)

GetUserToAssign(s, u) ==
    /\ Permitted(s, "users:update") /\ Exists(u)
    /\ ReadUser(s, "found", "assign_roles", u, [UserRow(s, u) EXCEPT !.roles = {}],
                WithRoles(sess[s].seen, UserRow(s, u).roles))

\* One role of the list after the other is read, until the last of them is.
AssignRole(s, r) ==
    LET new == [sess[s].new EXCEPT !.roles = @ \cup {r}]
    IN  /\ Found(s, "assign_roles")
        /\ RoleExists(r) /\ RoleRow(s, r).active
        /\ \/ ReadUser(s, "found", "assign_roles", sess[s].target, new, WithRoles(sess[s].seen, {r}))
           \/ ReadUser(s, "read", "assign_roles", sess[s].target, new, Unseen)

RemoveRoles(s, u) ==
    /\ Permitted(s, "users:update") /\ Exists(u)
    /\ ReadUser(s, "read", "remove_roles", u, [UserRow(s, u) EXCEPT !.roles = {}], Unseen)

ActivateUser(s, u) ==
    /\ Permitted(s, "users:update") /\ Exists(u)
    /\ ReadUser(s, "read", "activate_user", u, Activated(UserRow(s, u)), Unseen)

DeactivateUser(s, u) ==
    /\ Permitted(s, "users:update") /\ Exists(u)
    /\ ReadUser(s, "read", "deactivate_user", u, Deactivated(UserRow(s, u)), Unseen)

CreateRole(s) ==
    /\ Permitted(s, "roles:create")
    /\ \E n \in Names :
          /\ ~ExistsByName(n, NoRole)
          /\ sess' = [sess EXCEPT ![s] =
                [Idle EXCEPT !.pc = "read", !.op = "create_role", !.rights = sess[s].rights,
                             !.rnew = [name |-> n, active |-> TRUE, permissions |-> {}]]]
    /\ UNCHANGED <<user, role, tokens>>

GetRoleToUpdate(s, r) ==
    /\ Permitted(s, "roles:update") /\ RoleExists(r)
    /\ ReadRole(s, "found", "update_role", r, Unused)

UpdateRole(s) ==
    LET r == sess[s].role
    IN  /\ Found(s, "update_role")
        /\ \E new \in RoleUpdates(r, sess[s].rcopy) : ReadRole(s, "read", "update_role", r, new)

DeleteRole(s, r) ==
    /\ Permitted(s, "roles:delete") /\ RoleExists(r)
    /\ ReadRole(s, "read", "delete_role", r, RoleRow(s, r))

\* Which permissions there are, and which are active, does not change.
UpdateRolePermissions(s, r) ==
    /\ Permitted(s, "roles:update") /\ RoleExists(r)
    /\ \E permissions \in PermissionSets :
          /\ Assignable(permissions)
          /\ ReadRole(s, "read", "update_role_permissions", r,
                      [RoleRow(s, r) EXCEPT !.permissions = permissions])

\* A request of auth.py without an access token reads its user and nothing else.
ReadSignIn(s, op, u, new) ==
    /\ Free(s)
    /\ sess' = [sess EXCEPT ![s] = [Idle EXCEPT !.pc = "read", !.op = op, !.target = u,
                                                !.copy = user[u], !.new = new]]
    /\ UNCHANGED <<user, role, tokens>>

\* Sign-in with the right password, or with another one.
Login(s) ==
    \E e \in Emails, p \in Passwords :
        \E u \in GetByLogin(e) :
            MayLogin(u) /\ ReadSignIn(s, "login", u, Authenticated(user[u], p))

RefreshToken(s, u) ==
    /\ Presents(u, "refresh") /\ Exists(u) /\ MayLogin(u)
    /\ ReadSignIn(s, "refresh_token", u, user[u])

ChangePassword(s) ==
    /\ Signed(s)
    /\ \E new \in PasswordChanges(sess[s].copy) :
          ReadUser(s, "read", "change_password", sess[s].target, new, Unseen)

ResetPassword(s, u) ==
    /\ Presents(u, "password_reset") /\ Exists(u)
    /\ \E new \in PasswordResets(user[u]) : ReadSignIn(s, "reset_password", u, new)

VerifyEmail(s, u) ==
    /\ Presents(u, "email_verification") /\ Exists(u)
    /\ ReadSignIn(s, "verify_email", u, Verified(user[u]))

----------------------------------------------------------------------------
(* Flush and commit                                                        *)

End(s) == sess' = [sess EXCEPT ![s] = Done]

Ready(s, ops) == sess[s].pc = "read" /\ sess[s].op \in ops

Commit(s) == End(s) /\ UNCHANGED tokens

\* The statement fails, get_db rolls back, and the client has an error.
Fail(s) == End(s) /\ UNCHANGED <<user, role, tokens>>

\* A bug to catch: every column of the copy is written.
WrittenWhole(current, read, new) == new

\* UPDATE names the columns whose value is not the one that was read.
Written(current, read, new) == [f \in DOMAIN new |-> IF new[f] = read[f] THEN current[f] ELSE new[f]]

\* The rows of a link table to go and to come.  A row to come that is there
\* breaks the primary key; a row to go that is not there may be noticed.
Dropped(read, new) == read \ new
Added(read, new)   == new \ read

Collides(current, read, new) == Added(read, new) \cap current # {}
Misses(current, read, new)   == ~(Dropped(read, new) \subseteq current)

Linked(current, read, new) == (current \ Dropped(read, new)) \cup Added(read, new)

\* A bug to catch: the e-mail address is checked and not constrained.
FlushNewUserUnconstrained(s) ==
    /\ Ready(s, {"create_user"})
    /\ \E u \in Users : user[u] = Unused /\ user' = [user EXCEPT ![u] = sess[s].new]
    /\ Commit(s) /\ UNCHANGED role

FlushNewUser(s) ==
    /\ Ready(s, {"create_user"})
    /\ IF ExistsByEmail(sess[s].new.email, NoUser)
         THEN Fail(s)
         ELSE /\ \E u \in Users : user[u] = Unused /\ user' = [user EXCEPT ![u] = sess[s].new]
              /\ Commit(s) /\ UNCHANGED role

\* The row is gone, or the address was taken meanwhile.
FlushUser(s) ==
    LET u == sess[s].target
        written == Written(user[u], sess[s].copy, sess[s].new)
    IN  /\ Ready(s, UserUpdates)
        /\ IF ~Exists(u) \/ ExistsByEmail(written.email, u)
             THEN Fail(s)
             ELSE user' = [user EXCEPT ![u] = written] /\ Commit(s) /\ UNCHANGED role

\* The links go first, those of the copy; a user who is gone only warns.
FlushDeletedUser(s) ==
    LET u == sess[s].target
    IN  /\ Ready(s, {"delete_user"})
        /\ \/ /\ user' = [user EXCEPT ![u] = Deleted]
              /\ Commit(s) /\ UNCHANGED role
           \/ /\ Exists(u) => Misses(user[u].roles, sess[s].copy.roles, {})
              /\ Fail(s)

\* A bug to catch: the roles are added to those the user has.
FlushRolesAdding(s) ==
    LET u == sess[s].target
    IN  /\ Ready(s, RoleLists)
        /\ IF ~Exists(u) \/ \E r \in sess[s].new.roles : ~RoleExists(r)
             THEN Fail(s)
             ELSE user' = [user EXCEPT ![u].roles = @ \cup sess[s].new.roles]
                  /\ Commit(s) /\ UNCHANGED role

\* A role to add, or the user, may be gone.
FlushRoles(s) ==
    LET u == sess[s].target
        old == sess[s].copy.roles
        new == sess[s].new.roles
    IN  /\ Ready(s, RoleLists)
        /\ \/ /\ Exists(u)
              /\ \A r \in Added(old, new) : RoleExists(r)
              /\ ~Collides(user[u].roles, old, new)
              /\ user' = [user EXCEPT ![u].roles = Linked(@, old, new)]
              /\ Commit(s) /\ UNCHANGED role
           \/ /\ Exists(u) =>
                    \/ \E r \in Added(old, new) : ~RoleExists(r)
                    \/ Collides(user[u].roles, old, new)
                    \/ Misses(user[u].roles, old, new)
              /\ Fail(s)

FlushNewRole(s) ==
    /\ Ready(s, {"create_role"})
    /\ IF ExistsByName(sess[s].rnew.name, NoRole)
         THEN Fail(s)
         ELSE /\ \E r \in Roles : role[r] = Unused /\ role' = [role EXCEPT ![r] = sess[s].rnew]
              /\ Commit(s) /\ UNCHANGED user

FlushRole(s) ==
    LET r == sess[s].role
        written == Written(role[r], sess[s].rcopy, sess[s].rnew)
    IN  /\ Ready(s, {"update_role"})
        /\ IF ~RoleExists(r) \/ ExistsByName(written.name, r)
             THEN Fail(s)
             ELSE role' = [role EXCEPT ![r] = written] /\ Commit(s) /\ UNCHANGED user

\* A bug to catch: the links of a role outlive it.
FlushDeletedRoleOnly(s) ==
    /\ Ready(s, {"delete_role"})
    /\ role' = [role EXCEPT ![sess[s].role] = Deleted]
    /\ Commit(s) /\ UNCHANGED user

\* Its links go with it, by the copy's lists and by the cascade.  A link of the
\* copy that is gone may be noticed; which those are is not kept here.
FlushDeletedRole(s) ==
    LET r == sess[s].role
    IN  /\ Ready(s, {"delete_role"})
        /\ \/ /\ role' = [role EXCEPT ![r] = Deleted]
              /\ user' = [u \in Users |->
                            IF Exists(u) THEN [user[u] EXCEPT !.roles = @ \ {r}] ELSE user[u]]
              /\ Commit(s)
           \/ Fail(s)

FlushPermissions(s) ==
    LET r == sess[s].role
        old == sess[s].rcopy.permissions
        new == sess[s].rnew.permissions
    IN  /\ Ready(s, {"update_role_permissions"})
        /\ \/ /\ RoleExists(r)
              /\ ~Collides(role[r].permissions, old, new)
              /\ role' = [role EXCEPT ![r].permissions = Linked(@, old, new)]
              /\ Commit(s) /\ UNCHANGED user
           \/ /\ RoleExists(r) =>
                    \/ Collides(role[r].permissions, old, new)
                    \/ Misses(role[r].permissions, old, new)
              /\ Fail(s)

\* The row is flushed, or is gone; a wrong password raises after the flush.
\* Success is answered, and a sign-in or a refresh hands out both tokens.
Answer(s) ==
    LET u == sess[s].target
        signs == sess[s].op \in {"login", "refresh_token"}
        writes == sess[s].op \notin {"refresh_token", "verify_email"} \/ sess[s].new # sess[s].copy
    IN  /\ Ready(s, SignIns)
        /\ IF (~Exists(u) /\ writes) \/ sess[s].new.failed > sess[s].copy.failed
             THEN Fail(s)
             ELSE /\ sess' = [sess EXCEPT ![s].pc = "answered"]
                  /\ tokens' = IF signs THEN Issued(u, SignInTokens) ELSE tokens
                  /\ UNCHANGED <<user, role>>

\* A bug to catch: the session of get_db is committed when it ends.
CloseCommitting(s) ==
    LET u == sess[s].target
    IN  /\ sess[s].pc = "answered"
        /\ user' = IF Exists(u)
                     THEN [user EXCEPT ![u] = Written(@, sess[s].copy, sess[s].new)]
                     ELSE user
        /\ End(s)
        /\ UNCHANGED <<role, tokens>>

\* get_db leaves its block: what was flushed and not committed is gone.
Close(s) ==
    /\ sess[s].pc = "answered"
    /\ End(s)
    /\ UNCHANGED <<user, role, tokens>>

\* logout and logout_all: the user is told that the sessions are ended; every
\* token stays as good as it was.
Logout(s) ==
    /\ Signed(s)
    /\ End(s)
    /\ UNCHANGED <<user, role, tokens>>

\* forgot_password and resend_verification: the user is read, the token made
\* and, before anything is sent, awaited, which raises.
AsksForMail(s) ==
    /\ Free(s)
    /\ End(s)
    /\ UNCHANGED <<user, role, tokens>>

ForgotPassword(s) == AsksForMail(s)

ResendVerification(s) == AsksForMail(s)

Next ==
    \E s \in Sessions :
        \/ CreateUser(s) \/ Login(s) \/ ForgotPassword(s) \/ ResendVerification(s)
        \/ Logout(s) \/ UpdateMe(s) \/ UpdateUser(s) \/ CreateRole(s) \/ UpdateRole(s)
        \/ ChangePassword(s)
        \/ \E u \in Users :
              \/ GetCurrentUser(s, u)
              \/ GetUserToUpdate(s, u) \/ DeleteUser(s, u)
              \/ GetUserToAssign(s, u) \/ RemoveRoles(s, u)
              \/ ActivateUser(s, u) \/ DeactivateUser(s, u)
              \/ RefreshToken(s, u) \/ ResetPassword(s, u) \/ VerifyEmail(s, u)
        \/ \E r \in Roles :
              \/ AssignRole(s, r)
              \/ GetRoleToUpdate(s, r) \/ DeleteRole(s, r) \/ UpdateRolePermissions(s, r)
        \/ FlushNewUser(s) \/ FlushUser(s) \/ FlushDeletedUser(s) \/ FlushRoles(s)
        \/ FlushNewRole(s) \/ FlushRole(s) \/ FlushDeletedRole(s) \/ FlushPermissions(s)
        \/ Answer(s) \/ Close(s)

Spec == Init /\ [][Next]_vars

----------------------------------------------------------------------------
(* Properties                                                              *)

\* An address belongs to one user and a name to one role, although every
\* request checks that in one statement and writes in another.
AccountsAreDistinct ==
    /\ \A u, v \in Users : Exists(u) /\ Exists(v) /\ user[u].email = user[v].email => u = v
    /\ \A q, r \in Roles : RoleExists(q) /\ RoleExists(r) /\ role[q].name = role[r].name => q = r

\* The request that commits in this step had the right to when it began.
By(s, permission) ==
    sess[s].pc = "read" /\ sess'[s] = Done /\ permission \in sess[s].rights

\* Accounts are deleted, verified and given roles, and roles are changed, only
\* by requests of users whose active roles gave them the permission to.
OnlyPermittedChange ==
    [][/\ \A u \in Users :
            /\ Exists(u) /\ user'[u] = Deleted => \E s \in Sessions : By(s, "users:delete")
            /\ Exists(u) /\ Exists(u)' =>
                  \/ /\ user'[u].verified = user[u].verified
                     /\ user'[u].roles \subseteq user[u].roles
                  \/ \E s \in Sessions : By(s, "users:update")
       /\ \A r \in Roles : role'[r] # role[r] =>
            \E s \in Sessions, p \in {"roles:create", "roles:update", "roles:delete"} : By(s, p)]_vars

\* A user who was deactivated stays so until somebody with users:update says
\* otherwise: no update of the user's own, begun before, brings the account back.
OnlyAdministratorsActivate ==
    [][\A u \in Users : Exists(u) /\ Exists(u)' /\ ~user[u].active /\ user'[u].active =>
          \E s \in Sessions : By(s, "users:update")]_vars

\* A user's roles become those a request asked for, all of them and no others,
\* unless they were changed between its reading and its writing; or they lose
\* the one role that is being deleted.
RolesAsAssigned ==
    [][\A u \in Users : Exists(u) /\ Exists(u)' /\ user'[u].roles # user[u].roles =>
          \/ \E s \in Sessions :
                /\ Ready(s, RoleLists) /\ sess[s].target = u /\ sess'[s] = Done
                /\ \/ user'[u].roles = sess[s].new.roles
                   \/ sess[s].copy.roles # user[u].roles
          \/ \E r \in Roles :
                role'[r] = Deleted /\ user'[u].roles = user[u].roles \ {r}]_vars

\* Nothing an endpoint of auth.py writes is ever committed: neither a count of
\* failed attempts, nor a lock, nor a password.
SignInLeavesNoTrace ==
    [][\A u \in Users : Exists(u) /\ Exists(u)' =>
          /\ user'[u].password = user[u].password
          /\ user'[u].failed = user[u].failed
          /\ user'[u].locked = user[u].locked]_vars

\* "Senha alterada com sucesso.": a new password that was answered for is in
\* place when the session ends.
AnsweredChangesAreKept ==
    [][\A s \in Sessions :
          /\ sess[s].pc = "answered" /\ sess'[s] = Done
          /\ sess[s].op \in {"change_password", "reset_password"}
          /\ user'[sess[s].target] # Deleted
          => user'[sess[s].target].password = sess[s].new.password]_vars
=============================================================================
