----------------------------- MODULE AuthProofs -----------------------------
(***************************************************************************)
(* What AuthService keeps for every number of users, roles and overlapping *)
(* sessions: its types; names stay unique; no sign-in, password or lock is *)
(* ever committed; only who may delete, verify, reactivate or give roles   *)
(* does; and roles become what a request asked for.                        *)
(***************************************************************************)
EXTENDS AuthService, TLAPS

\* A row, or what there is of one.
RowsOK ==
    /\ user \in [Users -> User \cup {Unused, Deleted}]
    /\ role \in [Roles -> Role \cup {Unused, Deleted}]
    /\ DOMAIN sess = Sessions

\* As an account was created: nobody has failed to sign in.
Clean(row) == row \in User /\ row.failed = 0 /\ ~row.locked

\* No committed account has a failed attempt or a lock.
AccountsClean == \A u \in Users : Exists(u) => Clean(user[u])

\* What a session has read, and what it would write when it is about to commit.
SessionOK(ss) ==
    /\ ss.pc = "current" =>
        /\ ss.target \in Users /\ Clean(ss.copy)
        /\ ss.role = NoRole /\ ss.seen \in [Roles -> Role \cup {Unused}]
    /\ ss.pc = "found" =>
        /\ ss.op = "update_user" => ss.target \in Users /\ Clean(ss.copy)
        /\ ss.op = "assign_roles" => ss.target \in Users /\ Clean(ss.copy) /\ ss.new \in User
        /\ ss.op = "update_role" => ss.role \in Roles /\ ss.rcopy \in Role
    /\ ss.pc = "read" =>
        /\ ss.op = "create_user" => Clean(ss.new)
        /\ ss.op \in UserUpdates => /\ ss.target \in Users
                                    /\ Clean(ss.copy) /\ Clean(ss.new)
                                    /\ ss.new.password = ss.copy.password
        /\ ss.op \in RoleLists => ss.target \in Users /\ ss.new \in User
        /\ ss.op = "delete_user" => ss.target \in Users
        /\ ss.op = "create_role" => ss.rnew \in Role
        /\ ss.op = "update_role" => ss.role \in Roles /\ ss.rcopy \in Role /\ ss.rnew \in Role
        /\ ss.op = "update_role_permissions" => ss.role \in Roles /\ ss.rnew \in Role
        /\ ss.op = "delete_role" => ss.role \in Roles

SessionsOK == \A s \in Sessions : SessionOK(sess[s])

\* The inductive invariant: AccountsAreDistinct needs the types of what is
\* written, SignInLeavesNoTrace that no copy carries a count or a lock.
AuthInv == RowsOK /\ AccountsClean /\ SessionsOK /\ AccountsAreDistinct

\* What a step does to the committed passwords, counts and locks.
NoTrace ==
    \A u \in Users : Exists(u) /\ Exists(u)' =>
        /\ user'[u].password = user[u].password
        /\ user'[u].failed = user[u].failed
        /\ user'[u].locked = user[u].locked

\* An account as it is created is clean.
LEMMA CreatedIsClean ==
    ASSUME NEW e \in Emails, NEW p \in Passwords, StoreAssumption
    PROVE  Clean(Created(e, p))
  BY DEF Clean, Created, User, StoreAssumption

\* The invariant holds at first.
LEMMA InitAuthInv == Init => AuthInv
<1> SUFFICES ASSUME Init PROVE AuthInv
  OBVIOUS
<1>1. role \in [Roles -> Role \cup {Unused, Deleted}]
  <2>1. EarlierRoles \subseteq Role
    BY StoreAssumption DEF EarlierRoles, Role, StoreAssumption
  <2>2. role \in [Roles -> {Unused} \cup EarlierRoles]
    BY DEF Init
  <2> QED
    BY <2>1, <2>2
<1>2. PICK p \in Passwords : user \in [Users -> {Unused} \cup EarlierUsers(p)]
  BY DEF Init
<1>3. \A row \in EarlierUsers(p) : Clean(row)
  BY DEF EarlierUsers, Clean
<1>4. \A u \in Users : user[u] = Unused \/ Clean(user[u])
  BY <1>2, <1>3
<1>5. RowsOK
  <2>1. user \in [Users -> User \cup {Unused, Deleted}]
    BY <1>2, <1>4 DEF Clean
  <2>2. DOMAIN sess = Sessions
    BY DEF Init
  <2> QED
    BY <1>1, <2>1, <2>2 DEF RowsOK
<1>6. AccountsClean
  BY <1>4 DEF AccountsClean, Exists
<1>7. SessionsOK
  BY DEF Init, SessionsOK, SessionOK, Idle
<1>8. AccountsAreDistinct
  BY DEF Init, AccountsAreDistinct
<1> QED
  BY <1>5, <1>6, <1>7, <1>8 DEF AuthInv

----------------------------------------------------------------------------
(* Steps that write nothing                                                *)

\* A session changes, the tables do not.
LEMMA SessionStep ==
    ASSUME AuthInv, NEW s \in Sessions, NEW new, SessionOK(new),
           sess' = [sess EXCEPT ![s] = new], UNCHANGED <<user, role>>
    PROVE  AuthInv' /\ NoTrace
<1> USE DEF AuthInv
<1>1. RowsOK' /\ AccountsClean' /\ AccountsAreDistinct'
  BY DEF RowsOK, AccountsClean, AccountsAreDistinct, Exists, RoleExists
<1>2. \A t \in Sessions : sess'[t] = IF t = s THEN new ELSE sess[t]
  BY DEF RowsOK
<1>3. SessionsOK'
  BY <1>2 DEF SessionsOK, SessionOK, UserUpdates, RoleLists
<1>4. NoTrace
  BY DEF NoTrace, Exists
<1> QED
  BY <1>1, <1>3, <1>4

\* Nothing at all.
LEMMA StutterStep ==
    ASSUME AuthInv, UNCHANGED <<user, role, sess>> PROVE AuthInv' /\ NoTrace
  BY DEF AuthInv, RowsOK, AccountsClean, AccountsAreDistinct, Exists, RoleExists, SessionsOK,
         SessionOK, Clean, NoTrace

\* What comes with a user are rows of roles, as every link has one.
LEMMA WithRolesTypes ==
    ASSUME RowsOK, NEW seen \in [Roles -> Role \cup {Unused}], NEW R,
           \A r \in R : RoleExists(r)
    PROVE  WithRoles(seen, R) \in [Roles -> Role \cup {Unused}]
  BY DEF WithRoles, RowsOK, RoleExists

LEMMA UnseenTypes == Unseen \in [Roles -> Role \cup {Unused}]
  BY DEF Unseen

\* The user who makes the request is read.
LEMMA GetCurrentUserStep ==
    ASSUME AuthInv, LinksExist, NEW s \in Sessions, NEW a \in Users, GetCurrentUser(s, a)
    PROVE  AuthInv' /\ NoTrace
<1> DEFINE seen == WithRoles(Unseen, user[a].roles)
           ss == [Idle EXCEPT !.pc = "current", !.target = a, !.copy = user[a],
                              !.seen = seen, !.rights = Rights(a)]
<1>1. Exists(a) /\ sess' = [sess EXCEPT ![s] = ss] /\ UNCHANGED <<user, role>>
  BY DEF GetCurrentUser, Current
<1>2. Clean(user[a])
  BY <1>1 DEF AuthInv, AccountsClean
<1>3. seen \in [Roles -> Role \cup {Unused}]
  BY <1>1, WithRolesTypes, UnseenTypes DEF LinksExist, AuthInv
<1> HIDE DEF seen
<1>4. /\ ss.pc = "current" /\ ss.target = a /\ ss.copy = user[a] /\ ss.role = NoRole
      /\ ss.seen = seen
  BY DEF Idle
<1>5. SessionOK(ss)
  BY <1>2, <1>3, <1>4 DEF SessionOK
<1> HIDE DEF ss
<1> QED
  BY <1>1, <1>5, SessionStep

\* A query gives the row, or the copy of it the session has.
LEMMA UserRowIsClean ==
    ASSUME AuthInv, NEW s \in Sessions, Signed(s), NEW u \in Users, Exists(u)
    PROVE  Clean(UserRow(s, u))
  BY DEF UserRow, Signed, AuthInv, AccountsClean, SessionsOK, SessionOK

LEMMA RoleRowIsRole ==
    ASSUME AuthInv, NEW s \in Sessions, Signed(s), NEW r \in Roles, RoleExists(r)
    PROVE  RoleRow(s, r) \in Role
<1>1. sess[s].role # r /\ sess[s].seen \in [Roles -> Role \cup {Unused}]
  BY RequestAssumption DEF RequestAssumption, Signed, AuthInv, SessionsOK, SessionOK
<1>2. role[r] \in Role
  BY DEF AuthInv, RowsOK, RoleExists
<1> QED
  BY <1>1, <1>2 DEF RoleRow, WithRoles

\* A request that has read a user.
LEMMA ReadUserStep ==
    ASSUME AuthInv, NEW s \in Sessions, NEW pc, NEW op, NEW u \in Users, NEW new, NEW seen,
           Clean(UserRow(s, u)), ReadUser(s, pc, op, u, new, seen),
           \/ pc = "found" /\ op = "update_user"
           \/ pc \in {"found", "read"} /\ op \in RoleLists /\ new \in User
           \/ /\ pc = "read" /\ op \in UserUpdates
              /\ Clean(new) /\ new.password = UserRow(s, u).password
           \/ pc = "read" /\ op \in {"delete_user", "change_password"}
    PROVE  AuthInv' /\ NoTrace
<1> DEFINE ss == [Idle EXCEPT !.pc = pc, !.op = op, !.target = u, !.copy = UserRow(s, u),
                              !.new = new, !.seen = seen, !.rights = sess[s].rights]
<1>1. ss.pc = pc /\ ss.op = op /\ ss.target = u /\ ss.copy = UserRow(s, u) /\ ss.new = new
  BY DEF Idle
<1>2. sess' = [sess EXCEPT ![s] = ss] /\ UNCHANGED <<user, role>>
  BY DEF ReadUser
<1> HIDE DEF ss
<1>3. SessionOK(ss)
  BY <1>1 DEF SessionOK, UserUpdates, RoleLists
<1> QED
  BY <1>2, <1>3, SessionStep

\* A request that has read a role.
LEMMA ReadRoleStep ==
    ASSUME AuthInv, NEW s \in Sessions, NEW pc, NEW op, NEW r \in Roles, NEW new,
           RoleRow(s, r) \in Role, ReadRole(s, pc, op, r, new),
           \/ pc = "found" /\ op = "update_role"
           \/ /\ pc = "read" /\ new \in Role
              /\ op \in {"update_role", "update_role_permissions", "delete_role"}
    PROVE  AuthInv' /\ NoTrace
<1> DEFINE ss == [Idle EXCEPT !.pc = pc, !.op = op, !.role = r, !.rcopy = RoleRow(s, r),
                              !.rnew = new, !.rights = sess[s].rights]
<1>1. ss.pc = pc /\ ss.op = op /\ ss.role = r /\ ss.rcopy = RoleRow(s, r) /\ ss.rnew = new
  BY DEF Idle
<1>2. sess' = [sess EXCEPT ![s] = ss] /\ UNCHANGED <<user, role>>
  BY DEF ReadRole
<1> HIDE DEF ss
<1>3. SessionOK(ss)
  BY <1>1 DEF SessionOK, UserUpdates, RoleLists
<1> QED
  BY <1>2, <1>3, SessionStep

\* An update, an activation or a deactivation leaves password, count and lock of
\* a row as they are, or takes them back.
LEMMA UpdatesAreClean ==
    ASSUME NEW u \in Users, NEW copy, Clean(copy),
           NEW new \in SelfUpdates(u, copy) \cup AdminUpdates(u, copy)
                         \cup {Activated(copy), Deactivated(copy)}
    PROVE  Clean(new) /\ new.password = copy.password
<1> DEFINE ok(row) == Clean(row) /\ row.password = copy.password
<1>1. /\ \A e \in Emails : ok([copy EXCEPT !.email = e])
      /\ \A b \in BOOLEAN : ok([copy EXCEPT !.active = b])
      /\ \A b \in BOOLEAN : ok([copy EXCEPT !.verified = b])
  BY DEF Clean, User
<1>2. ok(Deactivated(copy))
  BY <1>1 DEF Deactivated
<1>3. Activated(copy) = [copy EXCEPT !.active = TRUE]
  BY DEF Activated, Clean, User
<1>4. ok(Activated(copy))
  BY <1>1, <1>3
<1> HIDE DEF ok
<1>5. \A row \in SelfUpdates(u, copy) \cup AdminUpdates(u, copy) : ok(row)
  BY <1>1 DEF SelfUpdates, AdminUpdates
<1>6. ok(new)
  BY <1>2, <1>4, <1>5
<1> QED
  BY <1>6 DEF ok

\* A user's own or an administrator's update, as far as it reads.
LEMMA UserUpdateStep ==
    ASSUME AuthInv, NEW s \in Sessions,
           \/ UpdateMe(s)
           \/ UpdateUser(s)
           \/ \E u \in Users : \/ GetUserToUpdate(s, u)
                               \/ ActivateUser(s, u)
                               \/ DeactivateUser(s, u)
    PROVE  AuthInv' /\ NoTrace
<1>1. CASE UpdateMe(s) \/ UpdateUser(s)
  <2> DEFINE u == sess[s].target
             copy == sess[s].copy
  <2>1. u \in Users /\ Clean(copy) /\ UserRow(s, u) = copy
    BY <1>1 DEF UpdateMe, UpdateUser, Signed, Found, UserRow, AuthInv, SessionsOK, SessionOK
  <2>2. PICK op \in UserUpdates, new \in SelfUpdates(u, copy) \cup AdminUpdates(u, copy) :
           ReadUser(s, "read", op, u, new, Unseen)
    BY <1>1 DEF UpdateMe, UpdateUser, UserUpdates
  <2>3. Clean(new) /\ new.password = copy.password
    BY <2>1, UpdatesAreClean
  <2> HIDE DEF u, copy
  <2> QED
    BY <2>1, <2>2, <2>3, ReadUserStep
<1>2. ASSUME NEW u \in Users, GetUserToUpdate(s, u) PROVE AuthInv' /\ NoTrace
  BY <1>2, UserRowIsClean, ReadUserStep DEF GetUserToUpdate, Permitted
<1>3. ASSUME NEW u \in Users, ActivateUser(s, u) \/ DeactivateUser(s, u)
      PROVE  AuthInv' /\ NoTrace
  <2> DEFINE copy == UserRow(s, u)
  <2>1. Clean(copy)
    BY <1>3, UserRowIsClean DEF ActivateUser, DeactivateUser, Permitted
  <2>2. PICK op \in UserUpdates, new \in {Activated(copy), Deactivated(copy)} :
           ReadUser(s, "read", op, u, new, Unseen)
    BY <1>3 DEF ActivateUser, DeactivateUser, UserUpdates
  <2>3. Clean(new) /\ new.password = copy.password
    BY <2>1, UpdatesAreClean
  <2> QED
    BY <2>1, <2>2, <2>3, ReadUserStep
<1> QED
  BY <1>1, <1>2, <1>3

\* An assignment of roles, one after the other, or their removal.
LEMMA RoleListStep ==
    ASSUME AuthInv, NEW s \in Sessions,
           \/ \E u \in Users : GetUserToAssign(s, u) \/ RemoveRoles(s, u)
           \/ \E r \in Roles : AssignRole(s, r)
    PROVE  AuthInv' /\ NoTrace
<1>1. "assign_roles" \in RoleLists /\ "remove_roles" \in RoleLists
  BY DEF RoleLists
<1>2. ASSUME NEW u \in Users, GetUserToAssign(s, u) \/ RemoveRoles(s, u)
      PROVE  AuthInv' /\ NoTrace
  <2> DEFINE new == [UserRow(s, u) EXCEPT !.roles = {}]
  <2>1. Clean(UserRow(s, u))
    BY <1>2, UserRowIsClean DEF GetUserToAssign, RemoveRoles, Permitted
  <2>2. new \in User
    BY <2>1 DEF Clean, User
  <2>3. PICK pc \in {"found", "read"}, op \in RoleLists :
           \E seen : ReadUser(s, pc, op, u, new, seen)
    BY <1>1, <1>2 DEF GetUserToAssign, RemoveRoles
  <2> QED
    BY <2>1, <2>2, <2>3, ReadUserStep
<1>3. ASSUME NEW r \in Roles, AssignRole(s, r) PROVE AuthInv' /\ NoTrace
  <2> DEFINE u == sess[s].target
             new == [sess[s].new EXCEPT !.roles = sess[s].new.roles \cup {r}]
  <2>1. u \in Users /\ Clean(sess[s].copy) /\ UserRow(s, u) = sess[s].copy /\ sess[s].new \in User
    BY <1>3 DEF AssignRole, Found, UserRow, AuthInv, SessionsOK, SessionOK
  <2>2. new \in User
    BY <2>1 DEF User
  <2>3. PICK pc \in {"found", "read"} : \E seen : ReadUser(s, pc, "assign_roles", u, new, seen)
    BY <1>3 DEF AssignRole
  <2> HIDE DEF u, new
  <2> QED
    BY <1>1, <2>1, <2>2, <2>3, ReadUserStep
<1> QED
  BY <1>2, <1>3

\* Sign-ins without an access token: what such a session holds is never written.
LEMMA ReadSignInStep ==
    ASSUME AuthInv, NEW s \in Sessions, NEW op \in SignIns, NEW u, NEW new,
           ReadSignIn(s, op, u, new)
    PROVE  AuthInv' /\ NoTrace
<1> DEFINE ss == [Idle EXCEPT !.pc = "read", !.op = op, !.target = u, !.copy = user[u],
                              !.new = new]
<1>1. sess' = [sess EXCEPT ![s] = ss] /\ UNCHANGED <<user, role>>
  BY DEF ReadSignIn
<1>2. ss.pc = "read" /\ ss.op = op
  BY DEF Idle
<1> HIDE DEF ss
<1>3. SessionOK(ss)
  BY <1>2 DEF SessionOK, UserUpdates, RoleLists, SignIns
<1> QED
  BY <1>1, <1>3, SessionStep

LEMMA SignInStep ==
    ASSUME AuthInv, NEW s \in Sessions,
           \/ Login(s)
           \/ \E u \in Users : RefreshToken(s, u) \/ ResetPassword(s, u) \/ VerifyEmail(s, u)
    PROVE  AuthInv' /\ NoTrace
<1>1. {"login", "refresh_token", "reset_password", "verify_email"} \subseteq SignIns
  BY DEF SignIns
<1>2. \E op \in SignIns : \E u, new : ReadSignIn(s, op, u, new)
  <2>1. CASE Login(s)
    BY <1>1, <2>1 DEF Login
  <2>2. ASSUME NEW u \in Users, RefreshToken(s, u) \/ ResetPassword(s, u) \/ VerifyEmail(s, u)
        PROVE  \E op \in SignIns : \E v, new : ReadSignIn(s, op, v, new)
    BY <1>1, <2>2 DEF RefreshToken, ResetPassword, VerifyEmail
  <2> QED
    BY <2>1, <2>2
<1> QED
  BY <1>2, ReadSignInStep

\* A deletion, or a new password, as far as it reads.
LEMMA OtherUserStep ==
    ASSUME AuthInv, NEW s \in Sessions,
           ChangePassword(s) \/ \E u \in Users : DeleteUser(s, u)
    PROVE  AuthInv' /\ NoTrace
<1>1. CASE ChangePassword(s)
  <2>1. sess[s].target \in Users /\ Clean(UserRow(s, sess[s].target))
    BY <1>1 DEF ChangePassword, Signed, UserRow, AuthInv, SessionsOK, SessionOK
  <2> QED
    BY <1>1, <2>1, ReadUserStep DEF ChangePassword
<1>2. ASSUME NEW u \in Users, DeleteUser(s, u) PROVE AuthInv' /\ NoTrace
  BY <1>2, UserRowIsClean, ReadUserStep DEF DeleteUser, Permitted
<1> QED
  BY <1>1, <1>2

\* A registration, up to the insert.
LEMMA CreateUserStep ==
    ASSUME AuthInv, NEW s \in Sessions, CreateUser(s) PROVE AuthInv' /\ NoTrace
<1>1. PICK e \in Emails, p \in Passwords :
          sess' = [sess EXCEPT ![s] = [Idle EXCEPT !.pc = "read", !.op = "create_user",
                                                   !.new = Created(e, p)]]
  BY DEF CreateUser
<1> DEFINE ss == [Idle EXCEPT !.pc = "read", !.op = "create_user", !.new = Created(e, p)]
<1>2. ss.pc = "read" /\ ss.op = "create_user" /\ ss.new = Created(e, p)
  BY DEF Idle
<1>3. SessionOK(ss)
  BY <1>2, CreatedIsClean, StoreAssumption DEF SessionOK, UserUpdates, RoleLists
<1>4. UNCHANGED <<user, role>>
  BY DEF CreateUser
<1> HIDE DEF ss
<1> QED
  BY <1>1, <1>3, <1>4, SessionStep DEF ss

\* A role as a request to change it makes of it.
LEMMA RoleRowsAreRoles ==
    ASSUME NEW r \in Roles, NEW copy \in Role
    PROVE  /\ \A new \in RoleUpdates(r, copy) : new \in Role
           /\ \A permissions \in PermissionSets : [copy EXCEPT !.permissions = permissions] \in Role
<1>1. \A new \in RoleUpdates(r, copy) : new \in Role
  BY DEF RoleUpdates, Role
<1>2. \A permissions \in PermissionSets : [copy EXCEPT !.permissions = permissions] \in Role
  BY StoreAssumption DEF StoreAssumption, Role
<1> QED
  BY <1>1, <1>2

\* What the endpoints of roles read.
LEMMA RoleRequestStep ==
    ASSUME AuthInv, NEW s \in Sessions,
           \/ UpdateRole(s)
           \/ \E r \in Roles : \/ GetRoleToUpdate(s, r)
                               \/ DeleteRole(s, r)
                               \/ UpdateRolePermissions(s, r)
    PROVE  AuthInv' /\ NoTrace
<1>1. CASE UpdateRole(s)
  <2> DEFINE r == sess[s].role
  <2>1. r \in Roles /\ sess[s].rcopy \in Role /\ RoleRow(s, r) = sess[s].rcopy
    BY <1>1 DEF UpdateRole, Found, RoleRow, AuthInv, SessionsOK, SessionOK
  <2>2. PICK new \in RoleUpdates(r, sess[s].rcopy) : ReadRole(s, "read", "update_role", r, new)
    BY <1>1 DEF UpdateRole
  <2> HIDE DEF r
  <2> QED
    BY <2>1, <2>2, RoleRowsAreRoles, ReadRoleStep
<1>2. ASSUME NEW r \in Roles, GetRoleToUpdate(s, r) PROVE AuthInv' /\ NoTrace
  BY <1>2, RoleRowIsRole, ReadRoleStep DEF GetRoleToUpdate, Permitted
<1>3. ASSUME NEW r \in Roles, DeleteRole(s, r) PROVE AuthInv' /\ NoTrace
  BY <1>3, RoleRowIsRole, ReadRoleStep DEF DeleteRole, Permitted
<1>4. ASSUME NEW r \in Roles, UpdateRolePermissions(s, r) PROVE AuthInv' /\ NoTrace
  <2>1. RoleRow(s, r) \in Role
    BY <1>4, RoleRowIsRole DEF UpdateRolePermissions, Permitted
  <2> QED
    BY <1>4, <2>1, RoleRowsAreRoles, ReadRoleStep DEF UpdateRolePermissions
<1> QED
  BY <1>1, <1>2, <1>3, <1>4

\* A new role, up to the insert.
LEMMA CreateRoleStep ==
    ASSUME AuthInv, NEW s \in Sessions, CreateRole(s) PROVE AuthInv' /\ NoTrace
<1>1. PICK n \in Names :
          sess' = [sess EXCEPT ![s] =
                [Idle EXCEPT !.pc = "read", !.op = "create_role", !.rights = sess[s].rights,
                             !.rnew = [name |-> n, active |-> TRUE, permissions |-> {}]]]
  BY DEF CreateRole
<1> DEFINE ss == [Idle EXCEPT !.pc = "read", !.op = "create_role", !.rights = sess[s].rights,
                              !.rnew = [name |-> n, active |-> TRUE, permissions |-> {}]]
<1>2. /\ ss.pc = "read" /\ ss.op = "create_role"
      /\ ss.rnew = [name |-> n, active |-> TRUE, permissions |-> {}]
  BY DEF Idle
<1>3. SessionOK(ss)
  BY <1>2 DEF SessionOK, UserUpdates, RoleLists, Role
<1>4. UNCHANGED <<user, role>>
  BY DEF CreateRole
<1> HIDE DEF ss
<1> QED
  BY <1>1, <1>3, <1>4, SessionStep DEF ss

\* The sessions of auth.py, and all that fail or are closed.
LEMMA QuietStep ==
    ASSUME AuthInv, NEW s \in Sessions,
           Answer(s) \/ (End(s) /\ UNCHANGED <<user, role>>)
    PROVE  AuthInv' /\ NoTrace
<1>1. SessionOK(Done)
  BY DEF SessionOK, Done, Idle
<1>2. SessionOK([sess[s] EXCEPT !.pc = "answered"]) \/ sess[s].pc # "read"
  BY DEF SessionOK, AuthInv, SessionsOK, Ready, Answer
<1> QED
  BY <1>1, <1>2, SessionStep DEF Answer, Fail, End, Ready

----------------------------------------------------------------------------
(* Steps that write                                                        *)

\* A session that commits is done.
LEMMA CommitEnds ==
    ASSUME AuthInv, NEW s \in Sessions, Commit(s)
    PROVE  (DOMAIN sess)' = Sessions /\ SessionsOK'
<1>1. SessionOK(Done)
  BY DEF SessionOK, Done, Idle
<1>2. \A t \in Sessions : sess'[t] = IF t = s THEN Done ELSE sess[t]
  BY DEF Commit, End, AuthInv, RowsOK
<1> QED
  BY <1>1, <1>2 DEF AuthInv, RowsOK, SessionsOK, SessionOK, Commit, End, UserUpdates, RoleLists

\* One user's row is written, with an address that nobody else has.
LEMMA UserWritten ==
    ASSUME AuthInv, NEW s \in Sessions, Commit(s), UNCHANGED role,
           NEW u \in Users, NEW row, Clean(row), ~ExistsByEmail(row.email, u),
           Exists(u) => row.password = user[u].password,
           user' = [user EXCEPT ![u] = row]
    PROVE  AuthInv' /\ NoTrace
<1> USE DEF AuthInv
<1>1. \A v \in Users : user'[v] = IF v = u THEN row ELSE user[v]
  BY DEF RowsOK
<1>2. RowsOK'
  BY CommitEnds DEF RowsOK, Clean
<1>3. AccountsClean'
  BY <1>1 DEF AccountsClean, Exists, Clean
<1>4. AccountsAreDistinct'
  <2>1. ASSUME NEW v \in Users, NEW w \in Users, Exists(v)', Exists(w)',
               user'[v].email = user'[w].email
        PROVE  v = w
    BY <1>1, <2>1 DEF AccountsAreDistinct, Exists, ExistsByEmail
  <2>2. ASSUME NEW q \in Roles, NEW r \in Roles, RoleExists(q)', RoleExists(r)',
               role'[q].name = role'[r].name
        PROVE  q = r
    BY <2>2 DEF AccountsAreDistinct, RoleExists
  <2> QED
    BY <2>1, <2>2 DEF AccountsAreDistinct
<1>5. NoTrace
  <2> SUFFICES ASSUME NEW v \in Users, Exists(v), Exists(v)'
               PROVE  /\ user'[v].password = user[v].password
                      /\ user'[v].failed = user[v].failed
                      /\ user'[v].locked = user[v].locked
    BY DEF NoTrace
  <2>1. Clean(user[v])
    BY DEF AccountsClean
  <2>2. CASE v = u
    BY <1>1, <2>1, <2>2 DEF Clean, User
  <2> QED
    BY <1>1, <2>2
<1> QED
  BY <1>2, <1>3, <1>4, <1>5, CommitEnds

\* Links of users go, or one user's change, and nothing else of a row does.
LEMMA LinksWritten ==
    ASSUME AuthInv, NEW s \in Sessions, Commit(s),
           role' \in [Roles -> Role \cup {Unused, Deleted}],
           \A q \in Roles : RoleExists(q)' => RoleExists(q) /\ role'[q].name = role[q].name,
           user' \in [Users -> User \cup {Unused, Deleted}],
           \A v \in Users : Exists(v)' =>
               /\ Exists(v)
               /\ user'[v] \in User
               /\ \E R \in SUBSET Roles : user'[v] = [user[v] EXCEPT !.roles = R]
    PROVE  AuthInv' /\ NoTrace
<1> USE DEF AuthInv
<1>1. \A v \in Users : Exists(v)' =>
          /\ user'[v].email = user[v].email /\ user'[v].password = user[v].password
          /\ user'[v].failed = user[v].failed /\ user'[v].locked = user[v].locked
  BY DEF AccountsClean, Clean, User
<1>2. RowsOK'
  BY CommitEnds DEF RowsOK
<1>3. AccountsClean'
  BY <1>1 DEF AccountsClean, Clean
<1>4. AccountsAreDistinct'
  BY <1>1 DEF AccountsAreDistinct
<1>5. NoTrace
  BY <1>1 DEF NoTrace
<1> QED
  BY <1>2, <1>3, <1>4, <1>5, CommitEnds

\* One role's row is written, with a name that no other has.
LEMMA RoleWritten ==
    ASSUME AuthInv, NEW s \in Sessions, Commit(s), UNCHANGED user,
           NEW r \in Roles, NEW row \in Role, ~ExistsByName(row.name, r),
           role' = [role EXCEPT ![r] = row]
    PROVE  AuthInv' /\ NoTrace
<1> USE DEF AuthInv
<1>1. \A q \in Roles : role'[q] = IF q = r THEN row ELSE role[q]
  BY DEF RowsOK
<1>2. RowsOK'
  BY CommitEnds DEF RowsOK
<1>3. AccountsClean'
  BY DEF AccountsClean, Exists
<1>4. AccountsAreDistinct'
  <2>1. ASSUME NEW v \in Users, NEW w \in Users, Exists(v)', Exists(w)',
               user'[v].email = user'[w].email
        PROVE  v = w
    BY <2>1 DEF AccountsAreDistinct, Exists
  <2>2. ASSUME NEW p \in Roles, NEW q \in Roles, RoleExists(p)', RoleExists(q)',
               role'[p].name = role'[q].name
        PROVE  p = q
    BY <1>1, <2>2 DEF AccountsAreDistinct, RoleExists, ExistsByName
  <2> QED
    BY <2>1, <2>2 DEF AccountsAreDistinct
<1>5. NoTrace
  BY DEF NoTrace, Exists
<1> QED
  BY <1>2, <1>3, <1>4, <1>5, CommitEnds

\* What UPDATE leaves of a row that others may have changed is a row.
LEMMA WrittenUser ==
    ASSUME NEW current, NEW read, NEW new, Clean(current), Clean(read), Clean(new),
           new.password = read.password
    PROVE  /\ Clean(Written(current, read, new))
           /\ Written(current, read, new).password = current.password
<1> DEFINE w == Written(current, read, new)
<1>1. DOMAIN new = {"email", "password", "active", "verified", "failed", "locked", "roles"}
  BY DEF Clean, User
<1>2. w = [email    |-> IF new.email = read.email THEN current.email ELSE new.email,
           password |-> current.password,
           active   |-> IF new.active = read.active THEN current.active ELSE new.active,
           verified |-> IF new.verified = read.verified THEN current.verified ELSE new.verified,
           failed   |-> 0,
           locked   |-> IF new.locked = read.locked THEN current.locked ELSE new.locked,
           roles    |-> IF new.roles = read.roles THEN current.roles ELSE new.roles]
  BY <1>1 DEF Written, Clean, User
<1> HIDE DEF w
<1>3. Clean(w) /\ w.password = current.password
  BY <1>2 DEF Clean, User
<1> QED
  BY <1>3 DEF w

\* The same of a role.
LEMMA WrittenRole ==
    ASSUME NEW current \in Role, NEW read \in Role, NEW new \in Role
    PROVE  Written(current, read, new) \in Role
<1> DEFINE w == Written(current, read, new)
<1>1. DOMAIN new = {"name", "active", "permissions"}
  BY DEF Role
<1>2. w = [name        |-> IF new.name = read.name THEN current.name ELSE new.name,
           active      |-> IF new.active = read.active THEN current.active ELSE new.active,
           permissions |-> IF new.permissions = read.permissions THEN current.permissions
                                                                 ELSE new.permissions]
  BY <1>1 DEF Written, Role
<1> HIDE DEF w
<1>3. w \in Role
  BY <1>2 DEF Role
<1> QED
  BY <1>3 DEF w

\* A session that fails writes nothing.
LEMMA FailStep ==
    ASSUME AuthInv, NEW s \in Sessions, Fail(s) PROVE AuthInv' /\ NoTrace
  BY QuietStep DEF Fail

\* A registration is inserted if its address is still free.
LEMMA FlushNewUserStep ==
    ASSUME AuthInv, NEW s \in Sessions, FlushNewUser(s) PROVE AuthInv' /\ NoTrace
<1>1. CASE Fail(s)
  BY <1>1, FailStep
<1>2. CASE ~Fail(s)
  <2>1. PICK u \in Users : user[u] = Unused /\ user' = [user EXCEPT ![u] = sess[s].new]
    BY <1>2 DEF FlushNewUser
  <2>2. Commit(s) /\ UNCHANGED role /\ ~ExistsByEmail(sess[s].new.email, u)
    BY <1>2, RequestAssumption DEF FlushNewUser, ExistsByEmail, RequestAssumption
  <2>3. Clean(sess[s].new)
    BY DEF FlushNewUser, Ready, AuthInv, SessionsOK, SessionOK
  <2>4. ~Exists(u)
    BY <2>1 DEF Exists
  <2> QED
    BY <2>1, <2>2, <2>3, <2>4, UserWritten
<1> QED
  BY <1>1, <1>2

\* An update is written over the row as it is, if the address is still free.
LEMMA FlushUserStep ==
    ASSUME AuthInv, NEW s \in Sessions, FlushUser(s) PROVE AuthInv' /\ NoTrace
<1> DEFINE u == sess[s].target
           row == Written(user[u], sess[s].copy, sess[s].new)
<1>1. CASE Fail(s)
  BY <1>1, FailStep
<1>2. CASE ~Fail(s)
  <2>1. /\ user' = [user EXCEPT ![u] = row] /\ Commit(s) /\ UNCHANGED role
        /\ Exists(u) /\ ~ExistsByEmail(row.email, u)
    BY <1>2 DEF FlushUser
  <2>2. /\ u \in Users /\ Clean(sess[s].copy) /\ Clean(sess[s].new)
        /\ sess[s].new.password = sess[s].copy.password
    BY DEF FlushUser, Ready, AuthInv, SessionsOK, SessionOK
  <2>3. Clean(user[u])
    BY <2>1, <2>2 DEF AuthInv, AccountsClean
  <2>4. Clean(row) /\ row.password = user[u].password
    BY <2>2, <2>3, WrittenUser
  <2> HIDE DEF row, u
  <2> QED
    BY <2>1, <2>2, <2>4, UserWritten
<1> QED
  BY <1>1, <1>2

\* A user goes.
LEMMA FlushDeletedUserStep ==
    ASSUME AuthInv, NEW s \in Sessions, FlushDeletedUser(s) PROVE AuthInv' /\ NoTrace
<1>1. CASE Fail(s)
  BY <1>1, FailStep
<1>2. CASE ~Fail(s)
  <2>1. /\ user' = [user EXCEPT ![sess[s].target] = Deleted] /\ Commit(s) /\ UNCHANGED role
        /\ sess[s].target \in Users
    BY <1>2 DEF FlushDeletedUser, Ready, AuthInv, SessionsOK, SessionOK
  <2>2. user' \in [Users -> User \cup {Unused, Deleted}] /\ role' = role
    BY <2>1 DEF AuthInv, RowsOK
  <2>3. \A v \in Users : Exists(v)' => Exists(v) /\ user'[v] = user[v]
    BY <2>1 DEF AuthInv, RowsOK, Exists
  <2>4. \A v \in Users : Exists(v) => user[v] \in User
    BY DEF AuthInv, AccountsClean, Clean
  <2>5. \A row \in User : row.roles \in SUBSET Roles /\ row = [row EXCEPT !.roles = row.roles]
    BY DEF User
  <2>6. \A q \in Roles : RoleExists(q)' => RoleExists(q) /\ role'[q].name = role[q].name
    BY <2>2 DEF RoleExists
  <2>7. \A v \in Users : Exists(v)' =>
           /\ Exists(v)
           /\ user'[v] \in User
           /\ \E R \in SUBSET Roles : user'[v] = [user[v] EXCEPT !.roles = R]
    BY <2>3, <2>4, <2>5
  <2>8. role' \in [Roles -> Role \cup {Unused, Deleted}]
    BY <2>2 DEF AuthInv, RowsOK
  <2> QED
    BY <2>1, <2>2, <2>6, <2>7, <2>8, LinksWritten
<1> QED
  BY <1>1, <1>2

\* A user's links change.
LEMMA FlushRolesStep ==
    ASSUME AuthInv, NEW s \in Sessions, FlushRoles(s) PROVE AuthInv' /\ NoTrace
<1> DEFINE u == sess[s].target
           R == Linked(user[u].roles, sess[s].copy.roles, sess[s].new.roles)
<1>1. CASE Fail(s)
  BY <1>1, FailStep
<1>2. CASE ~Fail(s)
  <2>1. /\ Exists(u) /\ Commit(s) /\ UNCHANGED role
        /\ user' = [user EXCEPT ![u].roles = R]
    BY <1>2 DEF FlushRoles
  <2>2. u \in Users /\ sess[s].new \in User
    BY DEF FlushRoles, Ready, AuthInv, SessionsOK, SessionOK
  <2>3. \A v \in Users : Exists(v) => user[v] \in User
    BY DEF AuthInv, AccountsClean, Clean
  <2>4. R \in SUBSET Roles
    BY <2>1, <2>2, <2>3 DEF Linked, Dropped, Added, User
  <2> HIDE DEF R
  <2>5. user' = [user EXCEPT ![u] = [user[u] EXCEPT !.roles = R]]
    BY <2>1
  <2>6. [user[u] EXCEPT !.roles = R] \in User
    BY <2>1, <2>2, <2>3, <2>4 DEF User
  <2>7. \A row \in User : row.roles \in SUBSET Roles /\ row = [row EXCEPT !.roles = row.roles]
    BY DEF User
  <2>8. user' \in [Users -> User \cup {Unused, Deleted}]
    BY <2>5, <2>6 DEF AuthInv, RowsOK
  <2>9. \A v \in Users : user'[v] = IF v = u THEN [user[u] EXCEPT !.roles = R] ELSE user[v]
    BY <2>5 DEF AuthInv, RowsOK
  <2>10. \A q \in Roles : RoleExists(q)' => RoleExists(q) /\ role'[q].name = role[q].name
    BY <2>1 DEF RoleExists
  <2>11. \A v \in Users : Exists(v)' =>
            /\ Exists(v)
            /\ user'[v] \in User
            /\ \E L \in SUBSET Roles : user'[v] = [user[v] EXCEPT !.roles = L]
    <3> SUFFICES ASSUME NEW v \in Users, Exists(v)'
                 PROVE  /\ Exists(v)
                        /\ user'[v] \in User
                        /\ \E L \in SUBSET Roles : user'[v] = [user[v] EXCEPT !.roles = L]
      OBVIOUS
    <3>1. CASE v = u
      BY <2>1, <2>4, <2>6, <2>9, <3>1
    <3>2. CASE v # u
      <4>1. user'[v] = user[v] /\ Exists(v)
        BY <2>9, <3>2 DEF Exists
      <4> QED
        BY <2>3, <2>7, <4>1
    <3> QED
      BY <3>1, <3>2
  <2> QED
    BY <2>1, <2>8, <2>10, <2>11, LinksWritten DEF AuthInv, RowsOK
<1> QED
  BY <1>1, <1>2

\* A new role is inserted if its name is still free.
LEMMA FlushNewRoleStep ==
    ASSUME AuthInv, NEW s \in Sessions, FlushNewRole(s) PROVE AuthInv' /\ NoTrace
<1>1. CASE Fail(s)
  BY <1>1, FailStep
<1>2. CASE ~Fail(s)
  <2>1. PICK r \in Roles : role' = [role EXCEPT ![r] = sess[s].rnew]
    BY <1>2 DEF FlushNewRole
  <2>2. Commit(s) /\ UNCHANGED user /\ ~ExistsByName(sess[s].rnew.name, r)
    BY <1>2, RequestAssumption DEF FlushNewRole, ExistsByName, RequestAssumption
  <2>3. sess[s].rnew \in Role
    BY DEF FlushNewRole, Ready, AuthInv, SessionsOK, SessionOK
  <2> QED
    BY <2>1, <2>2, <2>3, RoleWritten
<1> QED
  BY <1>1, <1>2

\* A role's update is written over the row as it is, if the name is still free.
LEMMA FlushRoleStep ==
    ASSUME AuthInv, NEW s \in Sessions, FlushRole(s) PROVE AuthInv' /\ NoTrace
<1> DEFINE r == sess[s].role
           row == Written(role[r], sess[s].rcopy, sess[s].rnew)
<1>1. CASE Fail(s)
  BY <1>1, FailStep
<1>2. CASE ~Fail(s)
  <2>1. /\ role' = [role EXCEPT ![r] = row] /\ Commit(s) /\ UNCHANGED user
        /\ RoleExists(r) /\ ~ExistsByName(row.name, r)
    BY <1>2 DEF FlushRole
  <2>2. r \in Roles /\ sess[s].rcopy \in Role /\ sess[s].rnew \in Role
    BY DEF FlushRole, Ready, AuthInv, SessionsOK, SessionOK
  <2>3. role[r] \in Role
    BY <2>1, <2>2 DEF AuthInv, RowsOK, RoleExists
  <2>4. row \in Role
    BY <2>2, <2>3, WrittenRole
  <2> HIDE DEF row, r
  <2> QED
    BY <2>1, <2>2, <2>4, RoleWritten
<1> QED
  BY <1>1, <1>2

\* A role goes, and every user's link to it.
LEMMA FlushDeletedRoleStep ==
    ASSUME AuthInv, NEW s \in Sessions, FlushDeletedRole(s) PROVE AuthInv' /\ NoTrace
<1> DEFINE r == sess[s].role
<1>1. CASE Fail(s)
  BY <1>1, FailStep
<1>2. CASE ~Fail(s)
  <2>1. /\ role' = [role EXCEPT ![r] = Deleted] /\ Commit(s)
        /\ user' = [u \in Users |->
              IF Exists(u) THEN [user[u] EXCEPT !.roles = @ \ {r}] ELSE user[u]]
    BY <1>2 DEF FlushDeletedRole
  <2>2. r \in Roles
    BY DEF FlushDeletedRole, Ready, AuthInv, SessionsOK, SessionOK
  <2>3. \A v \in Users : Exists(v) => user[v] \in User
    BY DEF AuthInv, AccountsClean, Clean
  <2> HIDE DEF r
  <2>4. \A v \in Users : Exists(v) =>
           /\ user[v].roles \ {r} \in SUBSET Roles
           /\ user'[v] = [user[v] EXCEPT !.roles = user[v].roles \ {r}]
           /\ [user[v] EXCEPT !.roles = user[v].roles \ {r}] \in User
    BY <2>1, <2>3 DEF User
  <2>5. \A v \in Users : ~Exists(v) => user'[v] = user[v]
    BY <2>1
  <2>6. \A v \in Users : Exists(v)' => Exists(v)
    BY <2>5 DEF Exists
  <2>7. user' \in [Users -> User \cup {Unused, Deleted}]
    <3>1. \A v \in Users : user'[v] \in User \cup {Unused, Deleted}
      BY <2>4, <2>5 DEF AuthInv, RowsOK
    <3>2. user' = [v \in Users |-> user'[v]]
      BY <2>1
    <3> QED
      BY <3>1, <3>2
  <2>8. /\ role' \in [Roles -> Role \cup {Unused, Deleted}]
        /\ \A q \in Roles : RoleExists(q)' => RoleExists(q) /\ role'[q].name = role[q].name
    BY <2>1, <2>2 DEF AuthInv, RowsOK, RoleExists
  <2> QED
    BY <2>1, <2>4, <2>6, <2>7, <2>8, LinksWritten
<1> QED
  BY <1>1, <1>2

\* A role's permissions change, and not its name.
LEMMA FlushPermissionsStep ==
    ASSUME AuthInv, NEW s \in Sessions, FlushPermissions(s) PROVE AuthInv' /\ NoTrace
<1> DEFINE r == sess[s].role
           P == Linked(role[r].permissions, sess[s].rcopy.permissions, sess[s].rnew.permissions)
<1>1. CASE Fail(s)
  BY <1>1, FailStep
<1>2. CASE ~Fail(s)
  <2>1. /\ RoleExists(r) /\ Commit(s) /\ UNCHANGED user
        /\ role' = [role EXCEPT ![r].permissions = P]
    BY <1>2 DEF FlushPermissions
  <2>2. r \in Roles /\ sess[s].rnew \in Role
    BY DEF FlushPermissions, Ready, AuthInv, SessionsOK, SessionOK
  <2>3. role[r] \in Role
    BY <2>1, <2>2 DEF AuthInv, RowsOK, RoleExists
  <2>4. P \in SUBSET Permissions
    BY <2>2, <2>3 DEF Linked, Dropped, Added, Role
  <2> HIDE DEF P
  <2> DEFINE row == [role[r] EXCEPT !.permissions = P]
  <2>5. role' = [role EXCEPT ![r] = row]
    BY <2>1
  <2>6. row \in Role /\ row.name = role[r].name
    BY <2>3, <2>4 DEF Role
  <2>7. ~ExistsByName(row.name, r)
    BY <2>1, <2>2, <2>6 DEF AuthInv, AccountsAreDistinct, ExistsByName
  <2> HIDE DEF row, r
  <2> QED
    BY <2>1, <2>2, <2>5, <2>6, <2>7, RoleWritten
<1> QED
  BY <1>1, <1>2

----------------------------------------------------------------------------
\* Every step keeps the invariant, and leaves no trace of a sign-in.
LEMMA NextStep == AuthInv /\ LinksExist /\ [Next]_vars => AuthInv' /\ NoTrace
<1> SUFFICES ASSUME AuthInv, LinksExist, [Next]_vars PROVE AuthInv' /\ NoTrace
  OBVIOUS
<1>1. CASE UNCHANGED vars
  BY <1>1, StutterStep DEF vars
<1>2. ASSUME NEW s \in Sessions,
             \/ CreateUser(s) \/ Login(s) \/ ForgotPassword(s) \/ ResendVerification(s)
             \/ Logout(s) \/ Answer(s) \/ Close(s)
      PROVE  AuthInv' /\ NoTrace
  BY <1>2, CreateUserStep, SignInStep, QuietStep
     DEF ForgotPassword, ResendVerification, AsksForMail, Logout, Close
<1>3. ASSUME NEW s \in Sessions,
             \/ UpdateMe(s) \/ UpdateUser(s) \/ CreateRole(s) \/ UpdateRole(s)
             \/ ChangePassword(s)
      PROVE  AuthInv' /\ NoTrace
  BY <1>3, UserUpdateStep, CreateRoleStep, RoleRequestStep, OtherUserStep
<1>4. ASSUME NEW s \in Sessions, NEW u \in Users,
             \/ GetCurrentUser(s, u)
             \/ GetUserToUpdate(s, u) \/ DeleteUser(s, u)
             \/ GetUserToAssign(s, u) \/ RemoveRoles(s, u)
             \/ ActivateUser(s, u) \/ DeactivateUser(s, u)
             \/ RefreshToken(s, u) \/ ResetPassword(s, u) \/ VerifyEmail(s, u)
      PROVE  AuthInv' /\ NoTrace
  BY <1>4, GetCurrentUserStep, UserUpdateStep, RoleListStep, OtherUserStep, SignInStep
<1>5. ASSUME NEW s \in Sessions, NEW r \in Roles,
             \/ AssignRole(s, r)
             \/ GetRoleToUpdate(s, r) \/ DeleteRole(s, r) \/ UpdateRolePermissions(s, r)
      PROVE  AuthInv' /\ NoTrace
  BY <1>5, RoleListStep, RoleRequestStep
<1>6. ASSUME NEW s \in Sessions,
             \/ FlushNewUser(s) \/ FlushUser(s) \/ FlushDeletedUser(s) \/ FlushRoles(s)
             \/ FlushNewRole(s) \/ FlushRole(s) \/ FlushDeletedRole(s) \/ FlushPermissions(s)
      PROVE  AuthInv' /\ NoTrace
  BY <1>6, FlushNewUserStep, FlushUserStep, FlushDeletedUserStep, FlushRolesStep,
     FlushNewRoleStep, FlushRoleStep, FlushDeletedRoleStep, FlushPermissionsStep
<1> QED
  BY <1>1, <1>2, <1>3, <1>4, <1>5, <1>6 DEF Next

----------------------------------------------------------------------------
(* Types, rights and roles                                                 *)

\* The user who makes the request may what the roles loaded with the user say,
\* and had that right when they were; and a session that is about to commit
\* writes what such a user may ask for.
SessionRights(ss) ==
    /\ ss.pc = "current" =>
        /\ ss.copy.active
        /\ \A r \in ss.copy.roles : ss.seen[r] # Unused
        /\ \A r \in ss.copy.roles :
              ss.seen[r].active => ss.seen[r].permissions \cap ActivePermissions \subseteq ss.rights
    /\ ss.pc = "found" =>
        /\ ss.op \in {"update_user", "assign_roles"} => "users:update" \in ss.rights
        /\ ss.op = "update_role" => "roles:update" \in ss.rights
    /\ ss.pc = "read" =>
        /\ ss.op = "create_user" => ss.new.roles = {}
        /\ ss.op \in UserUpdates => ss.new.roles = ss.copy.roles
        /\ ss.op = "update_me" => ss.copy.active /\ ss.new.verified = ss.copy.verified
        /\ ss.op \in UserUpdates \ {"update_me"} => "users:update" \in ss.rights
        /\ ss.op \in RoleLists => ss.copy \in User /\ "users:update" \in ss.rights
        /\ ss.op = "delete_user" => "users:delete" \in ss.rights
        /\ ss.op = "create_role" => "roles:create" \in ss.rights
        /\ ss.op \in {"update_role", "update_role_permissions"} => "roles:update" \in ss.rights
        /\ ss.op = "delete_role" => "roles:delete" \in ss.rights

SessionFits(ss) == ss \in Session /\ SessionRights(ss)

\* The inductive invariant of the types and of the rights.
RightsInv ==
    /\ AuthInv
    /\ tokens \in [Users -> SUBSET TokenType]
    /\ sess \in [Sessions -> Session]
    /\ \A s \in Sessions : SessionRights(sess[s])
    /\ LinksExist

\* What a step does to accounts and roles, ...
PermittedChange ==
    /\ \A u \in Users :
         /\ Exists(u) /\ user'[u] = Deleted => \E s \in Sessions : By(s, "users:delete")
         /\ Exists(u) /\ Exists(u)' =>
               \/ /\ user'[u].verified = user[u].verified
                  /\ user'[u].roles \subseteq user[u].roles
               \/ \E s \in Sessions : By(s, "users:update")
    /\ \A r \in Roles : role'[r] # role[r] =>
         \E s \in Sessions, p \in {"roles:create", "roles:update", "roles:delete"} : By(s, p)

\* ... to an account that is switched off, ...
PermittedActivation ==
    \A u \in Users : Exists(u) /\ Exists(u)' /\ ~user[u].active /\ user'[u].active =>
        \E s \in Sessions : By(s, "users:update")

\* ... and to the roles of an account.
AssignedRoles ==
    \A u \in Users : Exists(u) /\ Exists(u)' /\ user'[u].roles # user[u].roles =>
        \/ \E s \in Sessions :
              /\ Ready(s, RoleLists) /\ sess[s].target = u /\ sess'[s] = Done
              /\ \/ user'[u].roles = sess[s].new.roles
                 \/ sess[s].copy.roles # user[u].roles
        \/ \E r \in Roles :
              role'[r] = Deleted /\ user'[u].roles = user[u].roles \ {r}

Changes == PermittedChange /\ PermittedActivation /\ AssignedRoles

LEMMA IdleFits == SessionFits(Idle) /\ SessionFits(Done)
<1>1. Idle \in Session
  BY UnseenTypes DEF Idle, Session, Ops
<1>2. Done \in Session
  BY <1>1 DEF Done, Idle, Session
<1>3. Idle.pc = "idle" /\ Done.pc = "done"
  BY DEF Done, Idle
<1> QED
  BY <1>1, <1>2, <1>3 DEF SessionFits, SessionRights

LEMMA InitRightsInv == Init => RightsInv
<1> SUFFICES ASSUME Init PROVE RightsInv
  OBVIOUS
<1>1. AuthInv
  BY InitAuthInv
<1>2. tokens \in [Users -> SUBSET TokenType]
  BY DEF Init, SignInTokens, MailedTokens, TokenType
<1>3. sess \in [Sessions -> Session] /\ \A s \in Sessions : SessionRights(sess[s])
  BY IdleFits DEF Init, SessionFits
<1>4. LinksExist
  BY DEF Init
<1> QED
  BY <1>1, <1>2, <1>3, <1>4 DEF RightsInv

LEMMA RowIsUser ==
    ASSUME RightsInv, NEW u \in Users, Exists(u)
    PROVE  Clean(user[u]) /\ user[u] \in User
  BY DEF RightsInv, AuthInv, AccountsClean, Clean

\* require_permissions lets through only who had the right.
LEMMA PermittedHasRight ==
    ASSUME RightsInv, NEW s \in Sessions, NEW p, Permitted(s, p) PROVE p \in sess[s].rights
  BY DEF Permitted, Signed, RightsInv, SessionRights

LEMMA RightsArePermissions ==
    ASSUME NEW a PROVE Rights(a) \in SUBSET Permissions
  BY StoreAssumption DEF StoreAssumption, Rights

----------------------------------------------------------------------------
(* Steps that write nothing                                                *)

\* A session changes, the tables do not.
LEMMA SessionFitsStep ==
    ASSUME RightsInv, AuthInv', NEW s \in Sessions, NEW new, SessionFits(new),
           sess' = [sess EXCEPT ![s] = new], UNCHANGED <<user, role>>,
           tokens' \in [Users -> SUBSET TokenType]
    PROVE  RightsInv' /\ Changes
<1>1. \A t \in Sessions : sess'[t] = IF t = s THEN new ELSE sess[t]
  BY DEF RightsInv
<1>2. sess' \in [Sessions -> Session]
  BY DEF RightsInv, SessionFits
<1>3. \A t \in Sessions : SessionRights(sess'[t])
  BY <1>1 DEF RightsInv, SessionFits
<1>4. LinksExist'
  BY DEF RightsInv, LinksExist, Exists, RoleExists
<1>5. PermittedChange
  BY DEF PermittedChange, Exists
<1>6. PermittedActivation /\ AssignedRoles
  BY DEF PermittedActivation, AssignedRoles
<1>7. (\A t \in Sessions : SessionRights(sess[t]))'
  BY <1>3 DEF SessionRights, UserUpdates, RoleLists
<1> QED
  BY <1>2, <1>4, <1>5, <1>6, <1>7 DEF RightsInv, Changes

\* The user who makes the request is read, with the roles that say what may be done.
LEMMA GetCurrentUserFits ==
    ASSUME RightsInv, AuthInv', NEW s \in Sessions, NEW a \in Users, GetCurrentUser(s, a)
    PROVE  RightsInv' /\ Changes
<1> DEFINE seen == WithRoles(Unseen, user[a].roles)
           ss == [Idle EXCEPT !.pc = "current", !.target = a, !.copy = user[a],
                              !.seen = seen, !.rights = Rights(a)]
<1>1. /\ Exists(a) /\ user[a].active
      /\ sess' = [sess EXCEPT ![s] = ss] /\ UNCHANGED <<user, role>> /\ tokens' = tokens
  BY DEF GetCurrentUser, Current
<1>2. user[a] \in User /\ Rights(a) \in SUBSET Permissions
  BY <1>1, RowIsUser, RightsArePermissions
<1>3. seen \in [Roles -> Role \cup {Unused}]
  BY <1>1, WithRolesTypes, UnseenTypes DEF LinksExist, RightsInv, AuthInv
<1>4. \A r \in user[a].roles : seen[r] = role[r] /\ role[r] # Unused
  BY <1>1, <1>2 DEF WithRoles, Unseen, User, RightsInv, LinksExist, RoleExists
<1> HIDE DEF seen
<1>5. ss.pc = "current" /\ ss.copy = user[a] /\ ss.seen = seen /\ ss.rights = Rights(a)
  BY DEF Idle
<1>6. ss \in Session
  BY <1>2, <1>3 DEF Idle, Session, Ops
<1> HIDE DEF ss
<1>7. \A r \in user[a].roles :
         role[r].active => role[r].permissions \cap ActivePermissions \subseteq Rights(a)
  BY DEF Rights
<1>8. SessionRights(ss)
  BY <1>1, <1>4, <1>5, <1>7 DEF SessionRights
<1> QED
  BY <1>1, <1>6, <1>8, SessionFitsStep DEF SessionFits, RightsInv

LEMMA UserRowIsUser ==
    ASSUME RightsInv, NEW s \in Sessions, Signed(s), NEW u \in Users, Exists(u)
    PROVE  UserRow(s, u) \in User
  BY UserRowIsClean DEF Clean, RightsInv

\* A request that has read a user.
LEMMA ReadUserFits ==
    ASSUME RightsInv, AuthInv', NEW s \in Sessions, NEW pc \in {"found", "read"}, NEW op \in Ops,
           NEW u \in Users, NEW new \in User \cup {Unused},
           NEW seen \in [Roles -> Role \cup {Unused}],
           UserRow(s, u) \in User, ReadUser(s, pc, op, u, new, seen),
           op \in UserUpdates \cup RoleLists \cup {"change_password", "delete_user"},
           pc = "read" /\ op \in UserUpdates => new.roles = UserRow(s, u).roles,
           op = "update_me" => UserRow(s, u).active /\ new.verified = UserRow(s, u).verified,
           op \in UserUpdates \ {"update_me"} => "users:update" \in sess[s].rights,
           op \in RoleLists => "users:update" \in sess[s].rights,
           op = "delete_user" => "users:delete" \in sess[s].rights
    PROVE  RightsInv' /\ Changes
<1> DEFINE ss == [Idle EXCEPT !.pc = pc, !.op = op, !.target = u, !.copy = UserRow(s, u),
                              !.new = new, !.seen = seen, !.rights = sess[s].rights]
<1>1. /\ ss.pc = pc /\ ss.op = op /\ ss.target = u /\ ss.copy = UserRow(s, u) /\ ss.new = new
      /\ ss.rights = sess[s].rights
  BY DEF Idle
<1>2. sess[s].rights \in SUBSET Permissions
  BY DEF RightsInv, Session
<1>3. ss \in Session
  BY <1>2 DEF Idle, Session
<1>4. sess' = [sess EXCEPT ![s] = ss] /\ UNCHANGED <<user, role>> /\ tokens' = tokens
  BY DEF ReadUser
<1> HIDE DEF ss
<1>5. SessionRights(ss)
  BY <1>1 DEF SessionRights, UserUpdates, RoleLists
<1> QED
  BY <1>3, <1>4, <1>5, SessionFitsStep DEF SessionFits, RightsInv

\* A request that has read a role.
LEMMA ReadRoleFits ==
    ASSUME RightsInv, AuthInv', NEW s \in Sessions, NEW pc \in {"found", "read"}, NEW op,
           NEW r \in Roles, NEW new \in Role \cup {Unused}, RoleRow(s, r) \in Role,
           ReadRole(s, pc, op, r, new),
           \/ op \in {"update_role", "update_role_permissions"} /\ "roles:update" \in sess[s].rights
           \/ op = "delete_role" /\ "roles:delete" \in sess[s].rights
    PROVE  RightsInv' /\ Changes
<1> DEFINE ss == [Idle EXCEPT !.pc = pc, !.op = op, !.role = r, !.rcopy = RoleRow(s, r),
                              !.rnew = new, !.rights = sess[s].rights]
<1>1. ss.pc = pc /\ ss.op = op /\ ss.rights = sess[s].rights
  BY DEF Idle
<1>2. sess[s].rights \in SUBSET Permissions
  BY DEF RightsInv, Session
<1>3. op \in Ops
  BY DEF Ops
<1>4. ss \in Session
  BY <1>2, <1>3, UnseenTypes DEF Idle, Session
<1>5. sess' = [sess EXCEPT ![s] = ss] /\ UNCHANGED <<user, role>> /\ tokens' = tokens
  BY DEF ReadRole
<1> HIDE DEF ss
<1>6. SessionRights(ss)
  BY <1>1 DEF SessionRights, UserUpdates, RoleLists
<1> QED
  BY <1>4, <1>5, <1>6, SessionFitsStep DEF SessionFits, RightsInv

\* The current user's own update keeps the roles and what was verified.
LEMMA UpdateMeFits ==
    ASSUME RightsInv, AuthInv', NEW s \in Sessions, UpdateMe(s) PROVE RightsInv' /\ Changes
<1> DEFINE u == sess[s].target
           copy == sess[s].copy
<1>1. u \in Users /\ copy \in User /\ UserRow(s, u) = copy /\ copy.active
  BY DEF UpdateMe, Signed, UserRow, Clean, RightsInv, AuthInv, SessionsOK, SessionOK, SessionRights
<1>2. \A new \in SelfUpdates(u, copy) :
         new \in User /\ new.roles = copy.roles /\ new.verified = copy.verified
  BY <1>1 DEF SelfUpdates, User
<1>3. PICK new \in SelfUpdates(u, copy) : ReadUser(s, "read", "update_me", u, new, Unseen)
  BY DEF UpdateMe
<1>4. "update_me" \in Ops /\ "update_me" \in UserUpdates /\ "update_me" \notin RoleLists
  BY DEF Ops, UserUpdates, RoleLists
<1> HIDE DEF u, copy
<1> QED
  BY <1>1, <1>2, <1>3, <1>4, UnseenTypes, ReadUserFits

\* An administrator's update, activation or deactivation keeps the roles.
LEMMA AdminRowsFit ==
    ASSUME NEW u \in Users, NEW copy \in User,
           NEW new \in AdminUpdates(u, copy) \cup {Activated(copy), Deactivated(copy)}
    PROVE  new \in User /\ new.roles = copy.roles
<1>1. \A row \in AdminUpdates(u, copy) : row \in User /\ row.roles = copy.roles
  BY DEF AdminUpdates, User
<1>2. 0 \in 0..LoginMaxAttempts
  BY StoreAssumption DEF StoreAssumption
<1>3. Activated(copy) \in User /\ Activated(copy).roles = copy.roles
  BY <1>2 DEF Activated, User
<1>4. Deactivated(copy) \in User /\ Deactivated(copy).roles = copy.roles
  BY DEF Deactivated, User
<1> QED
  BY <1>1, <1>3, <1>4

LEMMA AdminUpdateFits ==
    ASSUME RightsInv, AuthInv', NEW s \in Sessions,
           \/ UpdateUser(s)
           \/ \E u \in Users : \/ GetUserToUpdate(s, u)
                               \/ ActivateUser(s, u)
                               \/ DeactivateUser(s, u)
    PROVE  RightsInv' /\ Changes
<1>1. ASSUME NEW op \in UserUpdates \ {"update_me"}
      PROVE  op \in Ops /\ op \in UserUpdates /\ op \notin RoleLists /\ op # "delete_user"
  BY DEF Ops, UserUpdates, RoleLists
<1>2. CASE UpdateUser(s)
  <2> DEFINE u == sess[s].target
             copy == sess[s].copy
  <2>1. u \in Users /\ copy \in User /\ UserRow(s, u) = copy /\ "users:update" \in sess[s].rights
    BY <1>2 DEF UpdateUser, Found, UserRow, Clean, RightsInv, AuthInv, SessionsOK, SessionOK,
                SessionRights
  <2>2. PICK new \in AdminUpdates(u, copy) : ReadUser(s, "read", "update_user", u, new, Unseen)
    BY <1>2 DEF UpdateUser
  <2>3. "update_user" \in UserUpdates \ {"update_me"}
    BY DEF UserUpdates
  <2> HIDE DEF u, copy
  <2>4. new \in User /\ new.roles = copy.roles
    BY <2>1, AdminRowsFit
  <2> QED
    BY <1>1, <2>1, <2>2, <2>3, <2>4, UnseenTypes, ReadUserFits
<1>3. ASSUME NEW u \in Users, GetUserToUpdate(s, u) PROVE RightsInv' /\ Changes
  <2>1. UserRow(s, u) \in User /\ "users:update" \in sess[s].rights
    BY <1>3, UserRowIsUser, PermittedHasRight DEF GetUserToUpdate, Permitted
  <2>2. "update_user" \in UserUpdates \ {"update_me"}
    BY DEF UserUpdates
  <2> QED
    BY <1>1, <1>3, <2>1, <2>2, UnseenTypes, ReadUserFits DEF GetUserToUpdate
<1>4. ASSUME NEW u \in Users, ActivateUser(s, u) \/ DeactivateUser(s, u)
      PROVE  RightsInv' /\ Changes
  <2> DEFINE copy == UserRow(s, u)
  <2>1. copy \in User /\ "users:update" \in sess[s].rights
    BY <1>4, UserRowIsUser, PermittedHasRight DEF ActivateUser, DeactivateUser, Permitted
  <2>2. PICK op \in UserUpdates \ {"update_me"}, new \in {Activated(copy), Deactivated(copy)} :
           ReadUser(s, "read", op, u, new, Unseen)
    BY <1>4 DEF ActivateUser, DeactivateUser, UserUpdates
  <2>3. new \in User /\ new.roles = copy.roles
    BY <2>1, AdminRowsFit
  <2> QED
    BY <1>1, <2>1, <2>2, <2>3, UnseenTypes, ReadUserFits
<1> QED
  BY <1>2, <1>3, <1>4

\* The roles of a user the session already has were loaded with the user.
LEMMA SeenTypes ==
    ASSUME RightsInv, NEW s \in Sessions, Signed(s), NEW u \in Users, Exists(u)
    PROVE  WithRoles(sess[s].seen, UserRow(s, u).roles) \in [Roles -> Role \cup {Unused}]
<1>1. sess[s].seen \in [Roles -> Role \cup {Unused}]
  BY DEF RightsInv, Session
<1>2. CASE u # sess[s].target
  BY <1>1, <1>2, WithRolesTypes DEF UserRow, RightsInv, AuthInv, LinksExist
<1>3. CASE u = sess[s].target
  <2>1. \A r \in UserRow(s, u).roles : sess[s].seen[r] # Unused
    BY <1>3 DEF UserRow, Signed, RightsInv, SessionRights
  <2> QED
    BY <1>1, <2>1 DEF WithRoles
<1> QED
  BY <1>2, <1>3

\* An assignment of roles, one after the other, or their removal.
LEMMA RoleListFits ==
    ASSUME RightsInv, AuthInv', NEW s \in Sessions,
           \/ \E u \in Users : GetUserToAssign(s, u) \/ RemoveRoles(s, u)
           \/ \E r \in Roles : AssignRole(s, r)
    PROVE  RightsInv' /\ Changes
<1>1. ASSUME NEW op \in RoleLists
      PROVE  op \in Ops /\ op \notin UserUpdates /\ op # "update_me" /\ op # "delete_user"
  BY DEF Ops, UserUpdates, RoleLists
<1>2. "assign_roles" \in RoleLists /\ "remove_roles" \in RoleLists
  BY DEF RoleLists
<1>3. sess[s].seen \in [Roles -> Role \cup {Unused}]
  BY DEF RightsInv, Session
<1>4. ASSUME NEW u \in Users, GetUserToAssign(s, u) PROVE RightsInv' /\ Changes
  <2> DEFINE new == [UserRow(s, u) EXCEPT !.roles = {}]
             seen == WithRoles(sess[s].seen, UserRow(s, u).roles)
  <2>1. /\ UserRow(s, u) \in User /\ "users:update" \in sess[s].rights
        /\ ReadUser(s, "found", "assign_roles", u, new, seen)
    BY <1>4, UserRowIsUser, PermittedHasRight DEF GetUserToAssign, Permitted
  <2>2. new \in User
    BY <2>1 DEF User
  <2>3. seen \in [Roles -> Role \cup {Unused}]
    BY <1>3, <1>4, <2>1, SeenTypes DEF GetUserToAssign, Permitted
  <2> HIDE DEF new, seen
  <2> QED
    BY <1>1, <1>2, <2>1, <2>2, <2>3, ReadUserFits
<1>5. ASSUME NEW u \in Users, RemoveRoles(s, u) PROVE RightsInv' /\ Changes
  <2> DEFINE new == [UserRow(s, u) EXCEPT !.roles = {}]
  <2>1. /\ UserRow(s, u) \in User /\ "users:update" \in sess[s].rights
        /\ ReadUser(s, "read", "remove_roles", u, new, Unseen)
    BY <1>5, UserRowIsUser, PermittedHasRight DEF RemoveRoles, Permitted
  <2>2. new \in User
    BY <2>1 DEF User
  <2> HIDE DEF new
  <2> QED
    BY <1>1, <1>2, <2>1, <2>2, UnseenTypes, ReadUserFits
<1>6. ASSUME NEW r \in Roles, AssignRole(s, r) PROVE RightsInv' /\ Changes
  <2> DEFINE u == sess[s].target
             new == [sess[s].new EXCEPT !.roles = sess[s].new.roles \cup {r}]
             seen == WithRoles(sess[s].seen, {r})
  <2>1. /\ u \in Users /\ UserRow(s, u) \in User /\ sess[s].new \in User
        /\ "users:update" \in sess[s].rights
    BY <1>6 DEF AssignRole, Found, UserRow, Clean, RightsInv, AuthInv, SessionsOK, SessionOK,
                SessionRights
  <2>2. new \in User
    BY <2>1 DEF User
  <2>3. seen \in [Roles -> Role \cup {Unused}]
    BY <1>3, <1>6, WithRolesTypes DEF AssignRole, RightsInv, AuthInv
  <2>4. \/ ReadUser(s, "found", "assign_roles", u, new, seen)
        \/ ReadUser(s, "read", "assign_roles", u, new, Unseen)
    BY <1>6 DEF AssignRole
  <2> HIDE DEF u, new, seen
  <2> QED
    BY <1>1, <1>2, <2>1, <2>2, <2>3, <2>4, UnseenTypes, ReadUserFits
<1> QED
  BY <1>4, <1>5, <1>6

\* A deletion.
LEMMA DeleteUserFits ==
    ASSUME RightsInv, AuthInv', NEW s \in Sessions, NEW u \in Users, DeleteUser(s, u)
    PROVE  RightsInv' /\ Changes
<1>1. /\ UserRow(s, u) \in User /\ "users:delete" \in sess[s].rights
      /\ ReadUser(s, "read", "delete_user", u, UserRow(s, u), Unseen)
  BY UserRowIsUser, PermittedHasRight DEF DeleteUser, Permitted
<1>2. "delete_user" \in Ops /\ "delete_user" \notin UserUpdates \cup RoleLists
  BY DEF Ops, UserUpdates, RoleLists
<1> QED
  BY <1>1, <1>2, UnseenTypes, ReadUserFits

\* A new password of the current user.
LEMMA ChangePasswordFits ==
    ASSUME RightsInv, AuthInv', NEW s \in Sessions, ChangePassword(s) PROVE RightsInv' /\ Changes
<1> DEFINE u == sess[s].target
<1>1. u \in Users /\ sess[s].copy \in User /\ UserRow(s, u) = sess[s].copy
  BY DEF ChangePassword, Signed, UserRow, Clean, RightsInv, AuthInv, SessionsOK, SessionOK
<1>2. PICK p \in Passwords :
         ReadUser(s, "read", "change_password", u, WithPassword(sess[s].copy, p), Unseen)
  BY DEF ChangePassword, PasswordChanges
<1>3. WithPassword(sess[s].copy, p) \in User
  BY <1>1 DEF WithPassword, User
<1>4. "change_password" \in Ops /\ "change_password" \notin UserUpdates \cup RoleLists
  BY DEF Ops, SignIns, UserUpdates, RoleLists
<1> HIDE DEF u
<1> QED
  BY <1>1, <1>2, <1>3, <1>4, UnseenTypes, ReadUserFits

\* Sign-ins and passwords: the copy has its type, a failed attempt counted; the
\* committed count is none, and one attempt is allowed at least.
LEMMA SignInFits ==
    ASSUME RightsInv, AuthInv', NEW s \in Sessions,
           \/ Login(s)
           \/ \E u \in Users : RefreshToken(s, u) \/ ResetPassword(s, u) \/ VerifyEmail(s, u)
    PROVE  RightsInv' /\ Changes
<1>1. \A u \in Users : Exists(u) =>
         \A p \in Passwords :
            Authenticated(user[u], p) \in User /\ WithPassword(user[u], p) \in User
  <2> SUFFICES ASSUME NEW u \in Users, Exists(u), NEW p \in Passwords
               PROVE  Authenticated(user[u], p) \in User /\ WithPassword(user[u], p) \in User
    OBVIOUS
  <2>1. user[u] \in User /\ user[u].failed = 0
    BY RowIsUser DEF Clean
  <2>2. LoginMaxAttempts \in Nat /\ 1 <= LoginMaxAttempts
    BY StoreAssumption DEF StoreAssumption
  <2>3. SignedIn(user[u]) \in User
    BY <2>1, <2>2 DEF SignedIn, User
  <2>4. FailedAttempt(user[u]) \in User
    <3> DEFINE locks == 1 >= LoginMaxAttempts
    <3>1. FailedAttempt(user[u]) = [user[u] EXCEPT !.failed = 1, !.locked = locks]
      BY <2>1 DEF FailedAttempt
    <3>2. locks \in BOOLEAN /\ 1 \in 0..LoginMaxAttempts
      BY <2>2
    <3> HIDE DEF locks
    <3> QED
      BY <2>1, <3>1, <3>2 DEF User
  <2>5. WithPassword(user[u], p) \in User
    BY <2>1 DEF WithPassword, User
  <2> QED
    BY <2>3, <2>4, <2>5 DEF Authenticated
<1>2. \A u \in Users : Exists(u) => user[u] \in User /\ Verified(user[u]) \in User
  <2> SUFFICES ASSUME NEW u \in Users, Exists(u)
               PROVE  user[u] \in User /\ Verified(user[u]) \in User
    OBVIOUS
  <2>1. user[u] \in User
    BY RowIsUser
  <2> QED
    BY <2>1 DEF Verified, User
<1>3. PICK op \in SignIns, u \in Users, new \in User : Exists(u) /\ ReadSignIn(s, op, u, new)
  <2>1. CASE Login(s)
    <3>1. PICK e \in Emails, p \in Passwords : \E u \in GetByLogin(e) :
             ReadSignIn(s, "login", u, Authenticated(user[u], p))
      BY <2>1 DEF Login
    <3> QED
      BY <1>1, <3>1 DEF GetByLogin, SignIns
  <2>2. ASSUME NEW u \in Users, RefreshToken(s, u)
        PROVE  \E op \in SignIns, new \in User : Exists(u) /\ ReadSignIn(s, op, u, new)
    BY <1>2, <2>2 DEF RefreshToken, SignIns
  <2>3. ASSUME NEW u \in Users, ResetPassword(s, u)
        PROVE  \E op \in SignIns, new \in User : Exists(u) /\ ReadSignIn(s, op, u, new)
    BY <1>1, <2>3 DEF ResetPassword, PasswordResets, SignIns
  <2>4. ASSUME NEW u \in Users, VerifyEmail(s, u)
        PROVE  \E op \in SignIns, new \in User : Exists(u) /\ ReadSignIn(s, op, u, new)
    BY <1>2, <2>4 DEF VerifyEmail, SignIns
  <2> QED
    BY <2>1, <2>2, <2>3, <2>4
<1> DEFINE ss == [Idle EXCEPT !.pc = "read", !.op = op, !.target = u, !.copy = user[u],
                              !.new = new]
<1>4. sess' = [sess EXCEPT ![s] = ss] /\ UNCHANGED <<user, role>> /\ tokens' = tokens
  BY <1>3 DEF ReadSignIn
<1>5. ss.pc = "read" /\ ss.op = op
  BY DEF Idle
<1>6. ss \in Session
  BY <1>2, <1>3, UnseenTypes DEF Idle, Session, Ops
<1> HIDE DEF ss
<1>7. SessionRights(ss)
  BY <1>5 DEF SessionRights, SignIns, UserUpdates, RoleLists
<1> QED
  BY <1>4, <1>6, <1>7, SessionFitsStep DEF SessionFits, RightsInv

\* A registration, up to the insert.
LEMMA CreateUserFits ==
    ASSUME RightsInv, AuthInv', NEW s \in Sessions, CreateUser(s) PROVE RightsInv' /\ Changes
<1>1. PICK e \in Emails, p \in Passwords :
          sess' = [sess EXCEPT ![s] = [Idle EXCEPT !.pc = "read", !.op = "create_user",
                                                   !.new = Created(e, p)]]
  BY DEF CreateUser
<1> DEFINE ss == [Idle EXCEPT !.pc = "read", !.op = "create_user", !.new = Created(e, p)]
<1>2. ss.pc = "read" /\ ss.op = "create_user" /\ ss.new = Created(e, p)
  BY DEF Idle
<1>3. Created(e, p) \in User /\ Created(e, p).roles = {}
  BY CreatedIsClean, StoreAssumption DEF Clean, Created
<1>4. ss \in Session
  BY <1>3, UnseenTypes DEF Session, Ops, Idle
<1>5. UNCHANGED <<user, role>> /\ tokens' = tokens
  BY DEF CreateUser
<1>6. sess' = [sess EXCEPT ![s] = ss]
  BY <1>1
<1> HIDE DEF ss
<1>7. SessionRights(ss)
  BY <1>2, <1>3 DEF SessionRights, UserUpdates, RoleLists
<1> QED
  BY <1>4, <1>5, <1>6, <1>7, SessionFitsStep DEF SessionFits, RightsInv

\* A new role, up to the insert.
LEMMA CreateRoleFits ==
    ASSUME RightsInv, AuthInv', NEW s \in Sessions, CreateRole(s) PROVE RightsInv' /\ Changes
<1>1. PICK n \in Names :
          sess' = [sess EXCEPT ![s] =
                [Idle EXCEPT !.pc = "read", !.op = "create_role", !.rights = sess[s].rights,
                             !.rnew = [name |-> n, active |-> TRUE, permissions |-> {}]]]
  BY DEF CreateRole
<1> DEFINE ss == [Idle EXCEPT !.pc = "read", !.op = "create_role", !.rights = sess[s].rights,
                              !.rnew = [name |-> n, active |-> TRUE, permissions |-> {}]]
<1>2. ss.pc = "read" /\ ss.op = "create_role" /\ ss.rights = sess[s].rights
  BY DEF Idle
<1>3. "roles:create" \in sess[s].rights /\ sess[s].rights \in SUBSET Permissions
  BY PermittedHasRight DEF CreateRole, RightsInv, Session
<1>4. [name |-> n, active |-> TRUE, permissions |-> {}] \in Role
  BY DEF Role
<1>5. ss \in Session
  BY <1>3, <1>4, UnseenTypes DEF Session, Ops, Idle
<1>6. UNCHANGED <<user, role>> /\ tokens' = tokens
  BY DEF CreateRole
<1>7. sess' = [sess EXCEPT ![s] = ss]
  BY <1>1
<1> HIDE DEF ss
<1>8. SessionRights(ss)
  BY <1>2, <1>3 DEF SessionRights, UserUpdates, RoleLists
<1> QED
  BY <1>5, <1>6, <1>7, <1>8, SessionFitsStep DEF SessionFits, RightsInv

\* What the endpoints of roles read.
LEMMA RoleRequestFits ==
    ASSUME RightsInv, AuthInv', NEW s \in Sessions,
           \/ UpdateRole(s)
           \/ \E r \in Roles : \/ GetRoleToUpdate(s, r)
                               \/ DeleteRole(s, r)
                               \/ UpdateRolePermissions(s, r)
    PROVE  RightsInv' /\ Changes
<1> USE DEF RightsInv
<1>1. CASE UpdateRole(s)
  <2> DEFINE r == sess[s].role
  <2>1. /\ r \in Roles /\ sess[s].rcopy \in Role /\ RoleRow(s, r) = sess[s].rcopy
        /\ "roles:update" \in sess[s].rights
    BY <1>1 DEF UpdateRole, Found, RoleRow, AuthInv, SessionsOK, SessionOK, SessionRights
  <2>2. PICK new \in RoleUpdates(r, sess[s].rcopy) : ReadRole(s, "read", "update_role", r, new)
    BY <1>1 DEF UpdateRole
  <2> HIDE DEF r, RightsInv
  <2> QED
    BY <2>1, <2>2, RoleRowsAreRoles, ReadRoleFits
<1>2. ASSUME NEW r \in Roles, GetRoleToUpdate(s, r) PROVE RightsInv' /\ Changes
  <2>1. RoleRow(s, r) \in Role /\ "roles:update" \in sess[s].rights
    BY <1>2, RoleRowIsRole, PermittedHasRight DEF GetRoleToUpdate, Permitted
  <2> HIDE DEF RightsInv
  <2> QED
    BY <1>2, <2>1, ReadRoleFits DEF GetRoleToUpdate
<1>3. ASSUME NEW r \in Roles, DeleteRole(s, r) PROVE RightsInv' /\ Changes
  <2>1. RoleRow(s, r) \in Role /\ "roles:delete" \in sess[s].rights
    BY <1>3, RoleRowIsRole, PermittedHasRight DEF DeleteRole, Permitted
  <2> HIDE DEF RightsInv
  <2> QED
    BY <1>3, <2>1, ReadRoleFits DEF DeleteRole
<1>4. ASSUME NEW r \in Roles, UpdateRolePermissions(s, r) PROVE RightsInv' /\ Changes
  <2>1. RoleRow(s, r) \in Role /\ "roles:update" \in sess[s].rights
    BY <1>4, RoleRowIsRole, PermittedHasRight DEF UpdateRolePermissions, Permitted
  <2> HIDE DEF RightsInv
  <2> QED
    BY <1>4, <2>1, RoleRowsAreRoles, ReadRoleFits DEF UpdateRolePermissions
<1> QED
  BY <1>1, <1>2, <1>3, <1>4

\* The sessions of auth.py, and all that fail or are closed.
LEMMA QuietFits ==
    ASSUME RightsInv, AuthInv', NEW s \in Sessions,
           Answer(s) \/ (End(s) /\ UNCHANGED <<user, role, tokens>>)
    PROVE  RightsInv' /\ Changes
<1>1. CASE End(s) /\ UNCHANGED <<user, role, tokens>>
  BY <1>1, IdleFits, SessionFitsStep DEF End, RightsInv
<1>2. CASE Answer(s) /\ ~Fail(s)
  <2> DEFINE ss == [sess[s] EXCEPT !.pc = "answered"]
  <2>1. sess' = [sess EXCEPT ![s] = ss] /\ UNCHANGED <<user, role>>
    BY <1>2 DEF Answer
  <2>2. tokens' \in [Users -> SUBSET TokenType]
    BY <1>2 DEF Answer, Issued, SignInTokens, TokenType, RightsInv
  <2>3. ss \in Session /\ ss.pc = "answered"
    BY DEF RightsInv, Session
  <2> HIDE DEF ss
  <2>4. SessionFits(ss)
    BY <2>3 DEF SessionFits, SessionRights
  <2> QED
    BY <2>1, <2>2, <2>4, SessionFitsStep
<1> QED
  BY <1>1, <1>2 DEF Fail

----------------------------------------------------------------------------
(* Steps that write                                                        *)

\* A session that commits is done, and had the rights it had.
LEMMA CommitFits ==
    ASSUME RightsInv, NEW s \in Sessions, Commit(s), sess[s].pc = "read"
    PROVE  /\ tokens' \in [Users -> SUBSET TokenType]
           /\ sess' \in [Sessions -> Session]
           /\ (\A t \in Sessions : SessionRights(sess[t]))'
           /\ sess'[s] = Done
           /\ \A p \in sess[s].rights : By(s, p)
<1>1. \A t \in Sessions : sess'[t] = IF t = s THEN Done ELSE sess[t]
  BY DEF Commit, End, RightsInv
<1>2. sess' \in [Sessions -> Session]
  BY IdleFits DEF Commit, End, RightsInv, SessionFits
<1>3. \A t \in Sessions : SessionRights(sess'[t])
  BY <1>1, IdleFits DEF RightsInv, SessionFits
<1>4. (\A t \in Sessions : SessionRights(sess[t]))'
  BY <1>3 DEF SessionRights, UserUpdates, RoleLists
<1> QED
  BY <1>1, <1>2, <1>4 DEF Commit, By, RightsInv

\* The fields of what UPDATE leaves of a row.
LEMMA WrittenFields ==
    ASSUME NEW current, NEW read, NEW new \in User
    PROVE  /\ new.roles = read.roles => Written(current, read, new).roles = current.roles
           /\ new.active = read.active => Written(current, read, new).active = current.active
           /\ new.active # read.active => Written(current, read, new).active = new.active
           /\ new.verified = read.verified =>
                  Written(current, read, new).verified = current.verified
<1>1. DOMAIN new = {"email", "password", "active", "verified", "failed", "locked", "roles"}
  BY DEF User
<1> QED
  BY <1>1 DEF Written

\* Only users are written: what is left to show is about their rows.
LEMMA UsersWritten ==
    ASSUME RightsInv, AuthInv', NEW s \in Sessions, Commit(s), sess[s].pc = "read",
           UNCHANGED role, LinksExist',
           \A u \in Users : Exists(u) /\ user'[u] = Deleted => By(s, "users:delete"),
           \A u \in Users : Exists(u) /\ Exists(u)' =>
              \/ user'[u].verified = user[u].verified /\ user'[u].roles \subseteq user[u].roles
              \/ By(s, "users:update"),
           \A u \in Users : Exists(u) /\ Exists(u)' /\ ~user[u].active /\ user'[u].active =>
              By(s, "users:update"),
           AssignedRoles
    PROVE  RightsInv' /\ Changes
<1>1. PermittedChange
  BY DEF PermittedChange
<1>2. PermittedActivation
  BY DEF PermittedActivation
<1> QED
  BY <1>1, <1>2, CommitFits DEF RightsInv, Changes

\* Only roles are written, none of those that exist is removed.
LEMMA RolesWritten ==
    ASSUME RightsInv, AuthInv', NEW s \in Sessions, Commit(s), sess[s].pc = "read",
           UNCHANGED user, NEW r \in Roles, NEW new \in Role, role' = [role EXCEPT ![r] = new],
           \E p \in {"roles:create", "roles:update", "roles:delete"} : By(s, p)
    PROVE  RightsInv' /\ Changes
<1>1. \A q \in Roles : role'[q] = IF q = r THEN new ELSE role[q]
  BY DEF RightsInv, AuthInv, RowsOK
<1>2. \A q \in Roles : RoleExists(q) => RoleExists(q)'
  BY <1>1, RowAssumption DEF RoleExists
<1>3. LinksExist'
  <2>1. \A u \in Users : Exists(u) => user[u].roles \in SUBSET Roles
    BY RowIsUser DEF User
  <2> QED
    BY <1>2, <2>1 DEF RightsInv, LinksExist, Exists
<1>4. PermittedChange
  BY DEF PermittedChange, Exists
<1>5. PermittedActivation /\ AssignedRoles
  BY DEF PermittedActivation, AssignedRoles
<1> QED
  BY <1>3, <1>4, <1>5, CommitFits DEF RightsInv, Changes

\* A session that fails writes nothing.
LEMMA FailFits ==
    ASSUME RightsInv, AuthInv', NEW s \in Sessions, Fail(s) PROVE RightsInv' /\ Changes
  BY QuietFits DEF Fail

\* A registration has no roles.
LEMMA FlushNewUserFits ==
    ASSUME RightsInv, AuthInv', NEW s \in Sessions, FlushNewUser(s) PROVE RightsInv' /\ Changes
<1>1. CASE Fail(s)
  BY <1>1, FailFits
<1>2. CASE ~Fail(s)
  <2>1. PICK u \in Users : user[u] = Unused /\ user' = [user EXCEPT ![u] = sess[s].new]
    BY <1>2 DEF FlushNewUser
  <2>2. Commit(s) /\ UNCHANGED role /\ sess[s].pc = "read"
    BY <1>2 DEF FlushNewUser, Ready
  <2>3. sess[s].new.roles = {}
    BY DEF FlushNewUser, Ready, RightsInv, SessionRights
  <2>4. \A v \in Users : user'[v] = IF v = u THEN sess[s].new ELSE user[v]
    BY <2>1 DEF RightsInv, AuthInv, RowsOK
  <2>5. \A v \in Users : Exists(v) => user'[v] = user[v]
    BY <2>1, <2>4 DEF Exists
  <2>6. LinksExist'
    BY <2>2, <2>3, <2>4 DEF RightsInv, LinksExist, Exists, RoleExists
  <2>7. AssignedRoles
    BY <2>5 DEF AssignedRoles
  <2> QED
    BY <2>2, <2>5, <2>6, <2>7, UsersWritten DEF Exists
<1> QED
  BY <1>1, <1>2

\* An update keeps the roles the account has by then, and who may not do more
\* neither verifies nor activates.
LEMMA FlushUserFits ==
    ASSUME RightsInv, AuthInv', NEW s \in Sessions, FlushUser(s) PROVE RightsInv' /\ Changes
<1> DEFINE u == sess[s].target
           row == Written(user[u], sess[s].copy, sess[s].new)
<1>1. CASE Fail(s)
  BY <1>1, FailFits
<1>2. CASE ~Fail(s)
  <2>1. /\ user' = [user EXCEPT ![u] = row] /\ Commit(s) /\ UNCHANGED role
        /\ Exists(u) /\ sess[s].pc = "read" /\ sess[s].op \in UserUpdates
    BY <1>2 DEF FlushUser, Ready
  <2>2. /\ u \in Users /\ Clean(sess[s].copy) /\ Clean(sess[s].new)
        /\ sess[s].new.password = sess[s].copy.password
    BY <2>1 DEF RightsInv, AuthInv, SessionsOK, SessionOK
  <2>3. /\ sess[s].new.roles = sess[s].copy.roles
        /\ \/ sess[s].copy.active /\ sess[s].new.verified = sess[s].copy.verified
           \/ "users:update" \in sess[s].rights
    BY <2>1 DEF RightsInv, SessionRights
  <2>4. sess[s].new \in User /\ sess[s].copy \in User /\ user[u] \in User
    BY <2>1, <2>2, RowIsUser DEF Clean
  <2>5. Clean(row)
    BY <2>1, <2>2, RowIsUser, WrittenUser
  <2>6. row.roles = user[u].roles
    BY <2>3, <2>4, WrittenFields
  <2>7. \/ row.verified = user[u].verified /\ (row.active => user[u].active)
        \/ By(s, "users:update")
    <3>1. CASE "users:update" \in sess[s].rights
      BY <2>1, <3>1, CommitFits
    <3>2. CASE sess[s].copy.active /\ sess[s].new.verified = sess[s].copy.verified
      <4>1. row.verified = user[u].verified
        BY <2>4, <3>2, WrittenFields
      <4>2. sess[s].new.active = sess[s].copy.active => row.active = user[u].active
        BY <2>4, WrittenFields
      <4>3. sess[s].new.active # sess[s].copy.active => row.active = sess[s].new.active
        BY <2>4, WrittenFields
      <4>4. sess[s].new.active \in BOOLEAN /\ sess[s].copy.active \in BOOLEAN
        BY <2>4 DEF User
      <4> HIDE DEF row, u
      <4> QED
        BY <3>2, <4>1, <4>2, <4>3, <4>4
    <3> QED
      BY <2>3, <3>1, <3>2
  <2> HIDE DEF row, u
  <2>8. \A v \in Users : user'[v] = IF v = u THEN row ELSE user[v]
    BY <2>1, <2>2 DEF RightsInv, AuthInv, RowsOK
  <2>9. row # Deleted
    BY <2>5, RowAssumption DEF Clean
  <2>10. \A v \in Users : Exists(v)' => Exists(v) /\ user'[v].roles = user[v].roles
    BY <2>1, <2>6, <2>8 DEF Exists
  <2>11. LinksExist'
    BY <2>1, <2>10 DEF RightsInv, LinksExist, RoleExists
  <2>12. AssignedRoles
    BY <2>10 DEF AssignedRoles
  <2>13. \A v \in Users : ~(Exists(v) /\ user'[v] = Deleted)
    BY <2>8, <2>9 DEF Exists
  <2>14. \A v \in Users :
            \/ user'[v].verified = user[v].verified /\ (user'[v].active => user[v].active)
            \/ By(s, "users:update")
    BY <2>7, <2>8
  <2> QED
    BY <2>1, <2>10, <2>11, <2>12, <2>13, <2>14, UsersWritten
<1> QED
  BY <1>1, <1>2

\* A user goes by a request that may delete users.
LEMMA FlushDeletedUserFits ==
    ASSUME RightsInv, AuthInv', NEW s \in Sessions, FlushDeletedUser(s)
    PROVE  RightsInv' /\ Changes
<1>1. CASE Fail(s)
  BY <1>1, FailFits
<1>2. CASE ~Fail(s)
  <2>1. /\ user' = [user EXCEPT ![sess[s].target] = Deleted] /\ Commit(s) /\ UNCHANGED role
        /\ sess[s].pc = "read" /\ "users:delete" \in sess[s].rights
    BY <1>2 DEF FlushDeletedUser, Ready, RightsInv, SessionRights
  <2>2. By(s, "users:delete")
    BY <2>1, CommitFits
  <2>3. \A v \in Users : Exists(v)' => Exists(v) /\ user'[v] = user[v]
    BY <2>1 DEF RightsInv, AuthInv, RowsOK, Exists
  <2>4. LinksExist'
    BY <2>1, <2>3 DEF RightsInv, LinksExist, RoleExists
  <2>5. AssignedRoles
    BY <2>3 DEF AssignedRoles
  <2> QED
    BY <2>1, <2>2, <2>3, <2>4, <2>5, UsersWritten
<1> QED
  BY <1>1, <1>2

\* Links are written from the difference of copy and request: they come out as
\* asked for if the copy is what is there.
LEMMA FlushRolesFits ==
    ASSUME RightsInv, AuthInv', NEW s \in Sessions, FlushRoles(s) PROVE RightsInv' /\ Changes
<1> DEFINE u == sess[s].target
           old == sess[s].copy.roles
           new == sess[s].new.roles
           R == Linked(user[u].roles, old, new)
<1>1. CASE Fail(s)
  BY <1>1, FailFits
<1>2. CASE ~Fail(s)
  <2>1. /\ Exists(u) /\ Commit(s) /\ UNCHANGED role /\ Ready(s, RoleLists)
        /\ \A r \in Added(old, new) : RoleExists(r)
        /\ user' = [user EXCEPT ![u].roles = R]
    BY <1>2 DEF FlushRoles
  <2>2. sess[s].pc = "read" /\ sess[s].op \in RoleLists
    BY <2>1 DEF Ready
  <2>3. u \in Users /\ sess[s].new \in User
    BY <2>2 DEF RightsInv, AuthInv, SessionsOK, SessionOK
  <2>4. "users:update" \in sess[s].rights
    BY <2>2 DEF RightsInv, SessionRights
  <2>5. By(s, "users:update") /\ sess'[s] = Done
    BY <2>1, <2>2, <2>4, CommitFits
  <2>6. user[u] \in User
    BY <2>1, <2>3, RowIsUser
  <2>7. R \in SUBSET Roles
    BY <2>3, <2>6 DEF Linked, Dropped, Added, User
  <2>8. old = user[u].roles => R = new
    BY DEF Linked, Dropped, Added
  <2>9. \A r \in R : RoleExists(r)
    <3>1. \A r \in user[u].roles : RoleExists(r)
      BY <2>1, <2>3 DEF RightsInv, LinksExist
    <3> QED
      BY <2>1, <3>1 DEF Linked
  <2> DEFINE row == [user[u] EXCEPT !.roles = R]
  <2>10. row \in User /\ row.roles = R
    BY <2>6, <2>7 DEF User
  <2>11. user' = [user EXCEPT ![u] = row]
    BY <2>1
  <2> HIDE DEF row, R, new, old
  <2>12. \A v \in Users : user'[v] = IF v = u THEN row ELSE user[v]
    BY <2>3, <2>11 DEF RightsInv, AuthInv, RowsOK
  <2>13. row # Deleted
    BY <2>10, RowAssumption
  <2>14. LinksExist'
    <3> SUFFICES ASSUME NEW v \in Users, Exists(v)', NEW r \in user'[v].roles
                 PROVE  RoleExists(r)'
      BY DEF LinksExist
    <3>1. RoleExists(r)
      BY <2>1, <2>9, <2>10, <2>12 DEF RightsInv, LinksExist, Exists
    <3> QED
      BY <2>1, <3>1 DEF RoleExists
  <2>15. AssignedRoles
    <3> SUFFICES ASSUME NEW v \in Users, user'[v].roles # user[v].roles
                 PROVE  /\ Ready(s, RoleLists) /\ sess[s].target = v /\ sess'[s] = Done
                        /\ \/ user'[v].roles = sess[s].new.roles
                           \/ sess[s].copy.roles # user[v].roles
      BY DEF AssignedRoles
    <3>1. v = u
      BY <2>12
    <3> QED
      BY <2>1, <2>5, <2>8, <2>10, <2>12, <3>1 DEF old, new
  <2>16. \A v \in Users : ~(Exists(v) /\ user'[v] = Deleted)
    BY <2>12, <2>13 DEF Exists
  <2> HIDE DEF u
  <2> QED
    BY <2>1, <2>2, <2>5, <2>14, <2>15, <2>16, UsersWritten
<1> QED
  BY <1>1, <1>2

\* A role is inserted by a request that may.
LEMMA FlushNewRoleFits ==
    ASSUME RightsInv, AuthInv', NEW s \in Sessions, FlushNewRole(s) PROVE RightsInv' /\ Changes
<1>1. CASE Fail(s)
  BY <1>1, FailFits
<1>2. CASE ~Fail(s)
  <2>1. PICK r \in Roles : role' = [role EXCEPT ![r] = sess[s].rnew]
    BY <1>2 DEF FlushNewRole
  <2>2. Commit(s) /\ UNCHANGED user /\ sess[s].pc = "read" /\ sess[s].op = "create_role"
    BY <1>2 DEF FlushNewRole, Ready
  <2>3. sess[s].rnew \in Role /\ "roles:create" \in sess[s].rights
    BY <2>2 DEF RightsInv, AuthInv, SessionsOK, SessionOK, SessionRights
  <2>4. By(s, "roles:create")
    BY <2>2, <2>3, CommitFits
  <2> QED
    BY <2>1, <2>2, <2>3, <2>4, RolesWritten
<1> QED
  BY <1>1, <1>2

\* A role is updated by a request that may.
LEMMA FlushRoleFits ==
    ASSUME RightsInv, AuthInv', NEW s \in Sessions, FlushRole(s) PROVE RightsInv' /\ Changes
<1> DEFINE r == sess[s].role
           row == Written(role[r], sess[s].rcopy, sess[s].rnew)
<1>1. CASE Fail(s)
  BY <1>1, FailFits
<1>2. CASE ~Fail(s)
  <2>1. /\ role' = [role EXCEPT ![r] = row] /\ Commit(s) /\ UNCHANGED user
        /\ RoleExists(r) /\ sess[s].pc = "read" /\ sess[s].op = "update_role"
    BY <1>2 DEF FlushRole, Ready
  <2>2. /\ r \in Roles /\ sess[s].rcopy \in Role /\ sess[s].rnew \in Role
        /\ "roles:update" \in sess[s].rights
    BY <2>1 DEF RightsInv, AuthInv, SessionsOK, SessionOK, SessionRights
  <2>3. role[r] \in Role
    BY <2>1, <2>2 DEF RightsInv, AuthInv, RowsOK, RoleExists
  <2>4. row \in Role
    BY <2>2, <2>3, WrittenRole
  <2>5. By(s, "roles:update")
    BY <2>1, <2>2, CommitFits
  <2> HIDE DEF row, r
  <2> QED
    BY <2>1, <2>2, <2>4, <2>5, RolesWritten
<1> QED
  BY <1>1, <1>2

\* The permissions of a role are changed by a request that may.
LEMMA FlushPermissionsFits ==
    ASSUME RightsInv, AuthInv', NEW s \in Sessions, FlushPermissions(s)
    PROVE  RightsInv' /\ Changes
<1> DEFINE r == sess[s].role
           P == Linked(role[r].permissions, sess[s].rcopy.permissions, sess[s].rnew.permissions)
<1>1. CASE Fail(s)
  BY <1>1, FailFits
<1>2. CASE ~Fail(s)
  <2>1. /\ RoleExists(r) /\ Commit(s) /\ UNCHANGED user
        /\ role' = [role EXCEPT ![r].permissions = P]
        /\ sess[s].pc = "read" /\ sess[s].op = "update_role_permissions"
    BY <1>2 DEF FlushPermissions, Ready
  <2>2. r \in Roles /\ sess[s].rnew \in Role /\ "roles:update" \in sess[s].rights
    BY <2>1 DEF RightsInv, AuthInv, SessionsOK, SessionOK, SessionRights
  <2>3. role[r] \in Role
    BY <2>1, <2>2 DEF RightsInv, AuthInv, RowsOK, RoleExists
  <2>4. P \in SUBSET Permissions
    BY <2>2, <2>3 DEF Linked, Dropped, Added, Role
  <2> HIDE DEF P
  <2> DEFINE row == [role[r] EXCEPT !.permissions = P]
  <2>5. role' = [role EXCEPT ![r] = row]
    BY <2>1
  <2>6. row \in Role
    BY <2>3, <2>4 DEF Role
  <2>7. By(s, "roles:update")
    BY <2>1, <2>2, CommitFits
  <2> HIDE DEF row, r
  <2> QED
    BY <2>1, <2>2, <2>5, <2>6, <2>7, RolesWritten
<1> QED
  BY <1>1, <1>2

\* A role goes by a request that may delete roles, and takes with it the links
\* to it and no others.
LEMMA FlushDeletedRoleFits ==
    ASSUME RightsInv, AuthInv', NEW s \in Sessions, FlushDeletedRole(s)
    PROVE  RightsInv' /\ Changes
<1> DEFINE r == sess[s].role
<1>1. CASE Fail(s)
  BY <1>1, FailFits
<1>2. CASE ~Fail(s)
  <2>1. /\ role' = [role EXCEPT ![r] = Deleted] /\ Commit(s)
        /\ user' = [u \in Users |->
              IF Exists(u) THEN [user[u] EXCEPT !.roles = @ \ {r}] ELSE user[u]]
        /\ sess[s].pc = "read" /\ sess[s].op = "delete_role"
    BY <1>2 DEF FlushDeletedRole, Ready
  <2>2. r \in Roles /\ "roles:delete" \in sess[s].rights
    BY <2>1 DEF RightsInv, AuthInv, SessionsOK, SessionOK, SessionRights
  <2>3. By(s, "roles:delete")
    BY <2>1, <2>2, CommitFits
  <2> HIDE DEF r
  <2>4. \A v \in Users : Exists(v) => user[v] \in User
    BY RowIsUser
  <2>5. \A v \in Users : Exists(v) =>
           /\ user'[v] \in User
           /\ user'[v].roles = user[v].roles \ {r}
           /\ user'[v].verified = user[v].verified
           /\ user'[v].active = user[v].active
    BY <2>1, <2>4 DEF User
  <2>6. \A v \in Users : Exists(v)' => Exists(v)
    BY <2>1 DEF Exists
  <2>7. \A q \in Roles : role'[q] = IF q = r THEN Deleted ELSE role[q]
    BY <2>1 DEF RightsInv, AuthInv, RowsOK
  <2>8. LinksExist'
    <3> SUFFICES ASSUME NEW v \in Users, Exists(v)', NEW q \in user'[v].roles
                 PROVE  RoleExists(q)'
      BY DEF LinksExist
    <3>1. Exists(v) /\ q \in user[v].roles /\ q # r
      BY <2>5, <2>6
    <3>2. RoleExists(q) /\ q \in Roles
      BY <2>4, <3>1 DEF RightsInv, LinksExist, User
    <3> QED
      BY <2>7, <3>1, <3>2 DEF RoleExists
  <2>9. AssignedRoles
    BY <2>2, <2>5, <2>7 DEF AssignedRoles
  <2>10. PermittedChange
    <3>1. \A v \in Users : Exists(v) => user'[v] # Deleted
      BY <2>5, RowAssumption
    <3>2. \A v \in Users : Exists(v) =>
             user'[v].verified = user[v].verified /\ user'[v].roles \subseteq user[v].roles
      BY <2>5
    <3> QED
      BY <2>3, <3>1, <3>2 DEF PermittedChange
  <2>11. PermittedActivation
    BY <2>5 DEF PermittedActivation
  <2> QED
    BY <2>1, <2>8, <2>9, <2>10, <2>11, CommitFits DEF RightsInv, Changes
<1> QED
  BY <1>1, <1>2

----------------------------------------------------------------------------
LEMMA StutterFits == ASSUME RightsInv, AuthInv', UNCHANGED vars PROVE RightsInv' /\ Changes
<1> USE DEF vars
<1>1. LinksExist'
  BY DEF RightsInv, LinksExist, Exists, RoleExists
<1>2. (\A t \in Sessions : SessionRights(sess[t]))'
  BY DEF RightsInv, SessionRights, UserUpdates, RoleLists
<1>3. PermittedChange
  BY DEF PermittedChange, Exists
<1>4. PermittedActivation /\ AssignedRoles
  BY DEF PermittedActivation, AssignedRoles
<1> QED
  BY <1>1, <1>2, <1>3, <1>4 DEF RightsInv, Changes

\* Every step keeps types and rights, and changes what may be changed.
LEMMA NextFits == RightsInv /\ [Next]_vars => RightsInv' /\ Changes
<1> SUFFICES ASSUME RightsInv, [Next]_vars PROVE RightsInv' /\ Changes
  OBVIOUS
<1>0. AuthInv'
  BY NextStep DEF RightsInv
<1>1. CASE UNCHANGED vars
  BY <1>0, <1>1, StutterFits
<1>2. ASSUME NEW s \in Sessions,
             \/ CreateUser(s) \/ Login(s) \/ ForgotPassword(s) \/ ResendVerification(s)
             \/ Logout(s) \/ Answer(s) \/ Close(s)
      PROVE  RightsInv' /\ Changes
  BY <1>0, <1>2, CreateUserFits, SignInFits, QuietFits
     DEF ForgotPassword, ResendVerification, AsksForMail, Logout, Close
<1>3. ASSUME NEW s \in Sessions,
             \/ UpdateMe(s) \/ UpdateUser(s) \/ CreateRole(s) \/ UpdateRole(s)
             \/ ChangePassword(s)
      PROVE  RightsInv' /\ Changes
  BY <1>0, <1>3, UpdateMeFits, AdminUpdateFits, CreateRoleFits, RoleRequestFits,
     ChangePasswordFits
<1>4. ASSUME NEW s \in Sessions, NEW u \in Users,
             \/ GetCurrentUser(s, u)
             \/ GetUserToUpdate(s, u) \/ DeleteUser(s, u)
             \/ GetUserToAssign(s, u) \/ RemoveRoles(s, u)
             \/ ActivateUser(s, u) \/ DeactivateUser(s, u)
             \/ RefreshToken(s, u) \/ ResetPassword(s, u) \/ VerifyEmail(s, u)
      PROVE  RightsInv' /\ Changes
  <2>1. CASE GetCurrentUser(s, u) \/ DeleteUser(s, u)
    BY <1>0, <2>1, GetCurrentUserFits, DeleteUserFits
  <2>2. CASE GetUserToUpdate(s, u) \/ ActivateUser(s, u) \/ DeactivateUser(s, u)
    BY <1>0, <2>2, AdminUpdateFits
  <2>3. CASE GetUserToAssign(s, u) \/ RemoveRoles(s, u)
    BY <1>0, <2>3, RoleListFits
  <2>4. CASE RefreshToken(s, u) \/ ResetPassword(s, u) \/ VerifyEmail(s, u)
    BY <1>0, <2>4, SignInFits
  <2> QED
    BY <1>4, <2>1, <2>2, <2>3, <2>4
<1>5. ASSUME NEW s \in Sessions, NEW r \in Roles,
             \/ AssignRole(s, r)
             \/ GetRoleToUpdate(s, r) \/ DeleteRole(s, r) \/ UpdateRolePermissions(s, r)
      PROVE  RightsInv' /\ Changes
  BY <1>0, <1>5, RoleListFits, RoleRequestFits
<1>6. ASSUME NEW s \in Sessions,
             \/ FlushNewUser(s) \/ FlushUser(s) \/ FlushDeletedUser(s) \/ FlushRoles(s)
      PROVE  RightsInv' /\ Changes
  BY <1>0, <1>6, FlushNewUserFits, FlushUserFits, FlushDeletedUserFits, FlushRolesFits
<1>7. ASSUME NEW s \in Sessions,
             \/ FlushNewRole(s) \/ FlushRole(s) \/ FlushDeletedRole(s) \/ FlushPermissions(s)
      PROVE  RightsInv' /\ Changes
  BY <1>0, <1>7, FlushNewRoleFits, FlushRoleFits, FlushDeletedRoleFits, FlushPermissionsFits
<1> QED
  BY <1>1, <1>2, <1>3, <1>4, <1>5, <1>6, <1>7 DEF Next

LEMMA RightsInvariant == Spec => []RightsInv
  BY InitRightsInv, NextFits, PTL DEF Spec

\* However many registrations and updates overlap, an address is of one user
\* and a name of one role (user_service.py:38-62, roles.py:83-98).
THEOREM AccountsAlwaysDistinct == Spec => []AccountsAreDistinct
<1>1. RightsInv => AccountsAreDistinct
  BY DEF RightsInv, AuthInv
<1> QED
  BY <1>1, RightsInvariant, PTL

\* No request, of any number that overlap, changes the committed password,
\* count of failures or lock of an account (auth.py:33-198, database.py:32-38).
THEOREM SignInNeverLeavesATrace == Spec => SignInLeavesNoTrace
<1>1. RightsInv /\ [Next]_vars => [NoTrace]_vars
  BY NextStep DEF RightsInv
<1>2. Spec => [][NoTrace]_vars
  BY <1>1, RightsInvariant, PTL DEF Spec
<1> QED
  BY <1>2 DEF SignInLeavesNoTrace, NoTrace

LEMMA ChangesAlways == Spec => [][Changes]_vars
<1>1. RightsInv /\ [Next]_vars => [Changes]_vars
  BY NextFits
<1> QED
  BY <1>1, RightsInvariant, PTL DEF Spec

\* Every variable has its type, and no user is ever linked to a role that is not
\* there, although roles are deleted while others assign them.
THEOREM AuthTypes == Spec => []TypeOK
<1>1. RightsInv => TypeOK
  BY DEF RightsInv, AuthInv, RowsOK, TypeOK, StoreTypeOK
<1> QED
  BY <1>1, RightsInvariant, PTL

\* However many requests overlap, an account is deleted, verified or given a
\* role, and a role is changed, only by one whose user had the permission for
\* it when it began (deps.py, require_permissions).
THEOREM OnlyPermittedChanges == Spec => OnlyPermittedChange
<1>1. [Changes]_vars => [PermittedChange]_vars
  BY DEF Changes
<1>2. Spec => [][PermittedChange]_vars
  BY <1>1, ChangesAlways, PTL
<1> QED
  BY <1>2 DEF OnlyPermittedChange, PermittedChange

\* A user's own update, begun while the account was active, never activates it
\* again after an administrator has switched it off.
THEOREM OnlyAdministratorsEverActivate == Spec => OnlyAdministratorsActivate
<1>1. [Changes]_vars => [PermittedActivation]_vars
  BY DEF Changes
<1>2. Spec => [][PermittedActivation]_vars
  BY <1>1, ChangesAlways, PTL
<1> QED
  BY <1>2 DEF OnlyAdministratorsActivate, PermittedActivation

\* Roles change to what a request asked for, unless its copy was stale, or by
\* the one role that is deleted.
THEOREM RolesAlwaysAsAssigned == Spec => RolesAsAssigned
<1>1. [Changes]_vars => [AssignedRoles]_vars
  BY DEF Changes
<1>2. Spec => [][AssignedRoles]_vars
  BY <1>1, ChangesAlways, PTL
<1> QED
  BY <1>2 DEF RolesAsAssigned, AssignedRoles
=============================================================================
