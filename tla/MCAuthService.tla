--------------------------- MODULE MCAuthService ---------------------------
(***************************************************************************)
(* Instance of AuthService: the permissions its endpoints ask for, given   *)
(* to a role all together or not at all, one more that is not active, and  *)
(* the symmetry of ids and values.                                         *)
(***************************************************************************)
EXTENDS AuthService, TLC

MCPermissions == {"users:update", "users:delete", "roles:create", "roles:update", "roles:delete"}

MCPermissionSets == {{}, MCPermissions}

Symmetry == Permutations(Users) \cup Permutations(Roles) \cup Permutations(Sessions)
            \cup Permutations(Emails) \cup Permutations(Passwords)
=============================================================================
