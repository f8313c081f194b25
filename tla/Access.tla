------------------------------- MODULE Access -------------------------------
(***************************************************************************)
(* Who may do what: users, their roles, and the tokens that carry them.    *)
(*   backend/internal/service/auth_service.go, user_service.go and         *)
(*   role_service.go; middleware/auth.go and rbac.go; pkg/crypto/crypto.go *)
(* Tokens are signed and kept by nobody: an access token names the user's  *)
(* role until it expires, a refresh token gets another one.  Users and     *)
(* roles are changed by requests that read a row and write it back.        *)
(***************************************************************************)
EXTENDS Naturals, FiniteSets

CONSTANTS User,         \* user accounts
          Role,         \* roles that are not of the system
          Permission,   \* what routes require; a role may also have "*"
          Login,        \* requests of logging in or refreshing at once
          AccessTTL, RefreshTTL,
          MaxTime,      \* where time ends
          NoRole

ASSUME AccessAssumption ==
  /\ NoRole \notin User \union Role
  /\ AccessTTL \in Nat /\ RefreshTTL \in Nat /\ MaxTime \in Nat

VARIABLES
  time,
  users,      \* the users table: [there, active, role]
  roles,      \* the permissions of a role; {} also of a deleted one
  access,     \* access tokens signed and not expired: [user, role, exp]
  refresh,    \* refresh tokens, likewise: [user, exp]
  login,      \* a login under way: the user's row as read, its user NoRole for none
  heldUntil   \* history: when a user, active, had a role last, if no longer

accessVars == <<time, users, roles, access, refresh, login, heldUntil>>

Holds(u, r) == users[u].there /\ users[u].active /\ users[u].role = r
LastHeld(u, r) == IF Holds(u, r) THEN time ELSE heldUntil[u][r]
Remember == heldUntil' = [u \in User |-> [r \in Role |-> LastHeld(u, r)]]

AccessTypeOK ==
  /\ \A u \in User : users[u].role \in Role \union {NoRole}
  /\ roles \in [Role -> SUBSET (Permission \union {"*"})]
  /\ \A t \in access : t.exp \in time + 1 .. time + AccessTTL
  /\ \A t \in refresh : t.exp \in time + 1 .. time + RefreshTTL

AccessInit ==
  /\ time = 1
  /\ users \in [User -> [there : {TRUE}, active : {TRUE}, role : Role]]
  /\ roles = [r \in Role |-> Permission]
  /\ access = {} /\ refresh = {}
  /\ login = [l \in Login |-> [user |-> NoRole, role |-> NoRole]]
  /\ heldUntil = [u \in User |-> [r \in Role |-> 0]]

\* Tokens expire.  A login takes less than a unit of time.
TimePasses ==
  /\ time < MaxTime /\ \A l \in Login : login[l].user = NoRole
  /\ time' = time + 1
  /\ access' = {t \in access : t.exp > time'}
  /\ refresh' = {t \in refresh : t.exp > time'}
  /\ Remember
  /\ UNCHANGED <<users, roles, login>>

-----------------------------------------------------------------------------
(* Tokens.                                                                 *)

ReadsUser(l, u) ==
  /\ login[l].user = NoRole
  /\ login' = [login EXCEPT ![l] = [user |-> u, role |-> users[u].role]]
  /\ UNCHANGED <<time, users, roles, access, refresh, heldUntil>>

\* Login, with the right password: of an active user.
LogsIn(l, u) == users[u].there /\ users[u].active /\ ReadsUser(l, u)

\* Fault: a refresh token is good for whoever has it.
RefreshesAnyway(l, t) == users[t.user].there /\ ReadsUser(l, t.user)

\* RefreshToken: the user must still be there and active, and the role is read again.
RefreshesToken(l, t) == users[t.user].there /\ users[t.user].active /\ ReadsUser(l, t.user)

\* GenerateAccessToken and GenerateRefreshToken, from the row read before.
SignTokens(l) ==
  LET u == login[l].user
  IN /\ u # NoRole
     /\ access' = access \union {[user |-> u, role |-> login[l].role, exp |-> time + AccessTTL]}
     /\ refresh' = refresh \union {[user |-> u, exp |-> time + RefreshTTL]}
     /\ login' = [login EXCEPT ![l].user = NoRole]
     /\ UNCHANGED <<time, users, roles, heldUntil>>

\* Role.HasPermission.
HasPermission(r, perm) == perm \in roles[r] \/ "*" \in roles[r]

\* Auth and RequirePermission: the token is valid, and the role it names has the
\* permission now.
Passes(t, perm) ==
  /\ t \in access /\ time < t.exp
  /\ t.role # NoRole /\ HasPermission(t.role, perm)

-----------------------------------------------------------------------------
(* Users and roles change.                                                 *)

\* UserService.Update writes the row it read before with the fields of its request:
\* with requests that overlap, any role and any activity the row may have had.
UpdateUser(u, r, active) ==
  /\ users[u].there
  /\ users' = [users EXCEPT ![u] = [there |-> TRUE, active |-> active, role |-> r]]
  /\ Remember
  /\ UNCHANGED <<time, roles, access, refresh, login>>

DeleteUser(u) ==
  /\ users[u].there
  /\ users' = [users EXCEPT ![u].there = FALSE]
  /\ Remember
  /\ UNCHANGED <<time, roles, access, refresh, login>>

\* RoleService.Update of a role that is not of the system.
UpdateRole(r, permissions) ==
  /\ roles[r] # permissions
  /\ roles' = [roles EXCEPT ![r] = permissions]
  /\ UNCHANGED <<time, users, access, refresh, login, heldUntil>>

\* RoleService.Delete; the users who had it have none (ON DELETE SET NULL).
DeleteRole(r) ==
  /\ roles' = [roles EXCEPT ![r] = {}]
  /\ users' = [u \in User |-> [users[u] EXCEPT !.role = IF @ = r THEN NoRole ELSE @]]
  /\ Remember
  /\ UNCHANGED <<time, access, refresh, login>>

AccessNext ==
  \/ TimePasses
  \/ \E l \in Login : \/ \E u \in User : LogsIn(l, u)
                      \/ \E t \in refresh : RefreshesToken(l, t)
                      \/ SignTokens(l)
  \/ \E u \in User :
       \/ \E r \in Role \union {NoRole}, active \in BOOLEAN : UpdateUser(u, r, active)
       \/ DeleteUser(u)
  \/ \E r \in Role : DeleteRole(r) \/ \E p \in SUBSET (Permission \union {"*"}) : UpdateRole(r, p)

AccessSpec == AccessInit /\ [][AccessNext]_accessVars

\* A user who is deleted, deactivated, or given another role passes nowhere by the
\* old role longer than an access token lives, whatever logins and refreshes were
\* under way then and however often tokens are refreshed.
RevokedInTime ==
  \A t \in access, perm \in Permission : Passes(t, perm) =>
    time < LastHeld(t.user, t.role) + AccessTTL
=============================================================================
