---------------------------- MODULE AccessProofs ----------------------------
(***************************************************************************)
(* Proofs about Access, for any users, roles, permissions, logins at once  *)
(* and times to live.                                                      *)
(***************************************************************************)
EXTENDS Access, TLAPS

\* When each user had each role last: this unit of time, if they have it.
Had == [u \in User |-> [r \in Role |-> LastHeld(u, r)]]

\* A row that was read says what the user had in this unit of time, in which the
\* login ends; a token says what the user had until it was signed.
LoginInv == \A l \in Login : login[l].user # NoRole =>
  /\ login[l].user \in User
  /\ login[l].role # NoRole => login[l].role \in Role /\ Had[login[l].user][login[l].role] = time
TokenInv == \A t \in access :
  /\ t.exp \in Nat
  /\ t.role # NoRole => /\ t.user \in User /\ t.role \in Role
                       /\ t.exp <= Had[t.user][t.role] + AccessTTL

TimesOK == time \in Nat /\ heldUntil \in [User -> [Role -> 0 .. time]]
RowsOK  == /\ users \in [User -> [there : BOOLEAN, active : BOOLEAN, role : Role \union {NoRole}]]
           /\ \A t \in refresh : t.user \in User
           /\ login \in [Login -> [user : User \union {NoRole}, role : Role \union {NoRole}]]

AccessInv == TimesOK /\ RowsOK /\ LoginInv /\ TokenInv

\* The invariant holds at first.
LEMMA AccessInvInit == AccessInit => AccessInv
<1> SUFFICES ASSUME AccessInit PROVE AccessInv
    OBVIOUS
<1>1. users \in [User -> [there : {TRUE}, active : {TRUE}, role : Role]]
  BY DEF AccessInit
<1>2. users \in [User -> [there : BOOLEAN, active : BOOLEAN, role : Role \union {NoRole}]]
  BY <1>1
<1>3. TimesOK BY DEF AccessInit, TimesOK
<1>4. RowsOK /\ LoginInv /\ TokenInv
  BY <1>2 DEF AccessInit, RowsOK, LoginInv, TokenInv
<1> QED BY <1>3, <1>4 DEF AccessInv

\* When a role was last held is a time that has been.
LEMMA HadOK ==
  ASSUME TimesOK
  PROVE  Had \in [User -> [Role -> 0 .. time]]
BY DEF Had, LastHeld, TimesOK

\* It changes with the clock and the users only.
LEMMA HadSame ==
  ASSUME UNCHANGED <<time, users, heldUntil>>
  PROVE  Had' = Had
BY DEF Had, LastHeld, Holds

\* A step that remembers what roles were held forgets nothing: no role was had
\* longer ago after it.
LEMMA HadGrows ==
  ASSUME TimesOK, Remember, time' \in {time, time + 1}
  PROVE  /\ TimesOK'
         /\ \A u \in User, r \in Role : Had'[u][r] \in Nat /\ Had[u][r] <= Had'[u][r]
         /\ time' = time => \A u \in User, r \in Role : Had[u][r] = time => Had'[u][r] = time
<1>1. heldUntil' = Had BY DEF Remember, Had
<1>2. time \in Nat /\ time' \in Nat /\ time <= time' BY DEF TimesOK
<1>3. Had \in [User -> [Role -> 0 .. time]] BY HadOK
<1>4. heldUntil' \in [User -> [Role -> 0 .. time']]
  <2>1. 0 .. time \subseteq 0 .. time' BY <1>2
  <2> QED BY <1>1, <1>3, <2>1
<1>5. \A u \in User, r \in Role : Had'[u][r] \in {time', heldUntil'[u][r]}
  BY DEF Had, LastHeld
<1>6. ASSUME NEW u \in User, NEW r \in Role
      PROVE  /\ Had'[u][r] \in Nat /\ Had[u][r] <= Had'[u][r]
             /\ time' = time /\ Had[u][r] = time => Had'[u][r] = time
  <2>1. Had'[u][r] \in {time', Had[u][r]} BY <1>1, <1>5
  <2>2. Had[u][r] \in 0 .. time BY <1>3
  <2> QED BY <1>2, <2>1, <2>2
<1> QED BY <1>2, <1>4, <1>6 DEF TimesOK

\* A token that was in order stays so while nothing is had longer ago.
LEMMA TokensStay ==
  ASSUME AccessInv, access' \subseteq access,
         \A u \in User, r \in Role : Had'[u][r] \in Nat /\ Had[u][r] <= Had'[u][r]
  PROVE  TokenInv'
<1> SUFFICES ASSUME NEW t \in access'
             PROVE  /\ t.exp \in Nat
                    /\ t.role # NoRole => /\ t.user \in User /\ t.role \in Role
                                         /\ t.exp <= Had'[t.user][t.role] + AccessTTL
    BY DEF TokenInv
<1>1. t \in access /\ t.exp \in Nat
  BY DEF AccessInv, TokenInv
<1>2. ASSUME t.role # NoRole
      PROVE  t.user \in User /\ t.role \in Role /\ t.exp <= Had'[t.user][t.role] + AccessTTL
  <2>1. t.user \in User /\ t.role \in Role /\ t.exp <= Had[t.user][t.role] + AccessTTL
    BY <1>1, <1>2 DEF AccessInv, TokenInv
  <2>2. Had \in [User -> [Role -> 0 .. time]] /\ time \in Nat
    BY HadOK DEF AccessInv, TimesOK
  <2>3. Had[t.user][t.role] \in Nat /\ AccessTTL \in Nat
    BY <2>1, <2>2, AccessAssumption
  <2>4. Had'[t.user][t.role] \in Nat /\ Had[t.user][t.role] <= Had'[t.user][t.role]
    BY <2>1
  <2> QED BY <1>1, <2>1, <2>3, <2>4
<1> QED BY <1>1, <1>2

\* Users and roles change beside logins and tokens.
LEMMA ChangeKeepsInv ==
  ASSUME AccessInv, Remember, UNCHANGED <<time, access, refresh, login>>,
         users' \in [User -> [there : BOOLEAN, active : BOOLEAN, role : Role \union {NoRole}]]
  PROVE  AccessInv'
<1>1. /\ TimesOK'
      /\ \A u \in User, r \in Role : Had'[u][r] \in Nat /\ Had[u][r] <= Had'[u][r]
      /\ \A u \in User, r \in Role : Had[u][r] = time => Had'[u][r] = time
  BY HadGrows DEF AccessInv
<1>2. TokenInv' BY <1>1, TokensStay
<1>3. LoginInv' BY <1>1 DEF AccessInv, LoginInv
<1>4. RowsOK' BY DEF AccessInv, RowsOK
<1> QED BY <1>1, <1>2, <1>3, <1>4 DEF AccessInv

\* A unit of time that passes keeps the invariant.
LEMMA TimeKeepsInv ==
  ASSUME AccessInv, TimePasses
  PROVE  AccessInv'
<1>1. /\ time' = time + 1 /\ Remember /\ UNCHANGED <<users, login>>
      /\ access' \subseteq access /\ refresh' \subseteq refresh
      /\ \A l \in Login : login[l].user = NoRole
  BY DEF TimePasses
<1>2. /\ TimesOK'
      /\ \A u \in User, r \in Role : Had'[u][r] \in Nat /\ Had[u][r] <= Had'[u][r]
  BY <1>1, HadGrows DEF AccessInv
<1>3. TokenInv' BY <1>1, <1>2, TokensStay
<1>4. LoginInv' BY <1>1 DEF LoginInv
<1>5. RowsOK' BY <1>1 DEF AccessInv, RowsOK
<1> QED BY <1>2, <1>3, <1>4, <1>5 DEF AccessInv

\* An active user's row is read: the user has the role it names.
LEMMA ReadKeepsInv ==
  ASSUME AccessInv, NEW l \in Login, NEW u \in User, users[u].there, users[u].active, ReadsUser(l, u)
  PROVE  AccessInv'
<1>1. /\ login' = [login EXCEPT ![l] = [user |-> u, role |-> users[u].role]]
      /\ UNCHANGED <<time, users, roles, access, refresh, heldUntil>>
  BY DEF ReadsUser
<1>2. users[u].role \in Role \union {NoRole}
  BY DEF AccessInv, RowsOK
<1>3. users[u].role # NoRole => Had[u][users[u].role] = time
  BY <1>2 DEF Had, LastHeld, Holds
<1>4. login' \in [Login -> [user : User \union {NoRole}, role : Role \union {NoRole}]]
  BY <1>1, <1>2 DEF AccessInv, RowsOK
<1>5. Had' = Had BY <1>1, HadSame
<1>6. login'[l] = [user |-> u, role |-> users[u].role]
      /\ (\A k \in Login : k # l => login'[k] = login[k])
  BY <1>1 DEF AccessInv, RowsOK
<1>7. LoginInv'
  BY <1>1, <1>2, <1>3, <1>5, <1>6 DEF AccessInv, LoginInv
<1>8. TokenInv' BY <1>1, <1>5 DEF AccessInv, TokenInv
<1>9. TimesOK' /\ RowsOK' BY <1>1, <1>4 DEF AccessInv, TimesOK, RowsOK
<1> QED BY <1>7, <1>8, <1>9 DEF AccessInv

\* Tokens are signed in the unit of time in which the row was read.
LEMMA SignKeepsInv ==
  ASSUME AccessInv, NEW l \in Login, SignTokens(l)
  PROVE  AccessInv'
<1> DEFINE u == login[l].user
           r == login[l].role
           new == [user |-> u, role |-> r, exp |-> time + AccessTTL]
<1>1. /\ u # NoRole /\ access' = access \union {new}
      /\ refresh' = refresh \union {[user |-> u, exp |-> time + RefreshTTL]}
      /\ login' = [login EXCEPT ![l].user = NoRole]
      /\ UNCHANGED <<time, users, roles, heldUntil>>
  BY DEF SignTokens
<1>2. time \in Nat /\ AccessTTL \in Nat
  BY AccessAssumption DEF AccessInv, TimesOK
<1>3. u \in User /\ (r # NoRole => r \in Role /\ Had[u][r] = time)
  BY <1>1 DEF AccessInv, LoginInv
<1>4. Had' = Had BY <1>1, HadSame
<1>5. login' \in [Login -> [user : User \union {NoRole}, role : Role \union {NoRole}]]
  BY <1>1 DEF AccessInv, RowsOK
<1>6. \A k \in Login : login'[k].user # NoRole => login'[k] = login[k]
  BY <1>1 DEF AccessInv, RowsOK
<1>7. LoginInv' BY <1>1, <1>4, <1>6 DEF AccessInv, LoginInv
<1>8. TokenInv'
  <2> SUFFICES ASSUME NEW t \in access'
               PROVE  /\ t.exp \in Nat
                      /\ t.role # NoRole => /\ t.user \in User /\ t.role \in Role
                                           /\ t.exp <= Had[t.user][t.role] + AccessTTL
      BY <1>4 DEF TokenInv
  <2>1. CASE t \in access BY <2>1 DEF AccessInv, TokenInv
  <2>2. CASE t = new BY <1>2, <1>3, <2>2
  <2> QED BY <1>1, <2>1, <2>2
<1>9. \A t \in refresh' : t.user \in User
  BY <1>1, <1>3 DEF AccessInv, RowsOK
<1>10. TimesOK' /\ RowsOK' BY <1>1, <1>5, <1>9 DEF AccessInv, TimesOK, RowsOK
<1> QED BY <1>7, <1>8, <1>10 DEF AccessInv

\* Every step keeps the invariant.
LEMMA StepKeepsAccessInv == AccessInv /\ [AccessNext]_accessVars => AccessInv'
<1> SUFFICES ASSUME AccessInv, [AccessNext]_accessVars PROVE AccessInv'
    OBVIOUS
<1>1. CASE TimePasses
  BY <1>1, TimeKeepsInv
<1>2. ASSUME NEW l \in Login, NEW u \in User, LogsIn(l, u) PROVE AccessInv'
  BY <1>2, ReadKeepsInv DEF LogsIn
<1>3. ASSUME NEW l \in Login, NEW t \in refresh, RefreshesToken(l, t) PROVE AccessInv'
  <2>1. t.user \in User BY DEF AccessInv, RowsOK
  <2> QED BY <1>3, <2>1, ReadKeepsInv DEF RefreshesToken
<1>4. ASSUME NEW l \in Login, SignTokens(l) PROVE AccessInv'
  BY <1>4, SignKeepsInv
<1>5. ASSUME NEW u \in User, NEW r \in Role \union {NoRole}, NEW active \in BOOLEAN,
             UpdateUser(u, r, active)
      PROVE  AccessInv'
  <2>1. /\ users' = [users EXCEPT ![u] = [there |-> TRUE, active |-> active, role |-> r]]
        /\ Remember /\ UNCHANGED <<time, access, refresh, login>>
    BY <1>5 DEF UpdateUser
  <2>2. users' \in [User -> [there : BOOLEAN, active : BOOLEAN, role : Role \union {NoRole}]]
    BY <2>1 DEF AccessInv, RowsOK
  <2> QED BY <2>1, <2>2, ChangeKeepsInv
<1>6. ASSUME NEW u \in User, DeleteUser(u) PROVE AccessInv'
  <2>1. /\ users' = [users EXCEPT ![u].there = FALSE]
        /\ Remember /\ UNCHANGED <<time, access, refresh, login>>
    BY <1>6 DEF DeleteUser
  <2>2. users' \in [User -> [there : BOOLEAN, active : BOOLEAN, role : Role \union {NoRole}]]
    BY <2>1 DEF AccessInv, RowsOK
  <2> QED BY <2>1, <2>2, ChangeKeepsInv
<1>7. ASSUME NEW r \in Role, DeleteRole(r) PROVE AccessInv'
  <2>1. /\ users' = [u \in User |-> [users[u] EXCEPT !.role = IF @ = r THEN NoRole ELSE @]]
        /\ Remember /\ UNCHANGED <<time, access, refresh, login>>
    BY <1>7 DEF DeleteRole
  <2>2. users' \in [User -> [there : BOOLEAN, active : BOOLEAN, role : Role \union {NoRole}]]
    BY <2>1 DEF AccessInv, RowsOK
  <2> QED BY <2>1, <2>2, ChangeKeepsInv
<1>8. ASSUME UNCHANGED <<time, users, access, refresh, login, heldUntil>> PROVE AccessInv'
  <2>1. Had' = Had BY <1>8, HadSame
  <2> QED BY <1>8, <2>1 DEF AccessInv, TimesOK, RowsOK, LoginInv, TokenInv
<1>9. ASSUME NEW r \in Role, NEW p, UpdateRole(r, p) PROVE AccessInv'
  BY <1>8, <1>9 DEF UpdateRole
<1>10. CASE UNCHANGED accessVars
  BY <1>8, <1>10 DEF accessVars
<1> QED
  BY <1>1, <1>2, <1>3, <1>4, <1>5, <1>6, <1>7, <1>9, <1>10 DEF AccessNext

\* A user who is deleted, deactivated or given another role passes by the old one no
\* longer than an access token lives, however logins and refreshes interleave with
\* the change: the role in a token was the user's in the unit of time in which it was
\* signed, and a refresh reads the row again (AuthService.RefreshToken).
THEOREM Revoked == AccessSpec => []RevokedInTime
<1>1. AccessInv => RevokedInTime
  <2> SUFFICES ASSUME AccessInv, NEW t \in access, NEW perm \in Permission, Passes(t, perm)
               PROVE  time < LastHeld(t.user, t.role) + AccessTTL
      BY DEF RevokedInTime
  <2>1. time \in Nat /\ AccessTTL \in Nat /\ time < t.exp /\ t.role # NoRole
    BY AccessAssumption DEF AccessInv, TimesOK, Passes
  <2>2. /\ t.user \in User /\ t.role \in Role /\ t.exp \in Nat
        /\ t.exp <= Had[t.user][t.role] + AccessTTL
    BY <2>1 DEF AccessInv, TokenInv
  <2>3. Had \in [User -> [Role -> 0 .. time]]
    BY HadOK DEF AccessInv
  <2>4. Had[t.user][t.role] \in Nat /\ Had[t.user][t.role] = LastHeld(t.user, t.role)
    BY <2>1, <2>2, <2>3 DEF Had
  <2> QED BY <2>1, <2>2, <2>4
<1> QED BY <1>1, AccessInvInit, StepKeepsAccessInv, PTL DEF AccessSpec

-----------------------------------------------------------------------------
(* Tokens expire.                                                          *)

TokensLive == /\ \A t \in access : t.exp \in time + 1 .. time + AccessTTL
              /\ \A t \in refresh : t.exp \in time + 1 .. time + RefreshTTL
RolesOK == roles \in [Role -> SUBSET (Permission \union {"*"})]

\* As time passes, tokens expire or have less to live.
LEMMA TimeKeepsTokens ==
  ASSUME AccessInv, TokensLive, TimePasses
  PROVE  TokensLive'
<1>1. /\ time \in Nat /\ time' = time + 1 /\ AccessTTL \in Nat /\ RefreshTTL \in Nat
      /\ access' = {t \in access : t.exp > time'} /\ refresh' = {t \in refresh : t.exp > time'}
  BY AccessAssumption DEF AccessInv, TimesOK, TimePasses
<1>2. \A t \in access' : t.exp \in time' + 1 .. time' + AccessTTL
  BY <1>1 DEF TokensLive
<1>3. \A t \in refresh' : t.exp \in time' + 1 .. time' + RefreshTTL
  BY <1>1 DEF TokensLive
<1> QED BY <1>2, <1>3 DEF TokensLive

\* A token that is signed lives for its time to live from now.
LEMMA SignKeepsTokens ==
  ASSUME AccessInv, TokensLive, AccessTTL > 0, RefreshTTL > 0, NEW l \in Login, SignTokens(l)
  PROVE  TokensLive'
<1>1. time \in Nat /\ AccessTTL \in Nat /\ RefreshTTL \in Nat /\ time' = time
  BY AccessAssumption DEF AccessInv, TimesOK, SignTokens
<1>2. /\ time + AccessTTL \in time + 1 .. time + AccessTTL
      /\ time + RefreshTTL \in time + 1 .. time + RefreshTTL
  BY <1>1
<1>3. \A t \in access' \ access : t.exp = time + AccessTTL
  BY DEF SignTokens
<1>4. \A t \in refresh' \ refresh : t.exp = time + RefreshTTL
  BY DEF SignTokens
<1>5. \A t \in access' : t.exp \in time + 1 .. time + AccessTTL
  BY <1>2, <1>3 DEF TokensLive
<1>6. \A t \in refresh' : t.exp \in time + 1 .. time + RefreshTTL
  BY <1>2, <1>4 DEF TokensLive
<1> QED BY <1>1, <1>5, <1>6 DEF TokensLive

\* Every step keeps the bound on the life of tokens, and the roles' type.
LEMMA StepKeepsTokens ==
  ASSUME AccessInv, TokensLive, RolesOK, AccessTTL > 0, RefreshTTL > 0,
         [AccessNext]_accessVars
  PROVE  TokensLive' /\ RolesOK'
<1>1. ASSUME UNCHANGED <<time, access, refresh>> PROVE TokensLive'
  BY <1>1 DEF TokensLive
<1>2. ASSUME roles' = roles PROVE RolesOK'
  BY <1>2 DEF RolesOK
<1>3. CASE TimePasses
  <2>1. roles' = roles BY <1>3 DEF TimePasses
  <2> QED BY <1>2, <1>3, <2>1, TimeKeepsTokens
<1>4. ASSUME NEW l \in Login, SignTokens(l) PROVE TokensLive' /\ RolesOK'
  <2>1. roles' = roles BY <1>4 DEF SignTokens
  <2> QED BY <1>2, <1>4, <2>1, SignKeepsTokens
<1>5. ASSUME NEW l \in Login, NEW u, ReadsUser(l, u) PROVE TokensLive' /\ RolesOK'
  BY <1>1, <1>2, <1>5 DEF ReadsUser
<1>6. ASSUME NEW u \in User, NEW r \in Role \union {NoRole}, NEW active \in BOOLEAN,
             UpdateUser(u, r, active)
      PROVE  TokensLive' /\ RolesOK'
  BY <1>1, <1>2, <1>6 DEF UpdateUser
<1>7. ASSUME NEW u \in User, DeleteUser(u) PROVE TokensLive' /\ RolesOK'
  BY <1>1, <1>2, <1>7 DEF DeleteUser
<1>8. ASSUME NEW r \in Role, DeleteRole(r) PROVE TokensLive' /\ RolesOK'
  BY <1>1, <1>8 DEF DeleteRole, RolesOK
<1>9. ASSUME NEW r \in Role, NEW p \in SUBSET (Permission \union {"*"}), UpdateRole(r, p) PROVE TokensLive' /\ RolesOK'
  BY <1>1, <1>9 DEF UpdateRole, RolesOK
<1>10. CASE UNCHANGED accessVars
  BY <1>1, <1>2, <1>10 DEF accessVars
<1> QED
  BY <1>3, <1>4, <1>5, <1>6, <1>7, <1>8, <1>9, <1>10 DEF AccessNext, LogsIn, RefreshesToken

\* No token outlives its time to live, and no role has a permission nobody knows: the
\* part of the site's type invariant that is of access.  The times to live are positive;
\* a token of none would be signed expired.
THEOREM AccessTypeCorrect ==
  ASSUME AccessTTL > 0, RefreshTTL > 0
  PROVE  AccessSpec => []AccessTypeOK
<1> DEFINE Inv == AccessInv /\ TokensLive /\ RolesOK
<1>1. AccessInit => Inv
  BY AccessInvInit DEF AccessInit, TokensLive, RolesOK
<1>2. Inv /\ [AccessNext]_accessVars => Inv'
  BY StepKeepsAccessInv, StepKeepsTokens
<1>3. Inv => AccessTypeOK
  BY DEF AccessInv, RowsOK, TokensLive, RolesOK, AccessTypeOK
<1> QED
  <2> HIDE DEF Inv
  <2> QED BY <1>1, <1>2, <1>3, PTL DEF AccessSpec
=============================================================================
