---------------------------- MODULE ServiceProofs ----------------------------
(***************************************************************************)
(* Proofs about two services that share no state: that sessions, accounts   *)
(* and cookies agree (AuthSession), for any number of users, browsers, tabs *)
(* and sessions, and what the daily bar provider promises (DailyBars), for  *)
(* any number of threads, any calendar and any limits.                      *)
(***************************************************************************)
EXTENDS AuthSession, DailyBars, SetFolds, SequenceTheorems, TLAPS

----------------------------------------------------------------------------
(***************************************************************************)
(* Sessions.                                                               *)
(***************************************************************************)

----------------------------------------------------------------------------
(* Types.                                                                   *)

\* The initial values have their types.
LEMMA InitTyped == AuthInit => AuthTypeOK
<1> SUFFICES ASSUME AuthInit PROVE AuthTypeOK OBVIOUS
<1> USE AuthAssumption DEF AuthInit
<1>1. NoUser \in User /\ [NoUser EXCEPT !.exists = TRUE, !.active = TRUE, !.role = "ADMIN"] \in User
  BY DEF NoUser, User, Roles
<1>2. users \in [Users -> User] BY <1>1
<1>3. sessions \in [SessionIds -> Session] BY DEF Session, Unused
<1>4. jar \in [Browsers -> Jar] BY DEF Jar, Empty
<1>5. request \in [Tabs -> Request] BY DEF Request, NoRequest
<1> QED BY <1>2, <1>3, <1>4, <1>5 DEF AuthTypeOK, NoRequest

\* Every step keeps the types.
LEMMA StepTyped == AuthTypeOK /\ [AuthNext]_authVars => AuthTypeOK'
<1> SUFFICES ASSUME AuthTypeOK, [AuthNext]_authVars PROVE AuthTypeOK' OBVIOUS
<1> USE AuthAssumption DEF AuthTypeOK
<1>1. ASSUME NEW c \in Tabs, NEW u \in Users, BeginLogin(c, u) PROVE AuthTypeOK'
  <2>1. [NoRequest EXCEPT !.kind = "login", !.user = u, !.failed = users[u].failed,
           !.locked = users[u].locked, !.era = users[u].era, !.at = time] \in Request
    BY DEF NoRequest, Request, User
  <2> QED BY <1>1, <2>1 DEF BeginLogin, NoRequest
<1>2. ASSUME NEW c \in Tabs, FailLogin(c) PROVE AuthTypeOK'
  <2>1. request[c].user \in Users BY <1>2 DEF FailLogin, Request
  <2>2. /\ request[c].failed + 1 \in Nat /\ request[c].at + Lockout \in Nat
    BY DEF Request
  <2>3. users' \in [Users -> User] BY <1>2, <2>1, <2>2 DEF FailLogin, User
  <2>4. NoRequest \in Request BY DEF NoRequest, Request
  <2> QED BY <1>2, <2>3, <2>4 DEF FailLogin, Answered, NoRequest
<1>3. ASSUME NEW c \in Tabs, NEW s \in SessionIds, CompleteLogin(c, s) PROVE AuthTypeOK'
  <2>1. request[c].user \in Users BY <1>3 DEF CompleteLogin, Request
  <2>2. users' \in [Users -> User] BY <1>3, <2>1 DEF CompleteLogin, User
  <2>0. tokens + 1 \in Nat /\ request[c].at + RefreshLife \in Nat /\ request[c].era \in Nat
    BY DEF Request
  <2>3. ASSUME NEW late \in BOOLEAN
        PROVE  [Unused EXCEPT !.user = request[c].user, !.refresh = tokens + 1,
                  !.expires = request[c].at + RefreshLife, !.era = request[c].era,
                  !.late = late] \in Session
    BY <2>0, <2>1 DEF Session, Unused
  <2>5. sessions' \in [SessionIds -> Session]
    <3>1. (request[c].era # users[request[c].user].era) \in BOOLEAN OBVIOUS
    <3> QED BY <1>3, <2>3, <3>1 DEF CompleteLogin
  <2>4. [NoRequest EXCEPT !.kind = "answer", !.sid = s, !.token = tokens + 1] \in Request
    BY <2>0 DEF NoRequest, Request
  <2> QED BY <1>3, <2>0, <2>2, <2>5, <2>4 DEF CompleteLogin, Answering, NoRequest
<1>4. ASSUME NEW c \in Tabs, NEW s \in SessionIds, RefreshInactive(c, s) PROVE AuthTypeOK'
  <2>1. sessions' \in [SessionIds -> Session] BY <1>4 DEF RefreshInactive, Session
  <2> QED BY <1>4, <2>1 DEF RefreshInactive
<1>5. ASSUME NEW c \in Tabs, NEW s \in SessionIds, BeginRefresh(c, s) PROVE AuthTypeOK'
  <2>1. [NoRequest EXCEPT !.kind = "refresh", !.sid = s, !.at = time] \in Request
    BY DEF NoRequest, Request
  <2> QED BY <1>5, <2>1 DEF BeginRefresh, NoRequest
<1>6. ASSUME NEW c \in Tabs, CompleteRefresh(c) PROVE AuthTypeOK'
  <2>1. request[c].sid \in SessionIds BY <1>6 DEF CompleteRefresh, Request
  <2>2. tokens + 1 \in Nat /\ request[c].at + RefreshLife \in Nat BY DEF Request
  <2>3. ASSUME NEW row \in Session, NEW torn \in BOOLEAN
        PROVE  [Rotated(row, tokens + 1, request[c].at) EXCEPT !.torn = torn] \in Session
    BY <2>2 DEF Rotated, Session
  <2>4. sessions' \in [SessionIds -> Session]
    <3>0. Rotated(sessions[request[c].sid], tokens + 1, request[c].at).torn
            = sessions[request[c].sid].torn
      BY <2>1 DEF Rotated, Session
    <3>1. (sessions[request[c].sid].torn \/ Overlapped(c, request[c].sid)) \in BOOLEAN
      BY ZenonT(20) DEF Overlapped
    <3> QED BY <1>6, <2>1, <2>3, <3>0, <3>1 DEF CompleteRefresh
  <2>5. [NoRequest EXCEPT !.kind = "answer", !.sid = request[c].sid, !.token = tokens + 1] \in Request
    BY <2>1, <2>2 DEF NoRequest, Request
  <2> QED BY <1>6, <2>1, <2>2, <2>4, <2>5 DEF CompleteRefresh, Answering, NoRequest
<1>7. ASSUME NEW c \in Tabs, set_auth_cookies(c) PROVE AuthTypeOK'
  <2>1. jar' \in [Browsers -> Jar] BY <1>7 DEF set_auth_cookies, Jar, Request
  <2>2. NoRequest \in Request BY DEF NoRequest, Request
  <2> QED BY <1>7, <2>1, <2>2 DEF set_auth_cookies, Answered, NoRequest
<1>8. ASSUME NEW c \in Tabs, AnswerLost(c) PROVE AuthTypeOK'
  <2>1. sessions' \in [SessionIds -> Session] BY <1>8 DEF AnswerLost, Session
  <2>2. NoRequest \in Request BY DEF NoRequest, Request
  <2> QED BY <1>8, <2>1, <2>2 DEF AnswerLost, Answered, NoRequest
<1>9. ASSUME NEW c \in Tabs, Logout(c) PROVE AuthTypeOK'
  <2>1. sessions' \in [SessionIds -> Session] BY <1>9 DEF Logout, Session
  <2>2. jar' \in [Browsers -> Jar] BY <1>9 DEF Logout, Jar, Empty
  <2> QED BY <1>9, <2>1, <2>2 DEF Logout
<1>10. ASSUME NEW u, sessions' = RevokedOf(u) PROVE sessions' \in [SessionIds -> Session]
  BY <1>10 DEF RevokedOf, Session
<1>11. ASSUME NEW c \in Tabs, ChangePassword(c) PROVE AuthTypeOK'
  <2>1. jar' \in [Browsers -> Jar] BY <1>11 DEF ChangePassword, Jar, Empty
  <2>3. sessions[Cookies(c).sid].user \in Users
    BY <1>11 DEF ChangePassword, Authenticated, Live, Cookies, Session, Jar
  <2>2. users' \in [Users -> User] BY <1>11, <2>3 DEF ChangePassword, User
  <2> QED BY <1>10, <1>11, <2>1, <2>2 DEF ChangePassword
<1>12. ASSUME NEW c \in Tabs, NEW u \in Users, RevokeSessions(c, u) PROVE AuthTypeOK'
  <2>1. users' \in [Users -> User] BY <1>12 DEF RevokeSessions, User
  <2> QED BY <1>10, <1>12, <2>1 DEF RevokeSessions
<1>13. ASSUME NEW c \in Tabs, NEW u \in Users, Deactivate(c, u) PROVE AuthTypeOK'
  <2>1. users' \in [Users -> User] BY <1>13 DEF Deactivate, User
  <2> QED BY <1>10, <1>13, <2>1 DEF Deactivate
<1>14. ASSUME NEW c \in Tabs, NEW u \in Users, NEW r \in Roles, create_user(c, u, r) PROVE AuthTypeOK'
  <2>1. users' \in [Users -> User] BY <1>14 DEF create_user, User, NoUser
  <2> QED BY <1>14, <2>1 DEF create_user
<1>15. ASSUME NEW c \in Tabs, NEW u \in Users, NEW r \in Roles, NEW a \in BOOLEAN,
              Patch(c, u, a, r)
       PROVE  AuthTypeOK'
  <2>1. users' \in [Users -> User] BY <1>15 DEF Patch, User
  <2> QED BY <1>15, <2>1 DEF Patch
<1>16. CASE Pass BY <1>16 DEF Pass
<1>17. CASE UNCHANGED authVars BY <1>17 DEF authVars
<1> QED
  BY <1>1, <1>2, <1>3, <1>4, <1>5, <1>6, <1>7, <1>8, <1>9, <1>11, <1>12, <1>13,
     <1>14, <1>15, <1>16, <1>17
     DEF AuthNext, AuthStep, Away

----------------------------------------------------------------------------
(* Revocation and the account.                                              *)

\* How a step changes the sessions: new ones are opened where there was none,
\* the others keep their user and never lose a revocation.
LEMMA SessionsKept ==
  ASSUME AuthTypeOK, [AuthNext]_authVars, NEW s \in SessionIds
  PROVE  sessions[s].user # Nobody =>
           /\ sessions'[s].user = sessions[s].user
           /\ sessions'[s].era = sessions[s].era
           /\ sessions'[s].late = sessions[s].late
           /\ sessions[s].revoked => sessions'[s].revoked
           /\ sessions[s].torn => sessions'[s].torn
<1> SUFFICES ASSUME sessions[s].user # Nobody
             PROVE  /\ sessions'[s].user = sessions[s].user
                    /\ sessions'[s].era = sessions[s].era
                    /\ sessions'[s].late = sessions[s].late
                    /\ sessions[s].revoked => sessions'[s].revoked
                    /\ sessions[s].torn => sessions'[s].torn
  OBVIOUS
<1>0. sessions \in [SessionIds -> Session] /\ sessions[s] \in Session BY DEF AuthTypeOK
<1> USE <1>0
<1>1. ASSUME NEW c \in Tabs, NEW t \in SessionIds, CompleteLogin(c, t)
      PROVE  sessions'[s] = sessions[s]
  BY <1>1 DEF CompleteLogin
<1>2. ASSUME NEW c \in Tabs, NEW t \in SessionIds, RefreshInactive(c, t)
      PROVE  sessions'[s] \in {sessions[s], [sessions[s] EXCEPT !.revoked = TRUE]}
  BY <1>2 DEF RefreshInactive
<1>3. ASSUME NEW c \in Tabs, CompleteRefresh(c)
      PROVE  sessions'[s] = sessions[s] \/ \E n, at : sessions'[s] =
               [Rotated(sessions[s], n, at) EXCEPT !.torn = sessions[s].torn \/ Overlapped(c, s)]
  BY <1>3 DEF CompleteRefresh
<1>4. ASSUME NEW c \in Tabs, AnswerLost(c)
      PROVE  sessions'[s] \in {sessions[s], [sessions[s] EXCEPT !.torn = TRUE]}
  BY <1>4 DEF AnswerLost
<1>5. ASSUME NEW c \in Tabs, Logout(c)
      PROVE  sessions'[s] \in {sessions[s], [sessions[s] EXCEPT !.revoked = TRUE]}
  BY <1>5 DEF Logout
<1>6. ASSUME NEW u, sessions' = RevokedOf(u)
      PROVE  sessions'[s] \in {sessions[s], [sessions[s] EXCEPT !.revoked = TRUE]}
  BY <1>6 DEF RevokedOf
<1>7. \/ sessions'[s] = sessions[s]
      \/ sessions'[s] = [sessions[s] EXCEPT !.revoked = TRUE]
      \/ sessions'[s] = [sessions[s] EXCEPT !.torn = TRUE]
      \/ \E n, at, c : sessions'[s] =
           [Rotated(sessions[s], n, at) EXCEPT !.torn = sessions[s].torn \/ Overlapped(c, s)]
  BY <1>1, <1>2, <1>3, <1>4, <1>5, <1>6
     DEF AuthNext, AuthStep, Away, authVars, BeginLogin, FailLogin, BeginRefresh,
         set_auth_cookies, ChangePassword, RevokeSessions, Deactivate, Patch,
         create_user, Pass
<1>8. ASSUME NEW n, NEW at, NEW c, sessions'[s] =
               [Rotated(sessions[s], n, at) EXCEPT !.torn = sessions[s].torn \/ Overlapped(c, s)]
      PROVE  /\ sessions'[s].user = sessions[s].user
             /\ sessions'[s].era = sessions[s].era
             /\ sessions'[s].late = sessions[s].late
             /\ sessions'[s].revoked = sessions[s].revoked
             /\ sessions[s].torn => sessions'[s].torn
  <2>1. Rotated(sessions[s], n, at) = [sessions[s] EXCEPT !.refresh = n, !.expires = at + RefreshLife]
    BY DEF Rotated
  <2>2. /\ sessions'[s].user = sessions[s].user
        /\ sessions'[s].era = sessions[s].era
        /\ sessions'[s].late = sessions[s].late
        /\ sessions'[s].revoked = sessions[s].revoked
    BY <1>8, <2>1 DEF Session
  <2>3. sessions'[s].torn = (sessions[s].torn \/ Overlapped(c, s))
    BY <1>8, <2>1 DEF Session
  <2>4. sessions[s].torn => sessions'[s].torn BY <2>3
  <2> QED BY <2>2, <2>4
<1> QED BY <1>7, <1>8 DEF Session

\* A session id that was given to no login is nowhere.
Unopened ==
    \A s \in SessionIds : sessions[s].user = Nobody =>
        /\ sessions[s] = Unused
        /\ \A c \in Tabs : request[c].sid # s
        /\ \A b \in Browsers : jar[b].sid # s

\* A session that was never opened is in no jar and no request.
LEMMA UnopenedKept ==
  AuthTypeOK /\ Unopened /\ [AuthNext]_authVars => Unopened'
<1> SUFFICES ASSUME AuthTypeOK, Unopened, [AuthNext]_authVars, NEW s \in SessionIds,
                    sessions'[s].user = Nobody
             PROVE  /\ sessions'[s] = Unused
                    /\ \A c \in Tabs : request'[c].sid # s
                    /\ \A b \in Browsers : jar'[b].sid # s
  BY DEF Unopened
<1>0. /\ sessions[s].user = Nobody /\ sessions[s] = Unused
      /\ \A c \in Tabs : request[c].sid # s
      /\ \A b \in Browsers : jar[b].sid # s
  BY SessionsKept DEF Unopened
<1> USE <1>0, AuthAssumption DEF AuthTypeOK
<1>1. ASSUME NEW c \in Tabs, NEW t \in SessionIds, CompleteLogin(c, t)
      PROVE  /\ sessions'[s] = sessions[s] /\ jar' = jar
             /\ \A d \in Tabs : request'[d].sid # s
  <2>1. t # s
    <3> SUFFICES ASSUME t = s PROVE FALSE OBVIOUS
    <3>1. request[c].user \in Users BY <1>1 DEF CompleteLogin, Request
    <3>2. sessions'[s].user = request[c].user BY <1>1 DEF CompleteLogin, Unused
    <3> QED BY <3>1, <3>2
  <2> QED BY <1>1, <2>1 DEF CompleteLogin, Answering, NoRequest
<1>2. ASSUME NEW c \in Tabs, NEW t \in SessionIds, RefreshInactive(c, t)
      PROVE  sessions'[s] = sessions[s] /\ jar' = jar /\ request' = request
  BY <1>2 DEF RefreshInactive, Refreshable, Live
<1>3. ASSUME NEW c \in Tabs, CompleteRefresh(c)
      PROVE  sessions'[s] = sessions[s] /\ jar' = jar /\ \A d \in Tabs : request'[d].sid # s
  BY <1>3 DEF CompleteRefresh, Answering, NoRequest
<1>4. ASSUME NEW c \in Tabs, AnswerLost(c)
      PROVE  sessions'[s] = sessions[s] /\ jar' = jar /\ \A d \in Tabs : request'[d].sid # s
  BY <1>4 DEF AnswerLost, Answered, NoRequest
<1>5. ASSUME NEW c \in Tabs, Logout(c)
      PROVE  /\ sessions'[s] = sessions[s] /\ request' = request
             /\ \A b \in Browsers : jar'[b].sid # s
  <2>1. sessions[s].refresh = 0 BY DEF Unused
  <2>2. sessions'[s] = sessions[s] BY <1>5, <2>1 DEF Logout
  <2>3. Empty.sid # s BY DEF Empty
  <2> QED BY <1>5, <2>2, <2>3 DEF Logout
<1>6. ASSUME NEW u \in Users, sessions' = RevokedOf(u)
      PROVE  sessions'[s] = sessions[s]
  BY <1>6 DEF RevokedOf
<1>7. ASSUME NEW c \in Tabs, NEW u \in Users, BeginLogin(c, u)
      PROVE  sessions' = sessions /\ jar' = jar /\ \A d \in Tabs : request'[d].sid # s
  BY <1>7 DEF BeginLogin, NoRequest
<1>8. ASSUME NEW c \in Tabs, FailLogin(c)
      PROVE  sessions' = sessions /\ jar' = jar /\ \A d \in Tabs : request'[d].sid # s
  BY <1>8 DEF FailLogin, Answered, NoRequest
<1>9. ASSUME NEW c \in Tabs, NEW t \in SessionIds, BeginRefresh(c, t)
      PROVE  sessions' = sessions /\ jar' = jar /\ \A d \in Tabs : request'[d].sid # s
  BY <1>9 DEF BeginRefresh, NoRequest, Refreshable, Live
<1>10. ASSUME NEW c \in Tabs, set_auth_cookies(c)
       PROVE  /\ sessions' = sessions /\ \A d \in Tabs : request'[d].sid # s
              /\ \A b \in Browsers : jar'[b].sid # s
  BY <1>10 DEF set_auth_cookies, Answered, NoRequest
<1>11. ASSUME NEW c \in Tabs, ChangePassword(c)
       PROVE  /\ sessions'[s] = sessions[s] /\ request' = request
              /\ \A b \in Browsers : jar'[b].sid # s
  <2>1. sessions[Cookies(c).sid].user \in Users
    BY <1>11 DEF ChangePassword, Authenticated, Live, Cookies, Session, Jar
  <2>2. sessions'[s] = sessions[s] BY <1>6, <1>11, <2>1 DEF ChangePassword
  <2> QED BY <1>11, <2>2 DEF ChangePassword, Empty
<1> QED
  BY <1>1, <1>2, <1>3, <1>4, <1>5, <1>6, <1>7, <1>8, <1>9, <1>10, <1>11
     DEF AuthNext, AuthStep, Away, authVars, RevokeSessions, Deactivate, Patch,
         create_user, Pass

\* Types and unopened sessions, together, always.
LEMMA Openings == AuthSpec => [](AuthTypeOK /\ Unopened)
<1>1. AuthInit => Unopened
  BY AuthAssumption DEF AuthInit, Unopened, NoRequest, Empty
<1> QED
  BY <1>1, InitTyped, StepTyped, UnopenedKept, PTL DEF AuthSpec

\* A session that was revoked stays revoked, whatever requests were in flight
\* (refresh_user_session, logout_user, revoke_user_sessions).
THEOREM SessionsStayRevoked == AuthSpec => RevokedForGood
<1>1. ASSUME AuthTypeOK, Unopened, [AuthNext]_authVars
      PROVE  \A s \in SessionIds : sessions[s].revoked => sessions'[s].revoked
  BY <1>1, SessionsKept DEF Unopened, Unused
<1>2. AuthTypeOK /\ Unopened /\ [AuthNext]_authVars
        => [\A s \in SessionIds : sessions[s].revoked => sessions'[s].revoked]_authVars
  BY <1>1
<1> QED BY <1>2, Openings, PTL DEF AuthSpec, RevokedForGood

----------------------------------------------------------------------------
(* A change of the account ends its sessions.                               *)

\* A user who was never created has had no change, and is not active.
Created ==
    \A u \in Users : /\ users[u].active => users[u].exists
                     /\ ~users[u].exists => users[u].era = 0

\* The other steps leave the users alone.
LEMMA WhoChangesUsers ==
  ASSUME [AuthNext]_authVars
  PROVE  \/ users' = users
         \/ \E c \in Tabs :
              \/ FailLogin(c) \/ ChangePassword(c)
              \/ \E s \in SessionIds : CompleteLogin(c, s)
              \/ \E u \in Users :
                   \/ RevokeSessions(c, u) \/ Deactivate(c, u)
                   \/ \E r \in Roles :
                        create_user(c, u, r) \/ \E a \in BOOLEAN : Patch(c, u, a, r)
BY DEF AuthNext, AuthStep, Away, authVars, BeginLogin, BeginRefresh, RefreshInactive,
       CompleteRefresh, AnswerLost, Logout, set_auth_cookies, Pass

\* Sessions and requests belong to users that exist.
LEMMA CreatedKept == AuthTypeOK /\ Created /\ [AuthNext]_authVars => Created'
<1> SUFFICES ASSUME AuthTypeOK, Created, [AuthNext]_authVars, NEW v \in Users
             PROVE  /\ users'[v].active => users'[v].exists
                    /\ ~users'[v].exists => users'[v].era = 0
  BY DEF Created
<1> USE AuthAssumption DEF AuthTypeOK, Created, User
<1>1. ASSUME NEW c \in Tabs, FailLogin(c)
      PROVE  /\ users'[v].active = users[v].active
             /\ users'[v].exists = users[v].exists /\ users'[v].era = users[v].era
  BY <1>1 DEF FailLogin
<1>2. ASSUME NEW c \in Tabs, NEW s \in SessionIds, CompleteLogin(c, s)
      PROVE  /\ users'[v].active = users[v].active
             /\ users'[v].exists = users[v].exists /\ users'[v].era = users[v].era
  BY <1>2 DEF CompleteLogin
<1>3. ASSUME NEW c \in Tabs, ChangePassword(c)
      PROVE  /\ users'[v].active = users[v].active
             /\ users'[v].exists = users[v].exists
             /\ users'[v].era = users[v].era \/ users[v].active
  BY <1>3 DEF ChangePassword, Authenticated
<1>4. ASSUME NEW c \in Tabs, NEW u \in Users, RevokeSessions(c, u)
      PROVE  /\ users'[v].active = users[v].active
             /\ users'[v].exists = users[v].exists
             /\ users'[v].era = users[v].era \/ users[v].exists
  BY <1>4 DEF RevokeSessions
<1>5. ASSUME NEW c \in Tabs, NEW u \in Users, Deactivate(c, u)
      PROVE  /\ users'[v].active => users[v].active
             /\ users'[v].exists = users[v].exists
             /\ users'[v].era = users[v].era \/ users[v].exists
  BY <1>5 DEF Deactivate
<1>6. ASSUME NEW c \in Tabs, NEW u \in Users, NEW a \in BOOLEAN, NEW r \in Roles,
             Patch(c, u, a, r)
      PROVE  /\ users'[v].exists = users[v].exists
             /\ users'[v].era = users[v].era
             /\ users'[v].active = users[v].active \/ users[v].exists
  BY <1>6 DEF Patch
<1>7. ASSUME NEW c \in Tabs, NEW u \in Users, NEW r \in Roles, create_user(c, u, r)
      PROVE  users'[v] = users[v] \/ users'[v].exists
  BY <1>7 DEF create_user, NoUser
<1> QED BY <1>1, <1>2, <1>3, <1>4, <1>5, <1>6, <1>7, WhoChangesUsers

\* The steps that end an era end its sessions; a login that comes late is noted.
LEMMA FollowKept ==
  AuthTypeOK /\ Created /\ SessionsFollowAccount /\ [AuthNext]_authVars
    => SessionsFollowAccount'
<1> SUFFICES ASSUME AuthTypeOK, Created, SessionsFollowAccount, [AuthNext]_authVars,
                    NEW s \in SessionIds,
                    sessions'[s].user # Nobody, ~sessions'[s].revoked
             PROVE  sessions'[s].late \/ sessions'[s].era = users'[sessions'[s].user].era
  BY DEF SessionsFollowAccount
<1> USE AuthAssumption DEF AuthTypeOK
<1>1. CASE sessions[s].user = Nobody
  <2>1. PICK c \in Tabs : CompleteLogin(c, s) \/ sessions'[s].user = Nobody
    <3>1. ASSUME NEW u, sessions' = RevokedOf(u) PROVE sessions'[s].user = Nobody
      BY <1>1, <3>1 DEF RevokedOf, Session
    <3>2. ASSUME NEW c \in Tabs, NEW t \in SessionIds, CompleteLogin(c, t), t # s
          PROVE  sessions'[s] = sessions[s]
      BY <3>2 DEF CompleteLogin
    <3>3. ASSUME NEW c \in Tabs, CompleteRefresh(c) PROVE sessions'[s].user = Nobody
      <4>1. sessions[s] \in Session OBVIOUS
      <4>2. CASE request[c].sid # s BY <1>1, <3>3, <4>2 DEF CompleteRefresh
      <4>3. CASE request[c].sid = s
        BY <1>1, <3>3, <4>1, <4>3 DEF CompleteRefresh, Rotated, Session
      <4> QED BY <4>2, <4>3
    <3>4. ASSUME NEW c \in Tabs, AnswerLost(c) \/ Logout(c) \/ \E t \in SessionIds : RefreshInactive(c, t)
          PROVE  sessions'[s].user = Nobody
      BY <1>1, <3>4 DEF AnswerLost, Logout, RefreshInactive, Session
    <3> QED
      BY <1>1, <3>1, <3>2, <3>3, <3>4
         DEF AuthNext, AuthStep, Away, authVars, BeginLogin, FailLogin, BeginRefresh,
             set_auth_cookies, ChangePassword, RevokeSessions, Deactivate, Patch,
             create_user, Pass
  <2>2. CompleteLogin(c, s) BY <2>1
  <2>3. request[c].user \in Users BY <2>2 DEF CompleteLogin, Request
  <2>4. users'[request[c].user].era = users[request[c].user].era
    BY <2>2, <2>3 DEF CompleteLogin, User
  <2>5. /\ sessions'[s].user = request[c].user
        /\ sessions'[s].era = request[c].era
        /\ sessions'[s].late = (request[c].era # users[request[c].user].era)
    BY <2>2 DEF CompleteLogin, Unused
  <2> QED BY <2>4, <2>5
<1>2. CASE sessions[s].user # Nobody
  <2> DEFINE u == sessions[s].user
  <2>0. u \in Users BY <1>2 DEF Session
  <2>1. /\ sessions'[s].user = u /\ sessions'[s].era = sessions[s].era
        /\ sessions'[s].late = sessions[s].late /\ ~sessions[s].revoked
    BY <1>2, SessionsKept
  <2>2. sessions[s].late \/ sessions[s].era = users[u].era
    BY <1>2, <2>1 DEF SessionsFollowAccount
  <2>3. ASSUME sessions' = RevokedOf(u) PROVE FALSE
    BY <2>3, <2>1 DEF RevokedOf, Session
  <2>4. users'[u].era = users[u].era
    <3> HIDE DEF u
    <3> USE <2>0 DEF User
    <3>1. ASSUME NEW c \in Tabs, FailLogin(c) PROVE users'[u].era = users[u].era
      BY <3>1 DEF FailLogin
    <3>2. ASSUME NEW c \in Tabs, NEW t \in SessionIds, CompleteLogin(c, t)
          PROVE  users'[u].era = users[u].era
      BY <3>2 DEF CompleteLogin
    <3>3. ASSUME NEW c \in Tabs, ChangePassword(c) PROVE users'[u].era = users[u].era
      BY <2>3, <3>3 DEF ChangePassword
    <3>4. ASSUME NEW c \in Tabs, NEW v \in Users, RevokeSessions(c, v) \/ Deactivate(c, v)
          PROVE  users'[u].era = users[u].era
      BY <2>3, <3>4 DEF RevokeSessions, Deactivate
    <3>5. ASSUME NEW c \in Tabs, NEW v \in Users, NEW a \in BOOLEAN, NEW r \in Roles,
                 Patch(c, v, a, r)
          PROVE  users'[u].era = users[u].era
      BY <3>5 DEF Patch
    <3>6. ASSUME NEW c \in Tabs, NEW v \in Users, NEW r \in Roles, create_user(c, v, r)
          PROVE  users'[u].era = users[u].era
      BY <3>6 DEF create_user, NoUser, Created
    <3> QED BY <3>1, <3>2, <3>3, <3>4, <3>5, <3>6, WhoChangesUsers
  <2> QED BY <2>1, <2>2, <2>4
<1> QED BY <1>1, <1>2

\* No session outlives the change of its account that ended it, unless it was
\* opened by a login that had read the user before.
THEOREM SessionsEndWithAccount == AuthSpec => []SessionsFollowAccount
<1>1. AuthInit => Created /\ SessionsFollowAccount
  <2> SUFFICES ASSUME AuthInit PROVE Created /\ SessionsFollowAccount OBVIOUS
  <2>1. ASSUME NEW u \in Users PROVE users[u].era = 0 /\ (users[u].active => users[u].exists)
    BY DEF AuthInit, NoUser
  <2>2. \A s \in SessionIds : sessions[s].user = Nobody
    BY DEF AuthInit, Unused
  <2> QED BY <2>1, <2>2 DEF Created, SessionsFollowAccount
<1> QED
  BY <1>1, Openings, CreatedKept, FollowKept, PTL DEF AuthSpec

----------------------------------------------------------------------------
(* Cookies.                                                                 *)

\* Token t was given out for session s and is still known somewhere.
Holds(s, t) ==
    \/ sessions[s].refresh = t
    \/ \E b \in Browsers : jar[b].sid = s /\ jar[b].refresh = t
    \/ \E c \in Tabs : /\ request[c].kind = "answer" /\ request[c].sid = s
                       /\ request[c].token = t

\* No token opens two sessions.
TokensApart ==
    /\ \A s, r \in SessionIds, t \in Nat \ {0} : Holds(s, t) /\ Holds(r, t) => s = r
    /\ \A s \in SessionIds, t \in Nat : Holds(s, t) => t <= tokens
    /\ \A b \in Browsers : jar[b].sid = NoSession => jar[b].refresh = 0

\* The browser has a cookie of the session, or waits for one.
Uses(b, s) ==
    jar[b].sid = s \/ \E c \in Tabs : BrowserOf[c] = b /\ request[c].sid = s

OneBrowser ==
    \A s \in SessionIds, b, d \in Browsers : Uses(b, s) /\ Uses(d, s) => b = d

OnItsWay(s) == \E c \in Tabs : request[c].kind = "answer" /\ request[c].sid = s

\* What a session that is not torn has as its token is on its way to the
\* browser, or there.
CookieCurrent ==
    \A s \in SessionIds : ~sessions[s].torn =>
        /\ \A c \in Tabs : request[c].kind = "answer" /\ request[c].sid = s
             => request[c].token = sessions[s].refresh
        /\ \A b \in Browsers : jar[b].sid = s /\ ~OnItsWay(s)
             => jar[b].refresh = sessions[s].refresh

\* A refresh is sent with a cookie of the session it reads.
LEMMA RefreshedByOwner ==
  ASSUME AuthTypeOK, TokensApart, NEW c \in Tabs, NEW s \in SessionIds, Refreshable(c, s)
  PROVE  jar[BrowserOf[c]].sid = s
<1> DEFINE b == BrowserOf[c]
<1>1. b \in Browsers BY AuthAssumption
<1>2. jar[b] \in Jar BY <1>1 DEF AuthTypeOK
<1>3. jar[b].refresh \in Nat \ {0} /\ sessions[s].refresh = jar[b].refresh
  BY <1>2 DEF Refreshable, Cookies, Jar
<1>4. jar[b].sid \in SessionIds BY <1>1, <1>2, <1>3 DEF TokensApart, Jar
<1>5. Holds(s, jar[b].refresh) /\ Holds(jar[b].sid, jar[b].refresh)
  BY <1>1, <1>3 DEF Holds
<1> QED BY <1>3, <1>4, <1>5 DEF TokensApart

\* A step of one of these kinds touches no session's token, no cookie and no
\* answer.
Quiet ==
    /\ \A s \in SessionIds : sessions'[s].refresh = sessions[s].refresh
    /\ \A s \in SessionIds : sessions'[s].torn = sessions[s].torn
    /\ jar' = jar /\ tokens' = tokens
    /\ \A c \in Tabs : request'[c] = request[c] \/
         (request'[c].kind # "answer" /\ request[c].kind # "answer")

\* A cookie jar is emptied.
Emptied ==
    /\ \A s \in SessionIds : sessions'[s].refresh = sessions[s].refresh
    /\ \A s \in SessionIds : sessions'[s].torn = sessions[s].torn
    /\ \E b \in Browsers : jar' = [jar EXCEPT ![b] = Empty]
    /\ UNCHANGED <<tokens, request>>

\* The steps that touch tokens, cookies and requests, one for each way they do.
LEMMA CookieSteps ==
  ASSUME AuthTypeOK, [AuthNext]_authVars
  PROVE  \/ Quiet /\ \A c \in Tabs : request'[c].sid \in {request[c].sid, NoSession}
         \/ \E c \in Tabs, s \in SessionIds : Quiet /\ BeginRefresh(c, s)
         \/ Emptied
         \/ \E c \in Tabs, s \in SessionIds : CompleteLogin(c, s)
         \/ \E c \in Tabs : CompleteRefresh(c) \/ set_auth_cookies(c) \/ AnswerLost(c)
<1> USE AuthAssumption DEF AuthTypeOK
<1>1. ASSUME NEW c \in Tabs, NEW u \in Users, BeginLogin(c, u)
      PROVE  Quiet /\ \A d \in Tabs : request'[d].sid \in {request[d].sid, NoSession}
  BY <1>1 DEF BeginLogin, Quiet, Free, NoRequest
<1>2. ASSUME NEW c \in Tabs, FailLogin(c)
      PROVE  Quiet /\ \A d \in Tabs : request'[d].sid \in {request[d].sid, NoSession}
  BY <1>2 DEF FailLogin, Answered, Quiet, NoRequest
<1>3. ASSUME NEW c \in Tabs, NEW s \in SessionIds, RefreshInactive(c, s)
      PROVE  Quiet /\ request' = request
  BY <1>3 DEF RefreshInactive, Quiet, Session
<1>4. ASSUME NEW c \in Tabs, NEW s \in SessionIds, BeginRefresh(c, s) PROVE Quiet
  BY <1>4 DEF BeginRefresh, Refreshable, Free, Quiet, NoRequest
<1>5. ASSUME NEW c \in Tabs, Logout(c) PROVE Emptied
  <2>1. \A s \in SessionIds : sessions'[s].refresh = sessions[s].refresh
                              /\ sessions'[s].torn = sessions[s].torn
    BY <1>5 DEF Logout, Session
  <2> QED BY <1>5, <2>1 DEF Logout, Emptied
<1>6. ASSUME NEW u, sessions' = RevokedOf(u), NEW s \in SessionIds
      PROVE  sessions'[s].refresh = sessions[s].refresh /\ sessions'[s].torn = sessions[s].torn
  BY <1>6 DEF RevokedOf, Session
<1>7. ASSUME NEW c \in Tabs, ChangePassword(c) PROVE Emptied
  BY <1>6, <1>7 DEF ChangePassword, Emptied
<1>8. ASSUME NEW c \in Tabs, NEW u \in Users, RevokeSessions(c, u) \/ Deactivate(c, u)
      PROVE  Quiet /\ request' = request
  BY <1>6, <1>8 DEF RevokeSessions, Deactivate, Quiet
<1>9. ASSUME NEW c \in Tabs, NEW u \in Users, NEW r \in Roles,
             create_user(c, u, r) \/ \E a \in BOOLEAN : Patch(c, u, a, r)
      PROVE  Quiet /\ request' = request
  BY <1>9 DEF create_user, Patch, Quiet
<1>10. ASSUME Pass \/ UNCHANGED authVars PROVE Quiet /\ request' = request
  BY <1>10 DEF Pass, authVars, Quiet
<1> QED
  BY <1>1, <1>2, <1>3, <1>4, <1>5, <1>7, <1>8, <1>9, <1>10
     DEF AuthNext, AuthStep, Away

\* A token is new when it is given out, and only its session has it.
LEMMA TokensKept ==
  AuthTypeOK /\ Unopened /\ TokensApart /\ [AuthNext]_authVars => TokensApart'
<1> SUFFICES ASSUME AuthTypeOK, Unopened, TokensApart, [AuthNext]_authVars
             PROVE  TokensApart'
  OBVIOUS
<1> USE AuthAssumption DEF AuthTypeOK
<1>1. ASSUME tokens' \in Nat, tokens' >= tokens,
             \A s \in SessionIds, t \in Nat : Holds(s, t)' => Holds(s, t),
             \A b \in Browsers : jar'[b].sid = NoSession => jar'[b].refresh = 0
      PROVE  TokensApart'
  BY <1>1 DEF TokensApart
<1>2. ASSUME tokens' = tokens + 1, NEW r \in SessionIds, jar' = jar,
             \A s \in SessionIds, t \in Nat : Holds(s, t)' =>
                Holds(s, t) \/ (s = r /\ t = tokens')
      PROVE  TokensApart'
  <2>1. \A s \in SessionIds : ~Holds(s, tokens') BY <1>2 DEF TokensApart
  <2>2. \A s, q \in SessionIds, t \in Nat \ {0} : Holds(s, t)' /\ Holds(q, t)' => s = q
    BY <1>2, <2>1 DEF TokensApart
  <2>3. \A s \in SessionIds, t \in Nat : Holds(s, t)' => t <= tokens'
    BY <1>2 DEF TokensApart
  <2> QED BY <1>2, <2>2, <2>3 DEF TokensApart
<1>3. CASE Quiet
  <2>1. \A s \in SessionIds, t \in Nat : Holds(s, t)' => Holds(s, t)
    BY <1>3 DEF Quiet, Holds
  <2> QED BY <1>1, <1>3, <2>1 DEF Quiet, TokensApart
<1>4. CASE Emptied
  <2>1. PICK b \in Browsers : jar' = [jar EXCEPT ![b] = Empty] BY <1>4 DEF Emptied
  <2>2. \A d \in Browsers : jar'[d] = jar[d] \/ (jar'[d].sid = NoSession /\ jar'[d].refresh = 0)
    BY <2>1 DEF Empty
  <2>3. \A s \in SessionIds, t \in Nat : Holds(s, t)' => Holds(s, t)
    BY <1>4, <2>2 DEF Emptied, Holds
  <2> QED BY <1>1, <1>4, <2>2, <2>3 DEF Emptied, TokensApart
<1>5. ASSUME NEW c \in Tabs, NEW r \in SessionIds, CompleteLogin(c, r) PROVE TokensApart'
  <2>1. \A s \in SessionIds : sessions'[s].refresh =
          IF s = r THEN tokens + 1 ELSE sessions[s].refresh
    BY <1>5 DEF CompleteLogin, Unused
  <2>2. request'[c].sid = r /\ request'[c].token = tokens + 1
        /\ \A d \in Tabs \ {c} : request'[d] = request[d]
    BY <1>5 DEF CompleteLogin, Answering, NoRequest
  <2>3. \A s \in SessionIds, t \in Nat : Holds(s, t)' => Holds(s, t) \/ (s = r /\ t = tokens')
    BY <1>5, <2>1, <2>2 DEF CompleteLogin, Holds
  <2> QED BY <1>2, <1>5, <2>3 DEF CompleteLogin
<1>6. ASSUME NEW c \in Tabs, CompleteRefresh(c) PROVE TokensApart'
  <2> DEFINE r == request[c].sid
  <2>0. r \in SessionIds BY <1>6 DEF CompleteRefresh, Request
  <2>1. \A s \in SessionIds : sessions'[s].refresh =
          IF s = r THEN tokens + 1 ELSE sessions[s].refresh
    <3>1. Rotated(sessions[r], tokens + 1, request[c].at).refresh = tokens + 1
      BY <2>0 DEF Rotated, Session
    <3> QED BY <1>6, <2>0, <3>1 DEF CompleteRefresh, Rotated, Session
  <2>2. request'[c].sid = r /\ request'[c].token = tokens + 1
        /\ \A d \in Tabs \ {c} : request'[d] = request[d]
    BY <1>6 DEF CompleteRefresh, Answering, NoRequest
  <2>3. \A s \in SessionIds, t \in Nat : Holds(s, t)' => Holds(s, t) \/ (s = r /\ t = tokens')
    BY <1>6, <2>1, <2>2 DEF CompleteRefresh, Holds
  <2> QED BY <1>2, <1>6, <2>0, <2>3 DEF CompleteRefresh
<1>7. ASSUME NEW c \in Tabs, set_auth_cookies(c) PROVE TokensApart'
  <2> DEFINE b == BrowserOf[c]
  <2>0. b \in Browsers BY AuthAssumption
  <2>1. /\ jar'[b].sid = request[c].sid /\ jar'[b].refresh = request[c].token
        /\ \A d \in Browsers \ {b} : jar'[d] = jar[d]
    BY <1>7, <2>0 DEF set_auth_cookies
  <2>2. \A d \in Tabs : request'[d] = request[d] \/ request'[d].kind # "answer"
    BY <1>7 DEF set_auth_cookies, Answered, NoRequest
  <2>3. \A s \in SessionIds, t \in Nat : Holds(s, t)' => Holds(s, t)
    BY <1>7, <2>0, <2>1, <2>2 DEF set_auth_cookies, Holds
  <2>4. request[c].sid # NoSession BY <1>7 DEF set_auth_cookies
  <2> QED BY <1>1, <1>7, <2>0, <2>1, <2>3, <2>4 DEF set_auth_cookies, TokensApart
<1>8. ASSUME NEW c \in Tabs, AnswerLost(c) PROVE TokensApart'
  <2>1. \A s \in SessionIds : sessions'[s].refresh = sessions[s].refresh
    BY <1>8 DEF AnswerLost, Session
  <2>2. \A d \in Tabs : request'[d] = request[d] \/ request'[d].kind # "answer"
    BY <1>8 DEF AnswerLost, Answered, NoRequest
  <2>3. \A s \in SessionIds, t \in Nat : Holds(s, t)' => Holds(s, t)
    BY <1>8, <2>1, <2>2 DEF AnswerLost, Holds
  <2> QED BY <1>1, <1>8, <2>3 DEF AnswerLost, TokensApart
<1> QED BY <1>3, <1>4, <1>5, <1>6, <1>7, <1>8, CookieSteps

\* A session stays with the browser that logged in.
LEMMA OneBrowserKept ==
  AuthTypeOK /\ Unopened /\ TokensApart /\ OneBrowser /\ [AuthNext]_authVars => OneBrowser'
<1> SUFFICES ASSUME AuthTypeOK, Unopened, TokensApart, OneBrowser, [AuthNext]_authVars
             PROVE  OneBrowser'
  OBVIOUS
<1> USE AuthAssumption DEF AuthTypeOK
<1>1. ASSUME \A s \in SessionIds, b \in Browsers : Uses(b, s)' => Uses(b, s)
      PROVE  OneBrowser'
  BY <1>1 DEF OneBrowser
<1>2. CASE Quiet /\ \A c \in Tabs : request'[c].sid \in {request[c].sid, NoSession}
  <2>1. \A s \in SessionIds, b \in Browsers : Uses(b, s)' => Uses(b, s)
    BY <1>2 DEF Quiet, Uses
  <2> QED BY <1>1, <2>1
<1>3. ASSUME NEW c \in Tabs, NEW r \in SessionIds, Quiet, BeginRefresh(c, r)
      PROVE  OneBrowser'
  <2>1. jar[BrowserOf[c]].sid = r BY <1>3, RefreshedByOwner DEF BeginRefresh
  <2>2. request'[c].sid = r /\ \A d \in Tabs \ {c} : request'[d] = request[d]
    BY <1>3 DEF BeginRefresh, NoRequest
  <2>3. \A s \in SessionIds, b \in Browsers : Uses(b, s)' => Uses(b, s)
    BY <1>3, <2>1, <2>2 DEF Quiet, Uses
  <2> QED BY <1>1, <2>3
<1>4. CASE Emptied
  <2>1. \A b \in Browsers : jar'[b] = jar[b] \/ jar'[b].sid = NoSession
    BY <1>4 DEF Emptied, Empty
  <2>2. \A s \in SessionIds, b \in Browsers : Uses(b, s)' => Uses(b, s)
    BY <1>4, <2>1 DEF Emptied, Uses
  <2> QED BY <1>1, <2>2
<1>5. ASSUME NEW c \in Tabs, NEW r \in SessionIds, CompleteLogin(c, r) PROVE OneBrowser'
  <2>1. sessions[r].user = Nobody /\ jar' = jar BY <1>5 DEF CompleteLogin
  <2>2. request'[c].sid = r /\ \A d \in Tabs \ {c} : request'[d] = request[d]
    BY <1>5 DEF CompleteLogin, Answering, NoRequest
  <2>3. \A b \in Browsers : ~Uses(b, r) BY <2>1 DEF Uses, Unopened
  <2>4. \A b \in Browsers : Uses(b, r)' => b = BrowserOf[c]
    BY <2>1, <2>2, <2>3 DEF Uses
  <2>5. \A s \in SessionIds \ {r}, b \in Browsers : Uses(b, s)' => Uses(b, s)
    BY <2>1, <2>2 DEF Uses
  <2> QED BY <2>4, <2>5 DEF OneBrowser
<1>6. ASSUME NEW c \in Tabs, CompleteRefresh(c) PROVE OneBrowser'
  <2>1. jar' = jar /\ \A d \in Tabs : request'[d].sid = request[d].sid
    BY <1>6 DEF CompleteRefresh, Answering, NoRequest
  <2>2. \A s \in SessionIds, b \in Browsers : Uses(b, s)' => Uses(b, s)
    BY <2>1 DEF Uses
  <2> QED BY <1>1, <2>2
<1>7. ASSUME NEW c \in Tabs, set_auth_cookies(c) PROVE OneBrowser'
  <2>1. \A d \in Tabs : request'[d].sid \in {request[d].sid, NoSession}
    BY <1>7 DEF set_auth_cookies, Answered, NoRequest
  <2>2. \A b \in Browsers : jar'[b].sid = jar[b].sid \/
          (b = BrowserOf[c] /\ jar'[b].sid = request[c].sid)
    BY <1>7 DEF set_auth_cookies
  <2>3. \A s \in SessionIds, b \in Browsers : Uses(b, s)' => Uses(b, s)
    BY <2>1, <2>2 DEF Uses
  <2> QED BY <1>1, <2>3
<1>8. ASSUME NEW c \in Tabs, AnswerLost(c) PROVE OneBrowser'
  <2>1. jar' = jar /\ \A d \in Tabs : request'[d].sid \in {request[d].sid, NoSession}
    BY <1>8 DEF AnswerLost, Answered, NoRequest
  <2>2. \A s \in SessionIds, b \in Browsers : Uses(b, s)' => Uses(b, s)
    BY <2>1 DEF Uses
  <2> QED BY <1>1, <2>2
<1> QED BY <1>2, <1>3, <1>4, <1>5, <1>6, <1>7, <1>8, CookieSteps

\* The newest token of a session that is not torn reaches its browser.
LEMMA CookieKept ==
  AuthTypeOK /\ Unopened /\ TokensApart /\ OneBrowser /\ CookieCurrent /\ [AuthNext]_authVars
    => CookieCurrent'
<1> SUFFICES ASSUME AuthTypeOK, Unopened, TokensApart, OneBrowser, CookieCurrent,
                    [AuthNext]_authVars, NEW s \in SessionIds, ~sessions'[s].torn
             PROVE  /\ \A c \in Tabs : request'[c].kind = "answer" /\ request'[c].sid = s
                         => request'[c].token = sessions'[s].refresh
                    /\ \A b \in Browsers : jar'[b].sid = s /\ ~OnItsWay(s)'
                         => jar'[b].refresh = sessions'[s].refresh
  BY DEF CookieCurrent
<1> USE AuthAssumption DEF AuthTypeOK
<1>1. CASE Quiet
  <2>1. OnItsWay(s)' <=> OnItsWay(s) BY <1>1 DEF Quiet, OnItsWay
  <2> QED BY <1>1, <2>1 DEF Quiet, CookieCurrent
<1>2. CASE Emptied
  <2>1. \A b \in Browsers : jar'[b] = jar[b] \/ jar'[b].sid # s
    BY <1>2 DEF Emptied, Empty
  <2>2. OnItsWay(s)' <=> OnItsWay(s) BY <1>2 DEF Emptied, OnItsWay
  <2> QED BY <1>2, <2>1, <2>2 DEF Emptied, CookieCurrent
<1>3. ASSUME NEW c \in Tabs, NEW r \in SessionIds, CompleteLogin(c, r)
      PROVE  /\ \A d \in Tabs : request'[d].kind = "answer" /\ request'[d].sid = s
                  => request'[d].token = sessions'[s].refresh
             /\ \A b \in Browsers : jar'[b].sid = s /\ ~OnItsWay(s)'
                  => jar'[b].refresh = sessions'[s].refresh
  <2>0. jar' = jar /\ sessions[r].user = Nobody BY <1>3 DEF CompleteLogin
  <2>1. /\ request'[c].kind = "answer" /\ request'[c].sid = r
        /\ request'[c].token = tokens + 1
        /\ \A d \in Tabs \ {c} : request'[d] = request[d]
        /\ request[c].kind = "login"
    BY <1>3 DEF CompleteLogin, Answering, NoRequest
  <2>2. CASE s = r
    <3>1. sessions'[s].refresh = tokens + 1 BY <1>3, <2>2 DEF CompleteLogin, Unused
    <3>2. \A d \in Tabs : request[d].sid # s BY <2>0, <2>2 DEF Unopened
    <3>3. \A b \in Browsers : jar[b].sid # s BY <2>0, <2>2 DEF Unopened
    <3> QED BY <2>0, <2>1, <3>1, <3>2, <3>3
  <2>3. CASE s # r
    <3>1. sessions'[s] = sessions[s] BY <1>3, <2>3 DEF CompleteLogin
    <3>2. OnItsWay(s) => OnItsWay(s)' BY <2>1 DEF OnItsWay
    <3> QED BY <2>0, <2>1, <2>3, <3>1, <3>2 DEF CookieCurrent
  <2> QED BY <2>2, <2>3
<1>4. ASSUME NEW c \in Tabs, CompleteRefresh(c)
      PROVE  /\ \A d \in Tabs : request'[d].kind = "answer" /\ request'[d].sid = s
                  => request'[d].token = sessions'[s].refresh
             /\ \A b \in Browsers : jar'[b].sid = s /\ ~OnItsWay(s)'
                  => jar'[b].refresh = sessions'[s].refresh
  <2> DEFINE r == request[c].sid
  <2>0. jar' = jar /\ r \in SessionIds BY <1>4 DEF CompleteRefresh, Request
  <2>1. /\ request'[c].kind = "answer" /\ request'[c].sid = r
        /\ request'[c].token = tokens + 1
        /\ \A d \in Tabs \ {c} : request'[d] = request[d]
        /\ request[c].kind = "refresh"
    BY <1>4 DEF CompleteRefresh, Answering, NoRequest
  <2>2. CASE s = r
    <3> DEFINE row == Rotated(sessions[r], tokens + 1, request[c].at)
    <3>1. sessions'[s] = [row EXCEPT !.torn = sessions[r].torn \/ Overlapped(c, r)]
      BY <1>4, <2>0, <2>2 DEF CompleteRefresh
    <3>2. sessions[r] \in Session BY <2>0
    <3>3. sessions'[s].refresh = tokens + 1 BY <3>1, <3>2 DEF Rotated, Session
    <3>4. sessions'[s].torn = (sessions[r].torn \/ Overlapped(c, r))
      BY <3>1, <3>2 DEF Rotated, Session
    <3>5. ~Overlapped(c, r) BY <3>4
    <3>6. \A d \in Tabs \ {c} : request[d].sid # s BY <2>2, <3>5 DEF Overlapped
    <3>7. OnItsWay(s)' BY <2>1, <2>2 DEF OnItsWay
    <3> QED BY <2>1, <3>3, <3>6, <3>7
  <2>3. CASE s # r
    <3>1. sessions'[s] = sessions[s] BY <1>4, <2>3 DEF CompleteRefresh
    <3>2. OnItsWay(s) => OnItsWay(s)' BY <2>1 DEF OnItsWay
    <3> QED BY <2>0, <2>1, <2>3, <3>1, <3>2 DEF CookieCurrent
  <2> QED BY <2>2, <2>3
<1>5. ASSUME NEW c \in Tabs, set_auth_cookies(c)
      PROVE  /\ \A d \in Tabs : request'[d].kind = "answer" /\ request'[d].sid = s
                  => request'[d].token = sessions'[s].refresh
             /\ \A b \in Browsers : jar'[b].sid = s /\ ~OnItsWay(s)'
                  => jar'[b].refresh = sessions'[s].refresh
  <2> DEFINE own == BrowserOf[c]
  <2>0. own \in Browsers /\ sessions' = sessions BY <1>5 DEF set_auth_cookies
  <2>1. /\ request[c].kind = "answer" /\ request'[c].kind # "answer"
        /\ \A d \in Tabs \ {c} : request'[d] = request[d]
    BY <1>5 DEF set_auth_cookies, Answered, NoRequest
  <2>2. /\ jar'[own].sid = request[c].sid /\ jar'[own].refresh = request[c].token
        /\ \A b \in Browsers \ {own} : jar'[b] = jar[b]
    BY <1>5, <2>0 DEF set_auth_cookies
  <2>3. \A d \in Tabs : request[d].kind = "answer" /\ request[d].sid = s
          => request[d].token = sessions[s].refresh
    BY <2>0 DEF CookieCurrent
  <2>4. CASE request[c].sid = s
    <3>1. \A b \in Browsers : jar[b].sid = s => b = own
      BY <2>0, <2>4 DEF OneBrowser, Uses
    <3>2. request[c].token = sessions[s].refresh BY <2>1, <2>3, <2>4
    <3>3. \A b \in Browsers : jar'[b].sid = s => jar'[b].refresh = sessions[s].refresh
      BY <2>2, <3>1, <3>2
    <3>4. \A d \in Tabs : request'[d].kind = "answer" /\ request'[d].sid = s
            => request'[d].token = sessions[s].refresh
      BY <2>1, <2>3
    <3> QED BY <2>0, <3>3, <3>4
  <2>5. CASE request[c].sid # s
    <3>1. OnItsWay(s) => OnItsWay(s)' BY <2>1, <2>5 DEF OnItsWay
    <3> QED BY <2>0, <2>1, <2>2, <2>5, <3>1 DEF CookieCurrent
  <2> QED BY <2>4, <2>5
<1>6. ASSUME NEW c \in Tabs, AnswerLost(c)
      PROVE  /\ \A d \in Tabs : request'[d].kind = "answer" /\ request'[d].sid = s
                  => request'[d].token = sessions'[s].refresh
             /\ \A b \in Browsers : jar'[b].sid = s /\ ~OnItsWay(s)'
                  => jar'[b].refresh = sessions'[s].refresh
  <2>1. request[c].sid # s
    BY <1>6 DEF AnswerLost, Session
  <2>2. sessions'[s] = sessions[s] /\ jar' = jar BY <1>6, <2>1 DEF AnswerLost
  <2>3. /\ request'[c].kind # "answer"
        /\ \A d \in Tabs \ {c} : request'[d] = request[d]
    BY <1>6 DEF AnswerLost, Answered, NoRequest
  <2>4. OnItsWay(s) => OnItsWay(s)' BY <2>1, <2>3 DEF OnItsWay
  <2> QED BY <2>2, <2>3, <2>4 DEF CookieCurrent
<1> QED BY <1>1, <1>2, <1>3, <1>4, <1>5, <1>6, CookieSteps

\* Sessions, accounts and cookies agree: no session outlives the change of its
\* account, and rotating a token locks no browser out, unless two refreshes of
\* the session overlapped or an answer was lost (auth.py, api/auth.py).
THEOREM SessionsAlwaysSound == AuthSpec => []SessionsSound
<1>1. AuthInit => TokensApart /\ OneBrowser /\ CookieCurrent
  <2> SUFFICES ASSUME AuthInit PROVE TokensApart /\ OneBrowser /\ CookieCurrent OBVIOUS
  <2>1. /\ \A s \in SessionIds : sessions[s].refresh = 0
        /\ \A b \in Browsers : jar[b].sid = NoSession /\ jar[b].refresh = 0
        /\ \A c \in Tabs : request[c].kind = "none" /\ request[c].sid = NoSession
        /\ tokens = 0
    BY DEF AuthInit, Unused, Empty, NoRequest
  <2>2. TokensApart BY <2>1, AuthAssumption DEF TokensApart, Holds
  <2>3. OneBrowser BY <2>1, AuthAssumption DEF OneBrowser, Uses
  <2>4. CookieCurrent BY <2>1, AuthAssumption DEF CookieCurrent
  <2> QED BY <2>2, <2>3, <2>4
<1>2. AuthTypeOK /\ CookieCurrent => CookieOpensSession
  BY AuthAssumption DEF AuthTypeOK, CookieCurrent, CookieOpensSession, OnItsWay, Jar
<1>3. AuthSpec => [](TokensApart /\ OneBrowser /\ CookieCurrent)
  BY <1>1, Openings, TokensKept, OneBrowserKept, CookieKept, PTL DEF AuthSpec
<1> QED
  BY <1>2, <1>3, Openings, SessionsEndWithAccount, PTL DEF SessionsSound

----------------------------------------------------------------------------
(***************************************************************************)
(* Daily bars.                                                             *)
(***************************************************************************)

----------------------------------------------------------------------------
(* The rate limiter.                                                       *)

InOrder(times) ==
    \A i, j \in 1..Len(times) : i <= j => times[i] <= times[j]

\* What the limiter remembers are the latest of the fetches that were begun; the
\* ones it has forgotten are a minute old.
Remembers(m) ==
    /\ events = SubSeq(starts, m + 1, Len(starts))
    /\ \A i \in 1..m : clock - starts[i] >= Minute

\* Of any PerSecond + 1 fetches in a row, the last began a second after the first.
Spaced(limit, window) ==
    \A i \in 1..Len(starts) :
        i + limit <= Len(starts) => starts[i + limit] - starts[i] >= window

LimiterInv ==
    /\ starts \in Seq(Nat) /\ InOrder(starts)
    /\ \A i \in 1..Len(starts) : starts[i] <= clock
    /\ \E m \in 0..Len(starts) : Remembers(m)
    /\ Spaced(PerSecond, Second) /\ Spaced(PerMinute, Minute)

\* A fetch has a slot, from the lock to the release.
SlotsInv ==
    /\ IsFiniteSet(Fetching)
    /\ active = Cardinality(Fetching) /\ active <= MaxConcurrency

\* The recursion behind Recent, over the sets of events it has seen.
Keep(kept, e, window) == IF clock - e < window THEN Append(kept, e) ELSE kept
RecentIter(window) ==
    CHOOSE iter : iter = [s \in SUBSET DOMAIN events |->
        IF s = {} THEN <<>> ELSE Keep(iter[s \ {Max(s)}], events[Max(s)], window)]

\* The filter of the limiter is the value of the recursion RecentIter chooses.
LEMMA RecentIsIter ==
    ASSUME NEW window
    PROVE  Recent(window) = RecentIter(window)[DOMAIN events]
  BY DEF Recent, FoldLeft, MapThenFoldSet, RecentIter, Keep

\* What the filter keeps of each prefix of the events.
LEMMA RecentPrefix ==
    ASSUME events \in Seq(Nat), clock \in Nat, NEW window
    PROVE  \E kept \in [0..Len(events) -> Seq(Nat)] :
             /\ kept[0] = <<>> /\ kept[Len(events)] = Recent(window)
             /\ \A i \in 1..Len(events) :
                  kept[i] = IF clock - events[i] < window
                            THEN Append(kept[i - 1], events[i]) ELSE kept[i - 1]
  <1> DEFINE n == Len(events)
             S == 1..n
             V == Seq(Nat)
             base == <<>>
             pick == [s \in SUBSET S |-> Max(s)]
             op == [p \in S \X V |-> Keep(p[2], events[p[1]], window)]
             step(iter) == [s \in SUBSET S |->
               IF s = {} THEN base ELSE Keep(iter[s \ {Max(s)}], events[Max(s)], window)]
  <1>1. n \in Nat /\ DOMAIN events = S /\ \A x \in S : events[x] \in Nat
    OBVIOUS
  <1>2. IsFiniteSet(S) /\ Picks(pick, S)
    <2> HIDE DEF n
    <2> QED BY <1>1, MaxPicks
  <1>3. base \in V
    OBVIOUS
  <1>4. \A x \in S, v \in V : Keep(v, events[x], window) \in V
    <2> HIDE DEF n
    <2> QED BY <1>1 DEF Keep
  <1>5. op \in [S \X V -> V]
    BY <1>4
  <1>6. PICK g \in [SUBSET S -> V] : Folds(g, S, base, pick, op)
    <2> HIDE DEF S, V, base, pick, op
    <2> QED BY <1>2, <1>3, <1>5, FoldExists
  <1>7. ASSUME NEW s \in SUBSET S
        PROVE  g[s] = step(g)[s]
    <2>1. CASE s = {}
      BY <2>1, <1>6 DEF Folds
    <2>2. CASE s # {}
      <3> DEFINE x == pick[s]
                 v == g[s \ {x}]
      <3>1. g[s] = op[<<x, v>>]
        BY <2>2, <1>6 DEF Folds
      <3>2. x = Max(s) /\ x \in S /\ v \in V
        BY <2>2, <1>2, <1>6 DEF Picks
      <3> HIDE DEF x, v, S, V
      <3>3. op[<<x, v>>] = Keep(v, events[x], window)
        BY <3>2
      <3> QED BY <2>2, <3>1, <3>2, <3>3 DEF x, v
    <2> QED BY <2>1, <2>2
  <1>8. g = step(g)
    BY <1>7
  <1> DEFINE I == RecentIter(window)
  <1>9. I = step(I)
    BY <1>1, <1>8 DEF RecentIter
  <1> DEFINE kept == [i \in 0..n |-> I[1..i]]
  <1>10. kept[0] = <<>> /\ kept[n] = Recent(window)
    <2>1. 1..0 = {} /\ I[{}] = <<>>
      BY <1>9
    <2> HIDE DEF I
    <2> QED BY <2>1, <1>1, RecentIsIter DEF I
  <1>11. \A i \in 1..n : kept[i] = Keep(kept[i - 1], events[i], window)
    <2> SUFFICES ASSUME NEW i \in 1..n PROVE kept[i] = Keep(kept[i - 1], events[i], window)
      OBVIOUS
    <2>1. Max(1..i) = i /\ (1..i) \ {i} = 1..(i - 1) /\ i - 1 \in 0..n
      BY <1>1, MaxPrefix
    <2>2. 1..i \in SUBSET S /\ 1..i # {}
      BY <1>1
    <2>3. I[1..i] = Keep(I[1..(i - 1)], events[i], window)
      <3>1. I[1..i] = step(I)[1..i]
        BY <1>9
      <3> HIDE DEF I, S
      <3> QED BY <3>1, <2>1, <2>2
    <2> HIDE DEF I
    <2> QED BY <2>1, <2>3
  <1> DEFINE T == {i \in 0..n : kept[i] \in V}
  <1>12. \A i \in 0..n : i \in T
    <2>1. 0 \in T
      <3>1. 0 \in 0..n /\ kept[0] \in V
        <4>1. kept[0] = base
          BY <1>10
        <4> HIDE DEF kept, V, base
        <4> QED BY <4>1, <1>1, <1>3
      <3> HIDE DEF kept, V
      <3> QED BY <3>1
    <2>2. \A i \in 1..n : i - 1 \in T => i \in T
      <3> SUFFICES ASSUME NEW i \in 1..n, i - 1 \in T PROVE i \in T
        OBVIOUS
      <3>1. kept[i] = Keep(kept[i - 1], events[i], window) /\ kept[i - 1] \in V
        BY <1>11
      <3>2. i \in 0..n /\ i \in S
        BY <1>1
      <3> HIDE DEF kept, V, S, n
      <3>3. kept[i] \in V
        BY <3>1, <3>2, <1>4
      <3> QED BY <3>2, <3>3
    <2> HIDE DEF T, n
    <2> QED BY <2>1, <2>2, <1>1, PrefixInduction
  <1>13. kept \in [0..n -> V]
    BY <1>12
  <1> HIDE DEF kept, I
  <1> QED BY <1>10, <1>11, <1>13 DEF Keep

\* Of events in order, the filter keeps the latest.
LEMMA RecentIsLatest ==
    ASSUME events \in Seq(Nat), InOrder(events), clock \in Nat, NEW window \in Nat
    PROVE  \E m \in 0..Len(events) :
             /\ Recent(window) = SubSeq(events, m + 1, Len(events))
             /\ \A i \in 1..m : clock - events[i] >= window
             /\ \A i \in (m + 1)..Len(events) : clock - events[i] < window
  <1> DEFINE n == Len(events)
  <1>0. n \in Nat /\ \A i \in 1..n : events[i] \in Nat
    OBVIOUS
  <1>1. PICK kept \in [0..n -> Seq(Nat)] :
             /\ kept[0] = <<>> /\ kept[n] = Recent(window)
             /\ \A i \in 1..n :
                  kept[i] = IF clock - events[i] < window
                            THEN Append(kept[i - 1], events[i]) ELSE kept[i - 1]
    BY RecentPrefix
  <1> DEFINE Cut(i, m) == /\ kept[i] = SubSeq(events, m + 1, i)
                          /\ \A j \in 1..m : clock - events[j] >= window
                          /\ \A j \in (m + 1)..i : clock - events[j] < window
             T == {i \in 0..n : \E m \in 0..i : Cut(i, m)}
  <1>2. 0 \in T
    <2>1. SubSeq(events, 1, 0) = <<>>
      OBVIOUS
    <2>2. Cut(0, 0)
      BY <2>1, <1>1
    <2>3. 0 \in 0..n /\ 0 \in 0..0
      BY <1>0
    <2> HIDE DEF Cut, n
    <2> QED BY <2>2, <2>3
  <1>3. ASSUME NEW i \in 1..n, i - 1 \in T
        PROVE  i \in T
    <2>1. PICK m \in 0..(i - 1) : Cut(i - 1, m)
      BY <1>3
    <2>2. i \in 0..n /\ i \in Nat /\ m \in Nat /\ events[i] \in Nat
      BY <1>0
    <2>3. CASE clock - events[i] < window
      <3>1. kept[i] = Append(SubSeq(events, m + 1, i - 1), events[i])
        BY <1>1, <2>1, <2>3
      <3>2. kept[i] = SubSeq(events, m + 1, i)
        BY <3>1, <2>2, <1>0
      <3>3. Cut(i, m)
        BY <2>1, <2>2, <2>3, <3>2
      <3> QED BY <2>2, <3>3
    <2>4. CASE ~(clock - events[i] < window)
      <3>1. m = i - 1
        <4>1. ASSUME m + 1 <= i - 1
              PROVE  FALSE
          <5>1. m + 1 \in 1..n /\ events[m + 1] <= events[i] /\ events[m + 1] \in Nat
            BY <4>1, <2>2, <1>0 DEF InOrder
          <5>2. clock - events[m + 1] < window
            BY <4>1, <2>1, <2>2
          <5> QED BY <5>1, <5>2, <2>2, <2>4
        <4> QED BY <4>1, <2>2
      <3>2. kept[i] = SubSeq(events, i, i - 1)
        BY <1>1, <2>1, <2>2, <2>4, <3>1
      <3>3. SubSeq(events, i, i - 1) = <<>> /\ SubSeq(events, i + 1, i) = <<>>
        BY <2>2, <1>0
      <3>4. \A j \in 1..i : clock - events[j] >= window
        BY <2>1, <2>2, <2>4, <3>1, <1>0
      <3>5. Cut(i, i)
        BY <3>2, <3>3, <3>4, <2>2
      <3>6. i \in 0..i
        BY <2>2
      <3> HIDE DEF Cut, n
      <3> QED BY <2>2, <3>5, <3>6
    <2> QED BY <2>3, <2>4
  <1>4. n \in T
    <2>1. n \in Nat
      BY <1>0
    <2>2. \A i \in 1..n : i - 1 \in T => i \in T
      BY <1>3
    <2>3. \A i \in 0..n : i \in T
      <3> HIDE DEF T, n
      <3> QED BY <2>1, <2>2, <1>2, PrefixInduction
    <2>4. n \in 0..n
      BY <2>1
    <2> HIDE DEF T, n
    <2> QED BY <2>3, <2>4
  <1> QED BY <1>1, <1>4

----------------------------------------------------------------------------
(* The answers.                                                            *)

Closed(day) == day < now.day \/ (day = now.day /\ now.closed)

\* Bars that may be returned when they were validated for the expected date.
Current(bars, expected) ==
    /\ Ascending(bars.dates) /\ Len(bars.dates) >= MinBars
    /\ Closed(LastDate(bars)) /\ LastDate(bars) <= expected
    /\ Lag(LastDate(bars), expected) <= MaxStale

\* What a thread that is in a call looks for, the date it fetches for, which is
\* no earlier, and what it is about to return.
CallerInv(c, delivered) ==
    /\ c.step # "idle" => c.expected \in TradingDays /\ Closed(c.expected)
    /\ c.step \in {"acquire", "fetching", "writing"} =>
          c.against \in TradingDays /\ Closed(c.against) /\ c.expected <= c.against
    /\ c.step = "writing" => Current(c.bars, c.against) /\ c.bars \in delivered

AnswerInv(a, delivered) ==
    /\ a.kind \in {"hit", "miss"} =>
          Current(a.bars, a.expected) /\ a.asked <= a.expected /\ a.bars \in delivered
    /\ a.bars # NoBars => a.bars \in delivered

AnswersInv ==
    /\ \A t \in Threads : CallerInv(caller[t], genuine) /\ AnswerInv(answer[t], genuine)
    /\ \A k \in Keys : files[k].there => files[k].checksum \in genuine

\* The types, but for the count of the limiter.
BarsTyped ==
    /\ clock \in Nat /\ now \in [day : Int, closed : BOOLEAN]
    /\ caller \in [Threads -> Caller] /\ answer \in [Threads -> Answers]
    /\ files \in [Keys -> File]
    /\ events \in Seq(Nat) /\ genuine \subseteq Bars
    /\ calls \in 0..MaxCalls /\ mishaps \in 0..MaxMishaps

BarsSound == BarsTyped /\ LimiterInv /\ SlotsInv /\ AnswersInv

----------------------------------------------------------------------------
(* The limiter keeps its limits.                                           *)

\* What the limiter remembers is in order.
LEMMA EventsInOrder ==
    ASSUME LimiterInv, clock \in Nat
    PROVE  events \in Seq(Nat) /\ InOrder(events)
  <1>0. starts \in Seq(Nat) /\ InOrder(starts)
    BY DEF LimiterInv
  <1>1. PICK m \in 0..Len(starts) : Remembers(m)
    BY DEF LimiterInv
  <1>2. /\ events = SubSeq(starts, m + 1, Len(starts)) /\ m \in Nat
        /\ Len(starts) \in Nat /\ m <= Len(starts)
    BY <1>0, <1>1 DEF Remembers
  <1>3. /\ events \in Seq(Nat) /\ Len(events) = Len(starts) - m
        /\ \A i \in 1..Len(events) : events[i] = starts[m + i]
    BY <1>0, <1>2
  <1> QED BY <1>0, <1>2, <1>3 DEF InOrder

\* How long a window makes wait; when it does not, it has room for one more.
LEMMA WaitInWindow ==
    ASSUME events \in Seq(Nat), InOrder(events), clock \in Nat,
           NEW window \in Nat, NEW limit \in Nat \ {0}
    PROVE  /\ WaitIn(window, limit) \in Nat
           /\ WaitIn(window, limit) <= 0 => Len(Recent(window)) < limit
  <1>1. PICK m \in 0..Len(events) :
             /\ Recent(window) = SubSeq(events, m + 1, Len(events))
             /\ \A i \in (m + 1)..Len(events) : clock - events[i] < window
    BY RecentIsLatest
  <1> DEFINE kept == Recent(window)
  <1>2. /\ Len(events) \in Nat /\ m \in Nat /\ m <= Len(events)
        /\ kept = SubSeq(events, m + 1, Len(events))
    BY <1>1
  <1> HIDE DEF kept
  <1>3. kept \in Seq(Nat) /\ Len(kept) = Len(events) - m
    BY <1>2
  <1>4. CASE Len(kept) >= limit
    <2>1. kept[1] = events[m + 1] /\ m + 1 \in (m + 1)..Len(events) /\ kept[1] \in Nat
      BY <1>2, <1>3, <1>4
    <2>2. clock - kept[1] < window
      BY <1>1, <2>1
    <2>3. WaitIn(window, limit) = window - (clock - kept[1])
      BY <1>4 DEF WaitIn, kept
    <2> QED BY <2>1, <2>2, <2>3
  <1>5. CASE ~(Len(kept) >= limit)
    BY <1>3, <1>5 DEF WaitIn, kept
  <1> QED BY <1>4, <1>5

\* Where a fetch does not wait, the fetch that is the limit before it is old.
LEMMA RoomForOneMore ==
    ASSUME LimiterInv, clock \in Nat, NEW window \in Nat, window <= Minute, Minute \in Nat,
           NEW limit \in Nat \ {0}, WaitIn(window, limit) <= 0,
           NEW i \in 1..Len(starts), i + limit = Len(starts) + 1
    PROVE  clock - starts[i] >= window
  <1>1. events \in Seq(Nat) /\ InOrder(events)
    BY EventsInOrder
  <1>2. PICK m \in 0..Len(starts) : Remembers(m)
    BY DEF LimiterInv
  <1>3. PICK a \in 0..Len(events) :
             /\ Recent(window) = SubSeq(events, a + 1, Len(events))
             /\ \A j \in 1..a : clock - events[j] >= window
    BY <1>1, RecentIsLatest
  <1>4. Len(Recent(window)) < limit
    BY <1>1, WaitInWindow
  <1>5. /\ starts \in Seq(Nat) /\ Len(starts) \in Nat /\ m \in Nat /\ m <= Len(starts)
        /\ Len(events) \in Nat /\ a \in Nat /\ a <= Len(events)
    BY <1>1, <1>2, <1>3 DEF LimiterInv
  <1>6. /\ Len(events) = Len(starts) - m
        /\ \A j \in 1..Len(events) : events[j] = starts[m + j]
    BY <1>2, <1>5 DEF Remembers
  <1>7. Len(Recent(window)) = Len(events) - a
    BY <1>1, <1>3, <1>5
  <1>8. i <= m + a /\ i \in Nat \ {0} /\ starts[i] \in Nat
    BY <1>4, <1>5, <1>6, <1>7
  <1>9. CASE i <= m
    BY <1>2, <1>5, <1>8, <1>9 DEF Remembers
  <1>10. CASE i > m
    <2> DEFINE j == i - m
    <2>1. j \in 1..a /\ j \in 1..Len(events) /\ m + j = i
      BY <1>5, <1>8, <1>10
    <2> HIDE DEF j
    <2> QED BY <2>1, <1>3, <1>6
  <1> QED BY <1>5, <1>8, <1>9, <1>10

\* Acquire forgets what is a minute old.
LEMMA ForgetsOld ==
    ASSUME LimiterInv, clock \in Nat, Minute \in Nat
    PROVE  \E m \in 0..Len(starts) :
             /\ Recent(Minute) = SubSeq(starts, m + 1, Len(starts))
             /\ \A i \in 1..m : clock - starts[i] >= Minute
  <1>1. events \in Seq(Nat) /\ InOrder(events)
    BY EventsInOrder
  <1>2. PICK m \in 0..Len(starts) : Remembers(m)
    BY DEF LimiterInv
  <1>3. PICK a \in 0..Len(events) :
             /\ Recent(Minute) = SubSeq(events, a + 1, Len(events))
             /\ \A j \in 1..a : clock - events[j] >= Minute
    BY <1>1, RecentIsLatest
  <1>4. /\ starts \in Seq(Nat) /\ Len(starts) \in Nat /\ m \in Nat /\ m <= Len(starts)
        /\ Len(events) \in Nat /\ a \in Nat /\ a <= Len(events)
    BY <1>1, <1>2, <1>3 DEF LimiterInv
  <1>5. /\ events = SubSeq(starts, m + 1, Len(starts))
        /\ Len(events) = Len(starts) - m
        /\ \A j \in 1..Len(events) : events[j] = starts[m + j]
    BY <1>2, <1>4 DEF Remembers
  <1>6. Recent(Minute) = SubSeq(starts, m + a + 1, Len(starts))
    <2> DEFINE left == SubSeq(starts, m + a + 1, Len(starts))
               kept == SubSeq(events, a + 1, Len(events))
    <2>1. /\ kept \in Seq(Nat) /\ Len(kept) = Len(events) - a
          /\ \A j \in 1..Len(kept) : kept[j] = events[a + j]
      BY <1>1, <1>4
    <2>2. /\ left \in Seq(Nat) /\ Len(left) = Len(starts) - (m + a)
          /\ \A j \in 1..Len(left) : left[j] = starts[m + a + j]
      <3>1. m + a \in Nat /\ m + a <= Len(starts)
        BY <1>4, <1>5
      <3> QED BY <1>4, <3>1, SMTT(30)
    <2> HIDE DEF kept, left
    <2>3. Len(kept) = Len(left) /\ Len(kept) \in Nat
      BY <2>1, <2>2, <1>4, <1>5
    <2>4. ASSUME NEW j \in 1..Len(kept)
          PROVE  kept[j] = left[j]
      <3>1. a + j \in 1..Len(events) /\ m + (a + j) = m + a + j
        BY <2>1, <2>3, <1>4
      <3>2. events[a + j] = starts[m + (a + j)]
        BY <3>1, <1>5
      <3> QED BY <3>1, <3>2, <2>1, <2>2, <2>3
    <2>5. kept = left
      BY <2>1, <2>2, <2>3, <2>4, SeqEqual
    <2> QED BY <2>5, <1>3 DEF kept, left
  <1>7. \A i \in 1..(m + a) : clock - starts[i] >= Minute
    <2> SUFFICES ASSUME NEW i \in 1..(m + a) PROVE clock - starts[i] >= Minute
      OBVIOUS
    <2>1. CASE i <= m
      BY <1>2, <1>4, <2>1 DEF Remembers
    <2>2. CASE i > m
      <3> DEFINE j == i - m
      <3>1. j \in 1..a /\ j \in 1..Len(events) /\ m + j = i
        BY <1>4, <2>2
      <3> HIDE DEF j
      <3> QED BY <3>1, <1>3, <1>5
    <2> QED BY <1>4, <2>1, <2>2
  <1>8. m + a \in 0..Len(starts)
    BY <1>4, <1>5
  <1> QED BY <1>6, <1>7, <1>8

\* One more fetch keeps the distance, where it is far enough from the last ones.
LEMMA SpacedMore ==
    ASSUME starts \in Seq(Nat), clock \in Nat, NEW limit \in Nat \ {0}, NEW window \in Nat,
           Spaced(limit, window), starts' = Append(starts, clock),
           \A i \in 1..Len(starts) : i + limit = Len(starts) + 1 => clock - starts[i] >= window
    PROVE  Spaced(limit, window)'
  <1>1. /\ Len(starts) \in Nat /\ Len(starts') = Len(starts) + 1
        /\ starts'[Len(starts) + 1] = clock
        /\ \A i \in 1..Len(starts) : starts'[i] = starts[i]
    OBVIOUS
  <1> SUFFICES ASSUME NEW i \in 1..Len(starts'), i + limit <= Len(starts')
               PROVE  starts'[i + limit] - starts'[i] >= window
    BY DEF Spaced
  <1>2. i \in 1..Len(starts)
    BY <1>1
  <1>3. CASE i + limit = Len(starts) + 1
    BY <1>1, <1>2, <1>3
  <1>4. CASE i + limit <= Len(starts)
    <2>1. i + limit \in 1..Len(starts)
      BY <1>1, <1>2, <1>4
    <2> QED BY <1>1, <1>2, <1>4, <2>1 DEF Spaced
  <1>5. i \in Nat /\ i + limit <= Len(starts) + 1
    BY <1>1, <1>2
  <1> QED BY <1>1, <1>3, <1>4, <1>5

\* A fetch that need not wait.
LEMMA FetchBegins ==
    ASSUME LimiterInv, clock \in Nat, WaitFor <= 0, clock' = clock,
           starts' = Append(starts, clock), events' = Append(Recent(Minute), clock)
    PROVE  LimiterInv'
  <1> USE DailyBarsAssumption
  <1>1. events \in Seq(Nat) /\ InOrder(events) /\ starts \in Seq(Nat) /\ Len(starts) \in Nat
    BY EventsInOrder DEF LimiterInv
  <1>2. WaitIn(Second, PerSecond) <= 0 /\ WaitIn(Minute, PerMinute) <= 0
    <2>1. WaitIn(Second, PerSecond) \in Nat /\ WaitIn(Minute, PerMinute) \in Nat
      BY <1>1, WaitInWindow
    <2> QED BY <2>1 DEF WaitFor
  <1>3. Spaced(PerSecond, Second)' /\ Spaced(PerMinute, Minute)'
    <2>1. \A i \in 1..Len(starts) : i + PerSecond = Len(starts) + 1
            => clock - starts[i] >= Second
      BY <1>2, RoomForOneMore
    <2>2. \A i \in 1..Len(starts) : i + PerMinute = Len(starts) + 1
            => clock - starts[i] >= Minute
      BY <1>2, RoomForOneMore
    <2> QED BY <1>1, <2>1, <2>2, SpacedMore DEF LimiterInv
  <1>4. /\ starts' \in Seq(Nat) /\ Len(starts') = Len(starts) + 1
        /\ starts'[Len(starts) + 1] = clock
        /\ \A i \in 1..Len(starts) : starts'[i] = starts[i]
    BY <1>1
  <1>5. \A i \in 1..Len(starts') : starts'[i] <= clock
    BY <1>4, <1>1 DEF LimiterInv
  <1>6. InOrder(starts')
    BY <1>1, <1>4, <1>5 DEF InOrder, LimiterInv
  <1>7. \E m \in 0..Len(starts') : Remembers(m)'
    <2>1. PICK m \in 0..Len(starts) :
             /\ Recent(Minute) = SubSeq(starts, m + 1, Len(starts))
             /\ \A i \in 1..m : clock - starts[i] >= Minute
      BY ForgetsOld
    <2>2. m \in Nat /\ m <= Len(starts) /\ m \in 0..Len(starts')
      BY <1>1, <1>4, <2>1
    <2>3. events' = SubSeq(starts', m + 1, Len(starts'))
      <3> DEFINE kept == SubSeq(starts, m + 1, Len(starts))
                 left == SubSeq(starts', m + 1, Len(starts'))
      <3>1. /\ kept \in Seq(Nat) /\ Len(kept) = Len(starts) - m
            /\ \A j \in 1..Len(kept) : kept[j] = starts[m + j]
        BY <1>1, <2>2
      <3>2. /\ left \in Seq(Nat) /\ Len(left) = Len(starts) + 1 - m
            /\ \A j \in 1..Len(left) : left[j] = starts'[m + j]
        <4> DEFINE s == starts'
        <4>1. /\ s \in Seq(Nat) /\ Len(s) \in Nat /\ m \in Nat /\ m <= Len(s)
              /\ Len(s) = Len(starts) + 1
          BY <1>1, <1>4, <2>2
        <4> HIDE DEF s
        <4>2. /\ SubSeq(s, m + 1, Len(s)) \in Seq(Nat)
              /\ Len(SubSeq(s, m + 1, Len(s))) = Len(s) - m
              /\ \A j \in 1..Len(SubSeq(s, m + 1, Len(s))) :
                   SubSeq(s, m + 1, Len(s))[j] = s[m + j]
          <5> DEFINE n == Len(s)
          <5>1. \A i \in (m + 1)..n : s[i] \in Nat
            BY <4>1
          <5>2. n \in Int /\ m + 1 \in Int /\ (m + 1 <= n \/ n = m)
            BY <4>1
          <5> HIDE DEF n
          <5>3. /\ SubSeq(s, m + 1, n) \in Seq(Nat)
                /\ Len(SubSeq(s, m + 1, n)) = IF m + 1 <= n THEN n - (m + 1) + 1 ELSE 0
                /\ \A i \in 1..(n - (m + 1) + 1) : SubSeq(s, m + 1, n)[i] = s[m + 1 + i - 1]
            BY <5>1, <5>2, SubSeqProperties
          <5>4. Len(SubSeq(s, m + 1, n)) = n - m
            BY <5>2, <5>3, <4>1
          <5>5. \A i \in 1..Len(SubSeq(s, m + 1, n)) : SubSeq(s, m + 1, n)[i] = s[m + i]
            <6> SUFFICES ASSUME NEW i \in 1..Len(SubSeq(s, m + 1, n))
                         PROVE  SubSeq(s, m + 1, n)[i] = s[m + i]
              OBVIOUS
            <6>1. i \in 1..(n - (m + 1) + 1) /\ m + 1 + i - 1 = m + i
              BY <5>2, <5>4, <4>1
            <6> QED BY <6>1, <5>3
          <5> QED BY <5>3, <5>4, <5>5 DEF n
        <4> QED BY <4>1, <4>2 DEF s
      <3>3. events' = Append(kept, clock)
        BY <2>1
      <3> HIDE DEF kept, left
      <3>4. events' \in Seq(Nat) /\ Len(events') = Len(left) /\ Len(left) \in Nat
        BY <1>1, <2>2, <3>1, <3>2, <3>3
      <3>5. ASSUME NEW j \in 1..Len(events')
            PROVE  events'[j] = left[j]
        <4>1. CASE j \in 1..Len(kept)
          <5>1. events'[j] = kept[j]
            BY <4>1, <3>1, <3>3
          <5>2. kept[j] = starts[m + j] /\ m + j \in 1..Len(starts)
            BY <4>1, <1>1, <2>2, <3>1
          <5> QED BY <5>1, <5>2, <1>4, <3>2, <3>4
        <4>2. CASE j = Len(kept) + 1
          <5>1. events'[j] = clock /\ m + j = Len(starts) + 1
            BY <4>2, <1>1, <2>2, <3>1, <3>3
          <5> QED BY <5>1, <1>4, <3>2, <3>4
        <4>3. Len(kept) \in Nat /\ Len(events') = Len(kept) + 1
          BY <1>1, <2>2, <3>1, <3>2, <3>4
        <4> QED BY <4>1, <4>2, <4>3
      <3>6. events' = left
        BY <3>2, <3>4, <3>5, SeqEqual
      <3> QED BY <3>6 DEF left
    <2>4. \A i \in 1..m : clock' - starts'[i] >= Minute
      BY <1>1, <1>4, <2>1, <2>2
    <2>5. Remembers(m)'
      BY <2>3, <2>4 DEF Remembers
    <2> QED BY <2>2, <2>5
  <1> QED BY <1>3, <1>4, <1>5, <1>6, <1>7 DEF LimiterInv

\* No step makes the limiter forget a start within the minute, or grants one too soon.
LEMMA LimiterStep ==
    ASSUME BarsSound, [BarsNext]_barsVars
    PROVE  LimiterInv'
  <1> USE DailyBarsAssumption
  <1>0. LimiterInv /\ clock \in Nat /\ starts \in Seq(Nat) /\ Len(starts) \in Nat
    BY DEF BarsSound, BarsTyped, LimiterInv
  <1>1. ASSUME UNCHANGED <<clock, events, starts>>
        PROVE  LimiterInv'
    BY <1>0, <1>1 DEF LimiterInv, Remembers, Spaced
  <1>2. CASE Tock
    <2>1. /\ starts' = starts /\ events' = events /\ clock' = clock + 1
          /\ \A i \in 1..Len(starts) : starts[i] \in Nat
      BY <1>0, <1>2 DEF Tock
    <2>2. \A m \in 0..Len(starts) : Remembers(m) => Remembers(m)'
      BY <1>0, <2>1 DEF Remembers
    <2> QED BY <1>0, <2>1, <2>2 DEF LimiterInv, Spaced
  <1>3. CASE Restart
    <2>1. starts' = <<>> /\ events' = <<>> /\ Len(starts') = 0 /\ starts' \in Seq(Nat)
      BY <1>3 DEF Restart
    <2>2. Remembers(0)'
      BY <2>1 DEF Remembers
    <2> QED BY <2>1, <2>2 DEF LimiterInv, InOrder, Spaced
  <1>4. ASSUME NEW t \in Threads, Acquire(t)
        PROVE  LimiterInv'
    <2>1. CASE ~AtLimit /\ WaitFor <= 0
      <3>1. WaitIn(Second, PerSecond) \in Nat /\ WaitIn(Minute, PerMinute) \in Nat
        BY <1>0, EventsInOrder, WaitInWindow
      <3>2. WaitFor = 0 /\ ~(WaitFor > 0)
        BY <2>1, <3>1 DEF WaitFor
      <3> QED BY <1>0, <1>4, <2>1, <3>2, FetchBegins DEF Acquire
    <2>2. CASE ~(~AtLimit /\ WaitFor <= 0)
      <3>1. WaitIn(Second, PerSecond) \in Nat /\ WaitIn(Minute, PerMinute) \in Nat
        BY <1>0, EventsInOrder, WaitInWindow
      <3>2. AtLimit \/ (WaitFor > 0 /\ WaitFor # 0)
        BY <2>2, <3>1 DEF WaitFor
      <3>3. starts' = starts /\ clock' = clock /\ events' = Recent(Minute)
        BY <1>4, <3>2 DEF Acquire
      <3>4. PICK m \in 0..Len(starts) :
               /\ Recent(Minute) = SubSeq(starts, m + 1, Len(starts))
               /\ \A i \in 1..m : clock - starts[i] >= Minute
        BY <1>0, ForgetsOld
      <3>5. Remembers(m)'
        BY <3>3, <3>4 DEF Remembers
      <3> QED BY <1>0, <3>3, <3>5 DEF LimiterInv, Spaced
    <2> QED BY <2>1, <2>2
  <1>5. \/ UNCHANGED <<clock, events, starts>> \/ Tock \/ Restart
        \/ \E t \in Threads : Acquire(t)
    BY DEF BarsNext, BarsStep, Working, GotBars, FetchFails, FetchRaises, WriteCache,
           LookUp, BeginFetch, FetchDailyHistory, DayPasses, Tamper, Unasked, barsVars
  <1> QED BY <1>1, <1>2, <1>3, <1>4, <1>5

----------------------------------------------------------------------------
(* Slots of the limiter.                                                   *)

\* A thread is fetching from the moment it has its slot until it gives it back.
LEMMA SlotsStep ==
    ASSUME BarsSound, [BarsNext]_barsVars
    PROVE  SlotsInv'
  <1> USE DailyBarsAssumption
  <1>0. /\ caller \in [Threads -> Caller] /\ IsFiniteSet(Fetching)
        /\ active = Cardinality(Fetching) /\ active <= MaxConcurrency /\ active \in Nat
    BY FS_CardinalityType DEF BarsSound, BarsTyped, SlotsInv
  <1>1. ASSUME Fetching' = Fetching, active' = active
        PROVE  SlotsInv'
    BY <1>0, <1>1 DEF SlotsInv
  <1>2. ASSUME NEW t \in Fetching, Fetching' = Fetching \ {t}, active' = Release(TRUE)
        PROVE  SlotsInv'
    <2>1. IsFiniteSet(Fetching \ {t}) /\ Cardinality(Fetching \ {t}) = active - 1
      BY <1>0, <1>2, FS_RemoveElement
    <2>2. active > 0
      BY <1>0, <2>1, FS_CardinalityType
    <2> QED BY <1>0, <1>2, <2>1, <2>2 DEF SlotsInv, Release
  <1>3. ASSUME NEW t \in Threads \ Fetching, Fetching' = Fetching \cup {t},
               active' = active + 1, active < MaxConcurrency
        PROVE  SlotsInv'
    <2>1. /\ IsFiniteSet(Fetching \cup {t})
          /\ Cardinality(Fetching \cup {t}) = active + 1
      BY <1>0, <1>3, FS_AddElement
    <2> QED BY <1>0, <1>3, <2>1 DEF SlotsInv
  <1>4. ASSUME NEW t \in Threads, NEW c, caller' = [caller EXCEPT ![t] = c]
        PROVE  /\ c.step = "fetching" => Fetching' = Fetching \cup {t}
               /\ c.step # "fetching" => Fetching' = Fetching \ {t}
    BY <1>0, <1>4 DEF Fetching
  <1>5. ASSUME NEW t \in Threads \ Fetching, NEW c, caller' = [caller EXCEPT ![t] = c],
               c.step # "fetching", active' = active
        PROVE  SlotsInv'
    <2>1. Fetching' = Fetching
      <3>1. Fetching' = Fetching \ {t}
        BY <1>4, <1>5
      <3>2. Fetching \ {t} = Fetching
        BY <1>5
      <3> QED BY <3>1, <3>2
    <2> QED BY <2>1, <1>1, <1>5
  <1>6. AtRest.step = "idle"
    BY DEF AtRest
  <1>7. ASSUME NEW t \in Threads, NEW s \in Symbols, FetchDailyHistory(t, s)
        PROVE  SlotsInv'
    <2>1. \E c : caller' = [caller EXCEPT ![t] = c] /\ c.step # "fetching"
      <3>1. CASE caller' = [caller EXCEPT ![t] = AtRest]
        BY <1>6, <3>1
      <3>2. CASE caller' # [caller EXCEPT ![t] = AtRest]
        <4> DEFINE d == ExpectedDate(now)
        <4>1. caller' = [caller EXCEPT ![t] = [AtRest EXCEPT
                           !.step = "lookup", !.symbol = s, !.expected = d]]
          BY <1>7, <3>2 DEF FetchDailyHistory, Returned
        <4> HIDE DEF d
        <4>2. [AtRest EXCEPT !.step = "lookup", !.symbol = s, !.expected = d].step = "lookup"
          BY DEF AtRest
        <4> QED BY <4>1, <4>2
      <3> QED BY <3>1, <3>2
    <2>2. t \notin Fetching /\ active' = active
      BY <1>7 DEF Fetching, FetchDailyHistory
    <2> QED BY <1>5, <2>1, <2>2
  <1>8. ASSUME NEW t \in Threads, Acquire(t)
        PROVE  SlotsInv'
    <2>1. t \notin Fetching /\ caller[t] \in Caller
      BY <1>0, <1>8 DEF Fetching, Acquire
    <2>2. CASE AtLimit
      <3>1. caller' = [caller EXCEPT ![t] = AtRest] /\ active' = active
        BY <1>8, <2>2 DEF Acquire, Returned
      <3> QED BY <1>5, <1>6, <2>1, <3>1
    <2>3. CASE ~AtLimit /\ WaitFor > 0
      <3> DEFINE until == clock + WaitFor
      <3>1. caller' = [caller EXCEPT ![t].until = until] /\ active' = active
        BY <1>8, <2>3 DEF Acquire
      <3> HIDE DEF until
      <3>2. Fetching' = Fetching
        BY <1>0, <3>1 DEF Fetching, Caller
      <3> QED BY <1>1, <3>1, <3>2
    <2>4. CASE ~AtLimit /\ ~(WaitFor > 0)
      <3>1. caller' = [caller EXCEPT ![t].step = "fetching"] /\ active' = active + 1
        BY <1>8, <2>4 DEF Acquire
      <3>2. Fetching' = Fetching \cup {t}
        BY <1>0, <3>1 DEF Fetching, Caller
      <3>3. active < MaxConcurrency
        BY <1>0, <2>4 DEF AtLimit
      <3> QED BY <1>3, <2>1, <3>1, <3>2, <3>3
    <2> QED BY <2>2, <2>3, <2>4
  <1>9. ASSUME NEW t \in Threads, NEW raw \in Fetched, GotBars(t, raw)
        PROVE  SlotsInv'
    <2>1. t \in Fetching /\ active' = Release(TRUE)
      BY <1>9 DEF Fetching, GotBars, Release
    <2>2. Fetching' = Fetching \ {t}
      <3> DEFINE got == Output(raw)
      <3>1. \/ caller' = [caller EXCEPT ![t] = AtRest]
            \/ caller' = [caller EXCEPT ![t].step = "writing", ![t].bars = got]
        BY <1>9 DEF GotBars, Returned
      <3> HIDE DEF got
      <3>2. CASE caller' = [caller EXCEPT ![t].step = "writing", ![t].bars = got]
        BY <1>0, <3>2 DEF Fetching, Caller
      <3> QED BY <1>4, <1>6, <3>1, <3>2
    <2> QED BY <1>2, <2>1, <2>2
  <1>10. ASSUME NEW t \in Threads, FetchFails(t) \/ FetchRaises(t)
        PROVE  SlotsInv'
    <2>1. t \in Fetching /\ active' = Release(TRUE)
      BY <1>10 DEF Fetching, FetchFails, FetchRaises
    <2>2. Fetching' = Fetching \ {t}
      <3> DEFINE until == clock + WaitBefore(caller[t].attempt)
                 attempt == AttemptAfter(caller[t].attempt)
      <3>1. \/ caller' = [caller EXCEPT ![t] = AtRest]
            \/ caller' = [caller EXCEPT ![t].step = "acquire", ![t].attempt = attempt,
                                        ![t].until = until]
        BY <1>10 DEF FetchFails, FetchRaises, Returned
      <3> HIDE DEF until, attempt
      <3>2. CASE caller' = [caller EXCEPT ![t].step = "acquire", ![t].attempt = attempt,
                                          ![t].until = until]
        BY <1>0, <3>2 DEF Fetching, Caller
      <3> QED BY <1>4, <1>6, <3>1, <3>2
    <2> QED BY <1>2, <2>1, <2>2
  <1>11. ASSUME NEW t \in Threads, WriteCache(t)
         PROVE  SlotsInv'
    <2>1. t \notin Fetching /\ active' = active
      BY <1>11 DEF Fetching, WriteCache
    <2>2. caller' = [caller EXCEPT ![t] = AtRest]
      BY <1>11 DEF WriteCache, Returned
    <2> QED BY <1>5, <1>6, <2>1, <2>2
  <1>12. CASE Restart
    <2>1. Fetching' = {} /\ active' = 0
      BY <1>6, <1>12 DEF Restart, Fetching
    <2> QED BY <2>1, FS_EmptySet DEF SlotsInv
  <1>13. ASSUME UNCHANGED <<caller, active>>
         PROVE  SlotsInv'
    BY <1>1, <1>13 DEF Fetching
  <1>14. Tock \/ DayPasses \/ (\E k \in Keys : Tamper(k)) \/ UNCHANGED barsVars
           => UNCHANGED <<caller, active>>
    BY DEF Tock, DayPasses, Tamper, barsVars
  <1>15. ASSUME NEW t \in Threads, LookUp(t) \/ BeginFetch(t)
         PROVE  SlotsInv'
    <2>1. t \notin Fetching /\ active' = active
      BY <1>15 DEF Fetching, LookUp, BeginFetch
    <2>2. Fetching' = Fetching
      <3> DEFINE date == ExpectedDate(now)
      <3>1. \/ caller' = [caller EXCEPT ![t] = AtRest]
            \/ caller' = [caller EXCEPT ![t].step = "begin"]
            \/ caller' = [caller EXCEPT ![t].step = "acquire", ![t].against = date]
        BY <1>15 DEF LookUp, BeginFetch, Returned
      <3> HIDE DEF date
      <3> QED BY <1>0, <1>6, <2>1, <3>1 DEF Fetching, Caller
    <2> QED BY <1>1, <2>1, <2>2
  <1> QED
    BY <1>7, <1>8, <1>9, <1>10, <1>11, <1>12, <1>13, <1>14, <1>15
       DEF BarsNext, BarsStep, Working, Unasked

----------------------------------------------------------------------------
(* Types.                                                                  *)

\* A power of two is the number of subsets of an interval.
LEMMA PowerOfTwo == ASSUME NEW k \in Nat PROVE 2 ^ k \in Nat
  <1>1. IsFiniteSet(1..k) /\ Cardinality(1..k) = k
    BY FS_Interval
  <1>2. IsFiniteSet(SUBSET (1..k)) /\ Cardinality(SUBSET (1..k)) = 2 ^ k
    BY <1>1, FS_SUBSET
  <1> QED BY <1>2, FS_CardinalityType

\* A wait between two attempts is a natural number, however often it was doubled.
LEMMA WaitType ==
    ASSUME NEW attempt \in Nat \ {0}
    PROVE  WaitBefore(attempt) \in Nat
  <1> DEFINE factor == 2 ^ (attempt - 1)
             wait == Backoff * factor
  <1>1. factor \in Nat
    BY PowerOfTwo
  <1> HIDE DEF factor
  <1>2. wait \in Nat
    BY <1>1, DailyBarsAssumption
  <1>3. WaitBefore(attempt) = IF wait <= MaxBackoff THEN wait ELSE MaxBackoff
    BY DEF WaitBefore, factor
  <1> HIDE DEF wait
  <1> QED BY <1>2, <1>3, DailyBarsAssumption

\* The answers and the files that hold no bars are well typed.
LEMMA RestTypes ==
    /\ AtRest \in Caller /\ NoAnswer \in Answers /\ NoFile \in File
    /\ Failed \in Answers
  <1>1. AtRest.symbol \in Symbols
    BY DailyBarsAssumption DEF AtRest
  <1>2. AtRest \in Caller
    BY <1>1 DEF AtRest, Caller, FetchSteps
  <1> QED BY <1>2 DEF NoAnswer, Answers, NoFile, File, Failed

\* The expected date is the last trading day that has closed.
LEMMA ExpectedIsLast ==
    ASSUME now \in [day : Int, closed : BOOLEAN], ExpectedDate(now) # NoDay
    PROVE  /\ ExpectedDate(now) \in TradingDays /\ Closed(ExpectedDate(now))
           /\ \A e \in TradingDays : Closed(e) => e <= ExpectedDate(now)
  <1> USE DailyBarsAssumption
  <1>1. TradingDays \subseteq Int /\ IsFiniteSet(TradingDays) /\ now.day \in Int
    <2>1. IsFiniteSet(FirstDay..LastDay)
      BY FS_Interval
    <2>2. IsFiniteSet(TradingDays)
      BY <2>1, FS_Subset
    <2> QED BY <2>2
  <1>2. CASE now.day \in TradingDays /\ now.closed
    BY <1>1, <1>2 DEF ExpectedDate, Closed
  <1>3. CASE ~(now.day \in TradingDays /\ now.closed)
    <2> DEFINE before == DayBefore(now.day)
               last == CHOOSE d \in before : \A e \in before : e <= d
    <2>1. ExpectedDate(now) = last /\ before # {}
      BY <1>3 DEF ExpectedDate, previous_trading_day
    <2>2. IsFiniteSet(before) /\ before \subseteq Int
      BY <1>1, FS_Subset DEF DayBefore
    <2>3. \E d \in before : \A e \in before : e <= d
      <3> HIDE DEF before
      <3>1. Max(before) \in before /\ \A y \in before : Max(before) >= y
        BY <2>1, <2>2, MaxIn
      <3> QED BY <2>2, <3>1
    <2>4. last \in before /\ \A e \in before : e <= last
      <3> HIDE DEF before
      <3> QED BY <2>3
    <2>5. \A e \in TradingDays : Closed(e) <=> e \in before
      BY <1>1, <1>3 DEF Closed, DayBefore
    <2>6. before \subseteq TradingDays
      BY DEF DayBefore
    <2> HIDE DEF before, last
    <2> QED BY <2>1, <2>4, <2>5, <2>6
  <1> QED BY <1>2, <1>3

\* Bars, and what the provider cuts to the lookback.
Histories == [dates : Seq(Int), sound : BOOLEAN]

\* What the provider returns of a history is a history.
LEMMA OutputTypes ==
    ASSUME NEW b \in Fetched
    PROVE  Output(b) \in Histories /\ Output(b) \in Bars
  <1>1. b \in Histories /\ Lookback \in Nat \ {0}
    BY DailyBarsAssumption DEF Histories
  <1> DEFINE n == Len(b.dates)
             cut == SubSeq(b.dates, n - Lookback + 1, n)
  <1>2. n \in Nat
    BY <1>1 DEF Histories
  <1>3. CASE n <= Lookback
    BY <1>1, <1>3 DEF Output, Histories, Bars
  <1>4. CASE ~(n <= Lookback)
    <2>1. cut \in Seq(Int)
      <3>1. \A i \in (n - Lookback + 1)..n : b.dates[i] \in Int
        BY <1>1, <1>2, <1>4 DEF Histories
      <3>2. n \in Int /\ n - Lookback + 1 \in Int
        BY <1>1, <1>2
      <3> HIDE DEF n
      <3> QED BY <3>1, <3>2, SubSeqProperties
    <2>2. Output(b) = [b EXCEPT !.dates = cut]
      BY <1>4 DEF Output
    <2> HIDE DEF cut
    <2> QED BY <1>1, <2>1, <2>2 DEF Histories, Bars
  <1> QED BY <1>3, <1>4

\* All bars that are stored or returned are histories.
LEMMA BarsAreHistories == Bars \subseteq Histories
  BY OutputTypes, DailyBarsAssumption DEF Bars, Histories

\* Every step of the provider keeps the types.
LEMMA TypesStep ==
    ASSUME BarsSound, [BarsNext]_barsVars
    PROVE  BarsTyped'
  <1> USE DailyBarsAssumption, RestTypes DEF BarsTyped
  <1>0. BarsTyped /\ LimiterInv
    BY DEF BarsSound
  <1>1. ASSUME NEW t \in Threads, NEW result \in Answers, Returned(t, result)
        PROVE  caller' \in [Threads -> Caller] /\ answer' \in [Threads -> Answers]
    BY <1>0, <1>1 DEF Returned
  <1>2. ExpectedDate(now) \in Int \cup {NoDay}
    <2>1. TradingDays \subseteq Int
      OBVIOUS
    <2>2. now \in [day : Int, closed : BOOLEAN]
      BY <1>0
    <2>3. CASE ExpectedDate(now) # NoDay
      BY <2>1, <2>2, <2>3, ExpectedIsLast
    <2> QED BY <2>3
  <1>3. ASSUME NEW t \in Threads, NEW s \in Symbols, FetchDailyHistory(t, s)
        PROVE  BarsTyped'
    <2> DEFINE expected == ExpectedDate(now)
               began == [AtRest EXCEPT !.step = "lookup", !.symbol = s, !.expected = expected]
    <2>1. \/ Returned(t, Failed)
          \/ /\ caller' = [caller EXCEPT ![t] = began]
             /\ answer' = [answer EXCEPT ![t] = NoAnswer]
      BY <1>3 DEF FetchDailyHistory
    <2>2. began \in Caller
      <3> HIDE DEF expected
      <3> QED BY <1>2 DEF expected, Caller, FetchSteps
    <2> HIDE DEF expected, began
    <2>3. caller' \in [Threads -> Caller] /\ answer' \in [Threads -> Answers]
      BY <1>0, <1>1, <2>1, <2>2
    <2>4. /\ calls < MaxCalls /\ calls' = calls + 1
          /\ UNCHANGED <<clock, now, files, active, events, starts, genuine, mishaps>>
      BY <1>3 DEF FetchDailyHistory
    <2>5. calls' \in 0..MaxCalls
      BY <1>0, <2>4
    <2> QED BY <1>0, <2>3, <2>4, <2>5
  <1>11. ASSUME NEW t \in Threads, LookUp(t), AnswersInv
         PROVE  BarsTyped'
    <2> DEFINE c == caller[t]
               file == files[<<c.symbol, c.expected>>]
               hit == [kind |-> "hit", bars |-> file.bars, asked |-> c.expected,
                       expected |-> c.expected]
    <2>1. \/ Returned(t, Failed) \/ Returned(t, hit)
          \/ caller' = [caller EXCEPT ![t].step = "begin"] /\ answer' = answer
      BY <1>11 DEF LookUp
    <2>2. c \in Caller
      BY <1>0
    <2>3. c.expected \in TradingDays
      BY <1>11 DEF AnswersInv, CallerInv, LookUp
    <2>4. file \in File
      BY <1>0, <2>2, <2>3 DEF Keys, Caller
    <2>5. hit \in Answers
      <3> HIDE DEF file, c
      <3> QED BY <2>2, <2>4 DEF Caller, File, Answers
    <2> HIDE DEF hit
    <2>6. caller' \in [Threads -> Caller] /\ answer' \in [Threads -> Answers]
      <3>1. CASE caller' = [caller EXCEPT ![t].step = "begin"] /\ answer' = answer
        BY <1>0, <3>1 DEF Caller, FetchSteps
      <3> QED BY <1>0, <1>1, <2>1, <2>5, <3>1
    <2> QED BY <1>0, <1>11, <2>6 DEF LookUp
  <1>12. ASSUME NEW t \in Threads, BeginFetch(t)
         PROVE  BarsTyped'
    <2> DEFINE date == ExpectedDate(now)
    <2>1. \/ Returned(t, Failed)
          \/ /\ caller' = [caller EXCEPT ![t].step = "acquire", ![t].against = date]
             /\ answer' = answer
      BY <1>12 DEF BeginFetch
    <2>2. date \in Int \cup {NoDay}
      BY <1>2
    <2> HIDE DEF date
    <2>3. caller' \in [Threads -> Caller] /\ answer' \in [Threads -> Answers]
      <3>1. CASE /\ caller' = [caller EXCEPT ![t].step = "acquire", ![t].against = date]
                 /\ answer' = answer
        BY <1>0, <2>2, <3>1 DEF Caller, FetchSteps
      <3> QED BY <1>0, <1>1, <2>1, <3>1
    <2> QED BY <1>0, <1>12, <2>3 DEF BeginFetch
  <1>4. ASSUME NEW t \in Threads, Acquire(t)
        PROVE  BarsTyped'
    <2>1. /\ WaitIn(Second, PerSecond) \in Nat /\ WaitIn(Minute, PerMinute) \in Nat
          /\ Recent(Minute) \in Seq(Nat)
      <3>1. events \in Seq(Nat) /\ InOrder(events) /\ clock \in Nat
        BY <1>0, EventsInOrder
      <3>2. PICK m \in 0..Len(events) : Recent(Minute) = SubSeq(events, m + 1, Len(events))
        BY <3>1, RecentIsLatest
      <3>3. Recent(Minute) \in Seq(Nat)
        BY <3>1, <3>2
      <3> QED BY <3>1, <3>3, WaitInWindow
    <2>2. events' \in Seq(Nat)
      <3>1. events' = Recent(Minute) \/ events' = Append(Recent(Minute), clock)
        BY <1>4 DEF Acquire
      <3>2. Append(Recent(Minute), clock) \in Seq(Nat)
        BY <1>0, <2>1
      <3> QED BY <2>1, <3>1, <3>2
    <2>3. caller' \in [Threads -> Caller] /\ answer' \in [Threads -> Answers]
      <3> DEFINE until == clock + WaitFor
      <3>1. until \in Nat
        <4>1. WaitFor \in Nat
          BY <2>1 DEF WaitFor
        <4> QED BY <1>0, <4>1
      <3>3. \/ Returned(t, Failed)
            \/ answer' = answer /\ caller' = [caller EXCEPT ![t].until = until]
            \/ answer' = answer /\ caller' = [caller EXCEPT ![t].step = "fetching"]
        BY <1>4 DEF Acquire
      <3> HIDE DEF until
      <3>4. CASE Returned(t, Failed)
        BY <1>1, <3>4
      <3>5. CASE answer' = answer /\ caller' = [caller EXCEPT ![t].until = until]
        BY <1>0, <3>1, <3>5 DEF Caller
      <3>6. CASE answer' = answer /\ caller' = [caller EXCEPT ![t].step = "fetching"]
        BY <1>0, <3>6 DEF Caller, FetchSteps
      <3> QED BY <3>3, <3>4, <3>5, <3>6
    <2> QED BY <1>0, <1>4, <2>2, <2>3 DEF Acquire
  <1>5. ASSUME NEW t \in Threads, NEW raw \in Fetched, GotBars(t, raw)
        PROVE  BarsTyped'
    <2> DEFINE got == Output(raw)
    <2>1. got \in Bars
      BY OutputTypes
    <2>2. \/ Returned(t, Failed) /\ genuine' = genuine
          \/ /\ answer' = answer /\ genuine' = genuine \cup {got}
             /\ caller' = [caller EXCEPT ![t].step = "writing", ![t].bars = got]
      BY <1>5 DEF GotBars
    <2> HIDE DEF got
    <2>3. /\ caller' \in [Threads -> Caller] /\ answer' \in [Threads -> Answers]
          /\ genuine' \subseteq Bars
      <3>1. CASE Returned(t, Failed) /\ genuine' = genuine
        BY <1>0, <1>1, <2>1, <3>1
      <3>2. CASE /\ answer' = answer /\ genuine' = genuine \cup {got}
                 /\ caller' = [caller EXCEPT ![t].step = "writing", ![t].bars = got]
        BY <1>0, <2>1, <3>2 DEF Caller, FetchSteps
      <3> QED BY <2>2, <3>1, <3>2
    <2> QED BY <1>0, <1>5, <2>3 DEF GotBars
  <1>6. ASSUME NEW t \in Threads, FetchFails(t) \/ FetchRaises(t)
        PROVE  BarsTyped'
    <2> DEFINE until == clock + WaitBefore(caller[t].attempt)
               attempt == AttemptAfter(caller[t].attempt)
    <2>2. attempt \in Nat \ {0} /\ until \in Nat
      <3>1. caller[t].attempt \in Nat \ {0}
        BY <1>0 DEF Caller
      <3>2. WaitBefore(caller[t].attempt) \in Nat
        BY <3>1, WaitType
      <3> QED BY <1>0, <3>1, <3>2 DEF AttemptAfter
    <2>3. \/ Returned(t, Failed)
          \/ /\ answer' = answer
             /\ caller' = [caller EXCEPT ![t].step = "acquire", ![t].attempt = attempt,
                                         ![t].until = until]
      BY <1>6 DEF FetchFails, FetchRaises
    <2> HIDE DEF until, attempt
    <2>4. caller' \in [Threads -> Caller] /\ answer' \in [Threads -> Answers]
      <3>1. CASE Returned(t, Failed)
        BY <1>1, <3>1
      <3>2. CASE /\ answer' = answer
                 /\ caller' = [caller EXCEPT ![t].step = "acquire", ![t].attempt = attempt,
                                             ![t].until = until]
        BY <1>0, <2>2, <3>2 DEF Caller, FetchSteps
      <3> QED BY <2>3, <3>1, <3>2
    <2> QED BY <1>0, <1>6, <2>4 DEF FetchFails, FetchRaises
  <1>7. ASSUME NEW t \in Threads, WriteCache(t), AnswersInv
        PROVE  BarsTyped'
    <2> DEFINE c == caller[t]
               whole == [there |-> TRUE, bars |-> c.bars, checksum |-> c.bars, whole |-> TRUE]
               miss == [kind |-> "miss", bars |-> c.bars, asked |-> c.expected,
                        expected |-> c.against]
    <2>1. c \in Caller
      BY <1>0
    <2>2. files' = [files EXCEPT ![<<c.symbol, c.expected>>] = whole] /\ Returned(t, miss)
      BY <1>7 DEF WriteCache
    <2> HIDE DEF c
    <2>3. whole \in File /\ miss \in Answers
      BY <2>1 DEF Caller, File, Answers
    <2> HIDE DEF whole, miss
    <2> QED BY <1>0, <1>1, <1>7, <2>2, <2>3 DEF WriteCache
  <1>8. CASE Tock \/ DayPasses \/ Restart
    <2>1. CASE Tock
      BY <1>0, <2>1 DEF Tock
    <2>2. CASE DayPasses
      <3>1. now' \in [day : Int, closed : BOOLEAN]
        <4>1. CASE now.closed
          BY <1>0, <2>2, <4>1 DEF DayPasses
        <4>2. CASE ~now.closed
          <5>1. now' = [now EXCEPT !.closed = TRUE]
            BY <2>2, <4>2 DEF DayPasses
          <5> QED BY <1>0, <5>1
        <4> QED BY <4>1, <4>2
      <3> QED BY <1>0, <2>2, <3>1 DEF DayPasses
    <2>3. CASE Restart
      <3>1. mishaps' \in 0..MaxMishaps
        BY <1>0, <2>3 DEF Restart
      <3>2. <<>> \in Seq(Nat)
        OBVIOUS
      <3> QED BY <1>0, <2>3, <3>1, <3>2 DEF Restart
    <2> QED BY <1>8, <2>1, <2>2, <2>3
  <1>9. ASSUME NEW k \in Keys, Tamper(k)
        PROVE  BarsTyped'
    <2>1. PICK b \in Bars, whole \in BOOLEAN :
            files' = [files EXCEPT ![k] = [files[k] EXCEPT !.bars = b, !.whole = whole]]
      BY <1>9 DEF Tamper
    <2>2. [files[k] EXCEPT !.bars = b, !.whole = whole] \in File
      BY <1>0 DEF File
    <2>3. files' \in [Keys -> File]
      BY <1>0, <2>1, <2>2
    <2>4. /\ mishaps < MaxMishaps /\ mishaps' = mishaps + 1
          /\ UNCHANGED <<clock, now, caller, answer, active, events, starts, genuine, calls>>
      BY <1>9 DEF Tamper
    <2>5. mishaps' \in 0..MaxMishaps
      BY <1>0, <2>4
    <2> QED BY <1>0, <2>3, <2>4, <2>5
  <1>10. CASE UNCHANGED barsVars
    BY <1>0, <1>10 DEF barsVars
  <1> QED
    BY <1>3, <1>4, <1>5, <1>6, <1>7, <1>8, <1>9, <1>10, <1>11, <1>12
       DEF BarsNext, BarsStep, Working, Unasked, BarsSound

----------------------------------------------------------------------------
(* What a call returns.                                                    *)

\* No trading day lies between a day and itself.
LEMMA LagOfDay ==
    ASSUME NEW day \in Int
    PROVE  Lag(day, day) <= MaxStale
  <1> DEFINE days == {d \in TradingDays : day <= d /\ d <= day}
  <1>1. days \subseteq {day}
    <2>1. TradingDays \subseteq Int
      BY DailyBarsAssumption
    <2>2. \A d \in TradingDays : day <= d /\ d <= day => d = day
      BY <2>1
    <2> QED BY <2>2
  <1>2. IsFiniteSet({day}) /\ Cardinality({day}) = 1
    BY FS_Singleton
  <1>3. Lag(day, day) = Cardinality(days) - 1
    BY DEF Lag
  <1> HIDE DEF days
  <1>4. Cardinality(days) \in Nat /\ Cardinality(days) <= 1
    BY <1>1, <1>2, FS_Subset, FS_CardinalityType
  <1> QED BY <1>3, <1>4, DailyBarsAssumption

\* Valid bars may be returned for the closed trading day they were validated for.
LEMMA ValidIsCurrent ==
    ASSUME now \in [day : Int, closed : BOOLEAN], NEW b \in Histories,
           NEW at \in TradingDays, Closed(at), Valid(b, at)
    PROVE  Current(b, at)
  <1> USE DailyBarsAssumption
  <1> DEFINE last == LastDate(b)
  <1>1. last \in Int /\ TradingDays \subseteq Int /\ at \in Int
    BY DEF LastDate, Valid, Histories
  <1>2. last <= at /\ (last < at => Lag(last, at) <= MaxStale)
    BY DEF Valid, UpToDate
  <1>3. Ascending(b.dates) /\ Len(b.dates) >= MinBars
    BY DEF Valid
  <1> HIDE DEF last
  <1>4. Closed(last)
    BY <1>1, <1>2 DEF Closed
  <1>5. Lag(last, at) <= MaxStale
    BY <1>1, <1>2, LagOfDay
  <1> QED BY <1>2, <1>3, <1>4, <1>5 DEF Current, last

\* Cutting a history to the lookback keeps its last day.
LEMMA OutputIsCurrent ==
    ASSUME NEW b \in Fetched, NEW at, NEW e, Valid(b, at), Current(b, e)
    PROVE  Current(Output(b), e)
  <1>1. /\ b \in Histories /\ Lookback \in Nat \ {0} /\ MinBars \in Nat \ {0}
        /\ Lookback >= MinBars
    BY DailyBarsAssumption DEF Histories, Valid
  <1> DEFINE n == Len(b.dates)
             cut == SubSeq(b.dates, n - Lookback + 1, n)
  <1>2. n \in Nat
    BY <1>1 DEF Histories
  <1>3. CASE n <= Lookback
    <2>1. Output(b) = b
      BY <1>1, <1>3 DEF Output, Histories
    <2> QED BY <2>1
  <1>4. CASE ~(n <= Lookback)
    <2>1. /\ cut \in Seq(Int) /\ Len(cut) = Lookback
          /\ \A i \in 1..Lookback : cut[i] = b.dates[n - Lookback + i]
      <3> DEFINE low == n - Lookback + 1
      <3>1. \A i \in low..n : b.dates[i] \in Int
        BY <1>1, <1>2, <1>4 DEF Histories
      <3>2. n \in Int /\ low \in Int /\ low <= n /\ n - low + 1 = Lookback
        BY <1>1, <1>2, <1>4
      <3>3. \A i \in 1..Lookback : low + i - 1 = n - Lookback + i
        BY <1>1, <1>2
      <3> HIDE DEF n, low
      <3>4. /\ SubSeq(b.dates, low, n) \in Seq(Int)
            /\ Len(SubSeq(b.dates, low, n)) = n - low + 1
            /\ \A i \in 1..(n - low + 1) : SubSeq(b.dates, low, n)[i] = b.dates[low + i - 1]
        BY <3>1, <3>2, SubSeqProperties
      <3> QED BY <3>2, <3>3, <3>4 DEF low
    <2>2. Output(b) = [b EXCEPT !.dates = cut]
      BY <1>4 DEF Output
    <2> HIDE DEF cut
    <2>3. Output(b).dates = cut
      BY <1>1, <2>2 DEF Histories
    <2>4. cut[Lookback] = b.dates[n]
      BY <1>1, <1>2, <2>1
    <2>5. LastDate(Output(b)) = LastDate(b)
      BY <2>1, <2>3, <2>4 DEF LastDate
    <2>6. Ascending(cut)
      <3> SUFFICES ASSUME NEW i \in 1..Len(cut) - 1 PROVE cut[i] < cut[i + 1]
        BY DEF Ascending
      <3> DEFINE j == n - Lookback + i
      <3>1. /\ i \in 1..Lookback /\ i + 1 \in 1..Lookback
            /\ n - Lookback + (i + 1) = j + 1 /\ j \in 1..n - 1
        <4>1. i \in Nat /\ i >= 1 /\ i <= Lookback - 1
          BY <1>1, <2>1
        <4> HIDE DEF n
        <4> QED BY <1>1, <1>2, <1>4, <4>1
      <3>2. cut[i] = b.dates[j] /\ cut[i + 1] = b.dates[j + 1]
        BY <2>1, <3>1
      <3>3. b.dates[j] < b.dates[j + 1]
        <4> HIDE DEF j
        <4> QED BY <3>1 DEF Valid, Ascending
      <3> QED BY <3>2, <3>3
    <2> QED BY <1>1, <2>1, <2>3, <2>5, <2>6 DEF Current
  <1> QED BY <1>3, <1>4

\* A step of one thread.
LEMMA ThreadStep ==
    ASSUME AnswersInv, BarsTyped, NEW t \in Threads, NEW c, NEW a,
           now' = now, genuine \subseteq genuine',
           caller' = [caller EXCEPT ![t] = c], answer' = [answer EXCEPT ![t] = a],
           CallerInv(c, genuine'), AnswerInv(a, genuine'),
           \A k \in Keys : files'[k].there => files'[k].checksum \in genuine'
    PROVE  AnswersInv'
  <1>1. ASSUME NEW u \in Threads
        PROVE  CallerInv(caller'[u], genuine') /\ AnswerInv(answer'[u], genuine')
    <2>1. CASE u = t
      BY <2>1 DEF BarsTyped
    <2>2. CASE u # t
      BY <2>2 DEF BarsTyped, AnswersInv, CallerInv, AnswerInv
    <2> QED BY <2>1, <2>2
  <1>2. \A u \in Threads : CallerInv(caller[u], genuine)' /\ AnswerInv(answer[u], genuine)'
    BY <1>1 DEF CallerInv, AnswerInv, Current, Closed
  <1> QED BY <1>2 DEF AnswersInv

\* No step returns, or is about to return, bars that are stale or from nowhere.
LEMMA AnswersStep ==
    ASSUME BarsSound, [BarsNext]_barsVars
    PROVE  AnswersInv'
  <1> USE DailyBarsAssumption
  <1>0. /\ AnswersInv /\ BarsTyped /\ now \in [day : Int, closed : BOOLEAN]
        /\ TradingDays \subseteq Int
    BY DEF BarsSound, BarsTyped
  <1>1. /\ CallerInv(AtRest, genuine) /\ CallerInv(AtRest, genuine')
        /\ AnswerInv(NoAnswer, genuine)
        /\ AnswerInv(Failed, genuine) /\ AnswerInv(Failed, genuine')
        /\ AnswerInv(NoAnswer, genuine')
    BY DEF CallerInv, AnswerInv, AtRest, NoAnswer, Failed
  <1>2. ASSUME NEW t \in Threads, Returned(t, Failed),
               UNCHANGED <<now, files, genuine>>
        PROVE  AnswersInv'
    BY <1>0, <1>1, <1>2, ThreadStep DEF Returned, AnswersInv
  <1>3. ASSUME NEW t \in Threads, NEW c, caller' = [caller EXCEPT ![t] = c],
               answer' = answer, CallerInv(c, genuine), UNCHANGED <<now, files, genuine>>
        PROVE  AnswersInv'
    <2>1. answer' = [answer EXCEPT ![t] = answer[t]]
      BY <1>0, <1>3 DEF BarsTyped
    <2>2. AnswerInv(answer[t], genuine)
      BY <1>0 DEF AnswersInv
    <2> QED BY <1>0, <1>3, <2>1, <2>2, ThreadStep DEF AnswersInv
  <1>4. ASSUME NEW t \in Threads, NEW s \in Symbols, FetchDailyHistory(t, s)
        PROVE  AnswersInv'
    <2> DEFINE expected == ExpectedDate(now)
               began == [AtRest EXCEPT !.step = "lookup", !.symbol = s, !.expected = expected]
    <2>1. \/ Returned(t, Failed)
          \/ /\ expected # NoDay /\ caller' = [caller EXCEPT ![t] = began]
             /\ answer' = [answer EXCEPT ![t] = NoAnswer]
      BY <1>4 DEF FetchDailyHistory
    <2>2. UNCHANGED <<now, files, genuine>>
      BY <1>4 DEF FetchDailyHistory
    <2>3. expected # NoDay => expected \in TradingDays /\ Closed(expected)
      BY <1>0, ExpectedIsLast
    <2>4. CASE Returned(t, Failed)
      BY <1>2, <2>2, <2>4
    <2>5. CASE /\ expected # NoDay /\ caller' = [caller EXCEPT ![t] = began]
               /\ answer' = [answer EXCEPT ![t] = NoAnswer]
      <3>1. began.step = "lookup" /\ began.expected = expected
        BY DEF AtRest
      <3>2. CallerInv(began, genuine')
        <4> HIDE DEF expected, began
        <4> QED BY <2>3, <2>5, <3>1 DEF CallerInv
      <3> HIDE DEF began
      <3> QED BY <1>0, <1>1, <2>2, <2>5, <3>2, ThreadStep DEF AnswersInv
    <2> QED BY <2>1, <2>4, <2>5
  <1>14. ASSUME NEW t \in Threads, LookUp(t)
         PROVE  AnswersInv'
    <2> DEFINE c == caller[t]
               file == files[<<c.symbol, c.expected>>]
               hit == [kind |-> "hit", bars |-> file.bars, asked |-> c.expected,
                       expected |-> c.expected]
               missed == [caller[t] EXCEPT !.step = "begin"]
    <2>1. \/ Returned(t, Failed)
          \/ file.there /\ ReadsWell(file, c.expected) /\ Returned(t, hit)
          \/ caller' = [caller EXCEPT ![t] = missed] /\ answer' = answer
      BY <1>14 DEF LookUp
    <2>2. UNCHANGED <<now, files, genuine>> /\ c.step = "lookup"
      BY <1>14 DEF LookUp
    <2>3. c.expected \in TradingDays /\ Closed(c.expected) /\ c \in Caller
      BY <1>0, <2>2 DEF AnswersInv, CallerInv, BarsTyped
    <2>4. CASE Returned(t, Failed)
      BY <1>2, <2>2, <2>4
    <2>5. CASE file.there /\ ReadsWell(file, c.expected) /\ Returned(t, hit)
      <3>1. <<c.symbol, c.expected>> \in Keys
        BY <2>3 DEF Keys, Caller
      <3>2. file.bars \in genuine
        <4>1. file.checksum \in genuine /\ file.checksum = file.bars
          BY <1>0, <2>5, <3>1 DEF AnswersInv, ReadsWell
        <4> QED BY <4>1
      <3>3. file.bars \in Histories
        BY <1>0, <3>2, BarsAreHistories DEF BarsTyped
      <3>4. Valid(file.bars, c.expected)
        BY <2>5 DEF ReadsWell
      <3>5. Current(file.bars, c.expected)
        <4> DEFINE bars == file.bars
        <4> HIDE DEF bars
        <4>1. bars \in Histories /\ Valid(bars, c.expected)
          BY <3>3, <3>4 DEF bars
        <4> HIDE DEF c
        <4>2. Current(bars, c.expected)
          BY <1>0, <2>3, <4>1, ValidIsCurrent
        <4> QED BY <4>2 DEF bars
      <3>6. AnswerInv(hit, genuine')
        <4>1. c.expected \in Int
          BY <1>0, <2>3
        <4> HIDE DEF c, file
        <4> QED BY <2>2, <3>2, <3>5, <4>1 DEF AnswerInv
      <3> HIDE DEF hit, file
      <3> QED BY <1>0, <1>1, <2>2, <2>5, <3>6, ThreadStep DEF Returned, AnswersInv
    <2>6. CASE caller' = [caller EXCEPT ![t] = missed] /\ answer' = answer
      <3>1. CallerInv(missed, genuine)
        BY <2>3 DEF CallerInv, Caller
      <3> HIDE DEF missed
      <3> QED BY <1>3, <2>2, <2>6, <3>1
    <2> QED BY <2>1, <2>4, <2>5, <2>6
  <1>15. ASSUME NEW t \in Threads, BeginFetch(t)
         PROVE  AnswersInv'
    <2> DEFINE date == ExpectedDate(now)
               begun == [caller[t] EXCEPT !.step = "acquire", !.against = date]
    <2>1. \/ Returned(t, Failed)
          \/ date # NoDay /\ caller' = [caller EXCEPT ![t] = begun] /\ answer' = answer
      BY <1>15 DEF BeginFetch
    <2>2. UNCHANGED <<now, files, genuine>> /\ caller[t].step = "begin"
      BY <1>15 DEF BeginFetch
    <2>3. CallerInv(caller[t], genuine) /\ caller[t] \in Caller
      BY <1>0 DEF AnswersInv, BarsTyped
    <2>4. date # NoDay => /\ date \in TradingDays /\ Closed(date)
                          /\ caller[t].expected <= date
      <3>1. caller[t].expected \in TradingDays /\ Closed(caller[t].expected)
        BY <2>2, <2>3 DEF CallerInv
      <3> QED BY <1>0, <3>1, ExpectedIsLast
    <2> HIDE DEF date
    <2>5. date # NoDay => CallerInv(begun, genuine)
      BY <2>2, <2>3, <2>4 DEF CallerInv, Caller
    <2> HIDE DEF begun
    <2> QED BY <1>2, <1>3, <2>1, <2>2, <2>5
  <1>5. ASSUME NEW t \in Threads, Acquire(t)
        PROVE  AnswersInv'
    <2> DEFINE until == clock + WaitFor
               waiting == [caller[t] EXCEPT !.until = until]
               begun == [caller[t] EXCEPT !.step = "fetching"]
    <2>1. \/ Returned(t, Failed)
          \/ answer' = answer /\ caller' = [caller EXCEPT ![t] = waiting]
          \/ answer' = answer /\ caller' = [caller EXCEPT ![t] = begun]
      BY <1>5 DEF Acquire
    <2>2. UNCHANGED <<now, files, genuine>> /\ caller[t].step = "acquire"
      BY <1>5 DEF Acquire
    <2>3. CallerInv(caller[t], genuine) /\ caller[t] \in Caller
      BY <1>0 DEF AnswersInv, BarsTyped
    <2> HIDE DEF until
    <2>4. CallerInv(waiting, genuine) /\ CallerInv(begun, genuine)
      BY <2>2, <2>3 DEF CallerInv, Caller
    <2> HIDE DEF waiting, begun
    <2> QED BY <1>2, <1>3, <2>1, <2>2, <2>4
  <1>6. ASSUME NEW t \in Threads, NEW raw \in Fetched, GotBars(t, raw)
        PROVE  AnswersInv'
    <2> DEFINE got == Output(raw)
               at == caller[t].against
               done == [caller[t] EXCEPT !.step = "writing", !.bars = got]
    <2>1. \/ Returned(t, Failed) /\ genuine' = genuine
          \/ /\ Valid(raw, at)
             /\ answer' = answer /\ genuine' = genuine \cup {got}
             /\ caller' = [caller EXCEPT ![t] = done]
      BY <1>6 DEF GotBars
    <2>2. now' = now /\ files' = files /\ caller[t].step = "fetching"
      BY <1>6 DEF GotBars
    <2>3. CallerInv(caller[t], genuine) /\ caller[t] \in Caller
      BY <1>0 DEF AnswersInv, BarsTyped
    <2>4. CASE Returned(t, Failed) /\ genuine' = genuine
      BY <1>2, <2>2, <2>4
    <2>5. CASE /\ Valid(raw, at)
               /\ answer' = answer /\ genuine' = genuine \cup {got}
               /\ caller' = [caller EXCEPT ![t] = done]
      <3>1. at \in TradingDays /\ Closed(at) /\ caller[t].expected <= at
        BY <2>2, <2>3 DEF CallerInv
      <3>2. caller[t].expected \in TradingDays /\ Closed(caller[t].expected)
        BY <2>2, <2>3 DEF CallerInv
      <3>3. raw \in Histories /\ Valid(raw, at)
        BY <2>5 DEF Histories
      <3>4. Current(raw, at)
        <4> HIDE DEF at
        <4> QED BY <1>0, <3>1, <3>3, ValidIsCurrent
      <3>5. Current(got, at)
        <4> HIDE DEF at
        <4> QED BY <3>3, <3>4, OutputIsCurrent
      <3> HIDE DEF got
      <3>6. CallerInv(done, genuine')
        BY <2>3, <2>5, <3>1, <3>2, <3>5 DEF CallerInv, Caller
      <3>7. AnswerInv(answer[t], genuine')
        BY <1>0, <2>5 DEF AnswersInv, AnswerInv
      <3>8. answer' = [answer EXCEPT ![t] = answer[t]]
        BY <1>0, <2>5 DEF BarsTyped
      <3> HIDE DEF done
      <3> QED BY <1>0, <2>2, <2>5, <3>6, <3>7, <3>8, ThreadStep DEF AnswersInv
    <2> QED BY <2>1, <2>4, <2>5
  <1>7. ASSUME NEW t \in Threads, FetchFails(t) \/ FetchRaises(t)
        PROVE  AnswersInv'
    <2> DEFINE until == clock + WaitBefore(caller[t].attempt)
               attempt == AttemptAfter(caller[t].attempt)
               again == [caller[t] EXCEPT !.step = "acquire", !.attempt = attempt,
                                          !.until = until]
    <2>1. \/ Returned(t, Failed)
          \/ answer' = answer /\ caller' = [caller EXCEPT ![t] = again]
      BY <1>7 DEF FetchFails, FetchRaises
    <2>2. UNCHANGED <<now, files, genuine>> /\ caller[t].step = "fetching"
      BY <1>7 DEF FetchFails, FetchRaises
    <2>3. CallerInv(caller[t], genuine) /\ caller[t] \in Caller
      BY <1>0 DEF AnswersInv, BarsTyped
    <2> HIDE DEF until, attempt
    <2>4. CallerInv(again, genuine)
      BY <2>2, <2>3 DEF CallerInv, Caller
    <2> HIDE DEF again
    <2> QED BY <1>2, <1>3, <2>1, <2>2, <2>4
  <1>8. ASSUME NEW t \in Threads, WriteCache(t)
        PROVE  AnswersInv'
    <2> DEFINE c == caller[t]
               whole == [there |-> TRUE, bars |-> c.bars, checksum |-> c.bars, whole |-> TRUE]
               miss == [kind |-> "miss", bars |-> c.bars, asked |-> c.expected,
                        expected |-> c.against]
    <2>1. /\ files' = [files EXCEPT ![<<c.symbol, c.expected>>] = whole]
          /\ Returned(t, miss) /\ c.step = "writing" /\ now' = now /\ genuine' = genuine
      BY <1>8 DEF WriteCache
    <2>2. CallerInv(c, genuine)
      BY <1>0 DEF AnswersInv
    <2>3. Current(c.bars, c.against) /\ c.expected <= c.against /\ c.bars \in genuine
      BY <2>1, <2>2 DEF CallerInv
    <2> HIDE DEF c
    <2>4. AnswerInv(miss, genuine') /\ whole.checksum \in genuine
      BY <2>1, <2>3 DEF AnswerInv
    <2> HIDE DEF whole, miss
    <2>5. \A k \in Keys : files'[k].there => files'[k].checksum \in genuine'
      BY <1>0, <2>1, <2>4 DEF AnswersInv, BarsTyped
    <2> QED BY <1>0, <1>1, <2>1, <2>4, <2>5, ThreadStep DEF Returned
  <1>9. CASE DayPasses
    <2>1. \A d \in Int : Closed(d) => Closed(d)'
      <3>1. CASE now.closed
        BY <1>0, <1>9, <3>1 DEF DayPasses, Closed
      <3>2. CASE ~now.closed
        <4>1. now' = [now EXCEPT !.closed = TRUE]
          BY <1>9, <3>2 DEF DayPasses
        <4> QED BY <1>0, <3>2, <4>1 DEF Closed
      <3> QED BY <3>1, <3>2
    <2>2. \A b \in genuine : \A e : Current(b, e) => Current(b, e)'
      <3> SUFFICES ASSUME NEW b \in genuine, NEW e, Current(b, e)
                   PROVE  Current(b, e)'
        OBVIOUS
      <3>1. b \in Histories
        BY <1>0, BarsAreHistories DEF BarsTyped
      <3>2. Len(b.dates) \in Nat \ {0} /\ b.dates \in Seq(Int)
        BY <3>1 DEF Histories, Current
      <3>3. LastDate(b) \in Int
        BY <3>2 DEF LastDate
      <3> QED BY <2>1, <3>3 DEF Current
    <2>3. UNCHANGED <<caller, answer, files, genuine>>
      BY <1>9 DEF DayPasses
    <2>4. ASSUME NEW t \in Threads
          PROVE  CallerInv(caller[t], genuine)' /\ AnswerInv(answer[t], genuine)'
      <3>1. CallerInv(caller[t], genuine) /\ AnswerInv(answer[t], genuine)
        BY <1>0 DEF AnswersInv
      <3> QED BY <1>0, <2>1, <2>2, <2>3, <3>1 DEF CallerInv, AnswerInv
    <2> QED BY <1>0, <2>3, <2>4 DEF AnswersInv
  <1>10. CASE Restart
    <2>1. UNCHANGED <<now, files, genuine>>
      BY <1>10 DEF Restart
    <2>2. \A t \in Threads : caller'[t] = AtRest /\ answer'[t] = NoAnswer
      BY <1>10 DEF Restart
    <2> QED BY <1>0, <1>1, <2>1, <2>2 DEF AnswersInv, CallerInv, AnswerInv, Current, Closed
  <1>11. ASSUME NEW k \in Keys, Tamper(k)
         PROVE  AnswersInv'
    <2>1. PICK b \in Bars, whole \in BOOLEAN :
            files' = [files EXCEPT ![k] = [files[k] EXCEPT !.bars = b, !.whole = whole]]
      BY <1>11 DEF Tamper
    <2>2. UNCHANGED <<now, caller, answer, genuine>> /\ files[k].there
      BY <1>11 DEF Tamper
    <2>3. /\ [files[k] EXCEPT !.bars = b, !.whole = whole].checksum = files[k].checksum
          /\ files[k].checksum \in genuine
      BY <1>0, <2>2 DEF AnswersInv, BarsTyped, File
    <2>4. \A l \in Keys : files'[l].there => files'[l].checksum \in genuine
      BY <1>0, <2>1, <2>3 DEF AnswersInv, BarsTyped
    <2> QED BY <1>0, <2>2, <2>4 DEF AnswersInv, CallerInv, AnswerInv, Current, Closed
  <1>12. ASSUME UNCHANGED <<now, caller, answer, files, genuine>>
         PROVE  AnswersInv'
    BY <1>0, <1>12 DEF AnswersInv, CallerInv, AnswerInv, Current, Closed
  <1>13. Tock \/ UNCHANGED barsVars => UNCHANGED <<now, caller, answer, files, genuine>>
    BY DEF Tock, barsVars
  <1> QED
    BY <1>4, <1>5, <1>6, <1>7, <1>8, <1>9, <1>10, <1>11, <1>12, <1>13, <1>14, <1>15
       DEF BarsNext, BarsStep, Working, Unasked

----------------------------------------------------------------------------
(* The theorems.                                                           *)

\* A provider that has just started is sound.
LEMMA BarsSoundInit == BarsInit => BarsSound
  <1> SUFFICES ASSUME BarsInit PROVE BarsSound
    OBVIOUS
  <1> USE DailyBarsAssumption DEF BarsInit
  <1>1. <<>> \in Seq(Nat) /\ Len(<<>>) = 0
    OBVIOUS
  <1>2. now \in [day : Int, closed : BOOLEAN]
    OBVIOUS
  <1>3. BarsTyped
    BY <1>1, <1>2, RestTypes DEF BarsTyped
  <1>4. LimiterInv
    <2>1. Remembers(0)
      BY <1>1 DEF Remembers
    <2> QED BY <1>1, <2>1 DEF LimiterInv, InOrder, Spaced
  <1>5. SlotsInv
    <2>1. Fetching = {}
      BY DEF Fetching, AtRest
    <2> QED BY <2>1, FS_EmptySet DEF SlotsInv
  <1>6. AnswersInv
    BY DEF AnswersInv, CallerInv, AnswerInv, AtRest, NoAnswer, NoFile
  <1> QED BY <1>3, <1>4, <1>5, <1>6 DEF BarsSound

\* Every step of the provider keeps it sound.
LEMMA BarsSoundStep == BarsSound /\ [BarsNext]_barsVars => BarsSound'
  BY LimiterStep, SlotsStep, TypesStep, AnswersStep DEF BarsSound

\* The rate limiter leaks no slot, on whatever way a fetch ends, and keeps the
\* three limits for every interleaving of the threads, though it remembers only
\* the fetches of the last minute and a thread that waited looks again.
THEOREM LimiterIsSound == BarsSpec => []LimiterSound
  <1>1. BarsSound => LimiterSound
    BY DEF BarsSound, BarsTyped, LimiterInv, SlotsInv, Spaced, LimiterSound, BarsTypeOK,
           LimitsKept
  <1> QED BY <1>1, BarsSoundInit, BarsSoundStep, PTL DEF BarsSpec

\* A call returns bars the provider has delivered, up to a trading day that had
\* closed and no staler than tolerated for the date they were validated for, which
\* is not before the date the call began with, though the file was changed, the
\* process restarted or the market closed between any two of its clock readings.
THEOREM AnswersAreSound == BarsSpec => []AnswersSound
  <1>1. BarsSound => AnswersSound
    BY DEF BarsSound, AnswersInv, AnswerInv, Current, Closed, AnswersSound, AnswersCurrent,
           AnswersGenuine
  <1> QED BY <1>1, BarsSoundInit, BarsSoundStep, PTL DEF BarsSpec
=============================================================================
