---------------------------- MODULE AuthSession ----------------------------
(***************************************************************************)
(* Login, refresh, logout, password changes and user administration         *)
(* (src/app/auth.py and src/app/api/auth.py) over the tables users and      *)
(* auth_sessions.                                                           *)
(*                                                                          *)
(* A login reads the user, checks the password for a while and writes in    *)
(* the same transaction; a refresh reads the session and writes it.  Other  *)
(* requests may commit between the two.  What is written are the columns    *)
(* whose value changed, not the whole row.  The cookies of a login or a     *)
(* refresh reach the browser after the commit, or not at all.               *)
(*                                                                          *)
(* Tokens are numbers in the order they were created, none is ever guessed. *)
(* Login audit rows are left out: nothing reads them.                       *)
(***************************************************************************)
EXTENDS Integers

CONSTANTS
    Users,          \* usernames
    Admin,          \* the user there is at the beginning
    Browsers,       \* with a cookie jar each
    Tabs, BrowserOf,    \* what sends requests, one at a time; its browser
    SessionIds,     \* ids sessions are given
    Nobody, NoSession,
    FailureLimit,   \* auth_login_failure_limit
    Lockout,        \* auth_lockout_minutes, in ticks of the clock
    AccessLife,     \* auth_access_token_minutes
    RefreshLife,    \* auth_refresh_token_days
    MaxTime, MaxTokens, MaxChanges, MaxWrong   \* bounds

ASSUME AuthAssumption ==
    /\ Admin \in Users /\ Nobody \notin Users /\ NoSession \notin SessionIds
    /\ BrowserOf \in [Tabs -> Browsers]
    /\ FailureLimit \in Nat \ {0}
    /\ Lockout \in Nat /\ AccessLife \in Nat /\ RefreshLife \in Nat
    /\ MaxTime \in Nat /\ MaxTokens \in Nat /\ MaxChanges \in Nat
    /\ MaxWrong \in Nat

VARIABLES
    time,       \* the clock
    users,      \* UserRecord of each username
    sessions,   \* AuthSessionRecord of each session id
    jar,        \* cookies of each browser
    request,    \* the login or refresh each tab waits for
    tokens      \* refresh tokens created so far

authVars == <<time, users, sessions, jar, request, tokens>>

----------------------------------------------------------------------------
Roles == {"ADMIN", "VIEWER"}
\* locked is locked_until, 0 if there is none; era counts the changes that end
\* the user's sessions (history).
User == [exists : BOOLEAN, active : BOOLEAN, role : Roles, failed : Nat,
         locked : Nat, era : Nat]
NoUser == [exists |-> FALSE, active |-> FALSE, role |-> "VIEWER", failed |-> 0,
           locked |-> 0, era |-> 0]
\* late: opened by a login that had read a user who was changed before it was
\* written; torn: two refreshes overlapped, or an answer was lost (history).
Session == [user : Users \cup {Nobody}, refresh : Nat, expires : Nat,
            revoked : BOOLEAN, late : BOOLEAN, torn : BOOLEAN, era : Nat]
Unused == [user |-> Nobody, refresh |-> 0, expires |-> 0, revoked |-> FALSE,
           late |-> FALSE, torn |-> FALSE, era |-> 0]
Jar == [sid : SessionIds \cup {NoSession}, until : Nat, refresh : Nat]
Empty == [sid |-> NoSession, until |-> 0, refresh |-> 0]
\* What a request in flight has read and when; then the cookies of its answer.
Request == [kind : {"none", "login", "refresh", "answer"},
            user : Users \cup {Nobody}, failed : Nat, locked : Nat, era : Nat,
            sid : SessionIds \cup {NoSession}, at : Nat, token : Nat]
NoRequest == [kind |-> "none", user |-> Nobody, failed |-> 0, locked |-> 0,
              era |-> 0, sid |-> NoSession, at |-> 0, token |-> 0]

AuthInit ==
    /\ time = 1
    /\ users = [u \in Users |->
                  IF u = Admin THEN [NoUser EXCEPT !.exists = TRUE,
                                                   !.active = TRUE,
                                                   !.role = "ADMIN"]
                  ELSE NoUser]
    /\ sessions = [s \in SessionIds |-> Unused]
    /\ jar = [b \in Browsers |-> Empty]
    /\ request = [c \in Tabs |-> NoRequest]
    /\ tokens = 0

----------------------------------------------------------------------------
Free(c) == request[c].kind = "none"
Cookies(c) == jar[BrowserOf[c]]
Live(s) == /\ sessions[s].user # Nobody
           /\ ~sessions[s].revoked
           /\ sessions[s].expires > time
is_locked(u) == users[u].locked > time

\* require_user: the access cookie's session is live and its user active.
Authenticated(c) ==
    /\ Cookies(c).sid # NoSession /\ Cookies(c).until > time
    /\ Live(Cookies(c).sid)
    /\ users[sessions[Cookies(c).sid].user].active
\* require_admin looks at the role the user has now.
IsAdmin(c) ==
    Authenticated(c) /\ users[sessions[Cookies(c).sid].user].role = "ADMIN"

Answered(c) == request' = [request EXCEPT ![c] = NoRequest]
\* Committed; the cookies are on their way.
Answering(c, s, token) ==
    request' = [request EXCEPT ![c] = [NoRequest EXCEPT
                   !.kind = "answer", !.sid = s, !.token = token]]

\* login_user, up to the password check
BeginLogin(c, u) ==
    /\ Free(c)
    /\ users[u].exists /\ ~is_locked(u) /\ users[u].active
    /\ request' = [request EXCEPT ![c] = [NoRequest EXCEPT
                     !.kind = "login", !.user = u, !.failed = users[u].failed,
                     !.locked = users[u].locked, !.era = users[u].era,
                     !.at = time]]
    /\ UNCHANGED <<time, users, sessions, jar, tokens>>

\* The password was wrong.  Failures counted at the same time count once.
FailLogin(c) ==
    LET r == request[c]
        failed == r.failed + 1
    IN  /\ r.kind = "login" /\ failed <= MaxWrong
        /\ users' = [users EXCEPT
              ![r.user].failed = failed,
              ![r.user].locked = IF failed >= FailureLimit THEN r.at + Lockout
                                                           ELSE @]
        /\ Answered(c)
        /\ UNCHANGED <<time, sessions, jar, tokens>>

\* The password was right: the failures are forgotten and a session begins.
CompleteLogin(c, s) ==
    LET r == request[c] IN
    /\ r.kind = "login"
    /\ sessions[s].user = Nobody
    /\ tokens < MaxTokens
    /\ tokens' = tokens + 1
    /\ users' = [users EXCEPT
          ![r.user].failed = IF r.failed = 0 THEN @ ELSE 0,
          ![r.user].locked = IF r.locked = 0 THEN @ ELSE 0]
    /\ sessions' = [sessions EXCEPT ![s] =
          [Unused EXCEPT !.user = r.user, !.refresh = tokens + 1,
                         !.expires = r.at + RefreshLife, !.era = r.era,
                         !.late = r.era # users[r.user].era]]
    /\ Answering(c, s, tokens + 1)
    /\ UNCHANGED <<time, jar>>

\* refresh_user_session, up to its first write: the session is found by the
\* token it has now.
Refreshable(c, s) == /\ Free(c) /\ Cookies(c).refresh # 0
                     /\ sessions[s].refresh = Cookies(c).refresh
                     /\ Live(s)

RefreshInactive(c, s) ==
    /\ Refreshable(c, s)
    /\ ~users[sessions[s].user].active
    /\ sessions' = [sessions EXCEPT ![s].revoked = TRUE]
    /\ UNCHANGED <<time, users, jar, request, tokens>>

BeginRefresh(c, s) ==
    /\ Refreshable(c, s)
    /\ users[sessions[s].user].active
    /\ request' = [request EXCEPT ![c] = [NoRequest EXCEPT
                      !.kind = "refresh", !.sid = s, !.at = time]]
    /\ UNCHANGED <<time, users, sessions, jar, tokens>>

\* Another request holds a token of the session, or will.
Overlapped(c, s) == \E d \in Tabs \ {c} : request[d].sid = s

\* The new token replaces the old one (mutant: the row is written back as
\* it was read).
Reread(row, token, at) == [row EXCEPT !.refresh = token, !.revoked = FALSE,
                                      !.expires = at + RefreshLife]
Rotated(row, token, at) == [row EXCEPT !.refresh = token,
                                       !.expires = at + RefreshLife]

CompleteRefresh(c) ==
    LET r == request[c] IN
    /\ r.kind = "refresh"
    /\ tokens < MaxTokens
    /\ tokens' = tokens + 1
    /\ sessions' = [sessions EXCEPT ![r.sid] =
          [Rotated(sessions[r.sid], tokens + 1, r.at) EXCEPT
              !.torn = sessions[r.sid].torn \/ Overlapped(c, r.sid)]]
    /\ Answering(c, r.sid, tokens + 1)
    /\ UNCHANGED <<time, users, jar>>

set_auth_cookies(c) ==
    /\ request[c].kind = "answer"
    /\ jar' = [jar EXCEPT ![BrowserOf[c]] =
                  [sid |-> request[c].sid, until |-> time + AccessLife,
                   refresh |-> request[c].token]]
    /\ Answered(c)
    /\ UNCHANGED <<time, users, sessions, tokens>>

\* The browser closed the connection before the answer.
AnswerLost(c) ==
    /\ request[c].kind = "answer"
    /\ sessions' = [sessions EXCEPT ![request[c].sid].torn = TRUE]
    /\ Answered(c)
    /\ UNCHANGED <<time, users, jar, tokens>>

\* logout_user ends the session the refresh cookie opens, if there is one.
Logout(c) ==
    /\ Free(c) /\ Cookies(c) # Empty
    /\ sessions' = [s \in SessionIds |->
          IF Cookies(c).refresh # 0 /\ sessions[s].refresh = Cookies(c).refresh
          THEN [sessions[s] EXCEPT !.revoked = TRUE] ELSE sessions[s]]
    /\ jar' = [jar EXCEPT ![BrowserOf[c]] = Empty]
    /\ UNCHANGED <<time, users, request, tokens>>

\* The sessions of a user are revoked (mutant: only those that have expired).
RevokedExpired(u) == [s \in SessionIds |->
    IF sessions[s].user = u /\ sessions[s].expires <= time
    THEN [sessions[s] EXCEPT !.revoked = TRUE] ELSE sessions[s]]
RevokedOf(u) == [s \in SessionIds |->
    IF sessions[s].user = u THEN [sessions[s] EXCEPT !.revoked = TRUE]
    ELSE sessions[s]]

\* change_password, by the user: the lock is not lifted.
ChangePassword(c) ==
    LET u == sessions[Cookies(c).sid].user IN
    /\ Free(c) /\ Authenticated(c)
    /\ users[u].era < MaxChanges
    /\ users' = [users EXCEPT ![u].era = @ + 1]
    /\ sessions' = RevokedOf(u)
    /\ jar' = [jar EXCEPT ![BrowserOf[c]] = Empty]
    /\ UNCHANGED <<time, request, tokens>>

\* admin_reset_password and admin_revoke_sessions
RevokeSessions(c, u) ==
    /\ Free(c) /\ IsAdmin(c)
    /\ users[u].exists /\ users[u].era < MaxChanges
    /\ users' = [users EXCEPT ![u].era = @ + 1]
    /\ sessions' = RevokedOf(u)
    /\ UNCHANGED <<time, jar, request, tokens>>

\* admin_patch_user with is_active false, and without
Deactivate(c, u) ==
    /\ Free(c) /\ IsAdmin(c)
    /\ users[u].exists /\ users[u].era < MaxChanges
    /\ users' = [users EXCEPT ![u].active = FALSE, ![u].era = @ + 1]
    /\ sessions' = RevokedOf(u)
    /\ UNCHANGED <<time, jar, request, tokens>>

Patch(c, u, active, role) ==
    /\ Free(c) /\ IsAdmin(c)
    /\ users[u].exists
    /\ users' = [users EXCEPT ![u].active = @ \/ active, ![u].role = role]
    /\ UNCHANGED <<time, sessions, jar, request, tokens>>

create_user(c, u, role) ==
    /\ Free(c) /\ IsAdmin(c)
    /\ ~users[u].exists
    /\ users' = [users EXCEPT ![u] = [NoUser EXCEPT !.exists = TRUE,
                                                    !.active = TRUE,
                                                    !.role = role]]
    /\ UNCHANGED <<time, sessions, jar, request, tokens>>

Pass ==
    /\ time < MaxTime
    /\ time' = time + 1
    /\ UNCHANGED <<users, sessions, jar, request, tokens>>

\* Browsers may stay away.
Away == UNCHANGED authVars

AuthStep ==
    \/ \E c \in Tabs :
        \/ \E u \in Users : BeginLogin(c, u)
        \/ FailLogin(c)
        \/ \E s \in SessionIds : \/ CompleteLogin(c, s)
                                 \/ RefreshInactive(c, s)
                                 \/ BeginRefresh(c, s)
        \/ CompleteRefresh(c) \/ set_auth_cookies(c) \/ AnswerLost(c)
        \/ Logout(c) \/ ChangePassword(c)
        \/ \E u \in Users :
            \/ RevokeSessions(c, u) \/ Deactivate(c, u)
            \/ \E role \in Roles : \/ create_user(c, u, role)
                                   \/ \E a \in BOOLEAN : Patch(c, u, a, role)
    \/ Pass

AuthNext == AuthStep \/ Away
AuthSpec == AuthInit /\ [][AuthNext]_authVars

----------------------------------------------------------------------------
(* Properties.                                                              *)

\* Every variable has its type; a request in flight names the user of its login
\* or the session of its refresh, and no longer once it is answered.
AuthTypeOK ==
    /\ time \in Nat /\ tokens \in Nat
    /\ users \in [Users -> User]
    /\ sessions \in [SessionIds -> Session]
    /\ jar \in [Browsers -> Jar]
    /\ request \in [Tabs -> Request]
    /\ \A c \in Tabs :
        /\ request[c].kind = "login" <=> request[c].user # Nobody
        /\ request[c].kind \in {"refresh", "answer"} <=> request[c].sid # NoSession

\* A session that was revoked, by its user, an administrator or a password
\* change, stays revoked, also when a refresh that had read it before is
\* written afterwards.
RevokedForGood ==
    [][\A s \in SessionIds : sessions[s].revoked => sessions'[s].revoked]_authVars

\* A change of password, a reset and a deactivation end every session of the
\* user: what is not revoked was opened since the last of them, or by a login
\* that had read the user before it and was written after it.
SessionsFollowAccount ==
    \A s \in SessionIds :
        sessions[s].user # Nobody /\ ~sessions[s].revoked =>
            sessions[s].late \/ sessions[s].era = users[sessions[s].user].era

\* The refresh cookie of a browser opens its session for as long as the session
\* is live: rotating the token locks nobody out, unless two refreshes of the
\* session overlapped or the answer of one was lost.
CookieOpensSession ==
    \A b \in Browsers :
        LET s == jar[b].sid IN
        /\ s # NoSession
        /\ Live(s) /\ ~sessions[s].torn
        /\ \A c \in Tabs : request[c].sid # s
        => jar[b].refresh = sessions[s].refresh

\* Sessions, accounts and cookies agree: no session outlives the account change
\* that ended it, and a browser's cookie opens its session.
SessionsSound == AuthTypeOK /\ SessionsFollowAccount /\ CookieOpensSession
=============================================================================
