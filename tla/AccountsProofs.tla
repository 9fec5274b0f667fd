--------------------------- MODULE AccountsProofs ---------------------------
(***************************************************************************)
(* Theorems about Accounts, for every number of handlers, accounts,        *)
(* sessions and passwords.                                                 *)
(***************************************************************************)
EXTENDS Accounts, TLAPS

USE DEF Null, Disabled, Enabled

\* An account that exists has a role, a status and a password; no id is 0.
LEMMA LiveAccount ==
  ASSUME AccountTable, NEW u \in Users, Exists(u)
  PROVE  /\ accounts[u] \in AccountRow
         /\ accounts[u].role \in Roles /\ accounts[u].status \in {Disabled, Enabled}
         /\ accounts[u].password \in Passwords
         /\ u # Null
BY DEF AccountTable, AccountRow, Exists, NoAccount, Users

\* What each kind of request carries.
LEMMA RequestFields ==
  ASSUME Requests, NEW h \in Handlers
  PROVE  /\ request[h].op = "serving" =>
              /\ request[h].user \in Users /\ request[h].role \in Roles
              /\ request[h].session \in Sessions
         /\ request[h].op = "login" => request[h].user \in Users /\ request[h].password \in Passwords
         /\ request[h].op \in {"password", "revoke"} => request[h].user \in Users
         /\ request[h].op = "update" =>
              /\ request[h].user \in Users /\ request[h].role \in Roles
              /\ request[h].status \in {Disabled, Enabled} /\ request[h].was \in {Disabled, Enabled}
BY DEF Requests, RequestType, Idle

\* What an open session is.
LEMMA OpenSession ==
  ASSUME AccountTable, SessionTable, NEW s \in Sessions, IsOpen(s)
  PROVE  /\ sessions[s] \in SessionRow
         /\ sessions[s].user \in Users /\ sessions[s].password \in Passwords
         /\ s <= lastSession /\ Exists(sessions[s].user)
BY DEF SessionTable, SessionRow, IsOpen, NoSession

\* A request that is over leaves the requests well formed.
LEMMA DoneType ==
  ASSUME Requests, NEW h \in Handlers, Done(h)
  PROVE  Requests'
BY DEF Requests, Done, RequestType

----------------------------------------------------------------------------
\* Ending sessions: all of a user's, or one.

\* Ending every session of an account keeps the table, whatever becomes of that account.
LEMMA EndAllType ==
  ASSUME AccountTable, SessionTable, NEW u \in Users,
         sessions' = SessionsEnded(u), UNCHANGED <<lastSession, raced>>,
         \A v \in Users \ {u} : accounts'[v] = accounts[v]
  PROVE  SessionTable'
<1>1. sessions' \in [Sessions -> SessionRow \cup {NoSession}]
  BY DEF SessionTable, SessionsEnded
<1>2. \A s \in Sessions : IsOpen(s)' => s <= lastSession' /\ Exists(sessions[s].user)'
  <2> SUFFICES ASSUME NEW s \in Sessions, IsOpen(s)'
               PROVE  s <= lastSession' /\ Exists(sessions[s].user)'
    OBVIOUS
  <2>1. sessions[s].user # u /\ sessions'[s] = sessions[s]
    BY DEF SessionsEnded, IsOpen, NoSession
  <2>2. IsOpen(s)
    BY <2>1 DEF IsOpen
  <2>3. sessions[s].user \in Users \ {u} /\ s <= lastSession /\ Exists(sessions[s].user)
    BY <2>1, <2>2, OpenSession
  <2> QED
    BY <2>1, <2>3 DEF Exists
<1> QED
  BY <1>1, <1>2 DEF SessionTable

LEMMA EndOneType ==
  ASSUME AccountTable, SessionTable, NEW s \in Sessions,
         sessions' = [sessions EXCEPT ![s] = NoSession], UNCHANGED <<accounts, lastSession, raced>>
  PROVE  SessionTable'
BY DEF SessionTable, IsOpen, NoSession, Exists

\* No session but those ended changes.
LEMMA StillOpen ==
  ASSUME SessionTable, NEW s \in Sessions, IsOpen(s)',
         \/ \E u \in Users : sessions' = SessionsEnded(u)
         \/ \E t \in Sessions : sessions' = [sessions EXCEPT ![t] = NoSession]
         \/ sessions' = sessions
  PROVE  IsOpen(s) /\ sessions'[s] = sessions[s]
BY DEF SessionTable, IsOpen, NoSession, SessionsEnded

----------------------------------------------------------------------------
\* Types.

LEMMA InitType == Init => TypeOK
<1> SUFFICES ASSUME Init PROVE TypeOK
  OBVIOUS
<1>1. lastUser \in 1..MaxUsers /\ lastPassword \in 1..MaxPasswords /\ lastPassword = lastUser
  BY BoundsAssumption DEF Init
<1>2. \A u \in Users : u <= lastUser =>
        /\ accounts[u] \in AccountRow
        /\ accounts[u].password = u
  <2> SUFFICES ASSUME NEW u \in Users, u <= lastUser
               PROVE  accounts[u] \in AccountRow /\ accounts[u].password = u
    OBVIOUS
  <2>1. u \in Nat /\ u >= 1 /\ u \in Passwords
    BY <1>1, BoundsAssumption DEF Users, Passwords
  <2>2. ~(u > lastUser)
    BY <1>1, <2>1
  <2>3. accounts[u] = [role |-> IF u = 1 THEN "ADMIN" ELSE "USER", status |-> Enabled, password |-> u]
    BY <2>2 DEF Init
  <2> QED
    BY <2>1, <2>3 DEF AccountRow, Roles
<1>3. \A u \in Users : ~(u <= lastUser) => accounts[u] = NoAccount
  BY <1>1 DEF Init, Users
<1>4. AccountTable
  <2>1. accounts \in [Users -> AccountRow \cup {NoAccount}]
    BY <1>2, <1>3 DEF Init
  <2>2. \A u \in Users : Exists(u) => u <= lastUser /\ accounts[u].password <= lastPassword
    BY <1>1, <1>2, <1>3 DEF Exists, NoAccount
  <2>3. vouched \subseteq Users
    BY BoundsAssumption DEF Init, Users
  <2> QED
    BY <1>1, <2>1, <2>2, <2>3 DEF AccountTable
<1>5. SessionTable
  BY BoundsAssumption DEF Init, SessionTable, IsOpen, NoSession
<1>6. Requests
  BY DEF Init, Requests, RequestType
<1> QED
  BY <1>4, <1>5, <1>6 DEF TypeOK

LEMMA NextType == TypeOK /\ [Next]_vars => TypeOK'
<1> SUFFICES ASSUME TypeOK, [Next]_vars PROVE TypeOK'
  OBVIOUS
<1> USE DEF TypeOK
<1>1. ASSUME NEW h \in Handlers, Register(h) PROVE TypeOK'
  <2>1. PICK n : n = lastUser + 1
    OBVIOUS
  <2>2. PICK p : p = lastPassword + 1
    OBVIOUS
  <2>3. /\ n \in Users /\ p \in Passwords /\ lastUser < n /\ lastPassword < p
        /\ lastUser \in Nat /\ lastPassword \in Nat
    BY <1>1, <2>1, <2>2, BoundsAssumption DEF Register, AccountTable, Users, Passwords
  <2>4. /\ accounts' = [accounts EXCEPT ![n] = [role |-> "USER", status |-> Enabled, password |-> p]]
        /\ lastUser' = n /\ lastPassword' = p
        /\ UNCHANGED <<sessions, lastSession, request, raced, vouched>>
    BY <1>1, <2>1, <2>2 DEF Register, Hash
  <2>5. [role |-> "USER", status |-> Enabled, password |-> p] \in AccountRow
    BY <2>3 DEF AccountRow, Roles
  <2>6. accounts' \in [Users -> AccountRow \cup {NoAccount}]
    BY <2>3, <2>4, <2>5 DEF AccountTable
  <2>7. \A u \in Users : Exists(u)' => u <= lastUser' /\ accounts'[u].password <= lastPassword'
    <3> SUFFICES ASSUME NEW u \in Users, Exists(u)'
                 PROVE  u <= lastUser' /\ accounts'[u].password <= lastPassword'
      OBVIOUS
    <3>1. CASE u = n
      BY <3>1, <2>3, <2>4 DEF AccountTable, Users, Passwords
    <3>2. CASE u # n
      <4>1. accounts'[u] = accounts[u] /\ Exists(u)
        BY <3>2, <2>4 DEF Exists
      <4>2. u <= lastUser /\ accounts[u].password <= lastPassword
        BY <4>1 DEF AccountTable
      <4>3. accounts[u].password \in Nat /\ u \in Nat
        BY <4>1, LiveAccount DEF Passwords, Users
      <4> QED
        BY <2>3, <2>4, <4>1, <4>2, <4>3 DEF Users, Passwords
    <3> QED
      BY <3>1, <3>2
  <2>8. AccountTable'
    BY <2>3, <2>4, <2>6, <2>7 DEF AccountTable, Users, Passwords
  <2>9. SessionTable'
    <3>1. \A s \in Sessions : IsOpen(s)' => s <= lastSession' /\ Exists(sessions[s].user)'
      <4> SUFFICES ASSUME NEW s \in Sessions, IsOpen(s)
                   PROVE  s <= lastSession /\ Exists(sessions[s].user)'
        BY <2>4 DEF IsOpen
      <4>1. sessions[s].user \in Users /\ s <= lastSession /\ Exists(sessions[s].user)
        BY OpenSession
      <4> QED
        BY <2>3, <2>4, <4>1 DEF Exists, AccountTable
    <3> QED
      BY <2>4, <3>1 DEF SessionTable, IsOpen
  <2>10. Requests'
    BY <2>4 DEF Requests
  <2> QED
    BY <2>8, <2>9, <2>10
<1>2. ASSUME NEW h \in Handlers, NEW u \in Users, LoginRead(h, u) PROVE TypeOK'
  <2>1. Exists(u)
    BY <1>2 DEF LoginRead, Exists, AccountTable, AccountRow, NoAccount, Roles
  <2>2. LoggingIn(u, accounts[u].password) \in RequestType
    BY <2>1, LiveAccount DEF LoggingIn, RequestType
  <2>3. Requests'
    BY <1>2, <2>2 DEF LoginRead, Requests
  <2> QED
    BY <1>2, <2>3 DEF LoginRead, AccountTable, SessionTable, Exists, IsOpen
<1>3. ASSUME NEW h \in Handlers, LoginInsert(h) PROVE TypeOK'
  <2>1. PICK q : q = request[h]
    OBVIOUS
  <2>2. PICK n : n = lastSession + 1
    OBVIOUS
  <2>3. q.user \in Users /\ q.password \in Passwords /\ Exists(q.user)
    BY <1>3, <2>1, RequestFields DEF LoginInsert
  <2>4. n \in Sessions /\ lastSession < n /\ lastSession \in Nat
    BY <1>3, <2>2, BoundsAssumption DEF LoginInsert, SessionTable, Sessions
  <2>5. /\ sessions' = [sessions EXCEPT ![n] = [user |-> q.user, password |-> q.password]]
        /\ lastSession' = n /\ raced' \subseteq raced \cup {n}
        /\ UNCHANGED <<accounts, lastUser, lastPassword, vouched>> /\ Done(h)
    BY <1>3, <2>1, <2>2 DEF LoginInsert
  <2>6. [user |-> q.user, password |-> q.password] \in SessionRow
    BY <2>3 DEF SessionRow
  <2>7. sessions' \in [Sessions -> SessionRow \cup {NoSession}]
    BY <2>4, <2>5, <2>6 DEF SessionTable
  <2>8. \A s \in Sessions : IsOpen(s)' => s <= lastSession' /\ Exists(sessions'[s].user)
    <3> SUFFICES ASSUME NEW s \in Sessions, IsOpen(s)'
                 PROVE  s <= lastSession' /\ Exists(sessions'[s].user)
      OBVIOUS
    <3>1. CASE s = n
      BY <3>1, <2>3, <2>4, <2>5 DEF SessionTable, Sessions
    <3>2. CASE s # n
      <4>1. sessions'[s] = sessions[s] /\ IsOpen(s)
        BY <3>2, <2>5 DEF IsOpen
      <4>2. s <= lastSession /\ Exists(sessions[s].user) /\ s \in Nat
        BY <4>1, OpenSession DEF Sessions
      <4>3. s <= n
        BY <2>4, <4>2 DEF Sessions
      <4> QED
        BY <2>5, <4>1, <4>2, <4>3
    <3> QED
      BY <3>1, <3>2
  <2>9. raced' \subseteq 1..lastSession' /\ lastSession' \in 0..MaxSessions
    BY <2>4, <2>5 DEF SessionTable, Sessions
  <2>10. SessionTable'
    <3>1. \A s \in Sessions : IsOpen(s)' => s <= lastSession' /\ Exists(sessions[s].user)'
      BY <2>5, <2>8 DEF Exists
    <3> QED
      BY <2>5, <2>7, <2>8, <2>9 DEF SessionTable, Exists
  <2> QED
    BY <2>5, <2>10, DoneType DEF AccountTable, Exists
<1>4. ASSUME NEW s \in Sessions, Expire(s) PROVE TypeOK'
  <2>1. SessionTable'
    BY <1>4, EndOneType DEF Expire
  <2> QED
    BY <1>4, <2>1 DEF Expire, AccountTable, Exists, Requests
<1>5. ASSUME NEW h \in Handlers, NEW s \in Sessions, Authenticate(h, s) PROVE TypeOK'
  <2>1. sessions[s].user \in Users /\ Exists(sessions[s].user)
    BY <1>5, OpenSession DEF Authenticate, Accepted
  <2>2. Serving(sessions[s].user, accounts[sessions[s].user].role, s) \in RequestType
    BY <2>1, LiveAccount DEF Serving, RequestType
  <2>3. Requests'
    BY <1>5, <2>2 DEF Authenticate, Requests
  <2> QED
    BY <1>5, <2>3 DEF Authenticate, AccountTable, SessionTable, Exists, IsOpen
<1>6. ASSUME NEW h \in Handlers, Logout(h) PROVE TypeOK'
  <2>1. SessionTable'
    <3>1. PICK s : s = request[h].session
      OBVIOUS
    <3>2. s \in Sessions
      BY <1>6, <3>1, RequestFields DEF Logout, IsServing
    <3> QED
      BY <1>6, <3>1, <3>2, EndOneType DEF Logout
  <2> QED
    BY <1>6, <2>1, DoneType DEF Logout, AccountTable, Exists
<1>7. ASSUME NEW h \in Handlers, NEW u \in Users, NEW role \in Roles \cup {""},
             NEW status \in {Disabled, Enabled}, UpdateUserRead(h, u, role, status)
      PROVE  TypeOK'
  <2>1. PICK q : q = request[h]
    OBVIOUS
  <2>2. accounts[u].role \in Roles /\ accounts[u].status \in {Disabled, Enabled}
    BY <1>7, LiveAccount DEF UpdateUserRead
  <2>3. PICK r : r = RoleToWrite(q.role, role, accounts[u].role)
    OBVIOUS
  <2>4. PICK st : st = StatusToWrite(q.role, role, status, accounts[u].status)
    OBVIOUS
  <2>5. r \in Roles /\ st \in {Disabled, Enabled}
    BY <2>2, <2>3, <2>4 DEF RoleToWrite, StatusToWrite
  <2>6. Updating(u, r, st, accounts[u].status) \in RequestType
    BY <2>2, <2>5 DEF Updating, RequestType
  <2>7. /\ request' = [request EXCEPT ![h] = Updating(u, r, st, accounts[u].status)]
        /\ vouched' \subseteq vouched \cup {u}
        /\ UNCHANGED <<accounts, lastUser, sessions, lastSession, lastPassword, raced>>
    BY <1>7, <2>1, <2>3, <2>4 DEF UpdateUserRead
  <2>8. Requests'
    BY <2>6, <2>7 DEF Requests
  <2> QED
    BY <2>7, <2>8 DEF AccountTable, SessionTable, Exists, IsOpen
<1>8. ASSUME NEW h \in Handlers, UpdateUserWrite(h) PROVE TypeOK'
  <2>1. PICK q : q = request[h]
    OBVIOUS
  <2>2. PICK u : u = q.user
    OBVIOUS
  <2>3. u \in Users /\ q.role \in Roles /\ q.status \in {Disabled, Enabled} /\ Exists(u)
    BY <1>8, <2>1, <2>2, RequestFields DEF UpdateUserWrite
  <2>4. /\ accounts' = [accounts EXCEPT ![u].role = q.role, ![u].status = q.status]
        /\ request' = [request EXCEPT ![h] = AfterWrite(q)]
        /\ raced' \subseteq raced \cup OpenSessions(u)
        /\ UNCHANGED <<lastUser, sessions, lastSession, lastPassword, vouched>>
    BY <1>8, <2>1, <2>2 DEF UpdateUserWrite
  <2>5. accounts'[u] \in AccountRow /\ accounts'[u].password = accounts[u].password
    BY <2>3, <2>4, LiveAccount DEF AccountTable, AccountRow
  <2>6. accounts' \in [Users -> AccountRow \cup {NoAccount}]
    BY <2>3, <2>4, <2>5 DEF AccountTable
  <2>7. \A v \in Users : /\ accounts'[v].password = accounts[v].password
                         /\ Exists(v)' <=> Exists(v)
    <3> SUFFICES ASSUME NEW v \in Users
                 PROVE  /\ accounts'[v].password = accounts[v].password
                        /\ Exists(v)' <=> Exists(v)
      OBVIOUS
    <3>1. CASE v = u
      BY <3>1, <2>3, <2>5 DEF Exists, AccountRow, Roles
    <3>2. CASE v # u
      BY <3>2, <2>3, <2>4 DEF Exists, AccountTable
    <3> QED
      BY <3>1, <3>2
  <2>8. AccountTable'
    BY <2>4, <2>6, <2>7 DEF AccountTable
  <2>9. SessionTable'
    <3>1. \A s \in Sessions : IsOpen(s) => sessions[s].user \in Users
      BY OpenSession
    <3>2. OpenSessions(u) \subseteq 1..lastSession
      <4>1. \A s \in OpenSessions(u) : s \in Sessions /\ IsOpen(s)
        BY <2>3, LiveAccount DEF OpenSessions, IsOpen
      <4> QED
        BY <4>1, OpenSession DEF Sessions, SessionTable
    <3>3. \A s \in Sessions : IsOpen(s)' => s <= lastSession' /\ Exists(sessions[s].user)'
      BY <2>4, <2>7, <3>1 DEF IsOpen, SessionTable
    <3> QED
      BY <2>4, <3>2, <3>3 DEF SessionTable
  <2>10. AfterWrite(q) \in RequestType
    BY <2>2, <2>3 DEF AfterWrite, Revoking, RequestType
  <2>11. Requests'
    BY <2>4, <2>10 DEF Requests
  <2> QED
    BY <2>8, <2>9, <2>11
<1>9. ASSUME NEW h \in Handlers, RevokeSessions(h) PROVE TypeOK'
  <2>1. SessionTable'
    <3>1. PICK u : u = request[h].user
      OBVIOUS
    <3>2. u \in Users
      BY <1>9, <3>1, RequestFields DEF RevokeSessions
    <3> QED
      BY <1>9, <3>1, <3>2, EndAllType DEF RevokeSessions
  <2> QED
    BY <1>9, <2>1, DoneType DEF RevokeSessions, AccountTable, Exists
<1>10. ASSUME NEW h \in Handlers, NEW u \in Users, DeleteUser(h, u) PROVE TypeOK'
  <2>1. /\ accounts' = [accounts EXCEPT ![u] = NoAccount]
        /\ sessions' = SessionsEnded(u)
        /\ UNCHANGED <<lastUser, lastSession, lastPassword, raced, vouched>> /\ Done(h)
    BY <1>10 DEF DeleteUser
  <2>2. SessionTable'
    BY <2>1, EndAllType DEF AccountTable
  <2>3. AccountTable'
    BY <2>1 DEF AccountTable, Exists, NoAccount
  <2> QED
    BY <2>1, <2>2, <2>3, DoneType
<1>11. ASSUME NEW h \in Handlers, ChangePasswordRead(h) PROVE TypeOK'
  <2>1. Changing(request[h].user) \in RequestType
    BY <1>11, RequestFields DEF ChangePasswordRead, IsServing, Changing, RequestType
  <2>2. Requests'
    BY <1>11, <2>1 DEF ChangePasswordRead, Requests
  <2> QED
    BY <1>11, <2>2 DEF ChangePasswordRead, AccountTable, SessionTable, Exists, IsOpen
<1>12. ASSUME NEW h \in Handlers, NEW u \in Users, Exists(u), SetPassword(u), Done(h),
              UNCHANGED <<lastUser, lastSession, raced, vouched>>
       PROVE  TypeOK'
  <2>1. PICK p : p = lastPassword + 1
    OBVIOUS
  <2>2. p \in Passwords /\ lastPassword < p /\ lastPassword \in Nat
    BY <1>12, <2>1, BoundsAssumption DEF SetPassword, AccountTable, Passwords
  <2>3. /\ accounts' = [accounts EXCEPT ![u].password = p]
        /\ sessions' = SessionsEnded(u)
        /\ lastPassword' = p
    BY <1>12, <2>1 DEF SetPassword, Hash
  <2>4. accounts'[u] \in AccountRow /\ accounts'[u].password = p
    BY <1>12, <2>2, <2>3, LiveAccount DEF AccountTable, AccountRow
  <2>5. accounts' \in [Users -> AccountRow \cup {NoAccount}]
    BY <2>3, <2>4 DEF AccountTable
  <2>6. \A v \in Users : Exists(v)' => v <= lastUser' /\ accounts'[v].password <= lastPassword'
    <3> SUFFICES ASSUME NEW v \in Users, Exists(v)'
                 PROVE  v <= lastUser' /\ accounts'[v].password <= lastPassword'
      OBVIOUS
    <3>1. CASE v = u
      BY <1>12, <3>1, <2>2, <2>3, <2>4 DEF AccountTable, Passwords
    <3>2. CASE v # u
      <4>1. accounts'[v] = accounts[v] /\ Exists(v)
        BY <3>2, <2>3 DEF Exists
      <4>2. v <= lastUser /\ accounts[v].password <= lastPassword
        BY <4>1 DEF AccountTable
      <4>3. accounts[v].password \in Nat
        BY <4>1, LiveAccount DEF Passwords
      <4> QED
        BY <1>12, <2>2, <2>3, <4>1, <4>2, <4>3 DEF Passwords
    <3> QED
      BY <3>1, <3>2
  <2>7. AccountTable'
    BY <1>12, <2>2, <2>3, <2>5, <2>6 DEF AccountTable, Passwords
  <2>8. SessionTable'
    BY <1>12, <2>3, EndAllType DEF AccountTable
  <2> QED
    BY <1>12, <2>7, <2>8, DoneType
<1>13. ASSUME NEW h \in Handlers, ChangePasswordCommit(h) PROVE TypeOK'
  <2>1. PICK u : u = request[h].user
    OBVIOUS
  <2>2. u \in Users
    BY <1>13, <2>1, RequestFields DEF ChangePasswordCommit
  <2> QED
    BY <1>12, <1>13, <2>1, <2>2 DEF ChangePasswordCommit
<1>14. ASSUME NEW h \in Handlers, NEW u \in Users, ResetPassword(h, u) PROVE TypeOK'
  BY <1>12, <1>14 DEF ResetPassword
<1>15. ASSUME NEW h \in Handlers, Abandon(h) PROVE TypeOK'
  <2>1. raced' \subseteq 1..lastSession
    <3>1. CASE request[h].op # "revoke"
      BY <3>1, <1>15 DEF Abandon, SessionTable
    <3>2. CASE request[h].op = "revoke"
      <4>1. request[h].user \in Users
        BY <3>2, RequestFields
      <4>2. \A s \in OpenSessions(request[h].user) : s \in Sessions /\ IsOpen(s)
        BY <4>1 DEF OpenSessions, IsOpen, Users
      <4>3. OpenSessions(request[h].user) \subseteq 1..lastSession
        BY <4>2, OpenSession DEF Sessions, SessionTable
      <4> QED
        BY <3>2, <4>3, <1>15 DEF Abandon, SessionTable
    <3> QED
      BY <3>1, <3>2
  <2> QED
    BY <1>15, <2>1, DoneType DEF Abandon, AccountTable, SessionTable, Exists, IsOpen
<1>16. CASE UNCHANGED vars
  BY <1>16 DEF vars, AccountTable, SessionTable, Requests, Exists, IsOpen
<1> QED
  BY <1>1, <1>2, <1>3, <1>4, <1>5, <1>6, <1>7, <1>8, <1>9, <1>10, <1>11, <1>13, <1>14, <1>15, <1>16
     DEF Next, SessionRequest, AccountRequest

\* Every reachable state of an account database is well formed: in particular no
\* session outlives its account (DeleteUser), however requests interleave.
THEOREM TypeCorrect == Spec => []TypeOK
<1>1. Init => TypeOK
  BY InitType
<1>2. TypeOK /\ [Next]_vars => TypeOK'
  BY NextType
<1> QED
  BY <1>1, <1>2, PTL DEF Spec

----------------------------------------------------------------------------
\* Races.

\* A pending revocation stays pending while another request moves on.
LEMMA PendingKept ==
  ASSUME Requests, NEW h \in Handlers, NEW x, request' = [request EXCEPT ![h] = x]
  PROVE  \A u : RevokePending(u) /\ (request[h].op = "revoke" => request[h].user # u) => RevokePending(u)'
BY DEF RevokePending, Requests

\* The bounds survive a step that opens no session, changes the password of no account
\* with an open one, and disables none but with a revocation to come.
LEMMA QuietStep ==
  ASSUME TypeOK, OldPasswordIsRaced, DisabledSessionIsRaced, raced \subseteq raced',
         \A s \in Sessions : \A u : IsOpen(s)' /\ s \notin raced' /\ u = sessions'[s].user =>
           /\ IsOpen(s) /\ sessions'[s] = sessions[s]
           /\ accounts'[u].password = accounts[u].password
           /\ accounts'[u].status = Disabled =>
                \/ RevokePending(u)'
                \/ accounts[u].status = Disabled /\ (RevokePending(u) => RevokePending(u)')
  PROVE  OldPasswordIsRaced' /\ DisabledSessionIsRaced'
<1>1. OldPasswordIsRaced'
  BY DEF OldPasswordIsRaced
<1>2. ASSUME NEW s \in Sessions, NEW u, IsOpen(s)', s \notin raced', u = sessions'[s].user,
             accounts'[u].status = Disabled
      PROVE  RevokePending(u)'
  <2>1. /\ IsOpen(s) /\ u = sessions[s].user /\ s \notin raced
        /\ \/ RevokePending(u)'
           \/ accounts[u].status = Disabled /\ (RevokePending(u) => RevokePending(u)')
    BY <1>2
  <2>2. accounts[u].status = Disabled => RevokePending(u)
    BY <2>1 DEF DisabledSessionIsRaced
  <2> QED
    BY <2>1, <2>2
<1>3. DisabledSessionIsRaced'
  BY <1>2 DEF DisabledSessionIsRaced, RevokePending
<1> QED
  BY <1>1, <1>3

\* The steps that only write the request of a handler with no revocation to make.
LEMMA ReadStep ==
  ASSUME TypeOK, OldPasswordIsRaced, DisabledSessionIsRaced, NEW h \in Handlers, NEW x,
         request' = [request EXCEPT ![h] = x], request[h].op # "revoke",
         UNCHANGED <<accounts, sessions, raced>>
  PROVE  OldPasswordIsRaced' /\ DisabledSessionIsRaced'
<1>1. \A u : RevokePending(u) => RevokePending(u)'
  BY PendingKept DEF TypeOK
<1> QED
  BY <1>1, QuietStep DEF IsOpen

LEMMA InitBounds == Init => OldPasswordIsRaced /\ DisabledSessionIsRaced
BY DEF Init, OldPasswordIsRaced, DisabledSessionIsRaced, IsOpen, NoSession

LEMMA NextBounds ==
  TypeOK /\ OldPasswordIsRaced /\ DisabledSessionIsRaced /\ [Next]_vars =>
    OldPasswordIsRaced' /\ DisabledSessionIsRaced'
<1> DEFINE Bounds == OldPasswordIsRaced /\ DisabledSessionIsRaced
<1> SUFFICES ASSUME TypeOK, OldPasswordIsRaced, DisabledSessionIsRaced, [Next]_vars PROVE Bounds'
  OBVIOUS
<1> USE DEF TypeOK
<1>a. \A s \in Sessions : IsOpen(s) => sessions[s].user \in Users /\ Exists(sessions[s].user)
  BY OpenSession
<1>1. ASSUME NEW h \in Handlers, Register(h) PROVE Bounds'
  <2>1. PICK n : n = lastUser + 1
    OBVIOUS
  <2>2. PICK row : row = [role |-> "USER", status |-> Enabled, password |-> Hash]
    OBVIOUS
  <2>3. accounts' = [accounts EXCEPT ![n] = row] /\ UNCHANGED <<sessions, request, raced>>
    BY <1>1, <2>1, <2>2 DEF Register
  <2>4. \A s \in Sessions : IsOpen(s) => sessions[s].user # n
    BY <1>a, <2>1 DEF AccountTable
  <2>5. \A s \in Sessions : IsOpen(s) => accounts'[sessions[s].user] = accounts[sessions[s].user]
    BY <1>a, <2>3, <2>4 DEF AccountTable
  <2>6. \A u : RevokePending(u) => RevokePending(u)'
    BY <2>3 DEF RevokePending
  <2> QED
    BY <2>3, <2>5, <2>6, QuietStep DEF IsOpen
<1>2. ASSUME NEW h \in Handlers, NEW u \in Users, LoginRead(h, u) PROVE Bounds'
  <2>1. PICK x : request' = [request EXCEPT ![h] = x]
    BY <1>2 DEF LoginRead
  <2>2. request[h].op # "revoke"
    BY <1>2 DEF LoginRead, IsIdle, Idle
  <2> QED
    BY <1>2, <2>1, <2>2, ReadStep DEF LoginRead
<1>3. ASSUME NEW h \in Handlers, LoginInsert(h) PROVE Bounds'
  <2>1. PICK q : q = request[h]
    OBVIOUS
  <2>2. PICK n : n = lastSession + 1
    OBVIOUS
  <2>3. n \in Sessions
    BY <1>3, <2>2, BoundsAssumption DEF LoginInsert, SessionTable, Sessions
  <2>4. /\ sessions' = [sessions EXCEPT ![n] = [user |-> q.user, password |-> q.password]]
        /\ accounts' = accounts /\ raced \subseteq raced'
        /\ n \notin raced' => /\ accounts[q.user].status = Enabled
                              /\ accounts[q.user].password = q.password
        /\ request' = [request EXCEPT ![h] = Idle] /\ request[h].op = "login"
    BY <1>3, <2>1, <2>2 DEF LoginInsert, Done
  <2>5. \A s \in Sessions : s # n => sessions'[s] = sessions[s] /\ (IsOpen(s)' <=> IsOpen(s))
    BY <2>4 DEF IsOpen
  <2>6. sessions'[n].user = q.user /\ sessions'[n].password = q.password
    BY <2>3, <2>4 DEF SessionTable
  <2>7. OldPasswordIsRaced'
    <3> SUFFICES ASSUME NEW s \in Sessions, IsOpen(s)', s \notin raced'
                 PROVE  sessions'[s].password = accounts'[sessions'[s].user].password
      BY DEF OldPasswordIsRaced
    <3>1. CASE s = n
      BY <3>1, <2>4, <2>6
    <3>2. CASE s # n
      BY <3>2, <2>4, <2>5 DEF OldPasswordIsRaced
    <3> QED
      BY <3>1, <3>2
  <2>8. ASSUME NEW s \in Sessions, IsOpen(s)', s \notin raced',
               accounts'[sessions'[s].user].status = Disabled
        PROVE  \E g \in Handlers : request'[g].op = "revoke" /\ request'[g].user = sessions'[s].user
    <3>1. s # n
      BY <2>4, <2>6, <2>8
    <3>2. RevokePending(sessions[s].user)
      BY <3>1, <2>4, <2>5, <2>8 DEF DisabledSessionIsRaced
    <3>3. PICK g \in Handlers : request[g].op = "revoke" /\ request[g].user = sessions[s].user
      BY <3>2 DEF RevokePending
    <3>4. request'[g] = request[g]
      BY <3>3, <2>4 DEF Requests
    <3> QED
      BY <3>1, <3>3, <3>4, <2>5
  <2>9. DisabledSessionIsRaced'
    BY <2>8 DEF DisabledSessionIsRaced, RevokePending
  <2> QED
    BY <2>7, <2>9
<1>4. ASSUME NEW s \in Sessions, Expire(s) PROVE Bounds'
  <2>1. \A t \in Sessions : IsOpen(t)' => IsOpen(t) /\ sessions'[t] = sessions[t]
    BY <1>4, StillOpen DEF Expire
  <2>2. \A u : RevokePending(u) => RevokePending(u)'
    BY <1>4 DEF Expire, RevokePending
  <2> QED
    BY <1>4, <2>1, <2>2, QuietStep DEF Expire
<1>5. ASSUME NEW h \in Handlers, NEW s \in Sessions, Authenticate(h, s) PROVE Bounds'
  <2>1. PICK x : request' = [request EXCEPT ![h] = x]
    BY <1>5 DEF Authenticate
  <2>2. request[h].op # "revoke"
    BY <1>5 DEF Authenticate, IsIdle, Idle
  <2> QED
    BY <1>5, <2>1, <2>2, ReadStep DEF Authenticate
<1>6. ASSUME NEW h \in Handlers, Logout(h) PROVE Bounds'
  <2>1. \A t \in Sessions : IsOpen(t)' => IsOpen(t) /\ sessions'[t] = sessions[t]
    <3>1. PICK s : s = request[h].session
      OBVIOUS
    <3>2. s \in Sessions
      BY <1>6, <3>1, RequestFields DEF Logout, IsServing
    <3> QED
      BY <1>6, <3>1, <3>2, StillOpen DEF Logout
  <2>2. \A u : RevokePending(u) => RevokePending(u)'
    BY <1>6, PendingKept DEF Logout, Done, IsServing
  <2> QED
    BY <1>6, <2>1, <2>2, QuietStep DEF Logout
<1>7. ASSUME NEW h \in Handlers, NEW u \in Users, NEW role \in Roles \cup {""},
             NEW status \in {Disabled, Enabled}, UpdateUserRead(h, u, role, status)
      PROVE  Bounds'
  <2>1. PICK x : request' = [request EXCEPT ![h] = x]
    BY <1>7 DEF UpdateUserRead
  <2> QED
    BY <1>7, <2>1, ReadStep DEF UpdateUserRead, IsServing
<1>8. ASSUME NEW h \in Handlers, UpdateUserWrite(h) PROVE Bounds'
  <2>1. PICK q : q = request[h]
    OBVIOUS
  <2>2. PICK u : u = q.user
    OBVIOUS
  <2>3. /\ u \in Users /\ Exists(u) /\ request[h].op = "update"
        /\ q.status \in {Disabled, Enabled} /\ q.was \in {Disabled, Enabled}
    BY <1>8, <2>1, <2>2, RequestFields DEF UpdateUserWrite
  <2>4. /\ accounts' = [accounts EXCEPT ![u].role = q.role, ![u].status = q.status]
        /\ request' = [request EXCEPT ![h] = AfterWrite(q)] /\ sessions' = sessions
        /\ raced' = IF accounts[u].status # q.was THEN raced \cup OpenSessions(u) ELSE raced
    BY <1>8, <2>1, <2>2 DEF UpdateUserWrite
  <2>5. \A v \in Users : accounts'[v].password = accounts[v].password
    BY <2>3, <2>4, LiveAccount DEF AccountTable, AccountRow
  <2>6. \A v : RevokePending(v) => RevokePending(v)'
    BY <2>3, <2>4, PendingKept
  <2>7. ASSUME NEW s \in Sessions, NEW v, IsOpen(s), s \notin raced', v = sessions[s].user,
               accounts'[v].status = Disabled
        PROVE  RevokePending(v)' \/ accounts[v].status = Disabled
    <3>1. CASE v # u
      <4>1. accounts'[v] = accounts[v]
        BY <3>1, <2>3, <2>4, <1>a, <2>7 DEF AccountTable
      <4> QED
        BY <4>1, <2>7
    <3>2. CASE v = u /\ q.was = Disabled
      <4>1. accounts[u].status = q.was
        BY <3>2, <2>4, <2>7 DEF OpenSessions
      <4> QED
        BY <4>1, <3>2
    <3>3. CASE v = u /\ q.was = Enabled
      <4>1. q.status = Disabled
        BY <3>3, <2>3, <2>4, <2>7, LiveAccount DEF AccountTable, AccountRow
      <4>2. AfterWrite(q) = Revoking(u)
        BY <4>1, <3>3, <2>2 DEF AfterWrite
      <4>3. request'[h].op = "revoke" /\ request'[h].user = u
        BY <4>2, <2>4 DEF Requests, Revoking
      <4> QED
        BY <4>3, <3>3 DEF RevokePending
    <3> QED
      BY <3>1, <3>2, <3>3, <2>3
  <2>8. \A s \in Sessions : IsOpen(s)' => IsOpen(s) /\ sessions'[s] = sessions[s]
    BY <2>4 DEF IsOpen
  <2>9. raced \subseteq raced'
    BY <2>4
  <2> QED
    BY <2>5, <2>6, <2>7, <2>8, <2>9, <1>a, QuietStep
<1>9. ASSUME NEW h \in Handlers, RevokeSessions(h) PROVE Bounds'
  <2>1. PICK u : u = request[h].user
    OBVIOUS
  <2>2. u \in Users /\ sessions' = SessionsEnded(u) /\ request' = [request EXCEPT ![h] = Idle]
        /\ UNCHANGED <<accounts, raced>>
    BY <1>9, <2>1, RequestFields DEF RevokeSessions, Done
  <2>3. \A t \in Sessions : IsOpen(t)' => IsOpen(t) /\ sessions'[t] = sessions[t]
    BY <2>2, StillOpen
  <2>4. \A t \in Sessions : IsOpen(t)' => sessions[t].user # u
    BY <2>2 DEF SessionsEnded, IsOpen, NoSession
  <2>5. \A v : v # u /\ RevokePending(v) => RevokePending(v)'
    BY <2>1, <2>2, PendingKept
  <2> QED
    BY <2>2, <2>3, <2>4, <2>5, QuietStep
<1>10. ASSUME NEW h \in Handlers, NEW u \in Users, sessions' = SessionsEnded(u), Done(h),
              request[h].op # "revoke", raced' = raced,
              \A v \in Users \ {u} : accounts'[v] = accounts[v]
       PROVE  Bounds'
  <2>1. \A t \in Sessions : IsOpen(t)' => IsOpen(t) /\ sessions'[t] = sessions[t]
    BY <1>10, StillOpen
  <2>2. \A t \in Sessions : IsOpen(t)' => sessions[t].user # u
    BY <1>10 DEF SessionsEnded, IsOpen, NoSession
  <2>3. \A v : RevokePending(v) => RevokePending(v)'
    BY <1>10, PendingKept DEF Done
  <2>4. \A t \in Sessions : IsOpen(t)' => accounts'[sessions[t].user] = accounts[sessions[t].user]
    BY <1>10, <1>a, <2>1, <2>2
  <2> QED
    BY <1>10, <2>1, <2>3, <2>4, QuietStep
<1>11. ASSUME NEW h \in Handlers, NEW u \in Users, DeleteUser(h, u) PROVE Bounds'
  BY <1>10, <1>11 DEF DeleteUser, IsServing, AccountTable
<1>12. ASSUME NEW h \in Handlers, ChangePasswordRead(h) PROVE Bounds'
  BY <1>12, ReadStep DEF ChangePasswordRead, IsServing
<1>13. ASSUME NEW h \in Handlers, ChangePasswordCommit(h) PROVE Bounds'
  <2>1. PICK u : u = request[h].user
    OBVIOUS
  <2>2. u \in Users /\ SetPassword(u) /\ Done(h) /\ request[h].op = "password" /\ raced' = raced
    BY <1>13, <2>1, RequestFields DEF ChangePasswordCommit
  <2> QED
    BY <1>10, <2>2 DEF SetPassword, AccountTable
<1>14. ASSUME NEW h \in Handlers, NEW u \in Users, ResetPassword(h, u) PROVE Bounds'
  BY <1>10, <1>14 DEF ResetPassword, IsServing, SetPassword, AccountTable
<1>15. ASSUME NEW h \in Handlers, Abandon(h) PROVE Bounds'
  <2>1. request' = [request EXCEPT ![h] = Idle] /\ UNCHANGED <<accounts, sessions>>
        /\ raced \subseteq raced'
    BY <1>15 DEF Abandon, Done
  <2>2. ASSUME NEW t \in Sessions, NEW u, t \notin raced', u = sessions[t].user
        PROVE  RevokePending(u) => RevokePending(u)'
    <3>1. request[h].op = "revoke" => request[h].user # u
      BY <1>15, <2>2 DEF Abandon, OpenSessions
    <3> QED
      BY <2>1, <3>1, PendingKept
  <2> QED
    BY <2>1, <2>2, QuietStep DEF IsOpen
<1>16. CASE UNCHANGED vars
  BY <1>16 DEF vars, OldPasswordIsRaced, DisabledSessionIsRaced, RevokePending, IsOpen
<1> QED
  BY <1>1, <1>2, <1>3, <1>4, <1>5, <1>6, <1>7, <1>8, <1>9, <1>11, <1>12, <1>13, <1>14, <1>15, <1>16
     DEF Next, SessionRequest, AccountRequest

----------------------------------------------------------------------------
\* Administrators.

LEMMA InitVouched == Init => AdminsAreVouched
<1> SUFFICES ASSUME Init PROVE AdminsAreVouched
  OBVIOUS
<1>1. \A u \in Users : accounts[u].role = "ADMIN" => u = 1
  BY DEF Init, NoAccount
<1> QED
  BY <1>1 DEF Init, AdminsAreVouched, Idle

\* A step that makes no account ADMIN and starts or continues no request as one, but for
\* accounts vouched for.
LEMMA VouchedStep ==
  ASSUME Requests, AdminsAreVouched, vouched \subseteq vouched',
         \A u \in Users : accounts'[u].role = "ADMIN" => u \in vouched',
         NEW h \in Handlers, NEW x, request' = [request EXCEPT ![h] = x],
         x.op \in {"serving", "update"} /\ x.role = "ADMIN" => x.user \in vouched'
  PROVE  AdminsAreVouched'
<1>1. \A g \in Handlers : request'[g] = IF g = h THEN x ELSE request[g]
  BY DEF Requests
<1> QED
  BY <1>1 DEF AdminsAreVouched

LEMMA NextVouched == TypeOK /\ AdminsAreVouched /\ [Next]_vars => AdminsAreVouched'
<1> SUFFICES ASSUME TypeOK, AdminsAreVouched, [Next]_vars PROVE AdminsAreVouched'
  OBVIOUS
<1> USE DEF TypeOK
<1>a. \A u \in Users : accounts[u].role = "ADMIN" => u \in vouched
  BY DEF AdminsAreVouched
<1>b. /\ Idle.op \notin {"serving", "update"}
      /\ \A u, p : LoggingIn(u, p).op \notin {"serving", "update"}
      /\ \A u : Changing(u).op \notin {"serving", "update"} /\ Revoking(u).op \notin {"serving", "update"}
  BY DEF Idle, LoggingIn, Changing, Revoking
<1>1. ASSUME NEW h \in Handlers, Register(h) PROVE AdminsAreVouched'
  <2>1. PICK n : n = lastUser + 1
    OBVIOUS
  <2>2. PICK row : row = [role |-> "USER", status |-> Enabled, password |-> Hash]
    OBVIOUS
  <2>3. accounts' = [accounts EXCEPT ![n] = row] /\ UNCHANGED <<request, vouched>> /\ row.role = "USER"
    BY <1>1, <2>1, <2>2 DEF Register
  <2>4. \A u \in Users : accounts'[u].role = "ADMIN" => accounts[u].role = "ADMIN"
    BY <2>3 DEF AccountTable
  <2> QED
    BY <2>3, <2>4 DEF AdminsAreVouched
<1>2. ASSUME NEW h \in Handlers, NEW u \in Users, LoginRead(h, u) PROVE AdminsAreVouched'
  <2>1. PICK x : x = LoggingIn(u, accounts[u].password)
    OBVIOUS
  <2> QED
    BY <1>2, <1>a, <1>b, <2>1, VouchedStep DEF LoginRead
<1>3. ASSUME NEW h \in Handlers, Done(h), UNCHANGED <<accounts, vouched>> PROVE AdminsAreVouched'
  BY <1>3, <1>a, <1>b, VouchedStep DEF Done
<1>4. ASSUME NEW s \in Sessions, Expire(s) PROVE AdminsAreVouched'
  BY <1>4 DEF Expire, AdminsAreVouched
<1>5. ASSUME NEW h \in Handlers, NEW s \in Sessions, Authenticate(h, s) PROVE AdminsAreVouched'
  <2>1. PICK u : u = sessions[s].user
    OBVIOUS
  <2>2. PICK r : r = accounts[u].role
    OBVIOUS
  <2>3. u \in Users
    BY <1>5, <2>1, OpenSession DEF Authenticate, Accepted
  <2>4. request' = [request EXCEPT ![h] = Serving(u, r, s)] /\ UNCHANGED <<accounts, vouched>>
    BY <1>5, <2>1, <2>2 DEF Authenticate
  <2>5. Serving(u, r, s).role = "ADMIN" => Serving(u, r, s).user \in vouched
    BY <1>a, <2>2, <2>3 DEF Serving
  <2> QED
    BY <1>a, <2>4, <2>5, VouchedStep
<1>6. ASSUME NEW h \in Handlers, NEW u \in Users, NEW role \in Roles \cup {""},
             NEW status \in {Disabled, Enabled}, UpdateUserRead(h, u, role, status)
      PROVE  AdminsAreVouched'
  <2>1. PICK q : q = request[h]
    OBVIOUS
  <2>2. PICK r : r = RoleToWrite(q.role, role, accounts[u].role)
    OBVIOUS
  <2>3. PICK was : was = accounts[u].status
    OBVIOUS
  <2>4. PICK st : st = StatusToWrite(q.role, role, status, was)
    OBVIOUS
  <2>5. /\ request' = [request EXCEPT ![h] = Updating(u, r, st, was)]
        /\ vouched' = IF q.role = "ADMIN" /\ r = "ADMIN" THEN vouched \cup {u} ELSE vouched
        /\ accounts' = accounts
    BY <1>6, <2>1, <2>2, <2>3, <2>4 DEF UpdateUserRead
  <2>6. r = "ADMIN" => q.role = "ADMIN" \/ accounts[u].role = "ADMIN"
    BY <2>2 DEF RoleToWrite
  <2>7. r = "ADMIN" => u \in vouched'
    BY <1>a, <2>5, <2>6
  <2>8. Updating(u, r, st, was).role = r /\ Updating(u, r, st, was).user = u
    BY DEF Updating
  <2>9. vouched \subseteq vouched'
    BY <2>5
  <2> QED
    BY <1>a, <2>5, <2>7, <2>8, <2>9, VouchedStep
<1>7. ASSUME NEW h \in Handlers, UpdateUserWrite(h) PROVE AdminsAreVouched'
  <2>1. PICK q : q = request[h]
    OBVIOUS
  <2>2. q.user \in Users /\ q.op = "update"
    BY <1>7, <2>1, RequestFields DEF UpdateUserWrite
  <2>3. /\ accounts' = [accounts EXCEPT ![q.user].role = q.role, ![q.user].status = q.status]
        /\ request' = [request EXCEPT ![h] = AfterWrite(q)] /\ vouched' = vouched
    BY <1>7, <2>1 DEF UpdateUserWrite
  <2>4. q.role = "ADMIN" => q.user \in vouched
    BY <2>1, <2>2 DEF AdminsAreVouched
  <2>5. \A u \in Users : accounts'[u].role = "ADMIN" => u \in vouched'
    <3> SUFFICES ASSUME NEW u \in Users, accounts'[u].role = "ADMIN" PROVE u \in vouched
      BY <2>3
    <3>1. CASE u = q.user
      <4>1. Exists(u)
        BY <1>7, <2>1, <3>1 DEF UpdateUserWrite
      <4>2. accounts'[u].role = q.role
        BY <2>3, <3>1, <4>1, LiveAccount DEF AccountTable, AccountRow
      <4> QED
        BY <2>4, <3>1, <4>2
    <3>2. CASE u # q.user
      BY <1>a, <2>3, <3>2 DEF AccountTable
    <3> QED
      BY <3>1, <3>2
  <2>6. AfterWrite(q).op \notin {"serving", "update"}
    BY <1>b DEF AfterWrite
  <2> QED
    BY <2>3, <2>5, <2>6, VouchedStep
<1>8. ASSUME NEW h \in Handlers, NEW u \in Users, DeleteUser(h, u) PROVE AdminsAreVouched'
  <2>1. \A v \in Users : accounts'[v].role = "ADMIN" => v \in vouched
    BY <1>8, <1>a DEF DeleteUser, NoAccount, AccountTable
  <2> QED
    BY <1>8, <1>b, <2>1, VouchedStep DEF DeleteUser, Done
<1>9. ASSUME NEW h \in Handlers, ChangePasswordRead(h) PROVE AdminsAreVouched'
  <2>1. PICK x : x = Changing(request[h].user)
    OBVIOUS
  <2> QED
    BY <1>9, <1>a, <1>b, <2>1, VouchedStep DEF ChangePasswordRead
<1>10. ASSUME NEW h \in Handlers, NEW u \in Users, Exists(u), SetPassword(u), Done(h), vouched' = vouched
       PROVE  AdminsAreVouched'
  <2>1. PICK p : p = Hash
    OBVIOUS
  <2>2. accounts' = [accounts EXCEPT ![u].password = p]
    BY <1>10, <2>1 DEF SetPassword
  <2>3. \A v \in Users : accounts'[v].role = accounts[v].role
    BY <1>10, <2>2, LiveAccount DEF AccountTable, AccountRow
  <2> QED
    BY <1>10, <1>a, <1>b, <2>3, VouchedStep DEF Done
<1>11. ASSUME NEW h \in Handlers, ChangePasswordCommit(h) PROVE AdminsAreVouched'
  <2>1. PICK u : u = request[h].user
    OBVIOUS
  <2>2. u \in Users
    BY <1>11, <2>1, RequestFields DEF ChangePasswordCommit
  <2> QED
    BY <1>10, <1>11, <2>1, <2>2 DEF ChangePasswordCommit
<1>12. ASSUME NEW h \in Handlers, NEW u \in Users, ResetPassword(h, u) PROVE AdminsAreVouched'
  BY <1>10, <1>12 DEF ResetPassword
<1>13. CASE UNCHANGED vars
  BY <1>13 DEF vars, AdminsAreVouched
<1>14. ASSUME NEW h \in Handlers, LoginInsert(h) \/ Logout(h) \/ RevokeSessions(h) \/ Abandon(h)
       PROVE  AdminsAreVouched'
  BY <1>3, <1>14 DEF LoginInsert, Logout, RevokeSessions, Abandon
<1> QED
  BY <1>1, <1>2, <1>4, <1>5, <1>6, <1>7, <1>8, <1>9, <1>11, <1>12, <1>13, <1>14
     DEF Next, SessionRequest, AccountRequest

----------------------------------------------------------------------------

\* What holds of sessions and accounts together, whatever the interleaving.
LEMMA SessionBounds == Spec => [](OldPasswordIsRaced /\ DisabledSessionIsRaced /\ AdminsAreVouched)
<1>1. Init => IInv
  BY InitType, InitBounds, InitVouched DEF IInv
<1>2. IInv /\ [Next]_vars => IInv'
  BY NextType, NextBounds, NextVouched DEF IInv
<1>3. IInv => OldPasswordIsRaced /\ DisabledSessionIsRaced /\ AdminsAreVouched
  BY DEF IInv
<1> QED
  BY <1>1, <1>2, <1>3, PTL DEF Spec

\* An open session answers to the present password of its account, or a login read the
\* account before the password was changed and inserted the session after.
THEOREM OldPasswordsAreRaced == Spec => []OldPasswordIsRaced
BY SessionBounds, PTL

\* An open session of a disabled account is raced, or about to be revoked by the request
\* that disabled the account.
THEOREM DisabledAreRaced == Spec => []DisabledSessionIsRaced
BY SessionBounds, PTL

\* Only accounts that an administrator vouched for are administrators, and a request
\* served as an administrator's is one of theirs.
THEOREM AdminsVouched == Spec => []AdminsAreVouched
BY SessionBounds, PTL

\* A session number is used once: a session already inserted and over stays over.
LEMMA OverStaysOver ==
  ASSUME TypeOK, [Next]_vars, NEW s \in Sessions, s <= lastSession, ~IsOpen(s)
  PROVE  s <= lastSession' /\ ~IsOpen(s)'
<1> USE DEF TypeOK
<1>1. ASSUME NEW h \in Handlers, LoginInsert(h) PROVE s <= lastSession' /\ ~IsOpen(s)'
  <2>1. s # lastSession + 1 /\ lastSession' = lastSession + 1 /\ s <= lastSession'
    BY <1>1 DEF LoginInsert, SessionTable, Sessions
  <2> QED
    BY <1>1, <2>1 DEF LoginInsert, IsOpen
<1>2. ASSUME \/ \E u \in Users : sessions' = SessionsEnded(u)
             \/ \E t \in Sessions : sessions' = [sessions EXCEPT ![t] = NoSession]
             \/ sessions' = sessions,
             lastSession' = lastSession
      PROVE  s <= lastSession' /\ ~IsOpen(s)'
  BY <1>2, StillOpen
<1>3. ASSUME NEW h \in Handlers, Logout(h) PROVE s <= lastSession' /\ ~IsOpen(s)'
  BY <1>2, <1>3, RequestFields DEF Logout, IsServing
<1>4. ASSUME NEW h \in Handlers, RevokeSessions(h) PROVE s <= lastSession' /\ ~IsOpen(s)'
  BY <1>2, <1>4, RequestFields DEF RevokeSessions
<1>5. ASSUME NEW h \in Handlers, ChangePasswordCommit(h) PROVE s <= lastSession' /\ ~IsOpen(s)'
  BY <1>2, <1>5, RequestFields DEF ChangePasswordCommit, SetPassword
<1>6. ASSUME NEW h \in Handlers, NEW u \in Users, DeleteUser(h, u) \/ ResetPassword(h, u)
      PROVE  s <= lastSession' /\ ~IsOpen(s)'
  BY <1>2, <1>6 DEF DeleteUser, ResetPassword, SetPassword
<1>7. ASSUME NEW t \in Sessions, Expire(t) PROVE s <= lastSession' /\ ~IsOpen(s)'
  BY <1>2, <1>7 DEF Expire
<1>8. ASSUME UNCHANGED <<sessions, lastSession>> PROVE s <= lastSession' /\ ~IsOpen(s)'
  BY <1>2, <1>8
<1>9. ASSUME NEW h \in Handlers,
             \/ Register(h) \/ UpdateUserWrite(h) \/ ChangePasswordRead(h) \/ Abandon(h)
             \/ \E u \in Users : LoginRead(h, u)
             \/ \E t \in Sessions : Authenticate(h, t)
             \/ \E u \in Users, role \in Roles \cup {""}, status \in {Disabled, Enabled} :
                  UpdateUserRead(h, u, role, status)
      PROVE  UNCHANGED <<sessions, lastSession>>
  BY <1>9 DEF Register, UpdateUserWrite, ChangePasswordRead, Abandon, LoginRead, Authenticate,
              UpdateUserRead
<1> QED
  BY <1>1, <1>3, <1>4, <1>5, <1>6, <1>7, <1>8, <1>9 DEF Next, SessionRequest, AccountRequest, vars

\* Once Authenticate would refuse a session it refuses it for ever, but for raced
\* sessions and those about to be revoked.
THEOREM RefusalIsFinal == Spec => RefusedStaysRefused
<1>1. Init => IInv
  BY InitType, InitBounds, InitVouched DEF IInv
<1>2. IInv /\ [Next]_vars => IInv'
  BY NextType, NextBounds, NextVouched DEF IInv
<1>3. ASSUME IInv, [Next]_vars
      PROVE  \A s \in Sessions :
               Refused(s) /\ s \notin raced /\ ~RevokePending(sessions[s].user) => Refused(s)'
  <2> SUFFICES ASSUME NEW s \in Sessions, Refused(s), s \notin raced,
                      ~RevokePending(sessions[s].user)
               PROVE  Refused(s)'
    OBVIOUS
  <2>1. TypeOK /\ DisabledSessionIsRaced /\ s <= lastSession
    BY <1>3 DEF IInv, Refused
  <2>2. ~IsOpen(s)
    <3> SUFFICES ASSUME IsOpen(s) PROVE FALSE
      OBVIOUS
    <3>1. accounts[sessions[s].user].status = Disabled
      BY <2>1, OpenSession, LiveAccount DEF TypeOK, Refused, Accepted
    <3> QED
      BY <2>1, <3>1 DEF DisabledSessionIsRaced
  <2>3. s <= lastSession' /\ ~IsOpen(s)'
    BY <1>3, <2>1, <2>2, OverStaysOver
  <2> QED
    BY <2>3 DEF Refused, Accepted
<1>4. IInv /\ [Next]_vars =>
        [\A s \in Sessions :
           Refused(s) /\ s \notin raced /\ ~RevokePending(sessions[s].user) => Refused(s)']_vars
  BY <1>3
<1> QED
  BY <1>1, <1>2, <1>4, PTL DEF Spec, RefusedStaysRefused

----------------------------------------------------------------------------
\* One request at a time.

\* A step of another request is a step of the only one, so what was read stays so.
LEMMA FreshStep ==
  ASSUME \A g, h \in Handlers : g = h, TypeOK, ReadsAreFresh, [Next]_vars
  PROVE  ReadsAreFresh'
<1> USE DEF TypeOK, Requests
<1>a. ASSUME NEW h \in Handlers, NEW x, request' = [request EXCEPT ![h] = x],
             x.op \notin {"login", "update"}
      PROVE  ReadsAreFresh'
  BY <1>a DEF ReadsAreFresh
<1>b. Idle.op = "idle"
  BY DEF Idle
<1>1. ASSUME NEW h \in Handlers, Register(h) PROVE ReadsAreFresh'
  <2>1. \A g \in Handlers : request'[g].op = "idle"
    BY <1>1, <1>b DEF Register, IsIdle
  <2> QED
    BY <2>1 DEF ReadsAreFresh
<1>2. ASSUME NEW h \in Handlers, NEW u \in Users, LoginRead(h, u) PROVE ReadsAreFresh'
  <2>1. \A g \in Handlers : request'[g] = LoggingIn(u, accounts[u].password)
    BY <1>2 DEF LoginRead
  <2> QED
    BY <1>2, <2>1 DEF LoginRead, LoggingIn, ReadsAreFresh
<1>3. ASSUME NEW h \in Handlers, NEW u \in Users, NEW role, NEW status,
             UpdateUserRead(h, u, role, status)
      PROVE  ReadsAreFresh'
  <2>1. PICK r, s : \A g \in Handlers : request'[g] = Updating(u, r, s, accounts[u].status)
    BY <1>3 DEF UpdateUserRead
  <2> QED
    BY <1>3, <2>1 DEF UpdateUserRead, Updating, ReadsAreFresh
<1>4. ASSUME NEW h \in Handlers, NEW s \in Sessions, Authenticate(h, s) PROVE ReadsAreFresh'
  BY <1>4, <1>a DEF Authenticate, Serving
<1>5. ASSUME NEW h \in Handlers, ChangePasswordRead(h) PROVE ReadsAreFresh'
  BY <1>5, <1>a DEF ChangePasswordRead, Changing
<1>6. ASSUME NEW h \in Handlers, UpdateUserWrite(h) PROVE ReadsAreFresh'
  <2>1. AfterWrite(request[h]).op \in {"idle", "revoke"}
    BY <1>b DEF AfterWrite, Revoking
  <2> QED
    BY <1>6, <1>a, <2>1 DEF UpdateUserWrite
<1>7. ASSUME NEW h \in Handlers, Done(h) PROVE ReadsAreFresh'
  BY <1>7, <1>a, <1>b DEF Done
<1>8. ASSUME NEW s \in Sessions, Expire(s) PROVE ReadsAreFresh'
  BY <1>8 DEF Expire, ReadsAreFresh
<1>9. CASE UNCHANGED vars
  BY <1>9 DEF vars, ReadsAreFresh
<1> QED
  BY <1>1, <1>2, <1>3, <1>4, <1>5, <1>6, <1>7, <1>8, <1>9
  DEF Next, SessionRequest, AccountRequest, LoginInsert, Logout, ChangePasswordCommit,
      RevokeSessions, DeleteUser, ResetPassword, Abandon

\* Nothing gets raced but the sessions of a revocation that never ran.
LEMMA OnlyAbandonRaces ==
  ASSUME ReadsAreFresh, [Next]_vars,
         \A h \in Handlers : request[h].op = "revoke" => ~Abandon(h)
  PROVE  raced' = raced
<1>1. ASSUME NEW h \in Handlers, LoginInsert(h) PROVE raced' = raced
  BY <1>1 DEF LoginInsert, ReadsAreFresh
<1>2. ASSUME NEW h \in Handlers, UpdateUserWrite(h) PROVE raced' = raced
  BY <1>2 DEF UpdateUserWrite, ReadsAreFresh
<1>3. ASSUME NEW h \in Handlers, Abandon(h) PROVE raced' = raced
  BY <1>3 DEF Abandon
<1>4. ASSUME NEW h \in Handlers, SessionRequest(h) PROVE raced' = raced
  BY <1>4, <1>1
  DEF SessionRequest, LoginRead, Authenticate, Logout, ChangePasswordRead, ChangePasswordCommit
<1>5. ASSUME NEW h \in Handlers, AccountRequest(h) PROVE raced' = raced
  BY <1>5, <1>2
  DEF AccountRequest, Register, UpdateUserRead, RevokeSessions, DeleteUser, ResetPassword
<1>6. ASSUME NEW s \in Sessions, Expire(s) PROVE raced' = raced
  BY <1>6 DEF Expire
<1>7. CASE UNCHANGED vars
  BY <1>7 DEF vars
<1> QED
  BY <1>3, <1>4, <1>5, <1>6, <1>7 DEF Next

\* Sessions keep to the password of their account.
LEMMA PasswordStep ==
  ASSUME TypeOK, ReadsAreFresh, SessionsHavePassword, [Next]_vars
  PROVE  SessionsHavePassword'
<1> USE DEF TypeOK
<1>a. \A s \in Sessions : IsOpen(s) => sessions[s].user \in Users /\ Exists(sessions[s].user)
  BY OpenSession
<1>b. ASSUME \A s \in Sessions : \A u : IsOpen(s)' /\ u = sessions'[s].user =>
               /\ IsOpen(s) /\ sessions'[s] = sessions[s]
               /\ accounts'[u].password = accounts[u].password
      PROVE  SessionsHavePassword'
  BY <1>b DEF SessionsHavePassword
<1>1. ASSUME NEW h \in Handlers, Register(h) PROVE SessionsHavePassword'
  <2>1. \A u \in Users : Exists(u) => accounts'[u] = accounts[u]
    BY <1>1, BoundsAssumption DEF Register, AccountTable, Users
  <2> QED
    BY <1>1, <1>a, <1>b, <2>1 DEF Register, IsOpen
<1>2. ASSUME NEW h \in Handlers, LoginInsert(h) PROVE SessionsHavePassword'
  <2>1. PICK n : n = lastSession + 1
    OBVIOUS
  <2>2. /\ sessions' = [sessions EXCEPT ![n] = [user |-> request[h].user,
                                               password |-> request[h].password]]
        /\ accounts[request[h].user].password = request[h].password /\ accounts' = accounts
    BY <1>2, <2>1 DEF LoginInsert, ReadsAreFresh
  <2>3. \A s \in Sessions : \/ sessions'[s] = sessions[s]
                            \/ sessions'[s] = [user |-> request[h].user,
                                               password |-> request[h].password]
    BY <2>2 DEF SessionTable
  <2> QED
    BY <2>2, <2>3 DEF SessionsHavePassword, IsOpen
<1>3. ASSUME NEW u \in Users, sessions' = SessionsEnded(u),
             \A v \in Users \ {u} : accounts'[v] = accounts[v]
      PROVE  SessionsHavePassword'
  <2>1. \A s \in Sessions : IsOpen(s)' => /\ sessions'[s] = sessions[s] /\ IsOpen(s)
                                          /\ sessions[s].user # u
    BY <1>3 DEF SessionsEnded, IsOpen, NoSession
  <2> QED
    BY <1>3, <1>a, <1>b, <2>1
<1>4. ASSUME NEW t \in Sessions, sessions' = [sessions EXCEPT ![t] = NoSession],
             accounts' = accounts
      PROVE  SessionsHavePassword'
  <2>1. \A s \in Sessions : IsOpen(s)' => sessions'[s] = sessions[s] /\ IsOpen(s)
    BY <1>4 DEF SessionTable, IsOpen, NoSession
  <2> QED
    BY <1>4, <1>b, <2>1
<1>5. ASSUME NEW h \in Handlers, UpdateUserWrite(h) PROVE SessionsHavePassword'
  <2>1. \A u \in Users : accounts'[u].password = accounts[u].password
    BY <1>5 DEF UpdateUserWrite, AccountTable, AccountRow, NoAccount
  <2> QED
    BY <1>5, <1>a, <1>b, <2>1 DEF UpdateUserWrite, IsOpen
<1>6. ASSUME NEW h \in Handlers, Logout(h) PROVE SessionsHavePassword'
  BY <1>4, <1>6, RequestFields DEF Logout, IsServing
<1>7. ASSUME NEW h \in Handlers, RevokeSessions(h) PROVE SessionsHavePassword'
  BY <1>3, <1>7, RequestFields DEF RevokeSessions
<1>8. ASSUME NEW h \in Handlers, ChangePasswordCommit(h) PROVE SessionsHavePassword'
  <2>1. request[h].user \in Users
    BY <1>8, RequestFields DEF ChangePasswordCommit
  <2> QED
    BY <1>3, <1>8, <2>1 DEF ChangePasswordCommit, SetPassword, AccountTable
<1>9. ASSUME NEW h \in Handlers, NEW u \in Users, DeleteUser(h, u) \/ ResetPassword(h, u)
      PROVE  SessionsHavePassword'
  BY <1>3, <1>9 DEF DeleteUser, ResetPassword, SetPassword, AccountTable
<1>10. ASSUME NEW t \in Sessions, Expire(t) PROVE SessionsHavePassword'
  BY <1>4, <1>10 DEF Expire
<1>11. ASSUME UNCHANGED <<accounts, sessions>> PROVE SessionsHavePassword'
  BY <1>11 DEF SessionsHavePassword, IsOpen
<1>12. ASSUME NEW h \in Handlers,
              \/ ChangePasswordRead(h) \/ Abandon(h)
              \/ \E u \in Users : LoginRead(h, u)
              \/ \E t \in Sessions : Authenticate(h, t)
              \/ \E u \in Users, role \in Roles \cup {""}, status \in {Disabled, Enabled} :
                   UpdateUserRead(h, u, role, status)
       PROVE  UNCHANGED <<accounts, sessions>>
  BY <1>12 DEF ChangePasswordRead, Abandon, LoginRead, Authenticate, UpdateUserRead
<1> QED
  BY <1>1, <1>2, <1>5, <1>6, <1>7, <1>8, <1>9, <1>10, <1>11, <1>12
  DEF Next, SessionRequest, AccountRequest, vars

LEMMA InitFresh == Init => ReadsAreFresh /\ SessionsHavePassword /\ raced = {}
BY DEF Init, Idle, ReadsAreFresh, SessionsHavePassword, IsOpen, NoSession

\* With one request served at a time a password ends every session opened with the one
\* before it, even if requests end half way (ChangePassword, ResetPassword).
THEOREM SerialPasswords ==
  ASSUME \A g, h \in Handlers : g = h
  PROVE  Spec => []SessionsHavePassword
<1> DEFINE Inv == TypeOK /\ ReadsAreFresh /\ SessionsHavePassword
<1>1. Init => Inv
  BY InitType, InitFresh
<1>2. Inv /\ [Next]_vars => Inv'
  BY NextType, FreshStep, PasswordStep
<1> QED
  BY <1>1, <1>2, PTL DEF Spec

\* With one request served at a time, and none ended before its revocation, a disabled
\* account has no open session: a race and a request cut short are the only ways to one
\* (UpdateUser).
THEOREM SerialLogout ==
  ASSUME \A g, h \in Handlers : g = h
  PROVE  Spec /\ RevocationsRun => []DisabledAccountIsLoggedOut
<1> DEFINE Inv == IInv /\ ReadsAreFresh /\ raced = {}
           Runs == \A h \in Handlers : request[h].op = "revoke" => ~Abandon(h)
<1>1. Init => Inv
  BY InitType, InitBounds, InitVouched, InitFresh DEF IInv
<1>2. Inv /\ [Next]_vars /\ [Runs]_vars => Inv'
  <2>1. ASSUME Inv, [Next]_vars, [Runs]_vars PROVE raced' = raced
    BY <2>1, OnlyAbandonRaces DEF vars
  <2> QED
    BY <2>1, NextType, NextBounds, NextVouched, FreshStep DEF IInv
<1>3. Inv => DisabledAccountIsLoggedOut
  <2> SUFFICES ASSUME IInv, raced = {}, NEW u \in Users, accounts[u].status = Disabled,
                      ~RevokePending(u)
               PROVE  OpenSessions(u) = {}
    BY DEF DisabledAccountIsLoggedOut
  <2> QED
    BY DEF IInv, DisabledSessionIsRaced, OpenSessions, IsOpen, Users
<1> QED
  BY <1>1, <1>2, <1>3, PTL DEF Spec, RevocationsRun
============================================================================
