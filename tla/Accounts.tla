------------------------------ MODULE Accounts ------------------------------
(***************************************************************************)
(* Accounts and login sessions: internal/pet/service.go with the auth      *)
(* middleware of internal/pet/http.go and the pet_users and pet_sessions   *)
(* tables of internal/pet/store.go.                                        *)
(*                                                                         *)
(* Login reads the account and inserts the session in two autocommit       *)
(* statements; UpdateUser reads the account, writes every column of it and *)
(* revokes the sessions in three; ChangePassword reads the hash and then   *)
(* runs one transaction.  A request carries the Principal Authenticate     *)
(* returned, whatever happens to the account afterwards.  Other handlers   *)
(* run between any two of these steps.                                     *)
(***************************************************************************)
EXTENDS Integers, FiniteSets

CONSTANTS
  Handlers,       \* requests that can be in flight together
  MaxUsers,       \* bound on user ids ever issued
  MaxSessions,    \* bound on sessions ever opened
  MaxPasswords    \* bound on password hashes ever generated; a hash is its number

ASSUME BoundsAssumption ==
  /\ MaxUsers \in Nat /\ MaxSessions \in Nat /\ MaxPasswords \in Nat
  /\ MaxUsers >= 2 /\ MaxPasswords >= 2

Users     == 1..MaxUsers
Sessions  == 1..MaxSessions
Passwords == 1..MaxPasswords
Roles     == {"ADMIN", "USER"}
Null      == 0

\* Every status other than 1 counts as disabled.
Disabled == 0
Enabled  == 1

NoAccount == [role |-> "none", status |-> Disabled, password |-> Null]
NoSession == [user |-> Null, password |-> Null]

\* What a request in flight carries from one statement to the next.
Idle               == [op |-> "idle"]
Serving(u, r, s)   == [op |-> "serving", user |-> u, role |-> r, session |-> s]  \* its Principal
LoggingIn(u, p)    == [op |-> "login", user |-> u, password |-> p]               \* the row read
Changing(u)        == [op |-> "password", user |-> u]
Updating(u, r, status, was) ==   \* the role and status to write, and the status read
  [op |-> "update", user |-> u, role |-> r, status |-> status, was |-> was]
Revoking(u)        == [op |-> "revoke", user |-> u]

VARIABLES
  accounts,      \* table pet_users: id -> row
  lastUser,      \* AUTOINCREMENT counter of pet_users
  sessions,      \* table pet_sessions, numbered in the order of the inserts.  A row past
                 \* expires_at, with revoked_at set, or deleted, is refused whatever
                 \* its columns hold: all three are NoSession.  password is history:
                 \* the hash Login verified
  lastSession,
  lastPassword,  \* hashes generated so far
  request,       \* request[h]: what handler h carries between its statements
  raced,         \* history: sessions that a request working from a stale read, or
                 \* one that ended half way, left open (see the actions)
  vouched        \* history: accounts an administrator's request has asked to be ADMIN

vars == <<accounts, lastUser, sessions, lastSession, lastPassword, request, raced, vouched>>

----------------------------------------------------------------------------

Exists(u) == accounts[u].role # "none"

IsOpen(s) == sessions[s].user # Null

OpenSessions(u) == {s \in Sessions : sessions[s].user = u}

\* The test Authenticate makes on the joined session and account rows.
Accepted(s) == IsOpen(s) /\ accounts[sessions[s].user].status = Enabled

\* The slip of leaving the user's sessions as they are.
SessionsKept(u) == sessions

\* UPDATE pet_sessions SET revoked_at WHERE user_id=? AND revoked_at IS NULL, and, for
\* DeleteUser, the ON DELETE CASCADE from pet_users.
SessionsEnded(u) == [s \in Sessions |-> IF sessions[s].user = u THEN NoSession ELSE sessions[s]]

IsIdle(h) == request[h] = Idle

\* Handler h serves an authenticated request that has made no statement of its own yet.
IsServing(h) == request[h].op = "serving"

Done(h) == request' = [request EXCEPT ![h] = Idle]

Hash == lastPassword + 1

SetPassword(u) ==
  /\ lastPassword < MaxPasswords
  /\ lastPassword' = Hash
  /\ accounts' = [accounts EXCEPT ![u].password = Hash]
  /\ sessions' = SessionsEnded(u)

----------------------------------------------------------------------------

\* migrate on an empty file, then seed: admin and testuser, in two statements.  A
\* process stopped between them leaves admin alone, and later starts find a user
\* and insert none.
Init ==
  /\ lastUser \in {1, 2}
  /\ lastPassword = lastUser
  /\ accounts = [u \in Users |->
                   IF u > lastUser THEN NoAccount
                   ELSE [role |-> IF u = 1 THEN "ADMIN" ELSE "USER",
                         status |-> Enabled, password |-> u]]
  /\ sessions = [s \in Sessions |-> NoSession]
  /\ lastSession = 0
  /\ request = [h \in Handlers |-> Idle]
  /\ raced = {}
  /\ vouched = {1}

\* Register: one INSERT with role USER and status 1.
Register(h) ==
  /\ IsIdle(h)
  /\ lastUser < MaxUsers /\ lastPassword < MaxPasswords
  /\ lastUser' = lastUser + 1
  /\ lastPassword' = Hash
  /\ accounts' = [accounts EXCEPT ![lastUser + 1] =
                    [role |-> "USER", status |-> Enabled, password |-> Hash]]
  /\ UNCHANGED <<sessions, lastSession, request, raced, vouched>>

\* Login, the SELECT and the bcrypt comparison: the caller knows the password.
LoginRead(h, u) ==
  /\ IsIdle(h)
  /\ accounts[u].status = Enabled
  /\ request' = [request EXCEPT ![h] = LoggingIn(u, accounts[u].password)]
  /\ UNCHANGED <<accounts, lastUser, sessions, lastSession, lastPassword, raced, vouched>>

\* Login, the INSERT: only the foreign key is checked again.  The session is raced
\* when the account was disabled or got another password since the SELECT.
LoginInsert(h) ==
  LET u == request[h].user
      s == lastSession + 1
      stale == accounts[u].status # Enabled \/ accounts[u].password # request[h].password IN
  /\ request[h].op = "login"
  /\ Exists(u)
  /\ lastSession < MaxSessions
  /\ lastSession' = s
  /\ sessions' = [sessions EXCEPT ![s] = [user |-> u, password |-> request[h].password]]
  /\ raced' = IF stale THEN raced \cup {s} ELSE raced
  /\ Done(h)
  /\ UNCHANGED <<accounts, lastUser, lastPassword, vouched>>

\* Twenty-four hours after the login; expiry is only ever read by Authenticate.
Expire(s) ==
  /\ IsOpen(s)
  /\ sessions' = [sessions EXCEPT ![s] = NoSession]
  /\ UNCHANGED <<accounts, lastUser, lastSession, lastPassword, request, raced, vouched>>

\* The auth middleware: the rest of the request runs with this Principal.
Authenticate(h, s) ==
  LET u == sessions[s].user IN
  /\ IsIdle(h)
  /\ Accepted(s)
  /\ request' = [request EXCEPT ![h] = Serving(u, accounts[u].role, s)]
  /\ UNCHANGED <<accounts, lastUser, sessions, lastSession, lastPassword, raced, vouched>>

Logout(h) ==
  /\ IsServing(h)
  /\ sessions' = [sessions EXCEPT ![request[h].session] = NoSession]
  /\ Done(h)
  /\ UNCHANGED <<accounts, lastUser, lastSession, lastPassword, raced, vouched>>

----------------------------------------------------------------------------
\* UpdateUser.  An omitted role is "" and an omitted status is 0.

\* The slip of taking the input as it stands.
RoleAsEntered(principal, role, current) == IF role = "" THEN current ELSE role

\* Only an administrator chooses a role; omitted, it stays as read.
RoleToWrite(principal, role, current) ==
  IF principal = "ADMIN" /\ role # "" THEN role ELSE current

\* Only an administrator chooses a status; with the role omitted too, an enabled
\* account stays enabled.
StatusToWrite(principal, role, status, current) ==
  IF principal # "ADMIN" \/ (status = Disabled /\ role = "" /\ current = Enabled)
  THEN current ELSE status

\* userByID and the decisions taken on what it returned.
UpdateUserRead(h, u, role, status) ==
  LET q == request[h]
      standing == RoleToWrite(q.role, role, accounts[u].role)
      next == StatusToWrite(q.role, role, status, accounts[u].status) IN
  /\ IsServing(h)
  /\ u = q.user \/ q.role = "ADMIN"
  /\ Exists(u)
  /\ u = q.user => next = Enabled
  /\ request' = [request EXCEPT ![h] = Updating(u, standing, next, accounts[u].status)]
  /\ vouched' = IF q.role = "ADMIN" /\ standing = "ADMIN" THEN vouched \cup {u} ELSE vouched
  /\ UNCHANGED <<accounts, lastUser, sessions, lastSession, lastPassword, raced>>

\* The slip of not going on to revoke.
DoneOnceWritten(q) == Idle

\* if current.Status == 1 && status != 1: the sessions are revoked next.
AfterWrite(q) ==
  IF q.was = Enabled /\ q.status # Enabled
  THEN Revoking(q.user)
  ELSE Idle

\* The UPDATE sets every column, role and status included.  When the status read is
\* no longer the account's, the open sessions of the account are raced.
UpdateUserWrite(h) ==
  LET q == request[h]
      u == q.user IN
  /\ q.op = "update"
  /\ Exists(u)
  /\ accounts' = [accounts EXCEPT ![u].role = q.role, ![u].status = q.status]
  /\ request' = [request EXCEPT ![h] = AfterWrite(q)]
  /\ raced' = IF accounts[u].status # q.was THEN raced \cup OpenSessions(u) ELSE raced
  /\ UNCHANGED <<lastUser, sessions, lastSession, lastPassword, vouched>>

RevokeSessions(h) ==
  /\ request[h].op = "revoke"
  /\ sessions' = SessionsEnded(request[h].user)
  /\ Done(h)
  /\ UNCHANGED <<accounts, lastUser, lastSession, lastPassword, raced, vouched>>

\* DeleteUser: one DELETE; an account with foster orders is refused by the foreign key.
DeleteUser(h, u) ==
  /\ IsServing(h)
  /\ request[h].role = "ADMIN"
  /\ u # request[h].user
  /\ Exists(u)
  /\ accounts' = [accounts EXCEPT ![u] = NoAccount]
  /\ sessions' = SessionsEnded(u)
  /\ Done(h)
  /\ UNCHANGED <<lastUser, lastSession, lastPassword, raced, vouched>>

----------------------------------------------------------------------------
\* Passwords.

\* The hash is read and compared outside the transaction, and not again inside it.
ChangePasswordRead(h) ==
  /\ IsServing(h)
  /\ Exists(request[h].user)
  /\ request' = [request EXCEPT ![h] = Changing(request[h].user)]
  /\ UNCHANGED <<accounts, lastUser, sessions, lastSession, lastPassword, raced, vouched>>

\* The transaction: the new hash, and every session of the user revoked.
ChangePasswordCommit(h) ==
  /\ request[h].op = "password"
  /\ Exists(request[h].user)
  /\ SetPassword(request[h].user)
  /\ Done(h)
  /\ UNCHANGED <<lastUser, lastSession, raced, vouched>>

ResetPassword(h, u) ==
  /\ IsServing(h)
  /\ request[h].role = "ADMIN"
  /\ Exists(u)
  /\ SetPassword(u)
  /\ Done(h)
  /\ UNCHANGED <<lastUser, lastSession, raced, vouched>>

\* A request is refused, fails, or loses its context between two statements.  Ended
\* before its revocation it leaves the sessions of the account it disabled open.
Abandon(h) ==
  /\ ~IsIdle(h)
  /\ Done(h)
  /\ raced' = IF request[h].op = "revoke" THEN raced \cup OpenSessions(request[h].user) ELSE raced
  /\ UNCHANGED <<accounts, lastUser, sessions, lastSession, lastPassword, vouched>>

----------------------------------------------------------------------------

SessionRequest(h) ==
  \/ \E u \in Users : LoginRead(h, u)
  \/ LoginInsert(h)
  \/ \E s \in Sessions : Authenticate(h, s)
  \/ Logout(h)
  \/ ChangePasswordRead(h)
  \/ ChangePasswordCommit(h)

AccountRequest(h) ==
  \/ Register(h)
  \/ \E u \in Users, role \in Roles \cup {""}, status \in {Disabled, Enabled} :
       UpdateUserRead(h, u, role, status)
  \/ UpdateUserWrite(h)
  \/ RevokeSessions(h)
  \/ \E u \in Users : DeleteUser(h, u) \/ ResetPassword(h, u)

Next ==
  \/ \E h \in Handlers : SessionRequest(h) \/ AccountRequest(h) \/ Abandon(h)
  \/ \E s \in Sessions : Expire(s)

Spec == Init /\ [][Next]_vars

----------------------------------------------------------------------------
\* Properties.

AccountRow == [role : Roles, status : {Disabled, Enabled}, password : Passwords]
SessionRow == [user : Users, password : Passwords]

AccountTable ==
  /\ accounts \in [Users -> AccountRow \cup {NoAccount}]
  /\ lastUser \in 1..MaxUsers
  /\ lastPassword \in 1..MaxPasswords
  /\ \A u \in Users : Exists(u) => u <= lastUser /\ accounts[u].password <= lastPassword
  /\ vouched \subseteq Users

\* pet_sessions.user_id REFERENCES pet_users.
SessionTable ==
  /\ sessions \in [Sessions -> SessionRow \cup {NoSession}]
  /\ lastSession \in 0..MaxSessions
  /\ \A s \in Sessions : IsOpen(s) => s <= lastSession /\ Exists(sessions[s].user)
  /\ raced \subseteq 1..lastSession

RequestType ==
  {Idle}
  \cup [op : {"serving"}, user : Users, role : Roles, session : Sessions]
  \cup [op : {"login"}, user : Users, password : Passwords]
  \cup [op : {"password", "revoke"}, user : Users]
  \cup [op : {"update"}, user : Users, role : Roles,
        status : {Disabled, Enabled}, was : {Disabled, Enabled}]

Requests == request \in [Handlers -> RequestType]

\* Type invariant: rows, counters and requests have their shape, and no session
\* outlives its account (DeleteUser and the cascade).
TypeOK == AccountTable /\ SessionTable /\ Requests

RevokePending(u) == \E h \in Handlers : request[h].op = "revoke" /\ request[h].user = u

\* An open session was opened with the password the account still has, unless it is
\* raced: ChangePassword and ResetPassword end every session in the transaction that
\* stores the hash, and only a Login already past its SELECT slips by.
OldPasswordIsRaced ==
  \A s \in Sessions :
    IsOpen(s) /\ s \notin raced =>
      sessions[s].password = accounts[sessions[s].user].password

\* A disabled account has no open session but raced ones, once the request that
\* disabled it is through (UpdateUser's last statement).
DisabledSessionIsRaced ==
  \A s \in Sessions :
    LET u == sessions[s].user IN
    IsOpen(s) /\ s \notin raced /\ accounts[u].status = Disabled => RevokePending(u)

Refused(s) == s <= lastSession /\ ~Accepted(s)

\* A session Authenticate refuses is refused for good: expiry, logout, a new password
\* and disabling the account are never undone by a later request, except for raced
\* sessions and until the request that disables the account has revoked them.
RefusedStaysRefused ==
  [][\A s \in Sessions :
       Refused(s) /\ s \notin raced /\ ~RevokePending(sessions[s].user) =>
         Refused(s)']_vars

\* However profile edits race with promotions, demotions and each other, only accounts
\* some administrator's request asked to be ADMIN ever are (UpdateUser).
AdminsAreVouched ==
  /\ \A u \in Users : accounts[u].role = "ADMIN" => u \in vouched
  /\ \A h \in Handlers :
       LET q == request[h] IN
       q.op \in {"serving", "update"} /\ q.role = "ADMIN" => q.user \in vouched

\* What the tests state without allowance for races or failures: disabling an account
\* ends its sessions.
DisabledAccountIsLoggedOut ==
  \A u \in Users : accounts[u].status = Disabled /\ ~RevokePending(u) => OpenSessions(u) = {}

\* The promise of ChangePassword and ResetPassword without allowance for races: every
\* open session was opened with the password its account has now.
SessionsHavePassword ==
  \A s \in Sessions : IsOpen(s) => sessions[s].password = accounts[sessions[s].user].password

\* No request ends between the UPDATE that disables an account and its revocation.
RevocationsRun == [][\A h \in Handlers : request[h].op = "revoke" => ~Abandon(h)]_vars

\* What a request read of an account is still so when it writes (Login, UpdateUser).
ReadsAreFresh ==
  \A h \in Handlers :
    LET q == request[h] IN
    /\ q.op = "login" => /\ accounts[q.user].status = Enabled
                         /\ accounts[q.user].password = q.password
    /\ q.op = "update" => accounts[q.user].status = q.was

\* The inductive invariant behind the three bounds above.
IInv == TypeOK /\ OldPasswordIsRaced /\ DisabledSessionIsRaced /\ AdminsAreVouched

============================================================================
