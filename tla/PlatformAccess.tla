--------------------------- MODULE PlatformAccess ---------------------------
(***************************************************************************)
(* Who gets into the platform: opening its database (migrations.go), the   *)
(* first accounts (cmd/seed-user), and AuthService.                        *)
(*                                                                         *)
(* The server and any number of seed-user commands open one file.  Each    *)
(* applies the migrations it was built with and does not find in the       *)
(* ledger: the COUNT is a statement of its own, the body and the ledger's  *)
(* row are one transaction.  The server then serves requests, whose        *)
(* statements interleave; a stop of the server ends them where they stand. *)
(*                                                                         *)
(* Nothing changes a platform account or deletes a row, so accounts and    *)
(* sessions are numbered in the order of their inserts.                    *)
(***************************************************************************)
EXTENDS Integers, FiniteSets

CONSTANTS
  Server, Seeders, \* the processes
  Knows,           \* Knows[p]: migrations process p was built with (2 today)
  Clients,         \* requests the server works on together
  Emails,          \* addresses, in lower case and trimmed as every caller does
  Roles,           \* among them "ml_engineer"
  SessionTTL,
  MaxUsers, MaxSessions, MaxTime \* bounds on accounts, sessions and the clock

Processes == Seeders \cup {Server}

ASSUME AccessAssumption ==
  /\ Server \notin Seeders
  /\ Knows \in [Processes -> Nat]
  /\ "ml_engineer" \in Roles
  /\ SessionTTL \in Nat \ {0}
  /\ MaxUsers \in Nat /\ MaxSessions \in Nat /\ MaxTime \in Nat

None  == 0  \* no session
Never == -1 \* NULL, for a time

Kinds == {"user_created", "user_login", "user_logout"}

VARIABLES
  built,       \* migrations whose tables and indexes are in the file
  ledger,      \* versions in schema_migrations
  proc,        \* proc[p]: where process p stands
  users,       \* table users: email and role; by and since are history: the session
               \* and the beginning of the request that made it, None of seed-user
  lastUser,
  sessions,    \* table sessions: revoked is the time of the UPDATE, or Never;
               \* nothing reads the stamp it wrote
  lastSession,
  audit,       \* audit[k][u]: audit events of kind k about account u
  request,     \* request[h]: what a request carries between its statements
  clock,
  refused,     \* history: processes whose last start failed on a migration
  raced        \* history: processes that others have overtaken in a migration

file  == <<built, ledger, refused, raced>>
rows  == <<users, lastUser, sessions, lastSession, audit>>
vars  == <<file, proc, rows, request, clock>>

Off         == [at |-> "off", version |-> 0]
Check(v)    == [at |-> "check", version |-> v]
Apply(v)    == [at |-> "apply", version |-> v]
Open        == [at |-> "open", version |-> 0]

Idle == [op |-> "idle", user |-> 0, session |-> None, since |-> 0]

NoEmail == "none"

NoUser    == [email |-> NoEmail, role |-> "", by |-> None, since |-> 0]
NoSession == [user |-> 0, created |-> 0, expires |-> 0, revoked |-> Never]

Init ==
  /\ built = {} /\ ledger = {}
  /\ proc = [p \in Processes |-> Off]
  /\ users = [u \in 1..MaxUsers |-> NoUser] /\ lastUser = 0
  /\ sessions = [s \in 1..MaxSessions |-> NoSession] /\ lastSession = 0
  /\ audit = [k \in Kinds |-> [u \in 1..MaxUsers |-> 0]]
  /\ request = [h \in Clients |-> Idle]
  /\ clock = 0
  /\ refused = {} /\ raced = {}

-----------------------------------------------------------------------------
\* Opening the database.

At(p, place) == proc' = [proc EXCEPT ![p] = place]

Start(p) ==
  /\ proc[p] = Off
  /\ At(p, Check(1))
  /\ refused' = refused \ {p} /\ raced' = raced \ {p}
  /\ UNCHANGED <<built, ledger, rows, request, clock>>

migrationApplied(v) == v \in ledger

\* The loop of migrate, up to the next body to run.
CheckMigration(p) ==
  /\ proc[p].at = "check"
  /\ LET v == proc[p].version
     IN At(p, IF v > Knows[p] THEN Open
              ELSE IF migrationApplied(v) THEN Check(v + 1) ELSE Apply(v))
  /\ UNCHANGED <<file, rows, request, clock>>

\* The slip of a migration that leaves the ledger as it was.
Unrecorded(v) == ledger

Recorded(v) == ledger \cup {v}

\* The transaction of one migration.  Its CREATE statements wait for whoever is
\* writing and fail on what that one has created.
ApplyMigration(p) ==
  /\ proc[p].at = "apply"
  /\ LET v == proc[p].version
     IN \/ /\ v \notin built
           /\ built' = built \cup {v}
           /\ ledger' = Recorded(v)
           /\ raced' = raced \cup {q \in Processes \ {p} : proc[q] = Apply(v)}
           /\ At(p, Check(v + 1))
           /\ UNCHANGED refused
        \/ /\ v \in built
           /\ refused' = refused \cup {p}
           /\ At(p, Off)
           /\ UNCHANGED <<built, ledger, raced>>
  /\ UNCHANGED <<rows, request, clock>>

\* A process ends, or is stopped anywhere; an open transaction is undone.
Stop(p) ==
  /\ proc[p] # Off
  /\ At(p, Off)
  /\ request' = IF p = Server THEN [h \in Clients |-> Idle] ELSE request
  /\ UNCHANGED <<file, rows, clock>>

-----------------------------------------------------------------------------
\* Accounts.

Record(kind, u) == audit' = [audit EXCEPT ![kind][u] = @ + 1]

InsertUser(email, role, by, since) ==
  /\ lastUser < MaxUsers
  /\ \A u \in 1..lastUser : users[u].email # email
  /\ lastUser' = lastUser + 1
  /\ users' = [users EXCEPT ![lastUser + 1] =
                 [email |-> email, role |-> role, by |-> by, since |-> since]]

\* seed-user: one account, of whatever role it is told, without an audit event.
\* When the address is taken it panics, which Stop covers.
SeedUser(p, email, role) ==
  /\ p \in Seeders /\ proc[p] = Open
  /\ InsertUser(email, role, None, clock)
  /\ At(p, Off)
  /\ UNCHANGED <<file, sessions, lastSession, audit, request, clock>>

requireRole(u, role) == users[u].role = role

IsServing(h) == request[h].op = "serving"

Answer(h) == request' = [request EXCEPT ![h] = Idle]

CreateUser(h, email, role) ==
  /\ IsServing(h)
  /\ requireRole(request[h].user, "ml_engineer")
  /\ InsertUser(email, role, request[h].session, request[h].since)
  /\ Record("user_created", lastUser + 1)
  /\ Answer(h)
  /\ UNCHANGED <<file, proc, sessions, lastSession, clock>>

-----------------------------------------------------------------------------
\* Sessions.

Begin(h) == proc[Server] = Open /\ request[h] = Idle

\* Every account is active, so Login asks for the password alone.
LoginRead(h, u) ==
  /\ Begin(h)
  /\ u \in 1..lastUser
  /\ request' = [request EXCEPT ![h] =
                   [op |-> "login", user |-> u, session |-> None, since |-> clock]]
  /\ UNCHANGED <<file, proc, rows, clock>>

\* The clock is read before the transaction, which may wait for its turn.
LoginInsert(h, now) ==
  /\ request[h].op = "login"
  /\ now \in request[h].since..clock
  /\ lastSession < MaxSessions
  /\ lastSession' = lastSession + 1
  /\ sessions' = [sessions EXCEPT ![lastSession + 1] =
                    [user |-> request[h].user, created |-> now, expires |-> now + SessionTTL,
                     revoked |-> Never]]
  /\ Record("user_login", request[h].user)
  /\ Answer(h)
  /\ UNCHANGED <<file, proc, users, lastUser, clock>>

\* The slip of taking a session as it is.
Existing(s) == TRUE

Unrevoked(s) == sessions[s].revoked = Never

\* Authenticate reads the session and, in another statement, its account.  A
\* revoked session is refused whatever the account says.
AuthenticateRead(h, s) ==
  /\ Begin(h)
  /\ s \in 1..lastSession
  /\ Unrevoked(s)
  /\ request' = [request EXCEPT ![h] =
                   [op |-> "auth", user |-> sessions[s].user, session |-> s, since |-> clock]]
  /\ UNCHANGED <<file, proc, rows, clock>>

\* Only then it reads the clock.
AuthenticateAccept(h) ==
  /\ request[h].op = "auth"
  /\ sessions[request[h].session].expires > clock
  /\ request' = [request EXCEPT ![h].op = "serving"]
  /\ UNCHANGED <<file, proc, rows, clock>>

\* UPDATE sessions SET revoked_at WHERE id = ? AND revoked_at IS NULL; of two
\* requests that log the same session out the later one finds no row.
Logout(h) ==
  /\ IsServing(h)
  /\ Unrevoked(request[h].session)
  /\ sessions' = [sessions EXCEPT ![request[h].session].revoked = clock]
  /\ Record("user_logout", request[h].user)
  /\ Answer(h)
  /\ UNCHANGED <<file, proc, users, lastUser, lastSession, clock>>

\* A request is refused or fails, its transaction is undone, or it does something
\* else and is answered.
Finish(h) ==
  /\ request[h] # Idle
  /\ Answer(h)
  /\ UNCHANGED <<file, proc, rows, clock>>

Tick ==
  /\ clock < MaxTime
  /\ clock' = clock + 1
  /\ UNCHANGED <<file, proc, rows, request>>

Next ==
  \/ \E p \in Processes : Start(p) \/ CheckMigration(p) \/ ApplyMigration(p) \/ Stop(p)
  \/ \E p \in Seeders, e \in Emails, r \in Roles : SeedUser(p, e, r)
  \/ \E h \in Clients :
       \/ \E e \in Emails, r \in Roles : CreateUser(h, e, r)
       \/ \E u \in 1..MaxUsers : LoginRead(h, u)
       \/ \E now \in 0..MaxTime : LoginInsert(h, now)
       \/ \E s \in 1..MaxSessions : AuthenticateRead(h, s)
       \/ AuthenticateAccept(h) \/ Logout(h) \/ Finish(h)
  \/ Tick

Spec == Init /\ [][Next]_vars

-----------------------------------------------------------------------------
\* Properties.

Times == 0..MaxTime

Places == [at : {"off", "check", "apply", "open"}, version : Nat]

UserRows ==
  [email : Emails \cup {NoEmail}, role : Roles \cup {""}, by : 0..MaxSessions, since : Times]

SessionRows ==
  [user : 0..MaxUsers, created : Times, expires : Nat, revoked : Times \cup {Never}]

Requests ==
  [op : {"idle", "login", "auth", "serving"}, user : 0..MaxUsers, session : 0..MaxSessions,
   since : Times]

TypeOK ==
  /\ built \in SUBSET Nat /\ ledger \in SUBSET Nat
  /\ proc \in [Processes -> Places]
  /\ users \in [1..MaxUsers -> UserRows] /\ lastUser \in 0..MaxUsers
  /\ sessions \in [1..MaxSessions -> SessionRows] /\ lastSession \in 0..MaxSessions
  /\ audit \in [Kinds -> [1..MaxUsers -> Nat]]
  /\ request \in [Clients -> Requests]
  /\ clock \in Times
  /\ refused \in SUBSET Processes /\ raced \in SUBSET Processes

\* A start fails on a migration only when another process applied it between this
\* one's COUNT and its transaction: never over the remains of a start that was
\* stopped.  And whoever is open finds every table it knows of.
SchemaIsWhole ==
  /\ refused \subseteq raced
  /\ \A p \in Processes : proc[p] = Open => 1..Knows[p] \subseteq built

\* The session s was neither revoked nor expired at time t.
OpenAt(s, t) ==
  /\ sessions[s].revoked = Never \/ sessions[s].revoked >= t
  /\ sessions[s].expires > t

\* Every account but those of seed-user was made by an ML engineer who was there
\* before it, in a session that was open when the request began.
AccountsTraceToSeed ==
  \A u \in 1..lastUser :
    users[u].by # None =>
      LET creator == sessions[users[u].by].user
      IN /\ creator \in 1..u - 1
         /\ users[creator].role = "ml_engineer"
         /\ OpenAt(users[u].by, users[u].since)

SessionsOf(u) == {s \in 1..lastSession : sessions[s].user = u}

\* The audit trail and the tables tell the same story of every account: who was
\* let in how often, and how many sessions have been ended, each of them once.
AuditTellsAccess ==
  \A u \in 1..lastUser :
    /\ audit["user_created"][u] = IF users[u].by = None THEN 0 ELSE 1
    /\ audit["user_login"][u] = Cardinality(SessionsOf(u))
    /\ audit["user_logout"][u] = Cardinality({s \in SessionsOf(u) : ~Unrevoked(s)})
=============================================================================
