------------------------ MODULE PlatformAccessProofs ------------------------
(***************************************************************************)
(* Proofs about PlatformAccess: starts fail only when overtaken, accounts  *)
(* trace back to seed-user, and the audit trail agrees with the tables.    *)
(***************************************************************************)
EXTENDS PlatformAccess, FiniteSetTheorems, TLAPS

-----------------------------------------------------------------------------
\* The invariant.

\* Body and ledger row of a migration come and go together.
LedgerIsBuilt == ledger = built

\* What a process has behind it in the loop of migrate, and that a migration it is
\* about to run and finds applied was applied by another after it looked.
StartsKnow ==
  \A p \in Processes :
    /\ proc[p].at = "open" => proc[p] = Open
    /\ proc[p].at \in {"check", "apply"} =>
         proc[p].version >= 1 /\ 1..proc[p].version - 1 \subseteq built
    /\ proc[p].at = "apply" /\ proc[p].version \in built => p \in raced

\* References between the tables, and from requests to them.
RowsRefer ==
  /\ \A s \in 1..lastSession : sessions[s].user \in 1..lastUser
  /\ \A u \in 1..lastUser : users[u].by \in 0..lastSession /\ users[u].since <= clock

RequestsRefer ==
  \A h \in Clients :
    /\ request[h].since <= clock
    /\ request[h].op = "login" => request[h].user \in 1..lastUser
    /\ request[h].op \in {"auth", "serving"} =>
         LET s == request[h].session
         IN /\ s \in 1..lastSession
            /\ request[h].user = sessions[s].user
            /\ Unrevoked(s) \/ sessions[s].revoked >= request[h].since
    /\ request[h].op = "serving" => sessions[request[h].session].expires > request[h].since

RevokedOf(u) == {s \in SessionsOf(u) : ~Unrevoked(s)}

\* AuditTellsAccess, and that nothing is told of accounts to come.
AuditAgrees ==
  \A u \in 1..MaxUsers :
    /\ audit["user_created"][u] = IF u <= lastUser /\ users[u].by # None THEN 1 ELSE 0
    /\ audit["user_login"][u] = Cardinality(SessionsOf(u))
    /\ audit["user_logout"][u] = Cardinality(RevokedOf(u))

Schema == LedgerIsBuilt /\ StartsKnow /\ SchemaIsWhole

IInv ==
  /\ TypeOK
  /\ Schema
  /\ RowsRefer
  /\ RequestsRefer
  /\ AccountsTraceToSeed
  /\ AuditAgrees

LEMMA Bounds ==
  /\ MaxUsers \in Nat /\ MaxSessions \in Nat /\ MaxTime \in Nat /\ SessionTTL \in Nat \ {0}
  /\ \A p \in Processes : Knows[p] \in Nat
  /\ Server \in Processes /\ Seeders \subseteq Processes
BY AccessAssumption DEF Processes

-----------------------------------------------------------------------------
\* Types.

LEMMA InitType == Init => TypeOK
<1>1. 0 \in Times /\ Never \in Times \cup {Never}
  BY Bounds DEF Times
<1>2. Off \in Places
  BY DEF Off, Places
<1>3. Idle \in Requests
  BY <1>1, Bounds DEF Idle, None, Requests
<1>4. NoUser \in UserRows
  BY <1>1, Bounds DEF NoUser, None, UserRows
<1>5. NoSession \in SessionRows
  BY <1>1, Bounds DEF NoSession, SessionRows
<1> SUFFICES ASSUME Init PROVE TypeOK
  OBVIOUS
<1>6. /\ built = {} /\ ledger = {} /\ proc = [p \in Processes |-> Off] /\ lastUser = 0
      /\ users = [u \in 1..MaxUsers |-> NoUser] /\ lastSession = 0
      /\ sessions = [s \in 1..MaxSessions |-> NoSession] /\ clock = 0
      /\ audit = [k \in Kinds |-> [u \in 1..MaxUsers |-> 0]] /\ request = [h \in Clients |-> Idle]
      /\ refused = {} /\ raced = {}
  BY DEF Init
<1>7. /\ proc \in [Processes -> Places] /\ users \in [1..MaxUsers -> UserRows]
      /\ sessions \in [1..MaxSessions -> SessionRows]
      /\ audit \in [Kinds -> [1..MaxUsers -> Nat]] /\ request \in [Clients -> Requests]
  <2>1. proc \in [Processes -> Places]
    BY <1>2, <1>6
  <2>2. users \in [1..MaxUsers -> UserRows]
    BY <1>4, <1>6
  <2>3. sessions \in [1..MaxSessions -> SessionRows]
    BY <1>5, <1>6
  <2>4. audit \in [Kinds -> [1..MaxUsers -> Nat]]
    BY <1>6
  <2>5. request \in [Clients -> Requests]
    BY <1>3, <1>6
  <2> QED BY <2>1, <2>2, <2>3, <2>4, <2>5
<1>8. lastUser \in 0..MaxUsers /\ lastSession \in 0..MaxSessions /\ clock \in Times
  BY <1>1, <1>6, Bounds
<1> QED BY <1>6, <1>7, <1>8 DEF TypeOK

LEMMA Fields ==
  ASSUME TypeOK
  PROVE  /\ \A h \in Clients : /\ request[h].op \in {"idle", "login", "auth", "serving"}
                                /\ request[h].user \in 0..MaxUsers
                                /\ request[h].session \in 0..MaxSessions
                                /\ request[h].since \in Times
         /\ \A s \in 1..MaxSessions : /\ sessions[s].user \in 0..MaxUsers
                                       /\ sessions[s].created \in Times
                                       /\ sessions[s].expires \in Nat
                                       /\ sessions[s].revoked \in Times \cup {Never}
         /\ \A u \in 1..MaxUsers : users[u].by \in 0..MaxSessions /\ users[u].since \in Times
         /\ lastUser \in 0..MaxUsers /\ lastSession \in 0..MaxSessions
         /\ clock \in Times /\ clock \in Nat /\ Times \subseteq Nat
         /\ \A p \in Processes : proc[p].version \in Nat
<1>1. \A h \in Clients : request[h] \in Requests
  BY DEF TypeOK
<1>2. \A s \in 1..MaxSessions : sessions[s] \in SessionRows
  BY DEF TypeOK
<1>3. \A u \in 1..MaxUsers : users[u] \in UserRows
  BY DEF TypeOK
<1>4. \A p \in Processes : proc[p] \in Places
  BY DEF TypeOK
<1>5. clock \in Times /\ Times \subseteq Nat
  BY Bounds DEF TypeOK, Times
<1>6. lastUser \in 0..MaxUsers /\ lastSession \in 0..MaxSessions
  BY DEF TypeOK
<1> QED BY <1>1, <1>2, <1>3, <1>4, <1>5, <1>6 DEF Requests, SessionRows, UserRows, Places

\* A request acts for an account of the table.
LEMMA ActingUser ==
  ASSUME TypeOK, RowsRefer, RequestsRefer, NEW h \in Clients, request[h].op # "idle"
  PROVE  request[h].user \in 1..lastUser /\ request[h].user \in 1..MaxUsers
<1>1. lastUser \in 0..MaxUsers /\ request[h].op \in {"login", "auth", "serving"}
  BY Fields
<1>2. request[h].user \in 1..lastUser
  BY <1>1 DEF RowsRefer, RequestsRefer
<1> QED BY <1>1, <1>2, Bounds

\* What each kind of step does to the types.
LEMMA NewValues ==
  ASSUME TypeOK
  PROVE  /\ \A p \in Processes, x \in Places : At(p, x) => proc' \in [Processes -> Places]
         /\ \A h \in Clients, x \in Requests :
              request' = [request EXCEPT ![h] = x] => request' \in [Clients -> Requests]
         /\ \A h \in Clients : Answer(h) => request' \in [Clients -> Requests]
         /\ \A kind \in Kinds, u \in 1..MaxUsers :
              Record(kind, u) => audit' \in [Kinds -> [1..MaxUsers -> Nat]]
         /\ \A email \in Emails, role \in Roles, by \in 0..MaxSessions, since \in Times :
              InsertUser(email, role, by, since) =>
                /\ users' \in [1..MaxUsers -> UserRows] /\ lastUser' \in 0..MaxUsers
                /\ lastUser' = lastUser + 1 /\ lastUser' \in 1..MaxUsers
<1>1. Idle \in Requests
  BY Bounds DEF Idle, None, Requests, Times
<1>2. ASSUME NEW p \in Processes, NEW x \in Places, At(p, x)
      PROVE  proc' \in [Processes -> Places]
  BY <1>2 DEF At, TypeOK
<1>3. ASSUME NEW h \in Clients, NEW x \in Requests, request' = [request EXCEPT ![h] = x]
      PROVE  request' \in [Clients -> Requests]
  BY <1>3 DEF TypeOK
<1>4. ASSUME NEW h \in Clients, Answer(h) PROVE request' \in [Clients -> Requests]
  BY <1>1, <1>3, <1>4 DEF Answer
<1>5. ASSUME NEW kind \in Kinds, NEW u \in 1..MaxUsers, Record(kind, u)
      PROVE  audit' \in [Kinds -> [1..MaxUsers -> Nat]]
  <2>1. audit[kind] \in [1..MaxUsers -> Nat]
    BY <1>5 DEF TypeOK
  <2>2. [audit[kind] EXCEPT ![u] = audit[kind][u] + 1] \in [1..MaxUsers -> Nat]
    <3>0. u \in 1..MaxUsers
      BY <1>5
    <3>1. audit[kind][u] \in Nat
      BY <2>1, <3>0, Zenon
    <3>2. audit[kind][u] + 1 \in Nat
      BY <3>1
    <3> QED BY <2>1, <3>2
  <2>3. audit' = [audit EXCEPT ![kind] = [audit[kind] EXCEPT ![u] = audit[kind][u] + 1]]
    BY <1>5 DEF Record
  <2> QED BY <2>2, <2>3 DEF TypeOK
<1>6. ASSUME NEW email \in Emails, NEW role \in Roles, NEW by \in 0..MaxSessions,
             NEW since \in Times, InsertUser(email, role, by, since)
      PROVE  /\ users' \in [1..MaxUsers -> UserRows] /\ lastUser' \in 0..MaxUsers
             /\ lastUser' = lastUser + 1 /\ lastUser' \in 1..MaxUsers
  <2>1. lastUser' = lastUser + 1 /\ lastUser' \in 0..MaxUsers /\ lastUser' \in 1..MaxUsers
    BY <1>6, Fields, Bounds DEF InsertUser
  <2>2. [email |-> email, role |-> role, by |-> by, since |-> since] \in UserRows
    BY DEF UserRows
  <2>3. users' = [users EXCEPT ![lastUser'] =
                    [email |-> email, role |-> role, by |-> by, since |-> since]]
    BY <1>6, <2>1 DEF InsertUser
  <2> QED BY <2>1, <2>2, <2>3 DEF TypeOK
<1> QED BY <1>2, <1>3, <1>4, <1>5, <1>6

\* The steps, in the groups the proofs go by.
LEMMA Steps ==
  [Next]_vars =>
     \/ \E p \in Processes : Start(p) \/ CheckMigration(p) \/ ApplyMigration(p) \/ Stop(p)
     \/ \E p \in Seeders, e \in Emails, r \in Roles : SeedUser(p, e, r)
     \/ \E h \in Clients, e \in Emails, r \in Roles : CreateUser(h, e, r)
     \/ \E h \in Clients, now \in 0..MaxTime : LoginInsert(h, now)
     \/ \E h \in Clients : \/ \E u \in 1..MaxUsers : LoginRead(h, u)
                           \/ \E s \in 1..MaxSessions : AuthenticateRead(h, s)
                           \/ AuthenticateAccept(h) \/ Finish(h)
     \/ \E h \in Clients : Logout(h)
     \/ Tick
     \/ UNCHANGED vars
BY Zenon DEF Next

LEMMA NextType == TypeOK /\ RowsRefer /\ RequestsRefer /\ [Next]_vars => TypeOK'
<1> SUFFICES ASSUME TypeOK, RowsRefer, RequestsRefer, [Next]_vars PROVE TypeOK'
  OBVIOUS
<1>1. /\ Off \in Places /\ Open \in Places
      /\ \A v \in Nat : Check(v) \in Places /\ Apply(v) \in Places
  BY DEF Off, Open, Check, Apply, Places
<1>2. Idle \in Requests
  BY Bounds DEF Idle, None, Times, Requests
<1>3. ASSUME NEW p \in Processes, Start(p) \/ CheckMigration(p) \/ ApplyMigration(p) \/ Stop(p)
      PROVE  TypeOK'
  <2>1. proc[p].version \in Nat /\ proc[p].version + 1 \in Nat
    BY Fields
  <2>2. PICK x \in Places : At(p, x)
    <3>1. CASE Start(p)
      BY <1>1, <3>1 DEF Start
    <3>2. CASE CheckMigration(p)
      <4>1. (IF proc[p].version > Knows[p] THEN Open
             ELSE IF migrationApplied(proc[p].version) THEN Check(proc[p].version + 1)
             ELSE Apply(proc[p].version)) \in Places
        BY <1>1, <2>1
      <4> QED BY <3>2, <4>1 DEF CheckMigration
    <3>3. CASE ApplyMigration(p)
      BY <1>1, <2>1, <3>3 DEF ApplyMigration
    <3>4. CASE Stop(p)
      BY <1>1, <3>4 DEF Stop
    <3> QED BY <1>3, <3>1, <3>2, <3>3, <3>4
  <2>3. proc' \in [Processes -> Places]
    BY <2>2, NewValues
  <2>4. request' \in [Clients -> Requests]
    BY <1>2, <1>3 DEF TypeOK, Start, CheckMigration, ApplyMigration, Stop
  <2>5. built' \in SUBSET Nat /\ ledger' \in SUBSET Nat
    <3>1. \/ UNCHANGED <<built, ledger>>
          \/ built' = built \cup {proc[p].version} /\ ledger' = ledger \cup {proc[p].version}
      BY <1>3 DEF Start, CheckMigration, ApplyMigration, Stop, file, Recorded
    <3> QED BY <2>1, <3>1 DEF TypeOK
  <2>6. refused' \in SUBSET Processes /\ raced' \in SUBSET Processes
    BY <1>3 DEF TypeOK, Start, CheckMigration, ApplyMigration, Stop, file
  <2>7. UNCHANGED <<users, lastUser, sessions, lastSession, audit, clock>>
    BY <1>3 DEF Start, CheckMigration, ApplyMigration, Stop, rows
  <2> QED BY <2>3, <2>4, <2>5, <2>6, <2>7 DEF TypeOK
<1>7. ASSUME NEW p \in Seeders, NEW e \in Emails, NEW r \in Roles, SeedUser(p, e, r)
      PROVE  TypeOK'
  <2>1. None \in 0..MaxSessions /\ clock \in Times /\ p \in Processes
    BY Bounds, Fields DEF None
  <2>2. /\ InsertUser(e, r, None, clock) /\ At(p, Off)
        /\ UNCHANGED <<built, ledger, refused, raced, sessions, lastSession, audit, request, clock>>
    BY <1>7 DEF SeedUser, file
  <2>3. users' \in [1..MaxUsers -> UserRows] /\ lastUser' \in 0..MaxUsers
    BY <2>1, <2>2, NewValues
  <2>4. proc' \in [Processes -> Places]
    BY <1>1, <2>1, <2>2, NewValues
  <2> QED BY <2>2, <2>3, <2>4 DEF TypeOK
<1>8. ASSUME NEW h \in Clients, NEW e \in Emails, NEW r \in Roles, CreateUser(h, e, r)
      PROVE  TypeOK'
  <2>1. request[h].session \in 0..MaxSessions /\ request[h].since \in Times
    BY Fields
  <2>2. /\ InsertUser(e, r, request[h].session, request[h].since)
        /\ Record("user_created", lastUser + 1) /\ Answer(h)
        /\ UNCHANGED <<built, ledger, refused, raced, proc, sessions, lastSession, clock>>
    BY <1>8 DEF CreateUser, file
  <2>3. /\ users' \in [1..MaxUsers -> UserRows]
        /\ lastUser' \in 0..MaxUsers /\ lastUser + 1 \in 1..MaxUsers
    BY <2>1, <2>2, NewValues
  <2>4. audit' \in [Kinds -> [1..MaxUsers -> Nat]]
    BY <2>2, <2>3, NewValues DEF Kinds
  <2>5. request' \in [Clients -> Requests]
    BY <2>2, NewValues
  <2> QED BY <2>2, <2>3, <2>4, <2>5 DEF TypeOK
<1>9. ASSUME NEW h \in Clients, NEW x \in Requests, request' = [request EXCEPT ![h] = x],
             UNCHANGED <<file, proc, rows, clock>>
      PROVE  TypeOK'
  <2>1. request' \in [Clients -> Requests]
    BY <1>9, NewValues
  <2> QED BY <1>9, <2>1 DEF TypeOK, file, rows
<1>10. ASSUME NEW h \in Clients, NEW now \in 0..MaxTime, LoginInsert(h, now)
       PROVE  TypeOK'
  <2>1. request[h].user \in 1..MaxUsers /\ request[h].user \in 0..MaxUsers
    BY <1>10, ActingUser, Fields DEF LoginInsert
  <2> DEFINE row == [user |-> request[h].user, created |-> now, expires |-> now + SessionTTL,
                     revoked |-> Never]
  <2>2. /\ lastSession < MaxSessions /\ lastSession' = lastSession + 1
        /\ sessions' = [sessions EXCEPT ![lastSession + 1] = row]
        /\ Record("user_login", request[h].user) /\ Answer(h)
        /\ UNCHANGED <<built, ledger, refused, raced, proc, users, lastUser, clock>>
    BY <1>10 DEF LoginInsert, file
  <2>3. row \in SessionRows
    <3>1. now + SessionTTL \in Nat
      BY Bounds
    <3> QED BY <2>1, <3>1 DEF SessionRows, Times
  <2>4. lastSession' \in 0..MaxSessions
    BY <2>2, Fields, Bounds
  <2>5. sessions' \in [1..MaxSessions -> SessionRows]
    <3> HIDE DEF row
    <3> QED BY <2>2, <2>3 DEF TypeOK
  <2>6. audit' \in [Kinds -> [1..MaxUsers -> Nat]]
    BY <2>1, <2>2, NewValues DEF Kinds
  <2>7. request' \in [Clients -> Requests]
    BY <2>2, NewValues
  <2> QED BY <2>2, <2>4, <2>5, <2>6, <2>7 DEF TypeOK
<1>11. ASSUME NEW h \in Clients, \/ \E u \in 1..MaxUsers : LoginRead(h, u)
                                 \/ \E s \in 1..MaxSessions : AuthenticateRead(h, s)
                                 \/ AuthenticateAccept(h) \/ Finish(h)
       PROVE  TypeOK'
  <2>1. ASSUME NEW u \in 1..MaxUsers, LoginRead(h, u) PROVE TypeOK'
    <3>1. [op |-> "login", user |-> u, session |-> None, since |-> clock] \in Requests
      BY Fields, Bounds DEF Requests, None
    <3> QED BY <1>9, <2>1, <3>1 DEF LoginRead
  <2>2. ASSUME NEW s \in 1..MaxSessions, AuthenticateRead(h, s) PROVE TypeOK'
    <3>1. [op |-> "auth", user |-> sessions[s].user, session |-> s, since |-> clock] \in Requests
      BY Fields, Bounds DEF Requests
    <3> QED BY <1>9, <2>2, <3>1 DEF AuthenticateRead
  <2>3. CASE AuthenticateAccept(h)
    <3>1. [request[h] EXCEPT !.op = "serving"] \in Requests
      BY DEF TypeOK, Requests
    <3>2. request' = [request EXCEPT ![h] = [request[h] EXCEPT !.op = "serving"]]
      BY <2>3 DEF AuthenticateAccept
    <3> QED BY <1>9, <2>3, <3>1, <3>2 DEF AuthenticateAccept
  <2>4. CASE Finish(h)
    BY <1>2, <1>9, <2>4 DEF Finish, Answer
  <2> QED BY <1>11, <2>1, <2>2, <2>3, <2>4
<1>13. ASSUME NEW h \in Clients, Logout(h)
       PROVE  TypeOK'
  <2>1. request[h].user \in 1..MaxUsers
    BY <1>13, ActingUser DEF Logout, IsServing
  <2>2. /\ sessions' = [sessions EXCEPT ![request[h].session].revoked = clock]
        /\ Record("user_logout", request[h].user) /\ Answer(h)
        /\ UNCHANGED <<built, ledger, refused, raced, proc, users, lastUser, lastSession, clock>>
    BY <1>13 DEF Logout, file
  <2> DEFINE row == [sessions[request[h].session] EXCEPT !.revoked = clock]
  <2>3. sessions' \in [1..MaxSessions -> SessionRows]
    <3>1. sessions' = [sessions EXCEPT ![request[h].session] = row]
      BY <2>2
    <3>2. request[h].session \in 1..MaxSessions
      BY <1>13, Fields, Bounds DEF Logout, IsServing, RequestsRefer
    <3>3. sessions[request[h].session] \in SessionRows /\ clock \in Times
      BY <3>2, Fields DEF TypeOK
    <3>4. row \in SessionRows
      BY <3>3 DEF SessionRows
    <3> HIDE DEF row
    <3> QED BY <3>1, <3>4 DEF TypeOK
  <2>4. audit' \in [Kinds -> [1..MaxUsers -> Nat]]
    BY <2>1, <2>2, NewValues DEF Kinds
  <2>5. request' \in [Clients -> Requests]
    BY <2>2, NewValues
  <2> QED BY <2>2, <2>3, <2>4, <2>5 DEF TypeOK
<1>14. CASE Tick
  <2>1. clock' \in Times
    BY <1>14, Fields, Bounds DEF Tick, Times
  <2> QED BY <1>14, <2>1 DEF Tick, TypeOK, file, rows
<1>15. CASE UNCHANGED vars
  BY <1>15 DEF vars, file, rows, TypeOK
<1>16. CASE \E h \in Clients, e \in Emails, r \in Roles : CreateUser(h, e, r)
  BY <1>8, <1>16
<1>17. CASE \E h \in Clients, now \in 0..MaxTime : LoginInsert(h, now)
  BY <1>10, <1>17
<1>18. CASE \E h \in Clients : \/ \E u \in 1..MaxUsers : LoginRead(h, u)
                               \/ \E s \in 1..MaxSessions : AuthenticateRead(h, s)
                               \/ AuthenticateAccept(h) \/ Finish(h)
  BY <1>11, <1>18
<1>19. CASE \E h \in Clients : Logout(h)
  BY <1>13, <1>19
<1>20. CASE \E p \in Seeders, e \in Emails, r \in Roles : SeedUser(p, e, r)
  BY <1>7, <1>20
<1>21. CASE \E p \in Processes : Start(p) \/ CheckMigration(p) \/ ApplyMigration(p) \/ Stop(p)
  BY <1>3, <1>21
<1> QED BY Steps, <1>14, <1>15, <1>16, <1>17, <1>18, <1>19, <1>20, <1>21

-----------------------------------------------------------------------------
\* Starts.

LEMMA OfTheFile ==
  [Next]_vars =>
    \/ \E p \in Processes : Start(p) \/ CheckMigration(p) \/ ApplyMigration(p) \/ Stop(p)
    \/ \E p \in Processes : /\ proc' = [proc EXCEPT ![p] = Off]
                            /\ UNCHANGED <<built, ledger, refused, raced>>
    \/ UNCHANGED <<built, ledger, refused, raced, proc>>
<1> SUFFICES ASSUME [Next]_vars
             PROVE  \/ \E p \in Processes :
                         Start(p) \/ CheckMigration(p) \/ ApplyMigration(p) \/ Stop(p)
                    \/ \E p \in Processes : /\ proc' = [proc EXCEPT ![p] = Off]
                                            /\ UNCHANGED <<built, ledger, refused, raced>>
                    \/ UNCHANGED <<built, ledger, refused, raced, proc>>
  OBVIOUS
<1>1. CASE \E p \in Seeders, e \in Emails, r \in Roles : SeedUser(p, e, r)
  BY <1>1, Bounds DEF SeedUser, At, file
<1>2. CASE \E h \in Clients, e \in Emails, r \in Roles : CreateUser(h, e, r)
  BY <1>2 DEF CreateUser, file
<1>3. CASE \E h \in Clients, now \in 0..MaxTime : LoginInsert(h, now)
  BY <1>3 DEF LoginInsert, file
<1>4. CASE \E h \in Clients : \/ \E u \in 1..MaxUsers : LoginRead(h, u)
                              \/ \E s \in 1..MaxSessions : AuthenticateRead(h, s)
                              \/ AuthenticateAccept(h) \/ Finish(h)
  BY <1>4 DEF LoginRead, AuthenticateRead, AuthenticateAccept, Finish, file
<1>5. CASE \E h \in Clients : Logout(h)
  BY <1>5 DEF Logout, file
<1>6. CASE Tick
  BY <1>6 DEF Tick, file
<1>7. CASE UNCHANGED vars
  BY <1>7 DEF vars, file
<1> QED BY Steps, <1>1, <1>2, <1>3, <1>4, <1>5, <1>6, <1>7

\* A process that stands at a migration stands at Apply of its version.
LEMMA Standing ==
  ASSUME TypeOK, NEW q \in Processes, proc[q].at = "apply"
  PROVE  proc[q] = Apply(proc[q].version)
<1>1. proc[q] \in Places
  BY DEF TypeOK
<1> QED BY <1>1 DEF Places, Apply

\* One process moves to place x and nobody loses what is in the file.
LEMMA MoveKeepsStarts ==
  ASSUME TypeOK, StartsKnow, SchemaIsWhole, NEW p \in Processes, NEW x, At(p, x),
         built \subseteq built',
         x.at = "open" => x = Open,
         x.at \in {"check", "apply"} => x.version >= 1 /\ 1..x.version - 1 \subseteq built',
         x.at = "apply" => x.version \notin built',
         x = Open => 1..Knows[p] \subseteq built',
         \A q \in Processes \ {p} :
           /\ q \in raced => q \in raced'
           /\ proc[q].at = "apply" /\ proc[q].version \in built' => q \in raced'
  PROVE  /\ StartsKnow'
         /\ \A q \in Processes : proc'[q] = Open => 1..Knows[q] \subseteq built'
<1>1. proc' \in [Processes -> {proc'[q] : q \in Processes}]
      /\ proc'[p] = x /\ \A q \in Processes \ {p} : proc'[q] = proc[q]
  BY DEF At, TypeOK
<1>2. ASSUME NEW q \in Processes
      PROVE  /\ proc'[q].at = "open" => proc'[q] = Open
             /\ proc'[q].at \in {"check", "apply"} =>
                  proc'[q].version >= 1 /\ 1..proc'[q].version - 1 \subseteq built'
             /\ proc'[q].at = "apply" /\ proc'[q].version \in built' => q \in raced'
             /\ proc'[q] = Open => 1..Knows[q] \subseteq built'
  <2>1. CASE q = p
    BY <1>1, <2>1
  <2>2. CASE q # p
    BY <1>1, <2>2 DEF StartsKnow, SchemaIsWhole
  <2> QED BY <2>1, <2>2
<1> QED BY <1>2 DEF StartsKnow

LEMMA SchemaKept == TypeOK /\ Schema /\ [Next]_vars => Schema'
<1> SUFFICES ASSUME TypeOK, Schema, [Next]_vars PROVE Schema'
  OBVIOUS
<1>1. ledger = built /\ StartsKnow /\ SchemaIsWhole /\ refused \subseteq raced
  BY DEF Schema, LedgerIsBuilt, SchemaIsWhole
<1>2. ASSUME NEW p \in Processes, NEW x, At(p, x), x = Off \/ x = Check(1),
             ledger' = ledger, built' = built, refused' \subseteq raced',
             \A q \in Processes \ {p} : q \in raced => q \in raced'
      PROVE  Schema'
  <2>1. /\ x.at # "apply" /\ x.at # "open" /\ x # Open
        /\ x.at \in {"check", "apply"} => x.version >= 1 /\ 1..x.version - 1 = {}
    BY <1>2 DEF Off, Check, Open
  <2>2. \A q \in Processes \ {p} :
          proc[q].at = "apply" /\ proc[q].version \in built' => q \in raced'
    BY <1>1, <1>2 DEF StartsKnow
  <2>3. /\ StartsKnow'
        /\ \A q \in Processes : proc'[q] = Open => 1..Knows[q] \subseteq built'
    BY <1>1, <1>2, <2>1, <2>2, MoveKeepsStarts
  <2> QED BY <1>1, <1>2, <2>3 DEF Schema, LedgerIsBuilt, SchemaIsWhole
<1>3. ASSUME NEW p \in Processes, Start(p) PROVE Schema'
  BY <1>1, <1>2, <1>3 DEF Start
<1>4. ASSUME NEW p \in Processes, Stop(p) PROVE Schema'
  BY <1>1, <1>2, <1>4 DEF Stop, file
<1>5. ASSUME NEW p \in Processes, CheckMigration(p) PROVE Schema'
  <2> DEFINE v == proc[p].version
             x == IF v > Knows[p] THEN Open
                  ELSE IF migrationApplied(v) THEN Check(v + 1) ELSE Apply(v)
  <2>1. At(p, x) /\ UNCHANGED <<built, ledger, refused, raced>>
    BY <1>5 DEF CheckMigration, file
  <2>2. v \in Nat /\ v >= 1 /\ 1..v - 1 \subseteq built /\ Knows[p] \in Nat
    BY <1>1, <1>5, Fields, Bounds DEF CheckMigration, StartsKnow
  <2>3. /\ x.at = "open" => x = Open
        /\ x.at \in {"check", "apply"} => x.version >= 1 /\ 1..x.version - 1 \subseteq built'
        /\ x.at = "apply" => x.version \notin built'
        /\ x = Open => 1..Knows[p] \subseteq built'
    <3>1. CASE v > Knows[p]
      BY <2>1, <2>2, <3>1 DEF Open
    <3>2. CASE ~ v > Knows[p] /\ v \in ledger
      <4>1. x = Check(v + 1)
        BY <3>2 DEF migrationApplied
      <4>2. 1..v \subseteq built /\ v + 1 - 1 = v /\ v + 1 >= 1
        BY <1>1, <2>2, <3>2
      <4>3. x.at = "check" /\ x.version = v + 1 /\ x # Open
        BY <4>1 DEF Check, Open
      <4> HIDE DEF x
      <4>4. x.version >= 1 /\ x.version - 1 = v
        BY <2>2, <4>3
      <4> QED BY <2>1, <4>2, <4>3, <4>4
    <3>3. CASE ~ v > Knows[p] /\ v \notin ledger
      <4>1. x = Apply(v)
        BY <3>3 DEF migrationApplied
      <4> HIDE DEF x, v
      <4> QED BY <1>1, <2>1, <2>2, <3>3, <4>1 DEF Apply, Open
    <3> QED BY <3>1, <3>2, <3>3
  <2>4. \A q \in Processes \ {p} :
          /\ q \in raced => q \in raced'
          /\ proc[q].at = "apply" /\ proc[q].version \in built' => q \in raced'
    BY <1>1, <2>1 DEF StartsKnow
  <2>5. /\ StartsKnow'
        /\ \A q \in Processes : proc'[q] = Open => 1..Knows[q] \subseteq built'
    <3> HIDE DEF x
    <3> QED BY <1>1, <2>1, <2>3, <2>4, MoveKeepsStarts
  <2> QED BY <1>1, <2>1, <2>5 DEF Schema, LedgerIsBuilt, SchemaIsWhole
<1>6. ASSUME NEW p \in Processes, ApplyMigration(p) PROVE Schema'
  <2> DEFINE v == proc[p].version
  <2>1. v \in Nat /\ v >= 1 /\ 1..v - 1 \subseteq built /\ (v \in built => p \in raced)
    BY <1>1, <1>6, Fields DEF ApplyMigration, StartsKnow
  <2>2. CASE /\ v \notin built
             /\ built' = built \cup {v} /\ ledger' = ledger \cup {v}
             /\ raced' = raced \cup {q \in Processes \ {p} : proc[q] = Apply(v)}
             /\ At(p, Check(v + 1)) /\ refused' = refused
    <3> DEFINE x == Check(v + 1)
    <3>1. /\ x.at = "check" /\ x # Open
          /\ x.version >= 1 /\ 1..x.version - 1 \subseteq built'
      <4>1. x.at = "check" /\ x # Open /\ x.version = v + 1
        BY DEF Check, Open
      <4>2. v + 1 - 1 = v /\ v + 1 >= 1 /\ 1..v \subseteq built'
        BY <2>1, <2>2
      <4> HIDE DEF x
      <4>3. x.version >= 1 /\ x.version - 1 = v
        BY <2>1, <4>1
      <4> QED BY <4>1, <4>2, <4>3
    <3>2. ASSUME NEW q \in Processes \ {p}, proc[q].at = "apply", proc[q].version \in built'
          PROVE  q \in raced'
      <4>1. CASE proc[q].version = v
        BY <2>2, <3>2, <4>1, Standing
      <4>2. CASE proc[q].version # v
        BY <1>1, <2>2, <3>2, <4>2 DEF StartsKnow
      <4> QED BY <4>1, <4>2
    <3>3. At(p, x) /\ built \subseteq built' /\ raced \subseteq raced'
      BY <2>2
    <3>4. /\ StartsKnow'
          /\ \A q \in Processes : proc'[q] = Open => 1..Knows[q] \subseteq built'
      <4> HIDE DEF x, v
      <4> QED BY <1>1, <3>1, <3>2, <3>3, MoveKeepsStarts
    <3> QED BY <1>1, <2>2, <3>3, <3>4 DEF Schema, LedgerIsBuilt, SchemaIsWhole
  <2>3. CASE /\ v \in built /\ refused' = refused \cup {p}
             /\ At(p, Off) /\ UNCHANGED <<built, ledger, raced>>
    BY <1>1, <1>2, <2>1, <2>3
  <2> QED BY <1>6, <2>2, <2>3 DEF ApplyMigration, Recorded
<1>7. CASE \E p \in Processes : /\ proc' = [proc EXCEPT ![p] = Off]
                                /\ UNCHANGED <<built, ledger, refused, raced>>
  BY <1>1, <1>2, <1>7 DEF At
<1>8. CASE UNCHANGED <<built, ledger, refused, raced, proc>>
  BY <1>8 DEF Schema, LedgerIsBuilt, StartsKnow, SchemaIsWhole
<1> QED BY OfTheFile, <1>3, <1>4, <1>5, <1>6, <1>7, <1>8

-----------------------------------------------------------------------------
\* The tables.

LEMMA OfTheTables ==
  ASSUME TypeOK, [Next]_vars
  PROVE  /\ clock' >= clock
         /\ \/ \E p \in Seeders, e \in Emails, r \in Roles : SeedUser(p, e, r)
            \/ \E h \in Clients, e \in Emails, r \in Roles : CreateUser(h, e, r)
            \/ \E h \in Clients, now \in 0..MaxTime : LoginInsert(h, now)
            \/ \E h \in Clients : Logout(h)
            \/ UNCHANGED <<users, lastUser, sessions, lastSession, audit>>
<1> DEFINE Quiet == UNCHANGED <<users, lastUser, sessions, lastSession, audit>>
<1>0. clock \in Nat
  BY Fields
<1>1. CASE \E p \in Processes : Start(p) \/ CheckMigration(p) \/ ApplyMigration(p) \/ Stop(p)
  <2>1. Quiet /\ clock' = clock
    BY <1>1 DEF Start, CheckMigration, ApplyMigration, Stop, rows
  <2> QED BY <1>0, <2>1
<1>2. CASE \E p \in Seeders, e \in Emails, r \in Roles : SeedUser(p, e, r)
  <2>1. clock' = clock
    BY <1>2 DEF SeedUser
  <2> QED BY <1>0, <1>2, <2>1
<1>3. CASE \E h \in Clients, e \in Emails, r \in Roles : CreateUser(h, e, r)
  <2>1. clock' = clock
    BY <1>3 DEF CreateUser
  <2> QED BY <1>0, <1>3, <2>1
<1>4. CASE \E h \in Clients, now \in 0..MaxTime : LoginInsert(h, now)
  <2>1. clock' = clock
    BY <1>4 DEF LoginInsert
  <2> QED BY <1>0, <1>4, <2>1
<1>5. CASE \E h \in Clients : \/ \E u \in 1..MaxUsers : LoginRead(h, u)
                              \/ \E s \in 1..MaxSessions : AuthenticateRead(h, s)
                              \/ AuthenticateAccept(h) \/ Finish(h)
  <2>1. Quiet /\ clock' = clock
    BY <1>5 DEF LoginRead, AuthenticateRead, AuthenticateAccept, Finish, rows
  <2> QED BY <1>0, <2>1
<1>6. CASE \E h \in Clients : Logout(h)
  <2>1. clock' = clock
    BY <1>6 DEF Logout
  <2> QED BY <1>0, <1>6, <2>1
<1>7. CASE Tick
  <2>1. Quiet /\ clock' = clock + 1
    BY <1>7 DEF Tick, rows
  <2> QED BY <1>0, <2>1
<1>8. CASE UNCHANGED vars
  <2>1. Quiet /\ clock' = clock
    BY <1>8 DEF vars, rows
  <2> QED BY <1>0, <2>1
<1> HIDE DEF Quiet
<1> QED BY Steps, <1>1, <1>2, <1>3, <1>4, <1>5, <1>6, <1>7, <1>8

LEMMA NewUser ==
  ASSUME TypeOK, NEW email, NEW role, NEW by, NEW since, InsertUser(email, role, by, since)
  PROVE  /\ lastUser' = lastUser + 1 /\ lastUser + 1 \in 1..MaxUsers
         /\ users'[lastUser + 1] = [email |-> email, role |-> role, by |-> by, since |-> since]
         /\ \A u \in 1..MaxUsers : u # lastUser + 1 => users'[u] = users[u]
         /\ \A u \in 1..lastUser : u \in 1..MaxUsers /\ u # lastUser + 1
<1>1. lastUser \in 0..MaxUsers /\ lastUser < MaxUsers /\ lastUser' = lastUser + 1
  BY Fields DEF InsertUser
<1>2. lastUser + 1 \in 1..MaxUsers
  BY <1>1, Bounds
<1>3. \A u \in 1..lastUser : u \in 1..MaxUsers /\ u # lastUser + 1
  BY <1>1, Bounds
<1> QED BY <1>1, <1>2, <1>3 DEF InsertUser, TypeOK

LEMMA NewSession ==
  ASSUME TypeOK, NEW h \in Clients, NEW now \in 0..MaxTime, LoginInsert(h, now)
  PROVE  /\ lastSession' = lastSession + 1 /\ lastSession + 1 \in 1..MaxSessions
         /\ sessions'[lastSession + 1] = [user |-> request[h].user, created |-> now,
                                          expires |-> now + SessionTTL, revoked |-> Never]
         /\ \A s \in 1..lastSession :
              s \in 1..MaxSessions /\ s # lastSession + 1 /\ sessions'[s] = sessions[s]
<1>1. lastSession \in 0..MaxSessions /\ lastSession < MaxSessions /\ lastSession' = lastSession + 1
  BY Fields DEF LoginInsert
<1>2. lastSession + 1 \in 1..MaxSessions
  BY <1>1, Bounds
<1>3. \A s \in 1..lastSession : s \in 1..MaxSessions /\ s # lastSession + 1
  BY <1>1, Bounds
<1> QED BY <1>1, <1>2, <1>3 DEF LoginInsert, TypeOK

LEMMA EndedSession ==
  ASSUME TypeOK, RequestsRefer, NEW h \in Clients, Logout(h)
  PROVE  /\ request[h].session \in 1..lastSession /\ request[h].session \in 1..MaxSessions
         /\ request[h].user = sessions[request[h].session].user
         /\ sessions[request[h].session].revoked = Never
         /\ lastSession' = lastSession
         /\ \A s \in 1..MaxSessions :
              /\ sessions'[s].user = sessions[s].user
              /\ sessions'[s].expires = sessions[s].expires
              /\ sessions'[s].revoked =
                   IF s = request[h].session THEN clock ELSE sessions[s].revoked
<1>1. request[h].session \in 1..lastSession /\ request[h].user = sessions[request[h].session].user
  BY DEF Logout, IsServing, RequestsRefer
<1>2. request[h].session \in 1..MaxSessions
  BY <1>1, Fields, Bounds
<1>3. /\ sessions' = [sessions EXCEPT ![request[h].session].revoked = clock]
      /\ sessions[request[h].session].revoked = Never /\ lastSession' = lastSession
  BY DEF Logout, Unrevoked
<1>4. sessions[request[h].session] \in SessionRows
  BY <1>2 DEF TypeOK
<1>5. /\ sessions'[request[h].session].user = sessions[request[h].session].user
      /\ sessions'[request[h].session].expires = sessions[request[h].session].expires
      /\ sessions'[request[h].session].revoked = clock
  BY <1>2, <1>3, <1>4 DEF TypeOK, SessionRows
<1>6. \A s \in 1..MaxSessions : s # request[h].session => sessions'[s] = sessions[s]
  BY <1>3 DEF TypeOK
<1> QED BY <1>1, <1>2, <1>3, <1>5, <1>6

LEMMA RowsReferKept == TypeOK /\ RowsRefer /\ RequestsRefer /\ [Next]_vars => RowsRefer'
<1> SUFFICES ASSUME TypeOK, RowsRefer, RequestsRefer, [Next]_vars PROVE RowsRefer'
  OBVIOUS
<1>1. /\ lastUser \in Nat /\ lastSession \in Nat /\ clock \in Nat /\ clock' >= clock
      /\ clock' \in Nat /\ lastUser <= MaxUsers /\ lastSession <= MaxSessions
      /\ \A u \in 1..lastUser : u \in 1..MaxUsers /\ users[u].since \in Nat
      /\ \A s \in 1..lastSession : s \in 1..MaxSessions
  <2>1. TypeOK' /\ clock' >= clock
    BY NextType, OfTheTables
  <2>2. clock' \in Nat
    BY <2>1, Bounds DEF TypeOK, Times
  <2>3. /\ lastUser \in Nat /\ lastSession \in Nat /\ clock \in Nat
        /\ lastUser <= MaxUsers /\ lastSession <= MaxSessions
        /\ MaxUsers \in Nat /\ MaxSessions \in Nat
    BY Fields, Bounds
  <2>4. \A u \in 1..lastUser : u \in 1..MaxUsers /\ users[u].since \in Nat
    BY <2>3, Fields
  <2> QED BY <2>1, <2>2, <2>3, <2>4
<1>2. ASSUME NEW e, NEW r, NEW by \in 0..lastSession, NEW since \in Nat, since <= clock,
             InsertUser(e, r, by, since), UNCHANGED <<sessions, lastSession>>
      PROVE  RowsRefer'
  <2>0. /\ lastUser' = lastUser + 1 /\ users'[lastUser + 1].by = by
        /\ users'[lastUser + 1].since = since
        /\ \A u \in 1..lastUser : users'[u] = users[u]
    <3>1. /\ lastUser' = lastUser + 1
          /\ users'[lastUser + 1] = [email |-> e, role |-> r, by |-> by, since |-> since]
          /\ \A u \in 1..MaxUsers : u # lastUser + 1 => users'[u] = users[u]
          /\ \A u \in 1..lastUser : u \in 1..MaxUsers /\ u # lastUser + 1
      BY <1>2, NewUser
    <3> QED BY <3>1
  <2>1. ASSUME NEW u \in 1..lastUser'
        PROVE  users'[u].by \in 0..lastSession' /\ users'[u].since <= clock'
    <3>0. u = lastUser + 1 \/ u \in 1..lastUser
      BY <1>1, <2>0
    <3>1. CASE u = lastUser + 1
      BY <1>1, <1>2, <2>0, <3>1
    <3>2. CASE u \in 1..lastUser
      <4>1. users'[u] = users[u] /\ users[u].since \in Nat
        BY <1>1, <2>0, <3>2
      <4> QED BY <1>1, <1>2, <3>2, <4>1 DEF RowsRefer
    <3> QED BY <3>0, <3>1, <3>2
  <2>2. ASSUME NEW s \in 1..lastSession' PROVE sessions'[s].user \in 1..lastUser'
    <3>1. sessions'[s].user \in 1..lastUser
      BY <1>2 DEF RowsRefer
    <3> QED BY <1>1, <2>0, <3>1
  <2> QED BY <2>1, <2>2 DEF RowsRefer
<1>3. CASE \E p \in Seeders, e \in Emails, r \in Roles : SeedUser(p, e, r)
  BY <1>1, <1>2, <1>3 DEF SeedUser, None
<1>4. ASSUME NEW h \in Clients, NEW e, NEW r, CreateUser(h, e, r) PROVE RowsRefer'
  <2>1. /\ request[h].session \in 0..lastSession
        /\ request[h].since \in Nat /\ request[h].since <= clock
    BY <1>1, <1>4, Fields DEF CreateUser, IsServing, RequestsRefer
  <2> QED BY <1>2, <1>4, <2>1 DEF CreateUser
<1>5. ASSUME NEW h \in Clients, NEW now \in 0..MaxTime, LoginInsert(h, now) PROVE RowsRefer'
  <2>1. request[h].user \in 1..lastUser /\ users' = users /\ lastUser' = lastUser
    BY <1>5, ActingUser DEF LoginInsert
  <2>0. /\ lastSession' = lastSession + 1
        /\ sessions'[lastSession + 1].user = request[h].user
        /\ \A s \in 1..lastSession : sessions'[s] = sessions[s]
    <3>1. /\ lastSession' = lastSession + 1
          /\ sessions'[lastSession + 1] = [user |-> request[h].user, created |-> now,
                                           expires |-> now + SessionTTL, revoked |-> Never]
          /\ \A s \in 1..lastSession : sessions'[s] = sessions[s]
      BY <1>5, NewSession
    <3> QED BY <3>1
  <2>2. ASSUME NEW s \in 1..lastSession' PROVE sessions'[s].user \in 1..lastUser'
    <3>1. s = lastSession + 1 \/ s \in 1..lastSession
      BY <1>1, <2>0
    <3> QED BY <2>0, <2>1, <3>1 DEF RowsRefer
  <2>3. ASSUME NEW u \in 1..lastUser'
        PROVE  users'[u].by \in 0..lastSession' /\ users'[u].since <= clock'
    <3>1. u \in 1..lastUser /\ users' = users
      BY <2>1
    <3>2. users[u].by \in 0..lastSession /\ users[u].since <= clock /\ users[u].since \in Nat
      BY <1>1, <3>1 DEF RowsRefer
    <3> QED BY <1>1, <2>0, <3>1, <3>2
  <2> QED BY <2>2, <2>3 DEF RowsRefer
<1>6. ASSUME NEW h \in Clients, Logout(h) PROVE RowsRefer'
  <2>1. users' = users /\ lastUser' = lastUser /\ clock' = clock
    BY <1>6 DEF Logout
  <2>2. ASSUME NEW s \in 1..lastSession' PROVE sessions'[s].user \in 1..lastUser'
    <3>1. lastSession' = lastSession /\ s \in 1..MaxSessions
      BY <1>1, <1>6, EndedSession, Bounds
    <3>2. sessions'[s].user = sessions[s].user
      BY <1>6, <3>1, EndedSession
    <3> QED BY <2>1, <3>1, <3>2 DEF RowsRefer
  <2> QED BY <1>6, <2>1, <2>2, EndedSession DEF RowsRefer
<1>7. CASE UNCHANGED <<users, lastUser, sessions, lastSession, audit>>
  <2>1. \A u \in 1..lastUser : users[u].since <= clock'
    BY <1>1 DEF RowsRefer
  <2> QED BY <1>7, <2>1 DEF RowsRefer
<1> QED BY OfTheTables, <1>3, <1>4, <1>5, <1>6, <1>7

\* Rows stay, and of a row only the end of a session changes, once.
LEMMA Grow ==
  ASSUME TypeOK, RequestsRefer, [Next]_vars
  PROVE  /\ lastUser' \in Nat /\ lastSession' \in Nat
         /\ lastUser <= lastUser' /\ lastSession <= lastSession'
         /\ \A u \in 1..lastUser : users'[u] = users[u] /\ u \in 1..lastUser'
         /\ \A s \in 1..lastSession :
              /\ s \in 1..lastSession' /\ s \in 1..MaxSessions
              /\ sessions'[s].user = sessions[s].user
              /\ sessions'[s].expires = sessions[s].expires
              /\ \/ sessions'[s].revoked = sessions[s].revoked
                 \/ sessions[s].revoked = Never /\ sessions'[s].revoked = clock
<1>1. /\ lastUser \in Nat /\ lastSession \in Nat
      /\ \A s \in 1..lastSession : s \in 1..MaxSessions
  BY Fields, Bounds
<1>2. /\ lastUser' = lastUser \/ lastUser' = lastUser + 1
      /\ \A u \in 1..lastUser : users'[u] = users[u]
  <2>1. ASSUME NEW e, NEW r, NEW by, NEW since, InsertUser(e, r, by, since)
        PROVE  lastUser' = lastUser + 1 /\ \A u \in 1..lastUser : users'[u] = users[u]
    <3>1. /\ lastUser' = lastUser + 1
          /\ \A u \in 1..MaxUsers : u # lastUser + 1 => users'[u] = users[u]
          /\ \A u \in 1..lastUser : u \in 1..MaxUsers /\ u # lastUser + 1
      BY <2>1, NewUser
    <3> QED BY <3>1
  <2>2. CASE \E p \in Seeders, e \in Emails, r \in Roles : SeedUser(p, e, r)
    <3>1. PICK e, r : InsertUser(e, r, None, clock)
      BY <2>2 DEF SeedUser
    <3> QED BY <2>1, <3>1
  <2>3. CASE \E h \in Clients, e \in Emails, r \in Roles : CreateUser(h, e, r)
    <3>1. PICK e, r, by, since : InsertUser(e, r, by, since)
      BY <2>3 DEF CreateUser
    <3> QED BY <2>1, <3>1
  <2>4. CASE \E h \in Clients, now \in 0..MaxTime : LoginInsert(h, now)
    BY <2>4 DEF LoginInsert
  <2>5. CASE \E h \in Clients : Logout(h)
    BY <2>5 DEF Logout
  <2> QED BY OfTheTables, <2>2, <2>3, <2>4, <2>5
<1>3. /\ lastSession' = lastSession \/ lastSession' = lastSession + 1
      /\ \A s \in 1..lastSession :
           /\ sessions'[s].user = sessions[s].user
           /\ sessions'[s].expires = sessions[s].expires
           /\ \/ sessions'[s].revoked = sessions[s].revoked
              \/ sessions[s].revoked = Never /\ sessions'[s].revoked = clock
  <2>1. CASE \E p \in Seeders, e \in Emails, r \in Roles : SeedUser(p, e, r)
    BY <2>1 DEF SeedUser
  <2>2. CASE \E h \in Clients, e \in Emails, r \in Roles : CreateUser(h, e, r)
    BY <2>2 DEF CreateUser
  <2>3. CASE \E h \in Clients, now \in 0..MaxTime : LoginInsert(h, now)
    <3>1. PICK h \in Clients, now \in 0..MaxTime : LoginInsert(h, now)
      BY <2>3
    <3>2. lastSession' = lastSession + 1 /\ \A s \in 1..lastSession : sessions'[s] = sessions[s]
      BY <3>1, NewSession
    <3> QED BY <3>2
  <2>4. CASE \E h \in Clients : Logout(h)
    <3>1. PICK h \in Clients : Logout(h)
      BY <2>4
    <3>2. /\ lastSession' = lastSession
          /\ sessions[request[h].session].revoked = Never
          /\ \A s \in 1..MaxSessions :
               /\ sessions'[s].user = sessions[s].user
               /\ sessions'[s].expires = sessions[s].expires
               /\ sessions'[s].revoked =
                    IF s = request[h].session THEN clock ELSE sessions[s].revoked
      BY <3>1, EndedSession
    <3> QED BY <1>1, <3>2
  <2> QED BY OfTheTables, <2>1, <2>2, <2>3, <2>4
<1> QED BY <1>1, <1>2, <1>3

\* How a request goes on.
LEMMA GoesOn ==
  ASSUME TypeOK, [Next]_vars, NEW g \in Clients
  PROVE  \/ request'[g] = request[g]
         \/ request'[g] = Idle
         \/ \E u \in 1..lastUser :
              request'[g] = [op |-> "login", user |-> u, session |-> None, since |-> clock]
         \/ \E s \in 1..lastSession :
              /\ sessions[s].revoked = Never /\ sessions' = sessions
              /\ request'[g] = [op |-> "auth", user |-> sessions[s].user, session |-> s,
                                since |-> clock]
         \/ /\ request[g].op = "auth" /\ sessions[request[g].session].expires > clock
            /\ request'[g] = [request[g] EXCEPT !.op = "serving"]
<1> DEFINE P == \/ request'[g] = request[g]
                \/ request'[g] = Idle
                \/ \E u \in 1..lastUser :
                     request'[g] = [op |-> "login", user |-> u, session |-> None, since |-> clock]
                \/ \E s \in 1..lastSession :
                     /\ sessions[s].revoked = Never /\ sessions' = sessions
                     /\ request'[g] = [op |-> "auth", user |-> sessions[s].user, session |-> s,
                                       since |-> clock]
                \/ /\ request[g].op = "auth" /\ sessions[request[g].session].expires > clock
                   /\ request'[g] = [request[g] EXCEPT !.op = "serving"]
<1> SUFFICES P
  OBVIOUS
<1>1. \A h \in Clients : \A x : request' = [request EXCEPT ![h] = x] =>
        request'[h] = x /\ (g # h => request'[g] = request[g])
  BY DEF TypeOK
<1>2. \A h \in Clients : Answer(h) => P
  BY <1>1 DEF Answer
<1>3. CASE \E p \in Processes : Start(p) \/ CheckMigration(p) \/ ApplyMigration(p) \/ Stop(p)
  BY <1>3 DEF Start, CheckMigration, ApplyMigration, Stop
<1>4. CASE \E p \in Seeders, e \in Emails, r \in Roles : SeedUser(p, e, r)
  BY <1>4 DEF SeedUser
<1>5. CASE \E h \in Clients, e \in Emails, r \in Roles : CreateUser(h, e, r)
  BY <1>2, <1>5 DEF CreateUser
<1>6. CASE \E h \in Clients, now \in 0..MaxTime : LoginInsert(h, now)
  BY <1>2, <1>6 DEF LoginInsert
<1>7. ASSUME NEW h \in Clients, \/ \E u \in 1..MaxUsers : LoginRead(h, u)
                                \/ \E s \in 1..MaxSessions : AuthenticateRead(h, s)
                                \/ AuthenticateAccept(h) \/ Finish(h)
      PROVE  P
  <2>1. ASSUME NEW u \in 1..MaxUsers, LoginRead(h, u) PROVE P
    BY <1>1, <2>1 DEF LoginRead
  <2>2. ASSUME NEW s \in 1..MaxSessions, AuthenticateRead(h, s) PROVE P
    BY <1>1, <2>2 DEF AuthenticateRead, Unrevoked, rows
  <2>3. CASE AuthenticateAccept(h)
    <3>1. request' = [request EXCEPT ![h] = [request[h] EXCEPT !.op = "serving"]]
      BY <2>3 DEF AuthenticateAccept
    <3> QED BY <1>1, <2>3, <3>1 DEF AuthenticateAccept
  <2>4. CASE Finish(h)
    BY <1>2, <2>4 DEF Finish
  <2> QED BY <1>7, <2>1, <2>2, <2>3, <2>4
<1>8. CASE \E h \in Clients : \/ \E u \in 1..MaxUsers : LoginRead(h, u)
                              \/ \E s \in 1..MaxSessions : AuthenticateRead(h, s)
                              \/ AuthenticateAccept(h) \/ Finish(h)
  BY <1>7, <1>8
<1>9. CASE \E h \in Clients : Logout(h)
  BY <1>2, <1>9 DEF Logout
<1>10. CASE Tick
  BY <1>10 DEF Tick
<1>11. CASE UNCHANGED vars
  BY <1>11 DEF vars
<1> HIDE DEF P
<1> QED BY Steps, <1>3, <1>4, <1>5, <1>6, <1>8, <1>9, <1>10, <1>11

-----------------------------------------------------------------------------
\* Requests.

LEMMA RequestsReferKept == TypeOK /\ RowsRefer /\ RequestsRefer /\ [Next]_vars => RequestsRefer'
<1> SUFFICES ASSUME TypeOK, RowsRefer, RequestsRefer, [Next]_vars, NEW h \in Clients
             PROVE  /\ request'[h].since <= clock'
                    /\ request'[h].op = "login" => request'[h].user \in 1..lastUser'
                    /\ request'[h].op \in {"auth", "serving"} =>
                         LET s == request'[h].session
                         IN /\ s \in 1..lastSession'
                            /\ request'[h].user = sessions'[s].user
                            /\ \/ sessions'[s].revoked = Never
                               \/ sessions'[s].revoked >= request'[h].since
                    /\ request'[h].op = "serving" =>
                         sessions'[request'[h].session].expires > request'[h].since
  BY DEF RequestsRefer, Unrevoked
<1>1. /\ clock \in Nat /\ clock' \in Nat /\ clock <= clock'
      /\ request[h].since \in Nat /\ request[h].since <= clock
  <2>1. TypeOK' /\ clock' >= clock
    BY NextType, OfTheTables
  <2>2. clock' \in Nat
    BY <2>1, Bounds DEF TypeOK, Times
  <2> QED BY <2>1, <2>2, Fields DEF RequestsRefer
<1> DEFINE s == request[h].session
<1>2. CASE request[h].op \in {"auth", "serving"} /\ request'[h].session = s
           /\ request'[h].user = request[h].user /\ request'[h].since = request[h].since
           /\ \/ request'[h].op = request[h].op
              \/ request'[h].op = "serving" /\ sessions[s].expires > clock
  <2>1. /\ s \in 1..lastSession /\ request[h].user = sessions[s].user
        /\ sessions[s].revoked = Never \/ sessions[s].revoked >= request[h].since
    BY <1>2 DEF RequestsRefer, Unrevoked
  <2>2. /\ s \in 1..lastSession' /\ sessions'[s].user = sessions[s].user
        /\ sessions'[s].expires = sessions[s].expires
        /\ \/ sessions'[s].revoked = sessions[s].revoked
           \/ sessions[s].revoked = Never /\ sessions'[s].revoked = clock
    BY <2>1, Grow
  <2>3. sessions'[s].revoked = Never \/ sessions'[s].revoked >= request[h].since
    BY <1>1, <2>1, <2>2
  <2>4. request'[h].op = "serving" => sessions[s].expires > request[h].since
    <3>1. request[h].op = "serving" => sessions[s].expires > request[h].since
      BY DEF RequestsRefer
    <3>2. sessions[s].expires > clock => sessions[s].expires > request[h].since
      <4>1. sessions[s].expires \in Nat
        BY <2>1, Grow, Fields
      <4> QED BY <1>1, <4>1
    <3> QED BY <1>2, <3>1, <3>2
  <2>5. request'[h].op # "login"
    BY <1>2
  <2> QED BY <1>1, <1>2, <2>1, <2>2, <2>3, <2>4, <2>5
<1>3. CASE request'[h] = Idle
  <2>1. request'[h].since = 0 /\ request'[h].op = "idle"
    BY <1>3 DEF Idle
  <2> QED BY <1>1, <2>1
<1>4. CASE request'[h] = request[h]
  <2>1. CASE request[h].op \in {"auth", "serving"}
    BY <1>2, <1>4, <2>1
  <2>2. CASE request[h].op \notin {"auth", "serving"}
    <3>1. request'[h].op = "login" => request[h].user \in 1..lastUser /\ request[h].user \in 1..lastUser'
      BY <1>4, Grow DEF RequestsRefer
    <3> QED BY <1>1, <1>4, <2>2, <3>1
  <2> QED BY <2>1, <2>2
<1>5. CASE \E u \in 1..lastUser :
             request'[h] = [op |-> "login", user |-> u, session |-> None, since |-> clock]
  <2>1. request'[h].op = "login" /\ request'[h].user \in 1..lastUser' /\ request'[h].since = clock
    BY <1>5, Grow
  <2> QED BY <1>1, <2>1
<1>6. CASE \E z \in 1..lastSession :
             /\ sessions[z].revoked = Never /\ sessions' = sessions
             /\ request'[h] = [op |-> "auth", user |-> sessions[z].user, session |-> z,
                               since |-> clock]
  <2>1. PICK z \in 1..lastSession :
             /\ sessions[z].revoked = Never /\ sessions' = sessions
             /\ request'[h] = [op |-> "auth", user |-> sessions[z].user, session |-> z,
                               since |-> clock]
    BY <1>6
  <2>2. /\ request'[h].op = "auth" /\ request'[h].session = z
        /\ request'[h].user = sessions[z].user /\ request'[h].since = clock
    BY <2>1
  <2>3. z \in 1..lastSession'
    BY Grow
  <2> QED BY <1>1, <2>1, <2>2, <2>3
<1>7. CASE /\ request[h].op = "auth" /\ sessions[request[h].session].expires > clock
           /\ request'[h] = [request[h] EXCEPT !.op = "serving"]
  <2>1. request[h] \in Requests
    BY DEF TypeOK
  <2>2. /\ request'[h].session = s /\ request'[h].user = request[h].user
        /\ request'[h].since = request[h].since
    BY <1>7, <2>1 DEF Requests
  <2> QED BY <1>2, <1>7, <2>2
<1> QED BY GoesOn, <1>3, <1>4, <1>5, <1>6, <1>7

-----------------------------------------------------------------------------
\* Accounts.

\* What AccountsTraceToSeed says of one account.
Traced(u) ==
  users[u].by # None =>
    LET creator == sessions[users[u].by].user
    IN /\ creator \in 1..u - 1
       /\ users[creator].role = "ml_engineer"
       /\ OpenAt(users[u].by, users[u].since)

LEMMA AccountsKept ==
  TypeOK /\ RowsRefer /\ RequestsRefer /\ AccountsTraceToSeed /\ [Next]_vars
    => AccountsTraceToSeed'
<1> SUFFICES ASSUME TypeOK, RowsRefer, RequestsRefer, AccountsTraceToSeed, [Next]_vars
             PROVE  \A u \in 1..lastUser' : Traced(u)'
  BY DEF AccountsTraceToSeed, Traced
<1>1. /\ lastUser \in Nat /\ lastSession \in Nat /\ clock \in Nat
      /\ \A u \in 1..lastUser : Traced(u) /\ u \in 1..MaxUsers
  BY Fields, Bounds DEF AccountsTraceToSeed, Traced
<1>0. PICK n : n = lastUser + 1
  OBVIOUS
\* An account that was there keeps its creator.
<1>2. ASSUME NEW u \in 1..lastUser PROVE Traced(u)'
  <2> SUFFICES ASSUME users[u].by # None PROVE Traced(u)'
    BY Grow DEF Traced
  <2> DEFINE b == users[u].by
             c == sessions[b].user
  <2>1. /\ users'[u] = users[u] /\ b \in 1..lastSession /\ users[u].since \in Nat
        /\ users[u].since <= clock
    <3>1. b \in 0..lastSession /\ users[u].since <= clock
      BY DEF RowsRefer
    <3>2. users[u].since \in Nat
      BY <1>1, Fields
    <3> QED BY <1>1, <3>1, <3>2, Grow DEF None
  <2>2. /\ c \in 1..u - 1 /\ users[c].role = "ml_engineer"
        /\ sessions[b].revoked = Never \/ sessions[b].revoked >= users[u].since
        /\ sessions[b].expires > users[u].since
    BY <1>1 DEF Traced, OpenAt
  <2>3. /\ sessions'[b].user = c /\ sessions'[b].expires = sessions[b].expires
        /\ \/ sessions'[b].revoked = sessions[b].revoked
           \/ sessions[b].revoked = Never /\ sessions'[b].revoked = clock
    BY <2>1, Grow
  <2>4. c \in 1..lastUser
    BY <1>1, <2>2
  <2>5. users'[c] = users[c]
    BY <2>4, Grow
  <2>6. sessions'[b].revoked = Never \/ sessions'[b].revoked >= users[u].since
    BY <1>1, <2>1, <2>2, <2>3
  <2> QED BY <2>1, <2>2, <2>3, <2>5, <2>6 DEF Traced, OpenAt
\* A new account has the session of its request for a creator.
<1>3. ASSUME NEW h \in Clients, NEW e, NEW r, CreateUser(h, e, r) PROVE Traced(n)'
  <2> DEFINE b == request[h].session
             c == sessions[b].user
  <2>1. /\ b \in 1..lastSession /\ request[h].user = c /\ c \in 1..lastUser
        /\ sessions[b].revoked = Never \/ sessions[b].revoked >= request[h].since
        /\ sessions[b].expires > request[h].since
    BY <1>3 DEF CreateUser, IsServing, RequestsRefer, RowsRefer, Unrevoked
  <2>2. /\ users[c].role = "ml_engineer" /\ sessions' = sessions
        /\ InsertUser(e, r, b, request[h].since)
    BY <1>3, <2>1 DEF CreateUser, requireRole
  <2>3. users'[n].by = b /\ users'[n].since = request[h].since
    <3>1. users'[n] = [email |-> e, role |-> r, by |-> b, since |-> request[h].since]
      BY <1>0, <2>2, NewUser
    <3> QED BY <3>1
  <2>4. users'[c] = users[c] /\ c \in 1..n - 1
    BY <1>0, <1>1, <2>1, Grow
  <2> QED BY <2>1, <2>2, <2>3, <2>4 DEF Traced, OpenAt
<1>4. ASSUME NEW p \in Seeders, NEW e, NEW r, SeedUser(p, e, r) PROVE Traced(n)'
  <2>1. users'[n] = [email |-> e, role |-> r, by |-> None, since |-> clock]
    BY <1>0, <1>4, NewUser DEF SeedUser
  <2>2. users'[n].by = None
    BY <2>1
  <2> QED BY <2>2 DEF Traced
<1>5. \/ lastUser' = lastUser
      \/ lastUser' = n /\ Traced(n)'
  <2>1. CASE \E p \in Seeders, e \in Emails, r \in Roles : SeedUser(p, e, r)
    BY <1>0, <1>4, <2>1 DEF SeedUser, InsertUser
  <2>2. CASE \E h \in Clients, e \in Emails, r \in Roles : CreateUser(h, e, r)
    BY <1>0, <1>3, <2>2 DEF CreateUser, InsertUser
  <2>3. CASE \E h \in Clients, now \in 0..MaxTime : LoginInsert(h, now)
    BY <2>3 DEF LoginInsert
  <2>4. CASE \E h \in Clients : Logout(h)
    BY <2>4 DEF Logout
  <2> QED BY OfTheTables, <2>1, <2>2, <2>3, <2>4
<1> QED BY <1>0, <1>1, <1>2, <1>5

-----------------------------------------------------------------------------
\* The audit trail.

LEMMA FiniteSessions ==
  ASSUME TypeOK, NEW u
  PROVE  IsFiniteSet(SessionsOf(u)) /\ IsFiniteSet(RevokedOf(u))
<1>1. 1 \in Int /\ lastSession \in Int
  BY Fields
<1>2. IsFiniteSet(1..lastSession)
  BY ONLY <1>1, FS_Interval, ZenonT(30)
<1> QED BY <1>2, FS_Subset DEF SessionsOf, RevokedOf

LEMMA InitAudit == Init => AuditAgrees
<1> SUFFICES ASSUME Init, NEW u \in 1..MaxUsers
             PROVE  /\ audit["user_created"][u] = IF u <= lastUser /\ users[u].by # None
                                                  THEN 1 ELSE 0
                    /\ audit["user_login"][u] = Cardinality(SessionsOf(u))
                    /\ audit["user_logout"][u] = Cardinality(RevokedOf(u))
  BY DEF AuditAgrees
<1>1. /\ lastUser = 0 /\ lastSession = 0
      /\ audit["user_created"][u] = 0 /\ audit["user_login"][u] = 0 /\ audit["user_logout"][u] = 0
  BY DEF Init, Kinds
<1>2. SessionsOf(u) = {} /\ RevokedOf(u) = {}
  BY <1>1 DEF SessionsOf, RevokedOf
<1>3. ~ u <= lastUser
  BY <1>1, Bounds
<1> QED BY <1>1, <1>2, <1>3, FS_EmptySet

\* Of one account, and of no other, one kind of event is added.
LEMMA Recording ==
  ASSUME TypeOK, NEW kind \in Kinds, NEW u \in 1..MaxUsers, Record(kind, u)
  PROVE  \A k \in Kinds, w \in 1..MaxUsers :
           audit'[k][w] = IF k = kind /\ w = u THEN audit[k][w] + 1 ELSE audit[k][w]
BY DEF Record, TypeOK

LEMMA AuditKept ==
  TypeOK /\ RowsRefer /\ RequestsRefer /\ AuditAgrees /\ [Next]_vars => AuditAgrees'
<1> SUFFICES ASSUME TypeOK, RowsRefer, RequestsRefer, AuditAgrees, [Next]_vars
             PROVE  AuditAgrees'
  OBVIOUS
<1>1. /\ lastUser \in Nat /\ lastSession \in Nat /\ MaxUsers \in Nat
      /\ \A s \in 1..lastSession : s \in 1..MaxSessions
      /\ "user_created" \in Kinds /\ "user_login" \in Kinds /\ "user_logout" \in Kinds
  BY Fields, Bounds DEF Kinds
<1>2. ASSUME UNCHANGED <<sessions, lastSession>>, NEW u
      PROVE  SessionsOf(u)' = SessionsOf(u) /\ RevokedOf(u)' = RevokedOf(u)
  BY <1>2 DEF SessionsOf, RevokedOf, Unrevoked
<1>3. ASSUME NEW p \in Seeders, NEW e, NEW r, SeedUser(p, e, r) PROVE AuditAgrees'
  <2>1. /\ lastUser' = lastUser + 1 /\ users'[lastUser + 1].by = None
        /\ \A u \in 1..MaxUsers : u # lastUser + 1 => users'[u] = users[u]
        /\ UNCHANGED <<sessions, lastSession, audit>>
    <3>1. /\ lastUser' = lastUser + 1
          /\ users'[lastUser + 1] = [email |-> e, role |-> r, by |-> None, since |-> clock]
          /\ \A u \in 1..MaxUsers : u # lastUser + 1 => users'[u] = users[u]
      BY <1>3, NewUser DEF SeedUser
    <3> QED BY <1>3, <3>1 DEF SeedUser
  <2>2. ASSUME NEW u \in 1..MaxUsers
        PROVE  audit'["user_created"][u] = IF u <= lastUser' /\ users'[u].by # None THEN 1 ELSE 0
    <3>1. CASE u = lastUser + 1
      BY <1>1, <2>1, <3>1 DEF AuditAgrees
    <3>2. CASE u # lastUser + 1
      <4>1. u <= lastUser' <=> u <= lastUser
        BY <1>1, <2>1, <3>2
      <4> QED BY <2>1, <3>2, <4>1 DEF AuditAgrees
    <3> QED BY <3>1, <3>2
  <2> QED BY <1>2, <2>1, <2>2 DEF AuditAgrees
<1>4. ASSUME NEW h \in Clients, NEW e, NEW r, CreateUser(h, e, r) PROVE AuditAgrees'
  <2>0. request[h].session # None
    BY <1>4 DEF CreateUser, IsServing, RequestsRefer, None
  <2>1. /\ lastUser' = lastUser + 1 /\ users'[lastUser + 1].by # None
        /\ lastUser + 1 \in 1..MaxUsers
        /\ \A u \in 1..MaxUsers : u # lastUser + 1 => users'[u] = users[u]
        /\ UNCHANGED <<sessions, lastSession>> /\ Record("user_created", lastUser + 1)
    <3>1. /\ lastUser' = lastUser + 1 /\ lastUser + 1 \in 1..MaxUsers
          /\ users'[lastUser + 1] = [email |-> e, role |-> r, by |-> request[h].session,
                                     since |-> request[h].since]
          /\ \A u \in 1..MaxUsers : u # lastUser + 1 => users'[u] = users[u]
      BY <1>4, NewUser DEF CreateUser
    <3> QED BY <1>4, <2>0, <3>1 DEF CreateUser
  <2>2. \A k \in Kinds, w \in 1..MaxUsers :
          audit'[k][w] = IF k = "user_created" /\ w = lastUser + 1 THEN audit[k][w] + 1
                         ELSE audit[k][w]
    BY <1>1, <2>1, Recording
  <2>3. ASSUME NEW u \in 1..MaxUsers
        PROVE  audit'["user_created"][u] = IF u <= lastUser' /\ users'[u].by # None THEN 1 ELSE 0
    <3>1. CASE u = lastUser + 1
      <4>1. audit["user_created"][u] = 0
        BY <1>1, <3>1 DEF AuditAgrees
      <4> QED BY <1>1, <2>1, <2>2, <3>1, <4>1
    <3>2. CASE u # lastUser + 1
      <4>1. u <= lastUser' <=> u <= lastUser
        BY <1>1, <2>1, <3>2
      <4>2. audit'["user_created"][u] = audit["user_created"][u]
        BY <1>1, <2>2, <3>2
      <4> QED BY <2>1, <3>2, <4>1, <4>2 DEF AuditAgrees
    <3> QED BY <3>1, <3>2
  <2>4. \A u \in 1..MaxUsers : /\ audit'["user_login"][u] = audit["user_login"][u]
                               /\ audit'["user_logout"][u] = audit["user_logout"][u]
    BY <1>1, <2>2
  <2> QED BY <1>2, <2>1, <2>3, <2>4 DEF AuditAgrees
<1>5. ASSUME NEW h \in Clients, NEW now \in 0..MaxTime, LoginInsert(h, now) PROVE AuditAgrees'
  <2> DEFINE n == lastSession + 1
             w == request[h].user
  <2>1. w \in 1..MaxUsers
    BY <1>5, ActingUser DEF LoginInsert
  <2>2. /\ lastSession' = n /\ sessions'[n].user = w /\ sessions'[n].revoked = Never
        /\ \A s \in 1..lastSession : sessions'[s] = sessions[s]
        /\ UNCHANGED <<users, lastUser>> /\ Record("user_login", w)
    <3>1. /\ lastSession' = n
          /\ sessions'[n] = [user |-> w, created |-> now, expires |-> now + SessionTTL,
                             revoked |-> Never]
          /\ \A s \in 1..lastSession : sessions'[s] = sessions[s]
      BY <1>5, NewSession
    <3> QED BY <1>5, <3>1 DEF LoginInsert
  <2>3. \A k \in Kinds, u \in 1..MaxUsers :
          audit'[k][u] = IF k = "user_login" /\ u = w THEN audit[k][u] + 1 ELSE audit[k][u]
    BY <1>1, <2>1, <2>2, Recording
  <2>4. 1..lastSession' = (1..lastSession) \cup {n} /\ n \notin 1..lastSession
    BY <1>1, <2>2
  <2>5. ASSUME NEW u \in 1..MaxUsers
        PROVE  /\ audit'["user_created"][u] = audit["user_created"][u]
               /\ audit'["user_login"][u] = Cardinality(SessionsOf(u)')
               /\ audit'["user_logout"][u] = Cardinality(RevokedOf(u)')
    <3>1. RevokedOf(u)' = RevokedOf(u)
      BY <2>2, <2>4 DEF RevokedOf, SessionsOf, Unrevoked
    <3>2. /\ audit'["user_created"][u] = audit["user_created"][u]
          /\ audit'["user_logout"][u] = audit["user_logout"][u]
          /\ audit'["user_login"][u] =
               IF u = w THEN audit["user_login"][u] + 1 ELSE audit["user_login"][u]
      BY <1>1, <2>3
    <3>3. CASE u = w
      <4>1. SessionsOf(u)' = SessionsOf(u) \cup {n} /\ n \notin SessionsOf(u)
        BY <2>2, <2>4, <3>3 DEF SessionsOf
      <4>2. Cardinality(SessionsOf(u) \cup {n}) = Cardinality(SessionsOf(u)) + 1
        BY <4>1, FiniteSessions, FS_AddElement
      <4> QED BY <3>1, <3>2, <3>3, <4>1, <4>2 DEF AuditAgrees
    <3>4. CASE u # w
      <4>1. SessionsOf(u)' = SessionsOf(u)
        BY <2>2, <2>4, <3>4 DEF SessionsOf
      <4> QED BY <3>1, <3>2, <3>4, <4>1 DEF AuditAgrees
    <3> QED BY <3>3, <3>4
  <2> QED BY <2>2, <2>5 DEF AuditAgrees
<1>6. ASSUME NEW h \in Clients, Logout(h) PROVE AuditAgrees'
  <2> DEFINE t == request[h].session
             w == request[h].user
  <2>1. w \in 1..MaxUsers
    BY <1>6, ActingUser DEF Logout, IsServing
  <2>2. UNCHANGED <<users, lastUser>> /\ Record("user_logout", w)
    BY <1>6 DEF Logout
  <2>3. /\ t \in 1..lastSession /\ w = sessions[t].user /\ sessions[t].revoked = Never
        /\ lastSession' = lastSession
        /\ \A s \in 1..MaxSessions :
             /\ sessions'[s].user = sessions[s].user
             /\ sessions'[s].revoked = IF s = t THEN clock ELSE sessions[s].revoked
    BY <1>6, EndedSession
  <2>4. clock # Never
    BY Fields DEF Never
  <2>5. \A k \in Kinds, u \in 1..MaxUsers :
          audit'[k][u] = IF k = "user_logout" /\ u = w THEN audit[k][u] + 1 ELSE audit[k][u]
    BY <1>1, <2>1, <2>2, Recording
  <2>6. ASSUME NEW u \in 1..MaxUsers
        PROVE  /\ audit'["user_created"][u] = audit["user_created"][u]
               /\ audit'["user_login"][u] = Cardinality(SessionsOf(u)')
               /\ audit'["user_logout"][u] = Cardinality(RevokedOf(u)')
    <3>1. SessionsOf(u)' = SessionsOf(u)
      BY <1>1, <2>3 DEF SessionsOf
    <3>2. /\ audit'["user_created"][u] = audit["user_created"][u]
          /\ audit'["user_login"][u] = audit["user_login"][u]
          /\ audit'["user_logout"][u] =
               IF u = w THEN audit["user_logout"][u] + 1 ELSE audit["user_logout"][u]
      BY <1>1, <2>5
    <3>3. CASE u = w
      <4>1. RevokedOf(u)' = RevokedOf(u) \cup {t} /\ t \notin RevokedOf(u)
        BY <1>1, <2>3, <2>4, <3>3 DEF RevokedOf, SessionsOf, Unrevoked
      <4>2. Cardinality(RevokedOf(u) \cup {t}) = Cardinality(RevokedOf(u)) + 1
        BY <4>1, FiniteSessions, FS_AddElement
      <4> QED BY <3>1, <3>2, <3>3, <4>1, <4>2 DEF AuditAgrees
    <3>4. CASE u # w
      <4>1. RevokedOf(u)' = RevokedOf(u)
        BY <1>1, <2>3, <3>4 DEF RevokedOf, SessionsOf, Unrevoked
      <4> QED BY <3>1, <3>2, <3>4, <4>1 DEF AuditAgrees
    <3> QED BY <3>3, <3>4
  <2> QED BY <2>2, <2>6 DEF AuditAgrees
<1>7. CASE UNCHANGED <<users, lastUser, sessions, lastSession, audit>>
  BY <1>2, <1>7 DEF AuditAgrees
<1> QED BY OfTheTables, <1>3, <1>4, <1>5, <1>6, <1>7

-----------------------------------------------------------------------------
\* Together.

LEMMA InitInv == Init => IInv
<1> SUFFICES ASSUME Init PROVE IInv
  OBVIOUS
<1>1. /\ built = {} /\ ledger = {} /\ proc = [p \in Processes |-> Off] /\ lastUser = 0
      /\ lastSession = 0 /\ request = [h \in Clients |-> Idle] /\ clock = 0
      /\ refused = {} /\ raced = {}
  BY DEF Init
<1>2. Schema
  BY <1>1 DEF Schema, LedgerIsBuilt, StartsKnow, SchemaIsWhole, Off, Open
<1>3. RowsRefer /\ AccountsTraceToSeed
  BY <1>1 DEF RowsRefer, AccountsTraceToSeed
<1>4. RequestsRefer
  BY <1>1 DEF RequestsRefer, Idle
<1> QED BY InitType, InitAudit, <1>2, <1>3, <1>4 DEF IInv

LEMMA NextInv == IInv /\ [Next]_vars => IInv'
BY NextType, SchemaKept, RowsReferKept, RequestsReferKept, AccountsKept, AuditKept DEF IInv

LEMMA Invariance == Spec => []IInv
BY InitInv, NextInv, PTL DEF Spec

\* Every variable keeps to its type.
THEOREM TypeCorrect == Spec => []TypeOK
<1>1. IInv => TypeOK
  BY DEF IInv
<1> QED BY Invariance, <1>1, PTL

\* A start fails on a migration only when another process overtook it, and an open
\* process finds every table it knows: the loop of migrate and its transactions.
THEOREM StartsAreWhole == Spec => []SchemaIsWhole
<1>1. IInv => SchemaIsWhole
  BY DEF IInv, Schema
<1> QED BY Invariance, <1>1, PTL

\* Accounts go back to seed-user: requireRole of CreateUser and the two statements
\* of Authenticate.
THEOREM AccountsTraced == Spec => []AccountsTraceToSeed
<1>1. IInv => AccountsTraceToSeed
  BY DEF IInv
<1> QED BY Invariance, <1>1, PTL

\* The audit events that Login, Logout and CreateUser write agree with the tables.
THEOREM AuditAgreesWithRows == Spec => []AuditTellsAccess
<1>1. ASSUME IInv PROVE AuditTellsAccess
  <2>1. \A u \in 1..lastUser : u \in 1..MaxUsers /\ u <= lastUser
    BY <1>1, Fields, Bounds DEF IInv
  <2> QED BY <1>1, <2>1 DEF IInv, AuditAgrees, AuditTellsAccess, RevokedOf
<1> QED BY Invariance, <1>1, PTL
=============================================================================
