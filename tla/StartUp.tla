------------------------------ MODULE StartUp ------------------------------
(***************************************************************************)
(* Opening the pet database: internal/pet/store.go and the two ways        *)
(* cmd/pet-server calls it.                                                *)
(*                                                                         *)
(* The server opens the database before it serves, and so does, every few  *)
(* seconds, a `--healthcheck` process next to it.  Each counts the rows of *)
(* pet_users, rooms and service_items in turn and inserts the seed rows of *)
(* a table it finds empty, every COUNT and INSERT in a transaction of its  *)
(* own.  The migration (CREATE ... IF NOT EXISTS) may run any number of    *)
(* times and is part of Open.                                              *)
(*                                                                         *)
(* A row is known by its name: k for the k-th seed of its table, anything  *)
(* else for names of the clients' own.  UpdateRoom and UpdateServiceItem   *)
(* can rename a row, which shows no more than a removal and an entry do.   *)
(***************************************************************************)
EXTENDS Integers

CONSTANTS
  Server,       \* the serving process
  Healthchecks, \* `--healthcheck` processes that can run together
  RoomSeeds,    \* seed rows of rooms: 4 in the code
  ServiceSeeds, \* seed rows of service_items: 6 in the code
  MaxName,      \* names are 0..MaxName
  MaxStops,     \* bound on the stops of the server
  MaxEdits      \* bound on rows entered and removed by clients

Tables == {"users", "rooms", "services"}

\* The seed rows of a table.  Users: admin, then testuser.
Last == [users |-> 2, rooms |-> RoomSeeds, services |-> ServiceSeeds]

Names == 0..MaxName

ASSUME SeedsAssumption ==
  /\ Server \notin Healthchecks
  /\ RoomSeeds \in Nat \ {0} /\ ServiceSeeds \in Nat \ {0}
  /\ MaxName \in Nat /\ 2 <= MaxName /\ RoomSeeds <= MaxName /\ ServiceSeeds <= MaxName
  /\ MaxStops \in Nat /\ MaxEdits \in Nat

Processes == Healthchecks \cup {Server}

\* Where a process stands.
Off              == [at |-> "off", table |-> "users", next |-> 1]
Up               == [at |-> "up", table |-> "users", next |-> 1]
Counting(t)      == [at |-> "count", table |-> t, next |-> 1]
Inserting(t, k)  == [at |-> "insert", table |-> t, next |-> k]

VARIABLES
  seeded,   \* seeded[t][n]: rows named n of table t that a start inserted
  entered,  \* entered[t][n]: rows named n of table t that clients entered
  proc,     \* proc[p]: where process p stands in Open
  stops, edits,
  begun,    \* history: tables some process has counted empty
  raced,    \* history: tables a process counted empty while another was seeding them
  cut,      \* history: tables whose seeding a stop, or a client's row, cut short
  refused,  \* history: tables on which a start failed over another start's row
  removed   \* history: removed[t]: names of the rows clients removed

vars == <<seeded, entered, proc, stops, edits, begun, raced, cut, refused, removed>>

rows == <<seeded, entered>>

Init ==
  /\ seeded = [t \in Tables |-> [n \in Names |-> 0]]
  /\ entered = [t \in Tables |-> [n \in Names |-> 0]]
  /\ proc = [p \in Processes |-> Off]
  /\ stops = 0 /\ edits = 0
  /\ begun = {} /\ raced = {} /\ cut = {} /\ refused = {}
  /\ removed = [t \in Tables |-> {}]

IsPresent(t, n) == seeded[t][n] > 0 \/ entered[t][n] > 0

IsSeeding(p, t) == proc[p].at = "insert" /\ proc[p].table = t

\* A table that lacks one of its seeds.
IsIncomplete(t) == \E n \in 1..Last[t] : ~IsPresent(t, n)

\* SELECT COUNT(*) FROM t.
IsEmpty(t) == \A n \in Names : ~IsPresent(t, n)

\* username and room_number are UNIQUE, service_name is not.
IsFree(t, n) == t = "services" \/ ~IsPresent(t, n)

IsAlmostLast(t, k) == k + 1 >= Last[t]
IsLast(t, k) == k = Last[t]

----------------------------------------------------------------------------

\* Open, migrate.
Open(p) ==
  /\ proc[p] = Off
  /\ proc' = [proc EXCEPT ![p] = Counting("users")]
  /\ UNCHANGED <<rows, stops, edits, begun, raced, cut, refused, removed>>

\* seed, seedRooms, seedServices, and then the server serves and a healthcheck pings and
\* exits.
Beyond(p, t) ==
  CASE t = "users"    -> Counting("rooms")
    [] t = "rooms"    -> Counting("services")
    [] t = "services" -> IF p = Server THEN Up ELSE Off

FindRows(p) ==
  LET t == proc[p].table IN
  /\ proc[p].at = "count"
  /\ ~IsEmpty(t)
  /\ proc' = [proc EXCEPT ![p] = Beyond(p, t)]
  /\ UNCHANGED <<rows, stops, edits, begun, raced, cut, refused, removed>>

FindNothing(p) ==
  LET t == proc[p].table IN
  /\ proc[p].at = "count"
  /\ IsEmpty(t)
  /\ proc' = [proc EXCEPT ![p] = Inserting(t, 1)]
  /\ begun' = begun \cup {t}
  /\ raced' = IF \E q \in Processes : IsSeeding(q, t) THEN raced \cup {t} ELSE raced
  /\ UNCHANGED <<rows, stops, edits, cut, refused, removed>>

InsertSeed(p) ==
  LET t == proc[p].table
      k == proc[p].next IN
  /\ proc[p].at = "insert"
  /\ IsFree(t, k)
  /\ seeded' = [seeded EXCEPT ![t][k] = @ + 1]
  /\ proc' = [proc EXCEPT ![p] = IF IsLast(t, k) THEN Beyond(p, t) ELSE Inserting(t, k + 1)]
  /\ UNCHANGED <<entered, stops, edits, begun, raced, cut, refused, removed>>

\* The INSERT fails, and so does Open: the process exits with 1.
SeedRefused(p) ==
  LET t == proc[p].table
      n == proc[p].next IN
  /\ proc[p].at = "insert"
  /\ ~IsFree(t, n)
  /\ proc' = [proc EXCEPT ![p] = Off]
  /\ cut' = IF entered[t][n] > 0 THEN cut \cup {t} ELSE cut
  /\ refused' = IF seeded[t][n] > 0 THEN refused \cup {t} ELSE refused
  /\ UNCHANGED <<rows, stops, edits, begun, raced, removed>>

\* A process is killed, by a signal or the timeout of the healthcheck, or finds the
\* database busy.
Stop(p) ==
  /\ proc[p] # Off
  /\ p = Server => stops < MaxStops
  /\ stops' = IF p = Server THEN stops + 1 ELSE stops
  /\ proc' = [proc EXCEPT ![p] = Off]
  /\ cut' = IF proc[p].at = "insert" THEN cut \cup {proc[p].table} ELSE cut
  /\ UNCHANGED <<rows, edits, begun, raced, refused, removed>>

\* Register, AddRoom, AddServiceItem.
Enter(t, n) ==
  /\ proc[Server] = Up
  /\ edits < MaxEdits
  /\ IsFree(t, n)
  /\ entered' = [entered EXCEPT ![t][n] = @ + 1]
  /\ edits' = edits + 1
  /\ UNCHANGED <<seeded, proc, stops, begun, raced, cut, refused, removed>>

\* DeleteUser, DeleteRoom, DeleteServiceItem.
Remove(t, n) ==
  /\ proc[Server] = Up
  /\ edits < MaxEdits
  /\ \/ seeded[t][n] > 0 /\ seeded' = [seeded EXCEPT ![t][n] = @ - 1] /\ UNCHANGED entered
     \/ entered[t][n] > 0 /\ entered' = [entered EXCEPT ![t][n] = @ - 1] /\ UNCHANGED seeded
  /\ removed' = [removed EXCEPT ![t] = @ \cup {n}]
  /\ edits' = edits + 1
  /\ UNCHANGED <<proc, stops, begun, raced, cut, refused>>

Seed(p) == FindRows(p) \/ FindNothing(p) \/ InsertSeed(p) \/ SeedRefused(p)

Next ==
  \/ \E p \in Processes : Open(p) \/ Seed(p) \/ Stop(p)
  \/ \E t \in Tables, n \in Names : Enter(t, n) \/ Remove(t, n)

\* The server is started again when it exits (`restart: unless-stopped`) and runs on.
Fairness == WF_vars(Open(Server)) /\ WF_vars(Seed(Server))

Spec == Init /\ [][Next]_vars /\ Fairness

----------------------------------------------------------------------------
\* Types.

ProcType ==
  {Off, Up} \cup {Counting(t) : t \in Tables}
            \cup {Inserting(t, k) : t \in Tables, k \in 1..MaxName}

\* Tables hold rows, names are unique where the schema says so, and a process that
\* inserts has a seed left to insert.
TypeOK ==
  /\ seeded \in [Tables -> [Names -> Nat]]
  /\ entered \in [Tables -> [Names -> Nat]]
  /\ \A t \in Tables \ {"services"}, n \in Names : seeded[t][n] + entered[t][n] <= 1
  /\ proc \in [Processes -> ProcType]
  /\ \A p \in Processes : /\ proc[p].at = "up" => p = Server
                          /\ proc[p].at = "insert" => proc[p].next \in 1..Last[proc[p].table]
  /\ stops \in 0..MaxStops /\ edits \in 0..MaxEdits
  /\ begun \subseteq Tables /\ raced \subseteq Tables
  /\ cut \subseteq Tables /\ refused \subseteq Tables
  /\ removed \in [Tables -> SUBSET Names]

----------------------------------------------------------------------------
\* Properties.

IsAccountedFor(t, n) == IsPresent(t, n) \/ n \in removed[t]

\* The server never serves a database without the administrator, wherever starts before
\* it were cut off, unless a client removed the account (seed).
ServerHasAdmin == proc[Server] = Up => IsAccountedFor("users", 1)

\* However many processes seed a table together and refuse one another's rows, one of
\* them comes to the end of the list: unless a stop or a client's row cut in, no seed is
\* missing once they are done.  Where a stop did cut in, for good, what is there is a
\* beginning of the list: nothing is inserted behind a seed that is missing, and the
\* server does not serve without the administrator (seedRooms, seed).
SeedsAreWhole ==
  /\ \A t \in begun \ cut :
       \/ \E p \in Processes : IsSeeding(p, t)
       \/ \A n \in 1..Last[t] : IsAccountedFor(t, n)
  /\ \A t \in Tables : \A n \in 1..Last[t] :
       seeded[t][n] > 0 => \A m \in 1..n : IsAccountedFor(t, m)
  /\ ServerHasAdmin

\* A service is seeded twice only if two processes found service_items empty together
\* (seedServices, which no UNIQUE column backs).
ServicesSeededOnce == "services" \notin raced => \A n \in Names : seeded["services"][n] <= 1

\* A start fails over a seed only if two processes found the table empty together: a
\* healthcheck does not fail on a database left to it (Open).
RefusalIsRaced == refused \subseteq raced

\* With finitely many stops the server comes up for good, although healthchecks seed the
\* same tables, can make its start fail, and are stopped at any point (run, Open).
ServerComesUp == <>[](proc[Server] = Up)

\* The tables the server may still have to seed, and how far it has come in Open.
ToSeed == {t \in Tables : IsEmpty(t) \/ IsSeeding(Server, t)}

Turn == [users |-> 1, rooms |-> MaxName + 2, services |-> 2 * MaxName + 3]

Position(place) ==
  CASE place.at = "off"    -> 0
    [] place.at = "count"  -> Turn[place.table]
    [] place.at = "insert" -> Turn[place.table] + place.next
    [] place.at = "up"     -> 3 * MaxName + 4

\* Why it comes up: no start is lost for nothing.  A start that fails leaves a table with
\* rows that had none, which the next one passes by; every other statement of the server
\* brings it forward, and nothing but a stop of the server throws it back, whatever
\* healthchecks do meanwhile (seed, seedRooms, seedServices).
ServerGetsCloser ==
  [][\/ stops' > stops
     \/ proc[Server] = Up /\ proc'[Server] = Up
     \/ /\ proc[Server] # Up
        /\ \/ ToSeed' \subseteq ToSeed /\ ToSeed' # ToSeed
           \/ /\ ToSeed' = ToSeed
              /\ Position(proc'[Server]) >= Position(proc[Server])
              /\ Open(Server) \/ Seed(Server) =>
                   Position(proc'[Server]) > Position(proc[Server])]_vars

----------------------------------------------------------------------------
\* What makes the properties inductive.

\* The seeder of a table no two processes found empty together is the only one, and has
\* none of its rows before it.
SoleSeeder ==
  \A t \in Tables \ raced, p \in Processes :
    IsSeeding(p, t) =>
      /\ \A q \in Processes \ {p} : ~IsSeeding(q, t)
      /\ \A n \in Names : n >= proc[p].next => seeded[t][n] = 0

\* Nothing is done before the administrator is there.
AdminFirst ==
  \/ IsAccountedFor("users", 1)
  \/ /\ IsEmpty("users")
     /\ \A p \in Processes : proc[p] \in {Off, Counting("users"), Inserting("users", 1)}

\* A process has the list before it, or the i-th row behind it.
IsReached(t, i) == IF i = 0 THEN t \in begun ELSE seeded[t][i] > 0

\* Behind a seed that was reached, every missing one has a process that heads for it.
SeedersLead ==
  \A t \in Tables \ cut : \A i \in 0..Last[t], j \in 1..Last[t] :
    i < j /\ IsReached(t, i) /\ ~IsAccountedFor(t, j) =>
      \E p \in Processes : IsSeeding(p, t) /\ proc[p].next \in (i + 1)..j

\* Row n of the table was inserted by a start, or is about to be.
IsHandled(t, n) == seeded[t][n] > 0 \/ \E p \in Processes : IsSeeding(p, t) /\ proc[p].next = n

\* Nobody passes over a seed.
SeedsInOrder ==
  \A t \in Tables, n \in Names, m \in Names :
    1 <= m /\ m < n /\ IsHandled(t, n) => IsAccountedFor(t, m)

\* The inductive invariant.
IInv ==
  /\ TypeOK
  /\ SoleSeeder
  /\ ServicesSeededOnce
  /\ RefusalIsRaced
  /\ AdminFirst
  /\ SeedersLead
  /\ SeedsInOrder
=============================================================================
