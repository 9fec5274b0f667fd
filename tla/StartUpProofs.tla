---------------------------- MODULE StartUpProofs ----------------------------
(***************************************************************************)
(* Theorems about StartUp, for every number of healthchecks, seeds, stops  *)
(* and edits.                                                              *)
(***************************************************************************)
EXTENDS StartUp, TLAPS

----------------------------------------------------------------------------
\* Where processes stand.

LEMMA Seeds ==
  /\ \A t \in Tables : Last[t] \in Nat \ {0} /\ Last[t] <= MaxName /\ 1..Last[t] \subseteq Names
  /\ 1 \in Names /\ 1 \in 1..Last["users"]
  /\ "users" \in Tables /\ "rooms" \in Tables /\ "services" \in Tables
BY SeedsAssumption DEF Tables, Last, Names

LEMMA Places ==
  /\ Off.at = "off" /\ Up.at = "up"
  /\ \A t \in Tables : /\ Counting(t).at = "count" /\ Counting(t).table = t
                       /\ Counting(t) \in ProcType
  /\ \A t \in Tables, k \in 1..MaxName :
       /\ Inserting(t, k).at = "insert" /\ Inserting(t, k).table = t
       /\ Inserting(t, k).next = k /\ Inserting(t, k) \in ProcType
  /\ Off \in ProcType /\ Up \in ProcType
<1>1. /\ Off.at = "off" /\ Up.at = "up"
      /\ \A t \in Tables : Counting(t).at = "count" /\ Counting(t).table = t
      /\ \A t \in Tables, k \in 1..MaxName :
           /\ Inserting(t, k).at = "insert" /\ Inserting(t, k).table = t
           /\ Inserting(t, k).next = k
  BY DEF Off, Up, Counting, Inserting
<1>2. /\ \A t \in Tables : Counting(t) \in ProcType
      /\ \A t \in Tables, k \in 1..MaxName : Inserting(t, k) \in ProcType
      /\ Off \in ProcType /\ Up \in ProcType
  BY DEF ProcType
<1> QED
  BY <1>1, <1>2

LEMMA Standing ==
  ASSUME NEW place \in ProcType
  PROVE  /\ place.at \in {"off", "up", "count", "insert"}
         /\ place.at = "off" => place = Off
         /\ place.at = "up" => place = Up
         /\ place.at = "count" => place.table \in Tables /\ place = Counting(place.table)
         /\ place.at = "insert" => /\ place.table \in Tables /\ place.next \in 1..MaxName
                                   /\ place = Inserting(place.table, place.next)
BY DEF ProcType, Off, Up, Counting, Inserting

\* Beyond a table a process counts the next one, serves or is gone: it does not insert.
LEMMA BeyondIsNoInsert ==
  ASSUME NEW p \in Processes, NEW t \in Tables
  PROVE  /\ Beyond(p, t) \in ProcType
         /\ Beyond(p, t).at # "insert"
         /\ Beyond(p, t).at = "up" => p = Server
<1>1. CASE t = "users"
  BY <1>1, Places, Seeds DEF Beyond
<1>2. CASE t = "rooms"
  BY <1>2, Places, Seeds DEF Beyond
<1>3. CASE t = "services"
  BY <1>3, Places DEF Beyond
<1> QED
  BY <1>1, <1>2, <1>3 DEF Tables

\* What a row count says.
LEMMA Present ==
  ASSUME TypeOK, NEW t \in Tables, NEW n \in Names
  PROVE  /\ seeded[t][n] \in Nat /\ entered[t][n] \in Nat
         /\ ~IsPresent(t, n) <=> seeded[t][n] = 0 /\ entered[t][n] = 0
BY DEF TypeOK, IsPresent

----------------------------------------------------------------------------
\* Types.

LEMMA InitTypes == Init => TypeOK
BY SeedsAssumption, Places DEF Init, TypeOK, Processes

\* Process p moves, and nothing but the histories changes with it.
LEMMA MoveTypes ==
  ASSUME TypeOK, NEW p \in Processes, NEW place \in ProcType,
         proc' = [proc EXCEPT ![p] = place],
         place.at = "up" => p = Server,
         place.at = "insert" => place.next \in 1..Last[place.table],
         UNCHANGED <<rows, edits, removed>>,
         stops' \in 0..MaxStops, begun' \subseteq Tables, raced' \subseteq Tables,
         cut' \subseteq Tables, refused' \subseteq Tables
  PROVE  TypeOK'
<1>1. /\ proc' \in [Processes -> ProcType]
      /\ \A q \in Processes : /\ proc'[q].at = "up" => q = Server
                              /\ proc'[q].at = "insert" => proc'[q].next \in 1..Last[proc'[q].table]
  BY DEF TypeOK
<1> QED
  BY <1>1 DEF TypeOK, rows

LEMMA NextTypes == TypeOK /\ [Next]_vars => TypeOK'
<1> SUFFICES ASSUME TypeOK, [Next]_vars PROVE TypeOK'
  OBVIOUS
<1>1. ASSUME NEW p \in Processes, Open(p) PROVE TypeOK'
  <2>1. proc' = [proc EXCEPT ![p] = Counting("users")]
    BY <1>1 DEF Open
  <2>2. /\ UNCHANGED <<rows, edits, removed>> /\ stops' \in 0..MaxStops /\ begun' \subseteq Tables
        /\ raced' \subseteq Tables /\ cut' \subseteq Tables /\ refused' \subseteq Tables
    BY <1>1 DEF Open, TypeOK
  <2>3. Counting("users") \in ProcType /\ Counting("users").at = "count"
    BY Places, Seeds
  <2> QED
    BY <2>1, <2>2, <2>3, MoveTypes
<1>2. ASSUME NEW p \in Processes, FindRows(p) PROVE TypeOK'
  <2> DEFINE t == proc[p].table
  <2>1. t \in Tables
    BY <1>2, Standing DEF FindRows, TypeOK
  <2>2. proc' = [proc EXCEPT ![p] = Beyond(p, t)]
    BY <1>2 DEF FindRows
  <2>3. /\ UNCHANGED <<rows, edits, removed>> /\ stops' \in 0..MaxStops /\ begun' \subseteq Tables
        /\ raced' \subseteq Tables /\ cut' \subseteq Tables /\ refused' \subseteq Tables
    BY <1>2 DEF FindRows, TypeOK
  <2> HIDE DEF t
  <2> QED
    BY <2>1, <2>2, <2>3, BeyondIsNoInsert, MoveTypes
<1>3. ASSUME NEW p \in Processes, FindNothing(p) PROVE TypeOK'
  <2> DEFINE t == proc[p].table
  <2>1. t \in Tables
    BY <1>3, Standing DEF FindNothing, TypeOK
  <2>2. proc' = [proc EXCEPT ![p] = Inserting(t, 1)]
    BY <1>3 DEF FindNothing
  <2>3. /\ UNCHANGED <<rows, edits, removed>> /\ stops' \in 0..MaxStops /\ begun' \subseteq Tables
        /\ raced' \subseteq Tables /\ cut' \subseteq Tables /\ refused' \subseteq Tables
    BY <1>3, <2>1 DEF FindNothing, TypeOK
  <2>4. 1 \in 1..MaxName /\ 1 \in 1..Last[t]
    BY <2>1, Seeds, SeedsAssumption
  <2> HIDE DEF t
  <2>5. /\ Inserting(t, 1) \in ProcType /\ Inserting(t, 1).at = "insert"
        /\ Inserting(t, 1).table = t /\ Inserting(t, 1).next = 1
    BY <2>1, <2>4, Places
  <2> QED
    BY <2>2, <2>3, <2>4, <2>5, MoveTypes
<1>4. ASSUME NEW p \in Processes, InsertSeed(p) PROVE TypeOK'
  <2> DEFINE t == proc[p].table
             k == proc[p].next
             place == IF IsLast(t, k) THEN Beyond(p, t) ELSE Inserting(t, k + 1)
  <2>1. t \in Tables /\ k \in 1..Last[t] /\ k \in Names
    BY <1>4, Standing, Seeds DEF InsertSeed, TypeOK
  <2>2. /\ IsFree(t, k) /\ seeded' = [seeded EXCEPT ![t][k] = @ + 1]
        /\ proc' = [proc EXCEPT ![p] = place]
        /\ UNCHANGED <<entered, stops, edits, begun, raced, cut, refused, removed>>
    BY <1>4 DEF InsertSeed
  <2>3. /\ place \in ProcType
        /\ place.at = "up" => p = Server
        /\ place.at = "insert" => place.next \in 1..Last[place.table]
    <3>1. CASE k = Last[t]
      BY <2>1, <3>1, BeyondIsNoInsert DEF IsLast
    <3>2. CASE k # Last[t]
      <4>1. k + 1 \in 1..Last[t] /\ k + 1 \in 1..MaxName
        BY <2>1, <3>2, Seeds, SeedsAssumption
      <4>2. place = Inserting(t, k + 1)
        BY <3>2 DEF IsLast
      <4> QED
        BY <2>1, <4>1, <4>2, Places
    <3> QED
      BY <3>1, <3>2
  <2> HIDE DEF t, k, place
  <2>4. /\ proc' \in [Processes -> ProcType]
        /\ \A q \in Processes : /\ proc'[q].at = "up" => q = Server
                                /\ proc'[q].at = "insert" => proc'[q].next \in 1..Last[proc'[q].table]
    BY <2>2, <2>3 DEF TypeOK
  <2>5. seeded' \in [Tables -> [Names -> Nat]]
    BY <2>1, <2>2 DEF TypeOK
  <2>6. ASSUME NEW u \in Tables \ {"services"}, NEW n \in Names
        PROVE  seeded'[u][n] + entered'[u][n] <= 1
    <3>1. CASE u = t /\ n = k
      <4>1. seeded[t][k] = 0 /\ entered[t][k] = 0
        BY <2>1, <2>2, <2>6, <3>1, Present DEF IsFree
      <4>2. seeded'[t][k] = 1 /\ entered'[t][k] = 0
        BY <2>1, <2>2, <4>1 DEF TypeOK
      <4> QED
        BY <3>1, <4>2
    <3>2. CASE ~(u = t /\ n = k)
      <4>1. seeded'[u][n] = seeded[u][n] /\ entered'[u][n] = entered[u][n]
        BY <2>1, <2>2, <3>2 DEF TypeOK
      <4> QED
        BY <4>1 DEF TypeOK
    <3> QED
      BY <3>1, <3>2
  <2> QED
    BY <2>2, <2>4, <2>5, <2>6 DEF TypeOK
<1>5. ASSUME NEW p \in Processes, SeedRefused(p) PROVE TypeOK'
  <2>1. proc[p].table \in Tables
    BY <1>5, Standing DEF SeedRefused, TypeOK
  <2>2. proc' = [proc EXCEPT ![p] = Off]
    BY <1>5 DEF SeedRefused
  <2>3. /\ UNCHANGED <<rows, edits, removed>> /\ stops' \in 0..MaxStops /\ begun' \subseteq Tables
        /\ raced' \subseteq Tables /\ cut' \subseteq Tables /\ refused' \subseteq Tables
    BY <1>5, <2>1 DEF SeedRefused, TypeOK
  <2> QED
    BY <2>2, <2>3, Places, MoveTypes
<1>6. ASSUME NEW p \in Processes, Stop(p) PROVE TypeOK'
  <2>1. proc' = [proc EXCEPT ![p] = Off]
    BY <1>6 DEF Stop
  <2>2. stops' \in 0..MaxStops
    BY <1>6, SeedsAssumption DEF Stop, TypeOK
  <2>3. proc[p].at = "insert" => proc[p].table \in Tables
    BY Standing DEF TypeOK
  <2>4. /\ UNCHANGED <<rows, edits, removed>> /\ begun' \subseteq Tables
        /\ raced' \subseteq Tables /\ cut' \subseteq Tables /\ refused' \subseteq Tables
    BY <1>6, <2>3 DEF Stop, TypeOK
  <2> QED
    BY <2>1, <2>2, <2>4, Places, MoveTypes
<1>7. ASSUME NEW t \in Tables, NEW n \in Names, Enter(t, n) PROVE TypeOK'
  <2>1. /\ IsFree(t, n) /\ entered' = [entered EXCEPT ![t][n] = @ + 1]
        /\ UNCHANGED <<seeded, proc, stops, begun, raced, cut, refused, removed>>
    BY <1>7 DEF Enter
  <2>2. entered' \in [Tables -> [Names -> Nat]]
    BY <2>1 DEF TypeOK
  <2>3. edits' \in 0..MaxEdits
    BY <1>7, SeedsAssumption DEF Enter, TypeOK
  <2>4. ASSUME NEW u \in Tables \ {"services"}, NEW m \in Names
        PROVE  seeded'[u][m] + entered'[u][m] <= 1
    <3>1. CASE u = t /\ m = n
      <4>1. seeded[t][n] = 0 /\ entered[t][n] = 0
        BY <2>1, <2>4, <3>1, Present DEF IsFree
      <4>2. seeded'[t][n] = 0 /\ entered'[t][n] = 1
        BY <2>1, <4>1 DEF TypeOK
      <4> QED
        BY <3>1, <4>2
    <3>2. CASE ~(u = t /\ m = n)
      <4>1. seeded'[u][m] = seeded[u][m] /\ entered'[u][m] = entered[u][m]
        BY <2>1, <3>2 DEF TypeOK
      <4> QED
        BY <4>1 DEF TypeOK
    <3> QED
      BY <3>1, <3>2
  <2> QED
    BY <2>1, <2>2, <2>3, <2>4 DEF TypeOK
<1>8. ASSUME NEW t \in Tables, NEW n \in Names, Remove(t, n) PROVE TypeOK'
  <2>1. /\ \/ /\ seeded[t][n] > 0 /\ seeded' = [seeded EXCEPT ![t][n] = @ - 1]
              /\ entered' = entered
           \/ /\ entered[t][n] > 0 /\ entered' = [entered EXCEPT ![t][n] = @ - 1]
              /\ seeded' = seeded
        /\ removed' = [removed EXCEPT ![t] = @ \cup {n}]
        /\ UNCHANGED <<proc, stops, begun, raced, cut, refused>>
    BY <1>8 DEF Remove
  <2>2. edits' \in 0..MaxEdits
    BY <1>8, SeedsAssumption DEF Remove, TypeOK
  <2>3. /\ seeded' \in [Tables -> [Names -> Nat]] /\ entered' \in [Tables -> [Names -> Nat]]
        /\ \A u \in Tables, m \in Names :
             seeded'[u][m] <= seeded[u][m] /\ entered'[u][m] <= entered[u][m]
    <3>1. CASE seeded[t][n] > 0 /\ seeded' = [seeded EXCEPT ![t][n] = @ - 1] /\ entered' = entered
      BY <3>1 DEF TypeOK
    <3>2. CASE entered[t][n] > 0 /\ entered' = [entered EXCEPT ![t][n] = @ - 1] /\ seeded' = seeded
      BY <3>2 DEF TypeOK
    <3> QED
      BY <2>1, <3>1, <3>2
  <2>4. removed' \in [Tables -> SUBSET Names]
    BY <2>1 DEF TypeOK
  <2>5. ASSUME NEW u \in Tables \ {"services"}, NEW m \in Names
        PROVE  seeded'[u][m] + entered'[u][m] <= 1
    <3>1. /\ seeded[u][m] \in Nat /\ entered[u][m] \in Nat /\ seeded[u][m] + entered[u][m] <= 1
          /\ seeded'[u][m] \in Nat /\ entered'[u][m] \in Nat
      BY <2>3 DEF TypeOK
    <3> QED
      BY <2>3, <3>1
  <2> QED
    BY <2>1, <2>2, <2>3, <2>4, <2>5 DEF TypeOK
<1>9. CASE UNCHANGED vars
  BY <1>9 DEF vars, TypeOK
<1> QED
  BY <1>1, <1>2, <1>3, <1>4, <1>5, <1>6, <1>7, <1>8, <1>9 DEF Next, Seed

----------------------------------------------------------------------------
\* The administrator comes first.

\* A name that is accounted for stays so: who takes its row away leaves it in removed.
LEMMA AccountedStays ==
  ASSUME TypeOK, [Next]_vars, NEW t \in Tables, NEW n \in Names, IsAccountedFor(t, n)
  PROVE  IsAccountedFor(t, n)'
<1>1. seeded[t][n] \in Nat /\ entered[t][n] \in Nat
  BY DEF TypeOK
<1>2. ASSUME UNCHANGED <<rows, removed>> PROVE IsAccountedFor(t, n)'
  BY <1>2 DEF IsAccountedFor, IsPresent, rows
<1>3. ASSUME NEW p \in Processes, InsertSeed(p) PROVE IsAccountedFor(t, n)'
  <2>1. PICK u \in Tables, m \in Names : seeded' = [seeded EXCEPT ![u][m] = @ + 1]
    BY <1>3, Standing, Seeds DEF InsertSeed, TypeOK
  <2>2. seeded'[t][n] >= seeded[t][n]
    BY <1>1, <2>1 DEF TypeOK
  <2>3. UNCHANGED <<entered, removed>>
    BY <1>3 DEF InsertSeed
  <2>4. seeded[t][n] > 0 => seeded'[t][n] > 0
    BY <1>1, <2>1, <2>2 DEF TypeOK
  <2> QED
    BY <2>3, <2>4 DEF IsAccountedFor, IsPresent
<1>4. ASSUME NEW u \in Tables, NEW m \in Names, Enter(u, m) PROVE IsAccountedFor(t, n)'
  <2>1. /\ entered' = [entered EXCEPT ![u][m] = @ + 1]
        /\ UNCHANGED <<seeded, removed>>
    BY <1>4 DEF Enter
  <2>2. entered[t][n] > 0 => entered'[t][n] > 0
    BY <1>1, <2>1 DEF TypeOK
  <2> QED
    BY <2>1, <2>2 DEF IsAccountedFor, IsPresent
<1>5. ASSUME NEW u \in Tables, NEW m \in Names, Remove(u, m) PROVE IsAccountedFor(t, n)'
  <2>1. removed' = [removed EXCEPT ![u] = @ \cup {m}]
    BY <1>5 DEF Remove
  <2>2. CASE u = t /\ m = n
    BY <2>1, <2>2 DEF IsAccountedFor, TypeOK
  <2>3. CASE ~(u = t /\ m = n)
    <3>1. seeded'[t][n] = seeded[t][n] /\ entered'[t][n] = entered[t][n]
      BY <1>5, <2>3 DEF Remove, TypeOK
    <3>2. n \in removed[t] => n \in removed'[t]
      BY <2>1 DEF TypeOK
    <3> QED
      BY <3>1, <3>2 DEF IsAccountedFor, IsPresent
  <2> QED
    BY <2>2, <2>3
<1>6. ASSUME NEW p \in Processes, Open(p) \/ FindRows(p) \/ FindNothing(p) \/ SeedRefused(p) \/ Stop(p)
      PROVE  IsAccountedFor(t, n)'
  BY <1>2, <1>6 DEF Open, FindRows, FindNothing, SeedRefused, Stop
<1>7. CASE UNCHANGED vars
  BY <1>2, <1>7 DEF vars, rows
<1> QED
  BY <1>3, <1>4, <1>5, <1>6, <1>7 DEF Next, Seed

LEMMA AdminStep == TypeOK /\ AdminFirst /\ [Next]_vars => AdminFirst'
<1> DEFINE Early == {Off, Counting("users"), Inserting("users", 1)}
<1> SUFFICES ASSUME TypeOK, AdminFirst, [Next]_vars, ~IsAccountedFor("users", 1)'
             PROVE  AdminFirst'
  BY DEF AdminFirst
<1>1. /\ IsEmpty("users")
      /\ \A p \in Processes : proc[p] \in Early
  BY AccountedStays, Seeds DEF AdminFirst
<1>2. /\ \A place \in Early : place.at # "up"
      /\ \A place \in Early : place.at = "count" => place = Counting("users")
      /\ \A place \in Early : place.at = "insert" => place = Inserting("users", 1)
      /\ Off \in Early /\ Counting("users") \in Early /\ Inserting("users", 1) \in Early
      /\ Counting("users").table = "users" /\ Inserting("users", 1).table = "users"
      /\ Inserting("users", 1).next = 1
  BY Places, Seeds, SeedsAssumption
<1> HIDE DEF Early
<1>3. ASSUME NEW p \in Processes, NEW place \in Early, proc' = [proc EXCEPT ![p] = place],
             UNCHANGED rows
      PROVE  AdminFirst'
  <2>1. IsEmpty("users")'
    BY <1>1, <1>3 DEF IsEmpty, IsPresent, rows
  <2>2. \A q \in Processes : proc'[q] \in Early
    BY <1>1, <1>3 DEF TypeOK
  <2> QED
    BY <2>1, <2>2 DEF AdminFirst, Early
<1>4. ASSUME NEW p \in Processes, Open(p) PROVE AdminFirst'
  BY <1>2, <1>3, <1>4 DEF Open
<1>5. ASSUME NEW p \in Processes, FindRows(p) PROVE AdminFirst'
  BY <1>1, <1>2, <1>5 DEF FindRows
<1>6. ASSUME NEW p \in Processes, FindNothing(p) PROVE AdminFirst'
  <2>1. proc[p] = Counting("users")
    BY <1>1, <1>2, <1>6 DEF FindNothing
  <2>2. proc' = [proc EXCEPT ![p] = Inserting("users", 1)] /\ UNCHANGED rows
    BY <1>2, <1>6, <2>1 DEF FindNothing, rows
  <2> QED
    BY <1>2, <1>3, <2>2
<1>7. ASSUME NEW p \in Processes, InsertSeed(p) PROVE AdminFirst'
  <2>1. proc[p] = Inserting("users", 1)
    BY <1>1, <1>2, <1>7 DEF InsertSeed
  <2>2. seeded' = [seeded EXCEPT !["users"][1] = @ + 1]
    BY <1>2, <1>7, <2>1 DEF InsertSeed
  <2>3. seeded'["users"][1] > 0
    BY <2>2, Seeds DEF TypeOK
  <2> QED
    BY <2>3 DEF IsAccountedFor, IsPresent
<1>8. ASSUME NEW p \in Processes, SeedRefused(p) PROVE AdminFirst'
  BY <1>2, <1>3, <1>8 DEF SeedRefused
<1>9. ASSUME NEW p \in Processes, Stop(p) PROVE AdminFirst'
  BY <1>2, <1>3, <1>9 DEF Stop, rows
<1>10. ASSUME NEW t \in Tables, NEW n \in Names, Enter(t, n) \/ Remove(t, n) PROVE AdminFirst'
  <2>1. proc[Server] = Up /\ Server \in Processes
    BY <1>10 DEF Enter, Remove, Processes
  <2> QED
    BY <1>1, <1>2, <2>1, Places
<1>11. CASE UNCHANGED vars
  BY <1>11 DEF vars, AdminFirst, IsAccountedFor, IsEmpty, IsPresent
<1> QED
  BY <1>4, <1>5, <1>6, <1>7, <1>8, <1>9, <1>10, <1>11 DEF Next, Seed

----------------------------------------------------------------------------
\* Sole seeders, services and refusals.

\* The three parts that tell of raced tables.
SeedersApart == SoleSeeder /\ ServicesSeededOnce /\ RefusalIsRaced

\* They survive a step that brings neither a seeder nor a seed nor a refusal.
LEMMA QuietApart ==
  ASSUME TypeOK, TypeOK', SeedersApart,
         \A q \in Processes, t \in Tables : IsSeeding(q, t)' => proc'[q] = proc[q],
         \A t \in Tables, n \in Names : seeded'[t][n] <= seeded[t][n],
         raced' = raced, refused' \subseteq refused
  PROVE  SeedersApart'
<1>1. \A t \in Tables, n \in Names : seeded[t][n] \in Nat /\ seeded'[t][n] \in Nat
  BY DEF TypeOK
<1>2. \A q \in Processes, t \in Tables :
        IsSeeding(q, t)' => IsSeeding(q, t) /\ proc'[q].next = proc[q].next
  BY DEF IsSeeding
<1>3. ASSUME NEW t \in Tables \ raced', NEW p \in Processes, IsSeeding(p, t)'
      PROVE  /\ \A q \in Processes \ {p} : ~IsSeeding(q, t)'
             /\ \A n \in Names : n >= proc'[p].next => seeded'[t][n] = 0
  <2>1. /\ \A q \in Processes \ {p} : ~IsSeeding(q, t)
        /\ \A n \in Names : n >= proc[p].next => seeded[t][n] = 0
        /\ proc'[p].next = proc[p].next
    BY <1>2, <1>3 DEF SeedersApart, SoleSeeder
  <2>2. \A n \in Names : seeded[t][n] = 0 => seeded'[t][n] = 0
    BY <1>1
  <2> QED
    BY <1>2, <2>1, <2>2
<1>4. ServicesSeededOnce'
  BY <1>1, Seeds DEF SeedersApart, ServicesSeededOnce
<1>5. RefusalIsRaced'
  BY DEF SeedersApart, RefusalIsRaced
<1>6. SoleSeeder'
  BY <1>3 DEF SoleSeeder
<1> QED
  BY <1>4, <1>5, <1>6 DEF SeedersApart

LEMMA ApartStep == TypeOK /\ SeedersApart /\ [Next]_vars => SeedersApart'
<1> SUFFICES ASSUME TypeOK, SeedersApart, [Next]_vars PROVE SeedersApart'
  OBVIOUS
<1>1. TypeOK'
  BY NextTypes
<1>2. \A t \in Tables, n \in Names : seeded[t][n] \in Nat /\ seeded'[t][n] \in Nat
  BY <1>1 DEF TypeOK
<1>3. ASSUME NEW p \in Processes, NEW place \in ProcType, proc' = [proc EXCEPT ![p] = place],
             place.at # "insert", seeded' = seeded, raced' = raced, refused' \subseteq refused
      PROVE  SeedersApart'
  <2>1. \A q \in Processes, t \in Tables : IsSeeding(q, t)' => proc'[q] = proc[q]
    BY <1>3 DEF IsSeeding, TypeOK
  <2>2. \A t \in Tables, n \in Names : seeded'[t][n] <= seeded[t][n]
    BY <1>2, <1>3
  <2> QED
    BY <1>1, <1>3, <2>1, <2>2, QuietApart
<1>4. ASSUME NEW p \in Processes, Open(p) PROVE SeedersApart'
  BY <1>3, <1>4, Places, Seeds DEF Open, rows
<1>5. ASSUME NEW p \in Processes, FindRows(p) PROVE SeedersApart'
  <2>1. PICK t \in Tables : t = proc[p].table
    BY <1>5, Standing DEF FindRows, TypeOK
  <2>2. proc' = [proc EXCEPT ![p] = Beyond(p, t)] /\ UNCHANGED <<seeded, raced, refused>>
    BY <1>5, <2>1 DEF FindRows, rows
  <2> QED
    BY <1>3, <2>2, BeyondIsNoInsert
<1>6. ASSUME NEW p \in Processes, FindNothing(p) PROVE SeedersApart'
  <2>1. PICK u \in Tables : u = proc[p].table
    BY <1>6, Standing DEF FindNothing, TypeOK
  <2>2. /\ proc' = [proc EXCEPT ![p] = Inserting(u, 1)]
        /\ raced' = IF \E q \in Processes : IsSeeding(q, u) THEN raced \cup {u} ELSE raced
        /\ IsEmpty(u) /\ UNCHANGED <<seeded, entered, refused>>
    BY <1>6, <2>1 DEF FindNothing, rows
  <2>3. /\ Inserting(u, 1).at = "insert" /\ Inserting(u, 1).table = u
        /\ Inserting(u, 1).next = 1
    BY Places, SeedsAssumption
  <2>4. /\ proc'[p] = Inserting(u, 1)
        /\ \A q \in Processes \ {p} : proc'[q] = proc[q]
    BY <2>2 DEF TypeOK
  <2>5. ASSUME NEW t \in Tables \ raced', NEW q \in Processes, IsSeeding(q, t)'
        PROVE  /\ \A r \in Processes \ {q} : ~IsSeeding(r, t)'
               /\ \A n \in Names : n >= proc'[q].next => seeded'[t][n] = 0
    <3>1. CASE t = u
      <4>1. \A r \in Processes : ~IsSeeding(r, u)
        BY <2>2, <2>5, <3>1
      <4>2. \A r \in Processes \ {p} : ~IsSeeding(r, u)'
        BY <2>4, <4>1 DEF IsSeeding
      <4>3. \A n \in Names : seeded[u][n] = 0
        BY <2>2, Present DEF IsEmpty
      <4> QED
        BY <2>2, <2>5, <3>1, <4>2, <4>3
    <3>2. CASE t # u
      <4>1. \A r \in Processes : IsSeeding(r, t)' => r # p /\ IsSeeding(r, t)
        BY <2>3, <2>4, <3>2 DEF IsSeeding
      <4>2. t \notin raced /\ q # p /\ proc'[q] = proc[q]
        BY <2>2, <2>4, <2>5, <4>1
      <4> QED
        BY <2>2, <2>5, <4>1, <4>2 DEF SeedersApart, SoleSeeder
    <3> QED
      BY <3>1, <3>2
  <2>6. SoleSeeder'
    BY <2>5 DEF SoleSeeder
  <2>7. ServicesSeededOnce' /\ RefusalIsRaced'
    BY <2>2 DEF SeedersApart, ServicesSeededOnce, RefusalIsRaced
  <2> QED
    BY <2>6, <2>7 DEF SeedersApart
<1>7. ASSUME NEW p \in Processes, InsertSeed(p) PROVE SeedersApart'
  <2>1. PICK u \in Tables, k \in Names : u = proc[p].table /\ k = proc[p].next
    BY <1>7, Standing, Seeds DEF InsertSeed, TypeOK, Names
  <2> DEFINE place == IF IsLast(u, k) THEN Beyond(p, u) ELSE Inserting(u, k + 1)
  <2>2. /\ IsSeeding(p, u)
        /\ seeded' = [seeded EXCEPT ![u][k] = @ + 1]
        /\ proc' = [proc EXCEPT ![p] = place]
        /\ UNCHANGED <<raced, refused>>
    BY <1>7, <2>1 DEF InsertSeed, IsSeeding
  <2>3. place.at = "insert" => place.table = u /\ place.next = k + 1
    BY BeyondIsNoInsert DEF Inserting
  <2> HIDE DEF place
  <2>4. /\ proc'[p] = place
        /\ \A q \in Processes \ {p} : proc'[q] = proc[q]
    BY <2>2 DEF TypeOK
  <2>5. \A t \in Tables, n \in Names : ~(t = u /\ n = k) => seeded'[t][n] = seeded[t][n]
    BY <2>2 DEF TypeOK
  <2>6. ASSUME NEW t \in Tables \ raced', NEW q \in Processes, IsSeeding(q, t)'
        PROVE  /\ \A r \in Processes \ {q} : ~IsSeeding(r, t)'
               /\ \A n \in Names : n >= proc'[q].next => seeded'[t][n] = 0
    <3>1. \A r \in Processes : IsSeeding(r, t)' => IsSeeding(r, t)
      BY <2>2, <2>3, <2>4 DEF IsSeeding
    <3>2. /\ \A r \in Processes \ {q} : ~IsSeeding(r, t)
          /\ \A n \in Names : n >= proc[q].next => seeded[t][n] = 0
      BY <2>2, <2>6, <3>1 DEF SeedersApart, SoleSeeder
    <3>3. CASE t = u
      <4>1. q = p /\ proc'[q].next = k + 1 /\ proc[q].next = k
        BY <2>1, <2>2, <2>3, <2>4, <2>6, <3>2, <3>3 DEF IsSeeding
      <4>2. \A n \in Names : n >= k + 1 => n >= k /\ n # k
        BY DEF Names
      <4> QED
        BY <2>5, <3>1, <3>2, <4>1, <4>2
    <3>4. CASE t # u
      <4>1. q # p
        BY <2>3, <2>4, <2>6, <3>4 DEF IsSeeding
      <4> QED
        BY <2>4, <2>5, <3>1, <3>2, <3>4, <4>1
    <3> QED
      BY <3>3, <3>4
  <2>7. SoleSeeder'
    BY <2>6 DEF SoleSeeder
  <2>8. ASSUME "services" \notin raced', NEW n \in Names PROVE seeded'["services"][n] <= 1
    <3>1. CASE u = "services" /\ n = k
      <4>1. seeded[u][k] = 0
        BY <2>1, <2>2, <2>8, <3>1 DEF SeedersApart, SoleSeeder, Names
      <4> QED
        BY <2>2, <3>1, <4>1 DEF TypeOK
    <3>2. CASE ~(u = "services" /\ n = k)
      BY <2>2, <2>5, <2>8, <3>2, Seeds DEF SeedersApart, ServicesSeededOnce
    <3> QED
      BY <3>1, <3>2
  <2>9. ServicesSeededOnce'
    BY <2>8 DEF ServicesSeededOnce
  <2>10. RefusalIsRaced'
    BY <2>2 DEF SeedersApart, RefusalIsRaced
  <2> QED
    BY <2>7, <2>9, <2>10 DEF SeedersApart
<1>8. ASSUME NEW p \in Processes, SeedRefused(p) PROVE SeedersApart'
  <2>1. PICK u \in Tables, k \in Names : u = proc[p].table /\ k = proc[p].next
    BY <1>8, Standing, Seeds DEF SeedRefused, TypeOK, Names
  <2>2. /\ IsSeeding(p, u)
        /\ proc' = [proc EXCEPT ![p] = Off] /\ UNCHANGED <<seeded, raced>>
        /\ refused' = IF seeded[u][k] > 0 THEN refused \cup {u} ELSE refused
    BY <1>8, <2>1 DEF SeedRefused, IsSeeding, rows
  <2>3. u \notin raced => seeded[u][k] = 0
    BY <2>1, <2>2 DEF SeedersApart, SoleSeeder, Names
  <2>4. \A q \in Processes, t \in Tables : IsSeeding(q, t)' => proc'[q] = proc[q]
    BY <2>2, Places DEF IsSeeding, TypeOK
  <2>5. CASE refused' = refused
    BY <1>3, <2>2, <2>5, Places
  <2>6. CASE refused' # refused
    <3>1. u \in raced /\ refused' = refused \cup {u}
      BY <1>2, <2>2, <2>3, <2>6
    <3>2. SoleSeeder'
      <4> SUFFICES ASSUME NEW t \in Tables \ raced', NEW q \in Processes, IsSeeding(q, t)'
                   PROVE  /\ \A r \in Processes \ {q} : ~IsSeeding(r, t)'
                          /\ \A n \in Names : n >= proc'[q].next => seeded'[t][n] = 0
        BY DEF SoleSeeder
      <4>1. \A r \in Processes : IsSeeding(r, t)' => IsSeeding(r, t)
        BY <2>4 DEF IsSeeding
      <4> QED
        BY <2>2, <2>4, <4>1 DEF SeedersApart, SoleSeeder
    <3>3. ServicesSeededOnce' /\ RefusalIsRaced'
      BY <2>2, <3>1 DEF SeedersApart, ServicesSeededOnce, RefusalIsRaced
    <3> QED
      BY <3>2, <3>3 DEF SeedersApart
  <2> QED
    BY <2>5, <2>6
<1>9. ASSUME NEW p \in Processes, Stop(p) PROVE SeedersApart'
  BY <1>3, <1>9, Places DEF Stop, rows
<1>10. ASSUME NEW t \in Tables, NEW n \in Names, Enter(t, n) \/ Remove(t, n) PROVE SeedersApart'
  <2>1. UNCHANGED <<proc, raced, refused>>
    BY <1>10 DEF Enter, Remove
  <2>2. \A u \in Tables, m \in Names : seeded'[u][m] <= seeded[u][m]
    BY <1>2, <1>10 DEF Enter, Remove, TypeOK
  <2> QED
    BY <1>1, <2>1, <2>2, QuietApart
<1>11. CASE UNCHANGED vars
  BY <1>11 DEF vars, SeedersApart, SoleSeeder, ServicesSeededOnce, RefusalIsRaced, IsSeeding
<1> QED
  BY <1>4, <1>5, <1>6, <1>7, <1>8, <1>9, <1>10, <1>11 DEF Next, Seed

----------------------------------------------------------------------------
\* Seeders lead.

\* What SeedersLead says of one table.
LeadOf(t) ==
  \A i \in 0..Last[t], j \in 1..Last[t] :
    i < j /\ IsReached(t, i) /\ ~IsAccountedFor(t, j) =>
      \E p \in Processes : IsSeeding(p, t) /\ proc[p].next \in (i + 1)..j

\* It survives a step that reaches nothing in the table and moves none of its seeders.
LEMMA QuietLead ==
  ASSUME TypeOK, [Next]_vars, NEW t \in Tables, LeadOf(t),
         t \in begun' => t \in begun,
         \A n \in Names : seeded'[t][n] > 0 => seeded[t][n] > 0,
         \A q \in Processes : IsSeeding(q, t) => proc'[q] = proc[q]
  PROVE  LeadOf(t)'
<1> SUFFICES ASSUME NEW i \in 0..Last[t], NEW j \in 1..Last[t],
                    i < j, IsReached(t, i)', ~IsAccountedFor(t, j)'
             PROVE  \E p \in Processes : IsSeeding(p, t)' /\ proc'[p].next \in (i + 1)..j
  BY DEF LeadOf
<1>1. i \in Names /\ j \in Names
  BY Seeds, SeedsAssumption DEF Names
<1>2. ~IsAccountedFor(t, j)
  BY <1>1, AccountedStays
<1>3. IsReached(t, i)
  BY <1>1 DEF IsReached
<1>4. PICK p \in Processes : IsSeeding(p, t) /\ proc[p].next \in (i + 1)..j
  BY <1>2, <1>3 DEF LeadOf
<1>5. IsSeeding(p, t)' /\ proc'[p].next \in (i + 1)..j
  BY <1>4 DEF IsSeeding
<1> QED
  BY <1>5

LEMMA LeadStep == TypeOK /\ SeedersLead /\ [Next]_vars => SeedersLead'
<1> SUFFICES ASSUME TypeOK, SeedersLead, [Next]_vars, NEW t \in Tables \ cut'
             PROVE  LeadOf(t)'
  BY DEF SeedersLead, LeadOf
<1>1. \A u \in Tables \ cut : LeadOf(u)
  BY DEF SeedersLead, LeadOf
<1>2. ASSUME cut' = cut, UNCHANGED <<seeded, begun>>, NEW p \in Processes,
             proc[p].at # "insert", NEW place \in ProcType, proc' = [proc EXCEPT ![p] = place]
      PROVE  LeadOf(t)'
  <2>1. \A q \in Processes : IsSeeding(q, t) => proc'[q] = proc[q]
    BY <1>2 DEF IsSeeding, TypeOK
  <2> QED
    BY <1>1, <1>2, <2>1, QuietLead
<1>3. ASSUME NEW p \in Processes, Open(p) PROVE LeadOf(t)'
  BY <1>2, <1>3, Places, Seeds DEF Open, rows
<1>4. ASSUME NEW p \in Processes, FindRows(p) PROVE LeadOf(t)'
  <2>1. PICK u \in Tables : u = proc[p].table
    BY <1>4, Standing DEF FindRows, TypeOK
  <2>2. /\ proc' = [proc EXCEPT ![p] = Beyond(p, u)] /\ UNCHANGED <<seeded, begun, cut>>
        /\ proc[p].at # "insert"
    BY <1>4, <2>1 DEF FindRows, rows
  <2> QED
    BY <1>2, <2>2, BeyondIsNoInsert
<1>5. ASSUME NEW p \in Processes, FindNothing(p) PROVE LeadOf(t)'
  <2>1. PICK u \in Tables : u = proc[p].table
    BY <1>5, Standing DEF FindNothing, TypeOK
  <2>2. /\ proc' = [proc EXCEPT ![p] = Inserting(u, 1)] /\ UNCHANGED <<seeded, entered, cut>>
        /\ proc[p].at # "insert" /\ IsEmpty(u) /\ begun' = begun \cup {u}
    BY <1>5, <2>1 DEF FindNothing, rows
  <2>3. /\ Inserting(u, 1).at = "insert" /\ Inserting(u, 1).table = u
        /\ Inserting(u, 1).next = 1
    BY Places, SeedsAssumption
  <2>4. /\ proc'[p] = Inserting(u, 1)
        /\ \A q \in Processes \ {p} : proc'[q] = proc[q]
    BY <2>2 DEF TypeOK
  <2>5. CASE t = u
    <3> SUFFICES ASSUME NEW i \in 0..Last[t], NEW j \in 1..Last[t],
                        i < j, IsReached(t, i)', ~IsAccountedFor(t, j)'
                 PROVE  \E q \in Processes : IsSeeding(q, t)' /\ proc'[q].next \in (i + 1)..j
      BY DEF LeadOf
    <3>1. i \in Names
      BY Seeds, SeedsAssumption DEF Names
    <3>2. i = 0
      BY <2>2, <2>5, <3>1, Present DEF IsReached, IsEmpty
    <3>3. IsSeeding(p, t)' /\ proc'[p].next = 1
      BY <2>3, <2>4, <2>5 DEF IsSeeding
    <3>4. 1 \in (i + 1)..j
      BY <3>2, Seeds
    <3> QED
      BY <3>3, <3>4
  <2>6. CASE t # u
    <3>1. \A q \in Processes : IsSeeding(q, t) => proc'[q] = proc[q]
      BY <2>2, <2>4 DEF IsSeeding
    <3>2. t \in begun' => t \in begun
      BY <2>2, <2>6
    <3> QED
      BY <1>1, <2>2, <3>1, <3>2, QuietLead
  <2> QED
    BY <2>5, <2>6
<1>6. ASSUME NEW p \in Processes, InsertSeed(p) PROVE LeadOf(t)'
  <2>1. PICK u \in Tables, k \in 1..MaxName : u = proc[p].table /\ k = proc[p].next
    BY <1>6, Standing DEF InsertSeed, TypeOK
  <2> DEFINE place == IF IsLast(u, k) THEN Beyond(p, u) ELSE Inserting(u, k + 1)
  <2>2. /\ IsSeeding(p, u)
        /\ seeded' = [seeded EXCEPT ![u][k] = @ + 1]
        /\ proc' = [proc EXCEPT ![p] = place]
        /\ UNCHANGED <<begun, cut>>
    BY <1>6, <2>1 DEF InsertSeed, IsSeeding
  <2>3. k # Last[u] => place.at = "insert" /\ place.table = u /\ place.next = k + 1
    BY DEF Inserting, IsLast
  <2> HIDE DEF place
  <2>4. /\ proc'[p] = place
        /\ \A q \in Processes \ {p} : proc'[q] = proc[q]
    BY <2>2 DEF TypeOK
  <2>5. k \in Names /\ seeded'[u][k] > 0
    <3>1. k \in Names
      BY SeedsAssumption DEF Names
    <3>2. seeded[u][k] \in Nat /\ seeded'[u][k] = seeded[u][k] + 1
      BY <2>2, <3>1 DEF TypeOK
    <3> QED
      BY <3>1, <3>2
  <2>6. \A v \in Tables, n \in Names : ~(v = u /\ n = k) => seeded'[v][n] = seeded[v][n]
    BY <2>2 DEF TypeOK
  <2>7. CASE t = u
    <3> SUFFICES ASSUME NEW i \in 0..Last[t], NEW j \in 1..Last[t],
                        i < j, IsReached(t, i)', ~IsAccountedFor(t, j)'
                 PROVE  \E q \in Processes : IsSeeding(q, t)' /\ proc'[q].next \in (i + 1)..j
      BY DEF LeadOf
    <3>1. i \in Names /\ j \in Names /\ ~IsAccountedFor(t, j) /\ Last[t] \in Nat
      BY AccountedStays, Seeds, SeedsAssumption DEF Names
    <3>2. j # k
      BY <2>5, <2>7 DEF IsAccountedFor, IsPresent
    \* p goes on behind the row it inserts.
    <3>3. ASSUME i <= k, k < j
          PROVE  \E q \in Processes : IsSeeding(q, t)' /\ proc'[q].next \in (i + 1)..j
      <4>1. k # Last[u] /\ k + 1 \in (i + 1)..j
        BY <2>7, <3>1, <3>3
      <4>2. IsSeeding(p, t)' /\ proc'[p].next = k + 1
        BY <2>3, <2>4, <2>7, <4>1 DEF IsSeeding
      <4> QED
        BY <4>1, <4>2
    <3>4. CASE i = k
      BY <3>3, <3>4
    <3>5. CASE i # k
      <4>1. IsReached(t, i)
        BY <2>2, <2>6, <2>7, <3>1, <3>5 DEF IsReached
      <4>2. PICK q \in Processes : IsSeeding(q, t) /\ proc[q].next \in (i + 1)..j
        BY <1>1, <2>2, <3>1, <4>1 DEF LeadOf
      <4>3. CASE q = p
        <5>1. i <= k /\ k < j
          BY <2>1, <3>2, <4>2, <4>3
        <5> QED
          BY <3>3, <5>1
      <4>4. CASE q # p
        BY <2>4, <4>2, <4>4 DEF IsSeeding
      <4> QED
        BY <4>3, <4>4
    <3> QED
      BY <3>4, <3>5
  <2>8. CASE t # u
    <3>1. \A q \in Processes : IsSeeding(q, t) => proc'[q] = proc[q]
      BY <2>2, <2>4, <2>8 DEF IsSeeding
    <3>2. \A n \in Names : seeded'[t][n] > 0 => seeded[t][n] > 0
      BY <2>6, <2>8
    <3> QED
      BY <1>1, <2>2, <3>1, <3>2, QuietLead
  <2> QED
    BY <2>7, <2>8
<1>7. ASSUME NEW p \in Processes, SeedRefused(p) PROVE LeadOf(t)'
  <2>1. PICK u \in Tables, k \in 1..Last[proc[p].table] : u = proc[p].table /\ k = proc[p].next
    BY <1>7, Standing DEF SeedRefused, TypeOK
  <2>2. /\ IsSeeding(p, u)
        /\ ~IsFree(u, k)
        /\ proc' = [proc EXCEPT ![p] = Off]
        /\ cut' = IF entered[u][k] > 0 THEN cut \cup {u} ELSE cut
        /\ UNCHANGED <<seeded, begun>>
    BY <1>7, <2>1 DEF SeedRefused, IsSeeding, rows
  <2>3. \A q \in Processes \ {p} : proc'[q] = proc[q]
    BY <2>2 DEF TypeOK
  <2>4. t \notin cut /\ LeadOf(t)
    BY <1>1, <2>2
  <2>5. CASE t = u
    <3>1. k \in Names /\ k \in 1..Last[t]
      BY <2>1, <2>5, Seeds
    <3>2. IsReached(t, k) /\ IsAccountedFor(t, k)
      <4>1. entered[t][k] = 0
        BY <2>2, <2>5, <3>1, Present
      <4>2. seeded[t][k] > 0
        BY <2>2, <2>5, <3>1, <4>1, Present DEF IsFree
      <4> QED
        BY <3>1, <4>2 DEF IsReached, IsAccountedFor, IsPresent
    <3> SUFFICES ASSUME NEW i \in 0..Last[t], NEW j \in 1..Last[t],
                        i < j, IsReached(t, i)', ~IsAccountedFor(t, j)'
                 PROVE  \E q \in Processes : IsSeeding(q, t)' /\ proc'[q].next \in (i + 1)..j
      BY DEF LeadOf
    <3>3. i \in Names /\ j \in Names /\ ~IsAccountedFor(t, j) /\ j # k
      BY <3>2, AccountedStays, Seeds, SeedsAssumption DEF Names
    <3>4. IsReached(t, i)
      BY <2>2 DEF IsReached
    <3>5. PICK q \in Processes : IsSeeding(q, t) /\ proc[q].next \in (i + 1)..j
      BY <2>4, <3>3, <3>4 DEF LeadOf
    <3>6. CASE q # p
      BY <2>3, <3>5, <3>6 DEF IsSeeding
    \* The row in p's way was reached as well: another process is beyond it.
    <3>7. CASE q = p
      <4>1. k < j /\ k \in 0..Last[t] /\ i + 1 <= k
        BY <2>1, <3>1, <3>3, <3>5, <3>7
      <4>2. PICK r \in Processes : IsSeeding(r, t) /\ proc[r].next \in (k + 1)..j
        BY <2>4, <3>2, <3>3, <4>1 DEF LeadOf
      <4>3. r # p /\ proc[r].next \in (i + 1)..j
        BY <2>1, <3>1, <4>1, <4>2
      <4> QED
        BY <2>3, <4>2, <4>3 DEF IsSeeding
    <3> QED
      BY <3>6, <3>7
  <2>6. CASE t # u
    <3>1. \A q \in Processes : IsSeeding(q, t) => proc'[q] = proc[q]
      BY <2>2, <2>3, <2>6 DEF IsSeeding
    <3> QED
      BY <2>2, <2>4, <3>1, QuietLead
  <2> QED
    BY <2>5, <2>6
<1>8. ASSUME NEW p \in Processes, Stop(p) PROVE LeadOf(t)'
  <2>1. /\ proc' = [proc EXCEPT ![p] = Off] /\ UNCHANGED <<seeded, begun>>
        /\ cut' = IF proc[p].at = "insert" THEN cut \cup {proc[p].table} ELSE cut
    BY <1>8 DEF Stop, rows
  <2>2. ~IsSeeding(p, t) /\ t \notin cut
    BY <2>1 DEF IsSeeding
  <2>3. \A q \in Processes : IsSeeding(q, t) => proc'[q] = proc[q]
    BY <2>1, <2>2 DEF TypeOK
  <2> QED
    BY <1>1, <2>1, <2>2, <2>3, QuietLead
<1>9. ASSUME NEW u \in Tables, NEW m \in Names, Enter(u, m) \/ Remove(u, m) PROVE LeadOf(t)'
  <2>1. UNCHANGED <<proc, begun, cut>>
    BY <1>9 DEF Enter, Remove
  <2>2. \A n \in Names : seeded'[t][n] > 0 => seeded[t][n] > 0
    BY <1>9 DEF Enter, Remove, TypeOK
  <2> QED
    BY <1>1, <2>1, <2>2, QuietLead
<1>10. CASE UNCHANGED vars
  BY <1>1, <1>10, QuietLead DEF vars
<1> QED
  BY <1>3, <1>4, <1>5, <1>6, <1>7, <1>8, <1>9, <1>10 DEF Next, Seed

----------------------------------------------------------------------------
\* The order of the seeds.

LEMMA OrderStep == TypeOK /\ SeedsInOrder /\ [Next]_vars => SeedsInOrder'
<1> SUFFICES ASSUME TypeOK, SeedsInOrder, [Next]_vars,
                    NEW t \in Tables, NEW n \in Names, NEW m \in Names,
                    1 <= m, m < n, IsHandled(t, n)', ~IsAccountedFor(t, m)'
             PROVE  FALSE
  BY DEF SeedsInOrder
<1>1. \A k \in Names : m < k => ~IsHandled(t, k)
  BY AccountedStays DEF SeedsInOrder
<1>2. seeded[t][n] = 0 /\ \A p \in Processes : IsSeeding(p, t) => proc[p].next # n
  BY <1>1, Present DEF IsHandled
\* A step that inserts nothing and brings nobody forward among the seeds of the table.
<1>3. ASSUME NEW p \in Processes, NEW place \in ProcType, proc' = [proc EXCEPT ![p] = place],
             place.at # "insert" \/ place.next = 1, UNCHANGED seeded
      PROVE  FALSE
  <2>1. PICK q \in Processes : IsSeeding(q, t)' /\ proc'[q].next = n
    BY <1>2, <1>3 DEF IsHandled
  <2>2. CASE q = p
    <3>1. proc'[p] = place
      BY <1>3 DEF TypeOK
    <3>2. place.next = 1 /\ place.next = n
      BY <1>3, <2>1, <2>2, <3>1 DEF IsSeeding
    <3> QED
      BY <3>2, SeedsAssumption DEF Names
  <2>3. CASE q # p
    BY <1>2, <1>3, <2>1, <2>3 DEF IsSeeding, TypeOK
  <2> QED
    BY <2>2, <2>3
<1>4. ASSUME NEW p \in Processes, Open(p) PROVE FALSE
  BY <1>3, <1>4, Places, Seeds DEF Open, rows
<1>5. ASSUME NEW p \in Processes, FindRows(p) PROVE FALSE
  <2>1. PICK u \in Tables : u = proc[p].table
    BY <1>5, Standing DEF FindRows, TypeOK
  <2>2. proc' = [proc EXCEPT ![p] = Beyond(p, u)] /\ UNCHANGED seeded
    BY <1>5, <2>1 DEF FindRows, rows
  <2> QED
    BY <1>3, <2>2, BeyondIsNoInsert
<1>6. ASSUME NEW p \in Processes, FindNothing(p) PROVE FALSE
  <2>1. PICK u \in Tables : u = proc[p].table
    BY <1>6, Standing DEF FindNothing, TypeOK
  <2>2. proc' = [proc EXCEPT ![p] = Inserting(u, 1)] /\ UNCHANGED seeded
    BY <1>6, <2>1 DEF FindNothing, rows
  <2>3. Inserting(u, 1) \in ProcType /\ Inserting(u, 1).next = 1
    BY Places, SeedsAssumption
  <2> QED
    BY <1>3, <2>2, <2>3
<1>7. ASSUME NEW p \in Processes, InsertSeed(p) PROVE FALSE
  <2>0. PICK u \in Tables : u = proc[p].table /\ proc[p].at = "insert"
    BY <1>7, Standing DEF InsertSeed, TypeOK
  <2>1. PICK k \in 1..Last[u] : k = proc[p].next
    BY <2>0 DEF TypeOK
  <2>2. /\ seeded' = [seeded EXCEPT ![u][k] = @ + 1]
        /\ proc' = [proc EXCEPT ![p] = IF IsLast(u, k) THEN Beyond(p, u) ELSE Inserting(u, k + 1)]
    BY <1>7, <2>0, <2>1 DEF InsertSeed
  <2>3. k \in Names /\ k \in Int /\ Last[u] \in Int /\ Last[u] <= MaxName
    BY <2>1, Seeds
  \* p was about to insert its row, behind which everything is accounted for.
  <2>4. u = t => k <= m
    <3>1. u = t => IsHandled(t, k)
      BY <2>0, <2>1 DEF IsHandled, IsSeeding
    <3> QED
      BY <1>1, <2>3, <3>1 DEF Names
  <2>5. ~(u = t /\ k = m)
    <3>1. u = t /\ k = m => seeded'[t][m] > 0
      BY <2>2, <2>3 DEF TypeOK
    <3> QED
      BY <3>1 DEF IsAccountedFor, IsPresent
  <2>6. seeded'[t][n] = 0
    BY <1>2, <2>2, <2>3, <2>4 DEF TypeOK, Names
  <2>7. PICK q \in Processes : IsSeeding(q, t)' /\ proc'[q].next = n
    BY <2>6 DEF IsHandled
  <2>8. CASE q # p
    BY <1>2, <2>2, <2>7, <2>8 DEF IsSeeding, TypeOK
  <2>9. CASE q = p
    <3>1. proc'[p].at = "insert" /\ proc'[p].table = t /\ proc'[p].next = n
      BY <2>7, <2>9 DEF IsSeeding
    <3>2. ~IsLast(u, k)
      BY <2>2, <3>1, BeyondIsNoInsert DEF TypeOK
    <3>3. k + 1 \in 1..MaxName
      BY <2>1, <2>3, <3>2, SeedsAssumption DEF IsLast
    <3>4. proc'[p] = Inserting(u, k + 1)
      BY <2>2, <3>2 DEF TypeOK
    <3>5. u = t /\ n = k + 1
      BY <3>1, <3>3, <3>4, Places
    <3> QED
      BY <2>3, <2>4, <2>5, <3>5 DEF Names
  <2> QED
    BY <2>8, <2>9
<1>8. ASSUME NEW p \in Processes, SeedRefused(p) \/ Stop(p) PROVE FALSE
  BY <1>3, <1>8, Places DEF SeedRefused, Stop, rows
<1>9. ASSUME NEW u \in Tables, NEW k \in Names, Enter(u, k) \/ Remove(u, k) PROVE FALSE
  <2>1. proc' = proc
    BY <1>9 DEF Enter, Remove
  <2>2. seeded' = seeded \/ (seeded[u][k] > 0 /\ seeded' = [seeded EXCEPT ![u][k] = @ - 1])
    BY <1>9 DEF Enter, Remove
  <2>3. ~(seeded'[t][n] > 0)
    BY <1>2, <2>2 DEF TypeOK
  <2> QED
    BY <1>2, <2>1, <2>3 DEF IsHandled, IsSeeding
<1>10. CASE UNCHANGED vars
  <2>1. proc' = proc /\ seeded' = seeded
    BY <1>10 DEF vars, rows
  <2> QED
    BY <1>2, <2>1 DEF IsHandled, IsSeeding
<1> QED
  BY <1>4, <1>5, <1>6, <1>7, <1>8, <1>9, <1>10 DEF Next, Seed

----------------------------------------------------------------------------
\* Theorems.

LEMMA InitIInv == Init => IInv
<1> SUFFICES ASSUME Init PROVE IInv
  OBVIOUS
<1>1. TypeOK
  BY InitTypes
<1>2. /\ \A t \in Tables, n \in Names : seeded[t][n] = 0 /\ entered[t][n] = 0
      /\ \A p \in Processes : proc[p] = Off
      /\ begun = {} /\ raced = {} /\ refused = {}
  BY DEF Init
<1>3. \A p \in Processes, t \in Tables : ~IsSeeding(p, t)
  BY <1>2, Places DEF IsSeeding
<1>4. SoleSeeder
  BY <1>3 DEF SoleSeeder
<1>5. ServicesSeededOnce /\ RefusalIsRaced
  BY <1>2, Seeds DEF ServicesSeededOnce, RefusalIsRaced
<1>6. AdminFirst
  BY <1>2, Seeds DEF AdminFirst, IsEmpty, IsPresent
<1>7. SeedersLead
  BY <1>2, Seeds, SeedsAssumption DEF SeedersLead, IsReached, Names
<1>8. SeedsInOrder
  BY <1>2, <1>3 DEF SeedsInOrder, IsHandled
<1> QED
  BY <1>1, <1>4, <1>5, <1>6, <1>7, <1>8 DEF IInv

LEMMA StepIInv == IInv /\ [Next]_vars => IInv'
BY NextTypes, ApartStep, AdminStep, LeadStep, OrderStep DEF IInv, SeedersApart

\* The parts of IInv hold of every run of any number of starting processes.
THEOREM Invariance == Spec => []IInv
<1>1. Init => IInv
  BY InitIInv
<1>2. IInv /\ [Next]_vars => IInv'
  BY StepIInv
<1> QED
  BY <1>1, <1>2, PTL DEF Spec

\* Starts, stops and clients keep the tables and the processes well typed, and names
\* unique where the schema says so (seed, seedRooms, seedServices).
THEOREM TypeCorrect == Spec => []TypeOK
<1>1. IInv => TypeOK
  BY DEF IInv
<1> QED
  BY <1>1, Invariance, PTL

LEMMA AdminServes == IInv => ServerHasAdmin
<1> SUFFICES ASSUME AdminFirst, proc[Server] = Up PROVE IsAccountedFor("users", 1)
  BY DEF IInv, ServerHasAdmin
<1>1. Server \in Processes
  BY DEF Processes
<1>2. Up \notin {Off, Counting("users"), Inserting("users", 1)}
  BY DEF Up, Off, Counting, Inserting
<1> QED
  BY <1>1, <1>2 DEF AdminFirst

\* Processes that seed a table together and refuse one another's rows leave no seed out,
\* unless a stop or a client's row cut in, and a stop leaves a beginning of the list
\* (seed, seedRooms).
THEOREM SeedsWhole == Spec => []SeedsAreWhole
<1>1. ASSUME IInv, NEW t \in begun \ cut, NEW n \in 1..Last[t], ~IsAccountedFor(t, n)
      PROVE  \E p \in Processes : IsSeeding(p, t)
  <2>1. t \in Tables \ cut /\ Last[t] \in Nat
    BY <1>1, Seeds DEF IInv, TypeOK
  <2>2. 0 \in 0..Last[t] /\ 0 < n /\ IsReached(t, 0)
    BY <2>1 DEF IsReached
  <2> QED
    BY <1>1, <2>1, <2>2 DEF IInv, SeedersLead
<1>2. ASSUME IInv, NEW t \in Tables, NEW n \in 1..Last[t], seeded[t][n] > 0, NEW m \in 1..n
      PROVE  IsAccountedFor(t, m)
  <2>1. n \in Names /\ m \in Names /\ 1 <= m /\ n \in Int /\ m \in Int /\ m <= n
    BY Seeds, SeedsAssumption DEF Names
  <2>2. CASE m < n
    BY <1>2, <2>1, <2>2 DEF IInv, SeedsInOrder, IsHandled
  <2>3. CASE m = n
    BY <1>2, <2>3 DEF IsAccountedFor, IsPresent
  <2> QED
    BY <2>1, <2>2, <2>3
<1>3. IInv => SeedsAreWhole
  BY <1>1, <1>2, AdminServes DEF SeedsAreWhole
<1> QED
  BY <1>3, Invariance, PTL

\* A service is seeded twice only if two processes found service_items empty together
\* (seedServices).
THEOREM SeededOnce == Spec => []ServicesSeededOnce
<1>1. IInv => ServicesSeededOnce
  BY DEF IInv
<1> QED
  BY <1>1, Invariance, PTL

\* A start fails over a seed only if two processes found the table empty together (Open).
THEOREM RefusalsRaced == Spec => []RefusalIsRaced
<1>1. IInv => RefusalIsRaced
  BY DEF IInv
<1> QED
  BY <1>1, Invariance, PTL

\* The server never serves without an administrator, unless a client removed the account
\* (seed).
THEOREM AdminThere == Spec => []ServerHasAdmin
BY AdminServes, Invariance, PTL

----------------------------------------------------------------------------
\* The server's way up.

\* Places in their order: the count of a table, its seeds, and what is beyond it.
LEMMA Positions ==
  ASSUME NEW t \in Tables, NEW k \in 1..MaxName
  PROVE  /\ Position(Off) = 0 /\ Position(Counting(t)) \in Nat \ {0}
         /\ Position(Inserting(t, k)) = Position(Counting(t)) + k
         /\ Position(Beyond(Server, t)) \in Nat
         /\ Position(Beyond(Server, t)) > Position(Counting(t)) + MaxName
<1>1. /\ Position(Off) = 0 /\ Position(Up) = 3 * MaxName + 4
      /\ \A u \in Tables : Position(Counting(u)) = Turn[u]
      /\ Position(Inserting(t, k)) = Turn[t] + k
  BY Places DEF Position
<1>2. /\ Turn["users"] = 1 /\ Turn["rooms"] = MaxName + 2 /\ Turn["services"] = 2 * MaxName + 3
      /\ MaxName \in Nat
  BY SeedsAssumption DEF Turn
<1>3. CASE t = "users"
  BY <1>1, <1>2, <1>3, Seeds DEF Beyond
<1>4. CASE t = "rooms"
  BY <1>1, <1>2, <1>4, Seeds DEF Beyond
<1>5. CASE t = "services"
  BY <1>1, <1>2, <1>5, Seeds DEF Beyond
<1> QED
  BY <1>3, <1>4, <1>5 DEF Tables

LEMMA PositionIsNat ==
  ASSUME NEW place \in ProcType
  PROVE  Position(place) \in Nat
<1>1. "users" \in Tables /\ 1 \in 1..MaxName /\ MaxName \in Nat
  BY Seeds, SeedsAssumption
<1>2. CASE place.at = "off"
  BY <1>2 DEF Position
<1>3. CASE place.at = "up"
  BY <1>1, <1>3 DEF Position
<1>4. CASE place.at = "count"
  BY <1>1, <1>4, Standing, Positions
<1>5. CASE place.at = "insert"
  <2>1. PICK t \in Tables, k \in 1..MaxName : place = Inserting(t, k)
    BY <1>5, Standing
  <2>2. Position(Counting(t)) \in Nat /\ Position(place) = Position(Counting(t)) + k
    BY <2>1, Positions
  <2> QED
    BY <1>1, <2>2
<1> QED
  BY <1>2, <1>3, <1>4, <1>5, Standing

\* A statement of the server takes a table off its list or brings it forward.
LEMMA ServerAdvances ==
  ASSUME TypeOK, Open(Server) \/ Seed(Server)
  PROVE  /\ proc[Server] # Up
         /\ \/ ToSeed' \subseteq ToSeed /\ ToSeed' # ToSeed
            \/ /\ ToSeed' = ToSeed
               /\ Position(proc'[Server]) > Position(proc[Server])
<1>1. /\ Server \in Processes /\ proc[Server] \in ProcType /\ MaxName \in Nat
      /\ proc \in [Processes -> ProcType]
  BY SeedsAssumption DEF TypeOK, Processes
<1>a. UNCHANGED rows => \A u \in Tables : IsEmpty(u)' = IsEmpty(u)
  BY DEF rows, IsEmpty, IsPresent
<1>2. CASE Open(Server)
  <2>1. proc[Server] = Off /\ proc'[Server] = Counting("users") /\ UNCHANGED rows
    BY <1>1, <1>2 DEF Open
  <2>2. ToSeed' = ToSeed
    BY <2>1, <1>a, Places, Seeds DEF ToSeed, IsSeeding
  <2>3. Position(Off) = 0 /\ Position(Counting("users")) > 0
    BY Seeds, SeedsAssumption, Positions
  <2> QED
    BY <2>1, <2>2, <2>3, Places
<1>3. CASE FindRows(Server)
  <2>1. PICK t \in Tables : proc[Server] = Counting(t)
    BY <1>1, <1>3, Standing DEF FindRows
  <2>2. proc'[Server] = Beyond(Server, t) /\ UNCHANGED rows
    <3>1. proc[Server].table = t
      BY <2>1, Places
    <3> QED
      BY <1>1, <1>3, <3>1 DEF FindRows
  <2>3. ToSeed' = ToSeed
    BY <1>1, <2>1, <2>2, <1>a, Places, BeyondIsNoInsert DEF ToSeed, IsSeeding
  <2>4. Position(Beyond(Server, t)) > Position(Counting(t))
    BY <1>1, SeedsAssumption, Positions
  <2> QED
    BY <2>1, <2>2, <2>3, <2>4, Places
<1>4. CASE FindNothing(Server)
  <2>1. PICK t \in Tables : proc[Server] = Counting(t)
    BY <1>1, <1>4, Standing DEF FindNothing
  <2>2. IsEmpty(t) /\ proc'[Server] = Inserting(t, 1) /\ UNCHANGED rows
    <3>1. proc[Server].table = t
      BY <2>1, Places
    <3> QED
      BY <1>1, <1>4, <3>1 DEF FindNothing
  <2>3. 1 \in 1..MaxName
    BY SeedsAssumption
  <2>4. ToSeed' = ToSeed
    BY <2>1, <2>2, <2>3, <1>a, Places DEF ToSeed, IsSeeding
  <2>5. Position(Inserting(t, 1)) > Position(Counting(t))
    BY <2>3, Positions
  <2> QED
    BY <2>1, <2>2, <2>4, <2>5, Places
<1>5. CASE InsertSeed(Server)
  <2>1. PICK t \in Tables, k \in 1..MaxName : proc[Server] = Inserting(t, k) /\ k \in 1..Last[t]
    BY <1>1, <1>5, Standing DEF InsertSeed, TypeOK
  <2>2. k \in 1..MaxName /\ k \in Names /\ k <= Last[t] /\ Last[t] \in Nat /\ Last[t] <= MaxName
    BY <2>1, Seeds, SeedsAssumption DEF Names
  <2>3. /\ proc[Server].table = t /\ proc[Server].next = k /\ proc[Server].at = "insert"
    BY <2>1, <2>2, Places
  <2>4. /\ proc'[Server] = IF k = Last[t] THEN Beyond(Server, t) ELSE Inserting(t, k + 1)
        /\ seeded' = [seeded EXCEPT ![t][k] = @ + 1] /\ UNCHANGED entered
    BY <1>1, <1>5, <2>3 DEF InsertSeed, IsLast
  <2>5. /\ \A u \in Tables \ {t} : IsEmpty(u)' = IsEmpty(u)
        /\ ~IsEmpty(t)'
    <3>1. \A u \in Tables \ {t} : seeded'[u] = seeded[u]
      BY <2>4
    <3>2. seeded[t][k] \in Nat /\ seeded'[t][k] = seeded[t][k] + 1
      BY <2>2, <2>4 DEF TypeOK
    <3> QED
      BY <2>2, <2>4, <3>1, <3>2 DEF IsEmpty, IsPresent
  <2>6. t \in ToSeed
    BY <2>3 DEF ToSeed, IsSeeding
  <2>7. CASE k = Last[t]
    <3>1. proc'[Server].at # "insert"
      BY <1>1, <2>4, <2>7, BeyondIsNoInsert
    <3>2. ToSeed' \subseteq ToSeed /\ t \notin ToSeed'
      BY <2>5, <3>1 DEF ToSeed, IsSeeding
    <3> QED
      BY <2>3, <2>6, <3>2, Places
  <2>8. CASE k # Last[t]
    <3>1. k + 1 \in 1..MaxName /\ proc'[Server] = Inserting(t, k + 1)
      BY <1>1, <2>2, <2>4, <2>8
    <3>2. \A u \in Tables : IsSeeding(Server, u)' = IsSeeding(Server, u)
      BY <2>3, <3>1, Places DEF IsSeeding
    <3>3. ToSeed' = ToSeed
      BY <2>3, <2>5, <3>2 DEF ToSeed, IsSeeding
    <3>4. Position(Inserting(t, k + 1)) > Position(Inserting(t, k))
      BY <2>2, <3>1, Positions
    <3> QED
      BY <2>1, <2>3, <3>1, <3>3, <3>4, Places
  <2> QED
    BY <2>7, <2>8
<1>6. CASE SeedRefused(Server)
  <2>1. PICK t \in Tables, k \in 1..MaxName : proc[Server] = Inserting(t, k) /\ k \in 1..Last[t]
    BY <1>1, <1>6, Standing DEF SeedRefused, TypeOK
  <2>2. k \in 1..MaxName /\ k \in Names
    BY <2>1, Seeds, SeedsAssumption DEF Names
  <2>3. /\ proc[Server].table = t /\ proc[Server].next = k /\ proc[Server].at = "insert"
    BY <2>1, <2>2, Places
  <2>4. IsPresent(t, k) /\ proc'[Server] = Off /\ UNCHANGED rows
    BY <1>1, <1>6, <2>3 DEF SeedRefused, IsFree
  <2>5. t \in ToSeed /\ ~IsEmpty(t)
    BY <2>2, <2>3, <2>4 DEF ToSeed, IsSeeding, IsEmpty
  <2>6. ToSeed' \subseteq ToSeed /\ t \notin ToSeed'
    BY <2>4, <2>5, <1>a, Places DEF ToSeed, IsSeeding
  <2> QED
    BY <2>3, <2>5, <2>6, Places
<1> QED
  BY <1>2, <1>3, <1>4, <1>5, <1>6 DEF Seed

\* What others do leaves the server where it is and empties no table while it starts.
LEMMA OthersLeaveServer ==
  ASSUME TypeOK, [Next]_vars, ~(Open(Server) \/ Seed(Server))
  PROVE  \/ stops' > stops
         \/ proc[Server] = Up /\ proc'[Server] = Up
         \/ proc[Server] # Up /\ proc'[Server] = proc[Server] /\ ToSeed' \subseteq ToSeed
<1>1. CASE Stop(Server)
  BY <1>1 DEF Stop, TypeOK
<1>2. ASSUME NEW p \in Processes, p # Server, Open(p) \/ Seed(p) \/ Stop(p)
      PROVE  proc'[Server] = proc[Server] /\ \A t \in Tables : IsEmpty(t)' => IsEmpty(t)
  <2>1. proc'[Server] = proc[Server]
    BY <1>2 DEF Open, Seed, FindRows, FindNothing, InsertSeed, SeedRefused, Stop, TypeOK, Processes
  <2>2. CASE UNCHANGED rows
    BY <2>1, <2>2 DEF rows, IsEmpty, IsPresent
  <2>3. CASE InsertSeed(p)
    <3>1. PICK t, k : seeded' = [seeded EXCEPT ![t][k] = @ + 1] /\ UNCHANGED entered
      BY <2>3 DEF InsertSeed
    <3>2. \A u \in Tables, n \in Names : seeded[u][n] > 0 => seeded'[u][n] > 0
      BY <3>1 DEF TypeOK
    <3> QED
      BY <2>1, <3>1, <3>2 DEF IsEmpty, IsPresent
  <2> QED
    BY <1>2, <2>2, <2>3 DEF Open, Seed, FindRows, FindNothing, SeedRefused, Stop
<1>3. ASSUME NEW t \in Tables, NEW n \in Names, Enter(t, n) \/ Remove(t, n)
      PROVE  proc[Server] = Up /\ proc'[Server] = Up
  BY <1>3 DEF Enter, Remove
<1>4. CASE UNCHANGED vars
  BY <1>4 DEF vars, ToSeed, IsSeeding, IsEmpty, IsPresent
<1>5. ASSUME proc'[Server] = proc[Server], \A t \in Tables : IsEmpty(t)' => IsEmpty(t)
      PROVE  ToSeed' \subseteq ToSeed
  BY <1>5 DEF ToSeed, IsSeeding
<1> QED
  BY <1>1, <1>2, <1>3, <1>4, <1>5 DEF Next

\* No start of the server is lost for nothing, whatever healthchecks do meanwhile (seed,
\* seedRooms, seedServices).  The three parts of the measure are well founded: stops are
\* finite in number, so are tables, and so are the places of a start.
THEOREM ServerNears == Spec => ServerGetsCloser
<1>1. ASSUME TypeOK, [Next]_vars
      PROVE  \/ stops' > stops
             \/ proc[Server] = Up /\ proc'[Server] = Up
             \/ /\ proc[Server] # Up
                /\ \/ ToSeed' \subseteq ToSeed /\ ToSeed' # ToSeed
                   \/ /\ ToSeed' = ToSeed
                      /\ Position(proc'[Server]) >= Position(proc[Server])
                      /\ Open(Server) \/ Seed(Server) =>
                           Position(proc'[Server]) > Position(proc[Server])
  <2>1. TypeOK'
    BY <1>1, NextTypes
  <2>2. Position(proc[Server]) \in Nat /\ Position(proc'[Server]) \in Nat
    BY <1>1, <2>1, PositionIsNat DEF TypeOK, Processes
  <2>3. CASE Open(Server) \/ Seed(Server)
    BY <1>1, <2>2, <2>3, ServerAdvances
  <2>4. CASE ~(Open(Server) \/ Seed(Server))
    BY <1>1, <2>2, <2>4, OthersLeaveServer
  <2> QED
    BY <2>3, <2>4
<1>2. IInv => TypeOK
  BY DEF IInv
<1>3. TypeOK /\ [Next]_vars =>
        [\/ stops' > stops
         \/ proc[Server] = Up /\ proc'[Server] = Up
         \/ /\ proc[Server] # Up
            /\ \/ ToSeed' \subseteq ToSeed /\ ToSeed' # ToSeed
               \/ /\ ToSeed' = ToSeed
                  /\ Position(proc'[Server]) >= Position(proc[Server])
                  /\ Open(Server) \/ Seed(Server) =>
                       Position(proc'[Server]) > Position(proc[Server])]_vars
  BY <1>1
<1> QED
  BY <1>2, <1>3, Invariance, PTL DEF Spec, ServerGetsCloser
=============================================================================
