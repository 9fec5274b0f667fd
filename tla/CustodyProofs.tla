--------------------------- MODULE CustodyProofs ----------------------------
(***************************************************************************)
(* Theorems about Custody, for every number of requests, users, pets,      *)
(* orders and records: the types, the inductive invariant, and what it     *)
(* says of pets, orders and records.                                       *)
(***************************************************************************)
EXTENDS Custody, TLAPS

----------------------------------------------------------------------------
\* Requests.

LEMMA PendingRequests ==
  ASSUME NEW q \in RequestType
  PROVE  /\ q.op \in {"idle", "keepOwner", "transfer", "deletePet", "addRecord", "updateRecord"}
         /\ q.op \in {"keepOwner", "transfer"} => q.row \in Pets /\ q.owner \in Users
         /\ q.op = "deletePet" => q.row \in Pets
         /\ q.op = "addRecord" => q.row \in Orders /\ q.date \in Days
         /\ q.op = "updateRecord" => q.row \in Records /\ q.date \in Days
BY DEF RequestType

LEMMA NewRequests ==
  /\ Idle \in RequestType /\ Idle.op = "idle"
  /\ \A p \in Pets, u \in Users :
       Holds("keepOwner", p, u, 0) \in RequestType /\ Holds("transfer", p, u, 0) \in RequestType
  /\ \A p \in Pets : Holds("deletePet", p, Null, 0) \in RequestType
  /\ \A o \in Orders, date \in Days : Holds("addRecord", o, Null, date) \in RequestType
  /\ \A x \in Records, date \in Days : Holds("updateRecord", x, Null, date) \in RequestType
BY DEF RequestType, Holds, Idle

\* Everything but the requests.
tables == <<users, pets, lastPet, orders, lastOrder, records, lastRecord, history>>

\* What a request knows.
Binds(q) == KnowsOwner(q) /\ KnowsHistory(q) /\ KnowsStay(q) /\ KnowsRecord(q)

LEMMA BindingIsBinds == ChecksStillBind <=> \A h \in Handlers : Binds(request[h])
BY DEF ChecksStillBind, Binds

LEMMA IdleBinds == Binds(Idle)
BY DEF Binds, KnowsOwner, KnowsHistory, KnowsStay, KnowsRecord, Idle, Holds

\* A step that starts no request, and leaves those in flight what they know.
LEMMA BindingStep ==
  ASSUME IInv,
         \A g \in Handlers : request'[g] \in {request[g], Idle},
         \A q \in RequestType :
           Binds(q) /\ (\E g \in Handlers : request[g] = q) =>
             KnowsOwner(q)' /\ KnowsHistory(q)' /\ KnowsStay(q)' /\ KnowsRecord(q)'
  PROVE  ChecksStillBind'
<1>1. ASSUME NEW g \in Handlers
      PROVE  /\ KnowsOwner(request[g])' /\ KnowsHistory(request[g])'
             /\ KnowsStay(request[g])' /\ KnowsRecord(request[g])'
  <2>1. PICK q \in RequestType : q = request'[g] /\ q \in {request[g], Idle}
    BY NewRequests DEF IInv, TypeOK
  <2>2. KnowsOwner(q)' /\ KnowsHistory(q)' /\ KnowsStay(q)' /\ KnowsRecord(q)'
    <3>1. CASE q = request[g]
      BY <3>1, BindingIsBinds DEF IInv
    <3>2. CASE q = Idle
      BY <3>2 DEF KnowsOwner, KnowsHistory, KnowsStay, KnowsRecord, Idle, Holds
    <3> QED
      BY <2>1, <3>1, <3>2
  <2> QED
    BY <2>1, <2>2 DEF KnowsOwner, KnowsHistory, KnowsStay, KnowsRecord
<1> QED
  BY <1>1 DEF ChecksStillBind

\* A step that only changes what a handler holds.
LEMMA RequestStep ==
  ASSUME IInv, NEW h \in Handlers, NEW q \in RequestType,
         request' = [request EXCEPT ![h] = q], UNCHANGED tables, Binds(q)
  PROVE  IInv'
<1>1. /\ users' = users /\ pets' = pets /\ lastPet' = lastPet /\ orders' = orders
      /\ lastOrder' = lastOrder /\ records' = records /\ lastRecord' = lastRecord
      /\ assigned' = assigned /\ reverted' = reverted /\ raced' = raced
      /\ transferred' = transferred /\ overtaken' = overtaken
  BY DEF tables, history
<1>2. request' \in [Handlers -> RequestType]
  BY DEF IInv, TypeOK
<1>3. TypeOK'
  BY <1>1, <1>2 DEF IInv, TypeOK
<1>4. /\ PetlessOrderIsExplained' /\ OrderIsOwners' /\ OwnerIsAssigned' /\ RecordsBelongToStay'
  BY <1>1 DEF IInv, PetlessOrderIsExplained, OrderIsOwners, OwnerIsAssigned, RecordsBelongToStay
<1>5. \A g \in Handlers : request'[g] = IF g = h THEN q ELSE request[g]
  BY DEF IInv, TypeOK
<1>6. \A g \in Handlers : Binds(request'[g])
  BY <1>5, BindingIsBinds DEF IInv
<1>7. ChecksStillBind'
  BY <1>1, <1>6 DEF Binds, ChecksStillBind, OrdersOf,
       KnowsOwner, KnowsHistory, KnowsStay, KnowsRecord
<1> QED
  BY <1>3, <1>4, <1>7 DEF IInv

LEMMA RequestKeeps ==
  ASSUME IInv, NEW h \in Handlers,
         \/ \E p \in Pets : KeepOwnerRead(h, p) \/ DeletePetCheck(h, p)
         \/ \E p \in Pets, u \in Users : TransferRead(h, p, u)
         \/ \E o \in Orders, date \in Days : AddRecordCheck(h, o, date)
         \/ \E x \in Records, date \in Days : UpdateRecordCheck(h, x, date)
         \/ Abandon(h)
  PROVE  IInv'
<1>1. ASSUME NEW p \in Pets, KeepOwnerRead(h, p) PROVE IInv'
  <2> DEFINE q == Holds("keepOwner", p, pets[p], 0)
  <2>1. pets[p] \in Users
    BY <1>1 DEF KeepOwnerRead, IInv, TypeOK
  <2>2. q \in RequestType
    BY <2>1, NewRequests
  <2>3. Binds(q)
    BY <1>1 DEF KeepOwnerRead, IInv, TypeOK, OwnerIsAssigned, Binds, Holds,
       KnowsOwner, KnowsHistory, KnowsStay, KnowsRecord
  <2>4. request' = [request EXCEPT ![h] = q] /\ UNCHANGED tables
    BY <1>1 DEF KeepOwnerRead, tables
  <2> HIDE DEF q
  <2> QED
    BY <2>2, <2>3, <2>4, RequestStep
<1>2. ASSUME NEW p \in Pets, DeletePetCheck(h, p) PROVE IInv'
  <2> DEFINE q == Holds("deletePet", p, Null, 0)
  <2>1. q \in RequestType
    BY NewRequests
  <2>2. Binds(q)
    BY <1>2 DEF DeletePetCheck, HasNoHistory, Binds, Holds,
       KnowsOwner, KnowsHistory, KnowsStay, KnowsRecord
  <2>3. request' = [request EXCEPT ![h] = q] /\ UNCHANGED tables
    BY <1>2 DEF DeletePetCheck, tables
  <2> HIDE DEF q
  <2> QED
    BY <2>1, <2>2, <2>3, RequestStep
<1>3. ASSUME NEW p \in Pets, NEW u \in Users, TransferRead(h, p, u) PROVE IInv'
  <2> DEFINE q == Holds("transfer", p, u, 0)
  <2>1. q \in RequestType
    BY NewRequests
  <2>2. Binds(q)
    BY DEF Binds, Holds,
       KnowsOwner, KnowsHistory, KnowsStay, KnowsRecord
  <2>3. request' = [request EXCEPT ![h] = q] /\ UNCHANGED tables
    BY <1>3 DEF TransferRead, tables
  <2> HIDE DEF q
  <2> QED
    BY <2>1, <2>2, <2>3, RequestStep
<1>4. ASSUME NEW o \in Orders, NEW date \in Days, AddRecordCheck(h, o, date) PROVE IInv'
  <2> DEFINE q == Holds("addRecord", o, Null, date)
  <2>1. q \in RequestType
    BY NewRequests
  <2>2. Binds(q)
    BY <1>4 DEF AddRecordCheck, IsWritable, Binds, Holds,
       KnowsOwner, KnowsHistory, KnowsStay, KnowsRecord
  <2>3. request' = [request EXCEPT ![h] = q] /\ UNCHANGED tables
    BY <1>4 DEF AddRecordCheck, tables
  <2> HIDE DEF q
  <2> QED
    BY <2>1, <2>2, <2>3, RequestStep
<1>5. ASSUME NEW x \in Records, NEW date \in Days, UpdateRecordCheck(h, x, date) PROVE IInv'
  <2> DEFINE q == Holds("updateRecord", x, Null, date)
  <2>1. q \in RequestType
    BY NewRequests
  <2>2. x <= lastRecord
    BY <1>5, BoundsAssumption DEF UpdateRecordCheck, IInv, TypeOK, Records
  <2>3. Binds(q)
    BY <1>5, <2>2 DEF UpdateRecordCheck, IsWritable, Binds, Holds,
       KnowsOwner, KnowsHistory, KnowsStay, KnowsRecord
  <2>4. request' = [request EXCEPT ![h] = q] /\ UNCHANGED tables
    BY <1>5 DEF UpdateRecordCheck, tables
  <2> HIDE DEF q
  <2> QED
    BY <2>1, <2>3, <2>4, RequestStep
<1>6. ASSUME Abandon(h) PROVE IInv'
  <2>1. request' = [request EXCEPT ![h] = Idle] /\ UNCHANGED tables
    BY <1>6 DEF Abandon, tables
  <2> QED
    BY <2>1, NewRequests, IdleBinds, RequestStep
<1> QED
  BY <1>1, <1>2, <1>3, <1>4, <1>5, <1>6

----------------------------------------------------------------------------
\* Pets.

LEMMA InitInvariant == Init => IInv
<1> SUFFICES ASSUME Init PROVE IInv
  OBVIOUS
<1> USE BoundsAssumption, IdsAssumption
<1>1. \A h \in Handlers : request[h] = Idle
  BY DEF Init
<1>2. request \in [Handlers -> RequestType]
  BY NewRequests DEF Init
<1>3. NoOrder \in OrderRow /\ NoOrder.pet = Null /\ NoOrder.user = Null /\ NoOrder.status = "none"
  BY DEF NoOrder, OrderRow, Days
<1>4. NoRecord \in RecordRow
  BY DEF NoRecord, RecordRow, Days
<1>5. TypeOK
  BY <1>2, <1>3, <1>4 DEF Init, TypeOK, Pets, Orders, Records
<1>6. ChecksStillBind
  BY <1>1, IdleBinds, BindingIsBinds
<1>7. PetlessOrderIsExplained /\ OrderIsOwners
  BY DEF Init, PetlessOrderIsExplained, OrderIsOwners
<1>8. OwnerIsAssigned /\ RecordsBelongToStay
  BY DEF Init, OwnerIsAssigned, RecordsBelongToStay
<1> QED
  BY <1>5, <1>6, <1>7, <1>8 DEF IInv

LEMMA AddPetKeeps ==
  ASSUME IInv, NEW h \in Handlers, NEW u \in Users, AddPet(h, u)
  PROVE  IInv'
<1> DEFINE n == lastPet + 1
<1> USE BoundsAssumption, IdsAssumption
<1>1. /\ users' = users /\ orders' = orders /\ lastOrder' = lastOrder
      /\ records' = records /\ lastRecord' = lastRecord /\ request' = request
      /\ reverted' = reverted /\ raced' = raced /\ transferred' = transferred
      /\ overtaken' = overtaken /\ lastPet' = n
      /\ pets' = [pets EXCEPT ![n] = u] /\ assigned' = [assigned EXCEPT ![n] = u]
  BY DEF AddPet, history
<1>2. u \in users /\ u # Null
  BY DEF AddPet
<1>3. n \in Pets /\ pets[n] = Null /\ lastPet' \in 0..MaxPets
  BY <1>1 DEF AddPet, IInv, TypeOK, Pets
<1>4. /\ \A p \in Pets : pets'[p] = IF p = n THEN u ELSE pets[p]
      /\ \A p \in Pets : assigned'[p] = IF p = n THEN u ELSE assigned[p]
      /\ pets' \in [Pets -> users \cup {Null}] /\ assigned' \in [Pets -> Users \cup {Null}]
  BY <1>1, <1>2, <1>3 DEF IInv, TypeOK
<1>5. \A p \in Pets : pets'[p] # Null => p <= lastPet'
  BY <1>1, <1>3, <1>4 DEF IInv, TypeOK, Pets
<1>6. \A o \in Orders : orders[o].pet \in Pets \cup {Null} /\ orders[o].pet # n
  BY <1>3 DEF IInv, TypeOK, OrderRow, Pets, Null
<1>7. \A o \in Orders : orders'[o].pet # Null => pets'[orders'[o].pet] # Null
  BY <1>1, <1>4, <1>6 DEF IInv, TypeOK
<1>8. TypeOK'
  BY <1>1, <1>3, <1>4, <1>5, <1>7 DEF IInv, TypeOK
<1>9. PetlessOrderIsExplained' /\ RecordsBelongToStay'
  BY <1>1 DEF IInv, PetlessOrderIsExplained, RecordsBelongToStay
<1>10. OwnerIsAssigned'
  BY <1>1, <1>4 DEF IInv, OwnerIsAssigned
<1>11. lastOrder \in 0..MaxOrders /\ \A o \in 1..lastOrder : o \in Orders
  BY DEF IInv, TypeOK, Orders
<1>12. OrderIsOwners'
  BY <1>1, <1>4, <1>6, <1>11 DEF IInv, OrderIsOwners
<1>13. ASSUME NEW q \in RequestType, Binds(q)
       PROVE  KnowsOwner(q)' /\ KnowsHistory(q)' /\ KnowsStay(q)' /\ KnowsRecord(q)'
  <2>1. KnowsOwner(q)'
    BY <1>1, <1>3, <1>4, <1>13, PendingRequests DEF Binds, KnowsOwner, Pets, IInv, TypeOK
  <2>2. KnowsHistory(q)' /\ KnowsStay(q)' /\ KnowsRecord(q)'
    BY <1>1, <1>13 DEF Binds, KnowsHistory, KnowsStay, KnowsRecord, OrdersOf
  <2> QED
    BY <2>1, <2>2
<1>14. ChecksStillBind'
  BY <1>1, <1>13, BindingStep
<1> QED
  BY <1>8, <1>9, <1>10, <1>12, <1>14 DEF IInv

\* Rows and what their keys point at.
LEMMA Rows ==
  ASSUME IInv
  PROVE  /\ Null \notin Pets /\ Null \notin Users /\ users \subseteq Users
         /\ lastOrder \in 0..MaxOrders /\ 1..lastOrder \subseteq Orders
         /\ \A o \in Orders : /\ orders[o] \in OrderRow
                              /\ orders[o].pet \in Pets \cup {Null}
                              /\ orders[o].pet # Null => pets[orders[o].pet] # Null
                              /\ orders[o].status # "none" => o \in 1..lastOrder
                              /\ o \notin 1..lastOrder => orders[o] = NoOrder
                              /\ orders[o].pet # Null => o \in 1..lastOrder
         /\ \A q \in RequestType : (\E h \in Handlers : request[h] = q) => Binds(q)
<1> USE BoundsAssumption, IdsAssumption
<1>1. Null \notin Pets /\ Null \notin Users /\ users \subseteq Users
  BY DEF Null, Pets, IInv, TypeOK
<1>2. lastOrder \in 0..MaxOrders /\ 1..lastOrder \subseteq Orders
  BY DEF IInv, TypeOK, Orders
<1>3. ASSUME NEW o \in Orders
      PROVE  /\ orders[o] \in OrderRow
             /\ orders[o].pet \in Pets \cup {Null}
             /\ orders[o].pet # Null => pets[orders[o].pet] # Null
             /\ o \notin 1..lastOrder => orders[o] = NoOrder
  BY <1>2 DEF IInv, TypeOK, Orders, OrderRow
<1>4. NoOrder.status = "none" /\ NoOrder.pet = Null
  BY DEF NoOrder
<1>5. \A q \in RequestType : (\E h \in Handlers : request[h] = q) => Binds(q)
  BY BindingIsBinds DEF IInv
<1> QED
  BY <1>1, <1>2, <1>3, <1>4, <1>5

\* A pet changes hands.
LEMMA OwnerStep ==
  ASSUME IInv, NEW h \in Handlers, WriteOwner(h),
         request[h].op \in {"keepOwner", "transfer"}
  PROVE  /\ request[h].row \in Pets /\ request[h].owner \in users
         /\ \A p \in Pets : pets'[p] = IF p = request[h].row THEN request[h].owner ELSE pets[p]
         /\ \A p \in Pets : pets'[p] # Null <=> pets[p] # Null
         /\ assigned' \in [Pets -> Users \cup {Null}] /\ reverted' \subseteq Pets => TypeOK'
         /\ PetlessOrderIsExplained' /\ OrderIsOwners' /\ RecordsBelongToStay'
         /\ \A g \in Handlers : request'[g] \in {request[g], Idle}
         /\ \A q \in RequestType :
              Binds(q) =>
                KnowsHistory(q)' /\ KnowsStay(q)' /\ KnowsRecord(q)'
<1> DEFINE p == request[h].row
           u == request[h].owner
<1>1. p \in Pets /\ u \in Users
  BY PendingRequests DEF IInv, TypeOK
<1>2. u \in users /\ u # Null /\ pets[p] # Null
  BY <1>1, Rows DEF WriteOwner
<1>3. /\ users' = users /\ lastPet' = lastPet /\ orders' = orders /\ lastOrder' = lastOrder
      /\ records' = records /\ lastRecord' = lastRecord /\ raced' = raced
      /\ overtaken' = overtaken /\ pets' = [pets EXCEPT ![p] = u]
      /\ request' = [request EXCEPT ![h] = Idle]
      /\ transferred' = transferred \cup {o \in OrdersOf(p) : u # pets[p]}
  BY DEF WriteOwner
<1> HIDE DEF p, u
<1>4. /\ \A r \in Pets : pets'[r] = IF r = p THEN u ELSE pets[r]
      /\ pets' \in [Pets -> users \cup {Null}]
  BY <1>1, <1>2, <1>3 DEF IInv, TypeOK
<1>5. \A r \in Pets : pets'[r] # Null <=> pets[r] # Null
  BY <1>2, <1>4
<1>6. request' \in [Handlers -> RequestType]
  BY <1>3, NewRequests DEF IInv, TypeOK
<1>7. \A o \in Orders : orders[o].pet # Null => pets'[orders[o].pet] # Null
  BY <1>5, Rows
<1>8. transferred' \subseteq Orders /\ transferred \subseteq transferred'
  BY <1>3 DEF IInv, TypeOK, OrdersOf
<1>9. assigned' \in [Pets -> Users \cup {Null}] /\ reverted' \subseteq Pets => TypeOK'
  BY <1>3, <1>4, <1>5, <1>6, <1>7, <1>8 DEF IInv, TypeOK
<1>10. PetlessOrderIsExplained' /\ RecordsBelongToStay'
  BY <1>3, <1>8 DEF IInv, PetlessOrderIsExplained, RecordsBelongToStay
<1>11. ASSUME NEW o \in 1..lastOrder, orders[o].pet # Null, o \notin transferred'
       PROVE  orders[o].user = pets'[orders[o].pet]
  <2>1. o \in Orders /\ orders[o].pet \in Pets /\ o \notin transferred
    BY <1>8, <1>11, Rows
  <2>2. orders[o].user = pets[orders[o].pet]
    BY <1>11, <2>1 DEF IInv, OrderIsOwners
  <2>3. CASE orders[o].pet = p
    BY <1>3, <1>4, <1>11, <2>1, <2>2, <2>3 DEF OrdersOf
  <2>4. CASE orders[o].pet # p
    BY <1>4, <2>1, <2>2, <2>4
  <2> QED
    BY <2>3, <2>4
<1>12. OrderIsOwners'
  BY <1>3, <1>11 DEF OrderIsOwners
<1>13. \A g \in Handlers : request'[g] \in {request[g], Idle}
  BY <1>3 DEF IInv, TypeOK
<1>14. \A q \in RequestType :
         Binds(q) => KnowsHistory(q)' /\ KnowsStay(q)' /\ KnowsRecord(q)'
  BY <1>3 DEF Binds, KnowsHistory, KnowsStay, KnowsRecord, OrdersOf
<1> QED
  BY <1>1, <1>2, <1>4, <1>5, <1>9, <1>10, <1>12, <1>13, <1>14 DEF p, u

LEMMA KeepOwnerKeeps ==
  ASSUME IInv, NEW h \in Handlers, KeepOwnerWrite(h)
  PROVE  IInv'
<1>1. /\ WriteOwner(h) /\ request[h].op = "keepOwner"
      /\ assigned' = assigned /\ reverted' = reverted /\ lastPet' = lastPet
  BY DEF KeepOwnerWrite, WriteOwner
<1>2. TypeOK'
  BY <1>1, OwnerStep DEF IInv, TypeOK
<1>3. request[h] \in RequestType /\ Binds(request[h])
  BY Rows DEF IInv, TypeOK
<1>4. /\ request[h].row \in Pets /\ pets[request[h].row] # Null
      /\ request[h].row \notin reverted => request[h].owner = assigned[request[h].row]
  BY <1>1, <1>3, OwnerStep DEF Binds, KnowsOwner, WriteOwner
<1>5. OwnerIsAssigned'
  BY <1>1, <1>4, OwnerStep DEF IInv, OwnerIsAssigned
<1>6. ASSUME NEW q \in RequestType, Binds(q) PROVE KnowsOwner(q)'
  BY <1>1, <1>6, OwnerStep, PendingRequests DEF Binds, KnowsOwner
<1>7. ChecksStillBind'
  BY <1>1, <1>6, OwnerStep, BindingStep
<1> QED
  BY <1>1, <1>2, <1>5, <1>7, OwnerStep DEF IInv

LEMMA TransferKeeps ==
  ASSUME IInv, NEW h \in Handlers, TransferWrite(h)
  PROVE  IInv'
<1> DEFINE p == request[h].row
<1>1. /\ WriteOwner(h) /\ request[h].op = "transfer" /\ lastPet' = lastPet
      /\ assigned' = [assigned EXCEPT ![p] = request[h].owner]
      /\ reverted' = IF Pending("keepOwner", p) THEN reverted \cup {p} ELSE reverted
  BY DEF TransferWrite, WriteOwner
<1>2. p \in Pets /\ request[h].owner \in Users
  BY <1>1, PendingRequests DEF IInv, TypeOK
<1> HIDE DEF p
<1>3. /\ reverted \subseteq reverted' /\ reverted' \subseteq Pets
      /\ assigned' \in [Pets -> Users \cup {Null}]
      /\ \A r \in Pets : assigned'[r] = IF r = p THEN request[h].owner ELSE assigned[r]
  BY <1>1, <1>2 DEF IInv, TypeOK
<1>4. TypeOK'
  BY <1>1, <1>3, OwnerStep
<1>5. OwnerIsAssigned'
  BY <1>1, <1>3, OwnerStep DEF IInv, OwnerIsAssigned, p
<1>6. ASSUME NEW q \in RequestType, Binds(q), NEW g \in Handlers, request[g] = q
      PROVE  KnowsOwner(q)'
  <2> SUFFICES ASSUME q.op = "keepOwner"
               PROVE  /\ q.row <= lastPet'
                      /\ pets'[q.row] # Null /\ q.row \notin reverted' =>
                           q.owner = assigned'[q.row]
    BY DEF KnowsOwner
  <2>1. q.row \in Pets
    BY PendingRequests
  <2>2. CASE q.row = p
    BY <1>1, <1>6, <2>1, <2>2 DEF Pending, Binds, KnowsOwner
  <2>3. CASE q.row # p
    BY <1>1, <1>3, <1>6, <2>1, <2>3, OwnerStep DEF Binds, KnowsOwner
  <2> QED
    BY <2>2, <2>3
<1>7. ChecksStillBind'
  BY <1>1, <1>6, OwnerStep, BindingStep
<1> QED
  BY <1>1, <1>4, <1>5, <1>7, OwnerStep DEF IInv

\* ON DELETE SET NULL touches the pet of an order and nothing else of it.
LEMMA BereftRows ==
  ASSUME IInv, NEW P \in SUBSET Pets
  PROVE  /\ Bereft(P) \in [Orders -> OrderRow]
         /\ \A o \in Orders :
              /\ Bereft(P)[o].pet = IF orders[o].pet \in P THEN Null ELSE orders[o].pet
              /\ Bereft(P)[o].status = orders[o].status
              /\ Bereft(P)[o].user = orders[o].user
              /\ Bereft(P)[o].start = orders[o].start
              /\ Bereft(P)[o].end = orders[o].end
              /\ o \notin 1..lastOrder => Bereft(P)[o] = NoOrder
<1>1. ASSUME NEW o \in Orders
      PROVE  /\ Bereft(P)[o] \in OrderRow
             /\ Bereft(P)[o].pet = IF orders[o].pet \in P THEN Null ELSE orders[o].pet
             /\ Bereft(P)[o].status = orders[o].status
             /\ Bereft(P)[o].user = orders[o].user
             /\ Bereft(P)[o].start = orders[o].start
             /\ Bereft(P)[o].end = orders[o].end
             /\ o \notin 1..lastOrder => Bereft(P)[o] = NoOrder
  <2>1. Bereft(P)[o] = IF orders[o].pet \in P THEN [orders[o] EXCEPT !.pet = Null] ELSE orders[o]
    BY DEF Bereft
  <2>2. orders[o] \in OrderRow /\ (o \notin 1..lastOrder => orders[o] = NoOrder)
    BY Rows
  <2>3. NoOrder.pet = Null /\ Null \notin P
    BY Rows DEF NoOrder
  <2> QED
    BY <2>1, <2>2, <2>3 DEF OrderRow
<1> QED
  BY <1>1 DEF Bereft

\* Pets go: their orders stay, without them.
LEMMA PetsGo ==
  ASSUME IInv, NEW P \in SUBSET Pets,
         pets' = [p \in Pets |-> IF p \in P THEN Null ELSE pets[p]],
         orders' = Bereft(P),
         UNCHANGED <<lastPet, lastOrder, records, lastRecord, history>>,
         \A g \in Handlers : request'[g] \in {request[g], Idle},
         request' \in [Handlers -> RequestType],
         users' \subseteq users,
         \A p \in Pets \ P : pets[p] \in users' \cup {Null},
         \A o \in 1..lastOrder : orders[o].user \in users',
         \A o \in 1..lastOrder : orders[o].pet \in P => o \in raced \cup transferred
  PROVE  IInv'
<1>1. /\ lastPet' = lastPet /\ lastOrder' = lastOrder
      /\ records' = records /\ lastRecord' = lastRecord
      /\ assigned' = assigned /\ reverted' = reverted /\ raced' = raced
      /\ transferred' = transferred /\ overtaken' = overtaken
  BY DEF history
<1>2. /\ \A p \in Pets : pets'[p] = IF p \in P THEN Null ELSE pets[p]
      /\ pets' \in [Pets -> users' \cup {Null}]
  OBVIOUS
<1>3. /\ orders' \in [Orders -> OrderRow]
      /\ \A o \in Orders :
           /\ orders'[o].pet = IF orders[o].pet \in P THEN Null ELSE orders[o].pet
           /\ orders'[o].status = orders[o].status
           /\ orders'[o].user = orders[o].user
           /\ orders'[o].start = orders[o].start
           /\ orders'[o].end = orders[o].end
           /\ o \notin 1..lastOrder => orders'[o] = NoOrder
  BY BereftRows
<1>4. /\ 1..lastOrder \subseteq Orders /\ lastOrder \in Nat
      /\ \A o \in 1..lastOrder : orders[o].status # "none"
  BY Rows DEF IInv, TypeOK
<1>5. \A o \in Orders : IF o > lastOrder THEN orders'[o] = NoOrder
                        ELSE orders'[o].status # "none" /\ orders'[o].user \in users'
  BY <1>3, <1>4, BoundsAssumption DEF Orders
<1>6. \A o \in Orders : orders'[o].pet # Null => pets'[orders'[o].pet] # Null
  BY <1>2, <1>3, Rows
<1>7. TypeOK'
  <2>1. users' \subseteq Users /\ lastPet' \in 0..MaxPets
    BY <1>1, Rows DEF IInv, TypeOK
  <2>2. \A p \in Pets : pets'[p] # Null => p <= lastPet'
    BY <1>1, <1>2 DEF IInv, TypeOK
  <2> QED
    BY <1>1, <1>2, <1>3, <1>5, <1>6, <2>1, <2>2 DEF IInv, TypeOK
<1>8. PetlessOrderIsExplained'
  BY <1>1, <1>3, <1>4 DEF IInv, PetlessOrderIsExplained
<1>9. OrderIsOwners'
  BY <1>1, <1>2, <1>3, <1>4, Rows DEF IInv, OrderIsOwners
<1>10. OwnerIsAssigned'
  BY <1>1, <1>2 DEF IInv, OwnerIsAssigned
<1>11. \A x \in Records : records[x] # NoRecord => records[x].order \in Orders
  BY Rows DEF IInv, TypeOK
<1>12. RecordsBelongToStay'
  BY <1>1, <1>3, <1>11 DEF IInv, RecordsBelongToStay
<1>13. ASSUME NEW q \in RequestType, Binds(q)
       PROVE  KnowsOwner(q)' /\ KnowsHistory(q)' /\ KnowsStay(q)' /\ KnowsRecord(q)'
  <2>1. KnowsOwner(q)'
    BY <1>1, <1>2, <1>13, PendingRequests DEF Binds, KnowsOwner
  <2>2. KnowsHistory(q)'
    BY <1>1, <1>3, <1>13, PendingRequests, Rows DEF Binds, KnowsHistory, OrdersOf
  <2>3. KnowsStay(q)'
    BY <1>1, <1>3, <1>13, PendingRequests DEF Binds, KnowsStay
  <2>4. KnowsRecord(q)'
    BY <1>1, <1>3, <1>11, <1>13, PendingRequests DEF Binds, KnowsRecord
  <2> QED
    BY <2>1, <2>2, <2>3, <2>4
<1>14. ChecksStillBind'
  BY <1>13, BindingStep
<1> QED
  BY <1>7, <1>8, <1>9, <1>10, <1>12, <1>14 DEF IInv

LEMMA DeletePetKeeps ==
  ASSUME IInv, NEW h \in Handlers, DeletePetWrite(h)
  PROVE  IInv'
<1> DEFINE p == request[h].row
<1>1. /\ request[h].op = "deletePet" /\ users' = users
      /\ pets' = [pets EXCEPT ![p] = Null] /\ orders' = Bereft({p})
      /\ request' = [request EXCEPT ![h] = Idle]
      /\ UNCHANGED <<lastPet, lastOrder, records, lastRecord, history>>
  BY DEF DeletePetWrite
<1>2. request[h] \in RequestType /\ Binds(request[h])
  BY Rows DEF IInv, TypeOK
<1>3. p \in Pets /\ OrdersOf(p) \subseteq raced
  BY <1>1, <1>2, PendingRequests DEF Binds, KnowsHistory
<1> HIDE DEF p
<1>4. pets' = [r \in Pets |-> IF r \in {p} THEN Null ELSE pets[r]]
  BY <1>1, <1>3 DEF IInv, TypeOK
<1>5. request' \in [Handlers -> RequestType] /\ \A g \in Handlers : request'[g] \in {request[g], Idle}
  BY <1>1, NewRequests DEF IInv, TypeOK
<1>6. \A r \in Pets : pets[r] \in users' \cup {Null}
  BY <1>1 DEF IInv, TypeOK
<1>7. \A o \in 1..lastOrder : /\ orders[o].user \in users'
                              /\ orders[o].pet \in {p} => o \in raced \cup transferred
  BY <1>1, <1>3, Rows DEF IInv, TypeOK, OrdersOf
<1> QED
  BY <1>1, <1>3, <1>4, <1>5, <1>6, <1>7, PetsGo

LEMMA DeleteUserKeeps ==
  ASSUME IInv, NEW h \in Handlers, NEW u \in Users, DeleteUser(h, u)
  PROVE  IInv'
<1> DEFINE gone == {p \in Pets : pets[p] = u}
<1>1. /\ HasPlacedNothing(u) /\ users' = users \ {u}
      /\ pets' = [p \in Pets |-> IF p \in gone THEN Null ELSE pets[p]]
      /\ orders' = Bereft(gone) /\ request' = request
      /\ UNCHANGED <<lastPet, lastOrder, records, lastRecord, history>>
  BY DEF DeleteUser
<1>2. gone \in SUBSET Pets /\ \A p \in Pets : p \in gone <=> pets[p] = u
  OBVIOUS
<1> HIDE DEF gone
<1>3. \A p \in Pets \ gone : pets[p] \in users' \cup {Null}
  BY <1>1, <1>2 DEF IInv, TypeOK
<1>4. \A o \in 1..lastOrder : orders[o].user \in users'
  BY <1>1, Rows DEF IInv, TypeOK, HasPlacedNothing
<1>5. ASSUME NEW o \in 1..lastOrder, orders[o].pet \in gone
      PROVE  o \in raced \cup transferred
  <2>1. o \in Orders /\ orders[o].pet \in Pets /\ pets[orders[o].pet] = u /\ orders[o].pet # Null
    BY <1>2, <1>5, Rows
  <2>2. orders[o].user # u
    BY <1>1, <2>1 DEF HasPlacedNothing
  <2> QED
    BY <2>1, <2>2 DEF IInv, OrderIsOwners
<1>6. request' \in [Handlers -> RequestType] /\ \A g \in Handlers : request'[g] \in {request[g], Idle}
  BY <1>1 DEF IInv, TypeOK
<1> QED
  BY <1>1, <1>2, <1>3, <1>4, <1>5, <1>6, PetsGo

----------------------------------------------------------------------------
\* Orders.

LEMMA CreateOrderKeeps ==
  ASSUME IInv, NEW h \in Handlers, NEW p \in Pets, NEW start \in Days, NEW end \in Days,
         CreateOrder(h, p, start, end)
  PROVE  IInv'
<1> DEFINE n == lastOrder + 1
           row == [status |-> "PENDING", pet |-> p, user |-> pets[p], start |-> start, end |-> end]
<1> USE BoundsAssumption
<1>1. /\ users' = users /\ pets' = pets /\ lastPet' = lastPet
      /\ records' = records /\ lastRecord' = lastRecord /\ request' = request
      /\ assigned' = assigned /\ reverted' = reverted
      /\ transferred' = transferred /\ overtaken' = overtaken
      /\ lastOrder' = n /\ orders' = [orders EXCEPT ![n] = row]
      /\ raced' = IF Pending("deletePet", p) THEN raced \cup {n} ELSE raced
      /\ pets[p] # Null /\ lastOrder < MaxOrders
  BY DEF CreateOrder
<1>2. pets[p] \in users /\ pets[p] \in Users /\ lastOrder \in Nat
  BY <1>1, Rows DEF IInv, TypeOK
<1>3. /\ row \in OrderRow /\ row.pet = p /\ row.user = pets[p] /\ row.status # "none" /\ p # Null
  BY <1>2, Rows DEF OrderRow, OrderStatuses
<1> HIDE DEF row
<1>4. n \in Orders /\ n \notin 1..lastOrder /\ lastOrder' \in 0..MaxOrders
  BY <1>1, <1>2 DEF Orders
<1>5. /\ orders[n].status = "none" /\ orders[n].pet = Null
  BY <1>4, Rows DEF NoOrder
<1>6. /\ \A o \in Orders : orders'[o] = IF o = n THEN row ELSE orders[o]
      /\ orders' \in [Orders -> OrderRow]
  BY <1>1, <1>3, <1>4 DEF IInv, TypeOK
<1>7. raced \subseteq raced' /\ raced' \subseteq Orders
  BY <1>1, <1>4 DEF IInv, TypeOK
<1>8. \A o \in 1..lastOrder' : o \in Orders /\ (o = n \/ o \in 1..lastOrder)
  BY <1>1, <1>2, <1>4 DEF Orders
<1>9. TypeOK'
  <2>1. \A o \in Orders : IF o > lastOrder' THEN orders'[o] = NoOrder
                          ELSE orders'[o].status # "none" /\ orders'[o].user \in users'
    <3> SUFFICES ASSUME NEW o \in Orders
                 PROVE  IF o > lastOrder' THEN orders'[o] = NoOrder
                        ELSE orders'[o].status # "none" /\ orders'[o].user \in users'
      OBVIOUS
    <3>1. CASE o = n
      BY <1>1, <1>2, <1>3, <1>6, <3>1
    <3>2. CASE o # n
      <4>1. orders'[o] = orders[o]
        BY <1>6, <3>2
      <4>2. o > lastOrder' <=> o > lastOrder
        BY <1>1, <1>2, <3>2 DEF Orders
      <4> QED
        BY <1>1, <4>1, <4>2 DEF IInv, TypeOK
    <3> QED
      BY <3>1, <3>2
  <2>2. \A o \in Orders : orders'[o].pet # Null => pets'[orders'[o].pet] # Null
    BY <1>1, <1>3, <1>6, Rows
  <2>3. \A x \in Records : records[x] # NoRecord => records[x].order \in 1..lastOrder'
    BY <1>1, <1>2 DEF IInv, TypeOK
  <2> QED
    BY <1>1, <1>4, <1>6, <1>7, <2>1, <2>2, <2>3 DEF IInv, TypeOK
<1>10. PetlessOrderIsExplained'
  BY <1>1, <1>3, <1>6, <1>7, <1>8 DEF IInv, PetlessOrderIsExplained
<1>11. OrderIsOwners'
  BY <1>1, <1>3, <1>6, <1>8 DEF IInv, OrderIsOwners
<1>12. OwnerIsAssigned'
  BY <1>1 DEF IInv, OwnerIsAssigned
<1>13. \A x \in Records : records[x] # NoRecord => /\ records[x].order \in 1..lastOrder
                                                    /\ records[x].order \in Orders
                                                    /\ records[x].order # n
  BY <1>4, Rows DEF IInv, TypeOK
<1>14. RecordsBelongToStay'
  BY <1>1, <1>6, <1>13 DEF IInv, RecordsBelongToStay
<1>15. ASSUME NEW q \in RequestType, Binds(q), NEW g \in Handlers, request[g] = q
       PROVE  KnowsOwner(q)' /\ KnowsHistory(q)' /\ KnowsStay(q)' /\ KnowsRecord(q)'
  <2>1. KnowsOwner(q)'
    BY <1>1, <1>15 DEF Binds, KnowsOwner
  <2>2. KnowsHistory(q)'
    BY <1>1, <1>3, <1>6, <1>7, <1>15, PendingRequests
    DEF Binds, KnowsHistory, OrdersOf, Pending
  <2>3. KnowsStay(q)'
    BY <1>1, <1>5, <1>6, <1>15, PendingRequests DEF Binds, KnowsStay
  <2>4. KnowsRecord(q)'
    BY <1>1, <1>6, <1>13, <1>15, PendingRequests DEF Binds, KnowsRecord
  <2> QED
    BY <2>1, <2>2, <2>3, <2>4
<1>16. ChecksStillBind'
  BY <1>1, <1>15, BindingStep
<1> QED
  BY <1>9, <1>10, <1>11, <1>12, <1>14, <1>16 DEF IInv

LEMMA UpdateOrderStatusKeeps ==
  ASSUME IInv, NEW h \in Handlers, NEW o \in Orders, NEW next \in OrderStatuses,
         UpdateOrderStatus(h, o, next)
  PROVE  IInv'
<1>1. /\ users' = users /\ pets' = pets /\ lastPet' = lastPet /\ lastOrder' = lastOrder
      /\ records' = records /\ lastRecord' = lastRecord /\ request' = request
      /\ assigned' = assigned /\ reverted' = reverted /\ raced' = raced
      /\ transferred' = transferred /\ MayMove(orders[o].status, next)
      /\ orders' = [orders EXCEPT ![o].status = next]
      /\ overtaken' = IF WritingRecordOf(o) THEN overtaken \cup {o} ELSE overtaken
  BY DEF UpdateOrderStatus
<1>2. /\ orders[o].status \in {"PENDING", "CONFIRMED", "IN_PROGRESS"} /\ next # "none"
      /\ orders[o].status = "IN_PROGRESS" => next = "COMPLETED"
  BY <1>1 DEF MayMove, OrderMoves, OrderStatuses
<1>3. orders[o] \in OrderRow /\ o \in 1..lastOrder
  BY <1>2, Rows
<1>4. /\ orders' \in [Orders -> OrderRow]
      /\ \A i \in Orders :
           /\ orders'[i].status = IF i = o THEN next ELSE orders[i].status
           /\ orders'[i].pet = orders[i].pet
           /\ orders'[i].user = orders[i].user
           /\ orders'[i].start = orders[i].start
           /\ orders'[i].end = orders[i].end
           /\ i # o => orders'[i] = orders[i]
  BY <1>1, <1>3, Rows DEF IInv, TypeOK, OrderRow
<1>5. overtaken \subseteq overtaken' /\ overtaken' \subseteq Orders
  BY <1>1 DEF IInv, TypeOK
<1>6. lastOrder \in Nat /\ 1..lastOrder \subseteq Orders
  BY Rows
<1>7. \A i \in Orders : IF i > lastOrder THEN orders'[i] = NoOrder
                        ELSE orders'[i].status # "none" /\ orders'[i].user \in users
  BY <1>2, <1>3, <1>4, <1>6 DEF IInv, TypeOK, Orders
<1>8. \A i \in Orders : orders'[i].pet # Null => pets[orders'[i].pet] # Null
  BY <1>4, Rows
<1>9. TypeOK'
  BY <1>1, <1>4, <1>5, <1>7, <1>8 DEF IInv, TypeOK
<1>10. PetlessOrderIsExplained' /\ OrderIsOwners'
  BY <1>1, <1>4, <1>6 DEF IInv, PetlessOrderIsExplained, OrderIsOwners
<1>11. OwnerIsAssigned'
  BY <1>1 DEF IInv, OwnerIsAssigned
<1>12. \A x \in Records : records[x] # NoRecord => records[x].order \in Orders
  BY <1>6 DEF IInv, TypeOK
<1>13. RecordsBelongToStay'
  BY <1>1, <1>2, <1>4, <1>12 DEF IInv, RecordsBelongToStay
<1>14. ASSUME NEW q \in RequestType, Binds(q), NEW g \in Handlers, request[g] = q
       PROVE  KnowsOwner(q)' /\ KnowsHistory(q)' /\ KnowsStay(q)' /\ KnowsRecord(q)'
  <2>1. KnowsOwner(q)'
    BY <1>1, <1>14 DEF Binds, KnowsOwner
  <2>2. KnowsHistory(q)'
    BY <1>1, <1>4, <1>14 DEF Binds, KnowsHistory, OrdersOf
  <2>3. KnowsStay(q)'
    <3> SUFFICES ASSUME q.op = "addRecord"
                 PROVE  /\ orders'[q.row].status \in {"IN_PROGRESS", "COMPLETED"}
                        /\ orders'[q.row].status = "IN_PROGRESS" \/ q.row \in overtaken'
                        /\ q.date \in orders'[q.row].start..orders'[q.row].end
      BY DEF KnowsStay
    <3>1. CASE q.row = o
      <4>1. o \in overtaken'
        BY <1>1, <1>14, <3>1 DEF WritingRecordOf
      <4> QED
        BY <1>2, <1>4, <1>14, <3>1, <4>1 DEF Binds, KnowsStay
    <3>2. CASE q.row # o
      BY <1>4, <1>5, <1>14, <3>2, PendingRequests DEF Binds, KnowsStay
    <3> QED
      BY <3>1, <3>2
  <2>4. KnowsRecord(q)'
    <3> SUFFICES ASSUME q.op = "updateRecord", records[q.row] # NoRecord
                 PROVE  LET i == records[q.row].order IN
                        /\ orders'[i].status = "IN_PROGRESS" \/ i \in overtaken'
                        /\ q.date \in orders'[i].start..orders'[i].end
      BY <1>1, <1>14 DEF Binds, KnowsRecord
    <3>1. q.row \in Records /\ records[q.row].order \in Orders
      BY <1>12, PendingRequests
    <3>2. CASE records[q.row].order = o
      <4>1. o \in overtaken'
        BY <1>1, <1>14, <3>2 DEF WritingRecordOf
      <4> QED
        BY <1>4, <1>14, <3>2, <4>1 DEF Binds, KnowsRecord
    <3>3. CASE records[q.row].order # o
      BY <1>4, <1>5, <1>14, <3>1, <3>3 DEF Binds, KnowsRecord
    <3> QED
      BY <3>2, <3>3
  <2> QED
    BY <2>1, <2>2, <2>3, <2>4
<1>15. ChecksStillBind'
  BY <1>1, <1>14, BindingStep
<1> QED
  BY <1>9, <1>10, <1>11, <1>13, <1>15 DEF IInv

----------------------------------------------------------------------------
\* Records.

\* Record x gets the row `row`, of a day of its stay.
LEMMA RecordStep ==
  ASSUME IInv, NEW x \in Records, NEW row \in RecordRow,
         records' = [records EXCEPT ![x] = row],
         lastRecord' \in {lastRecord, x}, x <= lastRecord', lastRecord <= lastRecord',
         UNCHANGED <<users, pets, lastPet, orders, lastOrder, history>>,
         request' \in [Handlers -> RequestType],
         \A g \in Handlers : request'[g] \in {request[g], Idle},
         row # NoRecord =>
           /\ row.order \in 1..lastOrder
           /\ orders[row.order].status \in {"IN_PROGRESS", "COMPLETED"}
           /\ row.date \in orders[row.order].start..orders[row.order].end,
         \/ row = NoRecord
         \/ x = lastRecord + 1
         \/ records[x] # NoRecord /\ row.order = records[x].order
  PROVE  IInv'
<1> USE BoundsAssumption
<1>1. /\ users' = users /\ pets' = pets /\ lastPet' = lastPet /\ orders' = orders
      /\ lastOrder' = lastOrder /\ assigned' = assigned /\ reverted' = reverted
      /\ raced' = raced /\ transferred' = transferred /\ overtaken' = overtaken
  BY DEF history
<1>2. /\ \A y \in Records : records'[y] = IF y = x THEN row ELSE records[y]
      /\ records' \in [Records -> RecordRow]
  BY DEF IInv, TypeOK
<1>3. lastRecord \in Nat /\ lastRecord' \in 0..MaxRecords
  BY DEF IInv, TypeOK, Records
<1>4. \A y \in Records : y > lastRecord' => records'[y] = NoRecord
  BY <1>2, <1>3 DEF IInv, TypeOK, Records
<1>5. \A y \in Records : records'[y] # NoRecord => records'[y].order \in 1..lastOrder
  BY <1>2 DEF IInv, TypeOK
<1>6. TypeOK'
  BY <1>1, <1>2, <1>3, <1>4, <1>5 DEF IInv, TypeOK
<1>7. PetlessOrderIsExplained' /\ OrderIsOwners' /\ OwnerIsAssigned'
  BY <1>1 DEF IInv, PetlessOrderIsExplained, OrderIsOwners, OwnerIsAssigned
<1>8. RecordsBelongToStay'
  BY <1>1, <1>2 DEF IInv, RecordsBelongToStay
<1>9. ASSUME NEW q \in RequestType, Binds(q)
      PROVE  KnowsOwner(q)' /\ KnowsHistory(q)' /\ KnowsStay(q)' /\ KnowsRecord(q)'
  <2>1. KnowsOwner(q)' /\ KnowsHistory(q)' /\ KnowsStay(q)'
    BY <1>1, <1>9 DEF Binds, KnowsOwner, KnowsHistory, KnowsStay, OrdersOf
  <2>2. ASSUME q.op = "updateRecord" PROVE KnowsRecord(q)'
    <3>1. q.row \in Records /\ q.row <= lastRecord
      BY <1>9, <2>2, PendingRequests DEF Binds, KnowsRecord
    <3>2. q.row <= lastRecord'
      BY <1>3, <3>1 DEF Records
    <3>3. CASE q.row # x
      BY <1>1, <1>2, <1>9, <2>2, <3>1, <3>2, <3>3 DEF Binds, KnowsRecord
    <3>4. CASE q.row = x
      <4>1. x # lastRecord + 1
        BY <1>3, <3>1, <3>4 DEF Records
      <4> QED
        BY <1>1, <1>2, <1>9, <2>2, <3>1, <3>2, <3>4, <4>1 DEF Binds, KnowsRecord
    <3> QED
      BY <3>3, <3>4
  <2> QED
    BY <2>1, <2>2 DEF KnowsRecord
<1>10. ChecksStillBind'
  BY <1>9, BindingStep
<1> QED
  BY <1>6, <1>7, <1>8, <1>10 DEF IInv

LEMMA AddRecordKeeps ==
  ASSUME IInv, NEW h \in Handlers, AddRecordWrite(h)
  PROVE  /\ IInv'
         /\ LET o == request[h].row IN
            /\ \A x \in Records : records'[x] \in {records[x], [order |-> o, date |-> request[h].date]}
            /\ orders[o].status = "IN_PROGRESS" \/ o \in overtaken
<1> DEFINE x == lastRecord + 1
           o == request[h].row
           row == [order |-> o, date |-> request[h].date]
<1>1. /\ request[h].op = "addRecord" /\ lastRecord < MaxRecords /\ lastRecord' = x
      /\ records' = [records EXCEPT ![x] = row]
      /\ request' = [request EXCEPT ![h] = Idle]
      /\ UNCHANGED <<users, pets, lastPet, orders, lastOrder, history>>
  BY DEF AddRecordWrite
<1>2. request[h] \in RequestType /\ Binds(request[h])
  BY Rows DEF IInv, TypeOK
<1>3. /\ o \in Orders /\ request[h].date \in Days
      /\ orders[o].status \in {"IN_PROGRESS", "COMPLETED"}
      /\ orders[o].status = "IN_PROGRESS" \/ o \in overtaken
      /\ request[h].date \in orders[o].start..orders[o].end
  BY <1>1, <1>2, PendingRequests DEF Binds, KnowsStay
<1>4. row \in RecordRow /\ row.order = o /\ row.date = request[h].date
  BY <1>3 DEF RecordRow
<1>5. o \in 1..lastOrder
  BY <1>3, Rows
<1>6. x \in Records /\ lastRecord <= lastRecord' /\ x <= lastRecord'
  BY <1>1, BoundsAssumption DEF IInv, TypeOK, Records
<1>7. request' \in [Handlers -> RequestType] /\ \A g \in Handlers : request'[g] \in {request[g], Idle}
  BY <1>1, NewRequests DEF IInv, TypeOK
<1>8. x = lastRecord + 1
  OBVIOUS
<1>9. \A y \in Records : records'[y] \in {records[y], row}
  BY <1>1 DEF IInv, TypeOK
<1>10. IInv'
  <2> HIDE DEF x, row, o
  <2> QED
    BY <1>1, <1>3, <1>4, <1>5, <1>6, <1>7, <1>8, RecordStep
<1> QED
  BY <1>3, <1>9, <1>10

LEMMA UpdateRecordKeeps ==
  ASSUME IInv, NEW h \in Handlers, UpdateRecordWrite(h)
  PROVE  /\ IInv'
         /\ \A x \in Records :
              records'[x] = records[x] \/
                LET o == records'[x].order IN
                orders[o].status = "IN_PROGRESS" \/ o \in overtaken
<1> DEFINE x == request[h].row
           d == request[h].date
           row == [records[x] EXCEPT !.date = d]
<1>1. /\ request[h].op = "updateRecord" /\ records[x] # NoRecord
      /\ records' = [records EXCEPT ![x] = row]
      /\ request' = [request EXCEPT ![h] = Idle] /\ lastRecord' = lastRecord
      /\ UNCHANGED <<users, pets, lastPet, orders, lastOrder, history>>
  BY DEF UpdateRecordWrite
<1>2. request[h] \in RequestType /\ Binds(request[h])
  BY Rows DEF IInv, TypeOK
<1>3. /\ x \in Records /\ d \in Days /\ x <= lastRecord
      /\ orders[records[x].order].status = "IN_PROGRESS" \/ records[x].order \in overtaken
      /\ d \in orders[records[x].order].start..orders[records[x].order].end
  BY <1>1, <1>2, PendingRequests DEF Binds, KnowsRecord
<1>4. /\ records[x] \in RecordRow /\ records[x].order \in 1..lastOrder
      /\ orders[records[x].order].status \in {"IN_PROGRESS", "COMPLETED"}
  BY <1>1, <1>3 DEF IInv, TypeOK, RecordsBelongToStay
<1>5. row \in RecordRow /\ row.order = records[x].order /\ row.date = d
  BY <1>3, <1>4 DEF RecordRow
<1>6. lastRecord <= lastRecord' /\ x <= lastRecord'
  BY <1>1, <1>3 DEF IInv, TypeOK
<1>7. request' \in [Handlers -> RequestType] /\ \A g \in Handlers : request'[g] \in {request[g], Idle}
  BY <1>1, NewRequests DEF IInv, TypeOK
<1>8. \A y \in Records : records'[y] = records[y] \/ (y = x /\ records'[y] = row)
  BY <1>1 DEF IInv, TypeOK
<1>9. IInv'
  <2> HIDE DEF x, row, d
  <2> QED
    BY <1>1, <1>3, <1>4, <1>5, <1>6, <1>7, RecordStep
<1> QED
  BY <1>3, <1>5, <1>8, <1>9

LEMMA DeleteRecordKeeps ==
  ASSUME IInv, NEW h \in Handlers, NEW x \in Records, DeleteRecord(h, x)
  PROVE  IInv'
<1>1. /\ records[x] # NoRecord /\ records' = [records EXCEPT ![x] = NoRecord]
      /\ lastRecord' = lastRecord /\ request' = request
      /\ UNCHANGED <<users, pets, lastPet, orders, lastOrder, history>>
  BY DEF DeleteRecord
<1>2. x <= lastRecord' /\ lastRecord <= lastRecord' /\ lastRecord' \in {lastRecord, x}
  BY <1>1, BoundsAssumption DEF IInv, TypeOK, Records
<1>3. NoRecord \in RecordRow
  BY BoundsAssumption DEF NoRecord, RecordRow, Days
<1>4. request' \in [Handlers -> RequestType] /\ \A g \in Handlers : request'[g] \in {request[g], Idle}
  BY <1>1 DEF IInv, TypeOK
<1> QED
  BY <1>1, <1>2, <1>3, <1>4, RecordStep

----------------------------------------------------------------------------
\* The theorems.

LEMMA NextInvariant == IInv /\ [Next]_vars => IInv'
<1> SUFFICES ASSUME IInv, [Next]_vars PROVE IInv'
  OBVIOUS
<1>1. ASSUME NEW h \in Handlers, PetRequest(h) PROVE IInv'
  BY <1>1, AddPetKeeps, DeleteUserKeeps, RequestKeeps, KeepOwnerKeeps, TransferKeeps,
     DeletePetKeeps DEF PetRequest
<1>2. ASSUME NEW h \in Handlers, OrderRequest(h) PROVE IInv'
  BY <1>2, CreateOrderKeeps, UpdateOrderStatusKeeps DEF OrderRequest
<1>3. ASSUME NEW h \in Handlers, RecordRequest(h) PROVE IInv'
  BY <1>3, RequestKeeps, AddRecordKeeps, UpdateRecordKeeps, DeleteRecordKeeps DEF RecordRequest
<1>4. ASSUME NEW h \in Handlers, Abandon(h) PROVE IInv'
  BY <1>4, RequestKeeps
<1>5. CASE UNCHANGED vars
  <2>1. /\ users' = users /\ pets' = pets /\ lastPet' = lastPet /\ orders' = orders
        /\ lastOrder' = lastOrder /\ records' = records /\ lastRecord' = lastRecord
        /\ request' = request /\ assigned' = assigned /\ reverted' = reverted
        /\ raced' = raced /\ transferred' = transferred /\ overtaken' = overtaken
    BY <1>5 DEF vars
  <2> QED
    BY <2>1 DEF IInv, TypeOK, PetlessOrderIsExplained, OrderIsOwners, OwnerIsAssigned,
       RecordsBelongToStay, ChecksStillBind, KnowsOwner, KnowsHistory, KnowsStay,
       KnowsRecord, OrdersOf
<1> QED
  BY <1>1, <1>2, <1>3, <1>4, <1>5 DEF Next

\* The inductive invariant holds throughout.
THEOREM Invariance == Spec => []IInv
<1>1. Init => IInv
  BY InitInvariant
<1>2. IInv /\ [Next]_vars => IInv'
  BY NextInvariant
<1> QED
  BY <1>1, <1>2, PTL DEF Spec

\* Rows keep their columns and every foreign key of pets, foster_orders and
\* daily_records points at a row, whatever requests run together (store.go's keys).
THEOREM TypeCorrect == Spec => []TypeOK
<1>1. IInv => TypeOK
  BY DEF IInv
<1> QED
  BY <1>1, Invariance, PTL

\* An order is without its pet only if it was placed between the COUNT and the DELETE
\* of a DeletePet, or its pet was given away and went with the account of its new owner.
THEOREM OrdersKeepPets == Spec => []PetlessOrderIsExplained
<1>1. IInv => PetlessOrderIsExplained
  BY DEF IInv
<1> QED
  BY <1>1, Invariance, PTL

\* A pet is its last assigned owner's unless an UpdatePet that raced with the transfer
\* wrote the owner it had read before.
THEOREM PetsStayAssigned == Spec => []OwnerIsAssigned
<1>1. IInv => OwnerIsAssigned
  BY DEF IInv
<1> QED
  BY <1>1, Invariance, PTL

\* A record is of a stay that began and of one of its days, although AddRecord and
\* UpdateRecord read the order before they write.
THEOREM RecordsOfStays == Spec => []RecordsBelongToStay
<1>1. IInv => RecordsBelongToStay
  BY DEF IInv
<1> QED
  BY <1>1, Invariance, PTL

\* A finished stay gets a record, or another date for one, only from a request that
\* found it still in progress.
THEOREM LateWrites == Spec => LateWriteIsOvertaken
<1> DEFINE Late ==
      \A x \in Records :
        records'[x] \notin {records[x], NoRecord} =>
          LET o == records'[x].order IN
          orders[o].status = "IN_PROGRESS" \/ o \in overtaken
<1>1. IInv /\ [Next]_vars => [Late]_vars
  <2> SUFFICES ASSUME IInv, Next PROVE Late
    OBVIOUS
  <2>1. PICK h \in Handlers : PetRequest(h) \/ OrderRequest(h) \/ RecordRequest(h) \/ Abandon(h)
    BY DEF Next
  <2>2. CASE AddRecordWrite(h)
    BY <2>2, AddRecordKeeps
  <2>3. CASE UpdateRecordWrite(h)
    BY <2>3, UpdateRecordKeeps
  <2>4. ASSUME NEW x \in Records, DeleteRecord(h, x) PROVE Late
    BY <2>4 DEF DeleteRecord, IInv, TypeOK
  <2>5. CASE records' = records
    BY <2>5
  <2>6. CASE PetRequest(h) \/ OrderRequest(h) \/ Abandon(h)
    BY <2>5, <2>6
    DEF PetRequest, OrderRequest, Abandon, AddPet, DeleteUser, KeepOwnerRead, TransferRead,
        DeletePetCheck, KeepOwnerWrite, TransferWrite, WriteOwner, DeletePetWrite, CreateOrder,
        UpdateOrderStatus
  <2> QED
    BY <2>1, <2>2, <2>3, <2>4, <2>5, <2>6 DEF RecordRequest, AddRecordCheck, UpdateRecordCheck
<1>2. Spec => [][Late]_vars
  BY <1>1, Invariance, PTL DEF Spec
<1> QED
  BY <1>2 DEF LateWriteIsOvertaken

----------------------------------------------------------------------------
\* One request at a time.

\* Nothing is raced, reverted or overtaken.
Undisturbed == raced = {} /\ reverted = {} /\ overtaken = {}

\* A step that would add to one of them finds no other request waiting to write.
LEMMA UndisturbedStep ==
  ASSUME \A g, h \in Handlers : g = h, Undisturbed, [Next]_vars
  PROVE  Undisturbed'
<1> USE DEF Undisturbed
<1>a. ASSUME NEW h \in Handlers, IsIdle(h)
      PROVE  /\ \A op, row : op # "idle" => ~Pending(op, row)
             /\ \A o : ~WritingRecordOf(o)
  BY <1>a DEF IsIdle, Idle, Holds, Pending, WritingRecordOf
<1>1. ASSUME NEW h \in Handlers, NEW p \in Pets, NEW start \in Days, NEW end \in Days,
             CreateOrder(h, p, start, end)
      PROVE  Undisturbed'
  BY <1>1, <1>a DEF CreateOrder
<1>2. ASSUME NEW h \in Handlers, NEW o \in Orders, NEW next \in OrderStatuses,
             UpdateOrderStatus(h, o, next)
      PROVE  Undisturbed'
  BY <1>2, <1>a DEF UpdateOrderStatus
<1>3. ASSUME NEW h \in Handlers, TransferWrite(h)
      PROVE  Undisturbed'
  <2>1. ~Pending("keepOwner", request[h].row)
    BY <1>3 DEF TransferWrite, Pending
  <2> QED
    BY <1>3, <2>1 DEF TransferWrite, WriteOwner
<1>4. ASSUME NEW h \in Handlers, RecordRequest(h) \/ Abandon(h)
      PROVE  Undisturbed'
  BY <1>4 DEF RecordRequest, Abandon, AddRecordCheck, AddRecordWrite, UpdateRecordCheck,
     UpdateRecordWrite, DeleteRecord, history
<1>5. ASSUME NEW h \in Handlers, PetRequest(h)
      PROVE  Undisturbed'
  BY <1>3, <1>5 DEF PetRequest, AddPet, DeleteUser, KeepOwnerRead, TransferRead, DeletePetCheck,
     KeepOwnerWrite, WriteOwner, DeletePetWrite, history
<1>6. CASE UNCHANGED vars
  BY <1>6 DEF vars
<1> QED
  BY <1>1, <1>2, <1>4, <1>5, <1>6 DEF Next, OrderRequest

LEMMA SerialInvariance ==
  ASSUME \A g, h \in Handlers : g = h
  PROVE  Spec => [](IInv /\ Undisturbed)
<1>1. Init => IInv /\ Undisturbed
  BY InitInvariant DEF Init, Undisturbed
<1>2. (IInv /\ Undisturbed) /\ [Next]_vars => (IInv /\ Undisturbed)'
  BY NextInvariant, UndisturbedStep
<1> QED
  BY <1>1, <1>2, PTL DEF Spec

\* With one request served at a time an order keeps its pet unless the pet was given
\* away, and a pet is whose it was given to last: the races are the only other cause
\* (DeletePet, UpdatePet).
THEOREM SerialCustody ==
  ASSUME \A g, h \in Handlers : g = h
  PROVE  Spec => [](OrderKeepsPet /\ PetIsWhereAssigned)
<1>1. IInv /\ Undisturbed => OrderKeepsPet /\ PetIsWhereAssigned
  BY DEF IInv, Undisturbed, PetlessOrderIsExplained, OwnerIsAssigned, OrderKeepsPet,
         PetIsWhereAssigned
<1> QED
  BY <1>1, SerialInvariance, PTL

\* With one request served at a time no record of a finished stay is added or changed
\* (AddRecord, UpdateRecord).
THEOREM SerialRecords ==
  ASSUME \A g, h \in Handlers : g = h
  PROVE  Spec => RecordsAreTimely
<1>1. Undisturbed /\ [\A x \in Records :
                        records'[x] \notin {records[x], NoRecord} =>
                          LET o == records'[x].order IN
                          orders[o].status = "IN_PROGRESS" \/ o \in overtaken]_vars
        => [\A x \in Records :
              records'[x] \notin {records[x], NoRecord} =>
                orders[records'[x].order].status = "IN_PROGRESS"]_vars
  BY DEF Undisturbed
<1>2. IInv /\ Undisturbed => Undisturbed
  OBVIOUS
<1> QED
  BY <1>1, <1>2, SerialInvariance, LateWrites, PTL DEF LateWriteIsOvertaken, RecordsAreTimely
=============================================================================
