------------------------------ MODULE Custody ------------------------------
(***************************************************************************)
(* Who a pet belongs to, what happens to its foster orders, and the daily  *)
(* records of a stay: internal/pet/pets.go, internal/pet/records.go and    *)
(* the keys of internal/pet/store.go.                                      *)
(*                                                                         *)
(* UpdatePet, DeletePet, AddRecord and UpdateRecord read in one autocommit *)
(* statement and write in another, and other requests run in between.      *)
(* Orders are the transactions of orders.go, whose rooms Booking models.   *)
(* Principals only refuse requests: an administrator may do everything     *)
(* here, and the user of an order never changes.                           *)
(***************************************************************************)
EXTENDS Integers, FiniteSets

CONSTANTS
  Handlers,    \* requests that can be in flight together
  Users,       \* accounts, all registered before the behaviour starts
  MaxPets,     \* bound on pet ids ever issued
  MaxOrders,   \* bound on order ids ever issued
  MaxRecords,  \* bound on record ids ever issued
  MaxDay       \* stays and records are dated by days 0..MaxDay

ASSUME BoundsAssumption ==
  MaxPets \in Nat /\ MaxOrders \in Nat /\ MaxRecords \in Nat /\ MaxDay \in Nat

Pets    == 1..MaxPets
Orders  == 1..MaxOrders
Records == 1..MaxRecords
Days    == 0..MaxDay
Null    == 0            \* a NULL key: ids start at 1

ASSUME IdsAssumption == Null \notin Users

OrderStatuses == {"PENDING", "CONFIRMED", "IN_PROGRESS", "COMPLETED", "CANCELLED"}

NoOrder  == [status |-> "none", pet |-> Null, user |-> Null, start |-> 0, end |-> 0]
NoRecord == [order |-> Null, date |-> 0]

\* What a request remembers between its two statements: the row it means to write, and
\* the owner or the date it will write.
Holds(op, row, owner, date) == [op |-> op, row |-> row, owner |-> owner, date |-> date]
Idle == Holds("idle", Null, Null, 0)

VARIABLES
  users,       \* table pet_users: the accounts not deleted
  pets,        \* table pets: id -> owner_id, Null before the insert and after the delete
  lastPet,     \* AUTOINCREMENT counter of pets
  orders,      \* table foster_orders
  lastOrder,
  records,     \* table daily_records
  lastRecord,
  request,     \* request[h]: what handler h has read and has still to write
  assigned,    \* history: the owner last named for a pet, at its insert or by a transfer
  reverted,    \* history: pets transferred while another request held their old owner
  raced,       \* history: orders placed between the check and the write of a DeletePet
  transferred, \* history: orders whose pet has been given an owner since
  overtaken    \* history: orders that moved on while a request was writing their records

vars == <<users, pets, lastPet, orders, lastOrder, records, lastRecord, request,
          assigned, reverted, raced, transferred, overtaken>>

history == <<assigned, reverted, raced, transferred, overtaken>>

Init ==
  /\ users = Users
  /\ pets = [p \in Pets |-> Null] /\ lastPet = 0
  /\ orders = [o \in Orders |-> NoOrder] /\ lastOrder = 0
  /\ records = [x \in Records |-> NoRecord] /\ lastRecord = 0
  /\ request = [h \in Handlers |-> Idle]
  /\ assigned = [p \in Pets |-> Null]
  /\ reverted = {} /\ raced = {} /\ transferred = {} /\ overtaken = {}

IsIdle(h) == request[h] = Idle

Pending(op, row) == \E h \in Handlers : request[h].op = op /\ request[h].row = row

OrdersOf(p) == {o \in Orders : orders[o].pet = p}

----------------------------------------------------------------------------
\* Pets.

\* A user's own pet, or an administrator's for any owner.
AddPet(h, u) ==
  /\ IsIdle(h)
  /\ u \in users
  /\ lastPet < MaxPets
  /\ lastPet' = lastPet + 1
  /\ pets' = [pets EXCEPT ![lastPet + 1] = u]
  /\ assigned' = [assigned EXCEPT ![lastPet + 1] = u]
  /\ UNCHANGED <<users, orders, lastOrder, records, lastRecord, request,
                 reverted, raced, transferred, overtaken>>

\* The owner of the request's body, whoever sends it.
KeepOwnerSent(h, p) ==
  /\ IsIdle(h)
  /\ pets[p] # Null
  /\ \E u \in Users : request' = [request EXCEPT ![h] = Holds("keepOwner", p, u, 0)]
  /\ UNCHANGED <<users, pets, lastPet, orders, lastOrder, records, lastRecord, history>>

\* UpdatePet, GetPet: the owner to write is the owner read, unless an administrator
\* names another.
KeepOwnerRead(h, p) ==
  /\ IsIdle(h)
  /\ pets[p] # Null
  /\ request' = [request EXCEPT ![h] = Holds("keepOwner", p, pets[p], 0)]
  /\ UNCHANGED <<users, pets, lastPet, orders, lastOrder, records, lastRecord, history>>

TransferRead(h, p, u) ==
  /\ IsIdle(h)
  /\ pets[p] # Null
  /\ request' = [request EXCEPT ![h] = Holds("transfer", p, u, 0)]
  /\ UNCHANGED <<users, pets, lastPet, orders, lastOrder, records, lastRecord, history>>

\* UpdatePet, the UPDATE.  It sets every column, affects no row when the pet is gone, and
\* its key refuses an owner who is.
WriteOwner(h) ==
  LET p == request[h].row
      u == request[h].owner IN
  /\ pets[p] # Null
  /\ u \in users
  /\ pets' = [pets EXCEPT ![p] = u]
  /\ request' = [request EXCEPT ![h] = Idle]
  /\ transferred' = transferred \cup {o \in OrdersOf(p) : u # pets[p]}
  /\ UNCHANGED <<users, lastPet, orders, lastOrder, records, lastRecord, raced, overtaken>>

KeepOwnerWrite(h) ==
  /\ request[h].op = "keepOwner"
  /\ WriteOwner(h)
  /\ UNCHANGED <<assigned, reverted>>

TransferWrite(h) ==
  LET p == request[h].row IN
  /\ request[h].op = "transfer"
  /\ WriteOwner(h)
  /\ assigned' = [assigned EXCEPT ![p] = request[h].owner]
  /\ reverted' = IF Pending("keepOwner", p) THEN reverted \cup {p} ELSE reverted

\* Deletion that asks for open orders only.
HasNoOpenOrder(p) == \A o \in OrdersOf(p) : orders[o].status \in {"COMPLETED", "CANCELLED"}

\* SELECT COUNT(*) FROM foster_orders WHERE pet_id=?, whatever the status.
HasNoHistory(p) == OrdersOf(p) = {}

DeletePetCheck(h, p) ==
  /\ IsIdle(h)
  /\ pets[p] # Null
  /\ HasNoHistory(p)
  /\ request' = [request EXCEPT ![h] = Holds("deletePet", p, Null, 0)]
  /\ UNCHANGED <<users, pets, lastPet, orders, lastOrder, records, lastRecord, history>>

\* The orders without the pets of P: pet_id is ON DELETE SET NULL.
Bereft(P) ==
  [o \in Orders |-> IF orders[o].pet \in P THEN [orders[o] EXCEPT !.pet = Null] ELSE orders[o]]

DeletePetWrite(h) ==
  LET p == request[h].row IN
  /\ request[h].op = "deletePet"
  /\ pets[p] # Null
  /\ pets' = [pets EXCEPT ![p] = Null]
  /\ orders' = Bereft({p})
  /\ request' = [request EXCEPT ![h] = Idle]
  /\ UNCHANGED <<users, lastPet, lastOrder, records, lastRecord, history>>

\* foster_orders.user_id has no ON DELETE: a user with orders cannot go.
HasPlacedNothing(u) == \A o \in Orders : orders[o].user # u

\* DeleteUser: the pets of the user go with the account (ON DELETE CASCADE).
DeleteUser(h, u) ==
  LET gone == {p \in Pets : pets[p] = u} IN
  /\ IsIdle(h)
  /\ u \in users
  /\ HasPlacedNothing(u)
  /\ users' = users \ {u}
  /\ pets' = [p \in Pets |-> IF p \in gone THEN Null ELSE pets[p]]
  /\ orders' = Bereft(gone)
  /\ UNCHANGED <<lastPet, lastOrder, records, lastRecord, request, history>>

----------------------------------------------------------------------------
\* Foster orders, as far as pets and records can see them.

\* CreateOrder: the order is the owner's, whoever places it.
CreateOrder(h, p, start, end) ==
  /\ IsIdle(h)
  /\ pets[p] # Null
  /\ start <= end
  /\ lastOrder < MaxOrders
  /\ lastOrder' = lastOrder + 1
  /\ orders' = [orders EXCEPT ![lastOrder + 1] =
                  [status |-> "PENDING", pet |-> p, user |-> pets[p],
                   start |-> start, end |-> end]]
  /\ raced' = IF Pending("deletePet", p) THEN raced \cup {lastOrder + 1} ELSE raced
  /\ UNCHANGED <<users, pets, lastPet, records, lastRecord, request,
                 assigned, reverted, transferred, overtaken>>

OrderMoves ==
  [PENDING     |-> {"CONFIRMED", "CANCELLED"},
   CONFIRMED   |-> {"IN_PROGRESS", "CANCELLED"},
   IN_PROGRESS |-> {"COMPLETED"}]

\* A stay that can still be called off.
OrderMovesWithLateCancel == [OrderMoves EXCEPT !.IN_PROGRESS = {"COMPLETED", "CANCELLED"}]

MayMoveLate(status, next) ==
  status \in DOMAIN OrderMovesWithLateCancel /\ next \in OrderMovesWithLateCancel[status]

\* validOrderTransition.
MayMove(status, next) == status \in DOMAIN OrderMoves /\ next \in OrderMoves[status]

\* A request that has found order o in progress and has yet to write a record of it.
WritingRecordOf(o) ==
  \E h \in Handlers :
    \/ request[h].op = "addRecord" /\ request[h].row = o
    \/ request[h].op = "updateRecord" /\ records[request[h].row].order = o

\* UpdateOrderStatus, which CancelOrder ends in too.
UpdateOrderStatus(h, o, next) ==
  /\ IsIdle(h)
  /\ MayMove(orders[o].status, next)
  /\ orders' = [orders EXCEPT ![o].status = next]
  /\ overtaken' = IF WritingRecordOf(o) THEN overtaken \cup {o} ELSE overtaken
  /\ UNCHANGED <<users, pets, lastPet, lastOrder, records, lastRecord, request,
                 assigned, reverted, raced, transferred>>

----------------------------------------------------------------------------
\* Daily records.

\* The status is not asked for.
IsNoted(o, date) == /\ orders[o].status # "none"
                    /\ date \in orders[o].start..orders[o].end

\* A record of o dated date may be written.
IsWritable(o, date) == /\ orders[o].status = "IN_PROGRESS"
                       /\ date \in orders[o].start..orders[o].end

\* UNIQUE(order_id, record_date).
IsFree(x, o, date) == \A y \in Records \ {x} : records[y] # [order |-> o, date |-> date]

AddRecordCheck(h, o, date) ==
  /\ IsIdle(h)
  /\ IsWritable(o, date)
  /\ request' = [request EXCEPT ![h] = Holds("addRecord", o, Null, date)]
  /\ UNCHANGED <<users, pets, lastPet, orders, lastOrder, records, lastRecord, history>>

AddRecordWrite(h) ==
  LET x   == lastRecord + 1
      row == [order |-> request[h].row, date |-> request[h].date] IN
  /\ request[h].op = "addRecord"
  /\ lastRecord < MaxRecords
  /\ IsFree(x, row.order, row.date)
  /\ lastRecord' = x
  /\ records' = [records EXCEPT ![x] = row]
  /\ request' = [request EXCEPT ![h] = Idle]
  /\ UNCHANGED <<users, pets, lastPet, orders, lastOrder, history>>

\* UpdateRecord, GetOrder.  The date is the client's or the one GetRecord found, which
\* another request may have changed: any date of the stay.
UpdateRecordCheck(h, x, date) ==
  /\ IsIdle(h)
  /\ records[x] # NoRecord
  /\ IsWritable(records[x].order, date)
  /\ request' = [request EXCEPT ![h] = Holds("updateRecord", x, Null, date)]
  /\ UNCHANGED <<users, pets, lastPet, orders, lastOrder, records, lastRecord, history>>

UpdateRecordWrite(h) ==
  LET x == request[h].row IN
  /\ request[h].op = "updateRecord"
  /\ records[x] # NoRecord
  /\ IsFree(x, records[x].order, request[h].date)
  /\ records' = [records EXCEPT ![x].date = request[h].date]
  /\ request' = [request EXCEPT ![h] = Idle]
  /\ UNCHANGED <<users, pets, lastPet, orders, lastOrder, lastRecord, history>>

\* DeleteRecord asks nothing of the order.
DeleteRecord(h, x) ==
  /\ IsIdle(h)
  /\ records[x] # NoRecord
  /\ records' = [records EXCEPT ![x] = NoRecord]
  /\ UNCHANGED <<users, pets, lastPet, orders, lastOrder, lastRecord, request, history>>

\* A request can also end without writing: its context is cancelled, the database stays
\* busy, the server stops, or the write is refused or finds its row gone.
Abandon(h) ==
  /\ ~IsIdle(h)
  /\ request' = [request EXCEPT ![h] = Idle]
  /\ UNCHANGED <<users, pets, lastPet, orders, lastOrder, records, lastRecord, history>>

----------------------------------------------------------------------------

PetRequest(h) ==
  \/ \E u \in Users : AddPet(h, u) \/ DeleteUser(h, u)
  \/ \E p \in Pets :
       \/ KeepOwnerRead(h, p)
       \/ \E u \in Users : TransferRead(h, p, u)
       \/ DeletePetCheck(h, p)
  \/ KeepOwnerWrite(h)
  \/ TransferWrite(h)
  \/ DeletePetWrite(h)

OrderRequest(h) ==
  \/ \E p \in Pets, start, end \in Days : CreateOrder(h, p, start, end)
  \/ \E o \in Orders, next \in OrderStatuses : UpdateOrderStatus(h, o, next)

RecordRequest(h) ==
  \/ \E o \in Orders, date \in Days : AddRecordCheck(h, o, date)
  \/ \E x \in Records, date \in Days : UpdateRecordCheck(h, x, date)
  \/ \E x \in Records : DeleteRecord(h, x)
  \/ AddRecordWrite(h)
  \/ UpdateRecordWrite(h)

Next == \E h \in Handlers : PetRequest(h) \/ OrderRequest(h) \/ RecordRequest(h) \/ Abandon(h)

Spec == Init /\ [][Next]_vars

----------------------------------------------------------------------------
\* Types.

OrderRow == [status : OrderStatuses \cup {"none"}, pet : Pets \cup {Null},
             user : Users \cup {Null}, start : Days, end : Days]

RecordRow == [order : Orders \cup {Null}, date : Days]

RequestType ==
       [op : {"idle"}, row : {Null}, owner : {Null}, date : {0}]
  \cup [op : {"keepOwner", "transfer"}, row : Pets, owner : Users, date : {0}]
  \cup [op : {"deletePet"}, row : Pets, owner : {Null}, date : {0}]
  \cup [op : {"addRecord"}, row : Orders, owner : {Null}, date : Days]
  \cup [op : {"updateRecord"}, row : Records, owner : {Null}, date : Days]

\* Rows have their columns and their keys point at rows: a pet at its owner's account, an
\* order at its user's and, while it has one, at its pet, a record at its order.
TypeOK ==
  /\ users \subseteq Users
  /\ pets \in [Pets -> users \cup {Null}] /\ lastPet \in 0..MaxPets
  /\ \A p \in Pets : pets[p] # Null => p <= lastPet
  /\ orders \in [Orders -> OrderRow] /\ lastOrder \in 0..MaxOrders
  /\ \A o \in Orders : IF o > lastOrder THEN orders[o] = NoOrder
                       ELSE orders[o].status # "none" /\ orders[o].user \in users
  /\ \A o \in Orders : orders[o].pet # Null => pets[orders[o].pet] # Null
  /\ records \in [Records -> RecordRow] /\ lastRecord \in 0..MaxRecords
  /\ \A x \in Records : x > lastRecord => records[x] = NoRecord
  /\ \A x \in Records : records[x] # NoRecord => records[x].order \in 1..lastOrder
  /\ request \in [Handlers -> RequestType]
  /\ assigned \in [Pets -> Users \cup {Null}] /\ reverted \subseteq Pets
  /\ raced \subseteq Orders /\ transferred \subseteq Orders /\ overtaken \subseteq Orders

----------------------------------------------------------------------------
\* Properties.

\* An order loses its pet in two ways only: it was placed while DeletePet stood between
\* its COUNT and its DELETE, or the pet was given away first and went with the account
\* of its new owner (DeletePet, and ON DELETE CASCADE of pets.owner_id).
PetlessOrderIsExplained ==
  \A o \in 1..lastOrder : orders[o].pet = Null => o \in raced \cup transferred

\* An order is its pet's owner's, unless the pet was given away since (CreateOrder).
OrderIsOwners ==
  \A o \in 1..lastOrder :
    orders[o].pet # Null /\ o \notin transferred => orders[o].user = pets[orders[o].pet]

\* A pet belongs to the one it was last given to, unless an edit that read the owner
\* before a transfer wrote it back after (UpdatePet).
OwnerIsAssigned == \A p \in Pets : pets[p] # Null /\ p \notin reverted => pets[p] = assigned[p]

\* Records are of a stay that has begun, and of one of its days (AddRecord, UpdateRecord,
\* validOrderTransition).
RecordsBelongToStay ==
  \A x \in Records : records[x] # NoRecord =>
    LET o == records[x].order IN
    /\ orders[o].status \in {"IN_PROGRESS", "COMPLETED"}
    /\ records[x].date \in orders[o].start..orders[o].end

\* A record of a finished stay is written only by a request that was overtaken by the
\* end of the stay; it may be deleted at any time (UpdateRecord, DeleteRecord).
LateWriteIsOvertaken ==
  [][\A x \in Records :
       records'[x] \notin {records[x], NoRecord} =>
         LET o == records'[x].order IN
         orders[o].status = "IN_PROGRESS" \/ o \in overtaken]_vars

----------------------------------------------------------------------------
\* The promises without allowance.  They hold of one request at a time, as
\* CustodyProofs shows; the races above break them.

\* An order whose pet was not given away keeps it: DeletePet refuses ("pet has foster
\* order history").
OrderKeepsPet == \A o \in 1..lastOrder : orders[o].pet = Null => o \in transferred

\* A pet belongs to the one it was last given to (UpdatePet).
PetIsWhereAssigned == \A p \in Pets : pets[p] # Null => pets[p] = assigned[p]

\* Records are written while the stay is in progress (AddRecord, UpdateRecord).
RecordsAreTimely ==
  [][\A x \in Records :
       records'[x] \notin {records[x], NoRecord} =>
         orders[records'[x].order].status = "IN_PROGRESS"]_vars

----------------------------------------------------------------------------
\* What pending requests still know, which makes the properties inductive.

\* UpdatePet: the owner read is the owner assigned.
KnowsOwner(q) ==
  q.op = "keepOwner" =>
    /\ q.row <= lastPet
    /\ pets[q.row] # Null /\ q.row \notin reverted => q.owner = assigned[q.row]

\* DeletePet: the pet has no orders but those placed since.
KnowsHistory(q) == q.op = "deletePet" => OrdersOf(q.row) \subseteq raced

\* AddRecord: the stay has begun, and the date is one of its days.
KnowsStay(q) ==
  q.op = "addRecord" =>
    /\ orders[q.row].status \in {"IN_PROGRESS", "COMPLETED"}
    /\ orders[q.row].status = "IN_PROGRESS" \/ q.row \in overtaken
    /\ q.date \in orders[q.row].start..orders[q.row].end

\* UpdateRecord: the same of the record's stay.
KnowsRecord(q) ==
  q.op = "updateRecord" =>
    /\ q.row <= lastRecord
    /\ records[q.row] # NoRecord =>
         LET o == records[q.row].order IN
         /\ orders[o].status = "IN_PROGRESS" \/ o \in overtaken
         /\ q.date \in orders[o].start..orders[o].end

ChecksStillBind ==
  \A h \in Handlers :
    LET q == request[h] IN KnowsOwner(q) /\ KnowsHistory(q) /\ KnowsStay(q) /\ KnowsRecord(q)

\* The inductive invariant.
IInv ==
  /\ TypeOK
  /\ PetlessOrderIsExplained
  /\ OrderIsOwners
  /\ OwnerIsAssigned
  /\ RecordsBelongToStay
  /\ ChecksStillBind
=============================================================================
