------------------------------ MODULE Booking ------------------------------
(***************************************************************************)
(* Boarding rooms and foster orders: internal/pet/orders.go, the room half *)
(* of internal/pet/catalog.go and the tables, keys and trigger of          *)
(* internal/pet/store.go.                                                  *)
(*                                                                         *)
(* A handler is one HTTP request being served.  CreateOrder and            *)
(* UpdateOrderStatus run in one SQLite transaction: in WAL mode a deferred *)
(* transaction whose snapshot has grown stale cannot upgrade to a writer,  *)
(* so each of them either takes effect at one instant or not at all.       *)
(* UpdateRoom, UpdateRoomStatus and DeleteRoom issue their COUNT and their *)
(* write as two separate autocommit statements, and CancelOrder reads the  *)
(* order before it opens the transaction: each of these is two steps here, *)
(* and other handlers run in between.                                      *)
(***************************************************************************)
EXTENDS StoredTimes, FiniteSets, Sequences

CONSTANTS
  Handlers,        \* requests that can be in flight together
  MaxRooms,        \* bound on room ids ever issued
  MaxOrders,       \* bound on order ids ever issued
  MaxCapacity,     \* bound on the capacities an administrator enters
  MaxTime,         \* stays begin and end at instants 0..MaxTime
  RoomStatuses,    \* the room statuses in use; the code treats RESERVED and OCCUPIED alike
  SeedCapacities   \* capacities of the rooms seedRooms inserts: <<1, 1, 2, 3>> in the code

ASSUME BoundsAssumption ==
  /\ MaxRooms \in Nat /\ MaxOrders \in Nat /\ MaxTime \in Nat
  /\ MaxCapacity \in Nat \ {0}
  /\ SeedCapacities \in Seq(1..MaxCapacity)
  /\ Len(SeedCapacities) <= MaxRooms
  /\ "AVAILABLE" \in RoomStatuses
  /\ RoomStatuses \subseteq {"AVAILABLE", "RESERVED", "OCCUPIED", "CLEANING"}

Rooms  == 1..MaxRooms
Orders == 1..MaxOrders
Times  == 0..MaxTime
Null   == 0                \* a NULL foreign key: ids start at 1

OrderStatuses == {"PENDING", "CONFIRMED", "IN_PROGRESS", "COMPLETED", "CANCELLED"}

NoRoom  == [status |-> "none", capacity |-> 0]
NoOrder == [status |-> "none", room |-> Null, start |-> 0, end |-> 0]

\* What a request remembers between its two statements.
Holds(op, room, order, status, capacity) ==
  [op |-> op, room |-> room, order |-> order, status |-> status, capacity |-> capacity]
Idle == Holds("idle", Null, Null, "none", 0)

VARIABLES
  rooms,      \* table rooms: id -> row, NoRoom before the insert and after the delete
  lastRoom,   \* AUTOINCREMENT counter of rooms: ids are never issued twice
  orders,     \* table foster_orders: id -> row; no handler deletes an order
  lastOrder,  \* AUTOINCREMENT counter of foster_orders
  request,    \* request[h]: what handler h has read and has still to write
  highWater,  \* history: the largest capacity each room has had
  raced       \* history: orders admitted between the check and the write of
              \* another request on the same room

vars == <<rooms, lastRoom, orders, lastOrder, request, highWater, raced>>

----------------------------------------------------------------------------
\* What the statements count and test.

\* The slip of counting only stays the administrator has confirmed.
ActiveWithoutPending == {"CONFIRMED", "IN_PROGRESS"}

\* status IN ('PENDING','CONFIRMED','IN_PROGRESS'), in every COUNT and in the trigger.
ActiveStatuses == {"PENDING", "CONFIRMED", "IN_PROGRESS"}

\* The orders COUNT finds on room r.
ActiveOrders(r) == {o \in Orders : orders[o].room = r /\ orders[o].status \in ActiveStatuses}

\* The slip of counting only stays that begin inside the new one.
StartsInside(o, s, e) ==
  IsTextBefore(orders[o].start, e) /\ ~IsTextBefore(orders[o].start, s)

\* start_time < newEnd AND end_time > newStart, of the texts the columns hold.
Overlaps(o, s, e) == IsTextBefore(orders[o].start, e) /\ IsTextBefore(s, orders[o].end)

Overlapping(r, s, e) == {o \in ActiveOrders(r) : Overlaps(o, s, e)}

\* The only status changes UpdateOrderStatus accepts.
validOrderTransition(current, next) ==
  \/ current = "PENDING"     /\ next \in {"CONFIRMED", "CANCELLED"}
  \/ current = "CONFIRMED"   /\ next \in {"IN_PROGRESS", "CANCELLED"}
  \/ current = "IN_PROGRESS" /\ next = "COMPLETED"

Exists(r) == rooms[r].status # "none"

\* Some request has checked room r and not yet written it.
CheckPendingOn(r) == \E h \in Handlers :
  request[h].op \in {"UpdateRoom", "UpdateRoomStatus", "DeleteRoom"} /\ request[h].room = r

Larger(a, b) == IF a > b THEN a ELSE b

\* if input.Capacity < 1 { input.Capacity = 1 }
AddedCapacity(capacity) == Larger(capacity, 1)

----------------------------------------------------------------------------

\* migrate on an empty file, then seedRooms.  A process stopped between two of its
\* INSERTs leaves a prefix of the rooms for good: a smaller value of SeedCapacities.
Init ==
  /\ rooms = [r \in Rooms |-> IF r <= Len(SeedCapacities)
                              THEN [status |-> "AVAILABLE", capacity |-> SeedCapacities[r]]
                              ELSE NoRoom]
  /\ lastRoom = Len(SeedCapacities)
  /\ orders = [o \in Orders |-> NoOrder]
  /\ lastOrder = 0
  /\ request = [h \in Handlers |-> Idle]
  /\ highWater = [r \in Rooms |-> rooms[r].capacity]
  /\ raced = {}

IsIdle(h) == request[h] = Idle

\* Rooms are inserted by one statement; a capacity below 1 becomes 1 and an empty
\* status AVAILABLE, so every valid row is reached from the inputs below.
AddRoom(h, capacity, status) ==
  /\ IsIdle(h)
  /\ lastRoom < MaxRooms
  /\ lastRoom' = lastRoom + 1
  /\ rooms' = [rooms EXCEPT ![lastRoom + 1] =
                 [status |-> status, capacity |-> AddedCapacity(capacity)]]
  /\ highWater' = [highWater EXCEPT ![lastRoom + 1] = Larger(@, AddedCapacity(capacity))]
  /\ UNCHANGED <<orders, lastOrder, request, raced>>

\* CreateOrder, whole transaction: the stay must end after it begins, by its instants;
\* the room must be AVAILABLE and the overlapping active orders, by their texts, fewer
\* than its capacity.  The INSERT trigger repeats the count on the same snapshot.  The
\* pet, owner and service lookups only refuse the request.
CreateOrder(h, r, s, e) ==
  /\ IsIdle(h)
  /\ s < e
  /\ rooms[r].status = "AVAILABLE"
  /\ Cardinality(Overlapping(r, s, e)) < rooms[r].capacity
  /\ lastOrder < MaxOrders
  /\ lastOrder' = lastOrder + 1
  /\ orders' = [orders EXCEPT ![lastOrder + 1] =
                  [status |-> "PENDING", room |-> r, start |-> s, end |-> e]]
  /\ raced' = IF CheckPendingOn(r) THEN raced \cup {lastOrder + 1} ELSE raced
  /\ UNCHANGED <<rooms, lastRoom, request, highWater>>

\* UPDATE foster_orders SET status of the transaction shared by the administrator's
\* endpoint and by CancelOrder.
SetOrderStatus(o, next) ==
  /\ validOrderTransition(orders[o].status, next)
  /\ orders' = [orders EXCEPT ![o].status = next]
  /\ UNCHANGED <<rooms, lastRoom, lastOrder, highWater, raced>>

UpdateOrderStatus(h, o, next) ==
  /\ IsIdle(h)
  /\ SetOrderStatus(o, next)
  /\ UNCHANGED request

\* CancelOrder, first half: the order as GetOrder returned it must be cancellable.
CancelOrderCheck(h, o) ==
  /\ IsIdle(h)
  /\ orders[o].status \in {"PENDING", "CONFIRMED"}
  /\ request' = [request EXCEPT ![h] = Holds("CancelOrder", Null, o, "none", 0)]
  /\ UNCHANGED <<rooms, lastRoom, orders, lastOrder, highWater, raced>>

\* The slip of trusting the status read before the transaction.
CancelOrderUnchecked(h) ==
  /\ request[h].op = "CancelOrder"
  /\ orders' = [orders EXCEPT ![request[h].order].status = "CANCELLED"]
  /\ request' = [request EXCEPT ![h] = Idle]
  /\ UNCHANGED <<rooms, lastRoom, lastOrder, highWater, raced>>

\* CancelOrder, second half: UpdateOrderStatus reads the status again.
CancelOrderWrite(h) ==
  /\ request[h].op = "CancelOrder"
  /\ SetOrderStatus(request[h].order, "CANCELLED")
  /\ request' = [request EXCEPT ![h] = Idle]

----------------------------------------------------------------------------
\* Room administration: a COUNT, then the write.

\* The slip of comparing with the orders on the premises instead of all active ones.
ShrinkBelowBookings(r, capacity, status) ==
  LET present == {o \in ActiveOrders(r) : orders[o].status = "IN_PROGRESS"} IN
    capacity >= Cardinality(present) /\ (status = "CLEANING" => present = {})

\* input.Capacity < active || (input.Status == "CLEANING" && active > 0) refuses.
RoomFits(r, capacity, status) ==
  /\ capacity >= Cardinality(ActiveOrders(r))
  /\ status = "CLEANING" => ActiveOrders(r) = {}

UpdateRoomCheck(h, r, capacity, status) ==
  /\ IsIdle(h)
  /\ RoomFits(r, capacity, status)
  /\ request' = [request EXCEPT ![h] = Holds("UpdateRoom", r, Null, status, capacity)]
  /\ UNCHANGED <<rooms, lastRoom, orders, lastOrder, highWater, raced>>

\* The UPDATE sets every column, and affects no row when the room is gone.
UpdateRoomWrite(h) ==
  LET r == request[h].room IN
  /\ request[h].op = "UpdateRoom"
  /\ Exists(r)
  /\ rooms' = [rooms EXCEPT ![r] = [status |-> request[h].status, capacity |-> request[h].capacity]]
  /\ highWater' = [highWater EXCEPT ![r] = Larger(@, request[h].capacity)]
  /\ request' = [request EXCEPT ![h] = Idle]
  /\ UNCHANGED <<lastRoom, orders, lastOrder, raced>>

\* UpdateRoomStatus to AVAILABLE has no check: one statement.
MakeRoomAvailable(h, r) ==
  /\ IsIdle(h)
  /\ Exists(r)
  /\ rooms' = [rooms EXCEPT ![r].status = "AVAILABLE"]
  /\ UNCHANGED <<lastRoom, orders, lastOrder, request, highWater, raced>>

UpdateRoomStatusCheck(h, r, status) ==
  /\ IsIdle(h)
  /\ status # "AVAILABLE"
  /\ ActiveOrders(r) = {}
  /\ request' = [request EXCEPT ![h] = Holds("UpdateRoomStatus", r, Null, status, 0)]
  /\ UNCHANGED <<rooms, lastRoom, orders, lastOrder, highWater, raced>>

UpdateRoomStatusWrite(h) ==
  LET r == request[h].room IN
  /\ request[h].op = "UpdateRoomStatus"
  /\ Exists(r)
  /\ rooms' = [rooms EXCEPT ![r].status = request[h].status]
  /\ request' = [request EXCEPT ![h] = Idle]
  /\ UNCHANGED <<lastRoom, orders, lastOrder, highWater, raced>>

\* The slip of letting a room go once its orders are closed.
DeletableWithHistory(r) == ActiveOrders(r) = {}

\* SELECT COUNT(*) FROM foster_orders WHERE room_id=?, whatever the status.
Deletable(r) == \A o \in Orders : orders[o].room # r

DeleteRoomCheck(h, r) ==
  /\ IsIdle(h)
  /\ Deletable(r)
  /\ request' = [request EXCEPT ![h] = Holds("DeleteRoom", r, Null, "none", 0)]
  /\ UNCHANGED <<rooms, lastRoom, orders, lastOrder, highWater, raced>>

\* The DELETE sets room_id to NULL in every order of the room (ON DELETE SET NULL).
DeleteRoomWrite(h) ==
  LET r == request[h].room IN
  /\ request[h].op = "DeleteRoom"
  /\ Exists(r)
  /\ rooms' = [rooms EXCEPT ![r] = NoRoom]
  /\ orders' = [o \in Orders |-> IF orders[o].room = r THEN [orders[o] EXCEPT !.room = Null]
                                                       ELSE orders[o]]
  /\ request' = [request EXCEPT ![h] = Idle]
  /\ UNCHANGED <<lastRoom, lastOrder, highWater, raced>>

\* Between its two statements a request can also end without writing: its context
\* is cancelled, the database stays busy past busy_timeout, the server stops, or the
\* write finds its row gone or no longer in the state it requires.
Abandon(h) ==
  /\ ~IsIdle(h)
  /\ request' = [request EXCEPT ![h] = Idle]
  /\ UNCHANGED <<rooms, lastRoom, orders, lastOrder, highWater, raced>>

----------------------------------------------------------------------------

RoomRequest(h) ==
  \/ \E c \in 0..MaxCapacity, st \in RoomStatuses : AddRoom(h, c, st)
  \/ \E r \in Rooms :
       \/ \E c \in 1..MaxCapacity, st \in RoomStatuses : UpdateRoomCheck(h, r, c, st)
       \/ \E st \in RoomStatuses : UpdateRoomStatusCheck(h, r, st)
       \/ MakeRoomAvailable(h, r)
       \/ DeleteRoomCheck(h, r)
  \/ UpdateRoomWrite(h)
  \/ UpdateRoomStatusWrite(h)
  \/ DeleteRoomWrite(h)

OrderRequest(h) ==
  \/ \E r \in Rooms, s, e \in Times : CreateOrder(h, r, s, e)
  \/ \E o \in Orders :
       \/ \E next \in OrderStatuses : UpdateOrderStatus(h, o, next)
       \/ CancelOrderCheck(h, o)
  \/ CancelOrderWrite(h)

Next == \E h \in Handlers : RoomRequest(h) \/ OrderRequest(h) \/ Abandon(h)

Spec == Init /\ [][Next]_vars

----------------------------------------------------------------------------
\* Properties.

\* A live room takes at least one guest, and no row stands under an id not issued yet.
RoomTable ==
  /\ rooms \in [Rooms -> [status : RoomStatuses \cup {"none"}, capacity : 0..MaxCapacity]]
  /\ lastRoom \in 0..MaxRooms
  /\ \A r \in Rooms : Exists(r) => r <= lastRoom /\ rooms[r].capacity >= 1
  /\ highWater \in [Rooms -> 0..MaxCapacity]

OrderRow == [status : OrderStatuses \cup {"none"}, room : Rooms \cup {Null},
             start : Times, end : Times]

OrderTable ==
  /\ orders \in [Orders -> OrderRow]
  /\ lastOrder \in 0..MaxOrders
  /\ \A o \in Orders : orders[o].status = "none" <=> o > lastOrder
  /\ raced \subseteq 1..lastOrder

\* A request between its two statements names the rows it checked.
RequestType ==
  [op : {"idle", "CancelOrder", "UpdateRoom", "UpdateRoomStatus", "DeleteRoom"},
   room : Rooms \cup {Null}, order : Orders \cup {Null},
   status : RoomStatuses \cup {"none"}, capacity : 0..MaxCapacity]

RequestShape(q) ==
  /\ q.op = "UpdateRoom" => q.room \in Rooms /\ q.capacity >= 1 /\ q.status \in RoomStatuses
  /\ q.op = "UpdateRoomStatus" => q.room \in Rooms /\ q.status \in RoomStatuses
  /\ q.op = "DeleteRoom" => q.room \in Rooms
  /\ q.op = "CancelOrder" => q.order \in Orders

Requests ==
  /\ request \in [Handlers -> RequestType]
  /\ \A h \in Handlers : RequestShape(request[h])

\* Type invariant: rows and counters have their shape (NOT NULL columns, AUTOINCREMENT
\* keys), and a request names the rows it checked.
TypeOK == RoomTable /\ OrderTable /\ Requests

\* An order that holds its place, said without the code's own list of statuses:
\* neither finished nor called off.
Holding(o) == orders[o].status \notin {"none", "COMPLETED", "CANCELLED"}

HoldingIn(r) == {o \in Orders : orders[o].room = r /\ Holding(o)}

\* The orders that occupy room r in the second of t: a stay counts from the second it
\* begins in up to the one it ends in.  Who leaves within that last second is no longer
\* a guest of it, and may meet there the guest who begins in it: of two stays that
\* share no more than a second the texts may say that they do not overlap.
Guests(r, t) == {o \in Orders : /\ orders[o].room = r /\ Holding(o)
                                /\ Second(orders[o].start) <= Second(t)
                                /\ Second(t) < Second(orders[o].end)}

\* However requests interleave, a room never holds in one second more guests than the
\* largest capacity it has ever had, those who leave in that second aside (CreateOrder
\* with its trigger).
GuestsWithinHighWater ==
  \A r \in Rooms, t \in Times : Cardinality(Guests(r, t)) <= highWater[r]

\* Not counting the orders admitted between another request's check and write, a
\* room never holds in one second more guests than its present capacity, those who leave
\* in that second aside (UpdateRoom's COUNT).
OverloadIsRaced ==
  \A r \in Rooms, t \in Times :
    Exists(r) => Cardinality(Guests(r, t) \ raced) <= rooms[r].capacity

\* A room under cleaning holds no order but raced ones (UpdateRoom, UpdateRoomStatus).
CleaningIntruderIsRaced ==
  \A r \in Rooms : rooms[r].status = "CLEANING" => HoldingIn(r) \subseteq raced

\* Only a raced order, open or closed, ever loses the room it was booked for
\* (DeleteRoom's COUNT of orders of any status).
RoomlessOrderIsRaced ==
  \A o \in Orders : orders[o].status # "none" /\ orders[o].room = Null => o \in raced

\* The ways forward for an order, said apart from the code's switch.
Progress == {<<"PENDING", "CONFIRMED">>, <<"PENDING", "CANCELLED">>, <<"CONFIRMED", "CANCELLED">>,
             <<"CONFIRMED", "IN_PROGRESS">>, <<"IN_PROGRESS", "COMPLETED">>}

OrderStep(o) ==
  /\ orders'[o].status # orders[o].status => <<orders[o].status, orders'[o].status>> \in Progress
  /\ orders'[o].room \in {orders[o].room, Null}
  /\ orders'[o].start = orders[o].start /\ orders'[o].end = orders[o].end

\* An order keeps its interval, keeps its room or loses it for good, and moves only
\* forward; a cancelled or completed order never changes again, whichever of two
\* racing requests closed it (UpdateOrderStatus, CancelOrder).
OrdersOnlyAdvance == [][\A o \in Orders : orders[o].status # "none" => OrderStep(o)]_vars

\* The room/order relationship the README promises, without allowance for races, in
\* three parts.  A room never holds more guests than its present capacity, to the second
\* (CreateOrder, UpdateRoom).
CapacityRespected ==
  \A r \in Rooms, t \in Times : Exists(r) => Cardinality(Guests(r, t)) <= rooms[r].capacity

\* No room is cleaned while an order holds it (UpdateRoom, UpdateRoomStatus).
CleaningRoomIsEmpty == \A r \in Rooms : rooms[r].status = "CLEANING" => HoldingIn(r) = {}

\* No open order has lost the room it was booked for (DeleteRoom).
OpenOrderHasRoom == \A o \in Orders : Holding(o) => orders[o].room # Null

----------------------------------------------------------------------------
\* The inductive invariant behind the four race bounds.

\* What the check of request q established.
Binds(q) ==
  /\ q.op = "UpdateRoom" =>
       /\ \A t \in Times : Cardinality(Guests(q.room, t) \ raced) <= q.capacity
       /\ q.status = "CLEANING" => HoldingIn(q.room) \subseteq raced
  /\ q.op = "UpdateRoomStatus" => HoldingIn(q.room) \subseteq raced
  /\ q.op = "DeleteRoom" => \A o \in Orders : orders[o].room = q.room => o \in raced

\* What a request read before its write still binds every order but the raced ones:
\* an UpdateRoom still fits, an UpdateRoomStatus still finds nobody, and a DeleteRoom
\* still finds no order that was there when it counted.
ChecksStillBind == \A h \in Handlers : Binds(request[h])

\* foster_orders.room_id REFERENCES rooms, and the history variable covers the table.
ReferencesHold ==
  /\ \A o \in Orders : orders[o].room # Null => Exists(orders[o].room)
  /\ \A r \in Rooms : rooms[r].capacity <= highWater[r]

\* The inductive invariant: the bounds, the references, and the checks that make the
\* second statements of the room handlers safe for every order that is not raced.
IInv ==
  /\ TypeOK
  /\ ReferencesHold
  /\ ChecksStillBind
  /\ GuestsWithinHighWater
  /\ OverloadIsRaced
  /\ CleaningIntruderIsRaced
  /\ RoomlessOrderIsRaced

============================================================================
