--------------------------- MODULE BookingProofs ---------------------------
(***************************************************************************)
(* Theorems about Booking, for every number of handlers, rooms, orders,    *)
(* capacities and instants.                                                *)
(***************************************************************************)
EXTENDS Booking, FiniteSetTheorems, TLAPS

\* Every set of orders is finite, and a part of one is no larger.
LEMMA OrderSets ==
  ASSUME NEW S \in SUBSET Orders, NEW T \in SUBSET S
  PROVE  /\ IsFiniteSet(S) /\ IsFiniteSet(T)
         /\ Cardinality(S) \in Nat /\ Cardinality(T) \in Nat
         /\ Cardinality(T) <= Cardinality(S)
<1>1. IsFiniteSet(Orders)
  BY FS_Interval, BoundsAssumption DEF Orders
<1>2. IsFiniteSet(S)
  BY <1>1, FS_Subset
<1>3. IsFiniteSet(T) /\ Cardinality(T) <= Cardinality(S)
  BY <1>2, FS_Subset
<1> QED
  BY <1>2, <1>3, FS_CardinalityType

\* One more order raises a count by at most one.
LEMMA OneMoreOrder ==
  ASSUME NEW S \in SUBSET Orders, NEW T \in SUBSET Orders, NEW o \in Orders,
         T \subseteq S \cup {o}
  PROVE  Cardinality(T) <= Cardinality(S) + 1
<1>1. IsFiniteSet(S) /\ Cardinality(S) \in Nat
  BY OrderSets
<1>2. /\ IsFiniteSet(S \cup {o})
      /\ Cardinality(S \cup {o}) <= Cardinality(S) + 1
  BY <1>1, FS_AddElement
<1>3. S \cup {o} \in SUBSET Orders /\ T \in SUBSET (S \cup {o})
  OBVIOUS
<1>4. Cardinality(T) <= Cardinality(S \cup {o})
  BY <1>3, OrderSets
<1> QED
  BY <1>1, <1>2, <1>3, <1>4, OrderSets

\* The statuses the code counts are exactly those of an order that holds its place.
LEMMA ActiveIsHolding ==
  ASSUME TypeOK, NEW r
  PROVE  /\ ActiveOrders(r) = HoldingIn(r)
         /\ ActiveOrders(r) \in SUBSET Orders
         /\ \A t \in Times : Guests(r, t) \in SUBSET ActiveOrders(r)
<1>1. \A o \in Orders : orders[o].status \in OrderStatuses \cup {"none"}
  BY DEF TypeOK, OrderTable, OrderRow
<1> QED
  BY <1>1 DEF ActiveOrders, HoldingIn, Holding, ActiveStatuses, Guests, OrderStatuses

\* Seconds are whole numbers, so that their order is that of integers.
LEMMA SecondInInt == \A t \in Int : Second(t) \in Int
BY TextsAssumption DEF Second

\* In any second a new stay counts for, the guests of the room are among the orders
\* CreateOrder counts: texts of different seconds compare as their instants do.
LEMMA GuestsOverlap ==
  ASSUME TypeOK, NEW r, NEW s \in Times, NEW e \in Times, NEW t \in Times,
         Second(s) <= Second(t), Second(t) < Second(e)
  PROVE  /\ Guests(r, t) \subseteq Overlapping(r, s, e)
         /\ Overlapping(r, s, e) \in SUBSET Orders
<1>1. \A o \in Orders : orders[o].start \in Times /\ orders[o].end \in Times
  BY DEF TypeOK, OrderTable, OrderRow
<1>2. Times \subseteq Int
  BY BoundsAssumption DEF Times
<1>3. \A o \in Guests(r, t) : Overlaps(o, s, e)
  <2> TAKE o \in Guests(r, t)
  <2>1. /\ o \in Orders
        /\ Second(orders[o].start) <= Second(t) /\ Second(t) < Second(orders[o].end)
    BY DEF Guests
  <2>2. /\ Second(orders[o].start) \in Int /\ Second(orders[o].end) \in Int
        /\ Second(s) \in Int /\ Second(e) \in Int /\ Second(t) \in Int
    BY <1>1, <1>2, <2>1, SecondInInt
  <2> QED
    BY <2>1, <2>2 DEF Overlaps, IsTextBefore
<1> QED
  BY <1>3, ActiveIsHolding DEF Overlapping

----------------------------------------------------------------------------
\* Types.

LEMMA IdleRequest == Idle \in RequestType /\ RequestShape(Idle)
BY BoundsAssumption DEF Idle, Holds, RequestType, RequestShape, Null

LEMMA InitType == Init => TypeOK
<1> SUFFICES ASSUME Init PROVE TypeOK
  OBVIOUS
<1> USE BoundsAssumption
<1>1. \A r \in Rooms : r <= Len(SeedCapacities) => SeedCapacities[r] \in 1..MaxCapacity
  BY DEF Rooms
<1>2. rooms \in [Rooms -> [status : RoomStatuses \cup {"none"}, capacity : 0..MaxCapacity]]
  BY <1>1 DEF Init, NoRoom
<1>3. RoomTable
  BY <1>1, <1>2 DEF Init, NoRoom, Exists, RoomTable
<1>4. OrderTable
  BY DEF Init, NoOrder, OrderTable, OrderRow, Times, Orders, Null
<1>5. Requests
  BY IdleRequest DEF Init, Requests
<1> QED
  BY <1>3, <1>4, <1>5 DEF TypeOK

\* Taking up a request, or ending one, keeps the requests well formed.
LEMMA RequestStep ==
  ASSUME Requests, NEW h \in Handlers, NEW q \in RequestType, RequestShape(q),
         request' = [request EXCEPT ![h] = q]
  PROVE  Requests'
BY DEF Requests

LEMMA NextType == TypeOK /\ [Next]_vars => TypeOK'
<1> SUFFICES ASSUME TypeOK, [Next]_vars PROVE TypeOK'
  OBVIOUS
<1> USE BoundsAssumption DEF TypeOK
<1>a. ASSUME UNCHANGED <<rooms, lastRoom, highWater>> PROVE RoomTable'
  BY <1>a DEF RoomTable, Exists
<1>b. ASSUME UNCHANGED <<orders, lastOrder, raced>> PROVE OrderTable'
  BY <1>b DEF OrderTable
<1>c. ASSUME UNCHANGED request PROVE Requests'
  BY <1>c DEF Requests
<1>d. ASSUME NEW h \in Handlers, request' = [request EXCEPT ![h] = Idle] PROVE Requests'
  BY <1>d, RequestStep, IdleRequest
<1>1. ASSUME NEW h \in Handlers, NEW c \in 0..MaxCapacity, NEW st \in RoomStatuses,
             AddRoom(h, c, st)
      PROVE  TypeOK'
  <2>1. RoomTable'
    BY <1>1 DEF AddRoom, RoomTable, Rooms, Exists, AddedCapacity, Larger
  <2> QED
    BY <1>1, <1>b, <1>c, <2>1 DEF AddRoom
<1>2. ASSUME NEW h \in Handlers, NEW r \in Rooms, NEW c \in 1..MaxCapacity,
             NEW st \in RoomStatuses, UpdateRoomCheck(h, r, c, st)
      PROVE  TypeOK'
  <2> DEFINE q == Holds("UpdateRoom", r, Null, st, c)
  <2>1. q \in RequestType /\ RequestShape(q)
    BY DEF Holds, RequestType, RequestShape, Null
  <2> QED
    BY <1>2, <1>a, <1>b, <2>1, RequestStep DEF UpdateRoomCheck
<1>3. ASSUME NEW h \in Handlers, NEW r \in Rooms, NEW st \in RoomStatuses,
             UpdateRoomStatusCheck(h, r, st)
      PROVE  TypeOK'
  <2> DEFINE q == Holds("UpdateRoomStatus", r, Null, st, 0)
  <2>1. q \in RequestType /\ RequestShape(q)
    BY DEF Holds, RequestType, RequestShape, Null
  <2> QED
    BY <1>3, <1>a, <1>b, <2>1, RequestStep DEF UpdateRoomStatusCheck
<1>4. ASSUME NEW h \in Handlers, NEW r \in Rooms, MakeRoomAvailable(h, r)
      PROVE  TypeOK'
  <2>1. RoomTable'
    BY <1>4 DEF MakeRoomAvailable, RoomTable, Exists
  <2> QED
    BY <1>4, <1>b, <1>c, <2>1 DEF MakeRoomAvailable
<1>5. ASSUME NEW h \in Handlers, NEW r \in Rooms, DeleteRoomCheck(h, r)
      PROVE  TypeOK'
  <2> DEFINE q == Holds("DeleteRoom", r, Null, "none", 0)
  <2>1. q \in RequestType /\ RequestShape(q)
    BY DEF Holds, RequestType, RequestShape, Null
  <2> QED
    BY <1>5, <1>a, <1>b, <2>1, RequestStep DEF DeleteRoomCheck
<1>6. ASSUME NEW h \in Handlers, UpdateRoomWrite(h)
      PROVE  TypeOK'
  <2>1. /\ request[h].room \in Rooms /\ request[h].capacity \in 1..MaxCapacity
        /\ request[h].status \in RoomStatuses
    BY <1>6 DEF UpdateRoomWrite, Requests, RequestType, RequestShape
  <2>2. RoomTable'
    BY <1>6, <2>1 DEF UpdateRoomWrite, RoomTable, Exists, Larger
  <2> QED
    BY <1>6, <1>b, <1>d, <2>2 DEF UpdateRoomWrite
<1>7. ASSUME NEW h \in Handlers, UpdateRoomStatusWrite(h)
      PROVE  TypeOK'
  <2>1. request[h].room \in Rooms /\ request[h].status \in RoomStatuses
    BY <1>7 DEF UpdateRoomStatusWrite, Requests, RequestShape
  <2>2. RoomTable'
    BY <1>7, <2>1 DEF UpdateRoomStatusWrite, RoomTable, Exists
  <2> QED
    BY <1>7, <1>b, <1>d, <2>2 DEF UpdateRoomStatusWrite
<1>8. ASSUME NEW h \in Handlers, DeleteRoomWrite(h)
      PROVE  TypeOK'
  <2>1. RoomTable'
    <3>1. NoRoom \in [status : RoomStatuses \cup {"none"}, capacity : 0..MaxCapacity]
      BY DEF NoRoom
    <3>2. /\ rooms' = [rooms EXCEPT ![request[h].room] = NoRoom]
          /\ UNCHANGED <<lastRoom, highWater>>
      BY <1>8 DEF DeleteRoomWrite
    <3>3. \A r \in Rooms : Exists(r)' => Exists(r) /\ rooms'[r] = rooms[r]
      BY <3>2 DEF RoomTable, Exists, NoRoom
    <3> QED
      BY <3>1, <3>2, <3>3 DEF RoomTable
  <2>2. OrderTable'
    BY <1>8 DEF DeleteRoomWrite, OrderTable, OrderRow, Null
  <2> QED
    BY <1>8, <1>d, <2>1, <2>2 DEF DeleteRoomWrite
<1>9. ASSUME NEW h \in Handlers, NEW r \in Rooms, NEW s \in Times, NEW e \in Times,
             CreateOrder(h, r, s, e)
      PROVE  TypeOK'
  <2>1. OrderTable'
    BY <1>9 DEF CreateOrder, OrderTable, OrderRow, OrderStatuses, Orders
  <2> QED
    BY <1>9, <1>a, <1>c, <2>1 DEF CreateOrder
<1>10. ASSUME NEW o \in Orders, NEW next \in OrderStatuses, SetOrderStatus(o, next)
       PROVE  RoomTable' /\ OrderTable'
  <2>1. orders[o].status # "none" /\ next # "none"
    BY <1>10 DEF SetOrderStatus, validOrderTransition
  <2>2. /\ orders' = [orders EXCEPT ![o].status = next]
        /\ UNCHANGED <<lastOrder, raced>>
    BY <1>10 DEF SetOrderStatus
  <2>3. orders' \in [Orders -> OrderRow]
    BY <2>2 DEF OrderTable, OrderRow
  <2>4. \A x \in Orders : orders'[x].status = "none" <=> orders[x].status = "none"
    BY <2>1, <2>2 DEF OrderTable, OrderRow
  <2> QED
    BY <1>10, <1>a, <2>2, <2>3, <2>4 DEF SetOrderStatus, OrderTable
<1>11. ASSUME NEW h \in Handlers, NEW o \in Orders, NEW next \in OrderStatuses,
              UpdateOrderStatus(h, o, next)
       PROVE  TypeOK'
  BY <1>c, <1>10, <1>11 DEF UpdateOrderStatus
<1>12. ASSUME NEW h \in Handlers, NEW o \in Orders, CancelOrderCheck(h, o)
       PROVE  TypeOK'
  <2> DEFINE q == Holds("CancelOrder", Null, o, "none", 0)
  <2>1. q \in RequestType /\ RequestShape(q)
    BY DEF Holds, RequestType, RequestShape, Null
  <2> QED
    BY <1>12, <1>a, <1>b, <2>1, RequestStep DEF CancelOrderCheck
<1>13. ASSUME NEW h \in Handlers, CancelOrderWrite(h)
       PROVE  TypeOK'
  <2>1. request[h].order \in Orders /\ "CANCELLED" \in OrderStatuses
    BY <1>13 DEF Requests, RequestShape, CancelOrderWrite, OrderStatuses
  <2> QED
    BY <1>d, <1>10, <1>13, <2>1 DEF CancelOrderWrite
<1>14. ASSUME NEW h \in Handlers, Abandon(h)
       PROVE  TypeOK'
  BY <1>14, <1>a, <1>b, <1>d DEF Abandon
<1>15. CASE UNCHANGED vars
  BY <1>15, <1>a, <1>b, <1>c DEF vars
<1> QED
  BY <1>1, <1>2, <1>3, <1>4, <1>5, <1>6, <1>7, <1>8, <1>9, <1>11, <1>12, <1>13, <1>14, <1>15
     DEF Next, RoomRequest, OrderRequest

\* Every reachable state is well formed: rows and counters have their types, a live
\* room takes at least one guest, no id is used before it is issued, and a request
\* half done names the rows it checked.
THEOREM TypeCorrect == Spec => []TypeOK
BY InitType, NextType, PTL DEF Spec

----------------------------------------------------------------------------
\* The race bounds.

LEMMA InitIInv == Init => IInv
<1> SUFFICES ASSUME Init PROVE IInv
  OBVIOUS
<1>1. TypeOK
  BY InitType
<1>2. \A o \in Orders : orders[o] = NoOrder
  BY DEF Init
<1>3. ReferencesHold
  <2>1. \A r \in Rooms : rooms[r].capacity \in Int /\ highWater[r] = rooms[r].capacity
    BY <1>1, BoundsAssumption DEF Init, TypeOK, RoomTable
  <2> QED
    BY <1>2, <2>1 DEF ReferencesHold, NoOrder
<1>4. \A r, t : Guests(r, t) = {} /\ Guests(r, t) \ raced = {}
  BY <1>2 DEF Guests, Holding, NoOrder
<1>5. \A r \in Rooms : rooms[r].capacity >= 0 /\ highWater[r] >= 0
  BY <1>1, BoundsAssumption DEF TypeOK, RoomTable
<1>6. GuestsWithinHighWater /\ OverloadIsRaced
  BY <1>4, <1>5, FS_EmptySet DEF GuestsWithinHighWater, OverloadIsRaced
<1>7. CleaningIntruderIsRaced /\ RoomlessOrderIsRaced
  BY <1>2 DEF CleaningIntruderIsRaced, RoomlessOrderIsRaced, HoldingIn, Holding, NoOrder
<1>8. ChecksStillBind
  BY DEF Init, ChecksStillBind, Binds, Idle, Holds
<1> QED
  BY <1>1, <1>3, <1>6, <1>7, <1>8 DEF IInv

\* The step leaves order o in its room and its interval, and no more active than it was.
SameStay(o) ==
  /\ orders'[o].room = orders[o].room
  /\ orders'[o].start = orders[o].start /\ orders'[o].end = orders[o].end
  /\ Holding(o)' => Holding(o)

\* If every order of room r is raced or stays as it was, the room gains no unraced guest.
LEMMA UnracedGuestsFall ==
  ASSUME raced \subseteq raced', NEW r,
         \A o \in Orders : orders'[o].room = r => o \in raced' \/ SameStay(o)
  PROVE  /\ \A t \in Times : Cardinality(Guests(r, t) \ raced)' <= Cardinality(Guests(r, t) \ raced)
         /\ HoldingIn(r)' \subseteq HoldingIn(r) \cup raced'
<1>1. ASSUME NEW t \in Times
      PROVE  Cardinality(Guests(r, t) \ raced)' <= Cardinality(Guests(r, t) \ raced)
  <2>1. Guests(r, t)' \ raced' \subseteq Guests(r, t) \ raced
    BY DEF Guests, SameStay
  <2>2. Guests(r, t) \ raced \in SUBSET Orders
    BY DEF Guests
  <2> QED
    BY <2>1, <2>2, OrderSets
<1>2. HoldingIn(r)' \subseteq HoldingIn(r) \cup raced'
  BY DEF HoldingIn, SameStay
<1> QED
  BY <1>1, <1>2

\* A check goes on binding through a step that adds no unraced order to its room.
LEMMA BindingKept ==
  ASSUME TypeOK, TypeOK', ChecksStillBind, raced \subseteq raced', NEW g \in Handlers,
         request'[g] = request[g],
         request[g].op \in {"UpdateRoom", "UpdateRoomStatus", "DeleteRoom"} =>
           \A o \in Orders : orders'[o].room = request[g].room => o \in raced' \/ SameStay(o)
  PROVE  Binds(request[g])'
<1>1. PICK q : q = request[g]
  OBVIOUS
<1>2. q = request'[g] /\ q \in RequestType /\ RequestShape(q)
  BY <1>1 DEF TypeOK, Requests
<1>3. Binds(q)
  BY <1>1 DEF ChecksStillBind
<1>4. q.op \in {"UpdateRoom", "UpdateRoomStatus", "DeleteRoom"} =>
        \A o \in Orders : orders'[o].room = q.room => o \in raced' \/ SameStay(o)
  BY <1>1
<1>5. ASSUME q.op \in {"UpdateRoom", "UpdateRoomStatus"}
      PROVE  /\ \A t \in Times : Cardinality(Guests(q.room, t) \ raced)' <= Cardinality(Guests(q.room, t) \ raced)
             /\ HoldingIn(q.room)' \subseteq HoldingIn(q.room) \cup raced'
  BY <1>4, <1>5, UnracedGuestsFall
<1>6. ASSUME q.op = "UpdateRoom", NEW t \in Times
      PROVE  Cardinality(Guests(q.room, t) \ raced)' <= q.capacity
  <2>1. Cardinality(Guests(q.room, t) \ raced) <= q.capacity
    BY <1>3, <1>6 DEF Binds
  <2>2. /\ Guests(q.room, t) \ raced \in SUBSET Orders
        /\ (Guests(q.room, t) \ raced)' \in SUBSET Orders
    BY DEF Guests
  <2>3. /\ Cardinality(Guests(q.room, t) \ raced) \in Nat
        /\ Cardinality(Guests(q.room, t) \ raced)' \in Nat
    BY <2>2, OrderSets
  <2>4. q.capacity \in Int
    BY <1>2, BoundsAssumption DEF RequestType
  <2> QED
    BY <1>5, <1>6, <2>1, <2>3, <2>4
<1>7. ASSUME \/ q.op = "UpdateRoom" /\ q.status = "CLEANING"
             \/ q.op = "UpdateRoomStatus"
      PROVE  HoldingIn(q.room)' \subseteq raced'
  BY <1>3, <1>5, <1>7 DEF Binds
<1>8. ASSUME q.op = "DeleteRoom", NEW o \in Orders, orders'[o].room = q.room
      PROVE  o \in raced'
  BY <1>3, <1>4, <1>8 DEF Binds, SameStay
<1> QED
  BY <1>1, <1>2, <1>6, <1>7, <1>8 DEF Binds

\* A step that admits no order: one that still has a room is as it was or less active.
Settled ==
  /\ raced' = raced
  /\ \A o \in Orders : orders'[o].room # Null => SameStay(o)

\* Such a step adds no guest anywhere.
LEMMA SettledGuests ==
  ASSUME Settled, NEW r \in Rooms
  PROVE  /\ HoldingIn(r)' \subseteq HoldingIn(r)
         /\ \A t \in Times :
              /\ Cardinality(Guests(r, t)) \in Nat /\ Cardinality(Guests(r, t))' \in Nat
              /\ Cardinality(Guests(r, t))' <= Cardinality(Guests(r, t))
              /\ Cardinality(Guests(r, t) \ raced) \in Nat
              /\ Cardinality(Guests(r, t) \ raced)' \in Nat
              /\ Cardinality(Guests(r, t) \ raced)' <= Cardinality(Guests(r, t) \ raced)
<1>1. r # Null
  BY DEF Rooms, Null
<1>2. \A o \in Orders : orders'[o].room = r => SameStay(o)
  BY <1>1 DEF Settled
<1>3. HoldingIn(r)' \subseteq HoldingIn(r)
  BY <1>2 DEF HoldingIn, SameStay
<1>4. ASSUME NEW t \in Times
      PROVE  /\ Cardinality(Guests(r, t)) \in Nat /\ Cardinality(Guests(r, t))' \in Nat
             /\ Cardinality(Guests(r, t))' <= Cardinality(Guests(r, t))
             /\ Cardinality(Guests(r, t) \ raced) \in Nat
             /\ Cardinality(Guests(r, t) \ raced)' \in Nat
             /\ Cardinality(Guests(r, t) \ raced)' <= Cardinality(Guests(r, t) \ raced)
  <2>1. Guests(r, t)' \subseteq Guests(r, t) /\ Guests(r, t) \in SUBSET Orders
    BY <1>2 DEF Guests, SameStay
  <2>2. (Guests(r, t) \ raced)' \subseteq Guests(r, t) \ raced
    BY <2>1 DEF Settled
  <2>3. Guests(r, t) \ raced \in SUBSET Orders
    BY <2>1
  <2> QED
    BY <2>1, <2>2, <2>3, OrderSets
<1> QED
  BY <1>3, <1>4

\* What the bounds say of one room.
RoomBound(r) ==
  /\ Exists(r) => \A t \in Times : Cardinality(Guests(r, t) \ raced) <= rooms[r].capacity
  /\ rooms[r].status = "CLEANING" => HoldingIn(r) \subseteq raced

LEMMA RoomBounds ==
  (OverloadIsRaced /\ CleaningIntruderIsRaced) <=> \A r \in Rooms : RoomBound(r)
BY DEF OverloadIsRaced, CleaningIntruderIsRaced, RoomBound

\* A step that admits no order keeps the bound of a room whose row it leaves alone.
LEMMA SettledRoom ==
  ASSUME IInv, TypeOK', Settled, NEW r \in Rooms, rooms'[r] = rooms[r]
  PROVE  RoomBound(r)'
<1>1. RoomBound(r)
  BY RoomBounds DEF IInv
<1>2. rooms[r].capacity \in Int
  BY BoundsAssumption DEF IInv, TypeOK, RoomTable
<1>3. ASSUME Exists(r)', NEW t \in Times
      PROVE  Cardinality(Guests(r, t) \ raced)' <= rooms'[r].capacity
  <2>1. Cardinality(Guests(r, t) \ raced) <= rooms[r].capacity
    BY <1>1, <1>3 DEF RoomBound, Exists
  <2>2. /\ Cardinality(Guests(r, t) \ raced) \in Nat
        /\ Cardinality(Guests(r, t) \ raced)' \in Nat
        /\ Cardinality(Guests(r, t) \ raced)' <= Cardinality(Guests(r, t) \ raced)
    BY SettledGuests
  <2> QED
    BY <1>2, <2>1, <2>2
<1>4. ASSUME rooms'[r].status = "CLEANING"
      PROVE  HoldingIn(r)' \subseteq raced'
  BY <1>1, <1>4, SettledGuests DEF RoomBound, Settled
<1> QED
  BY <1>3, <1>4 DEF RoomBound

\* A step of handler h that admits no order and lowers no high-water mark keeps the
\* unconditional bound, and every check but that of h itself.
LEMMA SettledStep ==
  ASSUME IInv, TypeOK', Settled, NEW h \in Handlers, Binds(request[h])',
         \A g \in Handlers : g # h => request'[g] = request[g],
         \A r \in Rooms : highWater'[r] >= highWater[r]
  PROVE  GuestsWithinHighWater' /\ ChecksStillBind'
<1>1. ASSUME NEW r \in Rooms, NEW t \in Times
      PROVE  Cardinality(Guests(r, t))' <= highWater'[r]
  <2>1. highWater[r] \in Int /\ highWater'[r] \in Int
    BY BoundsAssumption DEF IInv, TypeOK, RoomTable
  <2>2. Cardinality(Guests(r, t)) <= highWater[r]
    BY DEF IInv, GuestsWithinHighWater
  <2>3. /\ Cardinality(Guests(r, t)) \in Nat /\ Cardinality(Guests(r, t))' \in Nat
        /\ Cardinality(Guests(r, t))' <= Cardinality(Guests(r, t))
    BY SettledGuests
  <2>4. highWater'[r] >= highWater[r]
    OBVIOUS
  <2> QED
    BY <2>1, <2>2, <2>3, <2>4
<1>2. ASSUME NEW g \in Handlers
      PROVE  Binds(request[g])'
  <2>1. CASE g = h
    BY <2>1
  <2>2. CASE g # h
    <3>1. request'[g] = request[g] /\ request[g] \in RequestType /\ RequestShape(request[g])
      BY <2>2 DEF IInv, TypeOK, Requests
    <3>2. request[g].op \in {"UpdateRoom", "UpdateRoomStatus", "DeleteRoom"} => request[g].room # Null
      BY <3>1 DEF RequestShape, Rooms, Null
    <3> QED
      BY <3>1, <3>2, BindingKept DEF IInv, Settled
  <2> QED
    BY <2>1, <2>2
<1> QED
  BY <1>1, <1>2 DEF GuestsWithinHighWater, ChecksStillBind

\* A handler that has ended its request is bound by nothing.
LEMMA IdleBinds ==
  ASSUME NEW h \in Handlers, request'[h] = Idle
  PROVE  Binds(request[h])'
BY DEF Binds, Idle, Holds

\* Such a step keeps every order in a live room unless it deletes the room, and makes
\* no unraced order roomless unless it deletes under one.
LEMMA SettledOrders ==
  ASSUME IInv, Settled,
         \A o \in Orders : /\ orders'[o].status # "none" => orders[o].status # "none"
                           /\ orders'[o].room = Null => orders[o].room = Null \/ o \in raced,
         \A o \in Orders : orders'[o].room # Null /\ rooms[orders[o].room].status # "none"
                            => rooms'[orders[o].room].status # "none",
         \A r \in Rooms : rooms'[r].capacity <= highWater'[r]
  PROVE  RoomlessOrderIsRaced' /\ ReferencesHold'
BY DEF IInv, RoomlessOrderIsRaced, ReferencesHold, Settled, SameStay, Exists

LEMMA OrdersUntouched ==
  ASSUME UNCHANGED <<orders, raced>>
  PROVE  /\ Settled
         /\ \A o \in Orders : /\ orders'[o].status # "none" => orders[o].status # "none"
                              /\ orders'[o].room = Null => orders[o].room = Null \/ o \in raced
BY DEF Settled, SameStay, Holding

LEMMA StatusSettled ==
  ASSUME TypeOK, NEW o \in Orders, NEW next, SetOrderStatus(o, next)
  PROVE  /\ Settled
         /\ \A x \in Orders : /\ orders'[x].status # "none" => orders[x].status # "none"
                              /\ orders'[x].room = orders[x].room
<1>1. orders' = [orders EXCEPT ![o].status = next] /\ raced' = raced
  BY DEF SetOrderStatus
<1>2. orders[o].status \notin {"none", "COMPLETED", "CANCELLED"}
  BY DEF SetOrderStatus, validOrderTransition
<1>3. ASSUME NEW x \in Orders
      PROVE  /\ orders'[x].room = orders[x].room
             /\ orders'[x].start = orders[x].start /\ orders'[x].end = orders[x].end
             /\ x # o => orders'[x].status = orders[x].status
  BY <1>1 DEF TypeOK, OrderTable, OrderRow
<1> QED
  BY <1>1, <1>2, <1>3 DEF Settled, SameStay, Holding

\* A step that touches neither rooms nor the history keeps the invariant, if it admits
\* no order and what its handler newly holds is bound.
LEMMA RoomsUntouched ==
  ASSUME IInv, TypeOK', Settled, UNCHANGED <<rooms, highWater>>,
         \A o \in Orders : /\ orders'[o].status # "none" => orders[o].status # "none"
                           /\ orders'[o].room = Null => orders[o].room = Null \/ o \in raced,
         NEW h \in Handlers, Binds(request[h])',
         \A g \in Handlers : g # h => request'[g] = request[g]
  PROVE  IInv'
<1>1. \A r \in Rooms : RoomBound(r)'
  BY SettledRoom
<1>2. OverloadIsRaced' /\ CleaningIntruderIsRaced'
  BY <1>1, RoomBounds DEF OverloadIsRaced, CleaningIntruderIsRaced, RoomBound
<1>3. \A r \in Rooms : highWater'[r] >= highWater[r] /\ rooms'[r].capacity <= highWater'[r]
  BY BoundsAssumption DEF IInv, TypeOK, RoomTable, ReferencesHold
<1>4. GuestsWithinHighWater' /\ ChecksStillBind'
  BY <1>3, SettledStep
<1>5. RoomlessOrderIsRaced' /\ ReferencesHold'
  BY <1>3, SettledOrders
<1> QED
  BY <1>2, <1>4, <1>5 DEF IInv

\* Room administration's writes and inserts: one room changes, the orders do not.
LEMMA RoomWritten ==
  ASSUME IInv, TypeOK', UNCHANGED <<orders, raced>>, NEW w \in Rooms,
         \A r \in Rooms : r # w => rooms'[r] = rooms[r] /\ highWater'[r] = highWater[r],
         RoomBound(w)', rooms'[w].status # "none",
         highWater'[w] >= highWater[w], rooms'[w].capacity <= highWater'[w],
         NEW h \in Handlers, Binds(request[h])',
         \A g \in Handlers : g # h => request'[g] = request[g]
  PROVE  IInv'
<1>0. Settled
  BY OrdersUntouched
<1>1. \A r \in Rooms : RoomBound(r)'
  BY <1>0, SettledRoom
<1>2. OverloadIsRaced' /\ CleaningIntruderIsRaced'
  BY <1>1 DEF OverloadIsRaced, CleaningIntruderIsRaced, RoomBound
<1>3. ASSUME NEW r \in Rooms
      PROVE  highWater'[r] >= highWater[r] /\ rooms'[r].capacity <= highWater'[r]
  <2>1. highWater[r] \in Int /\ rooms[r].capacity <= highWater[r]
    BY BoundsAssumption DEF IInv, TypeOK, RoomTable, ReferencesHold
  <2>2. CASE r = w
    BY <2>2
  <2>3. CASE r # w
    BY <2>1, <2>3
  <2> QED
    BY <2>2, <2>3
<1>4. GuestsWithinHighWater' /\ ChecksStillBind'
  BY <1>0, <1>3, SettledStep
<1>5. \A o \in Orders : orders'[o].room # Null /\ rooms[orders[o].room].status # "none"
        => rooms'[orders[o].room].status # "none"
  BY DEF IInv, TypeOK, OrderTable, OrderRow
<1>6. RoomlessOrderIsRaced' /\ ReferencesHold'
  BY <1>3, <1>5, OrdersUntouched, SettledOrders
<1> QED
  BY <1>2, <1>4, <1>6 DEF IInv

\* CreateOrder: the order is admitted below the room's capacity, and is raced for every
\* request that has already checked the room.
LEMMA CreateKeeps ==
  ASSUME IInv, TypeOK', NEW c \in Handlers, NEW r \in Rooms, NEW s \in Times, NEW e \in Times,
         CreateOrder(c, r, s, e)
  PROVE  IInv'
<1> DEFINE n == lastOrder + 1
           Covers(t) == Second(s) <= Second(t) /\ Second(t) < Second(e)
<1> USE DEF IInv
<1>1. /\ n \in Orders /\ s < e
      /\ orders' = [orders EXCEPT ![n] = [status |-> "PENDING", room |-> r, start |-> s, end |-> e]]
      /\ UNCHANGED <<rooms, request, highWater>>
      /\ raced' = IF CheckPendingOn(r) THEN raced \cup {n} ELSE raced
      /\ rooms[r].status = "AVAILABLE"
      /\ Cardinality(Overlapping(r, s, e)) < rooms[r].capacity
  BY BoundsAssumption DEF CreateOrder, TypeOK, OrderTable, Orders
<1>2. /\ orders'[n] = [status |-> "PENDING", room |-> r, start |-> s, end |-> e]
      /\ \A o \in Orders : o # n => orders'[o] = orders[o]
  BY <1>1 DEF TypeOK, OrderTable
<1>3. \A o \in Orders : o # n => SameStay(o)
  BY <1>2 DEF SameStay, Holding
<1>4. raced \subseteq raced' /\ (CheckPendingOn(r) => n \in raced') /\ raced' \subseteq raced \cup {n}
  BY <1>1
<1>5. r # Null /\ Exists(r)
  BY <1>1 DEF Rooms, Null, Exists
<1>6. ReferencesHold' /\ RoomlessOrderIsRaced'
  BY <1>1, <1>2, <1>4, <1>5 DEF ReferencesHold, RoomlessOrderIsRaced, Exists
\* The room the order is booked for, in a second of its stay.
<1>7. ASSUME NEW t \in Times, Covers(t)
      PROVE  /\ Cardinality(Guests(r, t))' <= rooms[r].capacity
             /\ Cardinality(Guests(r, t) \ raced)' <= rooms[r].capacity
  <2>1. Guests(r, t)' \subseteq Guests(r, t) \cup {n}
    BY <1>2 DEF Guests, Holding
  <2>2. /\ Guests(r, t) \subseteq Overlapping(r, s, e)
        /\ Overlapping(r, s, e) \in SUBSET Orders
    BY <1>7, GuestsOverlap
  <2>3. /\ Guests(r, t)' \in SUBSET Orders
        /\ Guests(r, t)' \subseteq Overlapping(r, s, e) \cup {n}
    BY <2>1, <2>2 DEF Guests
  <2>4. Cardinality(Guests(r, t)') <= Cardinality(Overlapping(r, s, e)) + 1
    BY <1>1, <2>2, <2>3, OneMoreOrder
  <2>5. /\ Guests(r, t)' \ raced' \in SUBSET Guests(r, t)'
        /\ Cardinality(Guests(r, t)' \ raced') <= Cardinality(Guests(r, t)')
        /\ Cardinality(Guests(r, t)' \ raced') \in Nat /\ Cardinality(Guests(r, t)') \in Nat
    BY <2>3, OrderSets
  <2>6. Cardinality(Overlapping(r, s, e)) \in Nat /\ rooms[r].capacity \in Int
    BY <2>2, OrderSets, BoundsAssumption DEF TypeOK, RoomTable
  <2> QED
    BY <1>1, <2>4, <2>5, <2>6
\* Any other room, or another second: the same guests, fewer of them unraced.
<1>8. ASSUME NEW x \in Rooms, NEW t \in Times, ~(x = r /\ Covers(t))
      PROVE  /\ Cardinality(Guests(x, t))' = Cardinality(Guests(x, t))
             /\ Cardinality(Guests(x, t) \ raced)' <= Cardinality(Guests(x, t) \ raced)
             /\ Cardinality(Guests(x, t) \ raced)' \in Nat
             /\ Cardinality(Guests(x, t) \ raced) \in Nat
  <2>1. n \notin Guests(x, t) /\ n \notin Guests(x, t)'
    <3>1. orders[n].status = "none"
      BY <1>1, BoundsAssumption DEF TypeOK, OrderTable
    <3> QED
      BY <1>2, <1>8, <3>1 DEF Guests, Holding
  <2>2. Guests(x, t)' = Guests(x, t)
    BY <1>2, <2>1 DEF Guests, Holding
  <2>3. /\ Guests(x, t) \ raced \in SUBSET Orders
        /\ Guests(x, t)' \ raced' \in SUBSET (Guests(x, t) \ raced)
    BY <1>4, <2>2 DEF Guests
  <2> QED
    BY <2>2, <2>3, OrderSets
<1>9. GuestsWithinHighWater'
  <2> SUFFICES ASSUME NEW x \in Rooms, NEW t \in Times
               PROVE  Cardinality(Guests(x, t))' <= highWater'[x]
    BY DEF GuestsWithinHighWater
  <2>1. CASE x = r /\ Covers(t)
    <3>1. rooms[r].capacity <= highWater[r] /\ rooms[r].capacity \in Int /\ highWater[r] \in Int
      BY BoundsAssumption DEF ReferencesHold, TypeOK, RoomTable
    <3>2. Cardinality(Guests(r, t))' \in Nat
      <4>1. Guests(r, t)' \in SUBSET Orders
        BY DEF Guests
      <4> QED
        BY <4>1, OrderSets
    <3>3. Cardinality(Guests(r, t))' <= rooms[r].capacity
      BY <1>7, <2>1
    <3> QED
      BY <1>1, <2>1, <3>1, <3>2, <3>3
  <2>2. CASE ~(x = r /\ Covers(t))
    BY <1>1, <1>8, <2>2 DEF GuestsWithinHighWater
  <2> QED
    BY <2>1, <2>2
<1>10. OverloadIsRaced'
  <2> SUFFICES ASSUME NEW x \in Rooms, NEW t \in Times, Exists(x)'
               PROVE  Cardinality(Guests(x, t) \ raced)' <= rooms'[x].capacity
    BY DEF OverloadIsRaced
  <2>1. CASE x = r /\ Covers(t)
    <3>1. Cardinality(Guests(r, t) \ raced)' <= rooms[r].capacity
      BY <1>7, <2>1
    <3> QED
      BY <1>1, <2>1, <3>1
  <2>2. CASE ~(x = r /\ Covers(t))
    <3>1. Cardinality(Guests(x, t) \ raced) <= rooms[x].capacity
      BY <1>1 DEF OverloadIsRaced, Exists
    <3>2. rooms[x].capacity \in Int
      BY BoundsAssumption DEF TypeOK, RoomTable
    <3>3. /\ Cardinality(Guests(x, t) \ raced)' <= Cardinality(Guests(x, t) \ raced)
          /\ Cardinality(Guests(x, t) \ raced)' \in Nat
          /\ Cardinality(Guests(x, t) \ raced) \in Nat
      BY <1>8, <2>2
    <3> QED
      BY <1>1, <3>1, <3>2, <3>3
  <2> QED
    BY <2>1, <2>2
<1>11. CleaningIntruderIsRaced'
  <2> SUFFICES ASSUME NEW x \in Rooms, rooms'[x].status = "CLEANING"
               PROVE  HoldingIn(x)' \subseteq raced'
    BY DEF CleaningIntruderIsRaced
  <2>1. x # r /\ HoldingIn(x) \subseteq raced
    BY <1>1 DEF CleaningIntruderIsRaced
  <2>2. HoldingIn(x)' \subseteq HoldingIn(x)
    BY <1>2, <2>1 DEF HoldingIn, Holding
  <2> QED
    BY <1>4, <2>1, <2>2
<1>12. ASSUME NEW g \in Handlers
       PROVE  Binds(request[g])'
  <2>1. ASSUME request[g].op \in {"UpdateRoom", "UpdateRoomStatus", "DeleteRoom"},
               NEW o \in Orders, orders'[o].room = request[g].room
        PROVE  o \in raced' \/ SameStay(o)
    BY <1>2, <1>3, <1>4, <2>1 DEF CheckPendingOn
  <2> QED
    BY <1>1, <1>4, <2>1, BindingKept
<1> QED
  BY <1>6, <1>9, <1>10, <1>11, <1>12 DEF ChecksStillBind

LEMMA NextIInv == IInv /\ [Next]_vars => IInv'
<1> SUFFICES ASSUME IInv, [Next]_vars PROVE IInv'
  OBVIOUS
<1>0. TypeOK /\ TypeOK'
  BY NextType DEF IInv
<1>a. ASSUME NEW h \in Handlers, NEW q, request' = [request EXCEPT ![h] = q]
      PROVE  request'[h] = q /\ \A g \in Handlers : g # h => request'[g] = request[g]
  BY <1>0, <1>a DEF TypeOK, Requests
<1>b. ASSUME NEW h \in Handlers, request' = [request EXCEPT ![h] = Idle]
      PROVE  Binds(request[h])' /\ \A g \in Handlers : g # h => request'[g] = request[g]
  BY <1>a, <1>b, IdleBinds
<1>1. ASSUME NEW h \in Handlers, NEW c \in 0..MaxCapacity, NEW st \in RoomStatuses,
             AddRoom(h, c, st)
      PROVE  IInv'
  <2>0. PICK n : n = lastRoom + 1
    OBVIOUS
  <2>1. /\ n \in Rooms /\ UNCHANGED <<orders, raced, request>>
        /\ rooms' = [rooms EXCEPT ![n] = [status |-> st, capacity |-> AddedCapacity(c)]]
        /\ highWater' = [highWater EXCEPT ![n] = Larger(highWater[n], AddedCapacity(c))]
    BY <1>0, <1>1, <2>0, BoundsAssumption DEF AddRoom, TypeOK, RoomTable, Rooms
  <2>2. ~Exists(n)
    BY <1>0, <2>0, <2>1, BoundsAssumption DEF TypeOK, RoomTable
  <2>3. \A o \in Orders : orders[o].room # n
    BY <2>1, <2>2 DEF IInv, ReferencesHold, Rooms, Null
  <2>4. HoldingIn(n)' = {} /\ \A t \in Times : Guests(n, t)' \ raced' = {}
    BY <2>1, <2>3 DEF HoldingIn, Guests
  <2>5. rooms'[n].status = st /\ rooms'[n].capacity = AddedCapacity(c)
    BY <1>0, <2>1 DEF TypeOK, RoomTable
  <2>6. AddedCapacity(c) \in Int /\ AddedCapacity(c) >= 1 /\ highWater[n] \in Int
    BY <1>0, <2>1, BoundsAssumption DEF TypeOK, RoomTable, AddedCapacity, Larger
  <2>7. RoomBound(n)'
    <3>1. \A t \in Times : Cardinality(Guests(n, t) \ raced)' = 0
      BY <2>4, FS_EmptySet
    <3> QED
      BY <2>4, <2>5, <2>6, <3>1 DEF RoomBound
  <2>8. \A r \in Rooms : r # n => rooms'[r] = rooms[r] /\ highWater'[r] = highWater[r]
    BY <1>0, <2>1 DEF TypeOK, RoomTable
  <2>9. highWater'[n] = Larger(highWater[n], AddedCapacity(c))
    BY <1>0, <2>1 DEF TypeOK, RoomTable
  <2>10. highWater'[n] >= highWater[n] /\ rooms'[n].capacity <= highWater'[n]
    BY <2>5, <2>6, <2>9 DEF Larger
  <2>11. Binds(request[h])'
    BY <1>1, IdleBinds DEF AddRoom, IsIdle
  <2> QED
    BY <1>0, <2>1, <2>5, <2>7, <2>8, <2>10, <2>11, BoundsAssumption, RoomWritten
<1>2. ASSUME NEW h \in Handlers, NEW r \in Rooms, NEW c \in 1..MaxCapacity,
             NEW st \in RoomStatuses, UpdateRoomCheck(h, r, c, st)
      PROVE  IInv'
  <2>1. /\ UNCHANGED <<rooms, highWater, orders, raced>>
        /\ request'[h] = Holds("UpdateRoom", r, Null, st, c)
        /\ \A g \in Handlers : g # h => request'[g] = request[g]
    BY <1>2, <1>a DEF UpdateRoomCheck
  <2>2. /\ c >= Cardinality(ActiveOrders(r))
        /\ st = "CLEANING" => ActiveOrders(r) = {}
    BY <1>2 DEF UpdateRoomCheck, RoomFits
  <2>3. /\ ActiveOrders(r) = HoldingIn(r) /\ ActiveOrders(r) \in SUBSET Orders
        /\ \A t \in Times : Guests(r, t) \in SUBSET ActiveOrders(r)
    BY <1>0, ActiveIsHolding
  <2>4. ASSUME NEW t \in Times
        PROVE  Cardinality(Guests(r, t) \ raced) <= c
    <3>1. Guests(r, t) \ raced \in SUBSET ActiveOrders(r)
      BY <2>3
    <3> QED
      BY <2>2, <2>3, <3>1, OrderSets
  <2>5. /\ HoldingIn(r)' = HoldingIn(r) /\ raced' = raced
        /\ \A t \in Times : Cardinality(Guests(r, t) \ raced)' = Cardinality(Guests(r, t) \ raced)
    BY <2>1 DEF HoldingIn, Holding, Guests
  <2>6. Binds(request[h])'
    <3>1. \A t \in Times : Cardinality(Guests(r, t) \ raced)' <= c
      BY <2>4, <2>5
    <3>2. st = "CLEANING" => HoldingIn(r)' \subseteq raced'
      BY <2>2, <2>3, <2>5
    <3> QED
      BY <2>1, <3>1, <3>2 DEF Binds, Holds
  <2> QED
    BY <1>0, <2>1, <2>6, OrdersUntouched, RoomsUntouched
<1>3. ASSUME NEW h \in Handlers, NEW r \in Rooms, NEW st \in RoomStatuses,
             UpdateRoomStatusCheck(h, r, st)
      PROVE  IInv'
  <2>1. /\ UNCHANGED <<rooms, highWater, orders, raced>>
        /\ request'[h] = Holds("UpdateRoomStatus", r, Null, st, 0)
        /\ \A g \in Handlers : g # h => request'[g] = request[g]
    BY <1>3, <1>a DEF UpdateRoomStatusCheck
  <2>2. HoldingIn(r) = {}
    BY <1>0, <1>3, ActiveIsHolding DEF UpdateRoomStatusCheck
  <2>3. HoldingIn(r)' = {}
    BY <2>1, <2>2 DEF HoldingIn, Holding
  <2>4. Binds(request[h])'
    BY <2>1, <2>3 DEF Binds, Holds
  <2> QED
    BY <1>0, <2>1, <2>4, OrdersUntouched, RoomsUntouched
<1>4. ASSUME NEW h \in Handlers, NEW r \in Rooms, MakeRoomAvailable(h, r)
      PROVE  IInv'
  <2>1. /\ UNCHANGED <<highWater, orders, raced, request>>
        /\ rooms'[r].status = "AVAILABLE" /\ rooms'[r].capacity = rooms[r].capacity
        /\ \A x \in Rooms : x # r => rooms'[x] = rooms[x]
        /\ Exists(r)
    BY <1>0, <1>4 DEF MakeRoomAvailable, TypeOK, RoomTable
  <2>2. \A t \in Times : Cardinality(Guests(r, t) \ raced)' = Cardinality(Guests(r, t) \ raced)
    BY <2>1 DEF Guests, Holding
  <2>3. RoomBound(r)'
    BY <2>1, <2>2 DEF RoomBound, IInv, OverloadIsRaced
  <2>4. highWater'[r] >= highWater[r] /\ rooms'[r].capacity <= highWater'[r]
    BY <1>0, <2>1, BoundsAssumption DEF IInv, ReferencesHold, TypeOK, RoomTable
  <2>5. Binds(request[h])'
    BY <1>4, <2>1, IdleBinds DEF MakeRoomAvailable, IsIdle
  <2> QED
    BY <1>0, <2>1, <2>3, <2>4, <2>5, RoomWritten
<1>5. ASSUME NEW h \in Handlers, NEW r \in Rooms, DeleteRoomCheck(h, r)
      PROVE  IInv'
  <2>1. /\ UNCHANGED <<rooms, highWater, orders, raced>>
        /\ request'[h] = Holds("DeleteRoom", r, Null, "none", 0)
        /\ \A g \in Handlers : g # h => request'[g] = request[g]
    BY <1>5, <1>a DEF DeleteRoomCheck
  <2>2. \A o \in Orders : orders'[o].room # r
    BY <1>5, <2>1 DEF DeleteRoomCheck, Deletable
  <2>3. Binds(request[h])'
    BY <2>1, <2>2 DEF Binds, Holds
  <2> QED
    BY <1>0, <2>1, <2>3, OrdersUntouched, RoomsUntouched
<1>6. ASSUME NEW h \in Handlers, UpdateRoomWrite(h)
      PROVE  IInv'
  <2>1. PICK q : q = request[h]
    OBVIOUS
  <2>2. /\ q.op = "UpdateRoom" /\ q.room \in Rooms /\ q.capacity \in Int
        /\ q.status \in RoomStatuses /\ q.status # "none" /\ Binds(q)
    BY <1>0, <1>6, <2>1, BoundsAssumption
       DEF UpdateRoomWrite, TypeOK, Requests, RequestType, RequestShape, IInv, ChecksStillBind
  <2>3. /\ UNCHANGED <<orders, raced>>
        /\ rooms' = [rooms EXCEPT ![q.room] = [status |-> q.status, capacity |-> q.capacity]]
        /\ highWater' = [highWater EXCEPT ![q.room] = Larger(highWater[q.room], q.capacity)]
        /\ request' = [request EXCEPT ![h] = Idle]
    BY <1>6, <2>1 DEF UpdateRoomWrite
  <2>4. /\ rooms'[q.room].status = q.status /\ rooms'[q.room].capacity = q.capacity
        /\ highWater'[q.room] = Larger(highWater[q.room], q.capacity)
        /\ highWater[q.room] \in Int
        /\ \A x \in Rooms : x # q.room => rooms'[x] = rooms[x] /\ highWater'[x] = highWater[x]
    BY <1>0, <2>2, <2>3, BoundsAssumption DEF TypeOK, RoomTable
  <2>5. /\ HoldingIn(q.room)' = HoldingIn(q.room) /\ raced' = raced
        /\ \A t \in Times : Cardinality(Guests(q.room, t) \ raced)'
                            = Cardinality(Guests(q.room, t) \ raced)
    BY <2>3 DEF HoldingIn, Holding, Guests
  <2>6. RoomBound(q.room)'
    BY <2>2, <2>4, <2>5 DEF RoomBound, Binds
  <2>7. highWater'[q.room] >= highWater[q.room] /\ rooms'[q.room].capacity <= highWater'[q.room]
    BY <2>2, <2>4 DEF Larger
  <2> QED
    BY <1>0, <1>b, <2>2, <2>3, <2>4, <2>6, <2>7, RoomWritten
<1>7. ASSUME NEW h \in Handlers, UpdateRoomStatusWrite(h)
      PROVE  IInv'
  <2>1. PICK q : q = request[h]
    OBVIOUS
  <2>2. /\ q.op = "UpdateRoomStatus" /\ q.room \in Rooms
        /\ q.status \in RoomStatuses /\ q.status # "none" /\ Binds(q)
    BY <1>0, <1>7, <2>1, BoundsAssumption
       DEF UpdateRoomStatusWrite, TypeOK, Requests, RequestShape, IInv, ChecksStillBind
  <2>3. /\ UNCHANGED <<orders, raced, highWater>> /\ Exists(q.room)
        /\ rooms' = [rooms EXCEPT ![q.room].status = q.status]
        /\ request' = [request EXCEPT ![h] = Idle]
    BY <1>7, <2>1 DEF UpdateRoomStatusWrite
  <2>4. /\ rooms'[q.room].status = q.status
        /\ rooms'[q.room].capacity = rooms[q.room].capacity
        /\ \A x \in Rooms : x # q.room => rooms'[x] = rooms[x]
    BY <1>0, <2>2, <2>3 DEF TypeOK, RoomTable
  <2>5. /\ HoldingIn(q.room)' = HoldingIn(q.room)
        /\ \A t \in Times : Cardinality(Guests(q.room, t) \ raced)'
                            = Cardinality(Guests(q.room, t) \ raced)
    BY <2>3 DEF HoldingIn, Holding, Guests
  <2>6. RoomBound(q.room)'
    BY <2>2, <2>3, <2>4, <2>5 DEF RoomBound, Binds, IInv, OverloadIsRaced
  <2>7. highWater'[q.room] >= highWater[q.room] /\ rooms'[q.room].capacity <= highWater'[q.room]
    BY <1>0, <2>2, <2>3, <2>4, BoundsAssumption DEF IInv, ReferencesHold, TypeOK, RoomTable
  <2> QED
    BY <1>0, <1>b, <2>2, <2>3, <2>4, <2>6, <2>7, RoomWritten
<1>8. ASSUME NEW h \in Handlers, DeleteRoomWrite(h)
      PROVE  IInv'
  <2>1. PICK q : q = request[h]
    OBVIOUS
  <2>2. q.room \in Rooms /\ q.room # Null /\ \A o \in Orders : orders[o].room = q.room => o \in raced
    BY <1>0, <1>8, <2>1
       DEF DeleteRoomWrite, TypeOK, Requests, RequestShape, IInv, ChecksStillBind, Binds, Rooms, Null
  <2>3. /\ UNCHANGED <<raced, highWater>>
        /\ rooms' = [rooms EXCEPT ![q.room] = NoRoom]
        /\ orders' = [o \in Orders |-> IF orders[o].room = q.room
                                        THEN [orders[o] EXCEPT !.room = Null] ELSE orders[o]]
        /\ request' = [request EXCEPT ![h] = Idle]
    BY <1>8, <2>1 DEF DeleteRoomWrite
  <2>4. /\ rooms'[q.room] = NoRoom
        /\ \A x \in Rooms : x # q.room => rooms'[x] = rooms[x]
    BY <1>0, <2>2, <2>3 DEF TypeOK, RoomTable
  <2>5. \A o \in Orders :
          /\ orders[o].room = q.room => orders'[o].room = Null /\ orders'[o].status = orders[o].status
          /\ orders[o].room # q.room => orders'[o] = orders[o]
    BY <1>0, <2>3 DEF TypeOK, OrderTable, OrderRow
  <2>6. Settled
    BY <2>3, <2>5 DEF Settled, SameStay, Holding
  <2>7. RoomBound(q.room)'
    <3>1. \A o \in Orders : orders'[o].room # q.room
      BY <2>2, <2>5
    <3> QED
      BY <2>4, <3>1 DEF RoomBound, Exists, NoRoom
  <2>8. \A r \in Rooms : RoomBound(r)'
    BY <1>0, <2>4, <2>6, <2>7, SettledRoom
  <2>9. OverloadIsRaced' /\ CleaningIntruderIsRaced'
    BY <2>8 DEF OverloadIsRaced, CleaningIntruderIsRaced, RoomBound
  <2>10. ASSUME NEW r \in Rooms
         PROVE  highWater'[r] >= highWater[r] /\ rooms'[r].capacity <= highWater'[r]
    <3>1. highWater[r] >= 0 /\ highWater[r] \in Int /\ rooms[r].capacity <= highWater[r]
      BY <1>0, BoundsAssumption DEF IInv, ReferencesHold, TypeOK, RoomTable
    <3> QED
      BY <2>3, <2>4, <3>1 DEF NoRoom
  <2>11. GuestsWithinHighWater' /\ ChecksStillBind'
    BY <1>0, <1>b, <2>3, <2>6, <2>10, SettledStep
  <2>12. RoomlessOrderIsRaced'
    BY <2>2, <2>3, <2>5 DEF IInv, RoomlessOrderIsRaced
  <2>13. ReferencesHold'
    <3>1. \A o \in Orders : orders[o].room \in Rooms \cup {Null}
      BY <1>0 DEF TypeOK, OrderTable, OrderRow
    <3> QED
      BY <2>4, <2>5, <2>10, <3>1 DEF IInv, ReferencesHold, Exists
  <2> QED
    BY <1>0, <2>9, <2>11, <2>12, <2>13 DEF IInv
<1>9. ASSUME NEW h \in Handlers, NEW r \in Rooms, NEW s \in Times, NEW e \in Times,
             CreateOrder(h, r, s, e)
      PROVE  IInv'
  BY <1>0, <1>9, CreateKeeps
<1>10. ASSUME NEW h \in Handlers, NEW o \in Orders, NEW next, SetOrderStatus(o, next),
              Binds(request[h])', \A g \in Handlers : g # h => request'[g] = request[g]
       PROVE  IInv'
  <2>1. UNCHANGED <<rooms, highWater>>
    BY <1>10 DEF SetOrderStatus
  <2>2. /\ Settled
        /\ \A x \in Orders : /\ orders'[x].status # "none" => orders[x].status # "none"
                             /\ orders'[x].room = orders[x].room
    BY <1>0, <1>10, StatusSettled
  <2> QED
    BY <1>0, <1>10, <2>1, <2>2, RoomsUntouched
<1>11. ASSUME NEW h \in Handlers, NEW o \in Orders, NEW next \in OrderStatuses,
              UpdateOrderStatus(h, o, next)
       PROVE  IInv'
  BY <1>10, <1>11, IdleBinds DEF UpdateOrderStatus, IsIdle
<1>12. ASSUME NEW h \in Handlers, NEW o \in Orders, CancelOrderCheck(h, o)
       PROVE  IInv'
  <2>1. /\ UNCHANGED <<rooms, highWater, orders, raced>>
        /\ request'[h] = Holds("CancelOrder", Null, o, "none", 0)
        /\ \A g \in Handlers : g # h => request'[g] = request[g]
    BY <1>12, <1>a DEF CancelOrderCheck
  <2>2. Binds(request[h])'
    BY <2>1 DEF Binds, Holds
  <2> QED
    BY <1>0, <2>1, <2>2, OrdersUntouched, RoomsUntouched
<1>13. ASSUME NEW h \in Handlers, CancelOrderWrite(h)
       PROVE  IInv'
  <2>1. request[h].order \in Orders
    BY <1>0, <1>13 DEF CancelOrderWrite, TypeOK, Requests, RequestShape
  <2> QED
    BY <1>b, <1>10, <1>13, <2>1 DEF CancelOrderWrite
<1>14. ASSUME NEW h \in Handlers, Abandon(h)
       PROVE  IInv'
  BY <1>0, <1>b, <1>14, OrdersUntouched, RoomsUntouched DEF Abandon
<1>15. CASE UNCHANGED vars
  BY <1>0, <1>15 DEF vars, IInv, ReferencesHold, ChecksStillBind, Binds, GuestsWithinHighWater,
     OverloadIsRaced, CleaningIntruderIsRaced, RoomlessOrderIsRaced, Exists, Guests, HoldingIn, Holding
<1> QED
  BY <1>1, <1>2, <1>3, <1>4, <1>5, <1>6, <1>7, <1>8, <1>9, <1>11, <1>12, <1>13, <1>14, <1>15
     DEF Next, RoomRequest, OrderRequest

\* The bounds that hold together, however requests interleave.
LEMMA RaceBounds ==
  Spec => [](GuestsWithinHighWater /\ OverloadIsRaced /\ CleaningIntruderIsRaced
             /\ RoomlessOrderIsRaced)
<1>1. IInv => GuestsWithinHighWater /\ OverloadIsRaced /\ CleaningIntruderIsRaced
              /\ RoomlessOrderIsRaced
  BY DEF IInv
<1> QED
  BY InitIInv, NextIInv, <1>1, PTL DEF Spec

\* No second of any room sees more guests than the largest capacity the room has had:
\* CreateOrder's trigger holds under every interleaving.
THEOREM GuestsAreBounded == Spec => []GuestsWithinHighWater
BY RaceBounds, PTL

\* Every overload of a room's present capacity comes from an order admitted between
\* UpdateRoom's check and its write.
THEOREM OverloadsAreRaced == Spec => []OverloadIsRaced
BY RaceBounds, PTL

\* Every guest of a room under cleaning was admitted between a check and its write.
THEOREM IntrudersAreRaced == Spec => []CleaningIntruderIsRaced
BY RaceBounds, PTL

\* So was every order whose room was deleted under it.
THEOREM RoomlessAreRaced == Spec => []RoomlessOrderIsRaced
BY RaceBounds, PTL

----------------------------------------------------------------------------
\* One request at a time: nothing is raced, and the README's promise holds outright.

LEMMA SerialStep ==
  ASSUME \A g, h \in Handlers : g = h, raced = {}, [Next]_vars
  PROVE  raced' = {}
<1>1. ASSUME NEW h \in Handlers, NEW r \in Rooms, NEW s \in Times, NEW e \in Times,
             CreateOrder(h, r, s, e)
      PROVE  raced' = {}
  <2>1. ~CheckPendingOn(r)
    BY <1>1 DEF CreateOrder, IsIdle, CheckPendingOn, Idle, Holds
  <2> QED
    BY <1>1, <2>1 DEF CreateOrder
<1>2. ASSUME NEW h \in Handlers, RoomRequest(h) \/ Abandon(h)
      PROVE  raced' = {}
  BY <1>2 DEF RoomRequest, Abandon, AddRoom, UpdateRoomCheck, UpdateRoomWrite, MakeRoomAvailable,
     UpdateRoomStatusCheck, UpdateRoomStatusWrite, DeleteRoomCheck, DeleteRoomWrite
<1>3. ASSUME NEW h \in Handlers, OrderRequest(h)
      PROVE  raced' = {}
  BY <1>1, <1>3 DEF OrderRequest, UpdateOrderStatus, CancelOrderCheck, CancelOrderWrite, SetOrderStatus
<1>4. CASE UNCHANGED vars
  BY <1>4 DEF vars
<1> QED
  BY <1>2, <1>3, <1>4 DEF Next

\* With one request served at a time no room exceeds its capacity to the second, no guest is in a room
\* under cleaning, and every open order has its room: the races are the only cause.
THEOREM SerialRelationship ==
  ASSUME \A g, h \in Handlers : g = h
  PROVE  Spec => [](CapacityRespected /\ CleaningRoomIsEmpty /\ OpenOrderHasRoom)
<1>1. Init => IInv /\ raced = {}
  BY InitIInv DEF Init
<1>2. (IInv /\ raced = {}) /\ [Next]_vars => (IInv /\ raced = {})'
  BY NextIInv, SerialStep
<1>3. IInv /\ raced = {} => CapacityRespected /\ CleaningRoomIsEmpty /\ OpenOrderHasRoom
  <2> SUFFICES ASSUME IInv, raced = {}
               PROVE  CapacityRespected /\ CleaningRoomIsEmpty /\ OpenOrderHasRoom
    OBVIOUS
  <2>1. \A r, t : Guests(r, t) \ raced = Guests(r, t)
    OBVIOUS
  <2>2. CapacityRespected
    BY <2>1 DEF IInv, OverloadIsRaced, CapacityRespected
  <2>3. CleaningRoomIsEmpty
    BY DEF IInv, CleaningIntruderIsRaced, CleaningRoomIsEmpty
  <2>4. OpenOrderHasRoom
    BY DEF IInv, RoomlessOrderIsRaced, OpenOrderHasRoom, Holding
  <2> QED
    BY <2>2, <2>3, <2>4
<1> QED
  BY <1>1, <1>2, <1>3, PTL DEF Spec

----------------------------------------------------------------------------
\* The life of an order.

LEMMA StatusAdvances ==
  ASSUME TypeOK, NEW o \in Orders, NEW next, SetOrderStatus(o, next), NEW x \in Orders
  PROVE  OrderStep(x)
<1>1. orders' = [orders EXCEPT ![o].status = next]
  BY DEF SetOrderStatus
<1>2. <<orders[o].status, next>> \in Progress
  BY DEF SetOrderStatus, validOrderTransition, Progress
<1>3. /\ orders'[x].room = orders[x].room
      /\ orders'[x].start = orders[x].start /\ orders'[x].end = orders[x].end
      /\ orders'[x].status = IF x = o THEN next ELSE orders[x].status
  BY <1>1 DEF TypeOK, OrderTable, OrderRow
<1> QED
  BY <1>2, <1>3 DEF OrderStep

\* An order keeps its interval, keeps its room or loses it for good, and only moves
\* forward through its statuses, in every step of every interleaving.
THEOREM OrdersAdvance == Spec => OrdersOnlyAdvance
<1>1. ASSUME TypeOK, [Next]_vars
      PROVE  [\A o \in Orders : orders[o].status # "none" => OrderStep(o)]_vars
  <2> SUFFICES ASSUME NEW o \in Orders, orders[o].status # "none", Next
               PROVE  OrderStep(o)
    BY <1>1
  <2>1. CASE UNCHANGED orders
    BY <2>1 DEF OrderStep
  <2>2. ASSUME NEW h \in Handlers, NEW r \in Rooms, NEW s \in Times, NEW e \in Times,
               CreateOrder(h, r, s, e)
        PROVE  OrderStep(o)
    <3>1. o # lastOrder + 1
      BY <1>1, BoundsAssumption DEF TypeOK, OrderTable
    <3>2. orders'[o] = orders[o]
      BY <1>1, <2>2, <3>1 DEF CreateOrder, TypeOK, OrderTable
    <3> QED
      BY <3>2 DEF OrderStep
  <2>3. ASSUME NEW h \in Handlers, DeleteRoomWrite(h)
        PROVE  OrderStep(o)
    BY <1>1, <2>3 DEF DeleteRoomWrite, OrderStep, TypeOK, OrderTable, OrderRow
  <2>4. ASSUME NEW h \in Handlers, CancelOrderWrite(h)
        PROVE  OrderStep(o)
    BY <1>1, <2>4, StatusAdvances DEF CancelOrderWrite, TypeOK, Requests, RequestShape
  <2>5. ASSUME NEW h \in Handlers, NEW x \in Orders, NEW next, UpdateOrderStatus(h, x, next)
        PROVE  OrderStep(o)
    BY <1>1, <2>5, StatusAdvances DEF UpdateOrderStatus
  <2>6. ASSUME NEW h \in Handlers, RoomRequest(h)
        PROVE  OrderStep(o)
    BY <2>1, <2>3, <2>6 DEF RoomRequest, AddRoom, UpdateRoomCheck, UpdateRoomWrite,
       MakeRoomAvailable, UpdateRoomStatusCheck, UpdateRoomStatusWrite, DeleteRoomCheck
  <2>7. ASSUME NEW h \in Handlers, OrderRequest(h)
        PROVE  OrderStep(o)
    BY <2>1, <2>2, <2>4, <2>5, <2>7 DEF OrderRequest, CancelOrderCheck
  <2> QED
    BY <2>1, <2>6, <2>7 DEF Next, Abandon
<1> QED
  BY <1>1, TypeCorrect, PTL DEF Spec, OrdersOnlyAdvance

============================================================================
