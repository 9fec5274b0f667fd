------------------------------- MODULE Lists -------------------------------
(***************************************************************************)
(* Reading a list page by page while others write: the List functions of   *)
(* internal/pet and internal/storage/sqlite/read_operations.go.            *)
(*                                                                         *)
(* Every list of both services is read the same way: COUNT the rows of the *)
(* WHERE clause, then SELECT ... ORDER BY ... LIMIT ... OFFSET, in two      *)
(* statements outside a transaction (Store.Read is none either).  A client *)
(* asks for page 1, 2, ... until a page reaches the total it was given.    *)
(* What sets the lists apart is which rows can enter, leave and move       *)
(* meanwhile, and that follows from the columns they filter and sort by    *)
(* and the columns the updates change.                                     *)
(*                                                                         *)
(* A behaviour is one walk through one list, which nobody can tell from    *)
(* any other walk: whatever happened before it is in the initial state.    *)
(***************************************************************************)
EXTENDS Integers, FiniteSets

CONSTANTS
  Rows,          \* ids
  Keys,          \* values of the column a list is sorted by
  PetCap,        \* largest page of a pet list, and of the one-page answers: 100
  PetUsual,      \* its default: 10
  PlatformCap,   \* largest page of a platform list: 200
  AuditCap,      \* largest page of audit events: 500
  PlatformUsual, \* their default: 50
  Sizes,         \* page sizes clients ask for
  MaxEdits       \* bound on the rows that enter, leave or move during a walk

ASSUME ListsAssumption ==
  /\ Rows \subseteq Nat /\ IsFiniteSet(Rows)
  /\ Keys \subseteq Nat /\ 0 \in Keys
  /\ PetCap \in Nat \ {0} /\ PetUsual \in Nat \ {0}
  /\ PlatformCap \in Nat \ {0} /\ AuditCap \in Nat \ {0} /\ PlatformUsual \in Nat \ {0}
  /\ Sizes \subseteq Nat
  /\ MaxEdits \in Nat

-----------------------------------------------------------------------------
\* The lists.

normalizePage(asked) ==
  IF asked < 1 THEN PetUsual ELSE IF asked > PetCap THEN PetCap ELSE asked

Normalize(asked, max) ==
  IF asked < 1 THEN PlatformUsual ELSE IF asked > max THEN max ELSE asked

\* The columns that updates give other values.  UpdateDatasetSnapshot and
\* UpdateDriftIncident write expires_at and review_due_at back as they were.
UserChanges     == {"username", "phone", "email", "address", "role", "status"}
RoomChanges     == {"room_number", "room_type", "status", "price_per_day", "capacity"}
ServiceChanges  == {"service_name", "price", "status"}
PetChanges      == {"pet_name", "pet_type", "age", "weight", "owner_id"}
OrderChanges    == {"status", "pet_id", "room_id"}
RecordChanges   == {"record_date", "diet", "activity", "remarks"}
RunChanges      == {"state", "started_at", "completed_at", "archived_at", "updated_at"}
SnapshotChanges == {"state", "run_id", "quarantine_note", "updated_at"}
IncidentChanges == {"status", "last_observation_at", "observation_count", "updated_at"}

\* A list as a walk sees it.  sorted: how the rows follow the sort column, if
\* there is one beside the id; newest: of two rows with the same value the
\* larger id is first; serial: ids grow; deletes, returns, moves: rows are
\* deleted, leave and come back with the filter, change their place; once: only
\* the first page is ever asked for.
View(sort, direction, newest, serial, deletes, filter, changes, limit) ==
  [sorted  |-> IF sort = "id" THEN "no" ELSE direction,
   newest  |-> newest, serial |-> serial,
   deletes |-> deletes,
   returns |-> filter \cap changes # {},
   moves   |-> sort \in changes,
   limit   |-> limit, once |-> FALSE]

\* ORDER BY <AUTOINCREMENT id> DESC
NewestFirst(deletes, filter, changes, asked) ==
  View("id", "desc", TRUE, TRUE, deletes, filter, changes, normalizePage(asked))

ListUsers(filter, asked)        == NewestFirst(TRUE, filter, UserChanges, asked)

ListRooms(filter, asked)        == NewestFirst(TRUE, filter, RoomChanges, asked)

ListServiceItems(filter, asked) == NewestFirst(TRUE, filter, ServiceChanges, asked)

ListPets(filter, asked)         == NewestFirst(TRUE, filter, PetChanges, asked)

\* Orders are never deleted; the joined names change with their pet and user.
ListOrders(filter, asked) ==
  NewestFirst(FALSE, filter, OrderChanges \cup PetChanges \cup UserChanges, asked)

ListRecords(filter, asked) ==
  View("record_date", "desc", TRUE, TRUE, TRUE, filter, RecordChanges, normalizePage(asked))

FirstPage(view) == [view EXCEPT !.once = TRUE]

MyPets                == FirstPage(ListPets({"owner_id"}, PetCap))
RecordsByOrder        == FirstPage(ListRecords({"order_id"}, PetCap))
AvailableRooms(filter) == FirstPage(ListRooms(filter, PetCap))
AllServices           == FirstPage(ListServiceItems({}, PetCap))
AvailableServices     == FirstPage(ListServiceItems({"status"}, PetCap))

runSortColumn == {"scheduled_start_at", "expected_finish_at", "updated_at", "reference"}

buildInferenceRunWhere ==
  {"workspace_id", "source_zone_id", "target_zone_id", "state", "scheduled_start_at"}

buildSnapshotWhere == {"workspace_id", "source_zone_id", "run_id", "state", "expires_at"}

\* ORDER BY <column> ASC or DESC, id ASC; nothing is deleted, ids are random.
ListInferenceRuns(filter, sort, direction, asked) ==
  View(sort, direction, FALSE, FALSE, FALSE, filter, RunChanges, Normalize(asked, PlatformCap))

ListSnapshots(filter, asked) ==
  View("expires_at", "asc", FALSE, FALSE, FALSE, filter, SnapshotChanges,
       Normalize(asked, PlatformCap))

ListDriftIncidents(filter, asked) ==
  View("review_due_at", "asc", FALSE, FALSE, FALSE, filter, IncidentChanges,
       Normalize(asked, PlatformCap))

\* Audit events are only added, though not in the order of their created_at,
\* which each service reads before its transaction.
ListAuditEvents(filter, asked) ==
  View("created_at", "desc", TRUE, FALSE, FALSE, filter, {}, Normalize(asked, AuditCap))

PetListsOf(n) ==
  {ListUsers(f, n) : f \in SUBSET {"username", "phone", "role"}}
    \cup {ListRooms(f, n) : f \in SUBSET {"room_number", "room_type", "status"}}
    \cup {ListServiceItems(f, n) : f \in SUBSET {"service_name", "status"}}
    \cup {ListPets(f, n) : f \in SUBSET {"owner_id", "pet_name", "pet_type"}}
    \cup {ListOrders(f, n) : f \in SUBSET {"user_id", "order_no", "pet_name", "username", "status"}}
    \cup {ListRecords(f, n) : f \in SUBSET {"user_id", "order_id", "record_date"}}

PetLists ==
  (UNION {PetListsOf(n) : n \in Sizes})
    \cup {MyPets, RecordsByOrder, AllServices, AvailableServices}
    \cup {AvailableRooms(f) : f \in SUBSET {"room_type"}}

PlatformListsOf(n) ==
  {ListInferenceRuns(f, s, d, n) :
     f \in SUBSET buildInferenceRunWhere, s \in runSortColumn, d \in {"asc", "desc"}}
    \cup {ListSnapshots(f, n) : f \in SUBSET buildSnapshotWhere}
    \cup {ListDriftIncidents(f, n) : f \in SUBSET {"run_id", "status", "review_due_at"}}
    \cup {ListAuditEvents(f, n) :
            f \in SUBSET {"entity_type", "entity_id", "actor", "request_id"}}

PlatformLists == UNION {PlatformListsOf(n) : n \in Sizes}

-----------------------------------------------------------------------------
VARIABLES
  list,     \* the list that is read
  listed,   \* the rows its WHERE clause selects
  hidden,   \* rows that exist and are not selected now
  used,     \* every row that has existed
  key,      \* key[x]: the value of row x in the sort column
  step,     \* the statement the reader runs next: "count", "select", or "done"
  page,     \* the page it asks for
  total,    \* the count of the current request
  seen,     \* rows of the pages received
  edits,
  kept,     \* history: rows selected, where they were, ever since the walk began
  again,    \* history: rows received on two pages
  departed, \* history: rows that left the part already read
  arrived,  \* history: rows that entered the part already read
  late,     \* history: rows that entered the list after the current count
  gone      \* history: rows that left the list after the current count

tables  == <<list, listed, hidden, used, key>>
reader  == <<step, page, total, seen>>
history == <<kept, again, departed, arrived, late, gone>>
vars    == <<tables, reader, edits, history>>

One(b) == IF b THEN 1 ELSE 0

\* The slips of taking the page number as it is, and of skipping a row too little.
OffsetOfNext == page * list.limit

OffsetOverlapping == (page - 1) * list.limit - One(page > 1)

Offset == (page - 1) * list.limit

\* Row x comes before row y in the ORDER BY of list l, with the keys k.
Precedes(l, k, x, y) ==
  \/ l.sorted = "asc" /\ k[x] < k[y]
  \/ l.sorted = "desc" /\ k[x] > k[y]
  \/ /\ l.sorted = "no" \/ k[x] = k[y]
     /\ IF l.newest THEN x > y ELSE x < y

\* How many rows of S come before x: the OFFSET at which x is found.
Place(l, k, S, x) == Cardinality({z \in S : Precedes(l, k, z, x)})

IsRead(x) == Place(list, key, listed, x) < Offset

PageRows == {x \in listed : Place(list, key, listed, x) \in Offset..Offset + list.limit - 1}

\* The slip of a COUNT without the WHERE clause.
CountedUnfiltered == Cardinality(used)

Counted == Cardinality(listed)

Init ==
  /\ list \in PetLists \cup PlatformLists
  /\ listed \in SUBSET Rows
  /\ hidden \in IF list.returns THEN SUBSET (Rows \ listed) ELSE {{}}
  /\ used = listed \cup hidden
  /\ key \in {k \in [Rows -> Keys] : \A x \in Rows : x \notin used \/ list.sorted = "no" => k[x] = 0}
  /\ step = "count" /\ page = 1 /\ total = 0 /\ seen = {}
  /\ edits = 0
  /\ kept = listed /\ again = {}
  /\ departed = 0 /\ arrived = 0 /\ late = 0 /\ gone = 0

-----------------------------------------------------------------------------
\* The reader.

Count ==
  /\ step = "count"
  /\ step' = "select"
  /\ total' = Counted
  /\ late' = 0 /\ gone' = 0
  /\ UNCHANGED <<tables, page, seen, edits, kept, again, departed, arrived>>

\* The client stops at the page that reaches the total it came with.
Select ==
  /\ step = "select"
  /\ seen' = seen \cup PageRows
  /\ again' = again \cup (seen \cap PageRows)
  /\ page' = page + 1
  /\ step' = IF list.once \/ Offset + list.limit >= total THEN "done" ELSE "count"
  /\ UNCHANGED <<tables, total, edits, kept, departed, arrived, late, gone>>

\* The request fails, or its answer is lost: the client asks again.
Retry ==
  /\ step = "select"
  /\ step' = "count"
  /\ UNCHANGED <<tables, page, total, seen, edits, history>>

-----------------------------------------------------------------------------
\* The writers: every request that inserts, updates or deletes a row of the
\* table, as the list shows it.

Edits ==
  /\ step # "done"
  /\ edits < MaxEdits
  /\ edits' = edits + 1

\* A row enters the list, by an INSERT or by an UPDATE that makes it match.
Enters(x, k) ==
  /\ listed' = listed \cup {x}
  /\ key' = [key EXCEPT ![x] = k]
  /\ arrived' = arrived + One(Place(list, key', listed', x) < Offset)
  /\ late' = late + One(step = "select")
  /\ UNCHANGED <<list, reader, kept, again, departed, gone>>

\* A row leaves the list.
Leaves(x) ==
  /\ x \in listed
  /\ listed' = listed \ {x}
  /\ kept' = kept \ {x}
  /\ departed' = departed + One(IsRead(x))
  /\ gone' = gone + One(step = "select")
  /\ UNCHANGED <<list, used, key, reader, again, arrived, late>>

Insert(x, k) ==
  /\ Edits
  /\ x \notin used
  /\ list.serial => \A y \in used : y < x
  /\ list.sorted = "no" => k = 0
  /\ used' = used \cup {x}
  /\ Enters(x, k)
  /\ UNCHANGED hidden

Return(x, k) ==
  /\ Edits
  /\ list.returns
  /\ x \in hidden
  /\ ~list.moves => k = key[x]
  /\ hidden' = hidden \ {x}
  /\ Enters(x, k)
  /\ UNCHANGED used

Delete(x) ==
  /\ Edits
  /\ list.deletes
  /\ Leaves(x)
  /\ UNCHANGED hidden

Hide(x) ==
  /\ Edits
  /\ list.returns
  /\ Leaves(x)
  /\ hidden' = hidden \cup {x}

\* An UPDATE gives a row another place.
Move(x, k) ==
  /\ Edits
  /\ list.moves
  /\ x \in listed
  /\ k # key[x]
  /\ key' = [key EXCEPT ![x] = k]
  /\ kept' = kept \ {x}
  /\ LET moved == Place(list, key', listed, x) < Offset
     IN /\ departed' = departed + One(IsRead(x) /\ ~moved)
        /\ arrived' = arrived + One(~IsRead(x) /\ moved)
  /\ UNCHANGED <<list, listed, hidden, used, reader, again, late, gone>>

Next ==
  \/ Count \/ Select \/ Retry
  \/ \E x \in Rows, k \in Keys : Insert(x, k) \/ Return(x, k) \/ Move(x, k)
  \/ \E x \in Rows : Delete(x) \/ Hide(x)

Spec == Init /\ [][Next]_vars

-----------------------------------------------------------------------------
\* Properties.

Views ==
  [sorted : {"no", "asc", "desc"}, newest : BOOLEAN, serial : BOOLEAN, deletes : BOOLEAN,
   returns : BOOLEAN, moves : BOOLEAN, limit : Nat \ {0}, once : BOOLEAN]

TypeOK ==
  /\ list \in Views
  /\ listed \in SUBSET Rows /\ hidden \in SUBSET Rows /\ used \in SUBSET Rows
  /\ key \in [Rows -> Keys]
  /\ step \in {"count", "select", "done"}
  /\ page \in Nat \ {0} /\ total \in Nat
  /\ seen \in SUBSET Rows
  /\ edits \in Nat
  /\ kept \in SUBSET listed /\ again \in SUBSET seen
  /\ departed \in Nat /\ arrived \in Nat /\ late \in Nat /\ gone \in Nat

\* Rows of the first count that a one-page answer leaves out.
Unasked == IF list.once /\ total > list.limit THEN total - list.limit ELSE 0

\* A walk that has reached the end misses a row that was there all the time
\* only for a reason, one row for one: a row left the part already read and
\* pulled the next one into it, a row entered after the last COUNT and pushed
\* one beyond the page, or the list has more rows than a one-page answer takes.
\* In a list nothing leaves, only the second and third are possible.
MissedAreAccounted ==
  step = "done" => Cardinality(kept \ seen) <= departed + late + Unasked

\* Nor is a row that stayed where it was received twice unless, again one for
\* one, a row entered the part already read and pushed it out.
RepeatsAreAccounted ==
  Cardinality(again \cap kept) <= arrived

\* The rows of a page agree with the total they are sent with, but for the rows
\* that entered and left between the two statements.
PageIsWhole ==
  step = "select" =>
    LET rows == Cardinality(PageRows)
        rest == total - Offset
    IN /\ rows + gone >= rest \/ rows + gone >= list.limit
       /\ rows <= late \/ rows <= rest + late

=============================================================================
