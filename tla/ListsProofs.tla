---------------------------- MODULE ListsProofs ----------------------------
(***************************************************************************)
(* Proofs about Lists: what a walk through a list misses or repeats is      *)
(* accounted for by what others did to the list meanwhile.                 *)
(***************************************************************************)
EXTENDS Lists, FiniteSetTheorems, TLAPS

-----------------------------------------------------------------------------
\* The order of a list, and places in it.

LEMMA Numbers ==
  /\ \A x \in Rows : x \in Int
  /\ \A k \in [Rows -> Keys], x \in Rows : k[x] \in Int
<1>1. Rows \subseteq Nat /\ Keys \subseteq Nat
  BY ListsAssumption
<1>2. \A x \in Rows : x \in Int
  BY <1>1
<1>3. \A k \in [Rows -> Keys], x \in Rows : k[x] \in Keys
  OBVIOUS
<1>4. \A n \in Keys : n \in Int
  BY <1>1
<1> QED BY <1>2, <1>3, <1>4

\* ORDER BY with the id as last column is a strict total order.
LEMMA OrderIsTotal ==
  ASSUME NEW l \in Views, NEW k \in [Rows -> Keys], NEW x \in Rows, NEW y \in Rows
  PROVE  /\ x # y => Precedes(l, k, x, y) \/ Precedes(l, k, y, x)
         /\ Precedes(l, k, x, y) => ~Precedes(l, k, y, x)
         /\ ~Precedes(l, k, x, x)
<1>1. x \in Int /\ y \in Int /\ k[x] \in Int /\ k[y] \in Int
  BY Numbers
<1>2. l.sorted \in {"no", "asc", "desc"} /\ l.newest \in BOOLEAN
  BY DEF Views
<1> QED BY <1>1, <1>2, SMTT(30) DEF Precedes

LEMMA OrderIsTransitive ==
  ASSUME NEW l \in Views, NEW k \in [Rows -> Keys], NEW x \in Rows, NEW y \in Rows,
         NEW z \in Rows, Precedes(l, k, x, y), Precedes(l, k, y, z)
  PROVE  Precedes(l, k, x, z)
<1>1. /\ x \in Int /\ y \in Int /\ z \in Int
      /\ k[x] \in Int /\ k[y] \in Int /\ k[z] \in Int
  BY Numbers
<1>2. l.sorted \in {"no", "asc", "desc"} /\ l.newest \in BOOLEAN
  BY DEF Views
<1> QED BY <1>1, <1>2, SMTT(30) DEF Precedes

\* Whatever is said of rows is said of finitely many.
LEMMA RowsAreFinite ==
  ASSUME NEW S, S \subseteq Rows
  PROVE  IsFiniteSet(S) /\ Cardinality(S) \in Nat
BY ListsAssumption, FS_Subset, FS_CardinalityType

\* A set within two others is no larger than both together.
LEMMA Within ==
  ASSUME NEW A, NEW B, NEW C, B \subseteq Rows, C \subseteq Rows, A \subseteq B \cup C
  PROVE  Cardinality(A) <= Cardinality(B) + Cardinality(C)
<1>1. IsFiniteSet(B) /\ IsFiniteSet(C) /\ IsFiniteSet(B \cup C) /\ IsFiniteSet(B \cap C)
  <2>1. B \cup C \subseteq Rows /\ B \cap C \subseteq Rows
    OBVIOUS
  <2> QED BY <2>1, RowsAreFinite
<1>2. Cardinality(B \cup C) = Cardinality(B) + Cardinality(C) - Cardinality(B \cap C)
  BY <1>1, FS_Union
<1>3. Cardinality(A) <= Cardinality(B \cup C)
  BY <1>1, FS_Subset
<1>4. /\ Cardinality(A) \in Nat /\ Cardinality(B) \in Nat /\ Cardinality(C) \in Nat
      /\ Cardinality(B \cap C) \in Nat /\ Cardinality(B \cup C) \in Nat
  <2>1. A \subseteq Rows
    OBVIOUS
  <2> QED BY <1>1, <2>1, RowsAreFinite, FS_CardinalityType
<1> QED BY <1>2, <1>3, <1>4

LEMMA Fewer ==
  ASSUME NEW A, NEW B, B \subseteq Rows, A \subseteq B
  PROVE  Cardinality(A) <= Cardinality(B)
BY RowsAreFinite, FS_Subset

LEMMA PlaceIsNat ==
  ASSUME NEW l, NEW k, NEW S, S \subseteq Rows, NEW x
  PROVE  Place(l, k, S, x) \in Nat
<1>1. {z \in S : Precedes(l, k, z, x)} \subseteq Rows
  OBVIOUS
<1> QED BY <1>1, RowsAreFinite DEF Place

\* Places follow the order.
LEMMA PlaceGrows ==
  ASSUME NEW l \in Views, NEW k \in [Rows -> Keys], NEW S, S \subseteq Rows,
         NEW x \in S, NEW y \in S, Precedes(l, k, x, y)
  PROVE  Place(l, k, S, x) < Place(l, k, S, y)
<1> DEFINE Bx == {z \in S : Precedes(l, k, z, x)}
           By == {z \in S : Precedes(l, k, z, y)}
<1>1. Bx \subseteq By
  <2> SUFFICES ASSUME NEW z \in S, Precedes(l, k, z, x) PROVE Precedes(l, k, z, y)
    OBVIOUS
  <2> QED BY OrderIsTransitive
<1>2. x \in By /\ x \notin Bx
  BY OrderIsTotal
<1>3. IsFiniteSet(By) /\ IsFiniteSet(Bx)
  <2>1. By \subseteq Rows /\ Bx \subseteq Rows
    OBVIOUS
  <2> QED BY <2>1, RowsAreFinite
<1>4. Cardinality(Bx) < Cardinality(By)
  <2> HIDE DEF Bx, By
  <2>1. Cardinality(Bx) <= Cardinality(By) /\ (Cardinality(Bx) = Cardinality(By) => Bx = By)
    BY <1>1, <1>3, FS_Subset
  <2>2. Cardinality(Bx) \in Nat /\ Cardinality(By) \in Nat
    BY <1>3, FS_CardinalityType
  <2> QED BY <1>2, <2>1, <2>2
<1> QED BY <1>4 DEF Place

\* No two rows have the same place.
LEMMA PlaceIsOwn ==
  ASSUME NEW l \in Views, NEW k \in [Rows -> Keys], NEW S, S \subseteq Rows,
         NEW x \in S, NEW y \in S, Place(l, k, S, x) = Place(l, k, S, y)
  PROVE  x = y
<1>1. Place(l, k, S, x) \in Nat /\ Place(l, k, S, y) \in Nat
  BY PlaceIsNat
<1>2. ~Precedes(l, k, x, y)
  <2> SUFFICES ASSUME Precedes(l, k, x, y) PROVE FALSE
    OBVIOUS
  <2>1. Place(l, k, S, x) < Place(l, k, S, y)
    BY PlaceGrows
  <2> QED BY <1>1, <2>1
<1>3. ~Precedes(l, k, y, x)
  <2> SUFFICES ASSUME Precedes(l, k, y, x) PROVE FALSE
    OBVIOUS
  <2>1. Place(l, k, S, y) < Place(l, k, S, x)
    BY PlaceGrows
  <2> QED BY <1>1, <2>1
<1> QED BY <1>2, <1>3, OrderIsTotal

\* Every place is below the number of rows.
LEMMA PlaceIsBelow ==
  ASSUME NEW l \in Views, NEW k \in [Rows -> Keys], NEW S, S \subseteq Rows, NEW x \in S
  PROVE  Place(l, k, S, x) < Cardinality(S)
<1> DEFINE B == {z \in S : Precedes(l, k, z, x)}
<1>1. B \subseteq S /\ x \notin B
  BY OrderIsTotal
<1>2. IsFiniteSet(S) /\ IsFiniteSet(B)
  <2>1. B \subseteq Rows
    OBVIOUS
  <2> QED BY <2>1, RowsAreFinite
<1>3. Cardinality(B) < Cardinality(S)
  <2> HIDE DEF B
  <2>1. Cardinality(B) <= Cardinality(S) /\ (Cardinality(B) = Cardinality(S) => B = S)
    BY <1>1, <1>2, FS_Subset
  <2>2. Cardinality(B) \in Nat /\ Cardinality(S) \in Nat
    BY <1>2, FS_CardinalityType
  <2> QED BY <1>1, <2>1, <2>2
<1> QED BY <1>3 DEF Place

\* As many rows as places, at most.
LEMMA AsManyAsPlaces ==
  ASSUME NEW l \in Views, NEW k \in [Rows -> Keys], NEW S, S \subseteq Rows,
         NEW A, A \subseteq S, NEW a \in Nat, NEW b \in Int,
         \A x \in A : Place(l, k, S, x) >= a /\ Place(l, k, S, x) <= b
  PROVE  IF a <= b THEN Cardinality(A) <= b - a + 1 ELSE Cardinality(A) = 0
<1> DEFINE f == [x \in A |-> Place(l, k, S, x)]
<1>1. \A x \in A : Place(l, k, S, x) \in Nat
  BY PlaceIsNat
<1>2. CASE a <= b
  <2>1. f \in [A -> a..b]
    <3> SUFFICES ASSUME NEW x \in A PROVE Place(l, k, S, x) \in a..b
      OBVIOUS
    <3> QED BY <1>1
  <2>2. \A x, y \in A : f[x] = f[y] => x = y
    <3> SUFFICES ASSUME NEW x \in A, NEW y \in A, Place(l, k, S, x) = Place(l, k, S, y)
                 PROVE  x = y
      OBVIOUS
    <3>1. x \in S /\ y \in S
      OBVIOUS
    <3> QED BY <3>1, PlaceIsOwn
  <2>4. IsFiniteSet(a..b) /\ Cardinality(a..b) = b - a + 1
    BY <1>2, FS_Interval
  <2>5. Cardinality(A) <= Cardinality(a..b)
    <3> HIDE DEF f
    <3>1. IsFiniteSet(A) /\ Cardinality(A) \in Nat
      <4>1. A \subseteq Rows
        OBVIOUS
      <4> QED BY <4>1, RowsAreFinite
    <3>2. ~(Cardinality(a..b) < Cardinality(A))
      <4> SUFFICES ASSUME Cardinality(a..b) < Cardinality(A) PROVE FALSE
        OBVIOUS
      <4>1. \E x, y \in A : x # y /\ f[x] = f[y]
        BY <2>1, <2>4, <3>1, FS_PigeonHole
      <4> QED BY <2>2, <4>1
    <3>3. Cardinality(a..b) \in Nat
      BY <2>4, FS_CardinalityType
    <3> QED BY <3>1, <3>2, <3>3
  <2> QED BY <1>2, <2>4, <2>5
<1>3. CASE ~(a <= b)
  <2>1. A = {}
    BY <1>1, <1>3
  <2>2. Cardinality(A) = 0
    BY <2>1, FS_EmptySet
  <2> QED BY <1>3, <2>2
<1> QED BY <1>2, <1>3

\* Beyond the first o places there are the other rows.
LEMMA AsManyBeyond ==
  ASSUME NEW l \in Views, NEW k \in [Rows -> Keys], NEW S, S \subseteq Rows, NEW o \in Nat
  PROVE  LET Rest == {x \in S : ~(Place(l, k, S, x) < o)}
         IN  IF o <= Cardinality(S) THEN Cardinality(Rest) <= Cardinality(S) - o
                                    ELSE Cardinality(Rest) = 0
<1> DEFINE Rest == {x \in S : ~(Place(l, k, S, x) < o)}
<1>1. PICK n \in Nat : n = Cardinality(S)
  BY RowsAreFinite
<1>2. PICK b \in Int : b = n - 1
  OBVIOUS
<1>3. \A x \in Rest : Place(l, k, S, x) >= o /\ Place(l, k, S, x) <= b
  <2> SUFFICES ASSUME NEW x \in S, ~(Place(l, k, S, x) < o)
               PROVE  Place(l, k, S, x) >= o /\ Place(l, k, S, x) <= b
    OBVIOUS
  <2>1. Place(l, k, S, x) \in Nat /\ Place(l, k, S, x) < n
    BY <1>1, PlaceIsNat, PlaceIsBelow
  <2> QED BY <1>2, <2>1
<1>4. IF o <= b THEN Cardinality(Rest) <= b - o + 1 ELSE Cardinality(Rest) = 0
  <2>1. Rest \subseteq S
    OBVIOUS
  <2> HIDE DEF Rest
  <2> QED BY <1>3, <2>1, AsManyAsPlaces
<1>5. Cardinality(Rest) \in Nat
  <2>1. Rest \subseteq Rows
    OBVIOUS
  <2> HIDE DEF Rest
  <2> QED BY <2>1, RowsAreFinite
<1>6. IF o <= n THEN Cardinality(Rest) <= n - o ELSE Cardinality(Rest) = 0
  <2> HIDE DEF Rest
  <2> QED BY <1>2, <1>4, <1>5
<1> QED BY <1>1, <1>6

\* A part of the list that is m places long has m rows at most.
LEMMA AsManyWithin ==
  ASSUME NEW l \in Views, NEW k \in [Rows -> Keys], NEW S, S \subseteq Rows,
         NEW o \in Nat, NEW m \in Nat, NEW A, A \subseteq S,
         \A x \in A : ~(Place(l, k, S, x) < o) /\ Place(l, k, S, x) < o + m
  PROVE  Cardinality(A) <= m
<1>1. PICK b \in Int : b = o + m - 1
  OBVIOUS
<1>2. \A x \in A : Place(l, k, S, x) >= o /\ Place(l, k, S, x) <= b
  <2>1. \A x : Place(l, k, S, x) \in Nat
    BY PlaceIsNat
  <2> QED BY <1>1, <2>1
<1>3. IF o <= b THEN Cardinality(A) <= b - o + 1 ELSE Cardinality(A) = 0
  BY <1>2, AsManyAsPlaces
<1>4. Cardinality(A) \in Nat
  <2>1. A \subseteq Rows
    OBVIOUS
  <2> QED BY <2>1, RowsAreFinite
<1> QED BY <1>1, <1>3, <1>4

-----------------------------------------------------------------------------
\* What a row that enters, leaves or moves does to the places of the others.

\* Taking y out moves the rows after it, and only those, one place up.
LEMMA PlaceWithout ==
  ASSUME NEW l \in Views, NEW k \in [Rows -> Keys], NEW S, S \subseteq Rows,
         NEW y \in S, NEW x \in S \ {y}
  PROVE  Place(l, k, S, x) = Place(l, k, S \ {y}, x) + One(Precedes(l, k, y, x))
<1> DEFINE B == {z \in S : Precedes(l, k, z, x)}
           C == {z \in S \ {y} : Precedes(l, k, z, x)}
<1>1. IsFiniteSet(B) /\ IsFiniteSet(C)
  <2>1. B \subseteq Rows /\ C \subseteq Rows
    OBVIOUS
  <2> QED BY <2>1, RowsAreFinite
<1>2. CASE Precedes(l, k, y, x)
  <2>1. y \in B /\ C = B \ {y}
    BY <1>2
  <2>2. Cardinality(C) = Cardinality(B) - 1 /\ Cardinality(B) \in Nat
    <3> HIDE DEF B, C
    <3> QED BY <1>1, <2>1, FS_RemoveElement, FS_CardinalityType
  <2>3. Cardinality(B) = Cardinality(C) + 1
    <3> HIDE DEF B, C
    <3> QED BY <1>1, <2>2, FS_CardinalityType
  <2> QED BY <1>2, <2>3 DEF Place, One
<1>3. CASE ~Precedes(l, k, y, x)
  <2>1. C = B
    BY <1>3
  <2>2. Cardinality(B) = Cardinality(C) + 0
    <3> HIDE DEF B, C
    <3> QED BY <1>1, <2>1, FS_CardinalityType
  <2> QED BY <1>3, <2>2 DEF Place, One
<1> QED BY <1>2, <1>3

\* Places among the rows of S depend on the keys of these rows only.
LEMMA PlaceOfKeys ==
  ASSUME NEW l, NEW k, NEW j, NEW S, NEW x \in S, \A z \in S : k[z] = j[z]
  PROVE  Place(l, k, S, x) = Place(l, j, S, x)
<1>1. \A z \in S : Precedes(l, k, z, x) <=> Precedes(l, j, z, x)
  BY DEF Precedes
<1>2. {z \in S : Precedes(l, k, z, x)} = {z \in S : Precedes(l, j, z, x)}
  BY <1>1
<1> QED BY <1>2 DEF Place

\* The rows that y, in its place or out of it, keeps on either side of o: at
\* most one, and none if y itself is beyond o.
LEMMA OneCrosses ==
  ASSUME NEW l \in Views, NEW k \in [Rows -> Keys], NEW S, S \subseteq Rows,
         NEW y \in S, NEW o \in Nat, NEW A, A \subseteq S \ {y},
         \A x \in A : Place(l, k, S, x) >= o /\ Place(l, k, S \ {y}, x) < o
  PROVE  /\ Cardinality(A) <= One(Place(l, k, S, y) < o)
         /\ \A x \in A : Precedes(l, k, y, x) /\ Place(l, k, S, x) = o
<1>1. ASSUME NEW x \in A
      PROVE  Precedes(l, k, y, x) /\ Place(l, k, S, x) = o /\ Place(l, k, S, y) < o
  <2>1. /\ Place(l, k, S, x) \in Nat /\ Place(l, k, S \ {y}, x) \in Nat
        /\ Place(l, k, S, y) \in Nat
    BY PlaceIsNat
  <2>2. Place(l, k, S, x) = Place(l, k, S \ {y}, x) + One(Precedes(l, k, y, x))
    BY PlaceWithout
  <2>3. Precedes(l, k, y, x)
    BY <1>1, <2>1, <2>2 DEF One
  <2>4. Place(l, k, S, y) < Place(l, k, S, x)
    BY <2>3, PlaceGrows
  <2>5. Place(l, k, S, x) = o
    BY <1>1, <2>1, <2>2, <2>3 DEF One
  <2> QED BY <2>1, <2>3, <2>4, <2>5
<1>2. CASE Place(l, k, S, y) < o
  <2>1. Cardinality(A) <= 1
    <3>1. CASE A = {}
      BY <3>1, FS_EmptySet
    <3>2. CASE A # {}
      <4>1. PICK x \in A : TRUE
        BY <3>2
      <4>2. ASSUME NEW z \in A PROVE z = x
        <5>1. Place(l, k, S, x) = Place(l, k, S, z)
          BY <1>1
        <5>2. x \in S /\ z \in S
          OBVIOUS
        <5> QED BY <5>1, <5>2, PlaceIsOwn
      <4>3. A = {x}
        BY <4>2
      <4> QED BY <4>3, FS_Singleton
    <3> QED BY <3>1, <3>2
  <2> QED BY <1>1, <1>2, <2>1 DEF One
<1>3. CASE ~(Place(l, k, S, y) < o)
  <2>1. A = {}
    BY <1>1, <1>3
  <2> QED BY <1>3, <2>1, FS_EmptySet DEF One
<1> QED BY <1>2, <1>3

\* Giving y another place takes at most one row across o, in a direction, and
\* none if y itself does not cross o the other way.
LEMMA OneFollows ==
  ASSUME NEW l \in Views, NEW k \in [Rows -> Keys], NEW j \in [Rows -> Keys],
         NEW S, S \subseteq Rows, NEW y \in S, NEW o \in Nat,
         \A z \in Rows \ {y} : k[z] = j[z],
         NEW A, A \subseteq S \ {y},
         \A x \in A : Place(l, k, S, x) >= o /\ Place(l, j, S, x) < o
  PROVE  Cardinality(A) <= One(Place(l, k, S, y) < o /\ ~(Place(l, j, S, y) < o))
<1>1. ASSUME NEW x \in A
      PROVE  /\ Place(l, k, S \ {y}, x) < o
             /\ ~(Place(l, j, S, y) < o)
  <2>1. /\ Place(l, k, S, x) \in Nat /\ Place(l, k, S \ {y}, x) \in Nat
        /\ Place(l, j, S, x) \in Nat /\ Place(l, j, S, y) \in Nat
    BY PlaceIsNat
  <2>2. Place(l, k, S \ {y}, x) = Place(l, j, S \ {y}, x)
    <3>1. x \in S \ {y} /\ \A z \in S \ {y} : k[z] = j[z]
      OBVIOUS
    <3> QED BY <3>1, PlaceOfKeys
  <2>3. Place(l, j, S, x) = Place(l, k, S \ {y}, x) + One(Precedes(l, j, y, x))
    <3>1. Place(l, j, S, x) = Place(l, j, S \ {y}, x) + One(Precedes(l, j, y, x))
      BY PlaceWithout
    <3> QED BY <2>2, <3>1
  <2>4. Place(l, k, S, x) = Place(l, k, S \ {y}, x) + One(Precedes(l, k, y, x))
    BY PlaceWithout
  <2>5. Place(l, k, S \ {y}, x) = o - 1 /\ ~Precedes(l, j, y, x)
    BY <1>1, <2>1, <2>3, <2>4 DEF One
  <2>6. Precedes(l, j, x, y)
    <3>1. x \in Rows /\ y \in Rows /\ x # y
      OBVIOUS
    <3> QED BY <2>5, <3>1, OrderIsTotal
  <2>7. Place(l, j, S, x) < Place(l, j, S, y)
    BY <2>6, PlaceGrows
  <2>8. Place(l, j, S, x) = o - 1
    BY <2>1, <2>3, <2>5 DEF One
  <2> QED BY <2>1, <2>5, <2>7, <2>8
<1>2. Cardinality(A) <= One(Place(l, k, S, y) < o)
  <2>1. \A x \in A : Place(l, k, S, x) >= o /\ Place(l, k, S \ {y}, x) < o
    BY <1>1
  <2> QED BY <2>1, OneCrosses
<1>3. CASE A = {}
  BY <1>3, FS_EmptySet DEF One
<1>4. CASE A # {}
  <2>1. ~(Place(l, j, S, y) < o)
    BY <1>1, <1>4
  <2> QED BY <1>2, <2>1 DEF One
<1> QED BY <1>3, <1>4

\* A row that enters pushes at most one row out of the part before o, and pulls
\* none into it.
LEMMA Entering ==
  ASSUME NEW l \in Views, NEW k \in [Rows -> Keys], NEW j \in [Rows -> Keys],
         NEW S, S \subseteq Rows, NEW y \in Rows \ S, NEW o \in Nat,
         \A z \in Rows \ {y} : k[z] = j[z],
         NEW K, K \subseteq S
  PROVE  /\ \A z \in S : Place(l, j, S \cup {y}, z) < o => Place(l, k, S, z) < o
         /\ Cardinality({z \in K : Place(l, k, S, z) < o /\ ~(Place(l, j, S \cup {y}, z) < o)})
              <= One(Place(l, j, S \cup {y}, y) < o)
<1> DEFINE T == S \cup {y}
           A == {z \in K : Place(l, k, S, z) < o /\ ~(Place(l, j, T, z) < o)}
<1>1. T \subseteq Rows /\ y \in T /\ T \ {y} = S
  OBVIOUS
<1>2. ASSUME NEW z \in S
      PROVE  /\ Place(l, k, S, z) = Place(l, j, S, z)
             /\ Place(l, j, T, z) = Place(l, j, S, z) + One(Precedes(l, j, y, z))
             /\ Place(l, j, S, z) \in Nat /\ Place(l, j, T, z) \in Nat
  <2>1. Place(l, k, S, z) = Place(l, j, S, z)
    <3>1. \A x \in S : k[x] = j[x]
      OBVIOUS
    <3> QED BY <3>1, PlaceOfKeys
  <2>2. z \in T \ {y}
    OBVIOUS
  <2>3. Place(l, j, T, z) = Place(l, j, T \ {y}, z) + One(Precedes(l, j, y, z))
    <3> HIDE DEF T
    <3> QED BY <1>1, <2>2, PlaceWithout
  <2>4. Place(l, j, S, z) \in Nat /\ Place(l, j, T, z) \in Nat
    BY <1>1, PlaceIsNat
  <2> HIDE DEF T
  <2> QED BY <1>1, <2>1, <2>3, <2>4
<1>3. ASSUME NEW z \in S, Place(l, j, T, z) < o
      PROVE  Place(l, k, S, z) < o
  <2> HIDE DEF T
  <2> QED BY <1>2, <1>3 DEF One
<1>4. Cardinality(A) <= One(Place(l, j, T, y) < o)
  <2>1. A \subseteq T \ {y}
    BY <1>1
  <2>2. \A z \in A : Place(l, j, T, z) >= o /\ Place(l, j, T \ {y}, z) < o
    <3> SUFFICES ASSUME NEW z \in A
                 PROVE  Place(l, j, T, z) >= o /\ Place(l, j, S, z) < o
      BY <1>1
    <3>1. z \in S /\ Place(l, k, S, z) < o /\ ~(Place(l, j, T, z) < o)
      OBVIOUS
    <3> HIDE DEF T, A
    <3> QED BY <1>2, <3>1
  <2> HIDE DEF T, A
  <2> QED BY <1>1, <2>1, <2>2, OneCrosses
<1> QED BY <1>3, <1>4

\* A row that leaves pulls at most one row into the part before o, and pushes
\* none out of it.
LEMMA Leaving ==
  ASSUME NEW l \in Views, NEW k \in [Rows -> Keys], NEW S, S \subseteq Rows,
         NEW y \in S, NEW o \in Nat, NEW K, K \subseteq S
  PROVE  /\ \A z \in S \ {y} : Place(l, k, S, z) < o => Place(l, k, S \ {y}, z) < o
         /\ Cardinality({z \in K \ {y} : ~(Place(l, k, S, z) < o) /\ Place(l, k, S \ {y}, z) < o})
              <= One(Place(l, k, S, y) < o)
<1> DEFINE A == {z \in K \ {y} : ~(Place(l, k, S, z) < o) /\ Place(l, k, S \ {y}, z) < o}
<1>1. \A z \in S : Place(l, k, S, z) \in Nat /\ Place(l, k, S \ {y}, z) \in Nat
  <2>1. S \ {y} \subseteq Rows
    OBVIOUS
  <2> QED BY <2>1, PlaceIsNat
<1>2. ASSUME NEW z \in S \ {y}, Place(l, k, S, z) < o
      PROVE  Place(l, k, S \ {y}, z) < o
  <2>1. Place(l, k, S, z) = Place(l, k, S \ {y}, z) + One(Precedes(l, k, y, z))
    BY PlaceWithout
  <2> QED BY <1>1, <1>2, <2>1 DEF One
<1>3. Cardinality(A) <= One(Place(l, k, S, y) < o)
  <2>1. A \subseteq S \ {y}
    OBVIOUS
  <2>2. \A z \in A : Place(l, k, S, z) >= o /\ Place(l, k, S \ {y}, z) < o
    BY <1>1
  <2> HIDE DEF A
  <2> QED BY <2>1, <2>2, OneCrosses
<1> QED BY <1>2, <1>3

-----------------------------------------------------------------------------
\* The invariant.

\* Rows that stayed and that the reader passed without receiving them.
Passed == {x \in kept \ seen : IsRead(x)}

\* Rows that stayed and were received twice, or will be.
Twice == {x \in kept : x \in again \/ (x \in seen /\ ~IsRead(x))}

Sets ==
  /\ listed \subseteq used /\ hidden \subseteq used
  /\ listed \cap hidden = {}

FirstPageOnly == list.once /\ step # "done" => page = 1

CountIsKept == step = "select" => Cardinality(listed) + gone = total + late

PassedAreAccounted == Cardinality(Passed) <= departed

TwiceAreAccounted == Cardinality(Twice) <= arrived

IInv ==
  /\ TypeOK
  /\ Sets
  /\ FirstPageOnly
  /\ CountIsKept
  /\ PassedAreAccounted
  /\ TwiceAreAccounted
  /\ MissedAreAccounted

LEMMA OffsetIsNat ==
  ASSUME TypeOK
  PROVE  Offset \in Nat /\ list \in Views /\ list.limit \in Nat \ {0}
<1>1. list \in Views /\ page \in Nat \ {0} /\ list.limit \in Nat \ {0}
  BY DEF TypeOK, Views
<1>2. page - 1 \in Nat /\ list.limit \in Nat
  BY <1>1
<1>3. \A m, n \in Nat : m * n \in Nat
  OBVIOUS
<1> QED BY <1>1, <1>2, <1>3 DEF Offset

LEMMA ListsAreViews == PetLists \cup PlatformLists \subseteq Views
<1>1. ASSUME NEW sort, NEW direction \in {"no", "asc", "desc"}, NEW newest \in BOOLEAN,
             NEW serial \in BOOLEAN, NEW deletes \in BOOLEAN, NEW filter, NEW changes,
             NEW limit \in Nat \ {0}
      PROVE  View(sort, direction, newest, serial, deletes, filter, changes, limit) \in Views
  BY DEF View, Views
<1>2. ASSUME NEW n \in Nat, NEW max \in Nat \ {0}
      PROVE  normalizePage(n) \in Nat \ {0} /\ Normalize(n, max) \in Nat \ {0}
  <2>1. PetCap \in Nat \ {0} /\ PetUsual \in Nat \ {0} /\ PlatformUsual \in Nat \ {0}
    BY ListsAssumption
  <2> QED BY <2>1 DEF normalizePage, Normalize
<1>3. ASSUME NEW deletes \in BOOLEAN, NEW filter, NEW changes, NEW n \in Nat
      PROVE  NewestFirst(deletes, filter, changes, n) \in Views
  <2>1. normalizePage(n) \in Nat \ {0}
    BY <1>2, ListsAssumption
  <2> QED BY <1>1, <2>1 DEF NewestFirst
<1>4. ASSUME NEW view \in Views PROVE FirstPage(view) \in Views
  BY DEF FirstPage, Views
<1>5. ASSUME NEW n \in Nat, NEW f
      PROVE  /\ ListUsers(f, n) \in Views /\ ListRooms(f, n) \in Views
             /\ ListServiceItems(f, n) \in Views /\ ListPets(f, n) \in Views
             /\ ListOrders(f, n) \in Views /\ ListRecords(f, n) \in Views
  <2>1. normalizePage(n) \in Nat \ {0}
    BY <1>2, ListsAssumption
  <2>2. ListRecords(f, n) \in Views
    BY <1>1, <2>1 DEF ListRecords
  <2>3. /\ ListUsers(f, n) \in Views /\ ListRooms(f, n) \in Views
        /\ ListServiceItems(f, n) \in Views /\ ListPets(f, n) \in Views
    BY <1>3 DEF ListUsers, ListRooms, ListServiceItems, ListPets
  <2>4. ListOrders(f, n) \in Views
    BY <1>3 DEF ListOrders
  <2> QED BY <2>2, <2>3, <2>4
<1>6. ASSUME NEW n \in Nat, NEW f
      PROVE  /\ \A s \in runSortColumn, d \in {"asc", "desc"} : ListInferenceRuns(f, s, d, n) \in Views
             /\ ListSnapshots(f, n) \in Views /\ ListDriftIncidents(f, n) \in Views
             /\ ListAuditEvents(f, n) \in Views
  <2>1. Normalize(n, PlatformCap) \in Nat \ {0} /\ Normalize(n, AuditCap) \in Nat \ {0}
    BY <1>2, ListsAssumption
  <2>2. \A s \in runSortColumn, d \in {"asc", "desc"} : ListInferenceRuns(f, s, d, n) \in Views
    BY <1>1, <2>1 DEF ListInferenceRuns
  <2>3. ListSnapshots(f, n) \in Views /\ ListDriftIncidents(f, n) \in Views
    BY <1>1, <2>1 DEF ListSnapshots, ListDriftIncidents
  <2>4. ListAuditEvents(f, n) \in Views
    BY <1>1, <2>1 DEF ListAuditEvents
  <2> QED BY <2>2, <2>3, <2>4
<1>7. PetCap \in Nat /\ Sizes \subseteq Nat
  BY ListsAssumption
<1>8. PetLists \subseteq Views
  <2>1. \A n \in Sizes : n \in Nat
    BY <1>7
  <2>2. /\ MyPets \in Views /\ RecordsByOrder \in Views /\ AllServices \in Views
        /\ AvailableServices \in Views /\ \A f : AvailableRooms(f) \in Views
    BY <1>4, <1>5, <1>7 DEF MyPets, RecordsByOrder, AllServices, AvailableServices, AvailableRooms
  <2> SUFFICES ASSUME NEW v \in PetLists PROVE v \in Views
    OBVIOUS
  <2>3. CASE v \in {MyPets, RecordsByOrder, AllServices, AvailableServices}
    BY <2>2, <2>3
  <2>4. CASE v \in {AvailableRooms(f) : f \in SUBSET {"room_type"}}
    BY <2>2, <2>4
  <2>5. CASE v \in UNION {PetListsOf(n) : n \in Sizes}
    <3>1. PICK n \in Sizes : v \in PetListsOf(n)
      BY <2>5
    <3>2. n \in Nat
      BY <2>1
    <3>3. \/ \E f : v = ListUsers(f, n)
          \/ \E f : v = ListRooms(f, n)
          \/ \E f : v = ListServiceItems(f, n)
          \/ \E f : v = ListPets(f, n)
          \/ \E f : v = ListOrders(f, n)
          \/ \E f : v = ListRecords(f, n)
      BY <3>1, SMT DEF PetListsOf
    <3>4. \A f : /\ ListUsers(f, n) \in Views /\ ListRooms(f, n) \in Views
                 /\ ListServiceItems(f, n) \in Views /\ ListPets(f, n) \in Views
                 /\ ListOrders(f, n) \in Views /\ ListRecords(f, n) \in Views
      BY <1>5, <3>2
    <3> QED BY <3>3, <3>4
  <2>6. \/ v \in UNION {PetListsOf(n) : n \in Sizes}
        \/ v \in {MyPets, RecordsByOrder, AllServices, AvailableServices}
        \/ v \in {AvailableRooms(f) : f \in SUBSET {"room_type"}}
    BY DEF PetLists
  <2> QED BY <2>3, <2>4, <2>5, <2>6
<1>9. PlatformLists \subseteq Views
  <2>1. \A n \in Sizes : n \in Nat
    BY <1>7
  <2> SUFFICES ASSUME NEW v \in PlatformLists PROVE v \in Views
    OBVIOUS
  <2>2. PICK n \in Sizes : v \in PlatformListsOf(n)
    BY DEF PlatformLists
  <2>3. n \in Nat
    BY <2>1
  <2>4. \/ \E f, s, d : /\ s \in runSortColumn /\ d \in {"asc", "desc"}
                        /\ v = ListInferenceRuns(f, s, d, n)
        \/ \E f : v = ListSnapshots(f, n)
        \/ \E f : v = ListDriftIncidents(f, n)
        \/ \E f : v = ListAuditEvents(f, n)
    BY <2>2, SMT DEF PlatformListsOf
  <2> QED BY <1>6, <2>3, <2>4
<1> QED BY <1>8, <1>9

LEMMA InitEstablishes == Init => IInv
<1> SUFFICES ASSUME Init PROVE IInv
  OBVIOUS
<1>1. list \in Views
  BY ListsAreViews DEF Init
<1>2. /\ listed \subseteq Rows /\ hidden \subseteq Rows \ listed /\ used = listed \cup hidden
      /\ key \in [Rows -> Keys] /\ step = "count" /\ page = 1 /\ total = 0 /\ seen = {}
      /\ edits = 0 /\ kept = listed /\ again = {}
      /\ departed = 0 /\ arrived = 0 /\ late = 0 /\ gone = 0
  BY DEF Init
<1>3. TypeOK /\ Sets /\ FirstPageOnly /\ CountIsKept /\ MissedAreAccounted
  BY <1>1, <1>2 DEF TypeOK, Sets, FirstPageOnly, CountIsKept, MissedAreAccounted
<1>4. PassedAreAccounted
  <2>1. Offset = 0
    <3>1. list.limit \in Nat
      BY <1>1 DEF Views
    <3> QED BY <1>2, <3>1 DEF Offset
  <2>2. ASSUME NEW x \in Passed PROVE FALSE
    <3>1. Place(list, key, listed, x) \in Nat /\ Place(list, key, listed, x) < 0
      BY <1>2, <2>1, PlaceIsNat DEF Passed, IsRead
    <3> QED BY <3>1
  <2>3. Passed = {}
    BY <2>2
  <2> QED BY <1>2, <2>3, FS_EmptySet DEF PassedAreAccounted
<1>5. TwiceAreAccounted
  <2>1. Twice = {}
    BY <1>2 DEF Twice
  <2> QED BY <1>2, <2>1, FS_EmptySet DEF TwiceAreAccounted
<1> QED BY <1>3, <1>4, <1>5 DEF IInv

\* Every step keeps the types.
LEMMA TypeStep == TypeOK /\ [Next]_vars => TypeOK'
<1> SUFFICES ASSUME TypeOK, [Next]_vars PROVE TypeOK'
  OBVIOUS
<1> USE DEF TypeOK
<1>1. \A b : One(b) \in Nat
  BY DEF One
<1>2. CASE Count
  <2>1. Counted \in Nat
    BY RowsAreFinite DEF Counted
  <2> QED BY <1>2, <2>1 DEF Count, tables
<1>3. CASE Select
  <2>1. PageRows \subseteq Rows
    BY DEF PageRows
  <2> QED BY <1>3, <2>1 DEF Select, tables
<1>4. CASE Retry
  BY <1>4 DEF Retry, tables, history
<1>5. CASE \E x \in Rows, k \in Keys : Insert(x, k)
  BY <1>1, <1>5 DEF Insert, Edits, Enters, reader
<1>6. CASE \E x \in Rows, k \in Keys : Return(x, k)
  BY <1>1, <1>6 DEF Return, Edits, Enters, reader
<1>7. CASE \E x \in Rows, k \in Keys : Move(x, k)
  BY <1>1, <1>7 DEF Move, Edits, reader
<1>8. CASE \E x \in Rows : Delete(x)
  BY <1>1, <1>8 DEF Delete, Edits, Leaves, reader
<1>9. CASE \E x \in Rows : Hide(x)
  BY <1>1, <1>9 DEF Hide, Edits, Leaves, reader
<1>10. CASE UNCHANGED vars
  BY <1>10 DEF vars, tables, reader, history
<1> QED BY <1>2, <1>3, <1>4, <1>5, <1>6, <1>7, <1>8, <1>9, <1>10 DEF Next

\* What TypeOK says, one by one.
LEMMA Types ==
  ASSUME TypeOK
  PROVE  /\ listed \subseteq Rows /\ kept \subseteq listed /\ kept \subseteq Rows
         /\ seen \subseteq Rows /\ again \subseteq seen
         /\ key \in [Rows -> Keys]
         /\ page \in Nat \ {0} /\ total \in Nat /\ Cardinality(listed) \in Nat
         /\ departed \in Nat /\ arrived \in Nat /\ late \in Nat /\ gone \in Nat
         /\ list.once \in BOOLEAN
         /\ \A x : Place(list, key, listed, x) \in Nat
         /\ Cardinality(Passed) \in Nat /\ Cardinality(Twice) \in Nat
<1>1. listed \subseteq Rows /\ kept \subseteq listed /\ key \in [Rows -> Keys]
  BY DEF TypeOK
<1>2. Passed \subseteq Rows /\ Twice \subseteq Rows
  BY <1>1 DEF Passed, Twice
<1>3. \A x : Place(list, key, listed, x) \in Nat
  BY <1>1, PlaceIsNat
<1> QED BY <1>1, <1>2, <1>3, RowsAreFinite DEF TypeOK, Views

\* Steps that leave the rows, the page and the answers alone.
LEMMA CountStep ==
  ASSUME IInv, Count \/ Retry \/ UNCHANGED vars
  PROVE  Sets' /\ FirstPageOnly' /\ CountIsKept' /\ PassedAreAccounted'
         /\ TwiceAreAccounted' /\ MissedAreAccounted'
<1>1. /\ UNCHANGED <<tables, page, seen, kept, again, departed, arrived>>
      /\ \/ step' = "count"
         \/ step' = "select" /\ total' = Counted /\ late' = 0 /\ gone' = 0 /\ step = "count"
         \/ UNCHANGED <<step, total, late, gone>>
      /\ step' = "done" => step = "done"
      /\ step = "done" => step' = "done"
  BY DEF Count, Retry, vars, reader, history
<1>2. /\ list' = list /\ listed' = listed /\ hidden' = hidden /\ used' = used /\ key' = key
      /\ page' = page /\ seen' = seen /\ kept' = kept /\ again' = again
      /\ departed' = departed /\ arrived' = arrived
  BY <1>1 DEF tables
<1>3. Passed' = Passed /\ Twice' = Twice
  BY <1>2 DEF Passed, Twice, IsRead, Offset
<1>4. Sets' /\ FirstPageOnly' /\ PassedAreAccounted' /\ TwiceAreAccounted'
  BY <1>1, <1>2, <1>3 DEF IInv, Sets, FirstPageOnly, PassedAreAccounted, TwiceAreAccounted
<1>5. CountIsKept'
  <2>1. Cardinality(listed) \in Nat
    BY Types DEF IInv
  <2> QED BY <1>1, <1>2, <2>1 DEF IInv, CountIsKept, Counted
<1>6. MissedAreAccounted'
  <2> SUFFICES ASSUME step' = "done"
               PROVE  Cardinality(kept \ seen) <= (departed + late + Unasked)'
    BY <1>2 DEF MissedAreAccounted
  <2>1. UNCHANGED <<step, total, late, gone>>
    BY <1>1
  <2> QED BY <1>1, <1>2, <2>1 DEF IInv, MissedAreAccounted, Unasked
<1> QED BY <1>4, <1>5, <1>6

LEMMA SelectStep ==
  ASSUME IInv, Select
  PROVE  Sets' /\ FirstPageOnly' /\ CountIsKept' /\ PassedAreAccounted'
         /\ TwiceAreAccounted' /\ MissedAreAccounted'
<1>1. /\ list' = list /\ listed' = listed /\ hidden' = hidden /\ used' = used /\ key' = key
      /\ seen' = seen \cup PageRows /\ again' = again \cup (seen \cap PageRows)
      /\ page' = page + 1 /\ total' = total /\ kept' = kept
      /\ departed' = departed /\ arrived' = arrived /\ late' = late /\ gone' = gone
      /\ step = "select"
      /\ step' = IF list.once \/ Offset + list.limit >= total THEN "done" ELSE "count"
  BY DEF Select, tables
<1>2. /\ Offset \in Nat /\ list.limit \in Nat \ {0} /\ list \in Views
      /\ Offset' = Offset + list.limit
  <2>1. Offset \in Nat /\ list.limit \in Nat \ {0} /\ list \in Views
    BY OffsetIsNat DEF IInv
  <2>2. \A m, n \in Nat : (m + 1 - 1) * n = (m - 1) * n + n
    OBVIOUS
  <2>3. page \in Nat
    BY Types DEF IInv
  <2>4. PICK m \in Nat, n \in Nat : m = page /\ n = list.limit
    BY <2>1, <2>3
  <2>5. Offset = (m - 1) * n /\ Offset' = (m + 1 - 1) * n
    BY <1>1, <2>4 DEF Offset
  <2>6. (m + 1 - 1) * n = (m - 1) * n + n
    BY <2>2
  <2> QED BY <2>1, <2>4, <2>5, <2>6
<1>3. ASSUME NEW x \in listed
      PROVE  /\ x \in PageRows <=> ~IsRead(x) /\ IsRead(x)'
             /\ IsRead(x) => IsRead(x)'
  <2>1. Place(list, key, listed, x) \in Nat
    BY Types DEF IInv
  <2> QED BY <1>1, <1>2, <2>1 DEF PageRows, IsRead
<1>4. kept \subseteq listed /\ PageRows \subseteq listed
  BY Types DEF IInv, PageRows
<1>5. Passed' \subseteq Passed
  BY <1>1, <1>3, <1>4 DEF Passed
<1>6. Twice' \subseteq Twice
  BY <1>1, <1>3, <1>4 DEF Twice
<1>7. Passed \subseteq Rows /\ Twice \subseteq Rows
  BY Types DEF IInv, Passed, Twice
<1>8. PassedAreAccounted'
  <2>1. Cardinality(Passed') <= Cardinality(Passed) /\ Cardinality(Passed') \in Nat
    <3>1. Passed' \subseteq Rows
      BY <1>5, <1>7
    <3> QED BY <1>5, <1>7, <3>1, Fewer, RowsAreFinite
  <2> QED BY <1>1, <2>1, Types DEF IInv, PassedAreAccounted
<1>9. TwiceAreAccounted'
  <2>1. Cardinality(Twice') <= Cardinality(Twice) /\ Cardinality(Twice') \in Nat
    <3>1. Twice' \subseteq Rows
      BY <1>6, <1>7
    <3> QED BY <1>6, <1>7, <3>1, Fewer, RowsAreFinite
  <2> QED BY <1>1, <2>1, Types DEF IInv, TwiceAreAccounted
<1>10. Sets' /\ FirstPageOnly' /\ CountIsKept'
  BY <1>1 DEF IInv, Sets, FirstPageOnly, CountIsKept
<1>11. MissedAreAccounted'
  <2> SUFFICES ASSUME step' = "done"
               PROVE  Cardinality(kept \ (seen \cup PageRows)) <= departed + late + Unasked
    BY <1>1 DEF MissedAreAccounted, Unasked
  <2> DEFINE o == Offset + list.limit
             n == Cardinality(listed)
             Rest == {x \in listed : ~(Place(list, key, listed, x) < o)}
  <2>1. kept \ (seen \cup PageRows) \subseteq Passed \cup Rest
    <3> SUFFICES ASSUME NEW x \in kept, x \notin seen, x \notin PageRows,
                        Place(list, key, listed, x) < o
                 PROVE  IsRead(x)
      BY <1>4 DEF Passed
    <3>1. IsRead(x)'
      BY <1>1, <1>2 DEF IsRead
    <3> QED BY <1>3, <1>4, <3>1
  <2>2. o \in Nat /\ n \in Nat
    BY <1>2, Types DEF IInv
  <2>3. IF o <= n THEN Cardinality(Rest) <= n - o ELSE Cardinality(Rest) = 0
    <3>1. listed \subseteq Rows /\ key \in [Rows -> Keys]
      BY Types DEF IInv
    <3> HIDE DEF o
    <3> QED BY <1>2, <2>2, <3>1, AsManyBeyond
  <2>4. /\ Cardinality(kept \ (seen \cup PageRows)) <= Cardinality(Passed) + Cardinality(Rest)
        /\ Cardinality(kept \ (seen \cup PageRows)) \in Nat
        /\ Cardinality(Passed) \in Nat /\ Cardinality(Rest) \in Nat
    <3>1. Rest \subseteq Rows /\ kept \ (seen \cup PageRows) \subseteq Rows
      BY Types DEF IInv
    <3> HIDE DEF Rest
    <3> QED BY <1>7, <2>1, <3>1, Within, RowsAreFinite
  <2>5. n + gone = total + late /\ Cardinality(Passed) <= departed
    BY <1>1 DEF IInv, CountIsKept, PassedAreAccounted
  <2>6. /\ departed \in Nat /\ late \in Nat /\ gone \in Nat /\ total \in Nat
        /\ list.once \in BOOLEAN
    BY Types DEF IInv
  <2>7. CASE ~list.once
    <3>1. o >= total
      BY <1>1, <2>7
    <3>2. Unasked = 0
      BY <2>7 DEF Unasked
    <3> HIDE DEF o, n, Rest
    <3> QED BY <2>2, <2>3, <2>4, <2>5, <2>6, <3>1, <3>2
  <2>8. CASE list.once
    <3>1. page = 1
      BY <1>1, <2>8 DEF IInv, FirstPageOnly
    <3>2. o = list.limit
      BY <1>2, <3>1 DEF Offset
    <3>3. Unasked = IF total > o THEN total - o ELSE 0
      BY <2>8, <3>2 DEF Unasked
    <3> HIDE DEF o, n, Rest
    <3> QED BY <2>2, <2>3, <2>4, <2>5, <2>6, <3>3
  <2> QED BY <2>6, <2>7, <2>8
<1> QED BY <1>8, <1>9, <1>10, <1>11

\* What is proved of a set of rows that grew by another.
LEMMA Grown ==
  ASSUME NEW A, NEW B, NEW C, A \subseteq Rows, C \subseteq Rows, B \subseteq A \cup C,
         NEW m \in Nat, NEW b \in BOOLEAN,
         Cardinality(A) <= m, Cardinality(C) <= One(b)
  PROVE  Cardinality(B) <= m + One(b)
<1>1. Cardinality(B) <= Cardinality(A) + Cardinality(C)
  BY Within
<1>2. Cardinality(A) \in Nat /\ Cardinality(C) \in Nat /\ Cardinality(B) \in Nat
  <2>1. B \subseteq Rows
    OBVIOUS
  <2> QED BY <2>1, RowsAreFinite
<1>3. One(b) \in Nat
  BY DEF One
<1> QED BY <1>1, <1>2, <1>3

LEMMA EnterStep ==
  ASSUME IInv, NEW x \in Rows, NEW v \in Keys, Insert(x, v) \/ Return(x, v)
  PROVE  Sets' /\ FirstPageOnly' /\ CountIsKept' /\ PassedAreAccounted'
         /\ TwiceAreAccounted' /\ MissedAreAccounted'
<1>1. /\ Enters(x, v) /\ step # "done" /\ x \notin listed
      /\ \/ used' = used \cup {x} /\ hidden' = hidden /\ x \notin used
         \/ used' = used /\ hidden' = hidden \ {x} /\ x \in hidden
  BY DEF IInv, Sets, Insert, Return, Edits
<1>2. /\ listed' = listed \cup {x} /\ key' = [key EXCEPT ![x] = v]
      /\ arrived' = arrived + One(Place(list, key', listed', x) < Offset)
      /\ late' = late + One(step = "select")
      /\ list' = list /\ step' = step /\ page' = page /\ total' = total /\ seen' = seen
      /\ kept' = kept /\ again' = again /\ departed' = departed /\ gone' = gone
  BY <1>1 DEF Enters, reader
<1>3. Sets'
  BY <1>1, <1>2 DEF IInv, Sets
<1>4. FirstPageOnly' /\ MissedAreAccounted'
  BY <1>1, <1>2 DEF IInv, FirstPageOnly, MissedAreAccounted
<1>5. CountIsKept'
  <2>1. IsFiniteSet(listed) /\ Cardinality(listed) \in Nat
    BY Types, RowsAreFinite DEF IInv
  <2>2. Cardinality(listed') = Cardinality(listed) + 1
    BY <1>1, <1>2, <2>1, FS_AddElement
  <2>3. gone \in Nat /\ total \in Nat /\ late \in Nat
    BY Types DEF IInv
  <2> QED BY <1>2, <2>1, <2>2, <2>3 DEF IInv, CountIsKept, One
<1>6. PICK j \in [Rows -> Keys] : j = key'
  BY <1>2 DEF IInv, TypeOK
<1>7. PICK o \in Nat : o = Offset /\ o = Offset'
  BY <1>2, OffsetIsNat DEF IInv, Offset
<1>8. /\ list \in Views /\ key \in [Rows -> Keys] /\ listed \subseteq Rows /\ x \in Rows \ listed
      /\ kept \subseteq listed /\ \A z \in Rows \ {x} : key[z] = j[z]
  BY <1>1, <1>2, <1>6, Types, OffsetIsNat DEF IInv
<1> DEFINE C == {z \in kept : /\ Place(list, key, listed, z) < o
                              /\ ~(Place(list, j, listed \cup {x}, z) < o)}
<1>9. /\ \A z \in listed : Place(list, j, listed \cup {x}, z) < o => Place(list, key, listed, z) < o
      /\ Cardinality(C) <= One(Place(list, j, listed \cup {x}, x) < o)
  BY <1>8, Entering
<1>10. \A z \in listed : /\ IsRead(z) <=> Place(list, key, listed, z) < o
                         /\ IsRead(z)' <=> Place(list, j, listed \cup {x}, z) < o
  BY <1>2, <1>6, <1>7 DEF IsRead
<1>11. C \subseteq Rows /\ Passed \subseteq Rows /\ Twice \subseteq Rows
  BY Types DEF IInv, Passed, Twice
<1>12. PassedAreAccounted'
  <2>1. Passed' \subseteq Passed
    BY <1>2, <1>8, <1>9, <1>10 DEF Passed
  <2>2. Passed' \subseteq Rows
    BY <1>11, <2>1
  <2>3. /\ Cardinality(Passed') <= Cardinality(Passed) /\ Cardinality(Passed) <= departed
        /\ Cardinality(Passed') \in Nat /\ Cardinality(Passed) \in Nat /\ departed \in Nat
    BY <1>11, <2>1, <2>2, Fewer, RowsAreFinite, Types DEF IInv, PassedAreAccounted
  <2>4. Cardinality(Passed') <= departed
    BY <2>3
  <2> QED BY <1>2, <2>4 DEF PassedAreAccounted
<1>13. TwiceAreAccounted'
  <2>1. Twice' \subseteq Twice \cup C
    BY <1>2, <1>8, <1>10 DEF Twice
  <2>2. arrived \in Nat /\ Cardinality(Twice) <= arrived
    BY Types DEF IInv, TwiceAreAccounted
  <2>3. Cardinality(Twice') <= arrived + One(Place(list, j, listed \cup {x}, x) < o)
    <3> DEFINE b == Place(list, j, listed \cup {x}, x) < o
    <3>1. b \in BOOLEAN /\ Cardinality(C) <= One(b)
      BY <1>9
    <3> HIDE DEF C, b
    <3>2. Cardinality(Twice') <= arrived + One(b)
      BY <1>11, <2>1, <2>2, <3>1, Grown
    <3> QED BY <3>2 DEF b
  <2> QED BY <1>2, <1>6, <1>7, <2>3 DEF TwiceAreAccounted
<1> QED BY <1>3, <1>4, <1>5, <1>12, <1>13

LEMMA LeaveStep ==
  ASSUME IInv, NEW x \in Rows, Delete(x) \/ Hide(x)
  PROVE  Sets' /\ FirstPageOnly' /\ CountIsKept' /\ PassedAreAccounted'
         /\ TwiceAreAccounted' /\ MissedAreAccounted'
<1>1. Leaves(x) /\ step # "done" /\ (hidden' = hidden \/ hidden' = hidden \cup {x})
  BY DEF Delete, Hide, Edits
<1>2. /\ x \in listed /\ listed' = listed \ {x} /\ kept' = kept \ {x}
      /\ departed' = departed + One(IsRead(x)) /\ gone' = gone + One(step = "select")
      /\ used' = used /\ key' = key /\ list' = list
      /\ step' = step /\ page' = page /\ total' = total /\ seen' = seen
      /\ again' = again /\ arrived' = arrived /\ late' = late
  BY <1>1 DEF Leaves, reader
<1>3. Sets'
  BY <1>1, <1>2 DEF IInv, Sets
<1>4. FirstPageOnly' /\ MissedAreAccounted'
  BY <1>1, <1>2 DEF IInv, FirstPageOnly, MissedAreAccounted
<1>5. CountIsKept'
  <2>1. IsFiniteSet(listed) /\ Cardinality(listed) \in Nat
    BY Types, RowsAreFinite DEF IInv
  <2>2. Cardinality(listed') = Cardinality(listed) - 1
    BY <1>2, <2>1, FS_RemoveElement
  <2>3. gone \in Nat /\ total \in Nat /\ late \in Nat
    BY Types DEF IInv
  <2> QED BY <1>2, <2>1, <2>2, <2>3 DEF IInv, CountIsKept, One
<1>7. PICK o \in Nat : o = Offset /\ o = Offset'
  BY <1>2, OffsetIsNat DEF IInv, Offset
<1>8. /\ list \in Views /\ key \in [Rows -> Keys] /\ listed \subseteq Rows /\ x \in listed
      /\ kept \subseteq listed
  BY <1>2, Types, OffsetIsNat DEF IInv
<1> DEFINE C == {z \in kept \ {x} : /\ ~(Place(list, key, listed, z) < o)
                                    /\ Place(list, key, listed \ {x}, z) < o}
<1>9. /\ \A z \in listed \ {x} :
            Place(list, key, listed, z) < o => Place(list, key, listed \ {x}, z) < o
      /\ Cardinality(C) <= One(Place(list, key, listed, x) < o)
  BY <1>8, Leaving
<1>10. \A z \in listed : /\ IsRead(z) <=> Place(list, key, listed, z) < o
                         /\ IsRead(z)' <=> Place(list, key, listed \ {x}, z) < o
  BY <1>2, <1>7 DEF IsRead
<1>11. C \subseteq Rows /\ Passed \subseteq Rows /\ Twice \subseteq Rows
  BY Types DEF IInv, Passed, Twice
<1>12. PassedAreAccounted'
  <2>1. Passed' \subseteq Passed \cup C
    BY <1>2, <1>8, <1>10 DEF Passed
  <2>2. departed \in Nat /\ Cardinality(Passed) <= departed
    BY Types DEF IInv, PassedAreAccounted
  <2>3. Cardinality(Passed') <= departed + One(Place(list, key, listed, x) < o)
    <3> DEFINE b == Place(list, key, listed, x) < o
    <3>1. b \in BOOLEAN /\ Cardinality(C) <= One(b)
      BY <1>9
    <3> HIDE DEF C, b
    <3>2. Cardinality(Passed') <= departed + One(b)
      BY <1>11, <2>1, <2>2, <3>1, Grown
    <3> QED BY <3>2 DEF b
  <2> QED BY <1>2, <1>7, <2>3 DEF PassedAreAccounted, IsRead
<1>13. TwiceAreAccounted'
  <2>1. Twice' \subseteq Twice
    BY <1>2, <1>8, <1>9, <1>10 DEF Twice
  <2>2. Twice' \subseteq Rows
    BY <1>11, <2>1
  <2>3. /\ Cardinality(Twice') <= Cardinality(Twice) /\ Cardinality(Twice) <= arrived
        /\ Cardinality(Twice') \in Nat /\ Cardinality(Twice) \in Nat /\ arrived \in Nat
    BY <1>11, <2>1, <2>2, Fewer, RowsAreFinite, Types DEF IInv, TwiceAreAccounted
  <2>4. Cardinality(Twice') <= arrived
    BY <2>3
  <2> QED BY <1>2, <2>4 DEF TwiceAreAccounted
<1> QED BY <1>3, <1>4, <1>5, <1>12, <1>13

LEMMA MoveStep ==
  ASSUME IInv, NEW x \in Rows, NEW v \in Keys, Move(x, v)
  PROVE  Sets' /\ FirstPageOnly' /\ CountIsKept' /\ PassedAreAccounted'
         /\ TwiceAreAccounted' /\ MissedAreAccounted'
<1>1. x \in listed /\ step # "done"
  BY DEF Move, Edits
<1>2. /\ key' = [key EXCEPT ![x] = v] /\ kept' = kept \ {x}
      /\ departed' = departed + One(IsRead(x) /\ ~(Place(list, key', listed, x) < Offset))
      /\ arrived' = arrived + One(~IsRead(x) /\ Place(list, key', listed, x) < Offset)
      /\ list' = list /\ listed' = listed /\ hidden' = hidden /\ used' = used
      /\ step' = step /\ page' = page /\ total' = total /\ seen' = seen
      /\ again' = again /\ late' = late /\ gone' = gone
  BY DEF Move, reader
<1>3. Sets' /\ FirstPageOnly' /\ CountIsKept' /\ MissedAreAccounted'
  BY <1>1, <1>2 DEF IInv, Sets, FirstPageOnly, CountIsKept, MissedAreAccounted
<1>6. PICK j \in [Rows -> Keys] : j = key'
  BY <1>2 DEF IInv, TypeOK
<1>7. PICK o \in Nat : o = Offset /\ o = Offset'
  BY <1>2, OffsetIsNat DEF IInv, Offset
<1>8. /\ list \in Views /\ key \in [Rows -> Keys] /\ listed \subseteq Rows /\ x \in listed
      /\ kept \subseteq listed /\ \A z \in Rows \ {x} : key[z] = j[z] /\ j[z] = key[z]
  BY <1>1, <1>2, <1>6, Types, OffsetIsNat DEF IInv
<1>9. \A z : /\ Place(list, key, listed, z) \in Nat /\ Place(list, j, listed, z) \in Nat
             /\ IsRead(z) <=> Place(list, key, listed, z) < o
             /\ IsRead(z)' <=> Place(list, j, listed, z) < o
  BY <1>2, <1>6, <1>7, <1>8, PlaceIsNat DEF IsRead
<1> DEFINE In  == {z \in kept \ {x} : ~IsRead(z) /\ IsRead(z)'}
           Out == {z \in kept \ {x} : IsRead(z) /\ ~IsRead(z)'}
           left  == IsRead(x) /\ ~IsRead(x)'
           came  == ~IsRead(x) /\ IsRead(x)'
<1>10. Cardinality(In) <= One(left)
  <2>1. /\ In \subseteq listed \ {x}
        /\ \A z \in In : Place(list, key, listed, z) >= o /\ Place(list, j, listed, z) < o
    BY <1>8, <1>9
  <2>2. Cardinality(In) <= One(/\ Place(list, key, listed, x) < o
                              /\ ~(Place(list, j, listed, x) < o))
    <3> HIDE DEF In
    <3> QED BY <1>8, <2>1, OneFollows
  <2> HIDE DEF In
  <2> QED BY <1>9, <2>2 DEF One
<1>11. Cardinality(Out) <= One(came)
  <2>1. /\ Out \subseteq listed \ {x}
        /\ \A z \in Out : Place(list, j, listed, z) >= o /\ Place(list, key, listed, z) < o
    BY <1>8, <1>9
  <2>2. Cardinality(Out) <= One(/\ Place(list, j, listed, x) < o
                               /\ ~(Place(list, key, listed, x) < o))
    <3> HIDE DEF Out
    <3> QED BY <1>8, <2>1, OneFollows
  <2> HIDE DEF Out
  <2> QED BY <1>9, <2>2 DEF One
<1>12. departed' = departed + One(left) /\ arrived' = arrived + One(came)
  BY <1>2, <1>6, <1>7, <1>9 DEF One
<1>13. In \subseteq Rows /\ Out \subseteq Rows /\ Passed \subseteq Rows /\ Twice \subseteq Rows
  BY Types DEF IInv, Passed, Twice
<1>14. left \in BOOLEAN /\ came \in BOOLEAN
  OBVIOUS
<1>15. PassedAreAccounted'
  <2>1. Passed' \subseteq Passed \cup In
    BY <1>2 DEF Passed
  <2>2. departed \in Nat /\ Cardinality(Passed) <= departed
    BY Types DEF IInv, PassedAreAccounted
  <2>3. Cardinality(Passed') <= departed + One(left)
    <3> HIDE DEF In, left
    <3> QED BY <1>10, <1>13, <1>14, <2>1, <2>2, Grown
  <2> HIDE DEF left
  <2> QED BY <1>12, <2>3 DEF PassedAreAccounted
<1>16. TwiceAreAccounted'
  <2>1. Twice' \subseteq Twice \cup Out
    BY <1>2 DEF Twice
  <2>2. arrived \in Nat /\ Cardinality(Twice) <= arrived
    BY Types DEF IInv, TwiceAreAccounted
  <2>3. Cardinality(Twice') <= arrived + One(came)
    <3> HIDE DEF Out, came
    <3> QED BY <1>11, <1>13, <1>14, <2>1, <2>2, Grown
  <2> HIDE DEF came
  <2> QED BY <1>12, <2>3 DEF TwiceAreAccounted
<1> QED BY <1>3, <1>15, <1>16

LEMMA StepPreserves == IInv /\ [Next]_vars => IInv'
<1> SUFFICES ASSUME IInv, [Next]_vars PROVE IInv'
  OBVIOUS
<1>1. TypeOK'
  BY TypeStep DEF IInv
<1> DEFINE Rest == Sets /\ FirstPageOnly /\ CountIsKept /\ PassedAreAccounted
                   /\ TwiceAreAccounted /\ MissedAreAccounted
<1>2. CASE Count \/ Retry \/ UNCHANGED vars
  BY <1>1, <1>2, CountStep DEF IInv
<1>3. CASE Select
  BY <1>1, <1>3, SelectStep DEF IInv
<1>4. ASSUME NEW x \in Rows, NEW k \in Keys, Insert(x, k) \/ Return(x, k) PROVE IInv'
  BY <1>1, <1>4, EnterStep DEF IInv
<1>5. ASSUME NEW x \in Rows, NEW k \in Keys, Move(x, k) PROVE IInv'
  BY <1>1, <1>5, MoveStep DEF IInv
<1>6. ASSUME NEW x \in Rows, Delete(x) \/ Hide(x) PROVE IInv'
  BY <1>1, <1>6, LeaveStep DEF IInv
<1> QED BY <1>2, <1>3, <1>4, <1>5, <1>6 DEF Next

LEMMA Invariance == Spec => []IInv
BY InitEstablishes, StepPreserves, PTL DEF Spec

-----------------------------------------------------------------------------
\* What the walks show.

\* The variables of the model keep their types.
THEOREM TypeCorrect == Spec => []TypeOK
<1>1. IInv => TypeOK
  BY DEF IInv
<1> QED BY <1>1, Invariance, PTL

\* Every walk of every list of both services accounts for the rows it misses:
\* reading by COUNT, LIMIT and OFFSET loses at most as many rows as others took
\* out of the part already read or added after the last COUNT.
THEOREM MissedRows == Spec => []MissedAreAccounted
<1>1. IInv => MissedAreAccounted
  BY DEF IInv
<1> QED BY <1>1, Invariance, PTL

\* And for the rows it receives twice, by the rows that entered before them.
THEOREM RepeatedRows == Spec => []RepeatsAreAccounted
<1>1. IInv => RepeatsAreAccounted
  <2> SUFFICES ASSUME IInv PROVE RepeatsAreAccounted
    OBVIOUS
  <2>1. again \cap kept \subseteq Twice /\ Twice \subseteq Rows /\ again \cap kept \subseteq Rows
    BY Types DEF IInv, Twice
  <2>2. /\ Cardinality(again \cap kept) <= Cardinality(Twice) /\ Cardinality(Twice) <= arrived
        /\ Cardinality(again \cap kept) \in Nat /\ Cardinality(Twice) \in Nat /\ arrived \in Nat
    BY <2>1, Fewer, RowsAreFinite, Types DEF IInv, TwiceAreAccounted
  <2> QED BY <2>2 DEF RepeatsAreAccounted
<1> QED BY <1>1, Invariance, PTL

\* A page and the total it is sent with differ by what happened between the two
\* statements, and by nothing else.
THEOREM PagesAreWhole == Spec => []PageIsWhole
<1>1. IInv => PageIsWhole
  <2> SUFFICES ASSUME IInv, step = "select" PROVE PageIsWhole
    BY DEF PageIsWhole
  <2> DEFINE Before == {x \in listed : IsRead(x)}
             After  == {x \in listed : ~(Place(list, key, listed, x) < Offset)}
             Beyond == {x \in listed : ~(Place(list, key, listed, x) < Offset + list.limit)}
             n == Cardinality(listed)
             rows == Cardinality(PageRows)
  <2>1. /\ Offset \in Nat /\ list \in Views /\ list.limit \in Nat
        /\ listed \subseteq Rows /\ key \in [Rows -> Keys] /\ n \in Nat
        /\ total \in Nat /\ late \in Nat /\ gone \in Nat /\ n + gone = total + late
    BY OffsetIsNat, Types DEF IInv, CountIsKept
  <2>2. \A x \in listed : Place(list, key, listed, x) \in Nat
    BY Types DEF IInv
  <2>3. listed = Before \cup PageRows \cup Beyond /\ PageRows \subseteq After
    BY <2>1, <2>2 DEF PageRows, IsRead
  <2>4. Before \subseteq Rows /\ PageRows \subseteq Rows /\ After \subseteq Rows /\ Beyond \subseteq Rows
        /\ PageRows \subseteq listed /\ Before \cup PageRows \subseteq Rows
    BY <2>1 DEF PageRows
  <2>5. /\ Cardinality(Before) \in Nat /\ rows \in Nat
        /\ Cardinality(After) \in Nat /\ Cardinality(Beyond) \in Nat
        /\ Cardinality(Before \cup PageRows) \in Nat
    <3> HIDE DEF Before, After, Beyond
    <3> QED BY <2>4, RowsAreFinite
  <2>6. Cardinality(Before) <= Offset
    <3>1. PICK o \in Nat : o = 0
      OBVIOUS
    <3>2. \A x \in Before : /\ ~(Place(list, key, listed, x) < o)
                            /\ Place(list, key, listed, x) < o + Offset
      BY <2>1, <2>2, <3>1 DEF IsRead
    <3>3. Before \subseteq listed
      OBVIOUS
    <3> HIDE DEF Before
    <3> QED BY <2>1, <3>2, <3>3, AsManyWithin
  <2>7. IF Offset + list.limit <= n THEN Cardinality(Beyond) <= n - (Offset + list.limit)
                                    ELSE Cardinality(Beyond) = 0
    <3>1. PICK o \in Nat : o = Offset + list.limit
      BY <2>1
    <3> QED BY <2>1, <3>1, AsManyBeyond
  <2>8. IF Offset <= n THEN Cardinality(After) <= n - Offset ELSE Cardinality(After) = 0
    BY <2>1, AsManyBeyond
  <2>9. rows <= Cardinality(After)
    <3> HIDE DEF After
    <3> QED BY <2>3, <2>4, Fewer
  <2>10. n <= Cardinality(Before) + rows + Cardinality(Beyond)
    <3> HIDE DEF Before, Beyond
    <3>1. n <= Cardinality(Before \cup PageRows) + Cardinality(Beyond)
      BY <2>3, <2>4, Within
    <3>2. Cardinality(Before \cup PageRows) <= Cardinality(Before) + rows
      BY <2>4, Within
    <3> HIDE DEF n, rows
    <3> QED BY <2>1, <2>5, <3>1, <3>2
  <2>11. /\ rows + gone >= total - Offset \/ rows + gone >= list.limit
         /\ rows <= late \/ rows <= total - Offset + late
    <3> HIDE DEF Before, After, Beyond, n, rows
    <3> QED BY <2>1, <2>5, <2>6, <2>7, <2>8, <2>9, <2>10
  <2> QED BY <2>11 DEF PageIsWhole
<1> QED BY <1>1, Invariance, PTL
=============================================================================
