-------------------------- MODULE FastDetectorProofs --------------------------
(***************************************************************************)
(* Theorems about the feature detector, for images, grids and pyramids of  *)
(* every size and corners with any scores: the suppression that walks the  *)
(* list of corners once keeps the strict maxima, and the grid spreads the  *)
(* features.                                                               *)
(***************************************************************************)
EXTENDS FastDetector, FiniteSetTheorems, SequenceTheorems, TLAPS

(* Every set of naturals that is not empty has a least element.             *)
LEMMA LeastNat ==
  ASSUME NEW T \in SUBSET Nat, T # {}
  PROVE  \E x \in T : \A y \in T : x <= y
<1> DEFINE R == StrictSubsetOrdering(Nat)
           F == {0 .. k - 1 : k \in T}
<1>1. F \subseteq FiniteSubsetsOf(Nat) /\ F # {}
  <2>1. ASSUME NEW k \in T PROVE 0 .. k - 1 \in FiniteSubsetsOf(Nat)
    <3>1. k \in Nat
      OBVIOUS
    <3>2. 0 .. k - 1 \in SUBSET Nat
      BY <3>1
    <3> QED BY <3>1, <3>2, FS_Interval DEF FiniteSubsetsOf
  <2> QED BY <2>1
<1>2. \E A \in F : \A B \in F : <<B, A>> \notin R
  <2> HIDE DEF R, F
  <2>1. IsWellFoundedOn(R, FiniteSubsetsOf(Nat))
    BY FS_StrictSubsetOrderingWellFounded DEF R
  <2> QED BY <2>1, <1>1, WFMin
<1>3. PICK x \in T : \A y \in T : <<0 .. y - 1, 0 .. x - 1>> \notin R
  BY <1>2
<1>4. ASSUME NEW y \in T, y < x PROVE FALSE
  <2>1. x \in Nat /\ y \in Nat
    OBVIOUS
  <2>2. 0 .. y - 1 \subseteq 0 .. x - 1 /\ y \in 0 .. x - 1 /\ y \notin 0 .. y - 1
    BY <2>1, <1>4
  <2>3. 0 .. y - 1 # 0 .. x - 1
    BY <2>2
  <2>4. 0 .. y - 1 \in SUBSET Nat /\ 0 .. x - 1 \in SUBSET Nat
    BY <2>1
  <2>5. <<0 .. y - 1, 0 .. x - 1>> \in R
    BY <2>2, <2>3, <2>4 DEF StrictSubsetOrdering
  <2> QED BY <2>5, <1>3
<1>5. \A y \in T : x <= y
  BY <1>4
<1> QED BY <1>5

-----------------------------------------------------------------------------
(* The order of the corners                                                 *)

Sorted(s) == \A a, b \in 1 .. Len(s) : a < b => Before(s[a], s[b])

(* A finite set of positions has a first, a second and so on, up to its     *)
(* cardinality: RasterOrder lists it, and lists it in order.                *)
LEMMA RasterOrderSorted ==
  ASSUME NEW S \in SUBSET (Int \X Int), IsFiniteSet(S)
  PROVE  /\ RasterOrder(S) \in Seq(Int \X Int)
         /\ Len(RasterOrder(S)) = Cardinality(S)
         /\ Sorted(RasterOrder(S))
<1> DEFINE N == Cardinality(S)
           Rank(p) == {q \in S : Before(q, p)}
           f == [p \in S |-> Cardinality(Rank(p)) + 1]
<1>1. N \in Nat
  BY FS_CardinalityType
<1>2. ASSUME NEW p \in S, NEW q \in S, p # q
      PROVE  Before(p, q) \/ Before(q, p)
  <2>1. p \in Int \X Int /\ q \in Int \X Int
    OBVIOUS
  <2> QED BY <2>1, <1>2 DEF Before
<1>3. ASSUME NEW p \in S
      PROVE  IsFiniteSet(Rank(p)) /\ Cardinality(Rank(p)) \in 0 .. N - 1
  <2>1. Rank(p) \subseteq S /\ p \notin Rank(p)
    BY DEF Before
  <2>2. IsFiniteSet(Rank(p)) /\ Cardinality(Rank(p)) <= N /\ Cardinality(Rank(p)) # N
    BY <2>1, FS_Subset
  <2> QED BY <2>2, <1>1, FS_CardinalityType
<1>4. ASSUME NEW p \in S, NEW q \in S, Before(p, q)
      PROVE  Cardinality(Rank(p)) < Cardinality(Rank(q))
  <2>1. p \in Int \X Int /\ q \in Int \X Int
    OBVIOUS
  <2>2. \A r \in S : Before(r, p) => Before(r, q)
    <3> SUFFICES ASSUME NEW r \in S, Before(r, p) PROVE Before(r, q)
      OBVIOUS
    <3>1. r \in Int \X Int
      OBVIOUS
    <3> QED BY <3>1, <2>1, <1>4 DEF Before
  <2>3. Rank(p) \in SUBSET Rank(q) /\ p \in Rank(q) /\ p \notin Rank(p)
    BY <2>2, <2>1, <1>4 DEF Before
  <2>4. Cardinality(Rank(p)) <= Cardinality(Rank(q)) /\ Cardinality(Rank(p)) # Cardinality(Rank(q))
    BY <2>3, <1>3, FS_Subset
  <2>5. Cardinality(Rank(p)) \in Nat /\ Cardinality(Rank(q)) \in Nat
    <3> HIDE DEF Rank
    <3> QED BY <1>1, <1>3
  <2> QED BY <2>4, <2>5
<1> HIDE DEF Rank
<1>5. f \in Injection(S, 1 .. N)
  <2>1. f \in [S -> 1 .. N]
    BY <1>1, <1>3
  <2>2. ASSUME NEW p \in S, NEW q \in S, f[p] = f[q] PROVE p = q
    <3>1. Cardinality(Rank(p)) = Cardinality(Rank(q))
      <4>1. Cardinality(Rank(p)) \in Int /\ Cardinality(Rank(q)) \in Int
        BY <1>1, <1>3
      <4> QED BY <4>1, <2>2
    <3>2. Cardinality(Rank(p)) \in Int
      BY <1>1, <1>3
    <3> QED BY <3>1, <3>2, <1>2, <1>4
  <2> QED BY <2>1, <2>2 DEF Injection, IsInjective
<1>6. f \in Surjection(S, 1 .. N)
  <2>1. IsFiniteSet(1 .. N) /\ Cardinality(1 .. N) = N
    BY <1>1, FS_Interval
  <2> HIDE DEF f
  <2> QED BY <2>1, <1>5, FS_Injection
<1>7. ASSUME NEW k \in 1 .. N PROVE \E p \in S : Cardinality(Rank(p)) = k - 1
  <2>1. PICK p \in S : f[p] = k
    BY <1>6 DEF Surjection
  <2>2. Cardinality(Rank(p)) \in Int
    BY <1>1, <1>3
  <2> QED BY <2>1, <2>2, <1>1
<1> DEFINE s == RasterOrder(S)
<1>8. s = [k \in 1 .. N |-> CHOOSE p \in S : Cardinality(Rank(p)) = k - 1]
  BY DEF RasterOrder, Rank
<1>9. \A k \in 1 .. N : s[k] \in S /\ Cardinality(Rank(s[k])) = k - 1
  <2> SUFFICES ASSUME NEW k \in 1 .. N PROVE s[k] \in S /\ Cardinality(Rank(s[k])) = k - 1
    OBVIOUS
  <2>1. s[k] = CHOOSE p \in S : Cardinality(Rank(p)) = k - 1
    BY <1>8
  <2> HIDE DEF s
  <2> QED BY <2>1, <1>7
<1>10. s \in Seq(Int \X Int) /\ Len(s) = N
  <2>1. s \in [1 .. N -> Int \X Int]
    BY <1>8, <1>9
  <2> HIDE DEF s
  <2> QED BY <2>1, <1>1
<1>11. ASSUME NEW a \in 1 .. N, NEW b \in 1 .. N, a < b PROVE Before(s[a], s[b])
  <2>1. s[a] \in S /\ s[b] \in S /\ Cardinality(Rank(s[a])) < Cardinality(Rank(s[b]))
    BY <1>9, <1>11, <1>1
  <2>2. Cardinality(Rank(s[a])) \in Int /\ Cardinality(Rank(s[b])) \in Int
    BY <2>1, <1>1, <1>3
  <2> HIDE DEF s
  <2>3. s[a] # s[b] /\ ~Before(s[b], s[a])
    BY <2>1, <2>2, <1>4
  <2> QED BY <2>1, <2>3, <1>2
<1> HIDE DEF s
<1>12. Sorted(s)
  BY <1>10, <1>11 DEF Sorted
<1> QED BY <1>10, <1>12 DEF s

-----------------------------------------------------------------------------
(* The walk through the list                                                *)

OrderInv ==
  /\ fast_corners \in Seq(Int \X Int) /\ scores \in [Corners -> Int]
  /\ Sorted(fast_corners)

(* Corner m is in front of all that are next to corner a in row Y(a) + dy:  *)
(* in an earlier row, or in that one and too far to the left.              *)
Passed(m, a, dy) == Y(m) < Y(a) + dy \/ (Y(m) = Y(a) + dy /\ X(m) < X(a) - 1)

(* The indices have only gone past what no later corner has to look at.     *)
IndexInv ==
  /\ i \in 1 .. Size + 1
  /\ point_above \in 1 .. i /\ point_below \in 1 .. Size + 1
  /\ \A a \in i .. Size : \A m \in 1 .. point_above - 1 : Passed(m, a, -1)
  /\ \A a \in i .. Size : \A m \in 1 .. point_below - 1 : Passed(m, a, 1)

(* The order of the corners, in coordinates.                                *)
LEMMA Raster ==
  ASSUME OrderInv
  PROVE  /\ Size \in Nat
         /\ \A m \in Corners : X(m) \in Int /\ Y(m) \in Int /\ scores[m] \in Int
         /\ \A a, b \in Corners : a < b => Y(a) < Y(b) \/ (Y(a) = Y(b) /\ X(a) < X(b))
<1>1. Size \in Nat
  BY DEF OrderInv, Size
<1>2. ASSUME NEW m \in Corners PROVE X(m) \in Int /\ Y(m) \in Int /\ scores[m] \in Int
  <2>1. fast_corners[m] \in Int \X Int
    BY DEF OrderInv, Corners, Size
  <2> QED BY <2>1 DEF X, Y, OrderInv
<1>3. ASSUME NEW a \in Corners, NEW b \in Corners, a < b
      PROVE  Y(a) < Y(b) \/ (Y(a) = Y(b) /\ X(a) < X(b))
  BY <1>3 DEF OrderInv, Sorted, Corners, Size, Before, X, Y
<1> QED BY <1>1, <1>2, <1>3

(* What is passed for one corner is passed for the later ones.              *)
LEMMA PassedForLater ==
  ASSUME OrderInv, NEW a \in Corners, NEW b \in Corners, a <= b, NEW m \in Corners,
         NEW dy \in {-1, 1}, Passed(m, a, dy)
  PROVE  Passed(m, b, dy)
<1>1. CASE a = b
  BY <1>1
<1>2. CASE a # b
  <2>1. a < b /\ dy \in Int
    BY <1>2 DEF Corners
  <2> QED BY <2>1, Raster DEF Passed
<1> QED BY <1>1, <1>2

(* The index stops at the first corner that is not passed, or at the end.   *)
LEMMA PassingStops ==
  ASSUME Size \in Nat, NEW k \in 1 .. Size + 1, NEW passed \in SUBSET Corners
  PROVE  /\ Passing(k, passed) \in k .. Size + 1
         /\ Passing(k, passed) \notin passed
         /\ k .. Passing(k, passed) - 1 \subseteq passed
<1> DEFINE T == {m \in k .. Size + 1 : m \notin passed}
<1>1. T \in SUBSET Nat /\ Size + 1 \in T
  BY DEF Corners
<1>2. PICK m \in T : \A y \in T : m <= y
  BY <1>1, LeastNat
<1>3. k .. m - 1 \subseteq passed
  BY <1>1, <1>2
<1> QED BY <1>2, <1>3, Zenon DEF Passing

(* The first corner of a row has only earlier rows in front of it.          *)
LEMMA RowStartFirst ==
  ASSUME OrderInv, NEW y \in Int, HasRow(y)
  PROVE  /\ RowStart(y) \in Corners /\ Y(RowStart(y)) = y
         /\ \A m \in 1 .. RowStart(y) - 1 : Y(m) < y
<1> DEFINE T == {m \in Corners : Y(m) = y}
<1>1. T \in SUBSET Nat /\ T # {}
  BY DEF HasRow, Corners
<1>2. PICK a \in T : \A m \in T : a <= m
  BY <1>1, LeastNat
<1>3. /\ RowStart(y) \in Corners /\ Y(RowStart(y)) = y
      /\ \A m \in Corners : Y(m) = y => RowStart(y) <= m
  BY <1>2, Zenon DEF RowStart
<1>4. ASSUME NEW m \in 1 .. RowStart(y) - 1 PROVE Y(m) < y
  <2>1. m \in Corners /\ m < RowStart(y) /\ ~(RowStart(y) <= m)
    BY <1>3, Raster DEF Corners
  <2>2. Y(m) # y
    BY <2>1, <1>3
  <2>3. Y(m) < Y(RowStart(y)) \/ Y(m) = Y(RowStart(y))
    BY <2>1, <1>3, Raster
  <2> QED BY <2>2, <2>3, <1>3
<1> QED BY <1>3, <1>4

(* From where an index starts for corner i, all corners are in row          *)
(* Y(i) + dy or a later one, and what is before it is passed.              *)
LEMMA FromRowStarts ==
  ASSUME OrderInv, i \in Corners, NEW dy \in {-1, 1}, HasRow(Y(i) + dy),
         NEW k \in 1 .. Size + 1, \A m \in 1 .. k - 1 : Passed(m, i, dy)
  PROVE  /\ FromRow(k, Y(i) + dy) \in Corners
         /\ \A m \in FromRow(k, Y(i) + dy) .. Size : Y(m) >= Y(i) + dy
         /\ \A m \in 1 .. FromRow(k, Y(i) + dy) - 1 : Passed(m, i, dy)
<1> DEFINE y == Y(i) + dy
           r == FromRow(k, y)
<1>0. y \in Int /\ Size \in Nat /\ HasRow(y)
  BY Raster
<1>1. r \in Corners /\ Y(r) >= y /\ \A m \in 1 .. r - 1 : Passed(m, i, dy)
  <2>1. CASE k <= Size /\ Y(k) >= y
    <3>1. r = k
      BY <2>1 DEF FromRow
    <3> QED BY <3>1, <2>1, <1>0 DEF Corners
  <2>2. CASE ~(k <= Size /\ Y(k) >= y)
    <3>1. r = RowStart(y)
      BY <2>2 DEF FromRow
    <3>2. r \in Corners /\ Y(r) = y /\ \A m \in 1 .. r - 1 : Y(m) < y
      <4> HIDE DEF y
      <4> QED BY <3>1, <1>0, RowStartFirst
    <3> QED BY <3>2, <1>0 DEF Passed
  <2> QED BY <2>1, <2>2
<1> HIDE DEF r
<1>2. ASSUME NEW m \in r .. Size PROVE Y(m) >= y
  <2>1. m \in Corners /\ (r = m \/ r < m)
    BY <1>0, <1>1 DEF Corners
  <2> HIDE DEF y
  <2> QED BY <2>1, <1>0, <1>1, Raster
<1> QED BY <1>1, <1>2 DEF r

(* An index set for corner i: what is before it is passed, what is from     *)
(* there on is in row Y(i) + dy or a later one.                             *)
IndexSet(a, dy) ==
  /\ a \in 1 .. Size + 1
  /\ \A m \in 1 .. a - 1 : Passed(m, i, dy)
  /\ \A m \in a .. Size : Y(m) >= Y(i) + dy

(* The index moves on past corners that are passed only.                    *)
LEMMA MovedOn ==
  ASSUME OrderInv, i \in Corners, NEW dy \in {-1, 1}, NEW r \in Corners, IndexSet(r, dy),
         NEW passed \in SUBSET Corners,
         \A m \in passed : Y(m) < Y(i) + dy + 1 /\ X(m) < X(i) - 1
  PROVE  Passing(r, passed) \in r .. Size + 1 /\ IndexSet(Passing(r, passed), dy)
<1> DEFINE a == Passing(r, passed)
<1>0. Size \in Nat /\ r \in 1 .. Size + 1 /\ Y(i) \in Int /\ X(i) \in Int /\ dy \in Int
  BY Raster DEF Corners
<1>1. a \in r .. Size + 1 /\ r .. a - 1 \subseteq passed
  BY <1>0, PassingStops
<1> HIDE DEF a
<1>2. a \in 1 .. Size + 1
  BY <1>0, <1>1
<1>3. ASSUME NEW m \in 1 .. a - 1 PROVE Passed(m, i, dy)
  <2>1. CASE m < r
    BY <2>1, <1>0 DEF IndexSet
  <2>2. CASE m >= r
    <3>1. m \in r .. a - 1 /\ m \in r .. Size
      BY <2>2, <1>0, <1>1
    <3>2. m \in passed /\ m \in Corners
      BY <3>1, <1>1
    <3>3. Y(m) >= Y(i) + dy
      BY <3>1 DEF IndexSet
    <3> QED BY <3>2, <3>3, <1>0, Raster DEF Passed
  <2> QED BY <2>1, <2>2, <1>0, <1>1
<1>4. ASSUME NEW m \in a .. Size PROVE Y(m) >= Y(i) + dy
  <2>1. m \in r .. Size
    BY <1>0, <1>1
  <2> QED BY <2>1 DEF IndexSet
<1> QED BY <1>1, <1>2, <1>3, <1>4 DEF a, IndexSet

LEMMA AboveSet ==
  ASSUME OrderInv, IndexInv, i \in Corners, HasRow(Y(i) - 1)
  PROVE  Above(i) \in 1 .. i /\ IndexSet(Above(i), -1)
<1> DEFINE r == FromRow(point_above, Y(i) - 1)
           passed == {m \in Corners : Y(m) < Y(i) /\ X(m) < X(i) - 1}
<1>0. Size \in Nat /\ i \in Int /\ Y(i) \in Int /\ X(i) \in Int /\ Y(i) + (-1) = Y(i) - 1
  BY Raster DEF Corners
<1>1. r \in Corners /\ IndexSet(r, -1)
  <2>1. point_above \in 1 .. Size + 1 /\ \A m \in 1 .. point_above - 1 : Passed(m, i, -1)
    BY <1>0 DEF IndexInv, Corners
  <2>2. /\ r \in Corners
        /\ \A m \in r .. Size : Y(m) >= Y(i) - 1
        /\ \A m \in 1 .. r - 1 : Passed(m, i, -1)
    BY <2>1, <1>0, FromRowStarts
  <2> HIDE DEF r
  <2>3. r \in 1 .. Size + 1
    BY <2>2, <1>0 DEF Corners
  <2> QED BY <2>2, <2>3, <1>0 DEF IndexSet
<1>2. /\ passed \in SUBSET Corners
      /\ \A m \in passed : Y(m) < Y(i) + (-1) + 1 /\ X(m) < X(i) - 1
  BY <1>0
<1>3. Above(i) = Passing(r, passed)
  BY DEF Above
<1> HIDE DEF r, passed
<1>4. Above(i) \in r .. Size + 1 /\ IndexSet(Above(i), -1)
  BY <1>1, <1>2, <1>3, MovedOn
<1>5. ~(i < Above(i))
  <2> SUFFICES ASSUME i < Above(i) PROVE FALSE
    OBVIOUS
  <2>1. i \in 1 .. Above(i) - 1
    BY <1>0, <1>4 DEF Corners, IndexSet
  <2>2. Passed(i, i, -1)
    BY <2>1, <1>4 DEF IndexSet
  <2> QED BY <2>2, <1>0 DEF Passed
<1> QED BY <1>0, <1>4, <1>5 DEF IndexSet

LEMMA BelowSet ==
  ASSUME OrderInv, IndexInv, i \in Corners, HasRow(Y(i) + 1)
  PROVE  Below(i) \in 1 .. Size + 1 /\ IndexSet(Below(i), 1)
<1> DEFINE r == FromRow(point_below, Y(i) + 1)
           passed == {m \in Corners : Y(m) = Y(i) + 1 /\ X(m) < X(i) - 1}
<1>0. Size \in Nat /\ i \in Int /\ Y(i) \in Int /\ X(i) \in Int
  BY Raster DEF Corners
<1>1. r \in Corners /\ IndexSet(r, 1)
  <2>1. point_below \in 1 .. Size + 1 /\ \A m \in 1 .. point_below - 1 : Passed(m, i, 1)
    BY <1>0 DEF IndexInv, Corners
  <2>2. /\ r \in Corners
        /\ \A m \in r .. Size : Y(m) >= Y(i) + 1
        /\ \A m \in 1 .. r - 1 : Passed(m, i, 1)
    BY <2>1, <1>0, FromRowStarts
  <2> HIDE DEF r
  <2>3. r \in 1 .. Size + 1
    BY <2>2, <1>0 DEF Corners
  <2> QED BY <2>2, <2>3 DEF IndexSet
<1>2. /\ passed \in SUBSET Corners
      /\ \A m \in passed : Y(m) < Y(i) + 1 + 1 /\ X(m) < X(i) - 1
  BY <1>0, Raster
<1>3. Below(i) = Passing(r, passed)
  BY DEF Below
<1> HIDE DEF r, passed
<1> QED BY <1>1, <1>2, <1>3, MovedOn DEF IndexSet

(* Some neighbour of corner i in row Y(i) + dy scores as high.              *)
BeatenFrom(dy) ==
  \E m \in Corners \ {i} : Y(m) = Y(i) + dy /\ X(m) - X(i) \in -1 .. 1 /\ scores[m] >= scores[i]

(* The search from an index that is set finds such a neighbour if there is  *)
(* one, though it ends at the first corner that is too far to the right.    *)
LEMMA BeatenExact ==
  ASSUME OrderInv, i \in Corners, NEW dy \in {-1, 1}, NEW a, IndexSet(a, dy)
  PROVE  Beaten(a, X(i), Y(i) + dy, scores[i]) <=> BeatenFrom(dy)
<1>0. Size \in Nat /\ Y(i) \in Int /\ X(i) \in Int /\ dy \in Int /\ a \in 1 .. Size + 1
  BY Raster DEF IndexSet
<1>1. ASSUME Beaten(a, X(i), Y(i) + dy, scores[i]) PROVE BeatenFrom(dy)
  <2>1. PICK m \in a .. Size :
          /\ \A l \in a .. m : Y(l) = Y(i) + dy /\ X(l) <= X(i) + 1
          /\ X(m) \in X(i) - 1 .. X(i) + 1 /\ scores[m] >= scores[i]
    BY <1>1 DEF Beaten
  <2>2. m \in Corners /\ m \in a .. m
    BY <1>0 DEF Corners
  <2>3. Y(m) = Y(i) + dy
    BY <2>1, <2>2
  <2>4. m # i
    BY <2>3, <1>0
  <2>5. X(m) - X(i) \in -1 .. 1
    BY <2>1, <2>2, <1>0, Raster
  <2> QED BY <2>1, <2>2, <2>3, <2>4, <2>5 DEF BeatenFrom
<1>2. ASSUME BeatenFrom(dy) PROVE Beaten(a, X(i), Y(i) + dy, scores[i])
  <2>1. PICK m \in Corners : Y(m) = Y(i) + dy /\ X(m) - X(i) \in -1 .. 1 /\ scores[m] >= scores[i]
    BY <1>2 DEF BeatenFrom
  <2>2. X(m) \in Int /\ X(m) \in X(i) - 1 .. X(i) + 1
    BY <2>1, <1>0, Raster
  <2>3. ~Passed(m, i, dy)
    BY <2>1, <2>2, <1>0 DEF Passed
  <2>4. m \in a .. Size
    BY <2>3, <1>0 DEF IndexSet, Corners
  <2>5. ASSUME NEW l \in a .. m PROVE Y(l) = Y(i) + dy /\ X(l) <= X(i) + 1
    <3>1. l \in Corners /\ l \in a .. Size /\ (l = m \/ l < m)
      BY <2>4, <1>0 DEF Corners
    <3>2. Y(l) >= Y(i) + dy
      BY <3>1 DEF IndexSet
    <3>3. Y(l) <= Y(m) /\ (Y(l) = Y(m) => X(l) <= X(m))
      BY <3>1, Raster
    <3> QED BY <3>1, <3>2, <3>3, <2>1, <2>2, <1>0, Raster
  <2> QED BY <2>1, <2>2, <2>4, <2>5 DEF Beaten
<1> QED BY <1>1, <1>2

(* A neighbour in the row of the corner is next to it in the list.          *)
LEMMA BeatenInRowExact ==
  ASSUME OrderInv, i \in Corners
  PROVE  BeatenInRow(i) <=> BeatenFrom(0)
<1>0. Size \in Nat /\ i \in Nat /\ Y(i) \in Int /\ X(i) \in Int
  BY Raster DEF Corners
<1>1. ASSUME NEW m \in Corners, NEW d \in {-1, 1}
      PROVE  fast_corners[m] = <<X(i) + d, Y(i)>> <=> X(m) = X(i) + d /\ Y(m) = Y(i)
  <2>1. fast_corners[m] \in Int \X Int
    BY DEF OrderInv, Corners, Size
  <2> QED BY <2>1 DEF X, Y
<1>2. ASSUME BeatenInRow(i) PROVE BeatenFrom(0)
  <2>1. CASE i > 1 /\ fast_corners[i - 1] = <<X(i) - 1, Y(i)>> /\ scores[i - 1] >= scores[i]
    <3>1. i - 1 \in Corners /\ i - 1 # i /\ X(i) - 1 = X(i) + (-1)
      BY <2>1, <1>0 DEF Corners
    <3>2. X(i - 1) = X(i) + (-1) /\ Y(i - 1) = Y(i)
      BY <3>1, <2>1, <1>1
    <3>3. Y(i - 1) = Y(i) + 0 /\ X(i - 1) - X(i) \in -1 .. 1
      BY <3>2, <1>0
    <3> QED BY <3>1, <3>3, <2>1 DEF BeatenFrom
  <2>2. CASE i < Size /\ fast_corners[i + 1] = <<X(i) + 1, Y(i)>> /\ scores[i + 1] >= scores[i]
    <3>1. i + 1 \in Corners /\ i + 1 # i
      BY <2>2, <1>0 DEF Corners
    <3>2. X(i + 1) = X(i) + 1 /\ Y(i + 1) = Y(i)
      BY <3>1, <2>2, <1>1
    <3>3. Y(i + 1) = Y(i) + 0 /\ X(i + 1) - X(i) \in -1 .. 1
      BY <3>2, <1>0
    <3> QED BY <3>1, <3>3, <2>2 DEF BeatenFrom
  <2> QED BY <1>2, <2>1, <2>2 DEF BeatenInRow
<1>3. ASSUME BeatenFrom(0) PROVE BeatenInRow(i)
  <2>1. PICK m \in Corners \ {i} :
          Y(m) = Y(i) + 0 /\ X(m) - X(i) \in -1 .. 1 /\ scores[m] >= scores[i]
    BY <1>3 DEF BeatenFrom
  <2>2. m \in Nat /\ m \in Corners /\ m # i /\ Y(m) = Y(i) /\ X(m) \in Int
    BY <2>1, <1>0, Raster DEF Corners
  <2>3. CASE m < i
    <3>1. X(m) < X(i)
      BY <2>2, <2>3, Raster
    <3>2. X(m) = X(i) - 1
      BY <3>1, <2>1, <2>2, <1>0
    <3>3. i > 1 /\ i - 1 \in Corners
      BY <2>2, <2>3, <1>0 DEF Corners
    <3>4. m = i - 1
      <4> SUFFICES ASSUME m # i - 1 PROVE FALSE
        OBVIOUS
      <4>1. m < i - 1 /\ i - 1 < i
        BY <2>2, <2>3, <1>0
      <4>2. X(i - 1) \in Int /\ Y(i - 1) \in Int
        BY <3>3, Raster
      <4>3. Y(m) < Y(i - 1) \/ (Y(m) = Y(i - 1) /\ X(m) < X(i - 1))
        BY <4>1, <3>3, <2>2, Raster
      <4>4. Y(i - 1) < Y(i) \/ (Y(i - 1) = Y(i) /\ X(i - 1) < X(i))
        BY <4>1, <3>3, Raster
      <4> QED BY <4>2, <4>3, <4>4, <3>2, <2>2, <1>0
    <3>5. fast_corners[i - 1] = <<X(i) - 1, Y(i)>>
      <4>1. X(i) - 1 = X(i) + (-1)
        BY <1>0
      <4> QED BY <4>1, <3>2, <3>4, <2>2, <1>1
    <3> QED BY <3>3, <3>4, <3>5, <2>1 DEF BeatenInRow
  <2>4. CASE m > i
    <3>1. X(i) < X(m)
      BY <2>2, <2>4, <1>0, Raster
    <3>2. X(m) = X(i) + 1
      BY <3>1, <2>1, <2>2, <1>0
    <3>3. i < Size /\ i + 1 \in Corners
      BY <2>2, <2>4, <1>0 DEF Corners
    <3>4. m = i + 1
      <4> SUFFICES ASSUME m # i + 1 PROVE FALSE
        OBVIOUS
      <4>1. i + 1 < m /\ i < i + 1
        BY <2>2, <2>4, <1>0
      <4>2. X(i + 1) \in Int /\ Y(i + 1) \in Int
        BY <3>3, Raster
      <4>3. Y(i + 1) < Y(m) \/ (Y(i + 1) = Y(m) /\ X(i + 1) < X(m))
        BY <4>1, <3>3, <2>2, Raster
      <4>4. Y(i) < Y(i + 1) \/ (Y(i) = Y(i + 1) /\ X(i) < X(i + 1))
        BY <4>1, <3>3, Raster
      <4> QED BY <4>2, <4>3, <4>4, <3>2, <2>2, <1>0
    <3>5. fast_corners[i + 1] = <<X(i) + 1, Y(i)>>
      BY <3>2, <3>4, <2>2, <1>1
    <3> QED BY <3>3, <3>4, <3>5, <2>1 DEF BeatenInRow
  <2> QED BY <2>2, <2>3, <2>4, <1>0
<1> QED BY <1>2, <1>3

(* What a test of corner i does, in terms of the neighbours it has.         *)
LEMMA Tested ==
  ASSUME OrderInv, IndexInv, TestCorner
  PROVE  /\ i \in Corners /\ i' = i + 1 /\ UNCHANGED <<fast_corners, scores>>
         /\ point_above' \in 1 .. i /\ \A m \in 1 .. point_above' - 1 : Passed(m, i, -1)
         /\ point_below' \in 1 .. Size + 1 /\ \A m \in 1 .. point_below' - 1 : Passed(m, i, 1)
         /\ nonmax_corners' = IF BeatenFrom(-1) \/ BeatenFrom(0) \/ BeatenFrom(1)
                              THEN nonmax_corners ELSE Append(nonmax_corners, i)
<1> DEFINE testAbove == ~BeatenInRow(i) /\ HasRow(Y(i) - 1)
           beatenAbove == testAbove /\ Beaten(Above(i), X(i), Y(i) - 1, scores[i])
           testBelow == /\ ~BeatenInRow(i) /\ ~beatenAbove /\ HasRow(Y(i) + 1)
                        /\ point_below <= Size
           beatenBelow == testBelow /\ Beaten(Below(i), X(i), Y(i) + 1, scores[i])
<1>1. /\ i <= Size /\ i' = i + 1
      /\ point_above' = IF testAbove THEN Above(i) ELSE point_above
      /\ point_below' = IF testBelow THEN Below(i) ELSE point_below
      /\ nonmax_corners' = IF BeatenInRow(i) \/ beatenAbove \/ beatenBelow
                           THEN nonmax_corners ELSE Append(nonmax_corners, i)
      /\ UNCHANGED <<fast_corners, scores>>
  BY DEF TestCorner
<1>2. i \in Corners /\ Size \in Nat /\ i \in i .. Size
  BY <1>1, Raster DEF IndexInv, Corners
<1>0. Y(i) \in Int /\ Y(i) + (-1) = Y(i) - 1
  BY <1>2, Raster
<1>3. point_above' \in 1 .. i /\ \A m \in 1 .. point_above' - 1 : Passed(m, i, -1)
  <2>1. CASE testAbove
    <3>1. Above(i) \in 1 .. i /\ IndexSet(Above(i), -1)
      BY <2>1, <1>2, AboveSet
    <3> QED BY <3>1, <2>1, <1>1 DEF IndexSet
  <2>2. CASE ~testAbove
    BY <2>2, <1>1, <1>2 DEF IndexInv
  <2> QED BY <2>1, <2>2
<1>4. point_below' \in 1 .. Size + 1 /\ \A m \in 1 .. point_below' - 1 : Passed(m, i, 1)
  <2>1. CASE testBelow
    <3>1. Below(i) \in 1 .. Size + 1 /\ IndexSet(Below(i), 1)
      BY <2>1, <1>2, BelowSet
    <3> QED BY <3>1, <2>1, <1>1 DEF IndexSet
  <2>2. CASE ~testBelow
    BY <2>2, <1>1, <1>2 DEF IndexInv
  <2> QED BY <2>1, <2>2
<1>5. BeatenInRow(i) <=> BeatenFrom(0)
  BY <1>2, BeatenInRowExact
<1>6. ~BeatenInRow(i) => (beatenAbove <=> BeatenFrom(-1))
  <2>1. CASE HasRow(Y(i) - 1)
    <3>1. IndexSet(Above(i), -1)
      BY <2>1, <1>2, AboveSet
    <3>2. Beaten(Above(i), X(i), Y(i) - 1, scores[i]) <=> BeatenFrom(-1)
      BY <3>1, <1>0, <1>2, BeatenExact
    <3> QED BY <3>2, <2>1
  <2>2. CASE ~HasRow(Y(i) - 1)
    BY <2>2, <1>0 DEF HasRow, BeatenFrom
  <2> QED BY <2>1, <2>2
<1>7. ~BeatenInRow(i) /\ ~beatenAbove => (beatenBelow <=> BeatenFrom(1))
  <2>1. CASE HasRow(Y(i) + 1) /\ point_below <= Size
    <3>1. IndexSet(Below(i), 1)
      BY <2>1, <1>2, BelowSet
    <3>2. Beaten(Below(i), X(i), Y(i) + 1, scores[i]) <=> BeatenFrom(1)
      BY <3>1, <1>2, BeatenExact
    <3> QED BY <3>2, <2>1
  <2>2. CASE ~HasRow(Y(i) + 1)
    BY <2>2 DEF HasRow, BeatenFrom
  <2>3. CASE ~(point_below <= Size)
    <3>1. \A m \in Corners : Passed(m, i, 1)
      BY <2>3, <1>2 DEF IndexInv, Corners
    <3>2. ~BeatenFrom(1)
      BY <3>1, <1>2, Raster DEF BeatenFrom, Passed
    <3> QED BY <3>2, <2>3
  <2> QED BY <2>1, <2>2, <2>3
<1> HIDE DEF beatenAbove, beatenBelow, testAbove, testBelow
<1>8. nonmax_corners' = IF BeatenFrom(-1) \/ BeatenFrom(0) \/ BeatenFrom(1)
                        THEN nonmax_corners ELSE Append(nonmax_corners, i)
  BY <1>1, <1>5, <1>6, <1>7 DEF testAbove, beatenAbove, testBelow, beatenBelow
<1> QED BY <1>1, <1>2, <1>3, <1>4, <1>8

(* The corner is a strict maximum when nothing beats it from the three rows.*)
LEMMA MaximumExact ==
  ASSUME OrderInv, i \in Corners
  PROVE  ~(BeatenFrom(-1) \/ BeatenFrom(0) \/ BeatenFrom(1))
           <=> \A m \in Neighbours(i) : scores[m] < scores[i]
<1>0. Y(i) \in Int /\ X(i) \in Int /\ scores[i] \in Int
  BY Raster
<1>1. ASSUME NEW m \in Corners \ {i}
      PROVE  /\ scores[m] >= scores[i] <=> ~(scores[m] < scores[i])
             /\ Y(m) - Y(i) \in -1 .. 1
                  <=> Y(m) = Y(i) + (-1) \/ Y(m) = Y(i) + 0 \/ Y(m) = Y(i) + 1
  BY <1>0, Raster
<1> QED BY <1>1 DEF BeatenFrom, Neighbours

NonmaxInv == OrderInv /\ IndexInv /\ nonmax_corners \in Seq(Nat) /\ NonmaxExact

(* Before the first corner is tested.                                       *)
AtStart == i = 1 /\ point_above = 1 /\ point_below = 1 /\ nonmax_corners = <<>>

LEMMA NonmaxStarts == OrderInv /\ AtStart => NonmaxInv
<1> SUFFICES ASSUME OrderInv, AtStart PROVE NonmaxInv
  OBVIOUS
<1>0. Size \in Nat
  BY Raster
<1>1. IndexInv
  BY <1>0 DEF IndexInv, AtStart
<1>2. ToSet(nonmax_corners) = {} /\ 1 .. i - 1 = {}
  BY DEF ToSet, AtStart
<1>3. NonmaxExact
  BY <1>0, <1>2 DEF NonmaxExact, AtStart
<1> QED BY <1>1, <1>3 DEF NonmaxInv, AtStart

(* One test.                                                                *)
LEMMA TestKeepsNonmax ==
  ASSUME NonmaxInv, TestCorner
  PROVE  NonmaxInv'
<1> USE DEF NonmaxInv
<1>1. /\ i \in Corners /\ i' = i + 1 /\ UNCHANGED <<fast_corners, scores>>
      /\ point_above' \in 1 .. i /\ \A m \in 1 .. point_above' - 1 : Passed(m, i, -1)
      /\ point_below' \in 1 .. Size + 1 /\ \A m \in 1 .. point_below' - 1 : Passed(m, i, 1)
      /\ nonmax_corners' = IF BeatenFrom(-1) \/ BeatenFrom(0) \/ BeatenFrom(1)
                           THEN nonmax_corners ELSE Append(nonmax_corners, i)
  BY Tested
<1>0. Size \in Nat /\ i \in Nat /\ 1 <= i /\ i <= Size
  BY <1>1, Raster DEF Corners
<1>a. point_above' \in 1 .. i /\ point_below' \in 1 .. Size + 1
  BY <1>1
<1>2. /\ \A m : X(m)' = X(m) /\ Y(m)' = Y(m) /\ Neighbours(m)' = Neighbours(m)
      /\ \A m, a, dy : Passed(m, a, dy)' <=> Passed(m, a, dy)
      /\ Size' = Size /\ Corners' = Corners /\ OrderInv'
  BY <1>1 DEF X, Y, Size, Corners, OrderInv, Passed, Neighbours
<1>3. ASSUME NEW a \in i + 1 .. Size, NEW m \in Corners, NEW dy \in {-1, 1}, Passed(m, i, dy)
      PROVE  Passed(m, a, dy)
  <2>1. a \in Corners /\ i <= a
    BY <1>0 DEF Corners
  <2> QED BY <2>1, <1>1, <1>3, PassedForLater
<1>4. IndexInv'
  <2>1. i' \in 1 .. Size + 1 /\ point_above' \in 1 .. i' /\ point_below' \in 1 .. Size + 1
    BY <1>0, <1>1
  <2> DEFINE pa == point_above'
             pb == point_below'
  <2>0. pa \in 1 .. i /\ pb \in 1 .. Size + 1 /\ i' = i + 1
    BY <1>1
  <2>p. (\A m \in 1 .. pa - 1 : Passed(m, i, -1)) /\ \A m \in 1 .. pb - 1 : Passed(m, i, 1)
    BY <1>1
  <2>4. /\ \A a \in i' .. Size : \A m \in 1 .. pa - 1 : Passed(m, a, -1)
        /\ \A a \in i' .. Size : \A m \in 1 .. pb - 1 : Passed(m, a, 1)
    <3> HIDE DEF pa, pb
    <3>1. 1 .. pa - 1 \subseteq Corners /\ 1 .. pb - 1 \subseteq Corners
      BY <1>0, <2>0 DEF Corners
    <3> QED BY <3>1, <2>0, <2>p, <1>3
  <2> QED BY <2>1, <2>4, <1>2 DEF IndexInv
<1>5. nonmax_corners' \in Seq(Nat)
  BY <1>0, <1>1
<1> DEFINE Maximum(m) == \A k \in Neighbours(m) : scores[k] < scores[m]
           Kept(b) == {m \in 1 .. b : m <= Size /\ Maximum(m)}
<1>6. ToSet(nonmax_corners) = Kept(i - 1)
  BY DEF NonmaxExact
<1>7. ~(BeatenFrom(-1) \/ BeatenFrom(0) \/ BeatenFrom(1)) <=> Maximum(i)
  BY <1>1, MaximumExact
<1> HIDE DEF Maximum
<1>8. Kept(i) = IF Maximum(i) THEN Kept(i - 1) \cup {i} ELSE Kept(i - 1)
  <2>1. \A m : m \in 1 .. i <=> m \in 1 .. i - 1 \/ m = i
    BY <1>0
  <2> QED BY <2>1, <1>0, Zenon
<1>9. ToSet(Append(nonmax_corners, i)) = ToSet(nonmax_corners) \cup {i}
  <2> DEFINE s == nonmax_corners
  <2>1. DOMAIN Append(s, i) = DOMAIN s \cup {Len(s) + 1} /\ Append(s, i)[Len(s) + 1] = i
    BY <1>0
  <2>2. \A k \in DOMAIN s : Append(s, i)[k] = s[k]
    BY <1>0
  <2> QED BY <2>1, <2>2, Zenon DEF ToSet
<1> HIDE DEF Kept
<1>10. ToSet(nonmax_corners') = Kept(i)
  <2>1. CASE Maximum(i)
    BY <2>1, <1>1, <1>6, <1>7, <1>8, <1>9
  <2>2. CASE ~Maximum(i)
    BY <2>2, <1>1, <1>6, <1>7, <1>8
  <2> QED BY <2>1, <2>2
<1>11. ToSet(nonmax_corners)' =
         {m \in 1 .. i' - 1 : m <= Size' /\ \A k \in Neighbours(m)' : scores'[k] < scores'[m]}
  <2>1. i' - 1 = i /\ scores' = scores
    BY <1>0, <1>1
  <2>2. ToSet(nonmax_corners)' = ToSet(nonmax_corners')
    BY DEF ToSet
  <2> QED BY <2>1, <2>2, <1>2, <1>10 DEF Kept, Maximum
<1>12. NonmaxExact'
  BY <1>2, <1>4, <1>11 DEF NonmaxExact, IndexInv
<1> QED BY <1>2, <1>4, <1>5, <1>12

-----------------------------------------------------------------------------
(* The detector                                                             *)

(* The pixels of a level are finitely many.                                 *)
LEMMA PixelsFinite ==
  ASSUME NEW l \in Nat, NEW found \in SUBSET PixelsOf(l)
  PROVE  found \in SUBSET (Int \X Int) /\ IsFiniteSet(found)
<1>1. 2^l \in Nat \ {0}
  <2>1. IsFiniteSet(1 .. l) /\ Cardinality(1 .. l) = l
    BY FS_Interval
  <2>2. IsFiniteSet(SUBSET (1 .. l)) /\ Cardinality(SUBSET (1 .. l)) = 2^l
    BY <2>1, FS_SUBSET
  <2> QED BY <2>2, FS_CardinalityType, FS_EmptySet
<1>2. ASSUME NEW w \in Nat
      PROVE  0 .. (w \div 2^l) - 1 \subseteq Int /\ IsFiniteSet(0 .. (w \div 2^l) - 1)
  <2> DEFINE last == (w \div 2^l) - 1
  <2>1. last \in Int
    BY <1>1
  <2> HIDE DEF last
  <2>2. 0 .. last \subseteq Int
    OBVIOUS
  <2>3. IsFiniteSet(0 .. last)
    BY <2>1, FS_Interval
  <2> QED BY <2>2, <2>3 DEF last
<1>3. Width \in Nat /\ Height \in Nat
  BY DetectorAssumption
<1>4. PixelsOf(l) \subseteq Int \X Int /\ IsFiniteSet(PixelsOf(l))
  BY <1>2, <1>3, FS_Product DEF PixelsOf
<1> QED BY <1>4, FS_Subset

(* What holds between frames, and at every step of detect.                  *)
NInv == level \in Nat /\ NonmaxInv

LEMMA InitNInv == Init => NInv
<1> SUFFICES ASSUME Init PROVE NInv
  OBVIOUS
<1>1. OrderInv /\ AtStart
  BY DEF Init, OrderInv, AtStart, Sorted, Corners, Size
<1> QED BY <1>1, NonmaxStarts DEF NInv, Init

LEMMA StepNInv == NInv /\ [Next]_vars => NInv'
<1> SUFFICES ASSUME NInv, [Next]_vars PROVE NInv'
  OBVIOUS
<1> USE DEF NInv
<1>u. ASSUME UNCHANGED nonmaxVars PROVE NonmaxInv'
  BY <1>u DEF nonmaxVars, NonmaxInv, OrderInv, IndexInv, NonmaxExact, Passed, Neighbours,
              Sorted, Corners, Size, X, Y
<1>n. (OrderInv /\ AtStart => NonmaxInv)'
  BY NonmaxStarts, PTL
<1>1. CASE SetExistingFeatures
  BY <1>1, <1>u DEF SetExistingFeatures
<1>2. CASE DetectLevel
  <2>1. PICK found \in SUBSET PixelsOf(level) :
          /\ fast_corners' = RasterOrder(found)
          /\ scores' \in [1 .. Cardinality(found) -> 1 .. MaxScore]
    BY <1>2 DEF DetectLevel
  <2>2. /\ RasterOrder(found) \in Seq(Int \X Int) /\ Len(RasterOrder(found)) = Cardinality(found)
        /\ Sorted(RasterOrder(found))
    BY PixelsFinite, RasterOrderSorted
  <2>3. OrderInv'
    <3>1. scores' \in [1 .. Len(fast_corners') -> Int]
      BY <2>1, <2>2
    <3> QED BY <3>1, <2>1, <2>2 DEF OrderInv, Sorted, Corners, Size
  <2>4. AtStart' /\ level' = level
    BY <1>2 DEF DetectLevel, StartNonmax, AtStart
  <2> QED BY <2>3, <2>4, <1>n
<1>3. CASE Suppress
  BY <1>3, TestKeepsNonmax DEF Suppress
<1>4. CASE StartGrid
  BY <1>4, <1>u DEF StartGrid
<1>5. CASE KeepBest
  BY <1>5, <1>u DEF KeepBest
<1>6. CASE NextLevel
  <2>1. OrderInv' /\ AtStart'
    BY <1>6 DEF NextLevel, StartNonmax, AtStart, OrderInv, Sorted, Corners, Size
  <2>2. level' \in Nat
    BY <1>6 DEF NextLevel
  <2> QED BY <2>1, <2>2, <1>n
<1>7. CASE MakeFeatures
  BY <1>7, <1>u DEF MakeFeatures
<1>8. CASE UNCHANGED vars
  BY <1>8, <1>u DEF vars
<1> QED BY <1>1, <1>2, <1>3, <1>4, <1>5, <1>6, <1>7, <1>8 DEF Next

(* fast_nonmax_3x3 keeps exactly the corners, of those tested so far, that  *)
(* have no neighbour with a score as high, and its two indices stay within  *)
(* the list (nonmax_3x3.cpp), whatever the corners and the scores are.     *)
THEOREM SuppressionCorrect == Spec => []NonmaxExact
<1>1. NInv => NonmaxExact
  BY DEF NInv, NonmaxInv
<1> QED BY <1>1, InitNInv, StepNInv, PTL DEF Spec

-----------------------------------------------------------------------------
(* The grid                                                                 *)

Corner == [px : Int \X Int, score : Nat]

(* The corner of a free cell is the best one seen there, once there is one  *)
(* that is good enough; an occupied cell has none.                         *)
CellInv(k) ==
  IF k \in grid_occupancy_ \/ best[k] <= detection_threshold THEN corners[k] = NoCorner
  ELSE corners[k].score = best[k] /\ CellOf(corners[k].px) = k

GridInv ==
  /\ corners \in [Cells -> Corner] /\ best \in [Cells -> Nat]
  /\ n \in Nat \ {0}
  /\ pc = "idle" => grid_occupancy_ = {}
  /\ pc # "idle" =>
       /\ grid_occupancy_ = {CellOf(p) : p \in existing} /\ fts = existing
       /\ \A k \in Cells : CellInv(k)
  /\ FeaturesSpread

LEMMA NoCornerTyped == NoCorner \in Corner /\ NoCorner.score = detection_threshold
BY DetectorAssumption DEF NoCorner, Corner

(* The position of a corner that was kept, at level 0.                      *)
LEMMA KeptPixel ==
  ASSUME NInv, n \in Nat \ {0}, n <= Len(nonmax_corners)
  PROVE  AtLevelZero(fast_corners[nonmax_corners[n]]) \in Int \X Int
<1>0. Size \in Nat /\ OrderInv
  BY Raster DEF NInv, NonmaxInv
<1>1. nonmax_corners[n] \in ToSet(nonmax_corners)
  BY DEF ToSet, NInv, NonmaxInv
<1>2. nonmax_corners[n] \in Corners
  BY <1>0, <1>1 DEF NInv, NonmaxInv, NonmaxExact, IndexInv, Corners
<1>3. fast_corners[nonmax_corners[n]] \in Int \X Int
  BY <1>0, <1>2 DEF OrderInv, Corners, Size
<1>4. 2^level \in Int
  BY SMT DEF NInv
<1> QED BY <1>3, <1>4 DEF AtLevelZero

LEMMA InitGridInv == Init => GridInv
<1> SUFFICES ASSUME Init PROVE GridInv
  OBVIOUS
<1>1. corners \in [Cells -> Corner] /\ best \in [Cells -> Nat] /\ n \in Nat \ {0}
  BY NoCornerTyped DEF Init, NoCorners, NothingSeen
<1>2. FeaturesSpread
  BY DetectorAssumption DEF FeaturesSpread, Init, NothingSeen
<1> QED BY <1>1, <1>2 DEF GridInv, Init

(* One corner more in the grid.                                             *)
LEMMA KeepBestStep ==
  ASSUME NInv, GridInv, KeepBest
  PROVE  GridInv'
<1> DEFINE px == AtLevelZero(fast_corners[nonmax_corners[n]])
           c == CellOf(px)
<1>0. px \in Int \X Int
  BY KeptPixel DEF GridInv, KeepBest
<1>1. PICK score \in 0 .. MaxScore :
        /\ corners' = IF c \notin grid_occupancy_ /\ score > corners[c].score
                      THEN [corners EXCEPT ![c] = [px |-> px, score |-> score]] ELSE corners
        /\ best' = [best EXCEPT ![c] = IF score > @ THEN score ELSE @]
  BY DEF KeepBest
<1>2. CellOf(px) = c
  OBVIOUS
<1> HIDE DEF px, c
<1>3. /\ pc = "grid" /\ UNCHANGED <<pc, level, grid_occupancy_, fts, existing>> /\ n' = n + 1
      /\ corners \in [Cells -> Corner] /\ best \in [Cells -> Nat]
      /\ score \in Nat /\ detection_threshold \in Nat
  BY DetectorAssumption DEF KeepBest, GridInv
<1>4. corners' \in [Cells -> Corner] /\ best' \in [Cells -> Nat]
  <2>1. [px |-> px, score |-> score] \in Corner
    BY <1>0, <1>3 DEF Corner
  <2> QED BY <2>1, <1>1, <1>3
<1>5. ASSUME NEW k \in Cells PROVE CellInv(k)'
  <2>0. CellInv(k)
    BY <1>3 DEF GridInv
  <2>1. CASE k # c
    BY <2>1, <2>0, <1>1, <1>3 DEF CellInv
  <2>2. CASE k = c /\ k \in grid_occupancy_
    BY <2>2, <2>0, <1>1, <1>3 DEF CellInv
  <2>3. CASE k = c /\ k \notin grid_occupancy_
    <3>0. NoCorner.score = detection_threshold /\ best[k] \in Nat
      BY <1>3, NoCornerTyped
    <3>1. CASE score > corners[k].score
      <4>1. corners'[k] = [px |-> px, score |-> score]
        BY <3>1, <2>3, <1>1, <1>3
      <4>2. score > best[k] /\ score > detection_threshold
        BY <3>0, <3>1, <2>0, <2>3, <1>3 DEF CellInv
      <4>3. best'[k] = score
        BY <4>2, <2>3, <1>1, <1>3
      <4> QED BY <4>1, <4>2, <4>3, <2>3, <1>2, <1>3 DEF CellInv
    <3>2. CASE ~(score > corners[k].score)
      <4>1. corners'[k] = corners[k]
        BY <3>2, <2>3, <1>1, <1>3
      <4>2. best'[k] = IF score > best[k] THEN score ELSE best[k]
        BY <2>3, <1>1, <1>3
      <4>3. CASE best[k] <= detection_threshold
        BY <4>1, <4>2, <4>3, <3>0, <3>2, <2>0, <2>3, <1>3 DEF CellInv
      <4>4. CASE best[k] > detection_threshold
        BY <4>1, <4>2, <4>4, <3>0, <3>2, <2>0, <2>3, <1>3 DEF CellInv
      <4> QED BY <4>3, <4>4, <3>0, <1>3
    <3> QED BY <3>1, <3>2
  <2> QED BY <2>1, <2>2, <2>3
<1> QED BY <1>3, <1>4, <1>5 DEF GridInv, FeaturesSpread

(* The features made of the grid are spread as the grid is.                 *)
LEMMA MakeFeaturesStep ==
  ASSUME GridInv, MakeFeatures
  PROVE  GridInv'
<1> DEFINE Good == {k \in Cells : corners[k].score > detection_threshold}
<1>1. /\ pc = "level" /\ pc' = "idle" /\ grid_occupancy_' = {}
      /\ fts' = fts \cup {corners[k].px : k \in Good}
      /\ UNCHANGED <<corners, n, existing, best>>
  BY DEF MakeFeatures, ResetGrid
<1>2. /\ corners \in [Cells -> Corner] /\ best \in [Cells -> Nat]
      /\ grid_occupancy_ = {CellOf(p) : p \in existing} /\ fts = existing
      /\ \A k \in Cells : CellInv(k)
  BY <1>1 DEF GridInv
<1>3. detection_threshold \in Nat /\ NoCorner.score = detection_threshold
  BY NoCornerTyped, DetectorAssumption
<1>4. ASSUME NEW k \in Cells
      PROVE  IF k \in grid_occupancy_ \/ best[k] <= detection_threshold THEN k \notin Good
             ELSE k \in Good /\ corners[k].score = best[k] /\ CellOf(corners[k].px) = k
  <2>1. CellInv(k) /\ best[k] \in Nat
    BY <1>2
  <2> QED BY <2>1, <1>3 DEF CellInv
<1>5. ASSUME NEW k \in Cells
      PROVE  IF {p \in existing : CellOf(p) = k} # {} \/ best[k] <= detection_threshold
             THEN {p \in fts' \ existing : CellOf(p) = k} = {}
             ELSE /\ {p \in fts' \ existing : CellOf(p) = k} = {corners[k].px}
                  /\ corners[k].score = best[k]
  <2> HIDE DEF Good
  <2>1. {p \in existing : CellOf(p) = k} # {} <=> k \in grid_occupancy_
    BY <1>2
  <2>2. ASSUME NEW p \in fts' \ existing, CellOf(p) = k PROVE k \in Good /\ p = corners[k].px
    <3>1. PICK d \in Good : p = corners[d].px
      BY <2>2, <1>1, <1>2
    <3>2. d \in Cells
      BY DEF Good
    <3>3. CellOf(corners[d].px) = d
      BY <3>1, <3>2, <1>4
    <3> QED BY <3>1, <3>3, <2>2
  <2>3. CASE k \in grid_occupancy_ \/ best[k] <= detection_threshold
    BY <2>1, <2>2, <2>3, <1>4
  <2>4. CASE ~(k \in grid_occupancy_ \/ best[k] <= detection_threshold)
    <3>1. k \in Good /\ corners[k].score = best[k] /\ CellOf(corners[k].px) = k
      BY <2>4, <1>4
    <3>2. corners[k].px \in fts' \ existing
      BY <3>1, <2>1, <2>4, <1>1
    <3> QED BY <3>1, <3>2, <2>1, <2>2, <2>4
  <2> QED BY <2>3, <2>4
<1>6. FeaturesSpread'
  BY <1>1, <1>5 DEF FeaturesSpread
<1> QED BY <1>1, <1>2, <1>6 DEF GridInv

LEMMA StepGridInv == NInv /\ GridInv /\ [Next]_vars => GridInv'
<1> SUFFICES ASSUME NInv, GridInv, [Next]_vars PROVE GridInv'
  OBVIOUS
<1>1. CASE SetExistingFeatures
  <2>1. corners' \in [Cells -> Corner] /\ best' \in [Cells -> Nat] /\ n' \in Nat \ {0}
    BY <1>1, NoCornerTyped DEF SetExistingFeatures, NoCorners, NothingSeen, GridInv
  <2>2. \A k \in Cells : CellInv(k)'
    BY <1>1, DetectorAssumption DEF SetExistingFeatures, NoCorners, NothingSeen, CellInv
  <2>3. pc' = "level" /\ grid_occupancy_' = {CellOf(p) : p \in existing'} /\ fts' = existing'
    BY <1>1 DEF SetExistingFeatures, GridInv
  <2> QED BY <2>1, <2>2, <2>3 DEF GridInv, FeaturesSpread
<1>2. CASE DetectLevel
  BY <1>2 DEF DetectLevel, GridInv, CellInv, FeaturesSpread
<1>3. CASE Suppress
  BY <1>3 DEF Suppress, GridInv, CellInv, FeaturesSpread
<1>4. CASE StartGrid
  BY <1>4 DEF StartGrid, GridInv, CellInv, FeaturesSpread
<1>5. CASE KeepBest
  BY <1>5, KeepBestStep
<1>6. CASE NextLevel
  BY <1>6 DEF NextLevel, GridInv, CellInv, FeaturesSpread
<1>7. CASE MakeFeatures
  BY <1>7, MakeFeaturesStep
<1>8. CASE UNCHANGED vars
  BY <1>8 DEF vars, GridInv, CellInv, FeaturesSpread
<1> QED BY <1>1, <1>2, <1>3, <1>4, <1>5, <1>6, <1>7, <1>8 DEF Next

(* After detect every cell has the features it had before, or else one new  *)
(* feature, the best corner seen in it on any level, if that is good enough *)
(* (feature_detection.cpp), for every grid, pyramid and threshold.         *)
THEOREM DetectionCorrect == Spec => []FeaturesSpread
<1>1. GridInv => FeaturesSpread
  BY DEF GridInv
<1> QED BY <1>1, InitNInv, StepNInv, InitGridInv, StepGridInv, PTL DEF Spec
=============================================================================
