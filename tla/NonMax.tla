-------------------------------- MODULE NonMax --------------------------------
(***************************************************************************)
(* Non-maximum suppression of corners (externals/fast/src/nonmax_3x3.cpp): *)
(* of the corners of an image, given in raster order, those are kept that  *)
(* have no neighbour with a score as high.  Two indices follow the corner  *)
(* under test through the row above and the row below, so that the list is *)
(* walked once.  Indices start with 1 here.                                *)
(***************************************************************************)
EXTENDS Integers, Sequences, FiniteSets, SequencesExt

VARIABLES
  fast_corners,    \* the corners as <<x, y>>, in raster order
  scores,
  nonmax_corners,  \* indices of the corners that are kept
  i,               \* the corner under test
  point_above, point_below

nonmaxVars == <<fast_corners, scores, nonmax_corners, i, point_above, point_below>>

X(n) == fast_corners[n][1]
Y(n) == fast_corners[n][2]
Size == Len(fast_corners)
Corners == 1 .. Size

Before(a, b) == a[2] < b[2] \/ (a[2] = b[2] /\ a[1] < b[1])

(* From top to bottom, and in a row from left to right: the k-th of the      *)
(* corners is the one that k - 1 come before.                               *)
RasterOrder(positions) ==
  [k \in 1 .. Cardinality(positions) |->
     CHOOSE p \in positions : Cardinality({q \in positions : Before(q, p)}) = k - 1]

StartNonmax ==
  nonmax_corners' = <<>> /\ i' = 1 /\ point_above' = 1 /\ point_below' = 1

(* The first corner of row y, if it has any: row_start.                     *)
HasRow(y) == \E n \in Corners : Y(n) = y
RowStart(y) == CHOOSE n \in Corners : Y(n) = y /\ \A m \in Corners : Y(m) = y => n <= m

(* The corner the index moves on to from n: the first that is not passed.   *)
Passing(n, passed) == CHOOSE m \in n .. Size + 1 : m \notin passed /\ n .. m - 1 \subseteq passed

(* Mutant: the indices stay on the row they were set to first.              *)
FromRowKept(n, y) == n

FromRow(n, y) == IF n <= Size /\ Y(n) >= y THEN n ELSE RowStart(y)

(* The index into the row above, for corner n; and that into the row below. *)
Above(n) ==
  Passing(FromRow(point_above, Y(n) - 1), {m \in Corners : Y(m) < Y(n) /\ X(m) < X(n) - 1})
Below(n) ==
  Passing(FromRow(point_below, Y(n) + 1), {m \in Corners : Y(m) = Y(n) + 1 /\ X(m) < X(n) - 1})

(* Some corner of row y, from index m on as far as column x + 1, is next to *)
(* x and scores as high.                                                   *)
Beaten(m, x, y, score) ==
  \E n \in m .. Size :
    /\ \A l \in m .. n : Y(l) = y /\ X(l) <= x + 1
    /\ X(n) \in x - 1 .. x + 1 /\ scores[n] >= score

(* A neighbour to the left or to the right scores as high.                 *)
BeatenInRow(n) ==
  \/ n > 1 /\ fast_corners[n - 1] = <<X(n) - 1, Y(n)>> /\ scores[n - 1] >= scores[n]
  \/ n < Size /\ fast_corners[n + 1] = <<X(n) + 1, Y(n)>> /\ scores[n + 1] >= scores[n]

(* The test of corner i: the row below is only looked at, and its index     *)
(* moved, if nothing else has beaten the corner.                           *)
TestCorner ==
  LET x == X(i)
      y == Y(i)
      testAbove == ~BeatenInRow(i) /\ HasRow(y - 1)
      beatenAbove == testAbove /\ Beaten(Above(i), x, y - 1, scores[i])
      testBelow == ~BeatenInRow(i) /\ ~beatenAbove /\ HasRow(y + 1) /\ point_below <= Size
      beatenBelow == testBelow /\ Beaten(Below(i), x, y + 1, scores[i])
  IN  /\ i <= Size /\ i' = i + 1
      /\ point_above' = IF testAbove THEN Above(i) ELSE point_above
      /\ point_below' = IF testBelow THEN Below(i) ELSE point_below
      /\ nonmax_corners' = IF BeatenInRow(i) \/ beatenAbove \/ beatenBelow THEN nonmax_corners
                                                                  ELSE Append(nonmax_corners, i)
      /\ UNCHANGED <<fast_corners, scores>>

-----------------------------------------------------------------------------
(* Exactly those of the corners that have been tested are kept which have   *)
(* no neighbour, of eight, with a score as high; and the indices never run  *)
(* out of the list.                                                        *)
Neighbours(n) ==
  {m \in Corners \ {n} : X(m) - X(n) \in -1 .. 1 /\ Y(m) - Y(n) \in -1 .. 1}
NonmaxExact ==
  /\ ToSet(nonmax_corners) =
       {n \in 1 .. i - 1 : n <= Size /\ \A m \in Neighbours(n) : scores[m] < scores[n]}
  /\ point_above \in 1 .. i /\ point_below \in 1 .. Size + 1
=============================================================================
