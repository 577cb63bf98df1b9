------------------------- MODULE HomographyDecomposition -------------------------
(***************************************************************************)
(* Which of the eight motions that explain a homography is taken for the   *)
(* one of the camera (Homography::findBestDecomposition in                 *)
(* externals/vikit/src/homography.cpp).  Only the signs of the visibility  *)
(* tests count, so that integers stand for the doubles: for an inlier m,   *)
(* side[m] is the third row of the homography times m, with the sign of s; *)
(* a[m] and b[m] are the parts of m along the two axes of the singular     *)
(* value decomposition that carry the normal of the plane, times x1 and    *)
(* x3, with the sign of s.                                                 *)
(***************************************************************************)
EXTENDS Integers, FiniteSets

(* decompose: four combinations of e1 and e3 for either sign of d.          *)
Sign == {-1, 1}
Decompositions == [d : Sign, e1 : Sign, e3 : Sign]

(* The inliers that are in front according to the first and the second      *)
(* test; score is minus their number.                                      *)
FirstPositive(side, decom) == {m \in DOMAIN side : decom.d * side[m] > 0}
SecondPositive(a, b, decom) ==
  {m \in DOMAIN a : decom.d * (decom.e1 * a[m] + decom.e3 * b[m]) > 0}

(* sort and resize(n): the best n, in any order among equals.               *)
BestOf(kept, all, n, positive) ==
  /\ kept \subseteq all /\ Cardinality(kept) = n
  /\ \A x \in kept, y \in all \ kept : positive[x] >= positive[y]

(* The better of the last two, or, if the other has nine tenths of its      *)
(* points (or neither has any: NaN is not less than 0.9), the one with the  *)
(* smaller Sampson error, which may be either.                             *)
Resolved(chosen, pair, positive) ==
  \E best, other \in pair :
    /\ best # other /\ positive[best] >= positive[other]
    /\ \/ chosen = best
       \/ chosen = other /\ ~(10 * positive[other] < 9 * positive[best])

findBestDecomposition(side, a, b, kept, pair, chosen) ==
  LET first  == [decom \in Decompositions |-> Cardinality(FirstPositive(side, decom))]
      second == [decom \in Decompositions |-> Cardinality(SecondPositive(a, b, decom))]
  IN  /\ BestOf(kept, Decompositions, 4, first)
      /\ BestOf(pair, kept, 2, second)
      /\ Resolved(chosen, pair, second)
=============================================================================
