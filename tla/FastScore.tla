------------------------------- MODULE FastScore -------------------------------
(***************************************************************************)
(* The score of a corner (externals/fast/src/fast_10_score.cpp), by which  *)
(* non-maximum suppression compares it with its neighbours: the barrier is *)
(* raised until the pixel is no corner any more.                           *)
(***************************************************************************)
EXTENDS FastCorners

VARIABLES
  ring, center,  \* the pixels
  threshold,     \* a barrier the pixel is a corner at
  tried,         \* the barrier that is tried
  pc

vars == <<ring, center, threshold, tried, pc>>

Init ==
  /\ ring \in [Ring -> Byte] /\ center \in Byte
  /\ threshold \in Byte /\ IsCorner(ring, center, threshold)
  /\ tried = threshold + 1
  /\ pc = "loop"

(* The barrier that is tried next: min_diff, the smallest of the            *)
(* differences that led to the verdict, among them those of an arc.         *)
Raise ==
  /\ pc = "loop"
  /\ \E s \in Ring, min_diff \in Byte \ {0} :
       /\ \/ \A r \in Arc(s) : ring[r] - (center + tried) >= min_diff
          \/ \A r \in Arc(s) : (center - tried) - ring[r] >= min_diff
       /\ tried' = tried + min_diff
  /\ UNCHANGED <<ring, center, threshold, pc>>

Break ==
  /\ pc = "loop" /\ ~IsCorner(ring, center, tried)
  /\ pc' = "return"
  /\ UNCHANGED <<ring, center, threshold, tried>>

Next == Raise \/ Break

Spec == Init /\ [][Next]_vars

-----------------------------------------------------------------------------
(* What is returned is the highest barrier at which the pixel is a corner:  *)
(* no barrier was stepped over, though the steps are larger than one.       *)
score == tried - 1
ScoreExact ==
  pc = "return" =>
    \A barrier \in Nat : IsCorner(ring, center, barrier) <=> barrier <= score
=============================================================================
