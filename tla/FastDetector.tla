----------------------------- MODULE FastDetector -----------------------------
(***************************************************************************)
(* The feature detector (externals/svo/src/feature_detection.cpp): of the  *)
(* corners on all levels of the image pyramid the best is kept in each     *)
(* cell of a grid, unless the frame has a feature there already.           *)
(*                                                                         *)
(* Which pixels are corners, and the two scores of each, are up to the     *)
(* image: a score for the non-maximum suppression on its level, and one    *)
(* (shiTomasiScore) by which corners of all levels are compared.           *)
(***************************************************************************)
EXTENDS NonMax

CONSTANTS
  Width, Height,       \* of the image, in pixels
  cell_size_,
  n_pyr_levels_,
  Matched,             \* bound: pixels that may have a feature or a seed before
  MaxCorners,          \* bound on the corners of one level
  MaxScore,            \* scores are 1 .. MaxScore, shiTomasiScores 0 .. MaxScore
  detection_threshold

ASSUME DetectorAssumption ==
  /\ {Width, Height, cell_size_, n_pyr_levels_} \subseteq Nat \ {0}
  /\ Matched \subseteq (0 .. Width - 1) \X (0 .. Height - 1)
  /\ {MaxCorners, MaxScore, detection_threshold} \subseteq Nat

VARIABLES
  pc,
  level,
  grid_occupancy_,  \* the cells that are occupied
  corners,          \* the corner kept in each cell
  fts,              \* the features of the frame: <<x, y>> at level 0
  n,                \* where the loop over nonmax_corners is
  existing,         \* history: the features that were there before
  best              \* history: the highest shiTomasiScore seen in each cell

vars == <<nonmaxVars, pc, level, grid_occupancy_, corners, fts, n, existing, best>>

PixelsOf(l) == (0 .. (Width \div 2^l) - 1) \X (0 .. (Height \div 2^l) - 1)
Columns == (Width + cell_size_ - 1) \div cell_size_
Rows == (Height + cell_size_ - 1) \div cell_size_
Cells == 0 .. Columns * Rows - 1
CellOf(p) == (p[2] \div cell_size_) * Columns + p[1] \div cell_size_

NoCorner == [px |-> <<0, 0>>, score |-> detection_threshold]
NoCorners == [k \in Cells |-> NoCorner]
NothingSeen == [k \in Cells |-> 0]

Init ==
  /\ fast_corners = <<>> /\ scores = <<>> /\ nonmax_corners = <<>>
  /\ i = 1 /\ point_above = 1 /\ point_below = 1
  /\ pc = "idle" /\ level = 0 /\ grid_occupancy_ = {} /\ corners = NoCorners
  /\ fts = {} /\ n = 1 /\ existing = {} /\ best = NothingSeen

(* A frame to detect features in, with the features it has: setExisting-    *)
(* Features, and setGridOccpuancy for each seed matched in it.             *)
SetExistingFeatures ==
  /\ pc = "idle" /\ pc' = "level"
  /\ \E px \in SUBSET Matched :
       /\ existing' = px /\ fts' = px
       /\ grid_occupancy_' = grid_occupancy_ \cup {CellOf(p) : p \in px}
  /\ level' = 0 /\ corners' = NoCorners /\ best' = NothingSeen
  /\ UNCHANGED <<nonmaxVars, n>>

(* The corners of a level and their scores.                                 *)
DetectLevel ==
  /\ pc = "level" /\ level < n_pyr_levels_ /\ pc' = "nonmax"
  /\ \E found \in SUBSET PixelsOf(level) :
       /\ Cardinality(found) <= MaxCorners
       /\ fast_corners' = RasterOrder(found)
       /\ scores' \in [1 .. Cardinality(found) -> 1 .. MaxScore]
  /\ StartNonmax
  /\ UNCHANGED <<level, grid_occupancy_, corners, fts, n, existing, best>>

Suppress ==
  /\ pc = "nonmax" /\ TestCorner
  /\ UNCHANGED <<pc, level, grid_occupancy_, corners, fts, n, existing, best>>

StartGrid ==
  /\ pc = "nonmax" /\ i > Size
  /\ pc' = "grid" /\ n' = 1
  /\ UNCHANGED <<nonmaxVars, level, grid_occupancy_, corners, fts, existing, best>>

AtLevelZero(p) == <<p[1] * 2^level, p[2] * 2^level>>

KeepBest ==
  /\ pc = "grid" /\ n <= Len(nonmax_corners)
  /\ LET px == AtLevelZero(fast_corners[nonmax_corners[n]])
         k == CellOf(px)
     IN  \E score \in 0 .. MaxScore :
           /\ corners' = IF k \notin grid_occupancy_ /\ score > corners[k].score
                         THEN [corners EXCEPT ![k] = [px |-> px, score |-> score]]
                         ELSE corners
           /\ best' = [best EXCEPT ![k] = IF score > @ THEN score ELSE @]
  /\ n' = n + 1
  /\ UNCHANGED <<nonmaxVars, pc, level, grid_occupancy_, fts, existing>>

NextLevel ==
  /\ pc = "grid" /\ n > Len(nonmax_corners)
  /\ pc' = "level" /\ level' = level + 1
  /\ fast_corners' = <<>> /\ scores' = <<>> /\ StartNonmax
  /\ n' = 1
  /\ UNCHANGED <<grid_occupancy_, corners, fts, existing, best>>

(* Mutant: the grid is not reset.                                           *)
ResetGridKept == grid_occupancy_' = grid_occupancy_

ResetGrid == grid_occupancy_' = {}

(* A feature for every cell whose corner is good enough.                    *)
MakeFeatures ==
  /\ pc = "level" /\ level = n_pyr_levels_ /\ pc' = "idle"
  /\ fts' = fts \cup {corners[k].px : k \in {c \in Cells : corners[c].score > detection_threshold}}
  /\ ResetGrid
  /\ level' = 0
  /\ UNCHANGED <<nonmaxVars, corners, n, existing, best>>

Next ==
  \/ SetExistingFeatures \/ DetectLevel \/ Suppress \/ StartGrid \/ KeepBest \/ NextLevel
  \/ MakeFeatures

Spec == Init /\ [][Next]_vars

-----------------------------------------------------------------------------
(* Properties                                                               *)

(* The features of a frame are spread over the grid: a cell has at most one *)
(* new feature, none if it had one before, and else the best corner seen in *)
(* it on any level, if that is good enough.  What other frames had there    *)
(* makes no difference.                                                    *)
FeaturesSpread ==
  pc = "idle" => \A k \in Cells :
    LET old == {p \in existing : CellOf(p) = k}
        new == {p \in fts \ existing : CellOf(p) = k}
    IN  IF old # {} \/ best[k] <= detection_threshold THEN new = {}
        ELSE new = {corners[k].px} /\ corners[k].score = best[k]
=============================================================================
