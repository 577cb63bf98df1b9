----------------------------- MODULE EpipolarSearch -----------------------------
(***************************************************************************)
(* Matcher::findEpipolarMatchDirect (externals/svo/src/matcher.cpp): where *)
(* in a new image is a feature whose depth is known to lie in an interval? *)
(* The epipolar line is sampled; each pixel that a sample falls into is    *)
(* compared with the warped patch of the feature, once for samples in a    *)
(* row, and the best one is refined and triangulated.                      *)
(***************************************************************************)
EXTENDS Integers

CONSTANT MaxSteps  \* options_.max_epi_search_steps

VARIABLES
  pc,
  pxi,               \* the pixel of each sample, at the search level
  zmssd,             \* the score of each pixel of the new image
  width, height,     \* of the search level
  n_steps, i, last_checked_pxi,
  zmssd_best, uv_best,
  reject_,           \* an edgelet along the line was not even searched
  result

image == <<pxi, zmssd, width, height>>
search == <<n_steps, i, last_checked_pxi, zmssd_best, uv_best>>
vars == <<pc, image, search, reject_, result>>

Position == Int \X Int
NoSample == -1
patch_size_ == 8
Threshold == 2000 * 64

(* AbstractCamera::isInFrame.                                               *)
InFrame(p) ==
  /\ p[1] >= patch_size_ /\ p[1] < width - patch_size_
  /\ p[2] >= patch_size_ /\ p[2] < height - patch_size_

Init ==
  /\ pc = "idle" /\ result = FALSE /\ reject_ = FALSE
  /\ pxi \in [Nat -> Position] /\ zmssd \in [Position -> Int]
  /\ width \in Nat /\ height \in Nat
  /\ n_steps = 0 /\ i = 0 /\ last_checked_pxi = <<0, 0>>
  /\ zmssd_best = Threshold /\ uv_best = NoSample

(* A call: any feature, frame and interval of depths.                       *)
FindEpipolarMatchDirect ==
  /\ pc = "idle"
  /\ pxi' \in [Nat -> Position] /\ zmssd' \in [Position -> Int]
  /\ width' \in Nat /\ height' \in Nat
  /\ zmssd_best' = Threshold /\ uv_best' = NoSample
  /\ \/ reject_' = TRUE /\ result' = FALSE /\ pc' = "idle"
     \/ reject_' = FALSE /\ pc' = "line" /\ UNCHANGED result
  /\ UNCHANGED <<n_steps, i, last_checked_pxi>>

(* Less than two pixels are left to refinement and triangulation.           *)
ShortLine ==
  /\ pc = "line"
  /\ pc' = "refine"
  /\ UNCHANGED <<image, search, reject_, result>>

(* One step for 0.7 pixels, so there are at least two; the line has one     *)
(* sample more than it has steps.                                          *)
LongLine ==
  /\ pc = "line"
  /\ \E steps \in Nat \ {0, 1} :
       \/ /\ steps > MaxSteps
          /\ pc' = "idle" /\ result' = FALSE
          /\ UNCHANGED search
       \/ /\ steps <= MaxSteps
          /\ pc' = "search" /\ n_steps' = steps + 1
          /\ i' = 0 /\ last_checked_pxi' = <<0, 0>>
          /\ UNCHANGED <<zmssd_best, uv_best, result>>
  /\ UNCHANGED <<image, reject_>>

Sampled ==
  /\ pc = "search" /\ i < n_steps
  /\ i' = i + 1
  /\ last_checked_pxi' = pxi[i]
  /\ UNCHANGED <<pc, image, n_steps, reject_, result>>

Skip ==
  /\ Sampled
  /\ pxi[i] = last_checked_pxi \/ ~InFrame(pxi[i])
  /\ UNCHANGED <<zmssd_best, uv_best>>

Better == zmssd[pxi[i]] < zmssd_best
Compare ==
  /\ Sampled
  /\ pxi[i] # last_checked_pxi /\ InFrame(pxi[i])
  /\ \/ Better /\ zmssd_best' = zmssd[pxi[i]] /\ uv_best' = i
     \/ ~Better /\ UNCHANGED <<zmssd_best, uv_best>>

EndSearch ==
  /\ pc = "search" /\ i = n_steps
  /\ pc' = IF zmssd_best < Threshold THEN "matched" ELSE "unmatched"
  /\ UNCHANGED <<image, search, reject_, result>>

(* align1D or align2D and depthFromTriangulation: numerics.                 *)
Return ==
  /\ pc \in {"refine", "matched", "unmatched"}
  /\ result' \in BOOLEAN
  /\ pc = "unmatched" => result' = FALSE
  /\ pc' = "idle"
  /\ UNCHANGED <<image, search, reject_>>

Next ==
  \/ FindEpipolarMatchDirect
  \/ ShortLine \/ LongLine
  \/ Skip \/ Compare \/ EndSearch
  \/ Return

Spec == Init /\ [][Next]_vars

-----------------------------------------------------------------------------
(* The search finds the best of all samples in the image, the first of      *)
(* equals, and finds one if any is below the threshold: the samples that    *)
(* are skipped, the pixel <<0, 0>> that counts as checked before any is,    *)
(* and the rounding of samples to pixels lose none.                        *)
Samples == 0 .. n_steps - 1
SearchExact ==
  /\ pc = "matched" =>
       /\ uv_best \in Samples
       /\ InFrame(pxi[uv_best]) /\ zmssd[pxi[uv_best]] = zmssd_best
       /\ zmssd_best < Threshold
       /\ \A k \in Samples : InFrame(pxi[k]) =>
            /\ zmssd_best <= zmssd[pxi[k]]
            /\ k < uv_best => zmssd_best < zmssd[pxi[k]]
  /\ pc = "unmatched" =>
       \A k \in Samples : InFrame(pxi[k]) => Threshold <= zmssd[pxi[k]]
=============================================================================
