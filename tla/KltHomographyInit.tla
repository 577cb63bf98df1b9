--------------------------- MODULE KltHomographyInit ---------------------------
(***************************************************************************)
(* KltHomographyInit (externals/svo/src/initialization.cpp): the corners   *)
(* of the first image are tracked from image to image, and those that are  *)
(* still there make the first points of the map.  What is known of a       *)
(* corner lies in several vectors, at the same index in each; corners that *)
(* are lost are erased from them one by one.                               *)
(*                                                                         *)
(* A corner is its number in the first image.  A vector holds, for each of *)
(* its elements, the corner it is about.                                   *)
(***************************************************************************)
EXTENDS Naturals, Sequences, FiniteSets

CONSTANTS MinTracked, MinInliers  \* Config::initMinTracked(), initMinInliers()

VARIABLES
  frame_ref_,    \* is there a first frame?
  px_ref_, px_cur_, f_ref_, f_cur_,
  disparities_,  \* their number; getMedian changes their order
  at,            \* where the three iterators of trackKlt are
  entry,         \* its i, the entry of status that is read next
  status,        \* corners the optical flow has found, by their index at the call
  tracked,       \* history: px_ref_ at that call
  features,      \* what the features made for each point were copied from
  call           \* where the code is

vectors == <<px_ref_, px_cur_, f_ref_>>
bearings == <<f_cur_, disparities_>>
walk == <<at, entry, status, tracked>>
kltVars == <<frame_ref_, vectors, bearings, walk, features, call>>

MinCorners == 100

KltInit ==
  /\ frame_ref_ = FALSE /\ call = "none" /\ features = {}
  /\ px_ref_ = <<>> /\ px_cur_ = <<>> /\ f_ref_ = <<>> /\ f_cur_ = <<>> /\ disparities_ = 0
  /\ at = 1 /\ entry = 1 /\ status = {} /\ tracked = <<>>

(* vector::erase.                                                           *)
Erase(vector, k) == SubSeq(vector, 1, k - 1) \o SubSeq(vector, k + 1, Len(vector))

(* detectFeatures fills the vector anew.                                    *)
DetectFeatures(n) == [k \in 1 .. n |-> k]

(* addFirstFrame, in the stage for the first frame.  What an earlier        *)
(* initialization left is replaced.                                        *)
AddFirstFrame ==
  /\ call = "none"
  /\ \E n \in Nat :
       /\ px_ref_' = DetectFeatures(n) /\ f_ref_' = px_ref_'
       /\ \/ n < MinCorners /\ frame_ref_' = FALSE /\ px_cur_' = <<>>
          \/ n >= MinCorners /\ frame_ref_' = TRUE /\ px_cur_' = px_ref_'
  /\ features' = {}
  /\ UNCHANGED <<bearings, walk, call>>

(* addSecondFrame, called once there is a first one: the optical flow of    *)
(* trackKlt, which moves px_cur_ and sets status.                          *)
AddSecondFrame ==
  /\ call = "none" /\ frame_ref_ /\ call' = "trackKlt"
  /\ f_cur_' = <<>> /\ disparities_' = 0
  /\ at' = 1 /\ entry' = 1 /\ tracked' = px_ref_
  /\ status' \in SUBSET (1 .. Len(px_ref_))
  /\ UNCHANGED <<frame_ref_, vectors, features>>

Walking == call = "trackKlt" /\ at <= Len(px_ref_)

LoseCorner ==
  /\ Walking /\ entry \notin status
  /\ px_ref_' = Erase(px_ref_, at) /\ px_cur_' = Erase(px_cur_, at) /\ f_ref_' = Erase(f_ref_, at)
  /\ entry' = entry + 1
  /\ UNCHANGED <<frame_ref_, bearings, at, status, tracked, features, call>>

KeepCorner ==
  /\ Walking /\ entry \in status
  /\ f_cur_' = Append(f_cur_, px_cur_[at]) /\ disparities_' = disparities_ + 1
  /\ at' = at + 1 /\ entry' = entry + 1
  /\ UNCHANGED <<frame_ref_, vectors, status, tracked, features, call>>

Tracked == call = "trackKlt" /\ at > Len(px_ref_)

(* Too few are left, the parallax is small, or the homography has too few   *)
(* inliers: the vectors stay as they are, for the next frame.              *)
NotYet ==
  /\ Tracked /\ call' = "none"
  /\ UNCHANGED <<frame_ref_, vectors, bearings, walk, features>>

(* computeHomography: the indices of any features that fit.                 *)
Inliers == SUBSET (1 .. Len(f_cur_))

(* An inlier makes a point if it lies in both images and in front.          *)
CreatePoints ==
  /\ Tracked /\ disparities_ >= MinTracked
  /\ \E inliers_ \in Inliers :
       /\ Cardinality(inliers_) >= MinInliers
       /\ \E seen \in SUBSET inliers_ :
            features' = {[px_cur |-> px_cur_[k], f_cur |-> f_cur_[k],
                          px_ref |-> px_ref_[k], f_ref |-> f_ref_[k]] : k \in seen}
  /\ call' = "success"
  /\ UNCHANGED <<frame_ref_, vectors, bearings, walk>>

(* reset, by processSecondFrame; px_ref_ and f_ref_ are not cleared.        *)
KltReset ==
  /\ call = "success" /\ call' = "none"
  /\ px_cur_' = <<>> /\ frame_ref_' = FALSE
  /\ UNCHANGED <<px_ref_, f_ref_, bearings, walk, features>>

KltNext ==
  \/ AddFirstFrame \/ AddSecondFrame
  \/ LoseCorner \/ KeepCorner
  \/ NotYet \/ CreatePoints \/ KltReset

KltSpec == KltInit /\ [][KltNext]_kltVars

-----------------------------------------------------------------------------
(* Properties                                                               *)

(* Whenever the optical flow is called the vectors are of one length, as it *)
(* demands.  The iterators, which do not move where corners are erased,     *)
(* stay at the corner whose status is read.                                *)
StatusOfCorner ==
  /\ frame_ref_ /\ call = "none" => Len(px_cur_) = Len(px_ref_) /\ Len(f_ref_) = Len(px_ref_)
  /\ Walking => /\ at <= Len(px_cur_) /\ at <= Len(f_ref_)
                /\ entry \in 1 .. Len(tracked) /\ px_ref_[at] = tracked[entry]

(* Exactly the corners that were found again are left, each once.           *)
KeptExactly ==
  Tracked =>
    /\ {px_ref_[k] : k \in 1 .. Len(px_ref_)} = {tracked[k] : k \in status}
    /\ \A j, k \in 1 .. Len(px_ref_) : px_ref_[j] = px_ref_[k] => j = k
    /\ disparities_ = Len(px_ref_)

(* The two features of a point are of one corner, pixels and bearings, and  *)
(* the corner was found in the last image.                                 *)
OneCorner ==
  call = "success" =>
    \A f \in features :
      /\ f.px_cur = f.px_ref /\ f.f_cur = f.px_ref /\ f.f_ref = f.px_ref
      /\ \E k \in status : f.px_ref = tracked[k]
=============================================================================
