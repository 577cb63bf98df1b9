------------------------------ MODULE Reprojector ------------------------------
(***************************************************************************)
(* How SVO finds its map again in a new image                              *)
(* (externals/svo/src/reprojector.cpp): the points of the close keyframes  *)
(* and the candidates are projected into a grid, and of each cell one      *)
(* point is matched, good ones first.  Points that are looked for in vain  *)
(* too often are deleted, and points found often enough become good.       *)
(*                                                                         *)
(* This is the inside of FrameHandlerMono's ReprojectMap, which leaves     *)
(* grid and counters open.  Where a point projects to, and whether it is   *)
(* matched there, is up to the image.  The mapper adds candidates at any   *)
(* time.                                                                   *)
(*                                                                         *)
(* Lists are sets: the order of features in a keyframe, of keyframes that  *)
(* are equally close and so of equally good points in a cell is arbitrary. *)
(* What the grid holds of a point says where it came from, so that one     *)
(* that is projected twice is there twice.                                 *)
(***************************************************************************)
EXTENDS Naturals, FiniteSets

CONSTANTS
  Points,
  Keyframes,    \* the keyframes the map can have
  NCells,       \* number of grid cells, numbered in the order they are visited
  MaxNKfs,      \* options_.max_n_kfs
  MaxFts,       \* Config::maxFts()
  MaxFailed,    \* [unknown, candidate |-> failures after which a point goes]
  OutOfFrame,   \* failures a candidate is charged for projecting nowhere
  MaxSucceeded  \* successes after which an unknown point is good

ASSUME LimitsAssumption ==
  /\ {MaxNKfs, MaxFts, OutOfFrame, MaxSucceeded} \subseteq Nat
  /\ NCells \in Nat \ {0} /\ IsFiniteSet(Points)
  /\ MaxFailed \in [{"unknown", "candidate"} -> Nat]

VARIABLES
  fts_,         \* the points of each keyframe's features
  candidates_,  \* <<point, keyframe of its feature>>, MapPointCandidates::candidates_
  type_, n_failed_, n_succeeded_, \* of each point; the counters stop beyond the limits
  projected,    \* points with last_projected_kf_id_ = id of the new frame
  cells,        \* grid_.cells: the entries projected into each
  n_matches_,
  features,     \* the points of the new frame's features
  pc, i,        \* where reprojectMap is, and the cell it is at
  close,        \* close_kfs that are still to be projected
  px,           \* the cell each point falls into, 0 if outside of the image
  before        \* history: types and features when the frame came

points == <<type_, n_failed_, n_succeeded_>>
map == <<fts_, candidates_>>
image == <<px, before>>
vars == <<map, points, projected, cells, n_matches_, features, pc, i, close, image>>

Cells == 1 .. NCells
Quality == [deleted |-> 0, candidate |-> 1, unknown |-> 2, good |-> 3]
CandidatePoints == {c[1] : c \in candidates_}
NoImage == [p \in Points |-> 0]
NoHistory == [types |-> [p \in Points |-> "none"], fts |-> [k \in Keyframes |-> {}]]

(* What a cell holds: a point, projected from a feature of a keyframe or    *)
(* from a candidate.                                                       *)
Entries == [pt : Points, kf : Keyframes, candidate : BOOLEAN]

(* Both keyframes of an initialization see its points.                      *)
Init ==
  /\ \E initial \in SUBSET Points, k1, k2 \in Keyframes :
       /\ k1 # k2
       /\ fts_ = [k \in Keyframes |-> IF k \in {k1, k2} THEN initial ELSE {}]
       /\ type_ = [p \in Points |-> IF p \in initial THEN "unknown" ELSE "none"]
  /\ candidates_ = {}
  /\ n_failed_ = [p \in Points |-> 0] /\ n_succeeded_ = [p \in Points |-> 0]
  /\ projected = {} /\ cells = [c \in Cells |-> {}] /\ n_matches_ = 0
  /\ features = {} /\ pc = "idle" /\ i = 1 /\ close = {}
  /\ px = NoImage /\ before = NoHistory

-----------------------------------------------------------------------------
(* Map operations the reprojector calls                                     *)

(* Counters are compared with limits only: they need not count further.     *)
CountTo(limit, n) == IF n > limit THEN limit + 1 ELSE n
FailedLimit == IF MaxFailed.unknown > MaxFailed.candidate THEN MaxFailed.unknown
                                                          ELSE MaxFailed.candidate

(* Map::safeDeletePoint: no keyframe keeps a feature of the point.          *)
WithoutPoint(p) ==
  [k \in Keyframes |-> fts_[k] \ {p}]

(* Mutant: the candidate stays in the list, as when deleteCandidate is      *)
(* called without the erasure.                                             *)
WithoutCandidatesKept(gone) == candidates_

WithoutCandidates(gone) == {c \in candidates_ : c[1] \notin gone}

-----------------------------------------------------------------------------
(* Reprojector::reprojectMap                                                *)

(* Map::getCloseKeyframes, sorted: any keyframes with points that overlap,  *)
(* of which the closest are used.                                          *)
CloseKeyframes ==
  {K \in SUBSET {k \in Keyframes : fts_[k] # {}} : Cardinality(K) <= MaxNKfs}

(* The next image: addImage empties the trash, reprojectMap resets the grid *)
(* and asks the map for close keyframes.                                   *)
NewFrame ==
  /\ pc = "idle" /\ pc' = "keyframes"
  /\ LET freed == {p \in Points : type_[p] = "deleted"}
     IN  /\ type_' = [p \in Points |-> IF p \in freed THEN "none" ELSE type_[p]]
         /\ n_failed_' = [p \in Points |-> IF p \in freed THEN 0 ELSE n_failed_[p]]
         /\ n_succeeded_' = [p \in Points |-> IF p \in freed THEN 0 ELSE n_succeeded_[p]]
  /\ cells' = [c \in Cells |-> {}] /\ n_matches_' = 0
  /\ projected' = {} /\ features' = {}
  /\ close' \in CloseKeyframes
  /\ px' \in [Points -> {0} \cup Cells]
  /\ before' = [types |-> type_', fts |-> fts_]
  /\ UNCHANGED <<map, i>>

(* Reprojector::reprojectPoint for each of the entries.                     *)
Reproject(entries) ==
  cells' = [c \in Cells |-> cells[c] \cup {e \in entries : px[e.pt] = c}]

(* Mutant: the test for last_projected_kf_id_ is left out.                  *)
ProjectOnceAnyway(p) == TRUE

ProjectOnce(p) == p \notin projected

ProjectKeyframe ==
  /\ pc = "keyframes"
  /\ \E k \in close :
       LET new == {p \in fts_[k] : ProjectOnce(p)}
       IN  /\ projected' = projected \cup new
           /\ Reproject([pt : new, kf : {k}, candidate : {FALSE}])
           /\ close' = close \ {k}
  /\ UNCHANGED <<map, points, n_matches_, features, pc, i, image>>

(* All candidates, under the lock of their list.                            *)
ProjectCandidates ==
  /\ pc = "keyframes" /\ close = {} /\ pc' = "cells" /\ i' = 1
  /\ LET out == {p \in CandidatePoints : px[p] = 0}
         gone == {p \in out : n_failed_[p] + OutOfFrame > MaxFailed.candidate}
     IN  /\ n_failed_' = [p \in Points |->
              IF p \in out THEN CountTo(FailedLimit, n_failed_[p] + OutOfFrame)
                           ELSE n_failed_[p]]
         /\ type_' = [p \in Points |-> IF p \in gone THEN "deleted" ELSE type_[p]]
         /\ candidates_' = WithoutCandidates(gone)
  /\ Reproject({[pt |-> c[1], kf |-> c[2], candidate |-> TRUE] : c \in candidates_})
  /\ UNCHANGED <<fts_, n_succeeded_, projected, n_matches_, features, close, image>>

(* Mutant: the cell is not sorted.                                          *)
BestOfAny(cell) == cell

(* The cell is sorted by quality and tried from the front.                  *)
BestOf(cell) == {e \in cell : \A d \in cell : Quality[type_[d.pt]] <= Quality[type_[e.pt]]}

(* The next cell, unless there are enough matches.                          *)
NextCell(matches) ==
  IF matches > MaxFts \/ i = NCells THEN pc' = "decide" /\ i' = i
                                    ELSE pc' = pc /\ i' = i + 1

(* A match: the point gets a feature in the frame, and the cell is done.    *)
MatchPoint ==
  /\ pc = "cells"
  /\ \E e \in BestOf(cells[i]) :
       LET p == e.pt
           succeeded == n_succeeded_[p] + 1
       IN  /\ type_[p] # "deleted"
           /\ n_succeeded_' = [n_succeeded_ EXCEPT ![p] = CountTo(MaxSucceeded, succeeded)]
           /\ type_' = [type_ EXCEPT ![p] = IF @ = "unknown" /\ succeeded > MaxSucceeded
                                            THEN "good" ELSE @]
           /\ features' = features \cup {p}
           /\ cells' = [cells EXCEPT ![i] = @ \ {e}]
  /\ n_matches_' = n_matches_ + 1
  /\ NextCell(n_matches_ + 1)
  /\ UNCHANGED <<map, n_failed_, projected, close, image>>

(* Mutant: the limit for unknown points is applied to good ones too.        *)
LostForGoodToo(p, failed) ==
  IF type_[p] = "candidate" THEN failed > MaxFailed.candidate ELSE failed > MaxFailed.unknown

LostForGood(p, failed) ==
  \/ type_[p] = "unknown" /\ failed > MaxFailed.unknown
  \/ type_[p] = "candidate" /\ failed > MaxFailed.candidate

(* No match: the point may have failed too often, and the next is tried.  A *)
(* deleted point would be passed over; CellsSound says there is none.      *)
MissPoint ==
  /\ pc = "cells"
  /\ \E e \in BestOf(cells[i]) :
       LET p == e.pt
           failed == n_failed_[p] + (IF type_[p] = "deleted" THEN 0 ELSE 1)
           gone == LostForGood(p, failed)
       IN  /\ n_failed_' = [n_failed_ EXCEPT ![p] = CountTo(FailedLimit, failed)]
           /\ type_' = [type_ EXCEPT ![p] = IF gone THEN "deleted" ELSE @]
           /\ fts_' = IF gone /\ type_[p] = "unknown" THEN WithoutPoint(p) ELSE fts_
           /\ candidates_' = IF gone /\ type_[p] = "candidate" THEN WithoutCandidates({p})
                                                               ELSE candidates_
           /\ cells' = [cells EXCEPT ![i] = @ \ {e}]
  /\ UNCHANGED <<n_succeeded_, projected, n_matches_, features, pc, i, close, image>>

LeaveCell ==
  /\ pc = "cells" /\ cells[i] = {}
  /\ NextCell(n_matches_)
  /\ UNCHANGED <<map, points, projected, cells, n_matches_, features, close, image>>

-----------------------------------------------------------------------------
(* What becomes of the frame, and the mapper                                *)

(* Nothing looks at the grid before it is reset for the next frame.         *)
EndFrame ==
  /\ pc = "decide" /\ pc' = "idle" /\ i' = 1
  /\ projected' = {} /\ cells' = [c \in Cells |-> {}] /\ n_matches_' = 0 /\ features' = {}
  /\ px' = NoImage /\ before' = NoHistory

ForgetFrame ==
  /\ EndFrame
  /\ UNCHANGED <<map, points, close>>

(* Mutant: the failures of a candidate are held against the point.          *)
PromotedKeepsCount(seen) == n_failed_

PromotedCount(seen) == [p \in Points |-> IF p \in seen THEN 0 ELSE n_failed_[p]]

(* The frame is made a keyframe, without its outliers; the candidates it    *)
(* sees become points (MapPointCandidates::addCandidatePointToFrame).       *)
MakeKeyframe ==
  /\ EndFrame
  /\ \E kept \in SUBSET features, new \in Keyframes :
       LET seen == {c \in candidates_ : c[1] \in kept}
           points_seen == {c[1] : c \in seen}
       IN  /\ fts_[new] = {} /\ \A c \in candidates_ : c[2] # new
           /\ fts_' = [k \in Keyframes |->
                IF k = new THEN kept ELSE fts_[k] \cup {c[1] : c \in {s \in seen : s[2] = k}}]
           /\ type_' = [p \in Points |-> IF p \in points_seen THEN "unknown" ELSE type_[p]]
           /\ n_failed_' = PromotedCount(points_seen)
           /\ candidates_' = WithoutCandidates(points_seen)
  /\ UNCHANGED <<n_succeeded_, close>>

(* The mapper: a seed of some keyframe has converged.                       *)
NewCandidatePoint ==
  /\ \E p \in Points, k \in Keyframes :
       /\ type_[p] = "none" /\ fts_[k] # {}
       /\ type_' = [type_ EXCEPT ![p] = "candidate"]
       /\ candidates_' = candidates_ \cup {<<p, k>>}
  /\ UNCHANGED <<fts_, n_failed_, n_succeeded_, projected, cells, n_matches_, features, pc, i,
                 close, image>>

Next ==
  \/ NewFrame \/ ProjectKeyframe \/ ProjectCandidates
  \/ MatchPoint \/ MissPoint \/ LeaveCell
  \/ ForgetFrame \/ MakeKeyframe
  \/ NewCandidatePoint

Spec == Init /\ [][Next]_vars

-----------------------------------------------------------------------------
(* Properties                                                               *)

(* The type invariant, the list of candidates, which holds every candidate  *)
(* once, and the limit on matches: one more than Config::maxFts() is made.  *)
TypeOK ==
  /\ fts_ \in [Keyframes -> SUBSET Points] /\ candidates_ \subseteq Points \X Keyframes
  /\ type_ \in [Points -> {"none", "deleted", "candidate", "unknown", "good"}]
  /\ n_failed_ \in [Points -> 0 .. FailedLimit + 1]
  /\ n_succeeded_ \in [Points -> 0 .. MaxSucceeded + 1]
  /\ projected \subseteq Points /\ cells \in [Cells -> SUBSET Entries] /\ i \in Cells
  /\ features \subseteq Points /\ n_matches_ = Cardinality(features) /\ n_matches_ <= MaxFts + 1
  /\ CandidatePoints = {p \in Points : type_[p] = "candidate"}
  /\ \A c, d \in candidates_ : c[1] = d[1] => c = d

(* While a frame is matched, a point waits in one cell once, and only if it *)
(* is neither deleted nor matched ("make sure we project a point only       *)
(* once").                                                                 *)
CellsSound ==
  pc # "idle" =>
    \A c \in Cells : \A e \in cells[c] :
      /\ type_[e.pt] \in {"candidate", "unknown", "good"} /\ e.pt \notin features
      /\ \A d \in Cells : \A f \in cells[d] : e.pt = f.pt => c = d /\ e = f

(* Points are judged by the failures since they got their type: an unknown  *)
(* point that is kept has not failed more often than unknown points may,    *)
(* though it may have failed more often as a candidate.                    *)
CountersWithinLimits ==
  \A p \in Points :
    /\ type_[p] \in {"unknown", "candidate"} => n_failed_[p] <= MaxFailed[type_[p]]
    /\ type_[p] = "good" => n_succeeded_[p] > MaxSucceeded

(* What FrameHandlerMono's ReprojectMap takes for granted: a frame has one  *)
(* feature per point and per cell; only points that were not matched are    *)
(* deleted, and never good ones; only matched ones are promoted; keyframes  *)
(* lose the deleted points and no others.                                  *)
OldType(p) == IF before.types[p] = "none" THEN "candidate" ELSE before.types[p]
Judged(p) ==
  \/ type_[p] = before.types[p]
  \/ type_[p] = "candidate" /\ before.types[p] = "none"
  \/ type_[p] = "deleted" /\ OldType(p) # "good" /\ p \notin features
  \/ type_[p] = "good" /\ p \in features
OutcomeAllowed ==
  pc = "decide" =>
    /\ \A p, q \in features : px[p] = px[q] => p = q
    /\ \A p \in Points : Judged(p)
    /\ \A k \in Keyframes : fts_[k] = {p \in before.fts[k] : type_[p] # "deleted"}

(* "We prefer good quality points over unknown quality and unknown quality  *)
(* over candidates": what is left in a cell is no better than the point     *)
(* that was matched in it, and a cell where nothing was matched has been    *)
(* tried to the end, unless there were matches enough before.              *)
MatchedBest(c) ==
  cells[c] = {} \/ \E p \in features : /\ px[p] = c
                                      /\ \A e \in cells[c] : Quality[type_[e.pt]] <= Quality[OldType(p)]
BestMatched ==
  pc = "decide" => \A c \in Cells : IF c > i THEN n_matches_ > MaxFts ELSE MatchedBest(c)
=============================================================================
