--------------------------------- MODULE Map ---------------------------------
(***************************************************************************)
(* The map of SVO: keyframes, their features, 3D points, candidate points  *)
(* and the trash (externals/svo/src/{map,point,frame}.cpp).                *)
(*                                                                         *)
(* A frame has at most one feature of a point (the reprojector projects a  *)
(* point once per frame), so the feature is named by the two, and what     *)
(* counts about a frame's features is which points they refer to.  The     *)
(* module has the state and the operations, each as an action on it; the   *)
(* tracker that calls them is FrameHandlerMono.                            *)
(***************************************************************************)
EXTENDS Naturals, Sequences, FiniteSets, SequencesExt

CONSTANTS
  Frames,   \* the frame objects that can exist at the same time
  NoFrame,  \* a null FramePtr
  Points,   \* the point objects that can exist at the same time
  NoPoint   \* a null key point

ASSUME FramesAssumption == NoFrame \notin Frames
ASSUME PointsAssumption == NoPoint \notin Points

VARIABLES
  keyframes_,     \* the keyframes of the map
  fts_,           \* for each frame, the points its features refer to
  key_pts_,       \* for each frame, the point of its first key point
  obs_,           \* for each point, the frames of its observations, newest first
  type_,          \* Point::type_, "none" if there is no such point
  candidates_,    \* <<point, frame of its feature>> for each candidate
  trash_points_   \* how often each point is in the two trash lists

graph == <<fts_, key_pts_, obs_, type_>>
mapVars == <<keyframes_, graph, candidates_, trash_points_>>

PointTypes == {"none", "unknown", "good", "candidate", "deleted"}
Live(p) == type_[p] \in {"unknown", "good", "candidate"}
Observers(p) == ToSet(obs_[p])
CandidatePoints == {c[1] : c \in candidates_}

EmptyLists == [p \in Points |-> 0]

MapInit ==
  /\ keyframes_ = {} /\ candidates_ = {} /\ trash_points_ = EmptyLists
  /\ fts_ = [f \in Frames |-> {}] /\ key_pts_ = [f \in Frames |-> NoPoint]
  /\ obs_ = [p \in Points |-> <<>>] /\ type_ = [p \in Points |-> "none"]

-----------------------------------------------------------------------------
(* Key points: five features of a frame, chosen by where they are in the    *)
(* image.  The first stands for all: there is one if the frame has points.  *)

(* Frame::setKeyPoints on a frame whose key point is gone.                  *)
ChosenFrom(points) == IF points = {} THEN {NoPoint} ELSE points

(* Mutant: removeKeyPoint is not called.                                    *)
KeepKeyPoints(lost) == key_pts_' = key_pts_

(* Frame::removeKeyPoint for each of the features lost: another one of the  *)
(* frame's features takes the place of a key point.                        *)
RemoveKeyPoints(lost) ==
  LET bare == {f \in Frames : <<f, key_pts_[f]>> \in lost}
  IN  \E key \in [bare -> Points \cup {NoPoint}] :
        /\ \A f \in bare : key[f] \in ChosenFrom(fts_'[f])
        /\ key_pts_' = [f \in Frames |-> IF f \in bare THEN key[f] ELSE key_pts_[f]]

-----------------------------------------------------------------------------
(* Deleting.  A deleted point goes to the trash, which emptyTrash frees.    *)

Times(p, points) == IF p \in points THEN 1 ELSE 0

(* The points gone are pushed onto the trash list of the map, the          *)
(* candidates dropped onto that of the candidates: each push counts.        *)
Push(gone, dropped) ==
  trash_points_' = [p \in Points |-> trash_points_[p] + Times(p, gone) + Times(p, dropped)]

Trash(gone, dropped) ==
  /\ type_' = [p \in Points |-> IF p \in gone \cup dropped THEN "deleted" ELSE type_[p]]
  /\ Push(gone, dropped)

(* Map::safeDeletePoint of the points gone, and what Reprojector's          *)
(* deleteCandidate does to the candidates dropped; the new frame then has   *)
(* features of the points found.                                           *)
DeletePoints(gone, dropped, new, found) ==
  /\ fts_' = [[f \in Frames |-> fts_[f] \ {p \in gone : f \in Observers(p)}]
                EXCEPT ![new] = found]
  /\ RemoveKeyPoints({o \in Frames \X gone : o[1] \in Observers(o[2])})
  /\ obs_' = [p \in Points |-> IF p \in gone THEN <<>> ELSE obs_[p]]
  /\ candidates_' = {c \in candidates_ : c[1] \notin dropped}
  /\ Push(gone, dropped)

(* Mutant: a point is kept while two observations are left, of which one is *)
(* the one that goes.                                                      *)
TooFewViewsLate(p) == Len(obs_[p]) <= 1

TooFewViews(p) == Len(obs_[p]) <= 2

(* Mutant: the candidates of the frame stay.                                *)
CandidatesKept(f) == {}

CandidatesOf(f) == {c \in candidates_ : c[2] = f}

(* Map::safeDeleteFrame: the points that are left with less than two views  *)
(* go with it, and so do the candidates it is the reference of.            *)
SafeDeleteFrame(f) ==
  LET gone == {p \in fts_[f] : TooFewViews(p)}
      lost == {o \in Frames \X fts_[f] :
                 o[1] = f \/ (o[2] \in gone /\ o[1] \in Observers(o[2]))}
      dropped == CandidatesOf(f)
  IN  /\ keyframes_' = keyframes_ \ {f}
      /\ fts_' = [g \in Frames |-> {p \in fts_[g] : <<g, p>> \notin lost}]
      /\ RemoveKeyPoints(lost)
      /\ obs_' = [p \in Points |-> IF p \in gone THEN <<>>
                                   ELSE IF p \in fts_[f] THEN RemoveFirst(obs_[p], f)
                                   ELSE obs_[p]]
      /\ candidates_' = candidates_ \ dropped
      /\ Trash(gone, {c[1] : c \in dropped})

Free(points) ==
  /\ type_' = [p \in Points |-> IF p \in points THEN "none" ELSE type_[p]]
  /\ obs_' = [p \in Points |-> IF p \in points THEN <<>> ELSE obs_[p]]

(* Every entry of the lists is freed.                                       *)
EmptyTrash ==
  /\ Free({p \in Points : trash_points_[p] > 0})
  /\ trash_points_' = EmptyLists

(* Map::reset.  The points of the keyframes are not deleted, but nothing    *)
(* refers to them any more once the frames are gone.                       *)
MapReset ==
  /\ keyframes_' = {} /\ candidates_' = {} /\ trash_points_' = EmptyLists
  /\ Free(Points)
  /\ fts_' = [f \in Frames |-> {}] /\ key_pts_' = [f \in Frames |-> NoPoint]

-----------------------------------------------------------------------------
(* MapPointCandidates::newCandidatePoint, the callback of the depth filter  *)
(* for a seed of frame f that has converged.                               *)
NewCandidatePoint(f) ==
  /\ \E p \in Points :
       /\ type_[p] = "none"
       /\ type_' = [type_ EXCEPT ![p] = "candidate"]
       /\ obs_' = [obs_ EXCEPT ![p] = <<f>>]
       /\ candidates_' = candidates_ \cup {<<p, f>>}
  /\ UNCHANGED <<keyframes_, fts_, key_pts_, trash_points_>>

(* Mutant: the candidates that were seen stay candidates.                   *)
SeenNever(c, points) == FALSE

Seen(c, points) == c[1] \in points

(* Mutant: a candidate that became a point of the map stays in the list.    *)
TakenOverListed(seen) == candidates_

TakenOver(seen) == candidates_ \ seen

(* A frame that sees the points is made a keyframe: setKeyframe, addFrameRef *)
(* for its features, addCandidatePointToFrame.  A candidate it sees becomes *)
(* a point of the map, and its feature one of its reference frame's.       *)
MakeKeyframe(new, points) ==
  LET seen == {c \in candidates_ : Seen(c, points)}
  IN  /\ fts_' = [f \in Frames |-> (IF f = new THEN points ELSE fts_[f])
                                     \cup {c[1] : c \in {s \in seen : s[2] = f}}]
      /\ key_pts_' \in {[key_pts_ EXCEPT ![new] = p] : p \in ChosenFrom(points)}
      /\ obs_' = [p \in Points |-> IF p \in points THEN <<new>> \o obs_[p] ELSE obs_[p]]
      /\ type_' = [p \in Points |-> IF \E c \in seen : c[1] = p THEN "unknown" ELSE type_[p]]
      /\ candidates_' = TakenOver(seen)
=============================================================================
