--------------------------- MODULE FrameHandlerMono ---------------------------
(***************************************************************************)
(* The tracker of SVO at work on its map                                   *)
(* (externals/svo/src/{frame_handler_mono,frame_handler_base,reprojector}. *)
(* cpp), while the mapper turns converged seeds into candidate points.     *)
(*                                                                         *)
(* One image is processed in a few steps: those that end where a lock is   *)
(* given up that the mapper may want.  What images show decides the        *)
(* outcome: which points are found again, which are outliers, whether      *)
(* enough are left.  Of the depth filter only this is left: it makes seeds *)
(* for the keyframes it was given, when it gets round to it.               *)
(***************************************************************************)
EXTENDS Map

CONSTANTS
  MaxNKfs,  \* Config::maxNKfs(): from this many on, a keyframe is removed
  Restarts  \* whether the user starts and resets the tracker while it runs

ASSUME MaxNKfsAssumption == MaxNKfs \in Nat /\ MaxNKfs > 2
ASSUME RestartsAssumption == Restarts \in BOOLEAN

VARIABLES
  stage_,
  pc,          \* where addImage is
  last_frame_,
  new_frame_,
  furthest,    \* the keyframe that is being removed
  given,       \* keyframes given to the depth filter it may still make seeds for
  seeded,      \* frames that have seeds in the depth filter
  late         \* history: keyframes that left the map while they were given
               \* or seeded, so that the mapper can still make candidates

frames == <<last_frame_, new_frame_, furthest>>
filter == <<given, seeded, late>>
vars == <<mapVars, stage_, pc, frames, filter>>

(* The depth filter, by what it promises.                                   *)
Filter == INSTANCE SeedFilter

Stages == {"paused", "first", "second", "default", "relocalizing"}
PCs == {"idle", "process", "reproject", "decide", "remove", "erase", "add",
        "reset_map", "reset_filter", "start_map", "start_filter"}
FrameOrNull == Frames \cup {NoFrame}

Init ==
  /\ MapInit
  /\ stage_ = "paused" /\ pc = "idle"
  /\ last_frame_ = NoFrame /\ new_frame_ = NoFrame /\ furthest = NoFrame
  /\ Filter!Init /\ late = {}

-----------------------------------------------------------------------------
(* The beginning and the end of addImage                                    *)

(* The frames the mapper may make candidates for.                           *)
Pending == given \cup seeded

(* A new frame object: one nothing refers to, not even a dangling pointer.  *)
Unused(f) ==
  /\ f \notin keyframes_ \cup {last_frame_} \cup Pending
  /\ f \notin UNION {Observers(p) : p \in Points}

AddImage(f) ==
  /\ pc = "idle" /\ stage_ # "paused" /\ Unused(f)
  /\ pc' = IF stage_ = "default" THEN "reproject" ELSE "process"
  /\ new_frame_' = f
  /\ EmptyTrash
  /\ late' = late \ {f}
  /\ UNCHANGED <<keyframes_, fts_, key_pts_, candidates_, stage_, last_frame_, furthest,
                 given, seeded>>

(* A frame that is no keyframe goes, with its features, when it is no       *)
(* longer the last one.                                                    *)
WithoutLast(keyframes, features) ==
  [f \in Frames |-> IF f = last_frame_ /\ f \notin keyframes THEN {} ELSE features[f]]

(* The new frame becomes the last one.  Unless it failed too early, a      *)
(* failure makes the tracker relocalize; the user may have asked for a      *)
(* reset meanwhile.                                                        *)
Finish(keyframes, features, stage) ==
  /\ keyframes_' = keyframes
  /\ fts_' = WithoutLast(keyframes, features)
  /\ stage_' = stage
  /\ last_frame_' = new_frame_ /\ new_frame_' = NoFrame /\ furthest' = NoFrame
  /\ pc' = "idle" \/ (Restarts /\ pc' = "reset_map")

(* start() and reset() only set flags; addImage acts on them.               *)
Start ==
  /\ pc = "idle" /\ (stage_ = "paused" \/ Restarts)
  /\ pc' = "start_map"
  /\ UNCHANGED <<mapVars, stage_, frames, filter>>

(* resetAll, called by addImage at its start or its end: first the map,     *)
(* last the depth filter.                                                  *)
ResetMap ==
  /\ pc \in {"reset_map", "start_map"}
  /\ pc' = IF pc = "reset_map" THEN "reset_filter" ELSE "start_filter"
  /\ MapReset
  /\ stage_' = "paused"
  /\ last_frame_' = NoFrame /\ new_frame_' = NoFrame
  /\ late' = Pending
  /\ UNCHANGED <<furthest, given, seeded>>

ResetFilter ==
  /\ pc \in {"reset_filter", "start_filter"}
  /\ stage_' = IF pc = "start_filter" THEN "first" ELSE stage_
  /\ pc' = "idle"
  /\ Filter!Clear
  /\ UNCHANGED <<mapVars, frames, late>>

-----------------------------------------------------------------------------
(* The first two frames                                                     *)

(* Whether enough corners are found or not, there is no failure.            *)
ProcessFirstFrame ==
  /\ pc = "process" /\ stage_ = "first"
  /\ \/ Finish(keyframes_, fts_, "first")
     \/ Finish(keyframes_ \cup {new_frame_}, fts_, "second")
  /\ UNCHANGED <<key_pts_, obs_, type_, candidates_, trash_points_, filter>>

(* The triangulated points are seen from both keyframes.  setKeyframe finds *)
(* them in the second; in the first it has been called before.             *)
ProcessSecondFrame ==
  /\ pc = "process" /\ stage_ = "second"
  /\ \E ref \in keyframes_, points \in SUBSET {p \in Points : type_[p] = "none"} :
       /\ Finish(keyframes_ \cup {new_frame_},
                 [fts_ EXCEPT ![ref] = points, ![new_frame_] = points], "default")
       /\ key_pts_' \in {[key_pts_ EXCEPT ![new_frame_] = p] : p \in ChosenFrom(points)}
       /\ obs_' = [p \in Points |-> IF p \in points THEN <<ref, new_frame_>> ELSE obs_[p]]
       /\ type_' = [p \in Points |-> IF p \in points THEN "unknown" ELSE type_[p]]
  /\ Filter!Give(new_frame_)
  /\ UNCHANGED <<candidates_, trash_points_, late>>

SecondFrameNoKeyframe ==
  /\ pc = "process" /\ stage_ = "second"
  /\ Finish(keyframes_, fts_, "second")
  /\ UNCHANGED <<key_pts_, obs_, type_, candidates_, trash_points_, filter>>

(* Too few tracks or inliers: finishFrameProcessingCommon calls resetAll.   *)
SecondFrameFails ==
  /\ pc = "process" /\ stage_ = "second"
  /\ pc' = "reset_map"
  /\ UNCHANGED <<mapVars, stage_, frames, filter>>

-----------------------------------------------------------------------------
(* Relocalization                                                           *)

Findable(f) == key_pts_[f] # NoPoint

(* No keyframe is close, or the image cannot be aligned to the closest.     *)
RelocalizationFails ==
  /\ pc = "process" /\ stage_ = "relocalizing"
  /\ Finish(keyframes_, fts_, "relocalizing")
  /\ UNCHANGED <<key_pts_, obs_, type_, candidates_, trash_points_, filter>>

(* The closest keyframe is taken for the last frame.                        *)
RelocalizeFrame ==
  /\ pc = "process" /\ stage_ = "relocalizing"
  /\ \E ref \in keyframes_ : Findable(ref) /\ last_frame_' = ref
  /\ fts_' = WithoutLast(keyframes_, fts_)
  /\ pc' = "reproject"
  /\ UNCHANGED <<keyframes_, key_pts_, obs_, type_, candidates_, trash_points_, stage_,
                 new_frame_, furthest, filter>>

-----------------------------------------------------------------------------
(* A further frame: Reprojector::reprojectMap and the rest of processFrame  *)

(* The points of the keyframes getCloseKeyframes may return, and the        *)
(* candidates.                                                             *)
Projected == (UNION {fts_[f] : f \in {k \in keyframes_ : Findable(k)}}) \cup CandidatePoints

(* Mutant: a point may be deleted although it was found.                    *)
NotFoundAny(found) == Projected

NotFound(found) == Projected \ found

(* Of the points projected some are found; of the others, those that were   *)
(* looked for in vain too often are deleted.  The counters that say how     *)
(* often are left open, and so is which unknown points turn good.           *)
ReprojectMap ==
  /\ pc = "reproject" /\ pc' = "decide"
  /\ \E found \in SUBSET Projected :
     \E gone \in SUBSET {p \in NotFound(found) : type_[p] = "unknown"},
        dropped \in SUBSET {p \in NotFound(found) : type_[p] = "candidate"},
        promoted \in SUBSET {p \in found : type_[p] = "unknown"} :
       /\ DeletePoints(gone, dropped, new_frame_, found)
       /\ type_' = [p \in Points |-> IF p \in gone \cup dropped THEN "deleted"
                                     ELSE IF p \in promoted THEN "good" ELSE type_[p]]
  /\ UNCHANGED <<keyframes_, stage_, frames, filter>>

(* The pose optimizer drops the outliers among the features of the frame.   *)
Inliers == SUBSET fts_[new_frame_]

(* Too few features, or too many lost.                                      *)
ProcessFrameFails ==
  /\ pc = "decide"
  /\ \E inliers \in Inliers :
       Finish(keyframes_, [fts_ EXCEPT ![new_frame_] = inliers], "relocalizing")
  /\ UNCHANGED <<key_pts_, obs_, type_, candidates_, trash_points_, filter>>

(* A good frame near a keyframe: the depth filter gets it for its seeds.    *)
NoKeyframe ==
  /\ pc = "decide"
  /\ \E inliers \in Inliers \ {{}} :
       Finish(keyframes_, [fts_ EXCEPT ![new_frame_] = inliers], "default")
  /\ UNCHANGED <<key_pts_, obs_, type_, candidates_, trash_points_, filter>>

(* Mutant: one keyframe more is kept.                                       *)
MapFullLate == Cardinality(keyframes_) > MaxNKfs

MapFull == Cardinality(keyframes_) >= MaxNKfs

SelectKeyframe ==
  /\ pc = "decide"
  /\ pc' = IF MapFull THEN "remove" ELSE "add"
  /\ \E inliers \in Inliers \ {{}} : MakeKeyframe(new_frame_, inliers)
  /\ Filter!Give(new_frame_)
  /\ UNCHANGED <<keyframes_, trash_points_, stage_, frames, late>>

(* getFurthestKeyframe and DepthFilter::removeKeyframe.                     *)
RemoveFurthest ==
  /\ pc = "remove" /\ pc' = "erase"
  /\ \E f \in keyframes_ : furthest' = f /\ Filter!Erase(f)
  /\ UNCHANGED <<mapVars, stage_, last_frame_, new_frame_, late>>

EraseFurthest ==
  /\ pc = "erase" /\ pc' = "add"
  /\ SafeDeleteFrame(furthest)
  /\ late' = late \cup ({furthest} \cap Pending)
  /\ UNCHANGED <<stage_, frames, given, seeded>>

AddToMap ==
  /\ pc = "add"
  /\ Finish(keyframes_ \cup {new_frame_}, fts_, "default")
  /\ UNCHANGED <<key_pts_, obs_, type_, candidates_, trash_points_, filter>>

TrackerStep ==
  \/ \E f \in Frames : AddImage(f)
  \/ Start \/ ResetMap \/ ResetFilter
  \/ ProcessFirstFrame \/ ProcessSecondFrame \/ SecondFrameNoKeyframe \/ SecondFrameFails
  \/ RelocalizationFails \/ RelocalizeFrame
  \/ ReprojectMap \/ ProcessFrameFails \/ NoKeyframe \/ SelectKeyframe
  \/ RemoveFurthest \/ EraseFurthest \/ AddToMap

-----------------------------------------------------------------------------
(* The mapper                                                               *)

InitializeSeeds == Filter!MakeSeeds /\ UNCHANGED <<mapVars, stage_, pc, frames, late>>

LastSeedErased ==
  /\ \E f \in seeded : Filter!Erase(f)
  /\ UNCHANGED <<mapVars, stage_, pc, frames, late>>

SeedConverges ==
  /\ \E f \in seeded : NewCandidatePoint(f)
  /\ UNCHANGED <<stage_, pc, frames, filter>>

MapperStep == InitializeSeeds \/ LastSeedErased \/ SeedConverges

Next == TrackerStep \/ MapperStep

Spec == Init /\ [][Next]_vars

-----------------------------------------------------------------------------
(* Properties                                                               *)

(* The type invariant, and the limit on the number of keyframes.            *)
TypeOK ==
  /\ keyframes_ \subseteq Frames /\ Cardinality(keyframes_) <= MaxNKfs
  /\ fts_ \in [Frames -> SUBSET Points] /\ key_pts_ \in [Frames -> Points \cup {NoPoint}]
  /\ obs_ \in [Points -> Seq(Frames)] /\ type_ \in [Points -> PointTypes]
  /\ candidates_ \subseteq Points \X Frames /\ trash_points_ \in [Points -> Nat]
  /\ stage_ \in Stages /\ pc \in PCs
  /\ last_frame_ \in FrameOrNull /\ new_frame_ \in FrameOrNull /\ furthest \in FrameOrNull
  /\ given \subseteq Frames /\ seeded \subseteq Frames /\ late \subseteq Frames

(* The frames whose features the map answers for: the keyframes and, once   *)
(* it has been made one, the new frame.                                    *)
MapFrames == keyframes_ \cup (IF pc \in {"remove", "erase", "add"} THEN {new_frame_} ELSE {})

(* The frames that references may lead to.                                  *)
Referable == MapFrames \cup late

(* What map_debug::frameValidation and pointValidation look for: a feature  *)
(* of a keyframe refers to a point that is not deleted and refers back, and *)
(* every observation of a point is a feature that refers to it.  The only   *)
(* frames outside the map that points refer to are those the mapper still   *)
(* had when they left it.                                                   *)
ReferencesAgree ==
  /\ \A f \in MapFrames : \A p \in fts_[f] : type_[p] \in {"unknown", "good"} /\ f \in Observers(p)
  /\ \A p \in Points : type_[p] \in {"unknown", "good"} =>
       \A f \in Observers(p) : f \in Referable /\ p \in fts_[f]

(* A point of the map has been seen from two keyframes at least, by no      *)
(* keyframe twice ("if the references list of mappoint has only size=2,     *)
(* delete mappoint").                                                      *)
PointsShared ==
  \A p \in Points : type_[p] \in {"unknown", "good"} =>
    Len(obs_[p]) >= 2 /\ Cardinality(Observers(p)) = Len(obs_[p])

(* A key point of a keyframe has a point ("KeyPoints not correct!").        *)
KeyPointsCorrect == \A f \in MapFrames : Findable(f) => key_pts_[f] \in fts_[f]

(* A candidate has one observation, by a keyframe of the map or one the     *)
(* mapper still had when it left, and is no point of any keyframe ("not     *)
(* already assigned to two keyframes"): removing a keyframe takes with it   *)
(* all its candidates but those the mapper makes afterwards.                *)
CandidatesCorrect ==
  \A c \in candidates_ :
    /\ type_[c[1]] = "candidate" /\ obs_[c[1]] = <<c[2]>>
    /\ c[2] \in Referable
    /\ \A f \in MapFrames : c[1] \notin fts_[f]

(* No feature that is going to be read refers to a point that is deleted or *)
(* freed: those of the last frame (the image alignment of the next image    *)
(* reads them after it has emptied the trash) and those of the new frame    *)
(* (which may be made observations).                                       *)
FeaturesUsable ==
  /\ stage_ = "default" /\ pc = "idle" => \A p \in fts_[last_frame_] : Live(p)
  /\ pc \in {"decide", "remove", "erase", "add"} => \A p \in fts_[new_frame_] : Live(p)

(* A point that was deleted is in the trash, and only once, until it is     *)
(* freed: emptyTrash would free it twice, or never.                         *)
TrashExact == \A p \in Points : trash_points_[p] = IF type_[p] = "deleted" THEN 1 ELSE 0

(* getCloseKeyframes returns "all keyframes which have an overlapping field *)
(* of view": those with points have a key point to be found by.             *)
KeyframesFindable == \A f \in keyframes_ : fts_[f] # {} => Findable(f)

(* A keyframe that is being replaced still counts.                          *)
MapSize ==
  Cardinality(keyframes_) + (IF pc = "add" /\ furthest # NoFrame THEN 1 ELSE 0)

StageGraph == INSTANCE TrackingStages WITH stage <- stage_, size <- MapSize

(* The tracker at work on its map goes through the stages, and its map      *)
(* grows, only as TrackingStages has it, which FrameHandlerBase implements  *)
(* too: what that leaves out of the map makes no difference to the stages.  *)
ImplementsStages == StageGraph!Spec

(* Once there is a map, removing a keyframe never leaves the tracker with   *)
(* fewer than two: getFurthestKeyframe and getClosestKeyframe find one.     *)
AnotherKeyframe ==
  stage_ \in {"default", "relocalizing"} => Cardinality(keyframes_) >= 2
=============================================================================
