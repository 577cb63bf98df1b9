--------------------------- MODULE FrameHandlerBase ---------------------------
(***************************************************************************)
(* The state machine of SVO                                                *)
(* (externals/svo/src/frame_handler_{base,mono}.cpp): the stage, the       *)
(* tracking quality, and the requests to start and to reset, which are two *)
(* flags that another thread may set while an image is being processed.    *)
(*                                                                         *)
(* Of an image only this counts: how many points of the map are found in   *)
(* it, how many of these the pose optimizer keeps, and whether it is taken *)
(* for a keyframe.  Of the map only its size is left; FrameHandlerMono has *)
(* what is in it.                                                          *)
(***************************************************************************)
EXTENDS Integers

CONSTANTS
  MaxNKfs,           \* Config::maxNKfs()
  MaxFts,            \* Config::maxFts()
  QualityMinFts,     \* Config::qualityMinFts()
  QualityMaxFtsDrop, \* Config::qualityMaxFtsDrop()
  MinEdges,          \* 20 in processFrame
  Matches            \* how many points may be found in an image

ASSUME ConfigAssumption ==
  MaxNKfs \in Nat /\ {MaxFts, QualityMinFts, MinEdges} \subseteq Nat /\ QualityMaxFtsDrop \in Int
ASSUME MatchesAssumption == Matches \subseteq Nat

VARIABLES
  set_start_, set_reset_,
  stage_,
  tracking_quality_,
  num_obs_last_,
  map_size,  \* map_.size()
  pc,        \* where addImage is
  caller     \* what made it call resetAll

requests == <<set_start_, set_reset_>>
tracking == <<tracking_quality_, num_obs_last_>>
vars == <<requests, stage_, tracking, map_size, pc, caller>>

Stages == {"paused", "first", "second", "default", "relocalizing"}
PCs == {"idle", "process", "test", "reset", "clear"}
Callers == {"start", "failure", "request"}

Init ==
  /\ set_start_ = FALSE /\ set_reset_ = FALSE
  /\ stage_ = "paused" /\ tracking_quality_ = "insufficient" /\ num_obs_last_ = 0
  /\ map_size = 0 /\ pc = "idle" /\ caller = "none"

Goto(from, to) == pc = from /\ pc' = to /\ caller' = caller

-----------------------------------------------------------------------------
(* The user: start() and reset(), at any time                               *)

Start == set_start_' = TRUE /\ UNCHANGED <<set_reset_, stage_, tracking, map_size, pc, caller>>

Reset == set_reset_' = TRUE /\ UNCHANGED <<set_start_, stage_, tracking, map_size, pc, caller>>

-----------------------------------------------------------------------------
(* resetAll: resetCommon takes back the one request, then the other.        *)

CallReset(from, who) == pc = from /\ pc' = "reset" /\ caller' = who

ResetCommon ==
  /\ Goto("reset", "clear")
  /\ map_size' = 0
  /\ stage_' = "paused"
  /\ set_reset_' = FALSE
  /\ UNCHANGED <<set_start_, tracking>>

After == [start |-> "process", failure |-> "test", request |-> "idle"]

ResetReturn ==
  /\ pc = "clear" /\ pc' = After[caller] /\ caller' = "none"
  /\ set_start_' = FALSE
  /\ tracking_quality_' = "insufficient" /\ num_obs_last_' = 0
  /\ stage_' = IF caller = "start" THEN "first" ELSE stage_
  /\ UNCHANGED <<set_reset_, map_size>>

-----------------------------------------------------------------------------
(* The beginning and the end of addImage                                    *)

(* Mutant: a paused tracker does not look at the request.                   *)
StartRequestedUnpaused == set_start_ /\ stage_ # "paused"

StartRequested == set_start_

(* startFrameProcessingCommon; an image is ignored while paused.            *)
AddImage ==
  /\ \/ StartRequested /\ CallReset("idle", "start")
     \/ ~StartRequested /\ stage_ # "paused" /\ Goto("idle", "process")
  /\ UNCHANGED <<requests, stage_, tracking, map_size>>

(* Mutant: the failure of an initialization is taken for a loss of tracking. *)
CanRelocalizeAlways(stage) == stage # "first"

CanRelocalize(stage) == stage \in {"default", "relocalizing"}

(* Mutant: the quality is left as processFrame has it.                      *)
LostQualityKept(quality) == quality

LostQuality(quality) == "insufficient"

(* finishFrameProcessingCommon up to its test of set_reset_: for a frame    *)
(* that has been dealt with, and for RESULT_FAILURE.                        *)
Finish(stage, quality, size, obs) ==
  /\ Goto("process", "test")
  /\ stage_' = stage /\ tracking_quality_' = quality /\ num_obs_last_' = obs
  /\ map_size' = size
  /\ UNCHANGED requests

FinishFailed(quality, obs) ==
  \/ CanRelocalize(stage_) /\ Finish("relocalizing", LostQuality(quality), map_size, obs)
  \/ /\ ~CanRelocalize(stage_)
     /\ CallReset("process", "failure")
     /\ num_obs_last_' = obs
     /\ UNCHANGED <<requests, stage_, tracking_quality_, map_size>>

(* Mutant: a tracker that has lost its way is not reset.                    *)
ResetRequestedTracking == set_reset_ /\ stage_ # "relocalizing"

ResetRequested == set_reset_

FinishTest ==
  /\ \/ ResetRequested /\ CallReset("test", "request")
     \/ ~ResetRequested /\ Goto("test", "idle")
  /\ UNCHANGED <<requests, stage_, tracking, map_size>>

-----------------------------------------------------------------------------
(* The stages.  Neither of the first two frames has features unless the     *)
(* second is taken.                                                        *)

ProcessFirstFrame ==
  /\ stage_ = "first"
  /\ \/ Finish("first", tracking_quality_, map_size, 0)
     \/ Finish("second", tracking_quality_, map_size + 1, 0)

ProcessSecondFrame ==
  /\ stage_ = "second"
  /\ \/ FinishFailed(tracking_quality_, 0)
     \/ Finish("second", tracking_quality_, map_size, 0)
     \/ \E obs \in Matches : Finish("default", tracking_quality_, map_size + 1, obs)

Least(m, n) == IF m < n THEN m ELSE n

(* The difference is taken in size_t and read as an int: it has its sign.   *)
FeatureDrop(obs) == Least(num_obs_last_, MaxFts) - obs

SetTrackingQuality(obs) ==
  IF obs < QualityMinFts \/ FeatureDrop(obs) > QualityMaxFtsDrop THEN "insufficient" ELSE "good"

(* processFrame on an image in which `matches' points are found, `edges' of *)
(* which are no outliers: whether it succeeds, and the quality it leaves.   *)
Tracked(matches, edges) ==
  matches >= QualityMinFts /\ edges >= MinEdges /\ SetTrackingQuality(edges) = "good"

QualityAfter(matches, edges) ==
  IF matches < QualityMinFts THEN "insufficient"
  ELSE IF edges < MinEdges THEN tracking_quality_ ELSE SetTrackingQuality(edges)

MapFull == MaxNKfs > 2 /\ map_size >= MaxNKfs

(* A new keyframe takes the place of the furthest if the map is full.       *)
SizeWithKeyframe == IF MapFull THEN map_size ELSE map_size + 1

(* Both a frame tracked from the last and one relocalized end here.  Its    *)
(* outliers lose their points but stay among its features, and are counted. *)
ProcessFrame ==
  /\ CanRelocalize(stage_)
  /\ \E matches \in Matches : \E edges \in 0 .. matches :
       \/ /\ Tracked(matches, edges)
          /\ \E size \in {map_size, SizeWithKeyframe} : Finish("default", "good", size, matches)
       \/ /\ ~Tracked(matches, edges)
          /\ FinishFailed(QualityAfter(matches, edges), matches)

(* relocalizeFrame finds no keyframe or does not align the image to it.     *)
RelocalizeFrameFails ==
  /\ stage_ = "relocalizing"
  /\ FinishFailed(tracking_quality_, 0)

(* Called between two images; num_obs_last_ stays.  A map of one keyframe   *)
(* has no points yet, and the alignment needs 30.                          *)
RelocalizeFrameAtPose ==
  /\ Goto("idle", "idle")
  /\ map_size > 1
  /\ \E matches \in Matches : \E edges \in 0 .. matches :
       \/ /\ Tracked(matches, edges)
          /\ stage_' = "default" /\ tracking_quality_' = "good"
          /\ map_size' \in {map_size, SizeWithKeyframe}
       \/ /\ ~Tracked(matches, edges)
          /\ tracking_quality_' = QualityAfter(matches, edges)
          /\ UNCHANGED <<stage_, map_size>>
  /\ UNCHANGED <<requests, num_obs_last_>>

ImageStep ==
  \/ AddImage \/ ProcessFirstFrame \/ ProcessSecondFrame \/ ProcessFrame
  \/ RelocalizeFrameFails \/ FinishTest \/ ResetCommon \/ ResetReturn

Next == ImageStep \/ Start \/ Reset \/ RelocalizeFrameAtPose

Spec == Init /\ [][Next]_vars

(* Images keep coming and are processed; nothing makes the user call.       *)
FairSpec == Spec /\ WF_vars(ImageStep)

-----------------------------------------------------------------------------
(* Properties                                                               *)

(* The type invariant, and the limit on the number of keyframes.            *)
TypeOK ==
  /\ set_start_ \in BOOLEAN /\ set_reset_ \in BOOLEAN
  /\ stage_ \in Stages /\ tracking_quality_ \in {"insufficient", "good"}
  /\ num_obs_last_ \in Nat
  /\ map_size \in Nat /\ (MaxNKfs > 2 => map_size <= MaxNKfs)
  /\ pc \in PCs /\ caller \in Callers \cup {"none"}

(* The stage agrees with the map except in the middle of a reset: there is  *)
(* no keyframe before the first frame is selected, one before the second,   *)
(* and two at least for as long as frames are tracked or relocalized.       *)
StageOfMap ==
  pc \notin {"reset", "clear"} =>
    /\ stage_ \in {"paused", "first"} => map_size = 0
    /\ stage_ = "second" => map_size = 1
    /\ stage_ \in {"default", "relocalizing"} => map_size >= 2

(* Between two images the quality is good only if frames are being tracked: *)
(* not after a failure, although processFrame may fail without a word on    *)
(* the quality, nor before the first frame that is tracked.                 *)
QualityOfStage == pc = "idle" /\ tracking_quality_ = "good" => stage_ = "default"

StageGraph == INSTANCE TrackingStages WITH stage <- stage_, size <- map_size

(* Whatever is requested, whenever, the tracker goes through the stages and *)
(* the map grows only as TrackingStages has it.                             *)
ImplementsStages == StageGraph!Spec

(* reset(): "Will reset the map as soon as the current frame is finished    *)
(* processing."  It does, whatever else is requested or goes wrong.         *)
ResetServed == set_reset_ ~> stage_ = "paused"

(* A request to start that is there when an image comes starts the system.  *)
PendingStartServed == (set_start_ /\ pc = "idle") ~> stage_ = "first"

(* set_start_: "Flag the user can set to start the system when the next     *)
(* image is received."                                                     *)
StartServed == set_start_ ~> stage_ = "first"
=============================================================================
