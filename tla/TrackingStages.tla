---------------------------- MODULE TrackingStages ----------------------------
(***************************************************************************)
(* The stages of SVO and the number of its keyframes                       *)
(* (FrameHandlerBase::Stage in externals/svo/src/frame_handler_base.h, and *)
(* map_.size()), as both the state machine and the tracker at work on its  *)
(* map go through them: FrameHandlerBase and FrameHandlerMono implement    *)
(* this.                                                                   *)
(***************************************************************************)
EXTENDS Integers

CONSTANT MaxNKfs   \* Config::maxNKfs()

VARIABLES stage, size

Init == stage = "paused" /\ size = 0

Start == stage = "paused" /\ stage' = "first" /\ size' = size

(* The two frames of the initialization.                                    *)
FirstKeyframe == stage = "first" /\ stage' = "second" /\ size' = size + 1

SecondKeyframe == stage = "second" /\ stage' = "default" /\ size' = size + 1

Tracks == stage \in {"default", "relocalizing"}

(* A frame that is found may be made a keyframe, which takes the place of   *)
(* the furthest if there are as many as there may be.                      *)
Full == MaxNKfs > 2 /\ size >= MaxNKfs

TrackFrame ==
  /\ Tracks /\ stage' = "default"
  /\ size' \in {size, IF Full THEN size ELSE size + 1}

LoseFrame == Tracks /\ stage' = "relocalizing" /\ size' = size

Reset == stage' = "paused" /\ size' = 0

Next == Start \/ FirstKeyframe \/ SecondKeyframe \/ TrackFrame \/ LoseFrame \/ Reset

Spec == Init /\ [][Next]_<<stage, size>>
=============================================================================
