---------------------------- MODULE MCDepthFilter ----------------------------
(* Instances of DepthFilter for TLC: which calls the client makes.          *)
EXTENDS DepthFilter

TrackingCalls == {"startThread", "addFrame", "addKeyframe"}
StoppingCalls == TrackingCalls \cup {"stopThread"}
RunningCalls == TrackingCalls \cup {"removeKeyframe", "reset"}

(* Frames are interchangeable: for the safety runs.                         *)
FrameSymmetry == Permutations(Frames)
=============================================================================
